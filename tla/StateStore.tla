------------------------------ MODULE StateStore ------------------------------
(***************************************************************************)
(* What a file written by state::save promises to state::load: a save puts *)
(* a state there at once or not at all, and neither the end of the process *)
(* nor of the power shows load anything that no save put there.  This is   *)
(* the .dlstate file as MultiThread has it (saved, entries, Persist).      *)
(*                                                                         *)
(* Saves that overlap share a temporary file.  They lose that promise, and *)
(* keep a weaker one: load sees what one of them wrote, or nothing.        *)
(***************************************************************************)
CONSTANTS None, Savers

VARIABLES
  saved,      \* the state load returns, or None
  entries,    \* what load may return after the power failed
  saving,     \* the state each saver is saving, or None
  mixed       \* what saves that overlap are saving, until all of them ended

vars == <<saved, entries, saving, mixed>>

Idle == [w \in Savers |-> None]
Busy == { w \in Savers : saving[w] # None }

\* An earlier call, or another release, may have left a state.
Init ==
  /\ entries = {saved}
  /\ saving = Idle
  /\ mixed = {}

\* The directory is never synced: what was there may come back.
Shows(s) ==
  /\ saved' = s
  /\ s \in entries'
  /\ entries' \subseteq entries \cup {s}

Begin(w) ==
  /\ saving[w] = None
  /\ saving' = [saving EXCEPT ![w] = saving'[w]]
  /\ saving'[w] # None
  /\ mixed' = IF Busy = {} THEN {} ELSE mixed \cup { saving'[v] : v \in Busy \cup {w} }
  /\ UNCHANGED <<saved, entries>>

Ends(w) ==
  /\ saving' = [saving EXCEPT ![w] = None]
  /\ mixed' = IF Busy \subseteq {w} THEN {} ELSE mixed

Put(w) ==
  /\ w \in Busy
  /\ Shows(saving[w])
  /\ Ends(w)

\* An error, which the saver ignores.
GiveUp(w) ==
  /\ w \in Busy
  /\ Ends(w)
  /\ UNCHANGED <<saved, entries>>

\* What one of them writes, or what it renames.
Collide(w) ==
  /\ mixed # {}
  /\ saved' \in mixed \cup {saved, None}
  /\ saved' \in entries'
  /\ entries' \subseteq entries \cup mixed \cup {None}
  /\ Ends(w) \/ UNCHANGED <<saving, mixed>>

Remove ==
  /\ Shows(None)
  /\ UNCHANGED <<saving, mixed>>

AllEnd ==
  /\ saving' = Idle
  /\ mixed' = {}

Kill == AllEnd /\ UNCHANGED <<saved, entries>>

PowerLoss ==
  /\ saved' \in entries
  /\ entries' = {saved'}
  /\ AllEnd

Next ==
  \/ \E w \in Savers : Begin(w) \/ Put(w) \/ GiveUp(w) \/ Collide(w)
  \/ Remove \/ Kill \/ PowerLoss

Spec == Init /\ [][Next]_vars
===============================================================================
