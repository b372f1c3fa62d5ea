------------------------------- MODULE StateFile ------------------------------
(***************************************************************************)
(* The .dlstate file on disk (save, load and delete of src/src/state.rs),  *)
(* one system call a step: save truncates <path>.tmp, writes it, syncs it  *)
(* and renames it; several tasks may save one path, and share that name.   *)
(***************************************************************************)
EXTENDS Integers

CONSTANTS
  None,         \* a model value: no file, no state
  Empty,        \* a model value: a file that was just truncated
  Torn,         \* a model value: a file with anything else that is no state
  Savers,       \* the tasks that save
  States,       \* what they save
  SaveFails     \* a system call of save or delete may fail

ASSUME FileAssumption ==
  /\ SaveFails \in BOOLEAN
  /\ {Empty, Torn, None} \cap States = {}

VARIABLES
  disk,     \* what .dlstate and .dlstate.tmp hold
  kept,     \* what load could read in each of the two after a loss of power
  past,     \* ... and in files that were called .dlstate once
  step,     \* where each save is
  handle,   \* the file it has open, or "gone" once that has lost its name
  saving,   \* the state it saves
  mixed     \* history: what saves that overlap save, until all of them ended

saverVars == <<step, handle, saving, mixed>>
fileVars == <<disk, kept, past, saverVars>>

AllIdle  == [w \in Savers |-> "idle"]
AllGone  == [w \in Savers |-> "gone"]
NoStates == [w \in Savers |-> None]

FileInit ==
  /\ disk = [file |-> None, tmp |-> None]
  /\ kept = [f \in {"file", "tmp"} |-> {None}]
  /\ past = {}
  /\ step = AllIdle /\ handle = AllGone /\ saving = NoStates /\ mixed = {}

Busy == { w \in Savers : step[w] # "idle" }

\* load: what cannot be parsed is no state.
Parsed(content) == IF content \in States THEN content ELSE None
Loaded == Parsed(disk.file)

\* What load may return after a loss of power.  The directory is never synced:
\* any file that was called .dlstate may be again.
Entries == kept.file \cup past

\* A file that is written may show its old contents until it is synced, the new
\* ones, or part of either.
Holds(f, content) ==
  /\ disk' = [disk EXCEPT ![f] = content]
  /\ kept' = [kept EXCEPT ![f] = @ \cup {Parsed(content), None}]

\* File::create: an existing file is truncated, whoever has it open.
Create(w, s) ==
  /\ step[w] = "idle"
  /\ Holds("tmp", Empty)
  /\ step' = [step EXCEPT ![w] = "created"]
  /\ handle' = [handle EXCEPT ![w] = "tmp"]
  /\ saving' = [saving EXCEPT ![w] = s]
  /\ mixed' = IF Busy = {} THEN {} ELSE mixed \cup {s} \cup { saving[v] : v \in Busy }
  /\ UNCHANGED past

\* What a write leaves in the file it goes to, if that still has a name.
Leaves(w, content) ==
  IF handle[w] = "gone"
    THEN past' = past \cup {Parsed(content), None} /\ UNCHANGED <<disk, kept>>
    ELSE Holds(handle[w], content) /\ UNCHANGED past

\* write_all and flush.  Where another saver wrote first, the end of a longer
\* text stays behind a shorter one.
Write(w) ==
  /\ step[w] = "created"
  /\ \/ Leaves(w, saving[w])
     \/ handle[w] # "gone" /\ disk[handle[w]] # Empty /\ Leaves(w, Torn)
  /\ step' = [step EXCEPT ![w] = "written"]
  /\ UNCHANGED <<handle, saving, mixed>>

\* sync_all is taken to work.  Its error is ignored: on a file system that does
\* not support it a power loss may leave no state where there was one.
Sync(w) ==
  /\ step[w] = "written"
  /\ kept' = IF handle[w] = "gone" THEN kept
             ELSE [kept EXCEPT ![handle[w]] = {Parsed(disk[handle[w]])}]
  /\ step' = [step EXCEPT ![w] = "synced"]
  /\ UNCHANGED <<disk, past, handle, saving, mixed>>

\* The file called .dlstate loses that name, for good unless the power fails.
Unlinked(h) == IF h = "file" THEN "gone" ELSE h
Moved(h)    == IF h = "tmp" THEN "file" ELSE Unlinked(h)

SaveEnds(w) ==
  /\ step' = [step EXCEPT ![w] = "idle"]
  /\ saving' = [saving EXCEPT ![w] = None]
  /\ mixed' = IF Busy \subseteq {w} THEN {} ELSE mixed

\* Mutant: the rename does not wait for the sync.
RenamesUnsynced(w) == step[w] \in {"written", "synced"}
Renames(w) == step[w] = "synced"

Rename(w) ==
  /\ Renames(w)
  /\ disk.tmp # None
  /\ disk' = [file |-> disk.tmp, tmp |-> None]
  /\ kept' = [file |-> kept.tmp, tmp |-> {None}]
  /\ past' = Entries
  /\ handle' = [v \in Savers |-> IF v = w THEN "gone" ELSE Moved(handle[v])]
  /\ SaveEnds(w)

\* A call fails, be it a write half way, or a rename because another saver was
\* first.  The temporary file stays.
SaveFailed(w) ==
  /\ w \in Busy
  /\ \/ SaveFails /\ UNCHANGED <<disk, kept, past>>
     \/ SaveFails /\ step[w] = "created" /\ Leaves(w, Torn)
     \/ Renames(w) /\ disk.tmp = None /\ UNCHANGED <<disk, kept, past>>
  /\ handle' = [handle EXCEPT ![w] = "gone"]
  /\ SaveEnds(w)

Delete ==
  /\ \/ /\ disk' = [disk EXCEPT !.file = None]
        /\ kept' = [kept EXCEPT !.file = {None}]
        /\ past' = Entries
        /\ handle' = [v \in Savers |-> Unlinked(handle[v])]
     \/ SaveFails /\ UNCHANGED <<disk, kept, past, handle>>
  /\ UNCHANGED <<step, saving, mixed>>

SaversEnd == step' = AllIdle /\ handle' = AllGone /\ saving' = NoStates /\ mixed' = {}

\* The process ends: what it wrote stays.
Killed ==
  /\ SaversEnd
  /\ UNCHANGED <<disk, kept, past>>

\* The power fails.  (A temporary file that survives will be truncated.)
PowerLost ==
  /\ \E s \in Entries :
       /\ disk' = [file |-> s, tmp |-> None]
       /\ kept' = [file |-> {s}, tmp |-> {None}]
  /\ past' = {}
  /\ SaversEnd

SaveStep(w) == Write(w) \/ Sync(w) \/ Rename(w) \/ SaveFailed(w)

FileNext ==
  \/ \E w \in Savers : SaveStep(w) \/ \E s \in States : Create(w, s)
  \/ Delete \/ Killed \/ PowerLost

FileSpec == FileInit /\ [][FileNext]_fileVars

-------------------------------------------------------------------------------
FileTypeOK ==
  /\ disk \in [{"file", "tmp"} -> States \cup {None, Empty, Torn}]
  /\ kept \in [{"file", "tmp"} -> SUBSET (States \cup {None})]
  /\ past \subseteq States \cup {None}
  /\ step \in [Savers -> {"idle", "created", "written", "synced"}]
  /\ handle \in [Savers -> {"file", "tmp", "gone"}]
  /\ saving \in [Savers -> States \cup {None}]
  /\ mixed \subseteq States

Store == INSTANCE StateStore WITH saved <- Loaded, entries <- Entries

\* "Atomically write the state to disk" (state.rs): a save that overlaps no
\* other replaces the file at once or not at all, whatever ends in between;
\* saves that overlap leave nothing worse than a file that load refuses.
KeepsStateStore == Store!Spec
===============================================================================
