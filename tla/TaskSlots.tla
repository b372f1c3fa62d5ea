------------------------------ MODULE TaskSlots ------------------------------
(***************************************************************************)
(* What a download queue promises: a task is settled at most once, no more *)
(* than Slots tasks run at a time, and no slot stays free while a task     *)
(* waits for one.                                                          *)
(***************************************************************************)
EXTENDS Naturals, FiniteSets

CONSTANTS Task, Slots

VARIABLE stage   \* for each task: outside, accepted, running or settled

Running == { t \in Task : stage[t] = "running" }

Init == stage = [t \in Task |-> "outside"]

Move(t, from, to) ==
  /\ stage[t] = from
  /\ stage' = [stage EXCEPT ![t] = to]

Accept(t) == Move(t, "outside", "accepted")

Start(t) ==
  /\ Cardinality(Running) < Slots
  /\ Move(t, "accepted", "running")

End(t) == Move(t, "running", "settled")

\* Tasks are given up before they started, several at once if need be.
GiveUp(ts) ==
  /\ ts # {}
  /\ \A t \in ts : stage[t] = "accepted"
  /\ stage' = [t \in Task |-> IF t \in ts THEN "settled" ELSE stage[t]]

Next ==
  \/ \E t \in Task : Accept(t) \/ Start(t) \/ End(t)
  \/ \E ts \in SUBSET Task : GiveUp(ts)

\* A slot does not stay free while a task waits for one.  That tasks end is not
\* the queue's to promise.
Fairness == WF_stage(\E t \in Task : Start(t))

Safety == Init /\ [][Next]_stage

Spec == Safety /\ Fairness
==============================================================================
