------------------------- MODULE DownloadQueue_proofs -------------------------
(***************************************************************************)
(* Theorems about DownloadQueue, for any number of submissions, slots and  *)
(* calls of shutdown.                                                      *)
(***************************************************************************)
EXTENDS DownloadQueue, FiniteSetTheorems, TLAPS

Phases == {"new", "sending", "queued", "waiting", "running",
           "replied", "bailed", "panicked", "done", "refused", "lost"}

Holders == In({"running", "replied"})

\* What the semaphore's account rests on: a task in the channel is queued, and in
\* it once, so that receiving it takes no permit from a task that has one.
SlotsInv ==
  /\ phase \in [Submission -> Phases]
  /\ permits \in Nat
  /\ channel \in Seq(Submission \cup Stop)
  /\ \A k \in 1 .. Len(channel) :
       channel[k] \in Submission => phase[channel[k]] = "queued"
  /\ \A j, k \in 1 .. Len(channel) :
       channel[j] \in Submission /\ channel[j] = channel[k] => j = k
  /\ SlotsAccounted

-------------------------------------------------------------------------------

LEMMA SlotsType == Slots \in Nat \ {0}
  BY QueueAssumption DEF Slots

LEMMA HoldersFinite ==
  /\ IsFiniteSet(Holders)
  /\ Cardinality(Holders) \in Nat
<1>1. Holders \subseteq Submission
  BY DEF Holders, In
<1> QED
  BY <1>1, QueueAssumption, FS_Subset, FS_CardinalityType

\* A step that takes and gives no permit.
LEMMA HoldersKept ==
  ASSUME SlotsInv, phase' \in [Submission -> Phases], permits' = permits,
         \A t \in Submission : phase[t] \in {"running", "replied"}
                                 <=> phase'[t] \in {"running", "replied"}
  PROVE  SlotsAccounted'
<1>1. Holders' = Holders
  BY DEF Holders, In
<1> QED
  BY <1>1 DEF SlotsInv, SlotsAccounted, Holders

\* A task that is not in the channel moves on.
LEMMA MoveKeepsChannel ==
  ASSUME SlotsInv, NEW t \in Submission, NEW place \in Phases, Goto(t, place),
         UNCHANGED channel, phase[t] # "queued"
  PROVE  /\ phase' \in [Submission -> Phases]
         /\ channel' \in Seq(Submission \cup Stop)
         /\ \A k \in 1 .. Len(channel') :
              channel'[k] \in Submission => phase'[channel'[k]] = "queued"
         /\ \A j, k \in 1 .. Len(channel') :
              channel'[j] \in Submission /\ channel'[j] = channel'[k] => j = k
  BY DEF SlotsInv, Goto

\* A message is taken out of the channel.
LEMMA TakenFromChannel ==
  ASSUME SlotsInv, channel # <<>>
  PROVE  /\ Head(channel) \in Submission \cup Stop
         /\ Tail(channel) \in Seq(Submission \cup Stop)
         /\ Head(channel) = channel[1]
         /\ 1 \in 1 .. Len(channel)
         /\ \A k \in 1 .. Len(Tail(channel)) :
              k + 1 \in 1 .. Len(channel) /\ Tail(channel)[k] = channel[k + 1]
  BY DEF SlotsInv

LEMMA SlotsInit == Init => SlotsInv
<1> SUFFICES ASSUME Init PROVE SlotsInv
  OBVIOUS
<1>1. In({"running", "replied"}) = {}
  BY DEF Init, In
<1>2. Cardinality(In({"running", "replied"})) = 0
  BY <1>1, FS_EmptySet
<1> QED
  BY <1>2, SlotsType DEF Init, SlotsInv, SlotsAccounted, Phases

LEMMA SlotsStep == SlotsInv /\ [Next]_vars => SlotsInv'
<1> SUFFICES ASSUME SlotsInv, [Next]_vars PROVE SlotsInv'
  OBVIOUS
<1>0. phase \in [Submission -> Phases] /\ permits \in Nat /\ Slots \in Nat
      /\ permits + Cardinality(Holders) = Slots
  BY SlotsType DEF SlotsInv, SlotsAccounted, Holders
\* A task moves on, the channel and the semaphore stay.
<1>m. ASSUME NEW t \in Submission, NEW place \in Phases, Goto(t, place),
             UNCHANGED <<channel, permits>>, phase[t] # "queued",
             phase[t] \in {"running", "replied"} <=> place \in {"running", "replied"}
      PROVE  SlotsInv'
  <2>1. phase' = [phase EXCEPT ![t] = place]
    BY <1>m DEF Goto
  <2>2. SlotsAccounted'
    BY <2>1, <1>0, <1>m, HoldersKept
  <2> QED
    BY <1>0, <1>m, <2>2, MoveKeepsChannel DEF SlotsInv
\* Nothing moves.
<1>n. ASSUME UNCHANGED <<phase, channel, permits>> PROVE SlotsInv'
  BY <1>n DEF SlotsInv, SlotsAccounted, In
<1>1. ASSUME NEW t \in Submission, NEW i \in TaskIds, Submit(t, i) PROVE SlotsInv'
  BY <1>1, <1>m DEF Submit, Phases
<1>2. ASSUME NEW t \in Submission, Sent(t) PROVE SlotsInv'
  <2>1. phase' = [phase EXCEPT ![t] = "queued"] /\ channel' = Append(channel, t)
        /\ permits' = permits /\ phase[t] = "sending"
    BY <1>2 DEF Sent, Goto, queueVars
  <2>2. phase' \in [Submission -> Phases]
    BY <2>1, <1>0 DEF Phases
  <2>3. SlotsAccounted'
    BY <2>1, <2>2, <1>0, HoldersKept
  <2>4. /\ channel \in Seq(Submission \cup Stop)
        /\ channel' \in Seq(Submission \cup Stop)
        /\ Len(channel') = Len(channel) + 1
        /\ channel'[Len(channel) + 1] = t
        /\ \A k \in 1 .. Len(channel) : channel'[k] = channel[k]
    BY <2>1 DEF SlotsInv
  <2>5. \A k \in 1 .. Len(channel) : channel[k] # t
    BY <2>1 DEF SlotsInv
  <2>6. Len(channel) \in Nat
    BY <2>4
  <2>7. \A k \in 1 .. Len(channel') : k \in 1 .. Len(channel) \/ k = Len(channel) + 1
    BY <2>4, <2>6
  <2>8. \A k \in 1 .. Len(channel') :
          channel'[k] \in Submission => phase'[channel'[k]] = "queued"
    BY <1>0, <2>1, <2>4, <2>7 DEF SlotsInv
  <2>9. \A j, k \in 1 .. Len(channel') :
          channel'[j] \in Submission /\ channel'[j] = channel'[k] => j = k
    BY <2>4, <2>5, <2>7 DEF SlotsInv
  <2> QED
    BY <1>0, <2>1, <2>2, <2>3, <2>4, <2>8, <2>9 DEF SlotsInv
<1>3. ASSUME NEW t \in Submission, Refused(t) PROVE SlotsInv'
  BY <1>3, <1>m DEF Refused, Phases, queueVars
<1>4. ASSUME NEW t \in Submission, CancelHandle(t) PROVE SlotsInv'
  BY <1>4, <1>n DEF CancelHandle, OnlyTokens, queueVars
<1>5. ASSUME NEW t \in Submission, Acquire(t) PROVE SlotsInv'
  <2>1. phase' = [phase EXCEPT ![t] = "running"] /\ phase[t] = "waiting"
        /\ permits' = permits - 1 /\ permits > 0 /\ channel' = channel
    BY <1>5 DEF Acquire, Goto
  <2>2. Holders' = Holders \cup {t} /\ t \notin Holders
    BY <2>1, <1>0 DEF Holders, In
  <2>3. Cardinality(Holders') = Cardinality(Holders) + 1
    BY <2>2, HoldersFinite, FS_AddElement
  <2>4. SlotsAccounted'
    BY <2>1, <2>3, <1>0, HoldersFinite DEF SlotsAccounted, Holders
  <2> QED
    BY <1>0, <1>5, <2>1, <2>4, MoveKeepsChannel DEF SlotsInv, Acquire, Phases
<1>6. ASSUME NEW t \in Submission, Bail(t) PROVE SlotsInv'
  BY <1>6, <1>m DEF Bail, Phases, queueVars
<1>7. ASSUME NEW t \in Submission, Finish(t) PROVE SlotsInv'
  BY <1>7, <1>m DEF Finish, Phases, queueVars
<1>8. ASSUME NEW t \in Submission, Forget(t) PROVE SlotsInv'
  <2>1. CASE phase[t] = "bailed"
    <3>1. permits' = permits /\ channel' = channel /\ Goto(t, "done")
      BY <1>8, <2>1 DEF Forget, PermitsAfter
    <3> QED
      BY <2>1, <3>1, <1>m DEF Phases
  <2>2. CASE phase[t] = "replied"
    <3>1. phase' = [phase EXCEPT ![t] = "done"] /\ permits' = permits + 1 /\ channel' = channel
      BY <1>8, <2>2 DEF Forget, PermitsAfter, Goto
    <3>2. Holders' = Holders \ {t} /\ t \in Holders
      BY <2>2, <3>1, <1>0 DEF Holders, In
    <3>3. Cardinality(Holders') = Cardinality(Holders) - 1
      BY <3>2, HoldersFinite, FS_RemoveElement
    <3>4. SlotsAccounted'
      BY <3>1, <3>3, <1>0, HoldersFinite DEF SlotsAccounted, Holders
    <3> QED
      BY <1>0, <1>8, <2>2, <3>1, <3>4, MoveKeepsChannel DEF SlotsInv, Forget, Phases
  <2> QED
    BY <1>8, <2>1, <2>2 DEF Forget
<1>15. ASSUME NEW t \in Submission, Panic(t) PROVE SlotsInv'
  <2>1. phase' = [phase EXCEPT ![t] = "panicked"] /\ phase[t] = "running"
        /\ permits' = permits + 1 /\ channel' = channel
    BY <1>15 DEF Panic, Goto
  <2>2. Holders' = Holders \ {t} /\ t \in Holders
    BY <2>1, <1>0 DEF Holders, In
  <2>3. Cardinality(Holders') = Cardinality(Holders) - 1
    BY <2>2, HoldersFinite, FS_RemoveElement
  <2>4. SlotsAccounted'
    BY <2>1, <2>3, <1>0, HoldersFinite DEF SlotsAccounted, Holders
  <2> QED
    BY <1>0, <1>15, <2>1, <2>4, MoveKeepsChannel DEF SlotsInv, Panic, Phases
<1>9. ASSUME NEW s \in Stop, StopSent(s) PROVE SlotsInv'
  <2>1. UNCHANGED <<phase, permits>> /\ (channel' = Append(channel, s) \/ channel' = channel)
    BY <1>9 DEF StopSent, OnlyStopping, taskVars, queueVars
  <2>2. CASE channel' = Append(channel, s)
    <3>1. /\ channel \in Seq(Submission \cup Stop)
          /\ channel' \in Seq(Submission \cup Stop)
          /\ Len(channel') = Len(channel) + 1
          /\ channel'[Len(channel) + 1] = s
          /\ \A k \in 1 .. Len(channel) : channel'[k] = channel[k]
      BY <2>2 DEF SlotsInv
    <3>2. Len(channel) \in Nat /\ s \notin Submission
      BY <3>1, QueueAssumption
    <3>3. \A k \in 1 .. Len(channel') : k \in 1 .. Len(channel) \/ k = Len(channel) + 1
      BY <3>1, <3>2
    <3> QED
      BY <2>1, <3>1, <3>2, <3>3 DEF SlotsInv, SlotsAccounted, In
  <2> QED
    BY <2>1, <2>2, <1>n
<1>10. ASSUME NEW s \in Stop, Shutdown(s) \/ TakeHandle(s) \/ Joined(s) PROVE SlotsInv'
  BY <1>10, <1>n DEF Shutdown, TakeHandle, Joined, OnlyStopping, taskVars, queueVars
<1>11. ASSUME NEW i \in DOMAIN cancels, Cancel(i) PROVE SlotsInv'
  BY <1>11, <1>n DEF Cancel, OnlyTokens, queueVars
<1>12. CASE CancelAll \/ DropQueue \/ SendersGone \/ UNCHANGED vars
  BY <1>12, <1>n DEF CancelAll, DropQueue, SendersGone, OnlyTokens, taskVars, queueVars, vars
<1>13. CASE Spawn
  <2> DEFINE t == Head(channel)
  <2>1. t \in Submission /\ phase' = [phase EXCEPT ![t] = "waiting"]
        /\ channel' = Tail(channel) /\ permits' = permits /\ channel # <<>>
    BY <1>13 DEF Spawn, Receives, Goto, queueVars
  <2>2. phase[t] = "queued" /\ channel' \in Seq(Submission \cup Stop)
    BY <2>1, TakenFromChannel DEF SlotsInv
  <2>3. \A k \in 1 .. Len(channel') : /\ k + 1 \in 1 .. Len(channel)
                                      /\ channel'[k] = channel[k + 1]
                                      /\ channel'[k] # t
    <3>1. \A k \in 1 .. Len(channel') : k + 1 \in 1 .. Len(channel) /\ channel'[k] = channel[k + 1]
      BY <2>1, TakenFromChannel
    <3>2. \A k \in 1 .. Len(channel') : k + 1 # 1
      OBVIOUS
    <3> QED
      BY <2>1, <3>1, <3>2, TakenFromChannel DEF SlotsInv
  <2> HIDE DEF t
  <2>4. phase' \in [Submission -> Phases]
    BY <1>0, <2>1 DEF Phases
  <2>5. SlotsAccounted'
    BY <1>0, <2>1, <2>2, <2>4, HoldersKept
  <2>6. \A k \in 1 .. Len(channel') :
          channel'[k] \in Submission => phase'[channel'[k]] = "queued"
    BY <1>0, <2>1, <2>3 DEF SlotsInv
  <2>7. \A j, k \in 1 .. Len(channel') :
          channel'[j] \in Submission /\ channel'[j] = channel'[k] => j = k
    <3>1. \A j, k \in 1 .. Len(channel') :
            channel'[j] \in Submission /\ channel'[j] = channel'[k] => j + 1 = k + 1
      BY <2>3 DEF SlotsInv
    <3> QED
      BY <3>1
  <2> QED
    BY <1>0, <2>1, <2>2, <2>4, <2>5, <2>6, <2>7 DEF SlotsInv
<1>14. CASE ReceiveStop
  <2>1. channel' = <<>> /\ permits' = permits
        /\ phase' = [u \in Submission |-> IF phase[u] = "queued" THEN "lost" ELSE phase[u]]
    BY <1>14 DEF ReceiveStop, queueVars
  <2>2. phase' \in [Submission -> Phases]
    BY <1>0, <2>1 DEF Phases
  <2>3. SlotsAccounted'
    BY <1>0, <2>1, <2>2, HoldersKept
  <2> QED
    BY <1>0, <2>1, <2>2, <2>3 DEF SlotsInv
<1> QED
  BY <1>1, <1>2, <1>3, <1>4, <1>5, <1>6, <1>7, <1>8, <1>9, <1>10, <1>11, <1>12, <1>13, <1>14, <1>15
     DEF Next, SubmitStep, TaskStep, StopStep, DispatcherStep

\* Every permit of the semaphore is free, or held by one task that downloads or
\* has just stopped (the task that the dispatcher spawns).
THEOREM SlotsAlwaysAccounted == Spec => []SlotsAccounted
<1>1. SlotsInv => SlotsAccounted
  BY DEF SlotsInv
<1> QED
  BY <1>1, SlotsInit, SlotsStep, PTL DEF Spec

-------------------------------------------------------------------------------
(***************************************************************************)
(* The map from ids to tokens, whoever chose the ids.                      *)
(***************************************************************************)

\* What is neither the account of slots nor the map.
RestTyped ==
  /\ token \in [Submission -> BOOLEAN]
  /\ reply \in [Submission -> {"none", "ok", "failed", "cancelled"}]
  /\ nextId \in Nat \ {0}
  /\ Len(channel) <= Capacity
  /\ dispatcher \in {"running", "ended"}
  /\ stopping \in [Stop -> {"idle", "sending", "sent", "joining", "returned"}]
  /\ joinable \in BOOLEAN /\ open \in BOOLEAN

\* The map holds a task under the id it was submitted with, so that the end of a
\* task takes its own entry out, or none if a later task took its id over.
\* Nothing is refused or lost before the dispatcher has ended.
MapInv ==
  /\ id \in [Submission -> Nat]
  /\ \A i \in DOMAIN cancels :
       /\ i \in Nat
       /\ cancels[i] \in Submission
       /\ id[cancels[i]] = i
       /\ phase[cancels[i]] \notin {"new", "done"}
  /\ dispatcher = "running" => \A t \in Submission : phase[t] \notin {"lost", "refused"}

LEMMA CapacityType == Capacity \in Nat \ {0}
  BY QueueAssumption DEF Capacity

LEMMA RestStep ==
  ASSUME SlotsInv, MapInv, RestTyped, [Next]_vars
  PROVE  RestTyped'
<1>n. ASSUME UNCHANGED <<token, reply, nextId, channel, dispatcher, stopping, joinable, open>>
      PROVE  RestTyped'
  BY <1>n DEF RestTyped
<1>1. ASSUME NEW t \in Submission, NEW i \in TaskIds, Submit(t, i) PROVE RestTyped'
  BY <1>1 DEF RestTyped, Submit, NextIdAfter, stopVars
<1>2. ASSUME NEW m, m \in Submission \cup Stop, Room, channel' = Append(channel, m)
      PROVE  Len(channel') <= Capacity
  BY <1>2, CapacityType DEF SlotsInv, Room
<1>3. ASSUME NEW t \in Submission, SubmitStep(t) PROVE RestTyped'
  BY <1>2, <1>3 DEF RestTyped, SubmitStep, Sent, Refused, queueVars, stopVars
<1>4. ASSUME NEW t \in Submission, TaskStep(t) \/ Panic(t) PROVE RestTyped'
  BY <1>4 DEF RestTyped, TaskStep, Acquire, Bail, Forget, Panic, queueVars, stopVars
<1>5. ASSUME NEW t \in Submission, Finish(t) PROVE RestTyped'
  BY <1>5 DEF RestTyped, Finish, queueVars, stopVars
<1>6. ASSUME NEW ts, SetTokens(ts), OnlyTokens PROVE RestTyped'
  BY <1>6 DEF RestTyped, SetTokens, OnlyTokens, queueVars, stopVars
<1>7. ASSUME NEW s \in Stop, Shutdown(s) \/ TakeHandle(s) \/ Joined(s) PROVE RestTyped'
  BY <1>7 DEF RestTyped, Shutdown, TakeHandle, Joined, OnlyStopping, taskVars, queueVars
<1>8. ASSUME NEW s \in Stop, StopSent(s) PROVE RestTyped'
  BY <1>2, <1>8 DEF RestTyped, StopSent, OnlyStopping, taskVars, queueVars
<1>9. CASE Spawn
  <2>1. Len(channel') \in Nat /\ Len(channel') + 1 = Len(channel)
    BY <1>9 DEF Spawn, Receives, SlotsInv
  <2>2. Len(channel') <= Capacity
    BY <2>1, CapacityType DEF RestTyped
  <2> QED
    BY <1>9, <2>2 DEF RestTyped, Spawn, queueVars, stopVars
<1>10. CASE ReceiveStop
  <2>1. channel' = <<>> /\ Len(<<>>) = 0
    BY <1>10 DEF ReceiveStop
  <2> QED
    BY <1>10, <2>1, CapacityType DEF RestTyped, ReceiveStop, queueVars, stopVars
<1>11. CASE SendersGone \/ DropQueue
  BY <1>11 DEF RestTyped, SendersGone, DropQueue, taskVars, queueVars, stopVars
<1>12. CASE UNCHANGED vars
  BY <1>12, <1>n DEF vars, taskVars, queueVars, stopVars
<1> QED
  BY <1>1, <1>3, <1>4, <1>5, <1>6, <1>7, <1>8, <1>9, <1>10, <1>11, <1>12
     DEF Next, StopStep, DispatcherStep, CancelHandle, Cancel, CancelAll

\* A step that leaves ids and the map alone, in which no task starts over.
LEMMA MapKept ==
  ASSUME MapInv, UNCHANGED <<id, cancels>>,
         \A t \in Submission : phase[t] \notin {"new", "done"}
                                 => phase'[t] \notin {"new", "done"},
         dispatcher' = "running" =>
           /\ dispatcher = "running"
           /\ \A t \in Submission : phase'[t] \in {"lost", "refused"}
                                      => phase[t] \in {"lost", "refused"}
  PROVE  MapInv'
  BY DEF MapInv

LEMMA MapStep ==
  ASSUME SlotsInv, MapInv, RestTyped, TaskIds \subseteq Nat, [Next]_vars
  PROVE  MapInv'
<1>0. phase \in [Submission -> Phases] /\ dispatcher \in {"running", "ended"}
  BY DEF SlotsInv, RestTyped
<1>m. ASSUME NEW t \in Submission, NEW place \in Phases \ {"new", "done", "lost", "refused"},
             Goto(t, place), UNCHANGED <<id, cancels, dispatcher>>
      PROVE  MapInv'
  BY <1>0, <1>m, MapKept DEF Goto
<1>n. ASSUME UNCHANGED <<id, cancels, phase>>, dispatcher' \in {dispatcher, "ended"}
      PROVE  MapInv'
  BY <1>n, MapKept
<1>1. ASSUME NEW t \in Submission, NEW i \in TaskIds, Submit(t, i) PROVE MapInv'
  <2> DEFINE given == IF i = 0 THEN nextId ELSE i
  <2>1. /\ phase[t] = "new" /\ phase' = [phase EXCEPT ![t] = "sending"]
        /\ id' = [id EXCEPT ![t] = given] /\ dispatcher' = dispatcher
        /\ cancels' = [j \in DOMAIN cancels \cup {given} |->
                         IF j = given THEN t ELSE cancels[j]]
    BY <1>1 DEF Submit, Goto
  <2>2. given \in Nat
    BY DEF RestTyped
  <2> HIDE DEF given
  <2>3. \A j \in DOMAIN cancels : cancels[j] # t
    BY <2>1 DEF MapInv
  <2> QED
    BY <1>0, <2>1, <2>2, <2>3 DEF MapInv
<1>2. ASSUME NEW t \in Submission, Sent(t) PROVE MapInv'
  BY <1>2, <1>m DEF Sent, queueVars, Phases
<1>3. ASSUME NEW t \in Submission, Refused(t) PROVE MapInv'
  BY <1>0, <1>3, MapKept DEF Refused, Goto, queueVars
<1>4. ASSUME NEW t \in Submission, Acquire(t) \/ Bail(t) \/ Finish(t) \/ Panic(t) PROVE MapInv'
  BY <1>4, <1>m DEF Acquire, Bail, Finish, Panic, queueVars, Phases
<1>5. ASSUME NEW t \in Submission, Forget(t) PROVE MapInv'
  <2>1. /\ phase[t] \in {"replied", "bailed"} /\ phase' = [phase EXCEPT ![t] = "done"]
        /\ cancels' = [j \in DOMAIN cancels \ {id[t]} |-> cancels[j]]
        /\ UNCHANGED <<id, dispatcher>>
    BY <1>5 DEF Forget, Forgotten, Goto, Restrict
  <2>2. \A j \in DOMAIN cancels \ {id[t]} : cancels[j] # t
    BY DEF MapInv
  <2> QED
    BY <1>0, <2>1, <2>2 DEF MapInv
<1>6. CASE Spawn
  <2>1. Head(channel) \in Submission /\ Goto(Head(channel), "waiting")
        /\ UNCHANGED <<id, cancels, dispatcher>>
    BY <1>6 DEF Spawn, queueVars
  <2> QED
    BY <2>1, <1>m DEF Phases
<1>7. CASE ReceiveStop
  <2>1. UNCHANGED <<id, cancels>> /\ dispatcher' = "ended"
        /\ phase' = [u \in Submission |-> IF phase[u] = "queued" THEN "lost" ELSE phase[u]]
    BY <1>7 DEF ReceiveStop, queueVars
  <2> QED
    BY <2>1, MapKept
<1>8. ASSUME NEW t \in Submission, CancelHandle(t) PROVE MapInv'
  BY <1>8, <1>n DEF CancelHandle, OnlyTokens, queueVars
<1>9. ASSUME NEW s \in Stop, Shutdown(s) \/ StopStep(s) PROVE MapInv'
  BY <1>9, <1>n DEF Shutdown, StopStep, StopSent, TakeHandle, Joined, OnlyStopping,
                    taskVars, queueVars
<1>10. ASSUME NEW i \in DOMAIN cancels, Cancel(i) PROVE MapInv'
  BY <1>10, <1>n DEF Cancel, OnlyTokens, queueVars
<1>11. CASE CancelAll \/ DropQueue \/ SendersGone \/ UNCHANGED vars
  BY <1>11, <1>n DEF CancelAll, DropQueue, SendersGone, OnlyTokens, taskVars, queueVars, vars
<1> QED
  BY <1>1, <1>2, <1>3, <1>4, <1>5, <1>6, <1>7, <1>8, <1>9, <1>10, <1>11
     DEF Next, SubmitStep, TaskStep, DispatcherStep

LEMMA MapInit == Init => RestTyped /\ MapInv
<1> SUFFICES ASSUME Init PROVE RestTyped /\ MapInv
  OBVIOUS
<1>1. Len(<<>>) = 0
  OBVIOUS
<1> QED
  BY <1>1, CapacityType DEF Init, RestTyped, MapInv

LEMMA QueueAlways == Spec => [](SlotsInv /\ MapInv /\ RestTyped)
<1>1. SlotsInv /\ MapInv /\ RestTyped /\ [Next]_vars => (SlotsInv /\ MapInv /\ RestTyped)'
  BY SlotsStep, MapStep, RestStep, QueueAssumption
<1> QED
  BY <1>1, SlotsInit, MapInit, PTL DEF Spec

\* Every variable keeps its type; in particular the channel keeps its capacity and
\* the semaphore never has more permits than slots.
THEOREM TypeCorrect == Spec => []TypeOK
<1>1. ASSUME SlotsInv, MapInv, RestTyped PROVE TypeOK
  <2>1. permits \in 0 .. Slots
    BY <1>1, HoldersFinite, SlotsType DEF SlotsInv, SlotsAccounted, Holders
  <2>2. DOMAIN cancels \subseteq Nat /\ Range(cancels) \subseteq Submission
    BY <1>1 DEF MapInv, Range
  <2> QED
    BY <1>1, <2>1, <2>2 DEF TypeOK, SlotsInv, MapInv, RestTyped, Phases
<1> QED
  BY <1>1, QueueAlways, PTL

\* The map does not grow with the tasks that ended: while the dispatcher runs,
\* whatever ids the callers chose, it names only tasks that are still to end or
\* that panicked.
THEOREM MapAlwaysHoldsInFlight == Spec => []MapHoldsInFlight
<1>1. MapInv => MapHoldsInFlight
  BY DEF MapInv, MapHoldsInFlight
<1> QED
  BY <1>1, QueueAlways, PTL

-------------------------------------------------------------------------------
(***************************************************************************)
(* Cancellation by id, when the queue assigns every id.                    *)
(***************************************************************************)

\* Assigned ids are below the counter, and no two tasks share one.
IdsInv ==
  /\ id \in [Submission -> Nat]
  /\ nextId \in Nat
  /\ \A t \in Submission : phase[t] # "new" => id[t] < nextId
  /\ \A t, u \in Submission :
       phase[t] # "new" /\ phase[u] # "new" /\ id[t] = id[u] => t = u
  /\ InFlightCancellable

InFlight == {"sending", "queued", "waiting", "running"}

\* A step that assigns no id and removes nothing from the map, and lets no task
\* be in flight that was not.
LEMMA IdsKept ==
  ASSUME IdsInv, UNCHANGED <<id, nextId, cancels>>,
         \A t \in Submission : /\ phase'[t] \in InFlight => phase[t] \in InFlight
                               /\ phase'[t] # "new" => phase[t] # "new"
  PROVE  IdsInv'
  BY DEF IdsInv, InFlightCancellable, In, InFlight

LEMMA IdsStep ==
  ASSUME TaskIds = {0}, SlotsInv, IdsInv, [Next]_vars
  PROVE  IdsInv'
<1>0. phase \in [Submission -> Phases]
  BY DEF SlotsInv
\* A task moves on.
<1>m. ASSUME NEW t \in Submission, NEW place \in Phases, Goto(t, place),
             UNCHANGED <<id, nextId, cancels>>, phase[t] # "new",
             place \in InFlight => phase[t] \in InFlight
      PROVE  IdsInv'
  BY <1>0, <1>m, IdsKept DEF Goto
<1>n. ASSUME UNCHANGED <<id, nextId, cancels, phase>> PROVE IdsInv'
  BY <1>n, IdsKept
<1>1. ASSUME NEW t \in Submission, NEW i \in TaskIds, Submit(t, i) PROVE IdsInv'
  <2>1. /\ phase[t] = "new" /\ phase' = [phase EXCEPT ![t] = "sending"]
        /\ id' = [id EXCEPT ![t] = nextId] /\ nextId' = nextId + 1
        /\ cancels' = [j \in DOMAIN cancels \cup {nextId} |->
                         IF j = nextId THEN t ELSE cancels[j]]
    BY <1>1 DEF Submit, Goto, NextIdAfter
  <2>2. id' \in [Submission -> Nat] /\ nextId' \in Nat
    BY <2>1 DEF IdsInv
  <2>3. \A u \in Submission : phase'[u] # "new" => id'[u] < nextId'
    BY <2>1, <1>0 DEF IdsInv
  <2>4. \A u \in Submission \ {t} : phase[u] # "new" => id[u] # nextId
    BY DEF IdsInv
  <2>5. \A u, v \in Submission :
          phase'[u] # "new" /\ phase'[v] # "new" /\ id'[u] = id'[v] => u = v
    BY <2>1, <2>4, <1>0 DEF IdsInv
  <2>6. InFlightCancellable'
    BY <2>1, <2>4, <1>0 DEF IdsInv, InFlightCancellable, In
  <2> QED
    BY <2>2, <2>3, <2>5, <2>6 DEF IdsInv
<1>2. ASSUME NEW t \in Submission, SubmitStep(t) PROVE IdsInv'
  BY <1>2, <1>m DEF SubmitStep, Sent, Refused, queueVars, Phases, InFlight
<1>3. ASSUME NEW t \in Submission, Acquire(t) \/ Bail(t) \/ Finish(t) \/ Panic(t) PROVE IdsInv'
  BY <1>3, <1>m DEF Acquire, Bail, Finish, Panic, queueVars, Phases, InFlight
<1>4. ASSUME NEW t \in Submission, Forget(t) PROVE IdsInv'
  <2>1. /\ phase[t] \in {"replied", "bailed"} /\ phase' = [phase EXCEPT ![t] = "done"]
        /\ cancels' = [j \in DOMAIN cancels \ {id[t]} |-> cancels[j]]
        /\ UNCHANGED <<id, nextId>>
    BY <1>4 DEF Forget, Forgotten, Goto, Restrict
  <2>2. \A u \in Submission \ {t} : phase[u] # "new" => id[u] # id[t]
    BY <2>1 DEF IdsInv
  <2>3. InFlightCancellable'
    BY <2>1, <2>2, <1>0 DEF IdsInv, InFlightCancellable, In
  <2> QED
    BY <2>1, <2>3, <1>0 DEF IdsInv
<1>5. CASE Spawn
  <2>1. Head(channel) \in Submission /\ Goto(Head(channel), "waiting")
        /\ UNCHANGED <<id, nextId, cancels>> /\ channel # <<>>
    BY <1>5 DEF Spawn, Receives, queueVars
  <2>2. phase[Head(channel)] = "queued"
    BY <2>1, TakenFromChannel DEF SlotsInv
  <2> QED
    BY <2>1, <2>2, <1>m DEF Phases, InFlight
<1>6. CASE ReceiveStop
  <2>1. UNCHANGED <<id, nextId, cancels>>
        /\ phase' = [u \in Submission |-> IF phase[u] = "queued" THEN "lost" ELSE phase[u]]
    BY <1>6 DEF ReceiveStop, queueVars
  <2> QED
    BY <2>1, <1>0, IdsKept DEF InFlight
<1>7. ASSUME NEW t \in Submission, CancelHandle(t) PROVE IdsInv'
  BY <1>7, <1>n DEF CancelHandle, OnlyTokens, queueVars
<1>8. ASSUME NEW s \in Stop, Shutdown(s) \/ StopStep(s) PROVE IdsInv'
  BY <1>8, <1>n DEF Shutdown, StopStep, StopSent, TakeHandle, Joined, OnlyStopping,
                    taskVars, queueVars
<1>9. ASSUME NEW i \in DOMAIN cancels, Cancel(i) PROVE IdsInv'
  BY <1>9, <1>n DEF Cancel, OnlyTokens, queueVars
<1>10. CASE CancelAll \/ DropQueue \/ SendersGone \/ UNCHANGED vars
  BY <1>10, <1>n DEF CancelAll, DropQueue, SendersGone, OnlyTokens, taskVars, queueVars, vars
<1> QED
  BY <1>1, <1>2, <1>3, <1>4, <1>5, <1>6, <1>7, <1>8, <1>9, <1>10
     DEF Next, TaskStep, DispatcherStep

\* cancel and cancel_all reach every task in flight, from submit to its end, if
\* ids are left to the queue.
THEOREM InFlightAlwaysCancellable ==
  ASSUME TaskIds = {0}
  PROVE  Spec => []InFlightCancellable
<1>1. Init => IdsInv
  BY DEF Init, IdsInv, InFlightCancellable, In
<1>2. SlotsInv /\ IdsInv /\ [Next]_vars => IdsInv'
  BY IdsStep
<1>3. IdsInv => InFlightCancellable
  BY DEF IdsInv
<1> QED
  BY <1>1, <1>2, <1>3, SlotsInit, SlotsStep, PTL DEF Spec

-------------------------------------------------------------------------------
(***************************************************************************)
(* The queue implements TaskSlots.                                         *)
(***************************************************************************)

\* The step of one task, seen in TaskSlots.
LEMMA StageMoves ==
  ASSUME NEW t \in Submission, NEW place \in Phases, Goto(t, place),
         phase \in [Submission -> Phases]
  PROVE  /\ stageOf[t] = StageOf(phase[t])
         /\ stageOf' = [stageOf EXCEPT ![t] = StageOf(place)]
  BY DEF Goto, stageOf

LEMMA PromiseStep ==
  ASSUME SlotsInv, SlotsInv', [Next]_vars
  PROVE  [Promise!Next]_stageOf
<1>0. phase \in [Submission -> Phases]
  BY DEF SlotsInv
<1>n. ASSUME UNCHANGED phase PROVE UNCHANGED stageOf
  BY <1>n DEF stageOf, StageOf
<1>1. ASSUME NEW t \in Submission, NEW i \in TaskIds, Submit(t, i) PROVE UNCHANGED stageOf
  BY <1>0, <1>1 DEF StageOf, stageOf, Submit, Goto
<1>2. ASSUME NEW t \in Submission, Sent(t) PROVE Promise!Accept(t)
  BY <1>0, <1>2, StageMoves DEF StageOf, Sent, Phases, Promise!Accept, Promise!Move
<1>3. ASSUME NEW t \in Submission, Refused(t) PROVE UNCHANGED stageOf
  BY <1>0, <1>3 DEF StageOf, stageOf, Refused, Goto
<1>4. ASSUME NEW t \in Submission, Acquire(t) PROVE Promise!Start(t)
  <2>1. phase[t] = "waiting" /\ Goto(t, "running") /\ permits > 0
    BY <1>4 DEF Acquire
  <2>2. Promise!Move(t, "accepted", "running")
    BY <1>0, <2>1, StageMoves DEF StageOf, Phases, Promise!Move
  <2>3. Promise!Running \subseteq Holders
    BY DEF Promise!Running, stageOf, StageOf, Holders, In
  <2>4. Cardinality(Promise!Running) <= Cardinality(Holders)
        /\ Cardinality(Promise!Running) \in Nat
    BY <2>3, HoldersFinite, FS_Subset, FS_CardinalityType
  <2>5. Cardinality(Promise!Running) < Slots
    BY <2>1, <2>4, HoldersFinite, SlotsType DEF SlotsInv, SlotsAccounted, Holders
  <2>6. \A S : Promise!Cardinality(S) = Cardinality(S)
    BY DEF Promise!Cardinality, Cardinality
  <2> QED
    BY <2>2, <2>5, <2>6 DEF Promise!Start
<1>5. ASSUME NEW t \in Submission, Bail(t) PROVE Promise!GiveUp({t})
  <2>1. phase[t] = "waiting" /\ Goto(t, "bailed")
    BY <1>5 DEF Bail
  <2>2. stageOf[t] = "accepted" /\ stageOf' = [stageOf EXCEPT ![t] = "settled"]
    BY <1>0, <2>1, StageMoves DEF StageOf, Phases
  <2> QED
    BY <2>2 DEF Promise!GiveUp, stageOf, StageOf
<1>6. ASSUME NEW t \in Submission, Finish(t) \/ Panic(t) PROVE Promise!End(t)
  BY <1>0, <1>6, StageMoves DEF StageOf, Finish, Panic, Phases, Promise!End, Promise!Move
<1>7. ASSUME NEW t \in Submission, Forget(t) PROVE UNCHANGED stageOf
  <2>1. phase[t] \in {"replied", "bailed"} /\ phase' = [phase EXCEPT ![t] = "done"]
    BY <1>7 DEF Forget, Goto
  <2> QED
    BY <1>0, <2>1 DEF stageOf, StageOf
<1>8. CASE Spawn
  <2>1. Head(channel) \in Submission /\ Goto(Head(channel), "waiting") /\ channel # <<>>
    BY <1>8 DEF Spawn, Receives
  <2>2. phase[Head(channel)] = "queued"
    BY <2>1, TakenFromChannel DEF SlotsInv
  <2>3. phase' = [phase EXCEPT ![Head(channel)] = "waiting"]
    BY <2>1 DEF Goto
  <2> QED
    BY <1>0, <2>1, <2>2, <2>3 DEF stageOf, StageOf
<1>9. CASE ReceiveStop
  <2> DEFINE ts == In({"queued"})
  <2>1. phase' = [u \in Submission |-> IF phase[u] = "queued" THEN "lost" ELSE phase[u]]
    BY <1>9 DEF ReceiveStop
  <2>2. CASE ts = {}
    <3>1. phase' = phase
      BY <1>0, <2>1, <2>2 DEF In
    <3> QED
      BY <3>1, <1>n
  <2>3. CASE ts # {}
    <3>1. \A t \in ts : stageOf[t] = "accepted"
      BY DEF stageOf, StageOf, In
    <3>2. stageOf' = [t \in Submission |-> IF t \in ts THEN "settled" ELSE stageOf[t]]
      BY <1>0, <2>1 DEF stageOf, StageOf, In
    <3>3. ts \in SUBSET Submission
      BY DEF In
    <3> QED
      BY <2>3, <3>1, <3>2, <3>3 DEF Promise!Next, Promise!GiveUp
  <2> QED
    BY <2>2, <2>3
<1>10. ASSUME NEW t \in Submission, CancelHandle(t) PROVE UNCHANGED stageOf
  BY <1>10, <1>n DEF CancelHandle, OnlyTokens
<1>11. ASSUME NEW s \in Stop, Shutdown(s) \/ StopStep(s) PROVE UNCHANGED stageOf
  BY <1>11, <1>n DEF Shutdown, StopStep, StopSent, TakeHandle, Joined, OnlyStopping, taskVars
<1>12. ASSUME NEW i \in DOMAIN cancels, Cancel(i) PROVE UNCHANGED stageOf
  BY <1>12, <1>n DEF Cancel, OnlyTokens
<1>13. CASE CancelAll \/ DropQueue \/ SendersGone \/ UNCHANGED vars
  BY <1>13, <1>n DEF CancelAll, DropQueue, SendersGone, OnlyTokens, taskVars, vars
<1>14. \A t \in Submission : {t} \in SUBSET Submission
  OBVIOUS
<1> QED
  BY <1>1, <1>2, <1>3, <1>4, <1>5, <1>6, <1>7, <1>8, <1>9, <1>10, <1>11, <1>12, <1>13, <1>14
     DEF Next, SubmitStep, TaskStep, DispatcherStep, Promise!Next

\* Every behaviour of the queue is one of TaskSlots: a task runs only after it was
\* accepted, at most once, and with a slot; what the queue loses was never run.
THEOREM QueueKeepsSlots == Spec => Promise!Safety
<1>1. Init => Promise!Init
  BY DEF Init, Promise!Init, stageOf, StageOf
<1>2. SlotsInv /\ SlotsInv' /\ [Next]_vars => [Promise!Next]_stageOf
  BY PromiseStep
<1> QED
  BY <1>1, <1>2, SlotsInit, SlotsStep, PTL DEF Spec, Promise!Safety
===============================================================================
