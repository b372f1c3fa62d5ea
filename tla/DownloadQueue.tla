---------------------------- MODULE DownloadQueue ----------------------------
(***************************************************************************)
(* The task queue (src/src/queue.rs): callers submit tasks into a bounded  *)
(* channel; a dispatcher takes them out and spawns one task each; a        *)
(* semaphore lets max_concurrent of these download at a time.  A map from  *)
(* ids to cancellation tokens serves cancel and cancel_all.                *)
(*                                                                         *)
(* The download itself is one step here, with the outcomes that module     *)
(* MultiThread gives a call.  The map's lock is never held across an await *)
(* and is left out.                                                        *)
(***************************************************************************)
EXTENDS Integers, Sequences, FiniteSets, Functions

CONSTANTS
  Submission,      \* the calls of submit
  Stop,            \* the calls of shutdown
  TaskIds,         \* the ids callers put into their tasks; 0: assign a fresh one
  MaxConcurrent,   \* DownloadQueue::new's arguments
  QueueCapacity

ASSUME QueueAssumption ==
  /\ IsFiniteSet(Submission)
  /\ Submission \cap Stop = {}
  /\ TaskIds \subseteq Nat
  /\ MaxConcurrent \in Nat
  /\ QueueCapacity \in Nat

\* max_concurrent.max(1) and queue_capacity.max(1)
Slots    == IF MaxConcurrent = 0 THEN 1 ELSE MaxConcurrent
Capacity == IF QueueCapacity = 0 THEN 1 ELSE QueueCapacity

VARIABLES
  phase,        \* where each submission is
  id,           \* its task's id
  token,        \* is its cancellation token set?
  reply,        \* what was sent on its reply channel
  cancels,      \* the map from ids to (the submissions that own) tokens
  nextId,       \* the next fresh id
  channel,      \* the messages sent and not received
  dispatcher,   \* running or ended
  permits,      \* the semaphore
  stopping,     \* where each call of shutdown is
  joinable,     \* the dispatcher's handle was not taken yet
  open          \* some clone of the queue is left

taskVars  == <<phase, id, token, reply>>
queueVars == <<cancels, nextId, permits>>
stopVars  == <<stopping, joinable, open>>
vars == <<taskVars, queueVars, channel, dispatcher, stopVars>>

In(phases) == { t \in Submission : phase[t] \in phases }

Init ==
  /\ phase = [t \in Submission |-> "new"]
  /\ id = [t \in Submission |-> 0]
  /\ token = [t \in Submission |-> FALSE]
  /\ reply = [t \in Submission |-> "none"]
  /\ cancels = [i \in {} |-> 0]
  /\ nextId = 1
  /\ channel = <<>>
  /\ dispatcher = "running"
  /\ permits = Slots
  /\ stopping = [s \in Stop |-> "idle"]
  /\ joinable = TRUE
  /\ open = TRUE

Goto(t, place) == phase' = [phase EXCEPT ![t] = place]

-------------------------------------------------------------------------------
(***************************************************************************)
(* The callers.                                                            *)
(***************************************************************************)

\* A fresh id is taken off the counter.  Mutant: two tasks may get the same.
NextIdKept(i) == nextId
NextIdAfter(i) == IF i = 0 THEN nextId + 1 ELSE nextId

\* submit: the token is in the map before the task is in the channel.
Submit(t, i) ==
  /\ open
  /\ phase[t] = "new"
  /\ LET given == IF i = 0 THEN nextId ELSE i
     IN  /\ id' = [id EXCEPT ![t] = given]
         /\ cancels' = [j \in DOMAIN cancels \cup {given} |->
                          IF j = given THEN t ELSE cancels[j]]
  /\ nextId' = NextIdAfter(i)
  /\ Goto(t, "sending")
  /\ UNCHANGED <<token, reply, channel, dispatcher, permits, stopVars>>

Room == dispatcher = "running" /\ Len(channel) < Capacity

\* send: the caller waited for room.
Sent(t) ==
  /\ phase[t] = "sending"
  /\ Room
  /\ channel' = Append(channel, t)
  /\ Goto(t, "queued")
  /\ UNCHANGED <<id, token, reply, queueVars, dispatcher, stopVars>>

\* The receiver is gone: submit returns QueueClosed.
Refused(t) ==
  /\ phase[t] = "sending"
  /\ dispatcher = "ended"
  /\ Goto(t, "refused")
  /\ UNCHANGED <<id, token, reply, queueVars, channel, dispatcher, stopVars>>

SetTokens(ts) == token' = [t \in Submission |-> token[t] \/ t \in ts]

OnlyTokens == UNCHANGED <<phase, id, reply, queueVars, channel, dispatcher, stopVars>>

Cancel(i) ==
  /\ open
  /\ i \in DOMAIN cancels
  /\ SetTokens({cancels[i]})
  /\ OnlyTokens

CancelAll ==
  /\ open
  /\ SetTokens(Range(cancels))
  /\ OnlyTokens

\* TaskHandle::cancel, on the handle that submit returned.
CancelHandle(t) ==
  /\ phase[t] \notin {"new", "sending", "refused"}
  /\ SetTokens({t})
  /\ OnlyTokens

OnlyStopping ==
  UNCHANGED <<taskVars, queueVars, dispatcher, open>>

Shutdown(s) ==
  /\ open
  /\ stopping[s] = "idle"
  /\ stopping' = [stopping EXCEPT ![s] = "sending"]
  /\ OnlyStopping /\ UNCHANGED <<channel, joinable>>

\* The message goes out, or the channel is closed already: both count as sent.
StopSent(s) ==
  /\ stopping[s] = "sending"
  /\ \/ Room /\ channel' = Append(channel, s)
     \/ dispatcher = "ended" /\ UNCHANGED channel
  /\ stopping' = [stopping EXCEPT ![s] = "sent"]
  /\ OnlyStopping /\ UNCHANGED joinable

\* Whoever takes the dispatcher's handle awaits it.
TakeHandle(s) ==
  /\ stopping[s] = "sent"
  /\ stopping' = [stopping EXCEPT ![s] = IF joinable THEN "joining" ELSE "returned"]
  /\ joinable' = FALSE
  /\ OnlyStopping /\ UNCHANGED channel

Joined(s) ==
  /\ stopping[s] = "joining"
  /\ dispatcher = "ended"
  /\ stopping' = [stopping EXCEPT ![s] = "returned"]
  /\ OnlyStopping /\ UNCHANGED <<channel, joinable>>

\* The last clone of the queue is dropped; no call is under way then.
DropQueue ==
  /\ open
  /\ In({"sending"}) = {}
  /\ \A s \in Stop : stopping[s] \in {"idle", "returned"}
  /\ open' = FALSE
  /\ UNCHANGED <<taskVars, queueVars, channel, dispatcher, stopping, joinable>>

-------------------------------------------------------------------------------
(***************************************************************************)
(* The dispatcher.                                                         *)
(***************************************************************************)

\* The dispatcher takes a message whenever there is one.
\* Mutant: it waits for a slot first.
ReceivesWithSlot == dispatcher = "running" /\ channel # <<>> /\ permits > 0
Receives == dispatcher = "running" /\ channel # <<>>

Spawn ==
  /\ Receives
  /\ Head(channel) \in Submission
  /\ Goto(Head(channel), "waiting")
  /\ channel' = Tail(channel)
  /\ UNCHANGED <<id, token, reply, queueVars, dispatcher, stopVars>>

\* Shutdown: the receiver is dropped, and with it what is still in the channel.
ReceiveStop ==
  /\ Receives
  /\ Head(channel) \in Stop
  /\ dispatcher' = "ended"
  /\ channel' = <<>>
  /\ phase' = [t \in Submission |-> IF phase[t] = "queued" THEN "lost" ELSE phase[t]]
  /\ UNCHANGED <<id, token, reply, queueVars, stopVars>>

\* recv returns None: every sender is gone and the channel is empty.
SendersGone ==
  /\ dispatcher = "running"
  /\ ~open
  /\ channel = <<>>
  /\ dispatcher' = "ended"
  /\ UNCHANGED <<taskVars, queueVars, channel, stopVars>>

-------------------------------------------------------------------------------
(***************************************************************************)
(* A spawned task.                                                         *)
(***************************************************************************)

Acquire(t) ==
  /\ phase[t] = "waiting"
  /\ permits > 0
  /\ permits' = permits - 1
  /\ Goto(t, "running")
  /\ UNCHANGED <<id, token, reply, cancels, nextId, channel, dispatcher, stopVars>>

\* Cancelled before a slot was free (select! takes either branch if both are).
\* Mutant: the wait for a slot does not look at the token.
BailsNever(t) == FALSE
Bails(t) == token[t]

Bail(t) ==
  /\ phase[t] = "waiting"
  /\ Bails(t)
  /\ reply' = [reply EXCEPT ![t] = "cancelled"]
  /\ Goto(t, "bailed")
  /\ UNCHANGED <<id, token, queueVars, channel, dispatcher, stopVars>>

Finish(t) ==
  /\ phase[t] = "running"
  /\ \E outcome \in {"ok", "failed"} \cup (IF token[t] THEN {"cancelled"} ELSE {}) :
       reply' = [reply EXCEPT ![t] = outcome]
  /\ Goto(t, "replied")
  /\ UNCHANGED <<id, token, queueVars, channel, dispatcher, stopVars>>

\* download() panics, or a reporter that it calls does: unwinding drops the
\* permit and the reply, but nobody takes the entry out of the map.
Panic(t) ==
  /\ phase[t] = "running"
  /\ permits' = permits + 1
  /\ Goto(t, "panicked")
  /\ UNCHANGED <<id, token, reply, cancels, nextId, channel, dispatcher, stopVars>>

\* Mutant: a task that bailed is left in the map.
ForgottenIfRun(t) ==
  IF phase[t] = "bailed" THEN cancels ELSE Restrict(cancels, DOMAIN cancels \ {id[t]})
Forgotten(t) == Restrict(cancels, DOMAIN cancels \ {id[t]})

\* The permit of a task that had one.  Mutants: a task that never had one gives
\* one back too; a download that failed keeps its own.
PermitsAfterAny(t) == permits + 1
PermitsAfterSuccess(t) ==
  IF phase[t] = "replied" /\ reply[t] # "failed" THEN permits + 1 ELSE permits
PermitsAfter(t) == IF phase[t] = "replied" THEN permits + 1 ELSE permits

\* The task leaves the map, by its id, and gives its permit back.
Forget(t) ==
  /\ phase[t] \in {"replied", "bailed"}
  /\ cancels' = Forgotten(t)
  /\ permits' = PermitsAfter(t)
  /\ Goto(t, "done")
  /\ UNCHANGED <<id, token, reply, nextId, channel, dispatcher, stopVars>>

-------------------------------------------------------------------------------
TaskStep(t) == Acquire(t) \/ Bail(t) \/ Forget(t)
SubmitStep(t) == Sent(t) \/ Refused(t)
StopStep(s) == StopSent(s) \/ TakeHandle(s) \/ Joined(s)
DispatcherStep == Spawn \/ ReceiveStop \/ SendersGone

Next ==
  \/ \E t \in Submission :
       \/ \E i \in TaskIds : Submit(t, i)
       \/ SubmitStep(t) \/ CancelHandle(t) \/ TaskStep(t) \/ Finish(t) \/ Panic(t)
  \/ \E s \in Stop : Shutdown(s) \/ StopStep(s)
  \/ (\E i \in DOMAIN cancels : Cancel(i)) \/ CancelAll \/ DropQueue
  \/ DispatcherStep

Spec == Init /\ [][Next]_vars

(***************************************************************************)
(* The runtime runs whatever can run.  Nobody has to submit, cancel or     *)
(* shut down.  A download may hang, but not once it is cancelled.          *)
(***************************************************************************)
Scheduling ==
  /\ \A t \in Submission : WF_vars(SubmitStep(t)) /\ WF_vars(TaskStep(t))
  /\ \A s \in Stop : WF_vars(StopStep(s))
  /\ WF_vars(DispatcherStep)

HangingSpec == Spec /\ Scheduling /\ \A t \in Submission : WF_vars(token[t] /\ Finish(t))

-------------------------------------------------------------------------------
TypeOK ==
  /\ phase \in [Submission -> {"new", "sending", "queued", "waiting", "running",
                               "replied", "bailed", "panicked", "done", "refused", "lost"}]
  /\ id \in [Submission -> Nat]
  /\ token \in [Submission -> BOOLEAN]
  /\ reply \in [Submission -> {"none", "ok", "failed", "cancelled"}]
  /\ DOMAIN cancels \subseteq Nat /\ Range(cancels) \subseteq Submission
  /\ nextId \in Nat \ {0}
  /\ channel \in Seq(Submission \cup Stop) /\ Len(channel) <= Capacity
  /\ dispatcher \in {"running", "ended"}
  /\ permits \in 0 .. Slots
  /\ stopping \in [Stop -> {"idle", "sending", "sent", "joining", "returned"}]
  /\ {joinable, open} \subseteq BOOLEAN

\* A permit is either free or held by exactly one task that downloads or has
\* just stopped: no path out of a task leaks one or invents one, so that never
\* more than max_concurrent tasks download.
SlotsAccounted ==
  permits + Cardinality(In({"running", "replied"})) = Slots

\* cancel_all, "Cancel every in-flight task", and cancel find the token of every
\* task that has not ended, from the moment submit is called.
InFlightCancellable ==
  \A t \in In({"sending", "queued", "waiting", "running"}) :
    id[t] \in DOMAIN cancels /\ cancels[id[t]] = t

\* The map does not grow: while the dispatcher runs it names only tasks that are
\* still to end, and those that panicked.
MapHoldsInFlight ==
  dispatcher = "running" =>
    \A i \in DOMAIN cancels : phase[cancels[i]] \notin {"new", "done", "lost", "refused"}

\* A cancelled task ends though every download before it hangs or panics: it does
\* not need the slot it was waiting for.
CancelSettles ==
  \A t \in Submission :
    (token[t] /\ phase[t] \in {"queued", "waiting", "running"})
      ~> phase[t] \in {"done", "lost", "panicked"}

\* submit and shutdown return though every download hangs.
CallersReturn ==
  /\ \A t \in Submission : phase[t] = "sending" ~> phase[t] # "sending"
  /\ \A s \in Stop : stopping[s] = "sending" ~> stopping[s] = "returned"

\* The queue keeps the promise of TaskSlots, though every download hangs.  A task
\* that replied is settled, though it still holds its permit.
StageOf(place) ==
  IF place \in {"new", "sending", "refused"} THEN "outside"
  ELSE IF place \in {"queued", "waiting"} THEN "accepted"
  ELSE IF place = "running" THEN "running" ELSE "settled"

stageOf == [t \in Submission |-> StageOf(phase[t])]

Promise == INSTANCE TaskSlots WITH Task <- Submission, Slots <- Slots, stage <- stageOf

KeepsPromise == Promise!Spec

-------------------------------------------------------------------------------
(***************************************************************************)
(* What the documents say and some instance refutes.                       *)
(***************************************************************************)

\* queue.rs: "a `TaskHandle` whose `result` future resolves when the task is
\* finished, cancelled, or fails".
NoHandleLost == In({"lost"}) = {}

\* queue.rs: "`queue_capacity` is the backpressure bound on `submit()`".
BackpressureBound == Cardinality(In({"queued", "waiting"})) <= Capacity
===============================================================================
