-------------------------- MODULE MultiThread_proofs --------------------------
(***************************************************************************)
(* Theorems about MultiThread, for any number of versions, blocks, workers *)
(* and calls: types, what a state file may look like, what a failed call   *)
(* leaves, what the byte counter says, and the use of the state file.      *)
(* MultiThreadSafety_proofs has what the data file holds.                  *)
(***************************************************************************)
EXTENDS MultiThread, DownloadState_proofs, FiniteSetTheorems

-------------------------------------------------------------------------------
(***************************************************************************)
(* Type correctness, under every fault.                                    *)
(***************************************************************************)

\* A state file that passes Validate holds a nonempty list of ranges.
TypedState(s) ==
  \/ s = None
  \/ s \in Leftovers
  \/ \E n \in Nat \ {0} : s.workers \in [1 .. n -> RangeRecord]

BeforeRun == {"idle", "probing", "probed"}
AfterRun  == {"stopping", "dropping", "deleting", "verify"}

\* What TypeOK needs to be inductive: when there are workers, that they have
\* ended when the call goes on, which of them own a pending write, and that a
\* worker that may still fail has an attempt left.
TypeInv ==
  /\ TypeOK
  /\ TypedState(saved)
  /\ \A s \in entries : TypedState(s)
  /\ \E n \in Nat : Workers = 1 .. n
  /\ pc \in BeforeRun => Workers = {}
  /\ spc # "off" => Workers # {}
  /\ pc \in AfterRun => \A w \in Workers : wpc[w] \in Ended
  /\ \A p \in pending : p.owner # Dropped => wpc[p.owner] \in {"stream", "flush"}
  /\ \A w \in Workers : wpc[w] # "exhausted" => attempt[w] < AtLeast(MaxRetries, 1)

LEMMA TypeInit == Init => TypeInv
<1> SUFFICES ASSUME Init PROVE TypeInv
  OBVIOUS
<1> USE ConstantsAssumption
<1>1. Workers = {} /\ Workers = 1 .. 0
  BY DEF Init, Workers, NoWorkers
<1>2. DiskTypeOK
  BY DEF Init, DiskTypeOK, Version, Content
<1>3. CallTypeOK
  <2>1. info \in Version /\ calls \in 0 .. MaxCalls
    BY DEF Init, Version
  <2> QED
    BY <2>1 DEF Init, CallTypeOK
<1>4. RangeTypeOK
  BY <1>1 DEF Init, RangeTypeOK, NoWorkers
<1>5. WorkerTypeOK
  BY <1>1 DEF Init, WorkerTypeOK, NoWorkers
<1>6. SaverTypeOK
  BY <1>1 DEF Init, SaverTypeOK, NoWorkers
<1>7. TypedState(saved) /\ entries = {saved}
  BY DEF Init, TypedState
<1> QED
  BY <1>1, <1>2, <1>3, <1>4, <1>5, <1>6, <1>7 DEF Init, TypeInv, TypeOK, AfterRun

\* Blocks of the file are doubted, and stay so.
LEMMA DoubtsTyped ==
  ASSUME TypeInv, [Next]_vars
  PROVE  doubtful \subseteq doubtful' /\ doubtful' \subseteq Block
<1>1. doubtful \subseteq Block /\ \A p \in pending : p.block \in Block
  BY DEF TypeInv, TypeOK, DiskTypeOK, WorkerTypeOK
<1>2. \A writes \in SUBSET pending : BlocksOf(writes) \subseteq Block
  BY <1>1 DEF BlocksOf
<1>3. ASSUME NEW blocks \in SUBSET Block, Doubts(blocks)
      PROVE  doubtful \subseteq doubtful' /\ doubtful' \subseteq Block
  BY <1>1, <1>3 DEF Doubts
<1>4. CASE VerifyFails
  BY <1>3, <1>4 DEF VerifyFails, Orphaned
<1>5. ASSUME NEW w \in Workers, StreamBreaks(w)
      PROVE  doubtful \subseteq doubtful' /\ doubtful' \subseteq Block
  BY <1>2, <1>3, <1>5 DEF StreamBreaks, PendingOf
<1>6. ASSUME NEW p \in pending, LandFails(p)
      PROVE  doubtful \subseteq doubtful' /\ doubtful' \subseteq Block
  BY <1>2, <1>3, <1>6 DEF LandFails, PendingOf
<1>7. CASE Kill
  BY <1>2, <1>3, <1>7 DEF Kill
<1>8. CASE PowerLoss
  <2>1. PICK entry \in entries : Doubts(BlocksOf(pending) \cup Unsettled(entry))
    BY <1>8 DEF PowerLoss
  <2> QED
    BY <1>2, <1>3, <2>1 DEF Unsettled
<1>9. ASSUME NEW w \in Workers,
             \/ Loop(w) \/ Reply206(w) \/ Reply200(w) \/ Reply416(w) \/ ReplyError(w)
             \/ \E n \in 1 .. MaxChunk : Deliver(w, n)
             \/ StreamCancelled(w) \/ StreamEnds(w) \/ Flush(w) \/ BackoffOver(w)
      PROVE  UNCHANGED doubtful
  BY <1>9 DEF Loop, Reply206, Reply200, Reply416, ReplyError, Deliver, StreamCancelled, StreamEnds,
              Flush, BackoffOver, NoIO
<1>10. ASSUME NEW w \in Workers, WorkerStep(w)
       PROVE  doubtful \subseteq doubtful' /\ doubtful' \subseteq Block
  BY <1>1, <1>5, <1>9, <1>10 DEF WorkerStep
<1>11. CASE CallStep
  BY <1>1, <1>4, <1>11
     DEF CallStep, Probe, ProbeCancelled, StartFails, StartWorkers, Join, ReturnCancelled, ReturnError,
         ReturnChanged, ReturnMismatch, FinalSync, DeleteState, Verify, diskVars
<1>12. CASE EnvironmentStep
  <2>1. (\E p \in pending : Land(p)) \/ Cancel \/ ServerPublishes => UNCHANGED doubtful
    BY DEF Land, Cancel, ServerPublishes, diskVars
  <2> QED
    BY <1>1, <1>6, <1>7, <1>8, <1>12, <2>1 DEF EnvironmentStep
<1>13. (\E n \in ThreadChoices : Call(n)) \/ SaverStep \/ UNCHANGED vars => UNCHANGED doubtful
  BY DEF Call, SaverStep, vars, diskVars
<1> QED
  BY <1>1, <1>10, <1>11, <1>12, <1>13 DEF Next

Results == {"ok", "failed", "cancelled", "corrupt", "killed"}

\* A call that returns forgets its workers.
LEMMA ReturnTyped ==
  ASSUME TypeInv, NEW r \in Results \cup {"none"}, Return(r), srv' \in Version,
         pending' \subseteq pending, \A p \in pending' : p.owner = Dropped,
         DiskTypeOK', TypedState(saved)', \A s \in entries' : TypedState(s)
  PROVE  TypeInv'
<1>1. Workers' = {} /\ Workers' = 1 .. 0
  BY DEF Return, Workers, NoWorkers
<1>2. CallTypeOK'
  BY DEF Return, TypeInv, TypeOK, CallTypeOK, Results
<1>3. RangeTypeOK'
  BY <1>1 DEF Return, RangeTypeOK, NoWorkers
<1>4. WorkerTypeOK'
  BY <1>1 DEF Return, TypeInv, TypeOK, WorkerTypeOK, NoWorkers
<1>5. SaverTypeOK'
  BY <1>1 DEF Return, SaverTypeOK, NoWorkers
<1>6. pc' = "idle" /\ spc' = "off"
  BY DEF Return
<1> QED
  BY <1>1, <1>2, <1>3, <1>4, <1>5, <1>6
     DEF TypeInv, TypeOK, AfterRun

\* Once no worker streams or flushes, every pending write was dropped.
LEMMA EndedDropped ==
  ASSUME TypeInv, pc \in BeforeRun \cup AfterRun
  PROVE  \A p \in pending : p.owner = Dropped
<1>1. \A w \in Workers : wpc[w] \notin {"stream", "flush"}
  BY DEF TypeInv, BeforeRun, AfterRun, Ended
<1>2. \A p \in pending : p.owner \in Workers \cup {Dropped}
  BY DEF TypeInv, TypeOK, WorkerTypeOK
<1> QED
  BY <1>1, <1>2 DEF TypeInv

\* Nothing of the tasks of a call changes, nor whether they have ended.
LEMMA SameTasksTyped ==
  ASSUME TypeInv, UNCHANGED taskVars, DiskTypeOK', CallTypeOK',
         TypedState(saved)', \A s \in entries' : TypedState(s),
         pc' \in BeforeRun => Workers = {},
         pc' \in AfterRun => \A w \in Workers : wpc[w] \in Ended
  PROVE  TypeInv'
<1>1. /\ Workers' = Workers /\ wpc' = wpc /\ attempt' = attempt
      /\ pending' = pending /\ spc' = spc
  BY DEF taskVars, rangeVars, workerVars, ioVars, saverVars, Workers
<1>2. RangeTypeOK' /\ WorkerTypeOK' /\ SaverTypeOK'
  BY <1>1 DEF TypeInv, TypeOK, RangeTypeOK, WorkerTypeOK, SaverTypeOK,
              taskVars, rangeVars, workerVars, ioVars, saverVars
<1> QED
  BY <1>1, <1>2 DEF TypeInv, TypeOK

\* What a call runs on was read from a state file that validates, or split.
LEMMA PlanTyped ==
  ASSUME TypeInv
  PROVE  \E n \in Nat \ {0} : Plan \in [1 .. n -> RangeRecord]
<1>1. CASE Usable(saved)
  <2>1. saved # None /\ saved.version = STATE_FILE_VERSION
    BY <1>1 DEF Usable, Validate
  <2>2. saved \notin Leftovers
    BY <2>1, LeftoversAssumption
  <2> QED
    BY <1>1, <2>1, <2>2 DEF TypeInv, TypedState, Plan
<1>2. CASE ~Usable(saved)
  <2>1. SizeOf[info] \in Nat \ {0} /\ threads \in Nat /\ MinChunk \in Nat
    BY ConstantsAssumption DEF TypeInv, TypeOK, CallTypeOK
  <2>2. LaidOut(SplitWorkers(SizeOf[info], threads, MinChunk), SizeOf[info])
    BY <2>1, SplitIsLaidOut
  <2> QED
    BY <1>2, <2>2 DEF Plan, LaidOut
<1> QED
  BY <1>1, <1>2

LEMMA StartTyped == TypeInv /\ StartWorkers /\ srv' = srv => TypeInv'
<1> SUFFICES ASSUME TypeInv, StartWorkers, srv' = srv PROVE TypeInv'
  OBVIOUS
<1> DEFINE W == DOMAIN Plan
<1>1. PICK n \in Nat \ {0} : Plan \in [1 .. n -> RangeRecord]
  BY PlanTyped
<1>2. W = 1 .. n /\ \A w \in W : /\ Plan[w].start \in Nat
                                /\ Plan[w].current \in Nat
                                /\ Plan[w].end \in Nat
  BY <1>1 DEF RangeRecord
<1>3. Workers' = W
  BY DEF StartWorkers, Workers
<1> HIDE DEF W
<1>4. RangeTypeOK'
  BY <1>2, <1>3 DEF StartWorkers, RangeTypeOK, W, PositionOf
<1>5. Workers = {} /\ \A p \in pending : p.owner = Dropped
  BY EndedDropped DEF StartWorkers, TypeInv, BeforeRun
<1>6. attempt' = [w \in W |-> 0] /\ 0 < AtLeast(MaxRetries, 1)
  BY ConstantsAssumption DEF StartWorkers, W, AtLeast
<1>7. WorkerTypeOK'
  <2>1. wpc' \in [W -> {"loop", "ok"}]
    BY DEF StartWorkers, W
  <2>2. body' \in [W -> Version]
    BY DEF StartWorkers, W, TypeInv, TypeOK, CallTypeOK
  <2>3. attempt' \in [W -> 0 .. AtLeast(MaxRetries, 1)]
    BY <1>6, ConstantsAssumption DEF AtLeast
  <2>4. pending' = pending /\ broken' = broken /\ broken = {}
    BY <1>5 DEF StartWorkers, ioVars, TypeInv, TypeOK, WorkerTypeOK
  <2>5. \A w \in W : wpc'[w] \in {"loop", "sent", "stream", "flush", "backoff"} \cup Ended
    BY <2>1 DEF Ended
  <2>6. wpc' \in [W -> {"loop", "sent", "stream", "flush", "backoff"} \cup Ended]
    BY <2>1, <2>5
  <2>7. pending' \subseteq [owner : W \cup {Dropped}, block : Block, content : Version]
    BY <2>4, <1>5 DEF TypeInv, TypeOK, WorkerTypeOK
  <2> QED
    BY <1>3, <2>2, <2>3, <2>4, <2>6, <2>7 DEF WorkerTypeOK
<1>8. SaverTypeOK'
  BY <1>2, <1>3 DEF StartWorkers, SaverTypeOK, W
<1>9. DiskTypeOK'
  <2> DEFINE resized == [b \in Block |-> IF b < SizeOf[info] THEN cache[b] ELSE 0]
  <2>1. resized \in [Block -> Content]
    BY ConstantsAssumption DEF TypeInv, TypeOK, DiskTypeOK, Content
  <2>2. cache' = resized
    BY DEF StartWorkers, SetLength
  <2>3. platter' \in [Block -> SUBSET Content]
    <3>1. ASSUME NEW b \in Block PROVE platter[b] \cup {resized[b]} \in SUBSET Content
      BY <2>1 DEF TypeInv, TypeOK, DiskTypeOK
    <3>2. ASSUME NEW b \in Block PROVE {resized[b]} \in SUBSET Content
      BY <2>1
    <3> HIDE DEF resized
    <3>3. platter' = Durably([b \in Block |->
                                IF "syncfail" \in Faults THEN platter[b] \cup {resized[b]}
                                                         ELSE {resized[b]}], platter)
      BY DEF StartWorkers, SetLength, resized
    <3> QED
      BY <3>1, <3>2, <3>3 DEF Durably, TypeInv, TypeOK, DiskTypeOK
  <2> QED
    BY <2>1, <2>2, <2>3 DEF StartWorkers, TypeInv, TypeOK, DiskTypeOK
<1>10. CallTypeOK'
  BY DEF StartWorkers, TypeInv, TypeOK, CallTypeOK
<1>11. /\ TypedState(saved)' /\ \A s \in entries' : TypedState(s)
       /\ pc' = "run" /\ pending' = pending
  BY DEF StartWorkers, TypeInv, TypedState, ioVars
<1>12. /\ \E k \in Nat : Workers' = 1 .. k
       /\ Workers' # {}
  <2>1. 1 \in Workers'
    BY <1>2, <1>3
  <2> QED
    BY <2>1, <1>2, <1>3
<1>13. \A w \in Workers' : attempt'[w] < AtLeast(MaxRetries, 1)
  BY <1>3, <1>6
<1> QED
  BY <1>4, <1>5, <1>7, <1>8, <1>9, <1>10, <1>11, <1>12, <1>13
     DEF TypeInv, TypeOK, BeforeRun, AfterRun

\* Removing the state file.
LEMMA RemoveTyped ==
  ASSUME TypeInv, Remove
  PROVE  /\ TypedState(saved)' /\ \A s \in entries' : TypedState(s)
         /\ "powerloss" \in Faults => saved' \in entries'
  BY DEF Remove, Durably, TypedState, TypeInv, TypeOK, DiskTypeOK

LEMMA CallStepTyped == TypeInv /\ CallStep => TypeInv'
<1> SUFFICES ASSUME TypeInv, CallStep PROVE TypeInv'
  OBVIOUS
<1>0. srv' = srv /\ doubtful' \subseteq Block
  BY DoubtsTyped DEF CallStep, Next
<1>d. UNCHANGED <<srv, diskVars>> =>
        DiskTypeOK' /\ TypedState(saved)' /\ \A s \in entries' : TypedState(s)
  BY DEF TypeInv, TypeOK, DiskTypeOK, TypedState, diskVars
<1>r. ASSUME NEW r \in Results, Return(r), UNCHANGED <<diskVars, pending>>,
             pc \in BeforeRun \cup AfterRun
      PROVE  TypeInv'
  BY <1>r, <1>0, <1>d, EndedDropped, ReturnTyped DEF TypeInv, TypeOK, DiskTypeOK
<1>1. CASE Probe
  <2>1. CallTypeOK'
    BY <1>1, <1>0 DEF Probe, TypeInv, TypeOK, CallTypeOK, DiskTypeOK
  <2> QED
    BY <1>1, <1>0, <1>d, <2>1, SameTasksTyped DEF Probe, TypeInv, BeforeRun, AfterRun
<1>2. CASE ProbeCancelled
  BY <1>2, <1>r DEF ProbeCancelled, BeforeRun, Results
<1>3. CASE StartFails
  BY <1>3, <1>r DEF StartFails, BeforeRun, Results
<1>4. CASE StartWorkers
  BY <1>4, <1>0, StartTyped
<1>5. CASE Join
  <2>1. CallTypeOK'
    BY <1>5 DEF Join, TypeInv, TypeOK, CallTypeOK
  <2> QED
    BY <1>5, <1>0, <1>d, <2>1, SameTasksTyped DEF Join, BeforeRun
<1>6. CASE ReturnCancelled
  BY <1>6, <1>r DEF ReturnCancelled, SaverAwaited, AfterRun, Results
<1>7. CASE ReturnError
  BY <1>7, <1>r DEF ReturnError, SaverAwaited, AfterRun, Results
<1>8. CASE ReturnChanged
  <2>1. CallTypeOK'
    BY <1>8 DEF ReturnChanged, TypeInv, TypeOK, CallTypeOK
  <2> QED
    BY <1>8, <1>0, <1>d, <2>1, SameTasksTyped
       DEF ReturnChanged, SaverAwaited, TypeInv, BeforeRun, AfterRun
<1>9. CASE ReturnMismatch
  BY <1>9, <1>r DEF ReturnMismatch, AllOk, SaverAwaited, AfterRun, Results
<1>10. CASE FinalSync
  <2>1. CallTypeOK'
    BY <1>10 DEF FinalSync, TypeInv, TypeOK, CallTypeOK
  <2>2. DiskTypeOK'
    BY <1>10, <1>0 DEF FinalSync, Durably, SyncedAtEnd, TypeInv, TypeOK, DiskTypeOK
  <2>3. TypedState(saved)' /\ \A s \in entries' : TypedState(s)
    BY <1>10 DEF FinalSync, TypeInv, TypedState
  <2> QED
    BY <1>10, <2>1, <2>2, <2>3, SameTasksTyped
       DEF FinalSync, AllOk, SaverAwaited, TypeInv, BeforeRun, AfterRun
<1>11. CASE DeleteState
  <2>1. DiskTypeOK' /\ TypedState(saved)' /\ \A s \in entries' : TypedState(s)
    BY <1>11, <1>0, RemoveTyped DEF DeleteState, TypeInv, TypeOK, DiskTypeOK
  <2>2. CASE pc = "deleting"
    <3>1. pc' = "verify" /\ UNCHANGED <<taskVars, info, threads, cancel, result, calls>>
      BY <1>11, <2>2 DEF DeleteState, taskVars, ioVars
    <3>2. CallTypeOK'
      BY <3>1 DEF TypeInv, TypeOK, CallTypeOK
    <3> QED
      BY <2>1, <2>2, <3>1, <3>2, SameTasksTyped DEF TypeInv, BeforeRun, AfterRun
  <2>3. CASE pc = "dropping"
    BY <1>11, <1>0, <2>1, <2>3, EndedDropped, ReturnTyped
       DEF DeleteState, Results, AfterRun, TypeInv, TypeOK, DiskTypeOK
  <2> QED
    BY <1>11, <2>2, <2>3 DEF DeleteState
<1>12. CASE Verify
  BY <1>12, <1>r DEF Verify, AfterRun, Results
<1>13. CASE VerifyFails
  <2>1. cache' \in [Block -> Content] /\ platter' \in [Block -> SUBSET Content]
    BY <1>13, ConstantsAssumption
       DEF VerifyFails, Durably, TypeInv, TypeOK, DiskTypeOK, Content
  <2>2. DiskTypeOK' /\ TypedState(saved)' /\ \A s \in entries' : TypedState(s)
    BY <1>13, <1>0, <2>1, RemoveTyped DEF VerifyFails, TypeInv, TypeOK, DiskTypeOK
  <2>3. pending' \subseteq pending /\ \A p \in pending : p.owner = Dropped
    BY <1>13, EndedDropped DEF VerifyFails, AfterRun
  <2> QED
    BY <1>13, <1>0, <2>2, <2>3, ReturnTyped DEF VerifyFails, Results, DiskTypeOK
<1> QED
  BY <1>1, <1>2, <1>3, <1>4, <1>5, <1>6, <1>7, <1>8, <1>9, <1>10, <1>11, <1>12, <1>13
     DEF CallStep

Places == {"loop", "sent", "stream", "flush", "backoff"} \cup Ended

\* What a step of one worker may change.
WorkerFrame == UNCHANGED <<srv, callVars, saverVars, saved, entries, starts, ends>>

\* Only a call that runs has a worker that has not ended.
LEMMA RunningWorker ==
  ASSUME TypeInv, NEW w \in Workers, wpc[w] \notin Ended
  PROVE  pc = "run"
  BY DEF TypeInv, TypeOK, CallTypeOK, BeforeRun, AfterRun

\* A worker moves on to a place; what else it changes keeps its type.
LEMMA WorkerMoveTyped ==
  ASSUME TypeInv, NEW w \in Workers, wpc[w] \notin Ended, WorkerFrame,
         NEW place \in Places, Goto(w, place),
         cache' \in [Block -> Content], platter' \in [Block -> SUBSET Content],
         currents' \in [Workers -> Nat], body' \in [Workers -> Version],
         attempt' \in [Workers -> 0 .. AtLeast(MaxRetries, 1)],
         \A v \in Workers : attempt'[v] = attempt[v] \/ v = w,
         place # "exhausted" => attempt'[w] < AtLeast(MaxRetries, 1),
         pending' \subseteq [owner : Workers \cup {Dropped}, block : Block, content : Version],
         \A p \in pending' : p \in pending \/ p.owner = w \/ p.owner = Dropped,
         (\E p \in pending' : p.owner = w) => place \in {"stream", "flush"},
         broken' \subseteq Workers, doubtful' \subseteq Block
  PROVE  TypeInv'
<1>1. Workers' = Workers /\ pc' = "run" /\ saved' = saved /\ entries' = entries
      /\ spc' = spc
  BY RunningWorker DEF WorkerFrame, Workers, callVars, saverVars
<1>2. wpc' \in [Workers -> Places] /\ wpc'[w] = place
       /\ \A v \in Workers : v # w => wpc'[v] = wpc[v]
  BY DEF Goto, TypeInv, TypeOK, WorkerTypeOK, Places
<1>3. WorkerTypeOK'
  BY <1>1, <1>2 DEF WorkerTypeOK, Places
<1>4. DiskTypeOK' /\ CallTypeOK' /\ RangeTypeOK' /\ SaverTypeOK'
  BY <1>1 DEF TypeInv, TypeOK, DiskTypeOK, CallTypeOK, RangeTypeOK, SaverTypeOK,
              WorkerFrame, callVars, saverVars
<1>5. \A p \in pending' : p.owner # Dropped => wpc'[p.owner] \in {"stream", "flush"}
  <2> SUFFICES ASSUME NEW p \in pending', p.owner # Dropped
               PROVE  wpc'[p.owner] \in {"stream", "flush"}
    OBVIOUS
  <2>1. CASE p.owner = w
    BY <2>1, <1>2
  <2>2. CASE p.owner # w
    <3>1. p \in pending /\ p.owner \in Workers
      BY <2>2
    <3> QED
      BY <2>2, <3>1, <1>2 DEF TypeInv
  <2> QED
    BY <2>1, <2>2
<1>6. \A v \in Workers : wpc'[v] # "exhausted" => attempt'[v] < AtLeast(MaxRetries, 1)
  BY <1>2 DEF TypeInv
<1>7. TypedState(saved)' /\ (\A s \in entries' : TypedState(s)) /\ \E n \in Nat : Workers' = 1 .. n
  BY <1>1 DEF TypeInv, TypedState
<1> QED
  BY <1>1, <1>3, <1>4, <1>5, <1>6, <1>7 DEF TypeInv, TypeOK, BeforeRun, AfterRun

\* Retrying counts one more attempt, and gives up at the last.
LEMMA RetryAttempts ==
  ASSUME TypeInv, NEW w \in Workers, wpc[w] \notin Ended, Retry(w)
  PROVE  \E place \in {"backoff", "exhausted"} :
           /\ Goto(w, place)
           /\ attempt' \in [Workers -> 0 .. AtLeast(MaxRetries, 1)]
           /\ \A v \in Workers : attempt'[v] = attempt[v] \/ v = w
           /\ place # "exhausted" => attempt'[w] < AtLeast(MaxRetries, 1)
<1>1. attempt[w] \in Nat /\ attempt[w] < AtLeast(MaxRetries, 1)
  BY DEF TypeInv, TypeOK, WorkerTypeOK, Ended
<1>2. AtLeast(MaxRetries, 1) \in Nat /\ AtLeast(MaxRetries, 1) >= 1
      /\ AtLeast(MaxRetries, 1) >= MaxRetries
  BY ConstantsAssumption DEF AtLeast
<1>3. attempt' = [attempt EXCEPT ![w] = attempt[w] + 1]
  BY DEF Retry
<1>4. attempt' \in [Workers -> 0 .. AtLeast(MaxRetries, 1)] /\ attempt'[w] = attempt[w] + 1
      /\ \A v \in Workers : attempt'[v] = attempt[v] \/ v = w
  BY <1>1, <1>2, <1>3 DEF TypeInv, TypeOK, WorkerTypeOK
<1>5. CASE GivesUp(w)
  BY <1>4, <1>5 DEF Retry
<1>6. CASE ~GivesUp(w)
  <2>1. attempt[w] + 1 < AtLeast(MaxRetries, 1)
    BY <1>1, <1>2, <1>6, ConstantsAssumption DEF GivesUp
  <2> QED
    BY <2>1, <1>4, <1>6 DEF Retry
<1> QED
  BY <1>5, <1>6

LEMMA WorkerStepTyped ==
  ASSUME TypeInv, NEW w \in Workers, WorkerStep(w)
  PROVE  TypeInv'
<1> USE DEF WorkerFrame
<1>f. WorkerFrame /\ doubtful' \subseteq Block
  <2>1. doubtful' \subseteq Block
    BY DoubtsTyped DEF Next
  <2> QED
    BY <2>1 DEF WorkerStep
<1>t. /\ cache \in [Block -> Content] /\ platter \in [Block -> SUBSET Content]
      /\ currents \in [Workers -> Nat] /\ body \in [Workers -> Version]
      /\ ends \in [Workers -> Nat]
      /\ attempt \in [Workers -> 0 .. AtLeast(MaxRetries, 1)]
      /\ pending \subseteq [owner : Workers \cup {Dropped}, block : Block, content : Version]
      /\ broken \subseteq Workers
      /\ info \in Version /\ srv \in Version
  BY DEF TypeInv, TypeOK, DiskTypeOK, CallTypeOK, RangeTypeOK, WorkerTypeOK
<1>w. w # Dropped
  BY DEF TypeInv, Dropped
<1>o. wpc[w] \notin {"stream", "flush"} => \A p \in pending : p.owner # w
  BY <1>w DEF TypeInv
<1>a. wpc[w] \notin Ended => attempt[w] < AtLeast(MaxRetries, 1)
  BY DEF TypeInv, Ended
<1>max. AtLeast(MaxRetries, 1) \in Nat /\ 0 < AtLeast(MaxRetries, 1)
  BY ConstantsAssumption DEF AtLeast
\* A step that does not touch the disk, nor the attempts.
<1>m. ASSUME NEW place \in Places, Goto(w, place), wpc[w] \notin Ended, NoIO,
             UNCHANGED attempt, body' \in [Workers -> Version],
             wpc[w] \in {"stream", "flush"} => place \in {"stream", "flush"}
      PROVE  TypeInv'
  BY <1>m, <1>f, <1>t, <1>o, <1>a, WorkerMoveTyped DEF NoIO
<1>1. CASE Loop(w)
  <2>1. wpc[w] = "loop" /\ NoIO /\ UNCHANGED <<attempt, body>>
    BY <1>1 DEF Loop
  <2>2. \E place \in {"ok", "cancelled", "sent"} : Goto(w, place)
    BY <1>1 DEF Loop
  <2> QED
    BY <2>1, <2>2, <1>m, <1>t DEF Places, Ended
<1>2. CASE Reply206(w)
  <2>1. body' \in [Workers -> Version]
    BY <1>2, <1>t DEF Reply206
  <2> QED
    BY <1>2, <2>1, <1>m DEF Reply206, Places, Ended
<1>3. CASE Reply200(w)
  <2>1. \E place \in {"norange", "changed"} : Goto(w, place)
    BY <1>3 DEF Reply200
  <2> QED
    BY <1>3, <2>1, <1>m, <1>t DEF Reply200, Places, Ended
<1>4. CASE Reply416(w)
  <2>1. currents' \in [Workers -> Nat]
    BY <1>4, <1>t DEF Reply416, PositionAfter416
  <2>2. attempt' = [attempt EXCEPT ![w] = 0]
    BY <1>4 DEF Reply416
  <2>3. attempt' \in [Workers -> 0 .. AtLeast(MaxRetries, 1)] /\ attempt'[w] = 0
        /\ \A v \in Workers : attempt'[v] = attempt[v] \/ v = w
    BY <2>2, <1>t, <1>max
  <2> QED
    BY <1>4, <2>1, <2>3, <1>f, <1>t, <1>o, <1>max, WorkerMoveTyped DEF Reply416, Places, Ended
<1>5. CASE ReplyError(w)
  <2>1. wpc[w] \notin Ended
    BY <1>5 DEF ReplyError, Ended
  <2>2. Retry(w) /\ NoIO /\ UNCHANGED body /\ wpc[w] = "sent"
    BY <1>5 DEF ReplyError
  <2>3. PICK place \in {"backoff", "exhausted"} :
           /\ Goto(w, place)
           /\ attempt' \in [Workers -> 0 .. AtLeast(MaxRetries, 1)]
           /\ \A v \in Workers : attempt'[v] = attempt[v] \/ v = w
           /\ place # "exhausted" => attempt'[w] < AtLeast(MaxRetries, 1)
    BY <2>1, <2>2, RetryAttempts
  <2> QED
    BY <2>1, <2>2, <2>3, <1>f, <1>t, <1>o, WorkerMoveTyped DEF NoIO, Places, Ended
<1>6. ASSUME NEW n \in 1 .. MaxChunk, Deliver(w, n) PROVE TypeInv'
  <2> DEFINE to == WriteEnd(w, n)
             blocks == currents[w] .. to - 1
  <2>1. to \in Nat /\ to <= currents[w] + n
    BY <1>t, <1>6 DEF WriteEnd, AtMost
  <2>2. currents[w] + n <= SizeOf[body[w]] /\ SizeOf[body[w]] \in Nat
    BY <1>6, <1>t, ConstantsAssumption DEF Deliver
  <2>3. blocks \subseteq Block
    <3>1. blocks \subseteq 0 .. SizeOf[body[w]] - 1
      BY <2>1, <2>2, <1>t
    <3> QED
      BY <3>1, <1>t DEF Block
  <2> HIDE DEF to
  <2>4. /\ cache' \in [Block -> Content] /\ platter' \in [Block -> SUBSET Content]
        /\ pending' \subseteq [owner : Workers \cup {Dropped}, block : Block, content : Version]
        /\ \A p \in pending' : p \in pending \/ p.owner = w
    <3>1. Write(w, blocks)
      BY <1>6 DEF Deliver, to
    <3>2. body[w] \in Content /\ body[w] \in Version
      BY <1>t, ConstantsAssumption DEF Version, Content
    <3>3. [owner : {w}, block : blocks, content : {body[w]}]
            \subseteq [owner : Workers \cup {Dropped}, block : Block, content : Version]
      BY <2>3, <3>2
    <3> QED
      BY <1>6, <1>t, <3>1, <3>3 DEF Deliver, Write
  <2>5. currents' \in [Workers -> Nat]
    BY <1>6, <1>t, <2>1 DEF Deliver, to
  <2>6. \E place \in {"flush", "stream"} : Goto(w, place)
    BY <1>6 DEF Deliver, to
  <2>7. wpc[w] \notin Ended /\ UNCHANGED <<attempt, body, broken>>
    BY <1>6 DEF Deliver, Ended
  <2> QED
    BY <2>4, <2>5, <2>6, <2>7, <1>f, <1>t, <1>a, WorkerMoveTyped DEF Places, Ended
<1>7. CASE StreamCancelled(w)
  <2>1. \A p \in pending : p.owner # w
    BY <1>7 DEF StreamCancelled, Flushed, PendingOf
  <2> QED
    BY <1>7, <2>1, <1>f, <1>t, <1>a, WorkerMoveTyped DEF StreamCancelled, Places, Ended
<1>8. CASE StreamBreaks(w)
  <2>1. wpc[w] \notin Ended /\ Retry(w)
    BY <1>8 DEF StreamBreaks, Ended
  <2>2. PICK place \in {"backoff", "exhausted"} :
           /\ Goto(w, place)
           /\ attempt' \in [Workers -> 0 .. AtLeast(MaxRetries, 1)]
           /\ \A v \in Workers : attempt'[v] = attempt[v] \/ v = w
           /\ place # "exhausted" => attempt'[w] < AtLeast(MaxRetries, 1)
    BY <2>1, RetryAttempts
  <2>3. pending' = { [p EXCEPT !.owner = IF p.owner = w THEN Dropped ELSE p.owner] : p \in pending }
    BY <1>8 DEF StreamBreaks
  <2>4. ASSUME NEW q \in pending'
        PROVE  /\ q \in [owner : Workers \cup {Dropped}, block : Block, content : Version]
               /\ q \in pending \/ q.owner = Dropped
               /\ q.owner # w
    <3>1. PICK p \in pending :
            q = [p EXCEPT !.owner = IF p.owner = w THEN Dropped ELSE p.owner]
      BY <2>3
    <3>2. p \in [owner : Workers \cup {Dropped}, block : Block, content : Version]
      BY <1>t
    <3> QED
      BY <3>1, <3>2, <1>w
  <2>5. broken' \subseteq Workers /\ UNCHANGED <<body, cache, platter, currents>>
    BY <1>8, <1>t DEF StreamBreaks
  <2> QED
    BY <2>1, <2>2, <2>4, <2>5, <1>f, <1>t, WorkerMoveTyped DEF Places, Ended
<1>9. CASE StreamEnds(w)
  BY <1>9, <1>m, <1>t DEF StreamEnds, Places, Ended
<1>10. CASE Flush(w)
  <2>1. /\ \A p \in pending : p.owner # w
        /\ wpc[w] \notin Ended
        /\ broken' \subseteq Workers
        /\ UNCHANGED <<body, cache, platter, currents, pending>>
    BY <1>10, <1>t DEF Flush, PendingOf, Ended
  <2>2. CASE Retry(w)
    <3>1. PICK place \in {"backoff", "exhausted"} :
             /\ Goto(w, place)
             /\ attempt' \in [Workers -> 0 .. AtLeast(MaxRetries, 1)]
             /\ \A v \in Workers : attempt'[v] = attempt[v] \/ v = w
             /\ place # "exhausted" => attempt'[w] < AtLeast(MaxRetries, 1)
      BY <2>1, <2>2, RetryAttempts
    <3> QED
      BY <2>1, <3>1, <1>f, <1>t, WorkerMoveTyped DEF Places, Ended
  <2>3. CASE attempt' = [attempt EXCEPT ![w] = 0] /\ Goto(w, "loop")
    <3>1. attempt' \in [Workers -> 0 .. AtLeast(MaxRetries, 1)] /\ attempt'[w] = 0
          /\ \A v \in Workers : attempt'[v] = attempt[v] \/ v = w
      BY <2>3, <1>t, <1>max
    <3> QED
      BY <2>1, <2>3, <3>1, <1>f, <1>t, <1>max, WorkerMoveTyped DEF Places, Ended
  <2> QED
    BY <1>10, <2>2, <2>3 DEF Flush
<1>11. CASE BackoffOver(w)
  <2>1. wpc[w] = "backoff" /\ NoIO /\ UNCHANGED <<attempt, body>>
    BY <1>11 DEF BackoffOver
  <2>2. \E place \in {"loop", "cancelled"} : Goto(w, place)
    BY <1>11 DEF BackoffOver
  <2> QED
    BY <2>1, <2>2, <1>m, <1>t DEF Places, Ended
<1> QED
  BY <1>1, <1>2, <1>3, <1>4, <1>5, <1>6, <1>7, <1>8, <1>9, <1>10, <1>11 DEF WorkerStep

LEMMA SaverStepTyped == TypeInv /\ SaverStep => TypeInv'
<1> SUFFICES ASSUME TypeInv, SaverStep PROVE TypeInv'
  OBVIOUS
<1>f. UNCHANGED <<srv, callVars, rangeVars, workerVars, ioVars, cache, doubtful>> /\ Workers' = Workers
  BY DEF SaverStep, rangeVars, Workers
<1>1. CallTypeOK' /\ RangeTypeOK' /\ WorkerTypeOK'
  BY <1>f DEF TypeInv, TypeOK, CallTypeOK, RangeTypeOK, WorkerTypeOK,
              callVars, rangeVars, workerVars, ioVars
<1>2. SaverTypeOK' /\ DiskTypeOK' /\ TypedState(saved)' /\ \A s \in entries' : TypedState(s)
  <2>0. SaverTypeOK /\ DiskTypeOK /\ RangeTypeOK /\ TypedState(saved)
        /\ \A s \in entries : TypedState(s)
    BY DEF TypeInv, TypeOK
  <2>1. CASE \E w \in Workers : ReadPosition(w)
    <3>1. PICK w \in Workers : ReadPosition(w)
      BY <2>1
    <3>2. SnapPosition(w) \in Nat
      BY <2>0 DEF SnapPosition, AtMost, RangeTypeOK
    <3>3. snap' \in [Workers -> Nat] /\ read' \in Workers
      BY <3>1, <3>2, <2>0 DEF ReadPosition, SaverTypeOK
    <3>4. final' \in BOOLEAN
      BY <3>1, <2>0 DEF ReadPosition, SaverTypeOK
    <3>5. spc' \in {"read", "snapped"}
      BY <3>1 DEF ReadPosition
    <3> QED
      BY <3>1, <3>3, <3>4, <3>5, <2>0, <1>f
         DEF ReadPosition, SaverTypeOK, DiskTypeOK, TypedState
  <2>2. CASE SyncData
    <3>1. platter' \in [Block -> SUBSET Content]
      BY <2>2, <2>0 DEF SyncData, Durably, DiskTypeOK
    <3> QED
      BY <2>2, <3>1, <2>0, <1>f DEF SyncData, SaverTypeOK, DiskTypeOK, TypedState
  <2>3. CASE Persist
    <3>1. snap' \in [Workers -> Nat] /\ read' = 0 /\ final' = FALSE /\ spc' \in {"off", "read"}
      BY <2>3, <2>0 DEF Persist, AfterCheckpoint, RangeTypeOK
    <3>2. SaverTypeOK'
      BY <3>1, <1>f DEF SaverTypeOK
    <3>3. TypedState(Checkpoint)
      <4>1. PICK n \in Nat : Workers = 1 .. n
        BY DEF TypeInv
      <4>2. n \in Nat \ {0}
        <5>1. Workers # {}
          BY <2>3 DEF Persist, ReadyToPersist, TypeInv
        <5> QED
          BY <5>1, <4>1
      <4>3. Checkpoint.workers \in [Workers -> RangeRecord]
        BY <2>0 DEF Checkpoint, NewState, RangeRecord, RangeTypeOK, SaverTypeOK
      <4> QED
        BY <4>1, <4>2, <4>3 DEF TypedState
    <3>4. TypedState(saved)' /\ (\A s \in entries' : TypedState(s))
          /\ ("powerloss" \in Faults => saved' \in entries')
      <4>1. CASE saved' = Checkpoint /\ entries' = Durably(entries \cup {Checkpoint}, entries)
        BY <4>1, <3>3, <2>0 DEF Durably, TypedState
      <4>2. CASE UNCHANGED <<saved, entries>>
        BY <4>2, <2>0 DEF TypedState, DiskTypeOK
      <4> QED
        BY <4>1, <4>2, <2>3 DEF Persist
    <3>5. DiskTypeOK'
      BY <2>3, <3>4, <2>0, <1>f DEF Persist, DiskTypeOK
    <3> QED
      BY <3>2, <3>4, <3>5
  <2> QED
    BY <2>1, <2>2, <2>3 DEF SaverStep
<1>3. Workers # {}
  BY DEF SaverStep, ReadPosition, SyncData, Persist, ReadyToPersist, TypeInv
<1> QED
  BY <1>f, <1>1, <1>2, <1>3
     DEF TypeInv, TypeOK, BeforeRun, AfterRun, callVars, workerVars, ioVars

LEMMA EnvironmentStepTyped == TypeInv /\ EnvironmentStep => TypeInv'
<1> SUFFICES ASSUME TypeInv, EnvironmentStep PROVE TypeInv'
  OBVIOUS
<1>t. DiskTypeOK /\ CallTypeOK /\ RangeTypeOK /\ WorkerTypeOK /\ SaverTypeOK
      /\ TypedState(saved) /\ \A s \in entries : TypedState(s)
  BY DEF TypeInv, TypeOK
<1>v. doubtful' \subseteq Block
  BY DoubtsTyped DEF Next
<1>1. ASSUME NEW p \in pending, Land(p) PROVE TypeInv'
  <2>1. p.block \in Block /\ p.content \in Version /\ p.content \in Content
    BY <1>t, ConstantsAssumption DEF WorkerTypeOK, Version, Content
  <2>2. cache' \in [Block -> Content]
    BY <1>1, <1>t, <2>1 DEF Land, DiskTypeOK
  <2>3. platter' \in [Block -> SUBSET Content]
    BY <1>1, <1>t, <2>1 DEF Land, Durably, DiskTypeOK
  <2>4. UNCHANGED <<srv, saved, entries, broken, callVars, rangeVars, workerVars, saverVars>>
    BY <1>1 DEF Land
  <2>5. Workers' = Workers /\ pending' \subseteq pending
    BY <1>1, <2>4 DEF Land, Workers, rangeVars
  <2>6. DiskTypeOK' /\ CallTypeOK' /\ RangeTypeOK'
    BY <1>v, <2>2, <2>3, <2>4, <2>5, <1>t DEF DiskTypeOK, CallTypeOK, RangeTypeOK, callVars, rangeVars
  <2>7. WorkerTypeOK' /\ SaverTypeOK'
    BY <2>4, <2>5, <1>t DEF WorkerTypeOK, SaverTypeOK, workerVars, saverVars
  <2> QED
    BY <2>4, <2>5, <2>6, <2>7
       DEF TypeInv, TypeOK, TypedState, BeforeRun, AfterRun, callVars, workerVars, saverVars
<1>2. ASSUME NEW p \in pending, LandFails(p) PROVE TypeInv'
  <2>1. /\ UNCHANGED <<srv, cache, platter, saved, entries>>
        /\ UNCHANGED <<callVars, rangeVars, workerVars, saverVars>>
    BY <1>2 DEF LandFails
  <2>2. Workers' = Workers /\ pending' \subseteq pending /\ broken' \subseteq Workers
    <3>1. Workers' = Workers
      BY <2>1 DEF Workers, rangeVars
    <3>2. p.owner \in Workers \cup {Dropped}
      BY <1>t DEF WorkerTypeOK
    <3> QED
      BY <1>2, <3>1, <3>2, <1>t DEF LandFails, WorkerTypeOK
  <2>3. DiskTypeOK' /\ CallTypeOK' /\ RangeTypeOK'
    BY <1>v, <2>1, <2>2, <1>t DEF DiskTypeOK, CallTypeOK, RangeTypeOK, callVars, rangeVars
  <2>4. WorkerTypeOK' /\ SaverTypeOK'
    BY <2>1, <2>2, <1>t DEF WorkerTypeOK, SaverTypeOK, workerVars, saverVars
  <2> QED
    BY <2>1, <2>2, <2>3, <2>4
       DEF TypeInv, TypeOK, TypedState, BeforeRun, AfterRun,
           callVars, workerVars, saverVars
<1>3. CASE Cancel
  <2>1. CallTypeOK'
    BY <1>3, <1>t DEF Cancel, CallTypeOK
  <2>2. DiskTypeOK' /\ TypedState(saved)' /\ \A s \in entries' : TypedState(s)
    BY <1>3, <1>t DEF Cancel, DiskTypeOK, TypedState, diskVars
  <2> QED
    BY <1>3, <2>1, <2>2, SameTasksTyped DEF Cancel, TypeInv
<1>4. CASE Kill
  <2>1. DiskTypeOK' /\ TypedState(saved)' /\ \A s \in entries' : TypedState(s)
    BY <1>v, <1>4, <1>t DEF Kill, DiskTypeOK, TypedState
  <2> QED
    BY <1>4, <2>1, ReturnTyped DEF Kill, Results, DiskTypeOK
<1>5. CASE PowerLoss
  <2>1. PICK kept \in [Block -> Content], entry \in entries :
          /\ cache' = kept
          /\ platter' = [b \in Block |-> {kept[b]}]
          /\ saved' = entry
          /\ entries' = {entry}
    BY <1>5 DEF PowerLoss
  <2>2. DiskTypeOK' /\ TypedState(saved)' /\ \A s \in entries' : TypedState(s)
    BY <1>v, <1>5, <2>1, <1>t DEF PowerLoss, DiskTypeOK, TypedState
  <2>3. PICK r \in Results \cup {"none"} : Return(r)
    BY <1>5, <1>t DEF PowerLoss, Results, CallTypeOK
  <2> QED
    BY <1>5, <2>2, <2>3, ReturnTyped DEF PowerLoss, DiskTypeOK
<1>6. CASE ServerPublishes
  <2>1. srv' \in Version
    BY <1>6, <1>t, ConstantsAssumption DEF ServerPublishes, DiskTypeOK, Version
  <2>2. DiskTypeOK' /\ CallTypeOK' /\ TypedState(saved)' /\ \A s \in entries' : TypedState(s)
    BY <1>6, <2>1, <1>t
       DEF ServerPublishes, DiskTypeOK, CallTypeOK, TypedState, diskVars, callVars
  <2> QED
    BY <1>6, <2>2, SameTasksTyped DEF ServerPublishes, TypeInv, callVars
<1> QED
  BY <1>1, <1>2, <1>3, <1>4, <1>5, <1>6 DEF EnvironmentStep

LEMMA TypeStep == TypeInv /\ [Next]_vars => TypeInv'
<1> SUFFICES ASSUME TypeInv, [Next]_vars PROVE TypeInv'
  OBVIOUS
<1>1. ASSUME NEW n \in ThreadChoices, Call(n) PROVE TypeInv'
  <2>1. calls' \in 0 .. MaxCalls
    BY <1>1, ConstantsAssumption DEF Call, TypeInv, TypeOK, CallTypeOK
  <2>2. CallTypeOK'
    BY <1>1, <2>1 DEF Call, TypeInv, TypeOK, CallTypeOK
  <2>3. DiskTypeOK' /\ TypedState(saved)' /\ \A s \in entries' : TypedState(s)
    BY <1>1 DEF Call, TypeInv, TypeOK, DiskTypeOK, TypedState, diskVars
  <2> QED
    BY <1>1, <2>2, <2>3, SameTasksTyped DEF Call, TypeInv, BeforeRun, AfterRun
<1>2. CASE UNCHANGED vars
  <2>1. DiskTypeOK' /\ CallTypeOK' /\ TypedState(saved)' /\ \A s \in entries' : TypedState(s)
    BY <1>2 DEF vars, TypeInv, TypeOK, DiskTypeOK, CallTypeOK, TypedState, diskVars, callVars
  <2> QED
    BY <1>2, <2>1, SameTasksTyped DEF vars, TypeInv, callVars
<1> QED
  BY <1>1, <1>2, CallStepTyped, WorkerStepTyped, SaverStepTyped, EnvironmentStepTyped
     DEF Next

\* Every step keeps every variable's type; no worker counts more attempts than
\* max_retries.  Whatever the faults, the cache and the constants.
THEOREM TypeCorrect == Spec => []TypeOK
<1>1. TypeInv => TypeOK
  BY DEF TypeInv
<1> QED
  BY <1>1, TypeInit, TypeStep, PTL DEF Spec

-------------------------------------------------------------------------------
(***************************************************************************)
(* The ranges, their positions, and the state files made of them.          *)
(***************************************************************************)

\* A state file that `load` accepts, or will refuse for its version alone.
Loadable(s) == s = None \/ s \in Leftovers \/ Validate(s)

\* The workers' ranges follow one another from 0 to the probed size; each holds
\* its position, and the saver has read none that was not reached.
RangesFollow ==
  \A w \in Workers :
    /\ starts[w] = IF w = 1 THEN 0 ELSE ends[w - 1]
    /\ w + 1 \notin Workers => ends[w] = SizeOf[info]
    /\ starts[w] <= snap[w]
    /\ snap[w] <= currents[w]
    /\ currents[w] <= ends[w]

LayoutInv ==
  /\ RangesFollow
  /\ Loadable(saved)
  /\ \A s \in entries : Loadable(s)

LEMMA RangeTypes ==
  ASSUME TypeInv
  PROVE  /\ starts \in [Workers -> Nat] /\ ends \in [Workers -> Nat]
         /\ currents \in [Workers -> Nat] /\ snap \in [Workers -> Nat]
         /\ \E n \in Nat : Workers = 1 .. n
         /\ info \in Version /\ SizeOf[info] \in Nat \ {0}
  BY ConstantsAssumption DEF TypeInv, TypeOK, RangeTypeOK, SaverTypeOK, CallTypeOK

\* What a call runs on is laid out that way, resumed or split.
LEMMA PlanFollows ==
  ASSUME TypeInv, LayoutInv
  PROVE  /\ Plan # <<>>
         /\ \A w \in DOMAIN Plan :
              /\ Plan[w].start = IF w = 1 THEN 0 ELSE Plan[w - 1].end
              /\ w + 1 \notin DOMAIN Plan => Plan[w].end = SizeOf[info]
              /\ Plan[w].start <= Plan[w].current
              /\ Plan[w].current <= Plan[w].end
<1>1. CASE Usable(saved)
  <2>1. Validate(saved) /\ saved.size = SizeOf[info] /\ Plan = saved.workers
    BY <1>1 DEF Usable, Plan
  <2> QED
    BY <2>1 DEF Validate
<1>2. CASE ~Usable(saved)
  <2> DEFINE ws == SplitWorkers(SizeOf[info], threads, MinChunk)
  <2>1. threads \in Nat /\ MinChunk \in Nat
    BY ConstantsAssumption DEF TypeInv, TypeOK, CallTypeOK
  <2>2. Validate(NewState(SizeOf[info], None, None, ws)) /\ Plan = ws
    BY <1>2, <2>1, RangeTypes, SplitValidates DEF Plan
  <2> HIDE DEF ws
  <2> QED
    BY <2>2 DEF Validate, NewState
<1> QED
  BY <1>1, <1>2

\* Workers move on within their ranges, and the saver reads a position, or forgets
\* what it read.
RangesMove ==
  /\ UNCHANGED <<starts, ends>>
  /\ info' = info \/ Workers = {}
  /\ \A w \in Workers :
       /\ currents[w] <= currents'[w] /\ currents'[w] <= ends[w]
       /\ snap'[w] \in {snap[w], starts[w], currents[w]}

\* What one step does to ranges and positions.
LEMMA RangesStep ==
  ASSUME TypeInv, LayoutInv, [Next]_vars
  PROVE  Workers' = {} \/ StartWorkers \/ RangesMove
<1> DEFINE Same == UNCHANGED <<starts, ends, currents, snap>> /\ (info' = info \/ Workers = {})
<1>t. /\ starts \in [Workers -> Nat] /\ ends \in [Workers -> Nat]
      /\ currents \in [Workers -> Nat] /\ snap \in [Workers -> Nat]
      /\ \A w \in Workers : currents[w] <= ends[w]
  BY RangeTypes DEF LayoutInv, RangesFollow
<1>s. Same => RangesMove
  BY <1>t DEF RangesMove
<1>r. ASSUME NEW r, Return(r) PROVE Workers' = {}
  BY <1>r DEF Return, Workers, NoWorkers
<1>1. ASSUME NEW n \in ThreadChoices, Call(n) PROVE Same
  BY <1>1 DEF Call, taskVars, rangeVars, saverVars
<1>2. CASE CallStep
  <2>1. CASE Probe
    BY <2>1, <1>s DEF Probe, taskVars, rangeVars, saverVars, TypeInv, BeforeRun
  <2>2. CASE ProbeCancelled \/ StartFails \/ ReturnCancelled \/ ReturnError \/ ReturnMismatch
             \/ Verify \/ VerifyFails
    BY <2>2, <1>r DEF ProbeCancelled, StartFails, ReturnCancelled, ReturnError, ReturnMismatch,
                      Verify, VerifyFails
  <2>3. CASE Join \/ ReturnChanged \/ FinalSync
    BY <2>3, <1>s DEF Join, ReturnChanged, FinalSync, taskVars, rangeVars, saverVars
  <2>4. CASE DeleteState
    BY <2>4, <1>r, <1>s DEF DeleteState, rangeVars, saverVars
  <2> QED
    BY <1>2, <1>s, <2>1, <2>2, <2>3, <2>4 DEF CallStep
<1>3. ASSUME NEW w \in Workers, WorkerStep(w)
      PROVE  RangesMove
  <2>1. UNCHANGED <<starts, ends, info, snap>>
    BY <1>3 DEF WorkerStep, callVars, saverVars
  <2>2. CASE UNCHANGED currents
    BY <2>1, <2>2, <1>s
  <2>3. CASE Reply416(w)
    <3>1. currents' = [currents EXCEPT ![w] = ends[w]]
      BY <2>3 DEF Reply416, PositionAfter416
    <3> QED
      BY <2>1, <3>1, <1>t DEF RangesMove
  <2>4. ASSUME NEW n \in 1 .. MaxChunk, Deliver(w, n)
        PROVE  \A v \in Workers : currents[v] <= currents'[v] /\ currents'[v] <= ends[v]
    <3>1. currents' = [currents EXCEPT ![w] = WriteEnd(w, n)]
      BY <2>4 DEF Deliver
    <3>2. WriteEnd(w, n) \in Nat /\ currents[w] <= WriteEnd(w, n) /\ WriteEnd(w, n) <= ends[w]
      BY <1>t DEF WriteEnd, AtMost
    <3> QED
      BY <3>1, <3>2, <1>t
  <2> QED
    BY <1>3, <2>1, <2>2, <2>3, <2>4
       DEF WorkerStep, Loop, Reply206, Reply200, ReplyError, StreamCancelled, StreamBreaks,
           StreamEnds, Flush, BackoffOver, NoIO, RangesMove
<1>4. CASE SaverStep
  <2>1. UNCHANGED <<starts, ends, currents, info>>
    BY <1>4 DEF SaverStep, callVars, rangeVars
  <2>2. \A w \in Workers : snap'[w] \in {snap[w], starts[w], currents[w]}
    <3>1. ASSUME NEW w \in Workers, ReadPosition(w)
          PROVE  \A v \in Workers : snap'[v] \in {snap[v], starts[v], currents[v]}
      <4>1. SnapPosition(w) = currents[w]
        BY <1>t DEF SnapPosition, AtMost
      <4>2. snap' = [snap EXCEPT ![w] = currents[w]]
        BY <3>1, <4>1 DEF ReadPosition
      <4> QED
        BY <4>2, <1>t
    <3> QED
      BY <1>4, <3>1 DEF SaverStep, SyncData, Persist
  <2> QED
    BY <2>1, <2>2, <1>t DEF RangesMove
<1>5. CASE EnvironmentStep
  <2>1. CASE Kill \/ PowerLoss
    BY <2>1, <1>r DEF Kill, PowerLoss
  <2>2. ASSUME (\E p \in pending : Land(p) \/ LandFails(p)) \/ Cancel \/ ServerPublishes
        PROVE  Same
    BY <2>2 DEF Land, LandFails, Cancel, ServerPublishes, callVars, taskVars, rangeVars, saverVars
  <2> QED
    BY <1>5, <1>s, <2>1, <2>2 DEF EnvironmentStep
<1>6. CASE UNCHANGED vars
  BY <1>6, <1>s DEF vars, callVars, taskVars, rangeVars, saverVars
<1> QED
  BY <1>1, <1>2, <1>3, <1>4, <1>5, <1>6, <1>s DEF Next

\* What one step does to the state file: it stays or is removed, or it is replaced
\* by a checkpoint, or it is what a power loss left.
LEMMA SavedStep ==
  ASSUME [Next]_vars
  PROVE  \/ saved' \in {saved, None} /\ entries' \subseteq entries \cup {None}
         \/ Persist /\ SaverStep
         \/ PowerLoss
<1> DEFINE Kept == saved' \in {saved, None} /\ entries' \subseteq entries \cup {None}
<1>1. ASSUME NEW n \in ThreadChoices, Call(n) PROVE Kept
  BY <1>1 DEF Call, diskVars
<1>2. CASE CallStep
  <2>1. ASSUME Remove PROVE Kept
    BY <2>1 DEF Remove, Durably
  <2> QED
    BY <1>2, <2>1
       DEF CallStep, Probe, ProbeCancelled, StartFails, StartWorkers, Join, ReturnCancelled,
           ReturnError, ReturnChanged, ReturnMismatch, FinalSync, DeleteState, Verify,
           VerifyFails, diskVars
<1>3. ASSUME NEW w \in Workers, WorkerStep(w) PROVE Kept
  BY <1>3 DEF WorkerStep
<1>4. CASE SaverStep
  BY <1>4 DEF SaverStep, ReadPosition, SyncData
<1>5. CASE EnvironmentStep
  BY <1>5 DEF EnvironmentStep, Land, LandFails, Cancel, Kill, ServerPublishes, diskVars
<1>6. CASE UNCHANGED vars
  BY <1>6 DEF vars, diskVars
<1> QED
  BY <1>1, <1>2, <1>3, <1>4, <1>5, <1>6 DEF Next

LEMMA CheckpointValid ==
  ASSUME TypeInv, LayoutInv, Workers # {}
  PROVE  Validate(Checkpoint)
<1>1. /\ Checkpoint.version = STATE_FILE_VERSION
      /\ Checkpoint.size = SizeOf[info]
      /\ DOMAIN Checkpoint.workers = Workers
      /\ \A w \in Workers : /\ Checkpoint.workers[w].start = starts[w]
                            /\ Checkpoint.workers[w].current = snap[w]
                            /\ Checkpoint.workers[w].end = ends[w]
  BY DEF Checkpoint, NewState
<1>2. \A w \in Workers : w # 1 => w - 1 \in Workers
  BY RangeTypes
<1>3. \A w \in Workers : snap[w] <= ends[w]
  BY RangeTypes DEF LayoutInv, RangesFollow
<1> HIDE DEF Checkpoint
<1> QED
  BY <1>1, <1>2, <1>3 DEF Validate, LayoutInv, RangesFollow

LEMMA LayoutInit == Init => LayoutInv
  BY DEF Init, LayoutInv, RangesFollow, Loadable, Workers, NoWorkers

LEMMA StartFollows ==
  ASSUME TypeInv, LayoutInv, StartWorkers
  PROVE  RangesFollow'
<1> DEFINE W == DOMAIN Plan
<1>1. /\ Workers' = W /\ info' = info
      /\ \A w \in W : /\ starts'[w] = Plan[w].start /\ ends'[w] = Plan[w].end
                      /\ currents'[w] = Plan[w].current /\ snap'[w] = Plan[w].start
  BY DEF StartWorkers, Workers, PositionOf
<1>2. PICK n \in Nat \ {0} : Plan \in [1 .. n -> RangeRecord]
  BY PlanTyped
<1>3. \A w \in W : /\ w # 1 => w - 1 \in W
                   /\ Plan[w].start \in Nat
  BY <1>2 DEF RangeRecord
<1>4. \A w \in W :
        /\ Plan[w].start = IF w = 1 THEN 0 ELSE Plan[w - 1].end
        /\ w + 1 \notin W => Plan[w].end = SizeOf[info]
        /\ Plan[w].start <= Plan[w].current
        /\ Plan[w].current <= Plan[w].end
  BY PlanFollows
<1> HIDE DEF W
<1> QED
  BY <1>1, <1>3, <1>4 DEF RangesFollow

LEMMA MoveFollows ==
  ASSUME TypeInv, TypeInv', RangesFollow, RangesMove
  PROVE  RangesFollow'
<1>1. Workers' = Workers /\ starts' = starts /\ ends' = ends
  BY DEF RangesMove, Workers
<1>2. \A w \in Workers : SizeOf[info'] = SizeOf[info]
  BY DEF RangesMove
<1>3. \A w \in Workers : /\ starts[w] \in Nat /\ snap[w] \in Nat /\ currents[w] \in Nat
                         /\ ends[w] \in Nat /\ currents'[w] \in Nat
  BY <1>1, RangeTypes DEF TypeInv, TypeOK, RangeTypeOK
<1>4. \A w \in Workers : /\ starts[w] <= snap'[w]
                         /\ snap'[w] <= currents'[w]
                         /\ currents'[w] <= ends[w]
  BY <1>3 DEF RangesMove, RangesFollow
<1> QED
  BY <1>1, <1>2, <1>4 DEF RangesFollow

LEMMA LayoutStep ==
  ASSUME TypeInv, TypeInv', LayoutInv, [Next]_vars
  PROVE  LayoutInv'
<1>1. RangesFollow'
  <2>1. CASE Workers' = {}
    BY <2>1 DEF RangesFollow
  <2> QED
    BY <2>1, RangesStep, StartFollows, MoveFollows DEF LayoutInv
<1>2. Loadable(saved)' /\ \A s \in entries' : Loadable(s)
  <2>1. CASE saved' \in {saved, None} /\ entries' \subseteq entries \cup {None}
    BY <2>1 DEF LayoutInv, Loadable
  <2>2. CASE Persist
    <3>1. Workers # {}
      BY <2>2 DEF Persist, ReadyToPersist, TypeInv
    <3>2. Validate(Checkpoint)
      BY <3>1, CheckpointValid
    <3>3. saved' \in {saved, Checkpoint} /\ entries' \subseteq entries \cup {Checkpoint}
      BY <2>2 DEF Persist, Durably
    <3> QED
      BY <3>2, <3>3 DEF LayoutInv, Loadable
  <2>3. CASE PowerLoss
    BY <2>3 DEF PowerLoss, LayoutInv, Loadable
  <2> QED
    BY <2>1, <2>2, <2>3, SavedStep
<1> QED
  BY <1>1, <1>2 DEF LayoutInv, Loadable

LEMMA LayoutAlways == Spec => [](TypeInv /\ LayoutInv)
<1>1. TypeInv /\ LayoutInv /\ [Next]_vars => (TypeInv /\ LayoutInv)'
  BY TypeStep, LayoutStep
<1> QED
  BY <1>1, TypeInit, LayoutInit, PTL DEF Spec

\* Whatever the saver writes while the workers move, and whatever a power loss
\* brings back of it, is a state that `load` accepts.
THEOREM StateAlwaysLoadable == Spec => []StateLoadable
<1>1. LayoutInv => StateLoadable
  BY DEF LayoutInv, Loadable, StateLoadable
<1> QED
  BY <1>1, LayoutAlways, PTL

\* Ranges that follow one another do not overlap.
LEMMA RangesApart ==
  ASSUME TypeInv, RangesFollow, NEW v \in Workers, NEW w \in Workers, v < w
  PROVE  ends[v] <= starts[w]
<1> DEFINE T == { d \in Nat \ {0} : v + d \in Workers /\ ~(ends[v] <= starts[v + d]) }
<1>1. PICK n \in Nat : Workers = 1 .. n
  BY RangeTypes
<1>2. SUFFICES ASSUME ~(ends[v] <= starts[w]) PROVE FALSE
  OBVIOUS
<1>3. w - v \in T
  <2>1. w - v \in Nat \ {0} /\ v + (w - v) = w
    BY <1>1
  <2> QED
    BY <1>2, <2>1
<1>4. PICK d \in T : \A c \in T : d <= c
  <2>1. T \in SUBSET Nat /\ T # {}
    BY <1>3
  <2> QED
    BY <2>1, Least
<1>5. /\ d \in Nat \ {0} /\ v + d \in Workers /\ ~(ends[v] <= starts[v + d])
      /\ v + d # 1 /\ (v + d) - 1 \in Workers
  BY <1>1, <1>4
<1>6. starts[v + d] = ends[(v + d) - 1]
  BY <1>5 DEF RangesFollow
<1>7. CASE d = 1
  BY <1>1, <1>5, <1>6, <1>7, RangeTypes
<1>8. CASE d # 1
  <2>1. d - 1 \in Nat \ {0} /\ v + (d - 1) = (v + d) - 1 /\ ~(d <= d - 1)
    BY <1>1, <1>5, <1>8
  <2>2. ends[v] <= starts[v + (d - 1)]
    BY <1>4, <1>5, <2>1
  <2>3. ASSUME NEW u \in Workers
        PROVE  starts[u] <= ends[u] /\ starts[u] \in Nat /\ ends[u] \in Nat
    <3>1. starts[u] \in Nat /\ snap[u] \in Nat /\ currents[u] \in Nat /\ ends[u] \in Nat
      BY RangeTypes
    <3>2. starts[u] <= snap[u] /\ snap[u] <= currents[u] /\ currents[u] <= ends[u]
      BY DEF RangesFollow
    <3> QED
      BY <3>1, <3>2
  <2> QED
    BY <1>5, <1>6, <2>1, <2>2, <2>3
<1> QED
  BY <1>7, <1>8

LEMMA ClaimedBy ==
  ASSUME NEW ws, NEW b
  PROVE  b \in Claimed(ws) <=> \E w \in DOMAIN ws : b \in ws[w].start .. ws[w].current - 1
  BY DEF Claimed

\* What the state file a call may resume from claims, its workers have passed.
PassedInv ==
  Workers # {} /\ ResumableAt(saved, info) =>
    \A b \in Claimed(saved.workers) : \E w \in Workers : starts[w] <= b /\ b < currents[w]

LEMMA PassedStep ==
  ASSUME TypeInv, TypeInv', LayoutInv, PassedInv, [Next]_vars
  PROVE  PassedInv'
<1>1. CASE Workers' = {}
  BY <1>1 DEF PassedInv
<1>2. CASE StartWorkers
  <2>1. /\ Workers' = DOMAIN Plan /\ info' = info /\ saved' = saved
        /\ \A w \in DOMAIN Plan : starts'[w] = Plan[w].start /\ currents'[w] = Plan[w].current
    BY <1>2 DEF StartWorkers, Workers, PositionOf
  <2>2. ASSUME ResumableAt(saved, info) PROVE Plan = saved.workers
    BY <2>2 DEF ResumableAt, Usable, Plan
  <2>3. PICK n \in Nat \ {0} : Plan \in [1 .. n -> RangeRecord]
    BY PlanTyped
  <2>4. \A w \in DOMAIN Plan : Plan[w].start \in Nat /\ Plan[w].current \in Nat
    BY <2>3 DEF RangeRecord
  <2>5. ASSUME ResumableAt(saved, info), NEW b \in Claimed(saved.workers)
        PROVE  \E w \in DOMAIN Plan : Plan[w].start <= b /\ b < Plan[w].current
    <3>1. PICK w \in DOMAIN Plan : b \in Plan[w].start .. Plan[w].current - 1
      BY <2>2, <2>5, ClaimedBy
    <3> QED
      BY <2>4, <3>1
  <2>6. ResumableAt(saved, info)' <=> ResumableAt(saved, info)
    BY <2>1 DEF ResumableAt
  <2> QED
    BY <2>1, <2>5, <2>6 DEF PassedInv
<1>3. CASE RangesMove /\ Workers # {}
  <2>1. Workers' = Workers /\ starts' = starts /\ info' = info
    BY <1>3 DEF RangesMove, Workers
  <2>2. \A w \in Workers : /\ starts[w] \in Nat /\ snap[w] \in Nat /\ currents[w] \in Nat
                           /\ currents'[w] \in Nat /\ currents[w] <= currents'[w] /\ snap[w] <= currents[w]
    BY <1>3, <2>1, RangeTypes DEF RangesMove, LayoutInv, RangesFollow, TypeInv, TypeOK, RangeTypeOK
  <2>3. CASE saved' \in {saved, None}
    <3>1. ASSUME NEW b \in Claimed(saved.workers), NEW w \in Workers, starts[w] <= b, b < currents[w]
          PROVE  b < currents'[w]
      <4>1. b \in Int
        BY <3>1, ClaimedBy
      <4> QED
        BY <2>2, <3>1, <4>1
    <3> QED
      BY <1>3, <2>1, <2>3, <3>1 DEF PassedInv, ResumableAt
  <2>4. CASE saved' = Checkpoint
    <3>1. /\ DOMAIN Checkpoint.workers = Workers
          /\ \A w \in Workers : /\ Checkpoint.workers[w].start = starts[w]
                                /\ Checkpoint.workers[w].current = snap[w]
      BY DEF Checkpoint, NewState
    <3> HIDE DEF Checkpoint
    <3>2. ASSUME NEW b \in Claimed(Checkpoint.workers)
          PROVE  \E w \in Workers : starts[w] <= b /\ b < currents'[w]
      <4>1. PICK w \in Workers : b \in starts[w] .. snap[w] - 1
        BY <3>1, ClaimedBy
      <4> QED
        BY <2>2, <4>1
    <3> QED
      BY <2>1, <2>4, <3>2 DEF PassedInv
  <2>5. PowerLoss => Workers' = {}
    BY DEF PowerLoss, Return, Workers, NoWorkers
  <2> QED
    BY <1>1, <2>3, <2>4, <2>5, SavedStep DEF Persist
<1>4. CASE RangesMove /\ Workers = {}
  BY <1>1, <1>4 DEF RangesMove, Workers
<1> QED
  BY <1>1, <1>2, <1>3, <1>4, RangesStep

\* Only a worker that got bytes issues a write, of what it got.
LEMMA NewWrites ==
  ASSUME TypeInv, [Next]_vars, NEW p \in pending', p \notin pending, p.owner # Dropped
  PROVE  \E w \in Workers, n \in 1 .. MaxChunk :
           Deliver(w, n) /\ p.owner = w /\ p.block \in currents[w] .. WriteEnd(w, n) - 1
<1>1. ASSUME NEW w \in Workers, NEW n \in 1 .. MaxChunk, Deliver(w, n)
      PROVE  p.owner = w /\ p.block \in currents[w] .. WriteEnd(w, n) - 1
  <2>1. pending' = pending \cup [owner : {w}, block : currents[w] .. WriteEnd(w, n) - 1, content : {body[w]}]
    BY <1>1 DEF Deliver, Write
  <2> QED
    BY <2>1
<1>2. ASSUME NEW w \in Workers, StreamBreaks(w) PROVE FALSE
  <2>1. PICK q \in pending : p = [q EXCEPT !.owner = IF q.owner = w THEN Dropped ELSE q.owner]
    BY <1>2 DEF StreamBreaks
  <2>2. q \in [owner : Workers \cup {Dropped}, block : Block, content : Version]
    BY DEF TypeInv, TypeOK, WorkerTypeOK
  <2> QED
    BY <2>1, <2>2
<1>3. ASSUME NEW w \in Workers,
             \/ Loop(w) \/ Reply206(w) \/ Reply200(w) \/ Reply416(w) \/ ReplyError(w)
             \/ StreamCancelled(w) \/ StreamEnds(w) \/ Flush(w) \/ BackoffOver(w)
      PROVE  pending' = pending
  BY <1>3 DEF Loop, Reply206, Reply200, Reply416, ReplyError, StreamCancelled, StreamEnds, Flush,
              BackoffOver, NoIO
<1>4. CallStep => pending' \subseteq pending
  BY DEF CallStep, Probe, ProbeCancelled, StartFails, StartWorkers, Join, ReturnCancelled, ReturnError,
         ReturnChanged, ReturnMismatch, FinalSync, DeleteState, Verify, VerifyFails, taskVars, ioVars
<1>5. EnvironmentStep => pending' \subseteq pending
  BY DEF EnvironmentStep, Land, LandFails, Cancel, Kill, PowerLoss, ServerPublishes, taskVars, ioVars
<1>6. (\E n \in ThreadChoices : Call(n)) \/ SaverStep \/ UNCHANGED vars => UNCHANGED pending
  BY DEF Call, SaverStep, vars, taskVars, ioVars
<1> QED
  BY <1>1, <1>2, <1>3, <1>4, <1>5, <1>6 DEF Next, WorkerStep

\* However long a response is, whatever fails and whatever is resumed: no write
\* goes beyond its worker's range, to a block of another's, or to one that a
\* state file of this resource calls fetched.
THEOREM WritesAlwaysInRange == Spec => WritesStayInRange
<1> DEFINE InRange ==
      \A p \in pending' \ pending : p.owner # Dropped =>
        /\ p.block \in starts[p.owner] .. ends[p.owner] - 1
        /\ \A w \in Workers \ {p.owner} : p.block \notin starts[w] .. ends[w] - 1
        /\ ResumableAt(saved, info) => p.block \notin Claimed(saved.workers)
<1>1. ASSUME TypeInv, LayoutInv, PassedInv, [Next]_vars PROVE InRange
  <2> SUFFICES ASSUME NEW p \in pending' \ pending, p.owner # Dropped
               PROVE  /\ p.block \in starts[p.owner] .. ends[p.owner] - 1
                      /\ \A w \in Workers \ {p.owner} : p.block \notin starts[w] .. ends[w] - 1
                      /\ ResumableAt(saved, info) => p.block \notin Claimed(saved.workers)
    OBVIOUS
  <2>1. PICK w \in Workers, n \in 1 .. MaxChunk :
          Deliver(w, n) /\ p.owner = w /\ p.block \in currents[w] .. WriteEnd(w, n) - 1
    BY <1>1, NewWrites
  <2>2. \A v \in Workers : /\ v \in Nat /\ starts[v] \in Nat /\ currents[v] \in Nat /\ ends[v] \in Nat
                           /\ starts[v] <= currents[v] /\ currents[v] <= ends[v]
    BY <1>1, RangeTypes DEF LayoutInv, RangesFollow
  <2>3. WriteEnd(w, n) \in Nat /\ WriteEnd(w, n) <= ends[w]
    BY <2>1, <2>2 DEF WriteEnd, AtMost
  <2>4. p.block \in Nat /\ starts[w] <= p.block /\ currents[w] <= p.block /\ p.block < ends[w]
    BY <2>1, <2>2, <2>3
  <2>5. ASSUME NEW v \in Workers, v # w PROVE p.block < starts[v] \/ ends[v] <= p.block
    <3>1. CASE v < w
      BY <1>1, <2>2, <2>4, <3>1, RangesApart DEF LayoutInv
    <3>2. CASE w < v
      BY <1>1, <2>2, <2>4, <3>2, RangesApart DEF LayoutInv
    <3> QED
      BY <2>2, <2>5, <3>1, <3>2
  <2>6. ASSUME ResumableAt(saved, info), p.block \in Claimed(saved.workers) PROVE FALSE
    <3>1. PICK v \in Workers : starts[v] <= p.block /\ p.block < currents[v]
      BY <1>1, <2>6 DEF PassedInv
    <3> QED
      BY <2>2, <2>4, <2>5, <3>1
  <2> QED
    BY <2>1, <2>2, <2>4, <2>5, <2>6
<1>2. TypeInv /\ LayoutInv /\ PassedInv /\ [Next]_vars => PassedInv'
  BY PassedStep, TypeStep
<1>3. Init => PassedInv
  BY DEF Init, PassedInv, Workers, NoWorkers
<1>4. TypeInv /\ LayoutInv /\ PassedInv /\ [Next]_vars => [InRange]_vars
  BY <1>1
<1> QED
  BY <1>2, <1>3, <1>4, LayoutAlways, PTL DEF Spec, WritesStayInRange

-------------------------------------------------------------------------------
(***************************************************************************)
(* The checkpoint made on shutdown.                                        *)
(***************************************************************************)

\* The saver runs as long as the workers may, has read every position when it
\* goes on to write, and reads those of the last checkpoint when they stand still.
SaverInv ==
  /\ pc = "run" => spc # "off"
  /\ spc \in {"snapped", "synced"} => \A w \in Workers : w <= read
  /\ final => /\ pc = "stopping" /\ spc # "off"
              /\ \A w \in Workers : w <= read => snap[w] = currents[w]

LEMMA SaverInit == Init => SaverInv
  BY DEF Init, SaverInv

LEMMA SaverStepFollows ==
  ASSUME TypeInv, RangesFollow, SaverInv, SaverStep
  PROVE  SaverInv'
<1>0. UNCHANGED <<pc, starts, ends, currents>> /\ Workers' = Workers
  BY DEF SaverStep, callVars, rangeVars, Workers
<1>1. ASSUME NEW w \in Workers, ReadPosition(w) PROVE SaverInv'
  <2>1. /\ spc = "read" /\ w = read + 1 /\ read' = w
        /\ snap' = [snap EXCEPT ![w] = SnapPosition(w)]
        /\ final' = IF w = 1 THEN pc = "stopping" ELSE final
        /\ spc' = IF w + 1 \in Workers THEN "read" ELSE "snapped"
    BY <1>1 DEF ReadPosition
  <2>2. PICK n \in Nat : Workers = 1 .. n
    BY RangeTypes
  <2>3. read \in Nat /\ snap \in [Workers -> Nat]
    BY <2>2, RangeTypes DEF TypeInv, TypeOK, SaverTypeOK
  <2>4. SnapPosition(w) = currents[w]
    BY RangeTypes DEF SnapPosition, AtMost, RangesFollow
  <2>5. spc' = "snapped" => \A v \in Workers : v <= read'
    BY <2>1, <2>2, <2>3
  <2>6. final' => \A v \in Workers : v <= read' => snap'[v] = currents[v]
    <3>1. CASE w = 1
      BY <2>1, <2>2, <2>3, <2>4, <3>1
    <3>2. CASE w # 1
      BY <2>1, <2>2, <2>3, <2>4, <3>2 DEF SaverInv
    <3> QED
      BY <3>1, <3>2
  <2>7. final' => pc = "stopping"
    BY <2>1 DEF SaverInv
  <2> QED
    BY <1>0, <2>1, <2>5, <2>6, <2>7 DEF SaverInv
<1>2. CASE SyncData
  BY <1>0, <1>2 DEF SyncData, SaverInv
<1>3. CASE Persist
  BY <1>0, <1>3 DEF Persist, AfterCheckpoint, SaverInv
<1> QED
  BY <1>1, <1>2, <1>3 DEF SaverStep

LEMMA SaverInvStep ==
  ASSUME TypeInv, TypeInv', LayoutInv, SaverInv, [Next]_vars
  PROVE  SaverInv'
<1>r. ASSUME NEW r, Return(r) PROVE SaverInv'
  BY <1>r DEF Return, SaverInv
<1>m. ASSUME UNCHANGED <<saverVars, starts, currents>>, pc' = "run" => spc # "off",
             final => pc' = pc
      PROVE  SaverInv'
  <2>1. Workers' = Workers
    BY <1>m DEF Workers
  <2> QED
    BY <1>m, <2>1 DEF SaverInv, saverVars
<1>1. ASSUME NEW n \in ThreadChoices, Call(n) PROVE SaverInv'
  BY <1>1, <1>m DEF Call, taskVars, rangeVars, SaverInv
<1>2. CASE CallStep
  <2>1. CASE ProbeCancelled \/ StartFails \/ ReturnCancelled \/ ReturnError \/ ReturnMismatch
             \/ Verify \/ VerifyFails
    BY <2>1, <1>r DEF ProbeCancelled, StartFails, ReturnCancelled, ReturnError, ReturnMismatch,
                      Verify, VerifyFails
  <2>2. CASE Probe \/ Join \/ ReturnChanged \/ FinalSync
    BY <2>2, <1>m DEF Probe, Join, ReturnChanged, FinalSync, AllOk, SaverAwaited,
                      taskVars, rangeVars, SaverInv
  <2>3. CASE StartWorkers
    BY <2>3 DEF StartWorkers, SaverInv
  <2>4. CASE DeleteState
    BY <2>4, <1>r, <1>m DEF DeleteState, rangeVars, SaverInv
  <2> QED
    BY <1>2, <2>1, <2>2, <2>3, <2>4 DEF CallStep
<1>3. ASSUME NEW w \in Workers, WorkerStep(w) PROVE SaverInv'
  <2>1. UNCHANGED <<saverVars, callVars, starts>>
    BY <1>3 DEF WorkerStep
  <2>2. wpc[w] \notin Ended
    BY <1>3 DEF WorkerStep, Loop, Reply206, Reply200, Reply416, ReplyError, Deliver,
                StreamCancelled, StreamBreaks, StreamEnds, Flush, BackoffOver, Ended
  <2>3. pc = "run"
    BY <2>2, RunningWorker
  <2>4. Workers' = Workers /\ ~final
    BY <2>1, <2>3 DEF Workers, SaverInv
  <2> QED
    BY <2>1, <2>3, <2>4 DEF SaverInv, saverVars, callVars
<1>4. CASE SaverStep
  BY <1>4, SaverStepFollows DEF LayoutInv
<1>5. CASE EnvironmentStep
  <2>1. CASE Kill \/ PowerLoss
    BY <2>1, <1>r DEF Kill, PowerLoss
  <2>2. CASE (\E p \in pending : Land(p) \/ LandFails(p)) \/ Cancel \/ ServerPublishes
    BY <2>2, <1>m DEF Land, LandFails, Cancel, ServerPublishes, callVars, taskVars, rangeVars,
                      SaverInv
  <2> QED
    BY <1>5, <2>1, <2>2 DEF EnvironmentStep
<1>6. CASE UNCHANGED vars
  BY <1>6, <1>m DEF vars, callVars, taskVars, rangeVars, SaverInv
<1> QED
  BY <1>1, <1>2, <1>3, <1>4, <1>5, <1>6 DEF Next

\* The state file that the last checkpoint leaves.
HasProgress(s) ==
  /\ s # None
  /\ DOMAIN s.workers = Workers
  /\ \A w \in Workers : s.workers[w].current = currents[w]

\* None is no state file.
NoneIsNoState ==
  \A size, etag, lastModified, ws : NewState(size, etag, lastModified, ws) # None

SavingWorks == "savefail" \notin Faults /\ NoneIsNoState

StoppedInv == pc = "stopping" /\ spc = "off" => HasProgress(saved)

LEMMA StoppedStep ==
  ASSUME SavingWorks, TypeInv, TypeInv', LayoutInv, SaverInv, StoppedInv, [Next]_vars
  PROVE  StoppedInv'
<1>1. CASE Persist /\ SaverStep
  <2>1. UNCHANGED <<pc, starts, currents>> /\ Workers' = Workers
    BY <1>1 DEF SaverStep, callVars, rangeVars, Workers
  <2>2. saved' = Checkpoint /\ spc' = AfterCheckpoint
    BY <1>1 DEF Persist, SavingWorks
  <2>3. /\ Checkpoint # None /\ DOMAIN Checkpoint.workers = Workers
        /\ \A w \in Workers : Checkpoint.workers[w].current = snap[w]
    BY DEF Checkpoint, NewState, SavingWorks, NoneIsNoState
  <2>4. final => \A w \in Workers : snap[w] = currents[w]
    BY <1>1 DEF SaverInv, Persist, ReadyToPersist
  <2> QED
    BY <2>1, <2>2, <2>3, <2>4 DEF StoppedInv, HasProgress, AfterCheckpoint
<1>2. CASE PowerLoss
  BY <1>2 DEF PowerLoss, Return, StoppedInv
<1>3. CASE pc' = "stopping" /\ spc' = "off" /\ ~(Persist /\ SaverStep) /\ ~PowerLoss
  <2>r. \A r : ~Return(r)
    BY <1>3 DEF Return
  <2>1. ASSUME pc = "stopping", spc = "off", saved' = saved, UNCHANGED <<starts, currents>>
        PROVE  StoppedInv'
    BY <2>1 DEF StoppedInv, HasProgress, Workers
  <2>2. ASSUME NEW n \in ThreadChoices, Call(n) PROVE FALSE
    BY <1>3, <2>2 DEF Call
  <2>3. CASE CallStep
    <3>1. CASE Join
      BY <1>3, <3>1 DEF Join, taskVars, saverVars, SaverInv
    <3> QED
      BY <1>3, <2>r, <2>3, <3>1
         DEF CallStep, Probe, ProbeCancelled, StartFails, StartWorkers, ReturnCancelled,
             ReturnError, ReturnChanged, ReturnMismatch, FinalSync, DeleteState, Verify,
             VerifyFails
  <2>4. ASSUME NEW w \in Workers, WorkerStep(w) PROVE FALSE
    <3>1. wpc[w] \notin Ended /\ pc' = pc
      BY <2>4 DEF WorkerStep, Loop, Reply206, Reply200, Reply416, ReplyError, Deliver,
                  StreamCancelled, StreamBreaks, StreamEnds, Flush, BackoffOver, Ended, callVars
    <3> QED
      BY <1>3, <3>1, RunningWorker
  <2>5. CASE SaverStep
    BY <1>3, <2>5 DEF SaverStep, ReadPosition, SyncData
  <2>6. CASE EnvironmentStep
    BY <1>3, <2>6, <2>r, <2>1
       DEF EnvironmentStep, Land, LandFails, Cancel, Kill, ServerPublishes, callVars, diskVars,
           taskVars, rangeVars, saverVars
  <2>7. CASE UNCHANGED vars
    BY <1>3, <2>7, <2>1 DEF vars, callVars, diskVars, taskVars, rangeVars, saverVars
  <2> QED
    BY <2>2, <2>3, <2>4, <2>5, <2>6, <2>7 DEF Next
<1> QED
  BY <1>1, <1>2, <1>3 DEF StoppedInv

LEMMA StoppedAlways ==
  ASSUME SavingWorks
  PROVE  Spec => [](TypeInv /\ LayoutInv /\ SaverInv /\ StoppedInv)
<1>1. Init => StoppedInv
  BY DEF Init, StoppedInv
<1>2. /\ TypeInv /\ LayoutInv /\ SaverInv /\ StoppedInv /\ [Next]_vars
      => (TypeInv /\ LayoutInv /\ SaverInv /\ StoppedInv)'
  BY TypeStep, LayoutStep, SaverInvStep, StoppedStep
<1> QED
  BY <1>1, <1>2, TypeInit, LayoutInit, SaverInit, PTL DEF Spec

\* A call that ran and then fails or is cancelled has saved the position of every
\* worker, though the saver may have been in the middle of a checkpoint when it was
\* told to stop: if the state file can be written at all.
THEOREM FailureAlwaysKeepsProgress ==
  ASSUME SavingWorks
  PROVE  Spec => FailureKeepsProgress
<1> DEFINE Keeps ==
      pc = "stopping" /\ pc' = "idle" /\ result' \in {"failed", "cancelled"} =>
        /\ saved' # None
        /\ DOMAIN saved'.workers = Workers
        /\ \A w \in Workers : saved'.workers[w].current = AtMost(currents[w], ends[w])
<1>1. ASSUME TypeInv, LayoutInv, SaverInv, StoppedInv, [Next]_vars,
             pc = "stopping", pc' = "idle", result' \in {"failed", "cancelled"}
      PROVE  saved' = saved /\ spc = "off"
  <2>1. CASE CallStep
    BY <1>1, <2>1
       DEF CallStep, Probe, ProbeCancelled, StartFails, StartWorkers, Join, ReturnCancelled,
           ReturnError, ReturnChanged, ReturnMismatch, FinalSync, DeleteState, Verify,
           VerifyFails, AllOk, SaverAwaited, diskVars
  <2>2. CASE EnvironmentStep
    BY <1>1, <2>2 DEF EnvironmentStep, Land, LandFails, Cancel, Kill, PowerLoss, Return,
                      ServerPublishes, callVars
  <2> QED
    BY <1>1, <2>1, <2>2 DEF Next, Call, WorkerStep, SaverStep, callVars, vars
<1>2. ASSUME TypeInv, LayoutInv, SaverInv, StoppedInv, [Next]_vars PROVE Keeps
  <2>1. \A w \in Workers : AtMost(currents[w], ends[w]) = currents[w]
    BY <1>2, RangeTypes DEF LayoutInv, RangesFollow, AtMost
  <2> QED
    BY <1>1, <1>2, <2>1 DEF StoppedInv, HasProgress
<1>3. TypeInv /\ LayoutInv /\ SaverInv /\ StoppedInv /\ [Next]_vars => [Keeps]_vars
  BY <1>2
<1> QED
  BY <1>3, StoppedAlways, PTL DEF Spec, FailureKeepsProgress

-------------------------------------------------------------------------------
(***************************************************************************)
(* Checkpoints of one resource.                                            *)
(***************************************************************************)

\* A state file says which version it is of as far as its validators do.
WrittenForSome(s) ==
  \E u \in Version :
    s.size = SizeOf[u] /\ s.etag = EtagOf[u] /\ s.lastModified = LastModifiedOf[u]

\* It is one of the resource that the call downloads.
SameResource(s) ==
  /\ s # None
  /\ s \notin Leftovers
  /\ s.etag = EtagOf[info] /\ s.lastModified = LastModifiedOf[info]

\* Versions that agree in both validators agree in size, and what a power loss
\* leaves is not at issue: it may well be an older checkpoint.
GrowConditions ==
  /\ \A u, v \in Version :
       EtagOf[u] = EtagOf[v] /\ LastModifiedOf[u] = LastModifiedOf[v] => SizeOf[u] = SizeOf[v]
  /\ "powerloss" \notin Faults

\* While a call runs, what the state file of its resource claims was fetched by one
\* of its workers; and the saver, if it read that worker's position, read no less.
GrowInv ==
  /\ saved # None /\ saved \notin Leftovers => WrittenForSome(saved)
  /\ Workers # {} /\ SameResource(saved) =>
       \A b \in Claimed(saved.workers) :
         \E w \in Workers : /\ starts[w] <= b /\ b < currents[w]
                            /\ w <= read => b < snap[w]

\* The call resumes a state of its own resource, or there is none.
LEMMA StartGrows ==
  ASSUME GrowConditions, TypeInv, LayoutInv, GrowInv, StartWorkers
  PROVE  GrowInv'
<1>1. /\ Workers' = DOMAIN Plan /\ info' = info /\ saved' = saved /\ read' = 0
      /\ \A w \in DOMAIN Plan :
           starts'[w] = Plan[w].start /\ currents'[w] = Plan[w].current
  BY DEF StartWorkers, Workers, PositionOf
<1>2. ASSUME SameResource(saved) PROVE Plan = saved.workers
  <2>1. Validate(saved)
    BY <1>2 DEF LayoutInv, Loadable, SameResource
  <2>2. saved.size = SizeOf[info]
    BY <1>2, RangeTypes DEF GrowInv, GrowConditions, WrittenForSome, SameResource
  <2>3. MatchesResource(saved, EtagOf[info], LastModifiedOf[info])
    BY <1>2 DEF MatchesResource, SameResource
  <2> QED
    BY <1>2, <2>1, <2>2, <2>3 DEF Plan, Usable, SameResource
<1>3. PICK n \in Nat \ {0} : Plan \in [1 .. n -> RangeRecord]
  BY PlanTyped
<1>4. \A w \in DOMAIN Plan : Plan[w].start \in Nat /\ Plan[w].current \in Nat /\ w \in Nat \ {0}
  BY <1>3 DEF RangeRecord
<1>5. ASSUME SameResource(saved), NEW b \in Claimed(saved.workers)
      PROVE  \E w \in DOMAIN Plan : /\ Plan[w].start <= b /\ b < Plan[w].current
                                    /\ ~(w <= 0)
  <2>1. PICK w \in DOMAIN Plan : b \in Plan[w].start .. Plan[w].current - 1
    BY <1>2, <1>5, ClaimedBy
  <2> QED
    BY <1>4, <2>1
<1>6. SameResource(saved)' <=> SameResource(saved)
  BY <1>1 DEF SameResource
<1> QED
  BY <1>1, <1>5, <1>6 DEF GrowInv, WrittenForSome

\* The saver has read that far, when it writes.
LEMMA CheckpointGrows ==
  ASSUME TypeInv, LayoutInv, SaverInv, GrowInv, ReadyToPersist, SameResource(saved)
  PROVE  Claimed(saved.workers) \subseteq Claimed(Checkpoint.workers)
<1>1. Workers # {} /\ \A w \in Workers : w <= read
  BY DEF ReadyToPersist, SaverInv, TypeInv
<1>2. /\ DOMAIN Checkpoint.workers = Workers
      /\ \A w \in Workers : /\ Checkpoint.workers[w].start = starts[w]
                            /\ Checkpoint.workers[w].current = snap[w]
  BY DEF Checkpoint, NewState
<1> SUFFICES ASSUME NEW b \in Claimed(saved.workers) PROVE b \in Claimed(Checkpoint.workers)
  OBVIOUS
<1>3. PICK v \in DOMAIN saved.workers : b \in saved.workers[v].start .. saved.workers[v].current - 1
  BY ClaimedBy
<1>4. PICK w \in Workers : starts[w] <= b /\ b < snap[w]
  BY <1>1 DEF GrowInv
<1>5. starts[w] \in Nat /\ snap[w] \in Nat /\ b \in Int
  BY <1>3, RangeTypes
<1>6. b \in starts[w] .. snap[w] - 1
  BY <1>4, <1>5
<1> HIDE DEF Checkpoint
<1> QED
  BY <1>2, <1>6, ClaimedBy

LEMMA PersistGrows ==
  ASSUME TypeInv, LayoutInv, SaverInv, GrowInv, Persist, SaverStep
  PROVE  GrowInv'
<1>1. UNCHANGED <<starts, currents, info>> /\ Workers' = Workers /\ read' = 0
  BY DEF SaverStep, Persist, callVars, rangeVars, Workers
<1>2. \A w \in Workers : w \in Nat \ {0} /\ ~(w <= 0)
  BY RangeTypes
<1>3. CASE saved' = saved
  BY <1>1, <1>2, <1>3 DEF GrowInv, SameResource, WrittenForSome
<1>4. CASE saved' = Checkpoint
  <2>1. /\ DOMAIN Checkpoint.workers = Workers
        /\ \A w \in Workers : /\ Checkpoint.workers[w].start = starts[w]
                              /\ Checkpoint.workers[w].current = snap[w]
        /\ Checkpoint.size = SizeOf[info] /\ Checkpoint.etag = EtagOf[info]
        /\ Checkpoint.lastModified = LastModifiedOf[info]
    BY DEF Checkpoint, NewState
  <2> HIDE DEF Checkpoint
  <2>2. WrittenForSome(saved)'
    BY <1>4, <2>1, RangeTypes DEF WrittenForSome
  <2>3. ASSUME NEW b \in Claimed(Checkpoint.workers)
        PROVE  \E w \in Workers : starts[w] <= b /\ b < currents[w]
    <3>1. PICK w \in Workers : b \in starts[w] .. snap[w] - 1
      BY <2>1, ClaimedBy
    <3>2. starts[w] \in Nat /\ snap[w] \in Nat /\ currents[w] \in Nat /\ snap[w] <= currents[w]
      BY RangeTypes DEF LayoutInv, RangesFollow
    <3> QED
      BY <3>1, <3>2
  <2> QED
    BY <1>1, <1>2, <1>4, <2>2, <2>3 DEF GrowInv
<1> QED
  BY <1>3, <1>4 DEF Persist

\* Positions move up, and the saver reads them.
LEMMA MoveGrows ==
  ASSUME TypeInv, TypeInv', LayoutInv, GrowInv, RangesMove, saved' = saved,
         \/ UNCHANGED <<snap, read>>
         \/ \E v \in Workers : ReadPosition(v)
  PROVE  GrowInv'
<1>1. Workers' = Workers /\ starts' = starts
  BY DEF RangesMove, Workers
<1>2. \A w \in Workers : /\ starts[w] \in Nat /\ snap[w] \in Nat /\ currents[w] \in Nat
                         /\ currents'[w] \in Nat /\ w \in Nat /\ currents[w] <= currents'[w]
  <2>1. \A w \in Workers : w \in Nat
    BY RangeTypes
  <2>2. currents' \in [Workers -> Nat]
    BY <1>1 DEF TypeInv, TypeOK, RangeTypeOK
  <2> QED
    BY <2>1, <2>2, RangeTypes DEF RangesMove
<1>3. Workers # {} => (SameResource(saved)' <=> SameResource(saved))
  BY DEF SameResource, RangesMove
<1>4. ASSUME NEW w \in Workers, NEW b \in Int, b < currents[w], w <= read => b < snap[w]
      PROVE  b < currents'[w] /\ (w <= read' => b < snap'[w])
  <2>1. b < currents'[w]
    BY <1>2, <1>4
  <2>2. ASSUME NEW v \in Workers, ReadPosition(v), w <= read' PROVE b < snap'[w]
    <3>1. v = read + 1 /\ read' = v /\ read \in Nat
      BY <1>2, <2>2 DEF ReadPosition, TypeInv, TypeOK, SaverTypeOK
    <3>2. snap' = [snap EXCEPT ![v] = SnapPosition(v)] /\ SnapPosition(v) = currents[v]
      BY <2>2, RangeTypes DEF ReadPosition, SnapPosition, AtMost, LayoutInv, RangesFollow
    <3>3. snap \in [Workers -> Nat]
      BY RangeTypes
    <3> QED
      BY <1>2, <1>4, <2>2, <3>1, <3>2, <3>3
  <2> QED
    BY <1>4, <2>1, <2>2
<1>5. ASSUME NEW b \in Claimed(saved.workers) PROVE b \in Int
  BY <1>5, ClaimedBy
<1> QED
  BY <1>1, <1>3, <1>4, <1>5 DEF GrowInv, WrittenForSome

LEMMA GrowStep ==
  ASSUME GrowConditions, TypeInv, TypeInv', LayoutInv, SaverInv, GrowInv, [Next]_vars
  PROVE  GrowInv'
<1>1. CASE saved' = None
  BY <1>1 DEF GrowInv, SameResource
<1>2. CASE Persist /\ SaverStep
  BY <1>2, PersistGrows
<1>3. CASE saved' = saved /\ Workers' = {}
  BY <1>3 DEF GrowInv, WrittenForSome
<1>4. CASE StartWorkers
  BY <1>4, StartGrows
<1>5. CASE saved' = saved /\ RangesMove /\ ~(Persist /\ SaverStep) /\ Workers' # {} /\ ~StartWorkers
  <2>1. UNCHANGED <<snap, read>> \/ \E v \in Workers : ReadPosition(v)
    <3>1. \A r : ~Return(r)
      BY <1>5 DEF Return, Workers, NoWorkers
    <3> QED
      BY <1>5, <3>1
         DEF Next, Call, CallStep, Probe, ProbeCancelled, StartFails, Join, ReturnCancelled,
             ReturnError, ReturnChanged, ReturnMismatch, FinalSync, DeleteState, Verify,
             VerifyFails, WorkerStep, SaverStep, SyncData, EnvironmentStep, Land, LandFails,
             Cancel, Kill, PowerLoss, ServerPublishes, vars, taskVars, saverVars
  <2> QED
    BY <1>5, <2>1, MoveGrows
<1>6. ~PowerLoss
  BY DEF PowerLoss, GrowConditions
<1> QED
  BY <1>1, <1>2, <1>3, <1>4, <1>5, <1>6, RangesStep, SavedStep

LEMMA GrowAlways ==
  ASSUME GrowConditions
  PROVE  Spec => [](TypeInv /\ LayoutInv /\ SaverInv /\ GrowInv)
<1>1. Init => GrowInv
  BY DEF Init, GrowInv, Workers, NoWorkers
<1>2. /\ TypeInv /\ LayoutInv /\ SaverInv /\ GrowInv /\ [Next]_vars
      => (TypeInv /\ LayoutInv /\ SaverInv /\ GrowInv)'
  BY TypeStep, LayoutStep, SaverInvStep, GrowStep
<1> QED
  BY <1>1, <1>2, TypeInit, LayoutInit, SaverInit, PTL DEF Spec

\* No checkpoint takes back what an earlier one of the same resource granted, be
\* that of this call or of one before it that failed or was killed.
THEOREM CheckpointsAlwaysGrow ==
  ASSUME GrowConditions
  PROVE  Spec => CheckpointsOnlyGrow
<1> DEFINE Grows ==
      /\ saved # None /\ saved' # None
      /\ saved.version = saved'.version
      /\ saved.etag = saved'.etag /\ saved.lastModified = saved'.lastModified
      => Claimed(saved.workers) \subseteq Claimed(saved'.workers)
<1>1. ASSUME TypeInv, LayoutInv, SaverInv, GrowInv, [Next]_vars PROVE Grows
  <2>1. CASE saved' \in {saved, None}
    BY <2>1
  <2>2. CASE Persist /\ saved' = Checkpoint
    <3>1. /\ Checkpoint.version = STATE_FILE_VERSION /\ Checkpoint.etag = EtagOf[info]
          /\ Checkpoint.lastModified = LastModifiedOf[info]
      BY DEF Checkpoint, NewState
    <3>2. SUFFICES ASSUME saved # None, saved.version = STATE_FILE_VERSION,
                          saved.etag = EtagOf[info], saved.lastModified = LastModifiedOf[info]
                   PROVE  Claimed(saved.workers) \subseteq Claimed(saved'.workers)
      BY <2>2, <3>1
    <3>3. SameResource(saved)
      BY <3>2, LeftoversAssumption DEF SameResource
    <3> QED
      BY <1>1, <2>2, <3>3, CheckpointGrows DEF Persist
  <2>3. ~PowerLoss
    BY DEF PowerLoss, GrowConditions
  <2> QED
    BY <1>1, <2>1, <2>2, <2>3, SavedStep DEF Persist
<1>2. TypeInv /\ LayoutInv /\ SaverInv /\ GrowInv /\ [Next]_vars => [Grows]_vars
  BY <1>1
<1> QED
  BY <1>2, GrowAlways, PTL DEF Spec, CheckpointsOnlyGrow

-------------------------------------------------------------------------------
(***************************************************************************)
(* The sum of a function, as the fold computes it.                         *)
(***************************************************************************)

\* One step of the fold that SumFunction is: the elements of s, given the sums g of
\* smaller sets.
AddUp(f, g, s) == IF s = {} THEN 0 ELSE f[CHOOSE x \in s : TRUE] + g[s \ {CHOOSE x \in s : TRUE}]

SumOf(f, s) == (CHOOSE g : g = [t \in SUBSET DOMAIN f |-> AddUp(f, g, t)])[s]

LEMMA SumIsSumOf ==
  ASSUME NEW f
  PROVE  SumFunction(f) = SumOf(f, DOMAIN f)
  BY DEF SumFunction, SumFunctionOnSet, FoldFunctionOnSet, MapThenFoldSet, SumOf, AddUp

\* An element of a finite set, and what is left without it.
LEMMA SmallerSet ==
  ASSUME NEW D, IsFiniteSet(D), NEW s \in SUBSET D, s # {}
  PROVE  LET x == CHOOSE y \in s : TRUE
         IN  /\ x \in s
             /\ s \ {x} \in SUBSET D
             /\ Cardinality(s \ {x}) = Cardinality(s) - 1
             /\ Cardinality(s) \in Nat \ {0}
<1> DEFINE x == CHOOSE y \in s : TRUE
<1>1. x \in s
  OBVIOUS
<1>2. IsFiniteSet(s)
  BY FS_Subset
<1>3. Cardinality(s) \in Nat /\ Cardinality(s) # 0
  BY <1>2, FS_CardinalityType, FS_EmptySet
<1>4. Cardinality(s \ {x}) = Cardinality(s) - 1
  BY <1>1, <1>2, FS_RemoveElement
<1> QED
  BY <1>1, <1>3, <1>4

\* The sums of the sets with at most k elements exist, for every k, hence those of
\* all subsets.
LEMMA SumsExist ==
  ASSUME NEW f, IsFiniteSet(DOMAIN f)
  PROVE  \E g : g = [t \in SUBSET DOMAIN f |-> AddUp(f, g, t)]
<1> DEFINE D       == DOMAIN f
           Upto(k) == { t \in SUBSET D : Cardinality(t) <= k }
           Sums(g, k) == \A t \in Upto(k) : g[t] = AddUp(f, g, t)
           Missing == { k \in Nat : ~ \E g : Sums(g, k) }
<1>1. Missing = {}
  <2> SUFFICES ASSUME Missing # {} PROVE FALSE
    OBVIOUS
  <2>1. Missing \in SUBSET Nat
    OBVIOUS
  <2>2. PICK k \in Missing : \A m \in Missing : k <= m
    <3> HIDE DEF Missing
    <3> QED
      BY <2>1, Least
  <2>3. CASE k = 0
    <3> DEFINE g == [t \in SUBSET D |-> 0]
    <3>1. \A t \in Upto(0) : t = {}
      <4> SUFFICES ASSUME NEW t \in SUBSET D, Cardinality(t) <= 0, t # {} PROVE FALSE
        OBVIOUS
      <4>1. Cardinality(t) \in Nat \ {0}
        BY SmallerSet
      <4> QED
        BY <4>1
    <3>2. Sums(g, 0)
      BY <3>1 DEF AddUp
    <3> HIDE DEF g
    <3> QED
      BY <2>3, <3>2
  <2>4. CASE k # 0
    <3>1. k - 1 \in Nat /\ ~ (k <= k - 1)
      BY <2>4
    <3>2. PICK g : Sums(g, k - 1)
      BY <2>2, <3>1
    <3> DEFINE h == [t \in SUBSET D |-> AddUp(f, g, t)]
    <3>3. ASSUME NEW t \in Upto(k) PROVE h[t] = AddUp(f, h, t)
      <4>1. CASE t = {}
        BY <4>1 DEF AddUp
      <4>2. CASE t # {}
        <5> DEFINE x == CHOOSE y \in t : TRUE
        <5>1. t \ {x} \in Upto(k - 1)
          <6>1. /\ t \ {x} \in SUBSET D
                /\ Cardinality(t \ {x}) = Cardinality(t) - 1
                /\ Cardinality(t) \in Nat
            BY <4>2, SmallerSet
          <6> QED
            BY <6>1, <3>1
        <5>2. h[t \ {x}] = g[t \ {x}]
          BY <5>1, <3>2
        <5>3. h[t] = f[x] + g[t \ {x}]
          BY <4>2 DEF AddUp
        <5> QED
          BY <4>2, <5>2, <5>3 DEF AddUp
      <4> QED
        BY <4>1, <4>2
    <3>4. Sums(h, k)
      BY <3>3
    <3> HIDE DEF h
    <3> QED
      BY <3>4
  <2> QED
    BY <2>3, <2>4
<1>2. Cardinality(D) \in Nat
  BY FS_CardinalityType
<1>3. PICK g : Sums(g, Cardinality(D))
  BY <1>1, <1>2
<1>4. \A t \in SUBSET D : t \in Upto(Cardinality(D))
  BY FS_Subset
<1> DEFINE h == [t \in SUBSET D |-> g[t]]
<1>5. ASSUME NEW t \in SUBSET D PROVE h[t] = AddUp(f, h, t)
  <2>1. t # {} => t \ {CHOOSE y \in t : TRUE} \in SUBSET D
    OBVIOUS
  <2> QED
    BY <1>3, <1>4, <2>1 DEF AddUp
<1>6. h = [t \in SUBSET D |-> AddUp(f, h, t)]
  BY <1>5
<1> HIDE DEF h
<1> QED
  BY <1>6

LEMMA SumUnfolds ==
  ASSUME NEW f, IsFiniteSet(DOMAIN f), NEW s \in SUBSET DOMAIN f
  PROVE  SumOf(f, s) = IF s = {} THEN 0
                       ELSE LET x == CHOOSE y \in s : TRUE
                            IN  f[x] + SumOf(f, s \ {x})
<1> DEFINE g == CHOOSE g : g = [t \in SUBSET DOMAIN f |-> AddUp(f, g, t)]
<1>1. g = [t \in SUBSET DOMAIN f |-> AddUp(f, g, t)]
  BY SumsExist
<1>2. \A t : SumOf(f, t) = g[t]
  BY DEF SumOf
<1> HIDE DEF g
<1>3. g[s] = AddUp(f, g, s)
  BY <1>1
<1> QED
  BY <1>2, <1>3 DEF AddUp

\* Raising one value by d raises the sum by d.
LEMMA SumRaised ==
  ASSUME NEW f, NEW g, IsFiniteSet(DOMAIN f), DOMAIN g = DOMAIN f, NEW w, NEW d \in Nat,
         \A v \in DOMAIN f : f[v] \in Nat /\ g[v] = IF v = w THEN f[v] + d ELSE f[v]
  PROVE  /\ SumFunction(f) \in Nat
         /\ SumFunction(g) = SumFunction(f) + (IF w \in DOMAIN f THEN d ELSE 0)
<1> DEFINE D == DOMAIN f
           Raised(s) == /\ SumOf(f, s) \in Nat
                        /\ SumOf(g, s) = SumOf(f, s) + (IF w \in s THEN d ELSE 0)
           Counter == { k \in Nat : \E s \in SUBSET D : Cardinality(s) = k /\ ~Raised(s) }
<1>1. Counter = {}
  <2> SUFFICES ASSUME Counter # {} PROVE FALSE
    OBVIOUS
  <2>1. Counter \in SUBSET Nat
    OBVIOUS
  <2>2. PICK k \in Counter : \A m \in Counter : k <= m
    <3> HIDE DEF Counter
    <3> QED
      BY <2>1, Least
  <2>3. PICK s \in SUBSET D : Cardinality(s) = k /\ ~Raised(s)
    BY <2>2
  <2> DEFINE x == CHOOSE y \in s : TRUE
  <2>4. CASE s = {}
    <3>1. SumOf(f, s) = 0 /\ SumOf(g, s) = 0
      BY <2>4, SumUnfolds
    <3> QED
      BY <2>3, <2>4, <3>1
  <2>5. CASE s # {}
    <3>1. /\ x \in s /\ s \ {x} \in SUBSET D
          /\ Cardinality(s \ {x}) = k - 1 /\ k \in Nat \ {0}
      BY <2>3, <2>5, SmallerSet
    <3>2. SumOf(f, s) = f[x] + SumOf(f, s \ {x}) /\ SumOf(g, s) = g[x] + SumOf(g, s \ {x})
      BY <2>5, SumUnfolds
    <3> HIDE DEF x
    <3>3. k - 1 \notin Counter /\ k - 1 \in Nat
      BY <2>2, <3>1
    <3>4. Raised(s \ {x})
      BY <3>1, <3>3
    <3>5. f[x] \in Nat /\ g[x] = IF x = w THEN f[x] + d ELSE f[x]
      BY <3>1
    <3>6. w \in s <=> w = x \/ w \in s \ {x}
      BY <3>1
    <3>7. Raised(s)
      BY <3>2, <3>4, <3>5, <3>6
    <3> QED
      BY <2>3, <3>7
  <2> QED
    BY <2>4, <2>5
<1>2. Cardinality(D) \in Nat
  BY FS_CardinalityType
<1>3. Raised(D)
  BY <1>1, <1>2
<1> QED
  BY <1>3, SumIsSumOf

LEMMA SumOfNone ==
  ASSUME NEW f, DOMAIN f = {}
  PROVE  SumFunction(f) = 0
  BY FS_EmptySet, SumIsSumOf, SumUnfolds

LEMMA SumNatural ==
  ASSUME NEW f, IsFiniteSet(DOMAIN f), \A v \in DOMAIN f : f[v] \in Nat
  PROVE  SumFunction(f) \in Nat
<1>1. \A v \in DOMAIN f : f[v] \in Nat /\ f[v] = IF v = {} THEN f[v] + 0 ELSE f[v]
  OBVIOUS
<1>2. 0 \in Nat
  OBVIOUS
<1> QED
  BY <1>1, <1>2, SumRaised

LEMMA SumRaisedAt ==
  ASSUME NEW f, NEW g, NEW w \in DOMAIN f, NEW d \in Nat,
         IsFiniteSet(DOMAIN f), DOMAIN g = DOMAIN f, \A v \in DOMAIN f : f[v] \in Nat,
         \A v \in DOMAIN f : v # w => g[v] = f[v],
         g[w] = f[w] + d
  PROVE  SumFunction(g) = SumFunction(f) + d
<1>1. \A v \in DOMAIN f : f[v] \in Nat /\ g[v] = IF v = w THEN f[v] + d ELSE f[v]
  OBVIOUS
<1> QED
  BY <1>1, SumRaised

-------------------------------------------------------------------------------
(***************************************************************************)
(* The byte count and the positions.                                       *)
(***************************************************************************)

\* What the positions say was fetched.
FetchedOf(st, cu, en) == [w \in DOMAIN st |-> AtMost(cu[w], en[w]) - st[w]]
Fetched == FetchedOf(starts, currents, ends)

CountInv == downloaded \in Nat /\ downloaded <= SumFunction(Fetched)

LEMMA FetchedSum ==
  ASSUME NEW n \in Nat, NEW st \in [1 .. n -> Nat], NEW cu \in [1 .. n -> Nat],
         NEW en \in [1 .. n -> Nat], \A w \in 1 .. n : st[w] <= cu[w] /\ cu[w] <= en[w]
  PROVE  /\ IsFiniteSet(1 .. n) /\ DOMAIN FetchedOf(st, cu, en) = 1 .. n
         /\ \A w \in 1 .. n : /\ FetchedOf(st, cu, en)[w] = cu[w] - st[w]
                              /\ FetchedOf(st, cu, en)[w] \in Nat
         /\ SumFunction(FetchedOf(st, cu, en)) \in Nat
<1>1. IsFiniteSet(1 .. n) /\ DOMAIN FetchedOf(st, cu, en) = 1 .. n
  BY FS_Interval DEF FetchedOf
<1>2. \A w \in 1 .. n : /\ FetchedOf(st, cu, en)[w] = cu[w] - st[w]
                        /\ FetchedOf(st, cu, en)[w] \in Nat
  BY DEF AtMost, FetchedOf
<1>3. SumFunction(FetchedOf(st, cu, en)) \in Nat
  BY <1>1, <1>2, SumNatural
<1> QED
  BY <1>1, <1>2, <1>3

LEMMA FetchedType ==
  ASSUME TypeInv, LayoutInv
  PROVE  /\ IsFiniteSet(Workers) /\ DOMAIN Fetched = Workers
         /\ \A w \in Workers : Fetched[w] = currents[w] - starts[w] /\ Fetched[w] \in Nat
         /\ SumFunction(Fetched) \in Nat
<1>1. PICK n \in Nat : Workers = 1 .. n
  BY RangeTypes
<1>2. starts \in [1 .. n -> Nat] /\ currents \in [1 .. n -> Nat] /\ ends \in [1 .. n -> Nat]
      /\ snap \in [1 .. n -> Nat]
  BY <1>1, RangeTypes
<1>3. \A w \in 1 .. n : starts[w] <= currents[w] /\ currents[w] <= ends[w]
  BY <1>1, <1>2 DEF LayoutInv, RangesFollow
<1> QED
  BY <1>1, <1>2, <1>3, FetchedSum DEF Fetched

LEMMA CountStep ==
  ASSUME TypeInv, TypeInv', LayoutInv, LayoutInv', CountInv, [Next]_vars
  PROVE  CountInv'
<1>0. /\ SumFunction(Fetched) \in Nat /\ SumFunction(Fetched)' \in Nat
      /\ downloaded \in Nat
      /\ \A w \in Workers' : Fetched'[w] = currents'[w] - starts'[w]
  <2>1. PICK n \in Nat : Workers' = 1 .. n
    BY DEF TypeInv
  <2>2. /\ starts' \in [1 .. n -> Nat] /\ currents' \in [1 .. n -> Nat]
        /\ ends' \in [1 .. n -> Nat] /\ snap' \in [1 .. n -> Nat]
    BY <2>1 DEF TypeInv, TypeOK, RangeTypeOK, SaverTypeOK
  <2>3. \A w \in 1 .. n : starts'[w] <= currents'[w] /\ currents'[w] <= ends'[w]
    BY <2>1, <2>2 DEF LayoutInv, RangesFollow
  <2>4. Fetched' = FetchedOf(starts', currents', ends')
    BY DEF Fetched
  <2>5. SumFunction(Fetched') \in Nat /\ \A w \in 1 .. n : Fetched'[w] = currents'[w] - starts'[w]
    BY <2>2, <2>3, <2>4, FetchedSum
  <2> QED
    BY <2>1, <2>5, FetchedType DEF CountInv
\* A call that returns counts nothing.
<1>r. ASSUME NEW r, Return(r) PROVE CountInv'
  <2>1. Workers' = {} /\ downloaded' = 0
    BY <1>r DEF Return, Workers, NoWorkers
  <2>2. SumFunction(Fetched') = 0
    <3>1. DOMAIN Fetched' = {}
      BY <2>1 DEF Fetched, FetchedOf, Workers
    <3> QED
      BY <3>1, SumOfNone
  <2> QED
    BY <2>1, <2>2 DEF CountInv
<1>s. ASSUME UNCHANGED <<starts, ends, currents, downloaded>> PROVE CountInv'
  <2>1. Fetched' = Fetched
    BY <1>s DEF Fetched
  <2> QED
    BY <1>s, <2>1 DEF CountInv
<1>1. ASSUME NEW n \in ThreadChoices, Call(n) PROVE CountInv'
  BY <1>1, <1>s DEF Call, taskVars, rangeVars
<1>2. CASE CallStep
  <2>1. CASE Probe \/ Join \/ ReturnChanged \/ FinalSync
    BY <2>1, <1>s DEF Probe, Join, ReturnChanged, FinalSync, taskVars, rangeVars
  <2>2. CASE StartWorkers
    <3> DEFINE resumed == [w \in DOMAIN Plan |-> PositionOf(Plan[w]) - Plan[w].start]
    <3>1. downloaded' = SumFunction(resumed)
      BY <2>2 DEF StartWorkers
    <3>2. /\ Workers' = DOMAIN Plan
          /\ \A w \in DOMAIN Plan : /\ starts'[w] = Plan[w].start
                                    /\ currents'[w] = Plan[w].current
      BY <2>2 DEF StartWorkers, Workers, PositionOf
    <3>3. \A w \in DOMAIN Plan : Fetched'[w] = currents'[w] - starts'[w]
      BY <1>0, <3>2
    <3>4. Fetched' = resumed
      BY <3>2, <3>3 DEF Fetched, FetchedOf, Workers, PositionOf
    <3> QED
      BY <1>0, <3>1, <3>4 DEF CountInv
  <2>3. CASE DeleteState
    BY <2>3, <1>r, <1>s DEF DeleteState, rangeVars
  <2> QED
    BY <1>2, <1>r, <2>1, <2>2, <2>3
       DEF CallStep, ProbeCancelled, StartFails, ReturnCancelled, ReturnError, ReturnMismatch,
           Verify, VerifyFails
<1>3. ASSUME NEW w \in Workers, WorkerStep(w) PROVE CountInv'
  <2>1. UNCHANGED <<starts, ends>> /\ Workers' = Workers
    BY <1>3 DEF WorkerStep, Workers
  \* The counter moves by no more than the worker's position.
  <2>2. ASSUME NEW to \in Nat, currents[w] <= to, to <= ends[w],
               currents' = [currents EXCEPT ![w] = to],
               downloaded' = downloaded \/ downloaded' = downloaded + (to - currents[w])
        PROVE  CountInv'
    <3>1. currents \in [Workers -> Nat] /\ starts \in [Workers -> Nat]
      BY RangeTypes
    <3>2. \A v \in Workers : Fetched'[v] = IF v = w THEN Fetched[v] + (to - currents[w])
                                                    ELSE Fetched[v]
      <4>1. \A v \in Workers : Fetched'[v] = currents'[v] - starts'[v]
        BY <1>0, <2>1
      <4>2. \A v \in Workers : Fetched[v] = currents[v] - starts[v]
        BY FetchedType
      <4> QED
        BY <2>1, <2>2, <3>1, <4>1, <4>2
    <3>3. /\ IsFiniteSet(Workers) /\ DOMAIN Fetched = Workers /\ DOMAIN Fetched' = Workers
          /\ \A v \in Workers : Fetched[v] \in Nat
      BY <2>1, FetchedType DEF Fetched, FetchedOf, Workers
    <3>4. to - currents[w] \in Nat
      BY <2>2, <3>1
    <3>5. SumFunction(Fetched') = SumFunction(Fetched) + (to - currents[w])
      <4>1. PICK g : g = Fetched'
        OBVIOUS
      <4>2. PICK d \in Nat : d = to - currents[w]
        BY <3>4
      <4>3. IsFiniteSet(DOMAIN Fetched) /\ DOMAIN g = DOMAIN Fetched /\ w \in DOMAIN Fetched
        BY <3>3, <4>1
      <4>4. /\ \A v \in DOMAIN Fetched : Fetched[v] \in Nat
            /\ \A v \in DOMAIN Fetched : v # w => g[v] = Fetched[v]
            /\ g[w] = Fetched[w] + d
        BY <3>2, <3>3, <4>1, <4>2
      <4>5. SumFunction(g) = SumFunction(Fetched) + d
        BY <4>3, <4>4, SumRaisedAt
      <4> QED
        BY <4>1, <4>2, <4>5
    <3> QED
      BY <1>0, <2>2, <3>4, <3>5 DEF CountInv
  <2>3. CASE UNCHANGED <<currents, downloaded>>
    BY <2>1, <2>3, <1>s
  <2>t. currents[w] \in Nat /\ ends[w] \in Nat /\ currents[w] <= ends[w]
    BY RangeTypes DEF LayoutInv, RangesFollow
  <2>4. CASE Reply416(w)
    <3>1. currents' = [currents EXCEPT ![w] = ends[w]] /\ downloaded' = downloaded
      BY <2>4 DEF Reply416, PositionAfter416
    <3>2. PICK to : to = ends[w]
      OBVIOUS
    <3>3. /\ to \in Nat /\ currents[w] <= to /\ to <= ends[w]
          /\ currents' = [currents EXCEPT ![w] = to]
      BY <2>t, <3>1, <3>2
    <3> QED
      BY <2>2, <3>1, <3>3
  <2>5. ASSUME NEW n \in 1 .. MaxChunk, Deliver(w, n) PROVE CountInv'
    <3> DEFINE to == WriteEnd(w, n)
    <3>1. to \in Nat /\ currents[w] <= to /\ to <= ends[w]
      BY <2>t DEF WriteEnd, AtMost
    <3>2. /\ currents' = [currents EXCEPT ![w] = to]
          /\ downloaded' = downloaded + (to - currents[w])
      BY <2>5 DEF Deliver
    <3> HIDE DEF to
    <3> QED
      BY <2>2, <3>1, <3>2
  <2> QED
    BY <1>3, <2>3, <2>4, <2>5
       DEF WorkerStep, Loop, Reply206, Reply200, ReplyError, StreamCancelled, StreamBreaks,
           StreamEnds, Flush, BackoffOver, NoIO
<1>4. CASE SaverStep
  BY <1>4, <1>s DEF SaverStep, rangeVars
<1>5. CASE EnvironmentStep
  <2>1. CASE Kill \/ PowerLoss
    BY <2>1, <1>r DEF Kill, PowerLoss
  <2>2. CASE (\E p \in pending : Land(p) \/ LandFails(p)) \/ Cancel \/ ServerPublishes
    BY <2>2, <1>s DEF Land, LandFails, Cancel, ServerPublishes, taskVars, rangeVars
  <2> QED
    BY <1>5, <2>1, <2>2 DEF EnvironmentStep
<1>6. CASE UNCHANGED vars
  BY <1>6, <1>s DEF vars, taskVars, rangeVars
<1> QED
  BY <1>1, <1>2, <1>3, <1>4, <1>5, <1>6 DEF Next

\* The counter that decides completion never exceeds what the positions say was
\* fetched, under every fault: no byte is counted twice, resumed or delivered.
THEOREM CountAlwaysWithinPositions == Spec => []CountWithinPositions
<1>1. Init => CountInv
  <2> SUFFICES ASSUME Init PROVE CountInv
    OBVIOUS
  <2>1. Workers = {} /\ downloaded = 0
    BY DEF Init, Workers, NoWorkers
  <2>2. DOMAIN Fetched = {}
    BY <2>1 DEF Fetched, FetchedOf, Workers
  <2> QED
    BY <2>1, <2>2, SumOfNone DEF CountInv
<1>2. TypeInv /\ LayoutInv /\ CountInv /\ [Next]_vars => (TypeInv /\ LayoutInv /\ CountInv)'
  BY TypeStep, LayoutStep, CountStep
<1>3. TypeInv /\ LayoutInv /\ CountInv => CountWithinPositions
  BY FetchedType DEF CountInv, CountWithinPositions, Fetched, FetchedOf, Workers
<1> QED
  BY <1>1, <1>2, <1>3, TypeInit, LayoutInit, PTL DEF Spec
-------------------------------------------------------------------------------
(***************************************************************************)
(* The state file is used as StateStore has it, by one saver.              *)
(***************************************************************************)
Saving == [w \in {1} |-> IF ReadyToPersist THEN Checkpoint ELSE None]

\* The history of the directory matters only where the power may fail.
StateEntries == IF "powerloss" \in Faults THEN entries ELSE {saved}

Store == INSTANCE StateStore
  WITH Savers <- {1}, entries <- StateEntries, saving <- Saving, mixed <- {}

\* Nobody saves once the call has stopped its saver.
OffInv == pc \in {"dropping", "deleting", "verify"} => spc = "off"

LEMMA OffStep ==
  ASSUME TypeInv, OffInv, [Next]_vars
  PROVE  OffInv'
<1>1. ASSUME NEW n \in ThreadChoices, Call(n) PROVE OffInv'
  BY <1>1 DEF Call, OffInv
<1>2. CASE CallStep
  BY <1>2 DEF CallStep, Probe, ProbeCancelled, StartFails, StartWorkers, Join, ReturnCancelled,
     ReturnError, ReturnChanged, ReturnMismatch, FinalSync, DeleteState, Verify, VerifyFails,
     Return, SaverAwaited, AllOk, taskVars, saverVars, OffInv
<1>3. ASSUME NEW w \in Workers, WorkerStep(w) PROVE OffInv'
  BY <1>3 DEF WorkerStep, callVars, saverVars, OffInv
<1>4. CASE SaverStep
  BY <1>4 DEF SaverStep, ReadPosition, SyncData, Persist, ReadyToPersist, callVars, OffInv
<1>5. CASE EnvironmentStep
  BY <1>5 DEF EnvironmentStep, Land, LandFails, Cancel, Kill, PowerLoss, ServerPublishes, Return,
     callVars, saverVars, taskVars, OffInv
<1>6. CASE UNCHANGED vars
  BY <1>6 DEF vars, callVars, taskVars, saverVars, OffInv
<1> QED
  BY <1>1, <1>2, <1>3, <1>4, <1>5, <1>6 DEF Next

LEMMA NoSaving == spc \in {"off", "read"} => Saving = [w \in {1} |-> None]
  BY DEF Saving, ReadyToPersist

LEMMA StoreStart == Init => Store!Init
<1> SUFFICES ASSUME Init PROVE Store!Init
  OBVIOUS
<1>1. Saving = [w \in {1} |-> None]
  BY NoSaving DEF Init
<1> QED
  BY <1>1 DEF Init, StateEntries, Store!Init, Store!Idle

LEMMA StoreStep ==
  ASSUME NoneIsNoState, TypeInv, OffInv, [Next]_vars
  PROVE  [Store!Next]_(Store!vars)
<1>n. Saving' = [w \in {1} |-> None] \/ spc' \notin {"off", "read"}
  BY DEF Saving, ReadyToPersist
<1>c. Checkpoint # None /\ Checkpoint' # None
  BY DEF Checkpoint, NewState, NoneIsNoState
\* The file stays, and nobody begins or ends a save.
<1>k. ASSUME UNCHANGED <<saved, entries>>,
             \/ UNCHANGED <<starts, ends, info, snap, spc>>
             \/ spc \in {"off", "read"} /\ spc' \in {"off", "read"}
      PROVE  UNCHANGED Store!vars
  <2>1. Saving' = Saving
    BY <1>k, <1>n, NoSaving DEF Saving, ReadyToPersist, Checkpoint, NewState, Workers
  <2>2. StateEntries' = StateEntries
    BY <1>k DEF StateEntries
  <2> QED
    BY <1>k, <2>1, <2>2 DEF Store!vars
\* The file is removed, or stays because that failed.
<1>r. ASSUME Remove, spc = "off", spc' = "off" PROVE [Store!Next]_(Store!vars)
  <2>1. CASE UNCHANGED <<saved, entries>>
    BY <1>k, <1>r, <2>1
  <2>2. CASE saved' = None /\ entries' = Durably(entries \cup {None}, entries)
    <3>1. Saving' = Saving
      BY <1>r, <1>n, NoSaving
    <3>2. None \in StateEntries' /\ StateEntries' \subseteq StateEntries \cup {None}
      BY <2>2 DEF StateEntries, Durably
    <3>3. Store!Remove
      BY <2>2, <3>1, <3>2 DEF Store!Remove, Store!Shows
    <3> QED
      BY <3>3 DEF Store!Next
  <2> QED
    BY <1>r, <2>1, <2>2 DEF Remove
<1>off. pc \in BeforeRun => spc = "off"
  BY DEF TypeInv
<1>1. ASSUME NEW n \in ThreadChoices, Call(n) PROVE UNCHANGED Store!vars
  BY <1>1, <1>k DEF Call, diskVars, taskVars, saverVars, rangeVars
<1>2. CASE CallStep
  <2>1. CASE DeleteState \/ VerifyFails
    BY <1>r, <2>1 DEF DeleteState, VerifyFails, Return, saverVars, OffInv
  <2>2. CASE Join
    BY <1>k, <2>2 DEF Join, diskVars, taskVars, saverVars, rangeVars
  <2>3. CASE StartWorkers
    BY <1>k, <1>off, <2>3 DEF StartWorkers, BeforeRun
  <2>4. CASE Probe \/ ReturnChanged \/ FinalSync
    <3>1. spc = "off" /\ spc' = "off" /\ UNCHANGED <<saved, entries>>
      BY <1>off, <2>4 DEF Probe, ReturnChanged, FinalSync, AllOk, SaverAwaited, diskVars, taskVars,
         saverVars, BeforeRun
    <3> QED
      BY <1>k, <3>1
  <2>5. CASE ProbeCancelled \/ StartFails \/ ReturnCancelled \/ ReturnError \/ ReturnMismatch \/ Verify
    <3>1. spc = "off" /\ spc' = "off" /\ UNCHANGED <<saved, entries>>
      BY <1>off, <2>5 DEF ProbeCancelled, StartFails, ReturnCancelled, ReturnError, ReturnMismatch,
         Verify, AllOk, SaverAwaited, Return, diskVars, BeforeRun, OffInv
    <3> QED
      BY <1>k, <3>1
  <2> QED
    BY <1>2, <2>1, <2>2, <2>3, <2>4, <2>5 DEF CallStep
<1>3. ASSUME NEW w \in Workers, WorkerStep(w) PROVE UNCHANGED Store!vars
  BY <1>3, <1>k DEF WorkerStep, callVars, saverVars
<1>4. CASE SaverStep
  <2>s. /\ UNCHANGED <<starts, ends, info>>
        /\ UNCHANGED snap => Checkpoint' = Checkpoint
    BY <1>4 DEF SaverStep, callVars, rangeVars, Checkpoint, NewState, Workers
  \* The snapshot is complete, and synced if it has to be.
  <2>1. ASSUME UNCHANGED <<saved, entries>>, ~ReadyToPersist PROVE [Store!Next]_(Store!vars)
    <3>1. Saving = [w \in {1} |-> None] /\ StateEntries' = StateEntries
      BY <2>1 DEF Saving, StateEntries
    <3>2. CASE ReadyToPersist'
      <4>1. Saving' = [w \in {1} |-> Checkpoint']
        BY <3>2 DEF Saving
      <4>2. Store!Busy = {}
        BY <3>1 DEF Store!Busy
      <4>3. Saving' = [Saving EXCEPT ![1] = Saving'[1]] /\ Saving'[1] # None /\ Saving[1] = None
        BY <1>c, <3>1, <4>1
      <4>4. Store!Begin(1)
        BY <2>1, <3>1, <4>2, <4>3 DEF Store!Begin
      <4> QED
        BY <4>4 DEF Store!Next
    <3>3. CASE ~ReadyToPersist'
      <4>1. Saving' = Saving
        BY <3>1, <3>3 DEF Saving
      <4> QED
        BY <2>1, <3>1, <4>1 DEF Store!vars
    <3> QED
      BY <3>2, <3>3
  <2>2. CASE Persist
    <3>1. Saving = [w \in {1} |-> Checkpoint] /\ spc' \in {"off", "read"}
      BY <2>2 DEF Persist, Saving, AfterCheckpoint
    <3>2. Saving' = [w \in {1} |-> None]
      BY <1>n, <3>1
    <3>3. 1 \in Store!Busy /\ Store!Ends(1)
      BY <1>c, <3>1, <3>2 DEF Store!Busy, Store!Ends
    <3>4. CASE UNCHANGED <<saved, entries>>
      <4>1. Store!GiveUp(1)
        BY <3>3, <3>4 DEF Store!GiveUp, StateEntries
      <4> QED
        BY <4>1 DEF Store!Next
    <3>5. CASE saved' = Checkpoint /\ entries' = Durably(entries \cup {Checkpoint}, entries)
      <4>1. Checkpoint \in StateEntries' /\ StateEntries' \subseteq StateEntries \cup {Checkpoint}
        BY <3>5 DEF StateEntries, Durably
      <4>2. Store!Put(1)
        BY <3>1, <3>3, <3>5, <4>1 DEF Store!Put, Store!Shows
      <4> QED
        BY <4>2 DEF Store!Next
    <3> QED
      BY <2>2, <3>4, <3>5 DEF Persist
  <2>3. CASE (\E w \in Workers : ReadPosition(w)) \/ SyncData
    BY <2>1, <2>3 DEF ReadPosition, SyncData, ReadyToPersist
  <2> QED
    BY <1>4, <2>2, <2>3 DEF SaverStep
<1>5. CASE EnvironmentStep
  <2>1. CASE Kill \/ PowerLoss
    <3>1. spc' = "off"
      BY <2>1 DEF Kill, PowerLoss, Return
    <3>2. Store!AllEnd
      BY <1>n, <3>1 DEF Store!AllEnd, Store!Idle
    <3>3. CASE Kill
      <4>1. UNCHANGED <<saved, StateEntries>>
        BY <3>3 DEF Kill, diskVars, StateEntries
      <4> QED
        BY <3>2, <4>1 DEF Store!Next, Store!Kill
    <3>4. CASE PowerLoss
      <4>1. saved' \in StateEntries /\ StateEntries' = {saved'}
        BY <3>4 DEF PowerLoss, StateEntries
      <4> QED
        BY <3>2, <4>1 DEF Store!Next, Store!PowerLoss
    <3> QED
      BY <2>1, <3>3, <3>4
  <2>2. CASE (\E p \in pending : Land(p) \/ LandFails(p)) \/ Cancel \/ ServerPublishes
    BY <1>k, <2>2 DEF Land, LandFails, Cancel, ServerPublishes, diskVars, callVars, rangeVars,
       saverVars, taskVars
  <2> QED
    BY <1>5, <2>1, <2>2 DEF EnvironmentStep
<1>6. CASE UNCHANGED vars
  BY <1>6, <1>k DEF vars, diskVars, callVars, taskVars, rangeVars, saverVars
<1> QED
  BY <1>1, <1>2, <1>3, <1>4, <1>5, <1>6 DEF Next

\* Every step of a call and its saver uses the state file as StateStore allows,
\* under every fault; and state.rs keeps what StateStore promises (FileKeepsStore).
THEOREM CallsUseStore ==
  ASSUME NoneIsNoState
  PROVE  Spec => Store!Spec
<1>1. Init => TypeInv /\ OffInv
  BY TypeInit DEF Init, OffInv
<1>2. TypeInv /\ OffInv /\ [Next]_vars => TypeInv' /\ OffInv'
  BY TypeStep, OffStep
<1>3. TypeInv /\ OffInv /\ [Next]_vars => [Store!Next]_(Store!vars)
  BY StoreStep
<1> QED
  BY <1>1, <1>2, <1>3, StoreStart, PTL DEF Spec, Store!Spec
===============================================================================
