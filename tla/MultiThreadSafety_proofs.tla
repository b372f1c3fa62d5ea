----------------------- MODULE MultiThreadSafety_proofs -----------------------
(***************************************************************************)
(* What a call that reports Ok leaves in the file, and how far the state   *)
(* file may be ahead of it: for any number of versions, blocks, workers,   *)
(* retries and calls, under the conditions named below.  First with every  *)
(* way a write can be given up, but for the blocks it was to fill; then    *)
(* without an exception, where none is given up; and last of any file at   *)
(* all, when the caller knows its digest.                                  *)
(***************************************************************************)
EXTENDS MultiThread_proofs

(***************************************************************************)
(* What the theorems assume.  Each condition is needed: README names an    *)
(* instance that violates the property without it.                         *)
(***************************************************************************)

\* Validators identify versions: a state of one version is not resumed against
\* another, and If-Range for one is not honoured by a server of another.
ValidatorsTellApart ==
  \A u, v \in Version : u # v =>
    /\ ~MatchesResource(NewState(SizeOf[u], EtagOf[u], LastModifiedOf[u], <<>>),
                        EtagOf[v], LastModifiedOf[v])
    /\ IfRangeValidator(EtagOf[u], LastModifiedOf[u])
         \notin {None, EtagOf[v], LastModifiedOf[v]}

\* No version comes back once it was replaced, the server does not answer 416 to
\* a satisfiable range, and where the power may fail, resume is durable and fsync
\* works.
Conditions ==
  /\ ValidatorsTellApart
  /\ Faults \cap {"revert", "416"} = {}
  /\ "powerloss" \in Faults => DurableResume /\ "syncfail" \notin Faults

-------------------------------------------------------------------------------

\* The version a call now running completes, or the oldest one to come may.
Now == IF pc \in {"idle", "probing"} THEN srv ELSE info

\* A state file a checkpoint wrote for version u.
WrittenFor(s, u) ==
  /\ s = NewState(SizeOf[u], EtagOf[u], LastModifiedOf[u], s.workers)
  /\ LaidOut(s.workers, SizeOf[u])

\* Every byte the ranges claim is of version u.
InFile(workers, u) ==
  \A w \in DOMAIN workers :
    \A b \in workers[w].start .. workers[w].current - 1 : cache[b] = u

Completing == pc \in {"deleting", "verify"}

LEMMA ValueTypes ==
  ASSUME TypeInv
  PROVE  /\ srv \in Version /\ info \in Version /\ Version \subseteq Nat
         /\ Now \in Version /\ MaxChunk \in Nat
         /\ \A v \in Version : SizeOf[v] \in Nat \ {0} /\ 0 .. SizeOf[v] - 1 \subseteq Block
         /\ starts \in [Workers -> Nat] /\ ends \in [Workers -> Nat]
         /\ currents \in [Workers -> Nat] /\ snap \in [Workers -> Nat]
         /\ cache \in [Block -> Content] /\ platter \in [Block -> SUBSET Content]
         /\ doubtful \subseteq Block
         /\ pending \subseteq [owner : Workers \cup {Dropped}, block : Block, content : Version]
<1>1. DiskTypeOK /\ CallTypeOK /\ RangeTypeOK /\ WorkerTypeOK /\ SaverTypeOK
  BY DEF TypeInv, TypeOK
<1>2. srv \in Version /\ info \in Version /\ Now \in Version
  BY <1>1 DEF DiskTypeOK, CallTypeOK, Now
<1>3. Version \subseteq Nat /\ MaxChunk \in Nat
  BY ConstantsAssumption DEF Version
<1>4. \A v \in Version : SizeOf[v] \in Nat \ {0}
  BY ConstantsAssumption
<1>5. \A v \in Version : 0 .. SizeOf[v] - 1 \subseteq Block
  BY DEF Block
<1> QED
  BY <1>1, <1>2, <1>3, <1>4, <1>5 DEF DiskTypeOK, RangeTypeOK, WorkerTypeOK, SaverTypeOK

\* What a list of ranges of a file claims is within the file.
LEMMA ClaimsInside ==
  ASSUME NEW ws, NEW size \in Nat, LaidOut(ws, size), NEW w \in DOMAIN ws,
         NEW b \in ws[w].start .. ws[w].current - 1
  PROVE  b \in 0 .. size - 1
  BY DEF LaidOut, RangeRecord

\* A state file that can be resumed against v was written for v.
LEMMA ResumableTellsApart ==
  ASSUME ValidatorsTellApart, NEW s, NEW u \in Version, NEW v \in Version, WrittenFor(s, u),
         ResumableAt(s, v)
  PROVE  u = v
<1>1. SUFFICES ASSUME u # v PROVE FALSE
  OBVIOUS
<1>2. ~MatchesResource(NewState(SizeOf[u], EtagOf[u], LastModifiedOf[u], <<>>),
                       EtagOf[v], LastModifiedOf[v])
  BY <1>1 DEF ValidatorsTellApart
<1>3. s.etag = EtagOf[u] /\ s.lastModified = LastModifiedOf[u]
  BY DEF WrittenFor, NewState
<1> QED
  BY <1>2, <1>3 DEF ResumableAt, MatchesResource, NewState

\* What the server honours If-Range for is what the call probed.
LEMMA HonouredIsProbed ==
  ASSUME TypeInv, ValidatorsTellApart, RangeHonoured
  PROVE  srv = info
<1>1. SUFFICES ASSUME srv # info PROVE FALSE
  OBVIOUS
<1>2. IfRange \notin {None, EtagOf[srv], LastModifiedOf[srv]}
  BY <1>1, ValueTypes DEF ValidatorsTellApart, IfRange
<1> QED
  BY <1>2 DEF RangeHonoured

\* Between them the ranges cover the file, and leave it nowhere.
LEMMA RangesCover ==
  ASSUME TypeInv, LayoutInv, Workers # {}
  PROVE  /\ LaidOut(Checkpoint.workers, SizeOf[info])
         /\ \A w \in Workers : ends[w] <= SizeOf[info]
         /\ \A b \in 0 .. SizeOf[info] - 1 : \E w \in Workers : starts[w] <= b /\ b < ends[w]
<1>1. PICK n \in Nat : Workers = 1 .. n
  BY RangeTypes
<1>2. /\ Checkpoint.size = SizeOf[info]
      /\ Checkpoint.workers = [w \in Workers |->
                                 [start |-> starts[w], current |-> snap[w], end |-> ends[w]]]
  BY DEF Checkpoint, NewState
<1>3. Checkpoint.workers \in [1 .. n -> RangeRecord]
  BY <1>1, <1>2, RangeTypes DEF RangeRecord
<1>4. Validate(Checkpoint)
  BY CheckpointValid
<1> HIDE DEF Checkpoint
<1>5. LaidOut(Checkpoint.workers, SizeOf[info])
  BY <1>2, <1>3, <1>4, RangeTypes, ValidateLaysOut
<1>6. PICK m \in Nat \ {0} :
        /\ Checkpoint.workers \in [1 .. m -> RangeRecord]
        /\ \A w \in 1 .. m : Checkpoint.workers[w].end <= SizeOf[info]
        /\ \A b \in 0 .. SizeOf[info] - 1 :
             \E w \in 1 .. m : /\ Checkpoint.workers[w].start <= b
                               /\ b < Checkpoint.workers[w].end
  BY <1>5 DEF LaidOut
<1>7. 1 .. m = Workers
  BY <1>2, <1>6
<1>8. \A w \in Workers : Checkpoint.workers[w].start = starts[w] /\ Checkpoint.workers[w].end = ends[w]
  BY <1>2
<1> QED
  BY <1>5, <1>6, <1>7, <1>8

\* What a worker counts is within the file.
LEMMA CountedInside ==
  ASSUME TypeInv, LayoutInv, NEW w \in Workers, NEW b \in starts[w] .. currents[w] - 1
  PROVE  b \in 0 .. SizeOf[info] - 1 /\ b \in Block
<1>1. currents[w] <= ends[w] /\ ends[w] <= SizeOf[info]
  BY RangesCover DEF LayoutInv, RangesFollow
<1>2. b \in 0 .. SizeOf[info] - 1
  BY <1>1, RangeTypes
<1> QED
  BY <1>2, ValueTypes

-------------------------------------------------------------------------------
(***************************************************************************)
(* Whatever is lost on the way.                                            *)
(***************************************************************************)

\* A block is of version u, or a write under way will make it so, or it is one of
\* those nobody awaited.
Coming(b, u) == b \in doubtful \/ cache[b] = u \/ OnItsWay(b, u)

Arriving(workers, u) ==
  \A w \in DOMAIN workers :
    \A b \in workers[w].start .. workers[w].current - 1 : Coming(b, u)

\* But for its last write, all that a worker claims is on the platter.
OnPlatter(workers, u) ==
  \A w \in DOMAIN workers :
    \A b \in workers[w].start .. workers[w].current - 1 - MaxChunk :
      b \in doubtful \/ platter[b] = {u}

\* A state file is none, or of an earlier release, or written for a version that
\* was replaced, or for the current one and then what it claims is there.
SafeState(s) ==
  \/ s = None
  \/ s \in Leftovers
  \/ \E u \in Version : WrittenFor(s, u) /\ u <= Now /\ (u = Now => Arriving(s.workers, u))

DurableState(s) ==
  \/ s = None
  \/ s \in Leftovers
  \/ \E u \in Version : WrittenFor(s, u) /\ u <= Now /\ (u = Now => OnPlatter(s.workers, u))

\* A write under way is of the version probed and the last one of its worker, or
\* nobody awaits it.
PendInv ==
  \A p \in pending :
    \/ p.owner = Dropped /\ p.block \in doubtful
    \/ /\ p.owner \in Workers
       /\ p.content = info
       /\ p.block < currents[p.owner] /\ currents[p.owner] <= p.block + MaxChunk

\* What a worker counted is of the version probed, or will be once its own write
\* lands; so is what it streams; a worker that is done fetched its whole range.
Underway(w, b) == cache[b] = info \/ \E p \in PendingOf(w) : p.block = b

FetchedInv ==
  \A w \in Workers :
    /\ \A b \in starts[w] .. currents[w] - 1 : b \in doubtful \/ Underway(w, b)
    /\ wpc[w] = "stream" => body[w] = info
    /\ wpc[w] = "ok" => currents[w] = ends[w]

Whole == \A b \in 0 .. SizeOf[info] - 1 : b \in doubtful \/ cache[b] = info

CallInv ==
  /\ info <= srv
  /\ pc \notin BeforeRun => Workers # {}
  /\ Completing => \A w \in Workers : wpc[w] = "ok"
  /\ result = "ok" => pc = "idle" /\ Whole

\* With power losses: a block may come back as it is, no state file that may
\* come back is ahead of what may, and a complete file is complete for good.
CacheInv == \A b \in Block : cache[b] \in platter[b]

SyncedInv ==
  spc = "synced" =>
    \A w \in Workers : \A b \in starts[w] .. snap[w] - 1 - MaxChunk :
      b \in doubtful \/ platter[b] = {info}

WholeOnPlatter == \A b \in 0 .. SizeOf[info] - 1 : b \in doubtful \/ platter[b] = {info}

PowerInv ==
  "powerloss" \in Faults =>
    /\ CacheInv
    /\ \A s \in entries : DurableState(s)
    /\ SyncedInv
    /\ Completing \/ result = "ok" => WholeOnPlatter

SafeInv ==
  TypeInv /\ LayoutInv /\ PendInv /\ FetchedInv /\ CallInv /\ SafeState(saved) /\ PowerInv

LEMMA SafeInit == Init => SafeInv
<1> SUFFICES ASSUME Init PROVE SafeInv
  OBVIOUS
<1>1. TypeInv /\ LayoutInv
  BY TypeInit, LayoutInit
<1>2. Workers = {}
  BY DEF Init, Workers, NoWorkers
<1>3. SafeState(saved) /\ \A s \in entries : DurableState(s)
  BY DEF Init, SafeState, DurableState
<1>4. PowerInv
  BY <1>3 DEF Init, PowerInv, Completing, CacheInv, SyncedInv
<1>5. CallInv /\ PendInv
  <2>1. srv = info /\ srv \in Nat
    BY <1>1, ValueTypes DEF Init
  <2> QED
    BY <2>1 DEF Init, CallInv, PendInv, BeforeRun, Completing
<1> QED
  BY <1>1, <1>2, <1>3, <1>4, <1>5 DEF SafeInv, FetchedInv

\* While there are workers, it is their version that counts.
LEMMA WorkersNow ==
  ASSUME SafeInv
  PROVE  /\ Workers # {} => Now = info /\ pc \notin BeforeRun
         /\ pc \notin {"idle", "probing"} => Now = info
  BY DEF SafeInv, TypeInv, BeforeRun, Now

\* A write that nobody gave up is of the version probed.
LEMMA LiveWrites ==
  ASSUME SafeInv, NEW p \in pending, p.block \notin doubtful
  PROVE  /\ pc = "run" /\ p.content = info /\ p.owner \in Workers /\ p.block \in Block
         /\ p.block < currents[p.owner] /\ currents[p.owner] <= p.block + MaxChunk
<1>1. /\ p.owner \in Workers /\ p.content = info
      /\ p.block < currents[p.owner] /\ currents[p.owner] <= p.block + MaxChunk
  BY DEF SafeInv, PendInv
<1>2. p.owner # Dropped
  BY <1>1, RangeTypes DEF SafeInv, Dropped
<1>3. pc = "run"
  BY <1>2, EndedDropped DEF SafeInv, TypeInv, TypeOK, CallTypeOK, BeforeRun, AfterRun
<1>4. p.block \in Block
  BY DEF SafeInv, TypeInv, TypeOK, WorkerTypeOK
<1> QED
  BY <1>1, <1>3, <1>4

\* The version that counts never goes back.
LEMMA NowStep ==
  ASSUME SafeInv, Conditions, [Next]_vars
  PROVE  Now <= Now' /\ info' <= srv'
<1>t. srv \in Nat /\ info \in Nat /\ Now \in Nat /\ info <= srv
  BY ValueTypes DEF SafeInv, CallInv
<1>u. ASSUME UNCHANGED <<srv, info>>, pc \in {"idle", "probing"} => pc' \in {"idle", "probing"}
      PROVE  Now <= Now' /\ info' <= srv'
  BY <1>u, <1>t DEF Now
<1>r. ASSUME NEW r, Return(r), srv' = srv PROVE Now <= Now' /\ info' <= srv'
  BY <1>r, <1>u DEF Return
<1>1. ASSUME NEW n \in ThreadChoices, Call(n) PROVE Now <= Now' /\ info' <= srv'
  BY <1>1, <1>u DEF Call
<1>2. CASE CallStep
  <2>1. srv' = srv
    BY <1>2 DEF CallStep
  <2>2. CASE ProbeCancelled \/ StartFails \/ ReturnCancelled \/ ReturnError \/ ReturnMismatch
             \/ Verify \/ VerifyFails
    BY <2>1, <2>2, <1>r DEF ProbeCancelled, StartFails, ReturnCancelled, ReturnError,
                            ReturnMismatch, Verify, VerifyFails
  <2>3. CASE Probe
    BY <2>1, <2>3, <1>t DEF Probe, Now
  <2>4. CASE StartWorkers \/ Join \/ ReturnChanged \/ FinalSync
    BY <2>1, <2>4, <1>u DEF StartWorkers, Join, ReturnChanged, FinalSync, AllOk, SaverAwaited
  <2>5. CASE DeleteState
    BY <2>1, <2>5, <1>r, <1>u DEF DeleteState
  <2> QED
    BY <1>2, <2>2, <2>3, <2>4, <2>5 DEF CallStep
<1>3. ASSUME NEW w \in Workers, WorkerStep(w) PROVE Now <= Now' /\ info' <= srv'
  BY <1>3, <1>u DEF WorkerStep, callVars
<1>4. CASE SaverStep
  BY <1>4, <1>u DEF SaverStep, callVars
<1>5. CASE Kill \/ PowerLoss
  BY <1>5, <1>r DEF Kill, PowerLoss
<1>6. CASE (\E p \in pending : Land(p) \/ LandFails(p)) \/ Cancel
  BY <1>6, <1>u DEF Land, LandFails, Cancel, callVars
<1>7. CASE ServerPublishes
  <2>1. srv' = srv + 1 /\ pc' = pc /\ info' = info
    BY <1>7 DEF ServerPublishes, Conditions, callVars
  <2> QED
    BY <2>1, <1>t DEF Now
<1>8. CASE UNCHANGED vars
  BY <1>8, <1>u DEF vars, callVars
<1> QED
  BY <1>1, <1>2, <1>3, <1>4, <1>5, <1>6, <1>7, <1>8 DEF Next, EnvironmentStep

\* What a step does to a block that nobody doubts.
LEMMA DataStep ==
  ASSUME SafeInv, Conditions, [Next]_vars, ~PowerLoss, ~VerifyFails,
         NEW b \in Block, b \notin doubtful', pc = "probed" => b < SizeOf[info]
  PROVE  /\ cache'[b] = cache[b] \/ (pc = "run" /\ cache'[b] = info)
         /\ "powerloss" \in Faults =>
              \/ platter'[b] \in {platter[b], {cache[b]}}
              \/ pc = "run" /\ platter'[b] = platter[b] \cup {info}
<1> DEFINE Goal ==
      /\ cache'[b] = cache[b] \/ (pc = "run" /\ cache'[b] = info)
      /\ "powerloss" \in Faults =>
           \/ platter'[b] \in {platter[b], {cache[b]}}
           \/ pc = "run" /\ platter'[b] = platter[b] \cup {info}
<1>t. TypeInv /\ cache \in [Block -> Content] /\ platter \in [Block -> SUBSET Content]
  BY ValueTypes DEF SafeInv
<1>u. UNCHANGED <<cache, platter>> => Goal
  OBVIOUS
<1>1. ASSUME NEW n \in ThreadChoices, Call(n) PROVE Goal
  BY <1>1, <1>u DEF Call, diskVars
<1>2. CASE CallStep
  <2>1. CASE StartWorkers
    <3>1. /\ cache'[b] = cache[b]
          /\ "powerloss" \in Faults => platter'[b] = {cache[b]}
      BY <2>1, <1>t DEF StartWorkers, SetLength, Durably, Conditions
    <3> QED
      BY <3>1
  <2>2. CASE FinalSync
    <3>1. cache' = cache /\ ("powerloss" \in Faults => platter' = [c \in Block |-> {cache[c]}])
      BY <2>2 DEF FinalSync, SyncedAtEnd, Durably, Conditions
    <3> QED
      BY <3>1
  <2>3. CASE DeleteState
    BY <2>3, <1>u DEF DeleteState
  <2>4. CASE Probe \/ ProbeCancelled \/ StartFails \/ Join \/ ReturnCancelled \/ ReturnError
             \/ ReturnChanged \/ ReturnMismatch \/ Verify
    BY <2>4, <1>u DEF Probe, ProbeCancelled, StartFails, Join, ReturnCancelled, ReturnError,
                      ReturnChanged, ReturnMismatch, Verify, diskVars
  <2> QED
    BY <1>2, <2>1, <2>2, <2>3, <2>4 DEF CallStep
<1>3. ASSUME NEW w \in Workers, WorkerStep(w) PROVE Goal
  BY <1>3, <1>u DEF WorkerStep, Loop, Reply206, Reply200, Reply416, ReplyError, Deliver, StreamCancelled,
     StreamBreaks, StreamEnds, Flush, BackoffOver, NoIO
<1>4. CASE SaverStep
  <2>1. CASE SyncData
    <3>1. cache' = cache /\ ("powerloss" \in Faults => platter' = [c \in Block |-> {cache[c]}])
      BY <1>4, <2>1 DEF SaverStep, SyncData, Durably, Conditions
    <3> QED
      BY <3>1
  <2>2. CASE ~SyncData
    BY <1>4, <2>2, <1>u DEF SaverStep, ReadPosition, Persist
  <2> QED
    BY <2>1, <2>2
<1>5. ASSUME NEW p \in pending, Land(p) PROVE Goal
  <2>1. /\ cache' = [cache EXCEPT ![p.block] = p.content] /\ doubtful' = doubtful
        /\ "powerloss" \in Faults => platter' = [platter EXCEPT ![p.block] = @ \cup {p.content}]
    BY <1>5 DEF Land, Durably
  <2>2. p.block = b => p.content = info /\ pc = "run"
    BY <2>1, LiveWrites
  <2> QED
    BY <1>t, <2>1, <2>2
<1>6. ASSUME NEW p \in pending, LandFails(p) PROVE Goal
  BY <1>6, <1>u DEF LandFails
<1>7. CASE Cancel \/ Kill \/ ServerPublishes
  BY <1>7, <1>u DEF Cancel, Kill, ServerPublishes, diskVars
<1>8. CASE UNCHANGED vars
  BY <1>8, <1>u DEF vars, diskVars
<1> QED
  BY <1>1, <1>2, <1>3, <1>4, <1>5, <1>6, <1>7, <1>8 DEF Next, EnvironmentStep

\* What is of the version that counts, or of the one probed, stays so; a loss of
\* power keeps what is on the platter.
LEMMA KeptStep ==
  ASSUME SafeInv, Conditions, [Next]_vars, ~VerifyFails,
         NEW u \in Version, u = Now \/ u = info, NEW b \in 0 .. SizeOf[u] - 1, b \notin doubtful'
  PROVE  /\ cache[b] = u /\ ~PowerLoss => cache'[b] = u
         /\ "powerloss" \in Faults /\ platter[b] = {u} => cache'[b] = u /\ platter'[b] = {u}
<1>t. b \in Block /\ ("powerloss" \in Faults => cache[b] \in platter[b])
  BY ValueTypes DEF SafeInv, PowerInv, CacheInv
<1>n. pc \notin {"idle", "probing"} => u = info
  BY WorkersNow
<1>1. CASE PowerLoss
  <2>1. PICK kept \in [Block -> Content] :
          /\ \A c \in Block : kept[c] \in platter[c]
          /\ cache' = kept /\ platter' = [c \in Block |-> {kept[c]}]
    BY <1>1 DEF PowerLoss
  <2> QED
    BY <1>1, <1>t, <2>1
<1>2. CASE ~PowerLoss
  <2>1. pc = "probed" => b < SizeOf[info]
    BY <1>n, ValueTypes DEF SafeInv
  <2>2. cache'[b] = cache[b] \/ (pc = "run" /\ cache'[b] = info)
    BY <1>2, <1>t, <2>1, DataStep
  <2>3. "powerloss" \in Faults =>
          \/ platter'[b] \in {platter[b], {cache[b]}}
          \/ pc = "run" /\ platter'[b] = platter[b] \cup {info}
    BY <1>2, <1>t, <2>1, DataStep
  <2> QED
    BY <1>2, <1>n, <1>t, <2>2, <2>3
<1> QED
  BY <1>1, <1>2

\* A write that nobody gave up stays under way until it is made.
LEMMA PendStep ==
  ASSUME TypeInv, [Next]_vars, ~PowerLoss, ~VerifyFails, NEW p \in pending, p.block \notin doubtful'
  PROVE  p \in pending' \/ cache'[p.block] = p.content
<1>t. cache \in [Block -> Content] /\ p.block \in Block
  BY ValueTypes
<1>d. ASSUME NEW writes \in SUBSET pending, Doubts(BlocksOf(writes)) PROVE p \notin writes
  BY <1>d DEF Doubts, BlocksOf
<1>1. ASSUME NEW n \in ThreadChoices, Call(n) PROVE p \in pending'
  BY <1>1 DEF Call, taskVars, ioVars
<1>2. CASE CallStep
  BY <1>2 DEF CallStep, Probe, ProbeCancelled, StartFails, StartWorkers, Join, ReturnCancelled,
     ReturnError, ReturnChanged, ReturnMismatch, FinalSync, DeleteState, Verify, taskVars, ioVars
<1>3. ASSUME NEW w \in Workers, WorkerStep(w) PROVE p \in pending'
  <2>1. CASE StreamBreaks(w)
    <3>1. p \notin PendingOf(w)
      <4>1. PendingOf(w) \in SUBSET pending /\ Doubts(BlocksOf(PendingOf(w)))
        BY <2>1 DEF StreamBreaks, PendingOf
      <4> QED
        BY <4>1, <1>d
    <3>2. p = [p EXCEPT !.owner = IF p.owner = w THEN Dropped ELSE p.owner]
      <4>1. p \in [owner : Workers \cup {Dropped}, block : Block, content : Version] /\ p.owner # w
        BY <3>1, ValueTypes DEF PendingOf
      <4> QED
        BY <4>1
    <3> QED
      BY <2>1, <3>2 DEF StreamBreaks
  <2>2. ASSUME NEW n \in 1 .. MaxChunk, Deliver(w, n) PROVE p \in pending'
    BY <2>2 DEF Deliver, Write
  <2>3. CASE \/ Loop(w) \/ Reply206(w) \/ Reply200(w) \/ Reply416(w) \/ ReplyError(w)
             \/ StreamCancelled(w) \/ StreamEnds(w) \/ Flush(w) \/ BackoffOver(w)
    BY <2>3 DEF Loop, Reply206, Reply200, Reply416, ReplyError, StreamCancelled, StreamEnds, Flush,
                BackoffOver, NoIO
  <2> QED
    BY <1>3, <2>1, <2>2, <2>3 DEF WorkerStep
<1>4. CASE SaverStep
  BY <1>4 DEF SaverStep, ioVars
<1>5. ASSUME NEW q \in pending, Land(q) PROVE p \in pending' \/ cache'[p.block] = p.content
  BY <1>5, <1>t DEF Land
<1>6. ASSUME NEW q \in pending, LandFails(q) PROVE p \in pending'
  <2>1. PICK lost \in SUBSET pending : pending' = pending \ lost /\ Doubts(BlocksOf(lost))
    <3>1. {q} \in SUBSET pending /\ PendingOf(q.owner) \in SUBSET pending
      BY DEF PendingOf
    <3> QED
      BY <1>6, <3>1 DEF LandFails
  <2> QED
    BY <2>1, <1>d
<1>7. CASE Kill
  <2>1. pending \in SUBSET pending /\ Doubts(BlocksOf(pending))
    BY <1>7 DEF Kill
  <2> QED
    BY <2>1, <1>d
<1>8. CASE Cancel \/ ServerPublishes \/ UNCHANGED vars
  BY <1>8 DEF Cancel, ServerPublishes, vars, taskVars, ioVars
<1> QED
  BY <1>1, <1>2, <1>3, <1>4, <1>5, <1>6, <1>7, <1>8 DEF Next, EnvironmentStep

LEMMA ComingStep ==
  ASSUME SafeInv, Conditions, [Next]_vars, ~PowerLoss, ~VerifyFails,
         NEW u \in Version, u = Now \/ u = info, NEW b \in 0 .. SizeOf[u] - 1, Coming(b, u)
  PROVE  Coming(b, u)'
<1> SUFFICES ASSUME b \notin doubtful' PROVE Coming(b, u)'
  BY DEF Coming
<1>1. TypeInv /\ b \notin doubtful
  BY DoubtsTyped DEF SafeInv
<1>2. CASE cache[b] = u
  BY <1>2, KeptStep DEF Coming
<1>3. ASSUME NEW p \in pending, p.block = b, p.content = u PROVE Coming(b, u)'
  <2>1. p \in pending' \/ cache'[p.block] = p.content
    BY <1>1, <1>3, PendStep
  <2> QED
    BY <1>3, <2>1 DEF Coming, OnItsWay
<1> QED
  BY <1>1, <1>2, <1>3 DEF Coming, OnItsWay

LEMMA CacheStep ==
  ASSUME SafeInv, Conditions, [Next]_vars, "powerloss" \in Faults
  PROVE  CacheInv'
<1>t. /\ cache \in [Block -> Content] /\ platter \in [Block -> SUBSET Content]
      /\ \A b \in Block : cache[b] \in platter[b]
  BY ValueTypes DEF SafeInv, PowerInv, CacheInv
<1>u. UNCHANGED <<cache, platter>> => CacheInv'
  BY <1>t DEF CacheInv
<1>s. cache' = cache /\ platter' = [b \in Block |-> {cache[b]}] => CacheInv'
  BY DEF CacheInv
<1>1. ASSUME NEW n \in ThreadChoices, Call(n) PROVE CacheInv'
  BY <1>1, <1>u DEF Call, diskVars
<1>2. CASE CallStep
  <2>1. CASE StartWorkers
    <3> DEFINE resized == [b \in Block |-> IF b < SizeOf[info] THEN cache[b] ELSE 0]
    <3>1. cache' = resized /\ platter' = [b \in Block |-> {resized[b]}]
      BY <2>1 DEF StartWorkers, SetLength, Durably, Conditions
    <3> QED
      BY <3>1 DEF CacheInv
  <2>2. CASE FinalSync
    BY <2>2, <1>s DEF FinalSync, SyncedAtEnd, Durably, Conditions
  <2>3. CASE DeleteState
    BY <2>3, <1>u DEF DeleteState
  <2>4. CASE VerifyFails
    <3>1. \/ UNCHANGED <<cache, platter>>
          \/ /\ cache' = [b \in Block |-> 0]
             /\ platter' = [b \in Block |-> platter[b] \cup {0}]
      BY <2>4 DEF VerifyFails, Durably
    <3> QED
      BY <3>1, <1>u DEF CacheInv
  <2>5. CASE Probe \/ ProbeCancelled \/ StartFails \/ Join \/ ReturnCancelled \/ ReturnError
             \/ ReturnChanged \/ ReturnMismatch \/ Verify
    BY <2>5, <1>u DEF Probe, ProbeCancelled, StartFails, Join, ReturnCancelled, ReturnError,
                      ReturnChanged, ReturnMismatch, Verify, diskVars
  <2> QED
    BY <1>2, <2>1, <2>2, <2>3, <2>4, <2>5 DEF CallStep
<1>3. ASSUME NEW w \in Workers, WorkerStep(w) PROVE CacheInv'
  BY <1>3, <1>u DEF WorkerStep, Loop, Reply206, Reply200, Reply416, ReplyError, Deliver, StreamCancelled,
     StreamBreaks, StreamEnds, Flush, BackoffOver, NoIO
<1>4. CASE SaverStep
  <2>1. CASE SyncData
    BY <1>4, <2>1, <1>s DEF SaverStep, SyncData, Durably, Conditions
  <2>2. CASE ~SyncData
    BY <1>4, <2>2, <1>u DEF SaverStep, ReadPosition, Persist
  <2> QED
    BY <2>1, <2>2
<1>5. ASSUME NEW p \in pending, Land(p) PROVE CacheInv'
  <2>1. /\ cache' = [cache EXCEPT ![p.block] = p.content]
        /\ platter' = [platter EXCEPT ![p.block] = @ \cup {p.content}]
    BY <1>5 DEF Land, Durably
  <2> QED
    BY <1>t, <2>1 DEF CacheInv
<1>6. ASSUME NEW p \in pending, LandFails(p) PROVE CacheInv'
  BY <1>6, <1>u DEF LandFails
<1>7. CASE PowerLoss
  <2>1. PICK kept \in [Block -> Content] :
          cache' = kept /\ platter' = [b \in Block |-> {kept[b]}]
    BY <1>7 DEF PowerLoss
  <2> QED
    BY <2>1 DEF CacheInv
<1>8. CASE Cancel \/ Kill \/ ServerPublishes
  BY <1>8, <1>u DEF Cancel, Kill, ServerPublishes, diskVars
<1>9. CASE UNCHANGED vars
  BY <1>9, <1>u DEF vars, diskVars
<1> QED
  BY <1>1, <1>2, <1>3, <1>4, <1>5, <1>6, <1>7, <1>8, <1>9 DEF Next, EnvironmentStep

\* A state file stays safe while the data file is there.
LEMMA SafeStateKept ==
  ASSUME SafeInv, Conditions, [Next]_vars, ~PowerLoss, ~VerifyFails, NEW s, SafeState(s)
  PROVE  SafeState(s)'
<1>1. CASE s = None \/ s \in Leftovers
  BY <1>1 DEF SafeState
<1>2. CASE \E u \in Version : WrittenFor(s, u) /\ u <= Now /\ (u = Now => Arriving(s.workers, u))
  <2>1. PICK u \in Version : WrittenFor(s, u) /\ u <= Now /\ (u = Now => Arriving(s.workers, u))
    BY <1>2
  <2>2. Now \in Nat /\ Now' \in Nat /\ u \in Nat /\ SizeOf[u] \in Nat
    BY ValueTypes, TypeStep DEF SafeInv, Now, TypeInv, TypeOK, DiskTypeOK, CallTypeOK, Version
  <2>3. Now <= Now'
    BY NowStep
  <2>4. u <= Now'
    BY <2>1, <2>2, <2>3
  <2>5. ASSUME u = Now' PROVE Arriving(s.workers, u)'
    <3>1. u = Now /\ Arriving(s.workers, u)
      BY <2>1, <2>2, <2>3, <2>5
    <3>2. ASSUME NEW w \in DOMAIN s.workers,
                 NEW b \in s.workers[w].start .. s.workers[w].current - 1
          PROVE  Coming(b, u)'
      <4>1. b \in 0 .. SizeOf[u] - 1
        BY <2>1, <2>2, <3>2, ClaimsInside DEF WrittenFor
      <4>2. Coming(b, u)
        BY <3>1, <3>2 DEF Arriving
      <4> QED
        BY <3>1, <4>1, <4>2, ComingStep
    <3> QED
      BY <3>2 DEF Arriving
  <2> QED
    BY <2>1, <2>4, <2>5 DEF SafeState, WrittenFor
<1> QED
  BY <1>1, <1>2 DEF SafeState

\* ... and durable, also when the power is lost.
LEMMA DurableStateKept ==
  ASSUME SafeInv, Conditions, [Next]_vars, "powerloss" \in Faults, ~VerifyFails, NEW s, DurableState(s)
  PROVE  DurableState(s)'
<1>1. CASE s = None \/ s \in Leftovers
  BY <1>1 DEF DurableState
<1>2. CASE \E u \in Version : WrittenFor(s, u) /\ u <= Now /\ (u = Now => OnPlatter(s.workers, u))
  <2>1. PICK u \in Version : WrittenFor(s, u) /\ u <= Now /\ (u = Now => OnPlatter(s.workers, u))
    BY <1>2
  <2>2. Now \in Nat /\ Now' \in Nat /\ u \in Nat /\ SizeOf[u] \in Nat /\ MaxChunk \in Nat
    BY ValueTypes, TypeStep DEF SafeInv, Now, TypeInv, TypeOK, DiskTypeOK, CallTypeOK, Version
  <2>3. Now <= Now'
    BY NowStep
  <2>4. u <= Now'
    BY <2>1, <2>2, <2>3
  <2>5. ASSUME u = Now' PROVE OnPlatter(s.workers, u)'
    <3>1. u = Now /\ OnPlatter(s.workers, u)
      BY <2>1, <2>2, <2>3, <2>5
    <3>2. ASSUME NEW w \in DOMAIN s.workers,
                 NEW b \in s.workers[w].start .. s.workers[w].current - 1 - MaxChunk
          PROVE  b \in doubtful' \/ platter'[b] = {u}
      <4>1. b \in s.workers[w].start .. s.workers[w].current - 1
        <5>1. s.workers[w].start \in Nat /\ s.workers[w].current \in Nat
          BY <2>1, <3>2 DEF WrittenFor, LaidOut, RangeRecord
        <5> QED
          BY <2>2, <3>2, <5>1
      <4>2. b \in 0 .. SizeOf[u] - 1
        BY <2>1, <2>2, <4>1, ClaimsInside DEF WrittenFor
      <4>3. b \in doubtful \/ platter[b] = {u}
        BY <3>1, <3>2 DEF OnPlatter
      <4>4. b \in doubtful => b \in doubtful'
        BY DoubtsTyped DEF SafeInv
      <4> QED
        BY <3>1, <4>2, <4>3, <4>4, KeptStep
    <3> QED
      BY <3>2 DEF OnPlatter
  <2> QED
    BY <2>1, <2>4, <2>5 DEF DurableState, WrittenFor
<1> QED
  BY <1>1, <1>2 DEF DurableState

\* What a list of ranges claims, its last writes aside.
LEMMA SettledInside ==
  ASSUME NEW s, NEW u \in Version, WrittenFor(s, u), NEW w \in DOMAIN s.workers
  PROVE  /\ s.workers[w].start \in Nat /\ s.workers[w].current \in Nat
         /\ \A b \in s.workers[w].start .. s.workers[w].current - 1 : b \in Block
<1>1. SizeOf[u] \in Nat /\ 0 .. SizeOf[u] - 1 \subseteq Block
  BY ConstantsAssumption DEF Block
<1>2. \A b \in s.workers[w].start .. s.workers[w].current - 1 : b \in 0 .. SizeOf[u] - 1
  BY <1>1, ClaimsInside DEF WrittenFor
<1> QED
  BY <1>1, <1>2 DEF WrittenFor, LaidOut, RangeRecord

\* Of a file that was removed nothing is claimed that is not doubted.
LEMMA OrphanedSafe ==
  ASSUME SafeInv, Conditions, [Next]_vars, VerifyFails, NEW s, Loadable(s),
         s = saved' \/ s \in entries'
  PROVE  /\ SafeState(s) => SafeState(s)'
         /\ DurableState(s) => DurableState(s)'
<1>1. CASE s = None \/ s \in Leftovers
  BY <1>1 DEF SafeState, DurableState
<1>2. ASSUME NEW u \in Version, WrittenFor(s, u), u <= Now, s # None, s \notin Leftovers
      PROVE  SafeState(s)' /\ DurableState(s)'
  <2>1. Now \in Nat /\ Now' \in Nat /\ u \in Nat /\ MaxChunk \in Nat
    BY ValueTypes, TypeStep DEF SafeInv, Now, TypeInv, TypeOK, DiskTypeOK, CallTypeOK, Version
  <2>2. u <= Now'
    BY <1>2, <2>1, NowStep
  <2>3. ASSUME NEW w \in DOMAIN s.workers, NEW b \in s.workers[w].start .. s.workers[w].current - 1
        PROVE  b \in doubtful'
    <3>1. b \in Claimed(s.workers)
      BY <2>3 DEF Claimed
    <3>2. b \in Block
      BY <1>2, <2>3, SettledInside
    <3>3. Validate(s) /\ s # None
      BY <1>2 DEF Loadable
    <3>4. b \in Orphaned
      BY <3>1, <3>2, <3>3 DEF Orphaned
    <3> QED
      BY <3>4 DEF VerifyFails, Doubts
  <2>4. Arriving(s.workers, u)'
    BY <2>3 DEF Arriving, Coming
  <2>5. OnPlatter(s.workers, u)'
    <3>1. ASSUME NEW w \in DOMAIN s.workers,
                 NEW b \in s.workers[w].start .. s.workers[w].current - 1 - MaxChunk
          PROVE  b \in s.workers[w].start .. s.workers[w].current - 1
      BY <1>2, <2>1, <3>1, SettledInside
    <3> QED
      BY <2>3, <3>1 DEF OnPlatter
  <2>6. WrittenFor(s, u)'
    BY <1>2 DEF WrittenFor
  <2> QED
    BY <2>2, <2>4, <2>5, <2>6 DEF SafeState, DurableState
<1> QED
  BY <1>1, <1>2 DEF SafeState, DurableState

\* What a power loss brings back was durable: all it claims of what it did not
\* leave in doubt is there.
LEMMA LossSafe ==
  ASSUME SafeInv, Conditions, [Next]_vars, PowerLoss
  PROVE  SafeState(saved)' /\ \A s \in entries' : DurableState(s)'
<1>0. "powerloss" \in Faults /\ \A s \in entries : DurableState(s) /\ Loadable(s)
  BY DEF SafeInv, PowerInv, PowerLoss, LayoutInv
<1>1. PICK kept \in [Block -> Content], entry \in entries :
        /\ \A b \in Block : kept[b] \in platter[b]
        /\ cache' = kept
        /\ saved' = entry
        /\ entries' = {entry}
        /\ Doubts(BlocksOf(pending) \cup Unsettled(entry))
  BY DEF PowerLoss
<1>2. ~VerifyFails
  BY DEF PowerLoss, VerifyFails, Return
<1>3. DurableState(entry)'
  BY <1>0, <1>2, DurableStateKept
<1>4. SafeState(entry)'
  <2>1. CASE entry = None \/ entry \in Leftovers
    BY <2>1 DEF SafeState
  <2>2. ASSUME NEW u \in Version, WrittenFor(entry, u), u <= Now, u = Now => OnPlatter(entry.workers, u),
               entry # None, entry \notin Leftovers
        PROVE  SafeState(entry)'
    <3>1. Now \in Nat /\ Now' \in Nat /\ u \in Nat /\ MaxChunk \in Nat /\ SizeOf[u] \in Nat
      BY ValueTypes, TypeStep DEF SafeInv, Now, TypeInv, TypeOK, DiskTypeOK, CallTypeOK, Version
    <3>2. u <= Now' /\ (u = Now' => u = Now)
      BY <2>2, <3>1, NowStep
    <3>3. ASSUME u = Now', NEW w \in DOMAIN entry.workers,
                 NEW b \in entry.workers[w].start .. entry.workers[w].current - 1
          PROVE  Coming(b, u)'
      <4> SUFFICES ASSUME b \notin doubtful' PROVE cache'[b] = u
        BY DEF Coming
      <4>1. b \in Block /\ b \in Claimed(entry.workers)
        BY <2>2, <3>3, SettledInside DEF Claimed
      <4>2. b \in SettledClaims(entry.workers)
        <5>1. Unsettled(entry) = Block \cap (Claimed(entry.workers) \ SettledClaims(entry.workers))
          BY <1>0, <2>2 DEF Unsettled, Loadable
        <5>2. b \notin Unsettled(entry)
          BY <1>1 DEF Doubts
        <5> QED
          BY <4>1, <5>1, <5>2
      <4>3. PICK v \in DOMAIN entry.workers :
              b \in entry.workers[v].start .. entry.workers[v].current - 1 - MaxChunk
        BY <4>2 DEF SettledClaims
      <4>4. b \notin doubtful
        BY DoubtsTyped DEF SafeInv
      <4>5. platter[b] = {u}
        BY <2>2, <3>2, <3>3, <4>3, <4>4 DEF OnPlatter
      <4> QED
        BY <1>1, <4>1, <4>5
    <3>4. WrittenFor(entry, u)'
      BY <2>2 DEF WrittenFor
    <3> QED
      BY <3>2, <3>3, <3>4 DEF SafeState, Arriving
  <2> QED
    BY <1>0, <2>1, <2>2 DEF DurableState
<1> QED
  BY <1>1, <1>3, <1>4 DEF SafeState

\* What a checkpoint writes is there, and was synced if the power may fail.
LEMMA CheckpointSafe ==
  ASSUME SafeInv, Conditions, ReadyToPersist
  PROVE  SafeState(Checkpoint) /\ ("powerloss" \in Faults => DurableState(Checkpoint))
<1>0. TypeInv /\ LayoutInv /\ FetchedInv /\ PendInv /\ PowerInv
  BY DEF SafeInv
<1>1. Workers # {} /\ Now = info
  BY <1>0, WorkersNow DEF TypeInv, ReadyToPersist
<1>t. /\ info \in Version /\ info \in Nat
      /\ \A w \in Workers : /\ starts[w] \in Nat /\ snap[w] \in Nat
                            /\ currents[w] \in Nat /\ snap[w] <= currents[w]
  BY <1>0, ValueTypes DEF LayoutInv, RangesFollow
<1>2. WrittenFor(Checkpoint, info)
  <2>1. LaidOut(Checkpoint.workers, SizeOf[info])
    BY <1>0, <1>1, RangesCover
  <2> QED
    BY <2>1 DEF WrittenFor, Checkpoint, NewState
<1>3. /\ DOMAIN Checkpoint.workers = Workers
      /\ \A w \in Workers : /\ Checkpoint.workers[w].start = starts[w]
                            /\ Checkpoint.workers[w].current = snap[w]
  BY DEF Checkpoint, NewState
<1>4. ASSUME NEW w \in Workers, NEW b \in starts[w] .. snap[w] - 1 PROVE Coming(b, info)
  <2>1. b \in starts[w] .. currents[w] - 1
    BY <1>t, <1>4
  <2>2. b \in doubtful \/ Underway(w, b)
    BY <1>0, <2>1 DEF FetchedInv
  <2>3. ASSUME NEW p \in PendingOf(w), p.block = b, b \notin doubtful PROVE OnItsWay(b, info)
    <3>1. p \in pending /\ p.content = info
      BY <2>3, LiveWrites DEF PendingOf
    <3> QED
      BY <2>3, <3>1 DEF OnItsWay
  <2> QED
    BY <2>2, <2>3 DEF Coming, Underway
<1>5. "powerloss" \in Faults =>
        \A w \in Workers : \A b \in starts[w] .. snap[w] - 1 - MaxChunk :
          b \in doubtful \/ platter[b] = {info}
  <2>1. "powerloss" \in Faults => spc = "synced"
    BY DEF ReadyToPersist, Conditions
  <2> QED
    BY <2>1, <1>0 DEF PowerInv, SyncedInv
<1>7. PICK c : c = Checkpoint
  OBVIOUS
<1>8. SafeState(c)
  BY <1>1, <1>2, <1>3, <1>4, <1>7, <1>t DEF SafeState, Arriving
<1>9. "powerloss" \in Faults => DurableState(c)
  BY <1>1, <1>2, <1>3, <1>5, <1>7, <1>t DEF DurableState, OnPlatter
<1> QED
  BY <1>7, <1>8, <1>9

\* So the state file, and what may come back of it, stay safe.
LEMMA StatesStep ==
  ASSUME SafeInv, Conditions, [Next]_vars
  PROVE  SafeState(saved)' /\ ("powerloss" \in Faults => \A s \in entries' : DurableState(s)')
<1>0. /\ SafeState(saved) /\ Loadable(saved) /\ \A s \in entries : Loadable(s)
      /\ "powerloss" \in Faults => \A s \in entries : DurableState(s)
  BY DEF SafeInv, PowerInv, LayoutInv
<1>n. SafeState(None) /\ DurableState(None) /\ Loadable(None)
  BY DEF SafeState, DurableState, Loadable
\* A file that is safe now is safe then.
<1>s. ASSUME ~PowerLoss, NEW s, SafeState(s), Loadable(s), VerifyFails => s = saved' \/ s \in entries'
      PROVE  SafeState(s)'
  BY <1>s, SafeStateKept, OrphanedSafe
<1>d. ASSUME "powerloss" \in Faults, NEW s, DurableState(s), Loadable(s),
             VerifyFails => s = saved' \/ s \in entries'
      PROVE  DurableState(s)'
  BY <1>d, DurableStateKept, OrphanedSafe
<1>1. CASE PowerLoss
  BY <1>1, LossSafe
<1>2. CASE ~PowerLoss /\ saved' \in {saved, None} /\ entries' \subseteq entries \cup {None}
  <2>1. PICK t : t = saved'
    OBVIOUS
  <2>2. SafeState(t) /\ Loadable(t)
    BY <1>0, <1>2, <1>n, <2>1
  <2>3. SafeState(t)'
    BY <1>2, <1>s, <2>1, <2>2
  <2>4. SafeState(saved)'
    BY <2>1, <2>3 DEF SafeState
  <2>5. ASSUME "powerloss" \in Faults, NEW s \in entries' PROVE DurableState(s)'
    <3>1. DurableState(s) /\ Loadable(s)
      BY <1>0, <1>2, <1>n, <2>5
    <3> QED
      BY <1>d, <2>5, <3>1
  <2> QED
    BY <2>4, <2>5
<1>3. CASE ~PowerLoss /\ Persist /\ SaverStep
  <2>1. PICK c : c = Checkpoint
    OBVIOUS
  <2>2. SafeState(c) /\ ("powerloss" \in Faults => DurableState(c))
    BY <1>3, <2>1, CheckpointSafe DEF Persist
  <2>3. ~VerifyFails
    BY <1>3 DEF SaverStep, VerifyFails, Return, callVars, Persist
  <2>4. \/ saved' = c /\ entries' \subseteq entries \cup {c}
        \/ UNCHANGED <<saved, entries>>
    BY <1>3, <2>1 DEF Persist, Durably
  <2>5. SafeState(c)' /\ (saved' = saved => SafeState(saved)')
    <3>1. PICK t : t = saved
      OBVIOUS
    <3>2. SafeState(c)' /\ SafeState(t)'
      BY <1>0, <1>3, <2>2, <2>3, <3>1, SafeStateKept
    <3> QED
      BY <3>1, <3>2 DEF SafeState
  <2>6. "powerloss" \in Faults => DurableState(c)' /\ \A s \in entries : DurableState(s)'
    BY <1>0, <2>2, <2>3, DurableStateKept
  <2>7. SafeState(saved)'
    BY <2>4, <2>5 DEF SafeState
  <2> QED
    BY <2>4, <2>6, <2>7
<1> QED
  BY <1>1, <1>2, <1>3, SavedStep

\* What the workers do, each in its own range.
LEMMA WorkersStep ==
  ASSUME SafeInv, Conditions, [Next]_vars, Workers' = Workers, Workers # {}, ~StartWorkers,
         NEW w \in Workers
  PROVE  /\ \A b \in currents[w] .. currents'[w] - 1 :
              [owner |-> w, block |-> b, content |-> info] \in pending'
         /\ wpc'[w] = "stream" => body'[w] = info
         /\ wpc'[w] = "ok" => currents'[w] = ends[w]
         /\ currents'[w] # currents[w] =>
              \E n \in 1 .. MaxChunk : Deliver(w, n) /\ currents'[w] = WriteEnd(w, n)
<1> DEFINE Goal ==
      /\ \A b \in currents[w] .. currents'[w] - 1 :
           [owner |-> w, block |-> b, content |-> info] \in pending'
      /\ wpc'[w] = "stream" => body'[w] = info
      /\ wpc'[w] = "ok" => currents'[w] = ends[w]
      /\ currents'[w] # currents[w] =>
           \E n \in 1 .. MaxChunk : Deliver(w, n) /\ currents'[w] = WriteEnd(w, n)
<1>0. /\ TypeInv
      /\ wpc[w] = "stream" => body[w] = info
      /\ wpc[w] = "ok" => currents[w] = ends[w]
  BY DEF SafeInv, FetchedInv
<1>t. /\ currents \in [Workers -> Nat] /\ currents[w] \in Nat /\ ends[w] \in Nat
      /\ currents[w] <= ends[w] /\ ends[w] <= SizeOf[info] /\ info \in Version
      /\ SizeOf[info] \in Nat /\ TypeInv
      /\ DOMAIN wpc = Workers /\ DOMAIN body = Workers
  BY RangesCover, ValueTypes
     DEF SafeInv, LayoutInv, RangesFollow, TypeInv, TypeOK, WorkerTypeOK
\* Where the worker stands still.
<1>k. ASSUME currents'[w] = currents[w], wpc'[w] = "stream" => body'[w] = info,
             wpc'[w] = "ok" => currents[w] = ends[w]
      PROVE  Goal
  BY <1>k, <1>t
<1>u. ASSUME UNCHANGED <<currents, wpc, body>> PROVE Goal
  BY <1>u, <1>k, <1>0
<1>r. ASSUME NEW r, Return(r) PROVE FALSE
  BY <1>r DEF Return, Workers, NoWorkers
<1>1. ASSUME NEW n \in ThreadChoices, Call(n) PROVE Goal
  BY <1>1, <1>u DEF Call, taskVars, rangeVars, workerVars
<1>2. CASE CallStep
  <2>1. CASE ProbeCancelled \/ StartFails \/ ReturnCancelled \/ ReturnError \/ ReturnMismatch
             \/ Verify \/ VerifyFails
    BY <2>1, <1>r DEF ProbeCancelled, StartFails, ReturnCancelled, ReturnError, ReturnMismatch,
                      Verify, VerifyFails
  <2>2. CASE Probe \/ Join \/ ReturnChanged \/ FinalSync
    BY <2>2, <1>u DEF Probe, Join, ReturnChanged, FinalSync, taskVars, rangeVars, workerVars
  <2>3. CASE DeleteState
    BY <2>3, <1>r, <1>u DEF DeleteState, rangeVars, workerVars
  <2> QED
    BY <1>2, <2>1, <2>2, <2>3 DEF CallStep
<1>3. ASSUME NEW v \in Workers \ {w}, WorkerStep(v) PROVE Goal
  <2>1. wpc'[w] = wpc[w]
    BY <1>3, <1>t DEF WorkerStep, Loop, Reply206, Reply200, Reply416, ReplyError, Deliver, StreamCancelled,
       StreamBreaks, StreamEnds, Flush, BackoffOver, Retry, Goto
  <2>2. body'[w] = body[w]
    BY <1>3, <1>t DEF WorkerStep, Loop, Reply206, Reply200, Reply416, ReplyError, Deliver, StreamCancelled,
       StreamBreaks, StreamEnds, Flush, BackoffOver
  <2>3. currents'[w] = currents[w]
    BY <1>3, <1>t DEF WorkerStep, Loop, Reply206, Reply200, Reply416, ReplyError, Deliver, StreamCancelled,
       StreamBreaks, StreamEnds, Flush, BackoffOver, NoIO
  <2> QED
    BY <2>1, <2>2, <2>3, <1>0, <1>k
<1>4. CASE WorkerStep(w)
  <2>m. ASSUME NEW place, Goto(w, place), place # "stream", currents' = currents,
               place = "ok" => currents[w] = ends[w]
        PROVE  Goal
    <3>1. wpc'[w] = place
      BY <2>m, <1>t DEF Goto
    <3> QED
      BY <2>m, <3>1, <1>k
  <2>1. CASE Loop(w)
    BY <2>1, <2>m, <1>t DEF Loop, NoIO
  <2>2. CASE Reply206(w)
    <3>1. srv = info
      BY <1>0, <2>2, HonouredIsProbed DEF Reply206, Conditions
    <3>2. wpc'[w] = "stream" /\ body'[w] = info /\ currents' = currents
      BY <2>2, <1>t, <3>1 DEF Reply206, Goto, NoIO
    <3> QED
      BY <3>2, <1>k
  <2>3. CASE Reply200(w)
    <3>1. \E place \in {"norange", "changed"} : Goto(w, place)
      BY <2>3 DEF Reply200
    <3> QED
      BY <2>3, <3>1, <2>m DEF Reply200, NoIO
  \* Only a range past the end of the version probed is refused: it is done.
  <2>4. CASE Reply416(w)
    <3>1. srv = info /\ currents[w] >= SizeOf[srv]
      BY <1>0, <2>4, HonouredIsProbed DEF Reply416, Conditions
    <3>2. currents' = currents
      BY <2>4, <3>1, <1>t DEF Reply416, PositionAfter416
    <3> QED
      BY <2>4, <3>2, <2>m DEF Reply416
  <2>5. CASE ReplyError(w) \/ StreamBreaks(w)
    <3>1. \E place \in {"backoff", "exhausted"} : Goto(w, place)
      BY <2>5 DEF ReplyError, StreamBreaks, Retry
    <3> QED
      BY <2>5, <3>1, <2>m DEF ReplyError, StreamBreaks, NoIO
  <2>6. ASSUME NEW n \in 1 .. MaxChunk, Deliver(w, n) PROVE Goal
    <3> DEFINE to == WriteEnd(w, n)
    <3>1. wpc[w] = "stream" /\ body' = body /\ currents'[w] = to
      BY <2>6, <1>t DEF Deliver
    <3>2. wpc'[w] \in {"flush", "stream"}
      BY <2>6, <1>t DEF Deliver, Goto
    <3>3. pending' = pending \cup [owner : {w}, block : currents[w] .. to - 1, content : {info}]
      BY <2>6, <3>1, <1>0 DEF Deliver, Write
    <3> HIDE DEF to
    <3>4. \A b \in currents[w] .. to - 1 : [owner |-> w, block |-> b, content |-> info] \in pending'
      BY <3>3
    <3> QED
      BY <2>6, <3>1, <3>2, <3>4, <1>0 DEF to
  <2>7. CASE StreamCancelled(w)
    BY <2>7, <2>m DEF StreamCancelled
  <2>8. CASE StreamEnds(w)
    BY <2>8, <2>m DEF StreamEnds, NoIO
  <2>9. CASE Flush(w)
    <3>1. \E place \in {"backoff", "exhausted", "loop"} : Goto(w, place)
      BY <2>9 DEF Flush, Retry
    <3> QED
      BY <2>9, <3>1, <2>m DEF Flush
  <2>10. CASE BackoffOver(w)
    <3>1. \E place \in {"loop", "cancelled"} : Goto(w, place)
      BY <2>10 DEF BackoffOver
    <3> QED
      BY <2>10, <3>1, <2>m DEF BackoffOver, NoIO
  <2> QED
    BY <1>4, <2>1, <2>2, <2>3, <2>4, <2>5, <2>6, <2>7, <2>8, <2>9, <2>10 DEF WorkerStep
<1>5. CASE SaverStep
  BY <1>5, <1>u DEF SaverStep, rangeVars, workerVars
<1>6. CASE EnvironmentStep
  <2>1. CASE Kill \/ PowerLoss
    BY <2>1, <1>r DEF Kill, PowerLoss
  <2>2. CASE (\E p \in pending : Land(p) \/ LandFails(p)) \/ Cancel \/ ServerPublishes
    BY <2>2, <1>u DEF Land, LandFails, Cancel, ServerPublishes, taskVars, rangeVars, workerVars
  <2> QED
    BY <1>6, <2>1, <2>2 DEF EnvironmentStep
<1>7. CASE UNCHANGED vars
  BY <1>7, <1>u DEF vars, taskVars, rangeVars, workerVars
<1> QED
  BY <1>1, <1>2, <1>3, <1>4, <1>5, <1>6, <1>7 DEF Next

\* A step that keeps the workers is not one that ends the call, nor the start of it.
LEMMA StepsKeep ==
  ASSUME SafeInv, [Next]_vars
  PROVE  /\ Workers' = {} \/ StartWorkers \/ (Workers' = Workers /\ UNCHANGED <<starts, ends>>)
         /\ Workers' # {} => ~PowerLoss /\ ~VerifyFails
         /\ StartWorkers => pc = "probed" /\ Workers = {} /\ ~PowerLoss /\ ~VerifyFails
         /\ ~StartWorkers /\ Workers # {} /\ Workers' # {} => info' = info
<1>1. TypeInv /\ LayoutInv
  BY DEF SafeInv
<1>2. ASSUME RangesMove PROVE Workers' = Workers /\ UNCHANGED <<starts, ends>> /\ (info' = info \/ Workers = {})
  BY <1>2 DEF RangesMove, Workers
<1>3. ASSUME NEW r, Return(r) PROVE Workers' = {} /\ pc' = "idle"
  BY <1>3 DEF Return, Workers, NoWorkers
<1>4. StartWorkers => pc = "probed" /\ Workers = {} /\ ~PowerLoss /\ ~VerifyFails
  BY <1>1, <1>3 DEF StartWorkers, PowerLoss, VerifyFails, TypeInv, BeforeRun
<1> QED
  BY <1>1, <1>2, <1>3, <1>4, RangesStep DEF PowerLoss, VerifyFails

LEMMA FetchedStep ==
  ASSUME SafeInv, Conditions, [Next]_vars
  PROVE  FetchedInv'
<1>0. TypeInv /\ LayoutInv /\ FetchedInv
  BY DEF SafeInv
<1>1. CASE Workers' = {}
  BY <1>1 DEF FetchedInv
<1>2. CASE StartWorkers
  <2>1. /\ pc = "probed" /\ info' = info /\ Workers' = DOMAIN Plan
        /\ \A w \in DOMAIN Plan :
             /\ starts'[w] = Plan[w].start /\ ends'[w] = Plan[w].end
             /\ currents'[w] = Plan[w].current /\ body'[w] = info
             /\ wpc'[w] = IF Plan[w].start < Plan[w].end THEN "loop" ELSE "ok"
    BY <1>2 DEF StartWorkers, Workers, PositionOf
  <2>2. PICK n \in Nat \ {0} : Plan \in [1 .. n -> RangeRecord]
    BY <1>0, PlanTyped
  <2>3. \A w \in DOMAIN Plan :
          /\ Plan[w].start \in Nat /\ Plan[w].current \in Nat /\ Plan[w].end \in Nat
          /\ Plan[w].start <= Plan[w].current /\ Plan[w].current <= Plan[w].end
    BY <1>0, <2>2, PlanFollows DEF RangeRecord
  <2>4. ASSUME NEW w \in DOMAIN Plan, NEW b \in Plan[w].start .. Plan[w].current - 1
        PROVE  b \in doubtful' \/ cache'[b] = info
    <3>1. CASE Usable(saved)
      <4>1. ResumableAt(saved, info) /\ Plan = saved.workers
        BY <3>1 DEF Usable, ResumableAt, Plan
      <4>2. saved # None /\ saved \notin Leftovers
        BY <4>1, LeftoversAssumption DEF ResumableAt, Validate
      <4>3. PICK u \in Version : WrittenFor(saved, u) /\ u <= Now /\ (u = Now => Arriving(saved.workers, u))
        BY <4>2 DEF SafeInv, SafeState
      <4>4. u = info /\ Now = info
        BY <1>0, <2>1, <4>1, <4>3, ValueTypes, ResumableTellsApart, WorkersNow DEF Conditions
      <4>5. Coming(b, info)
        BY <2>4, <4>1, <4>3, <4>4 DEF Arriving
      <4>6. b \in 0 .. SizeOf[info] - 1 /\ b \in Block
        BY <1>0, <2>4, <4>1, <4>3, <4>4, ValueTypes, ClaimsInside DEF WrittenFor
      <4>7. ASSUME NEW p \in pending, p.block = b PROVE b \in doubtful
        BY <2>1, <4>7, LiveWrites
      <4>8. ASSUME cache[b] = info, b \notin doubtful' PROVE cache'[b] = info
        BY <1>0, <1>2, <4>4, <4>6, <4>8, KeptStep, StepsKeep, ValueTypes
      <4>9. b \in doubtful => b \in doubtful'
        BY <1>0, DoubtsTyped
      <4> QED
        BY <4>5, <4>7, <4>8, <4>9 DEF Coming, OnItsWay
    <3>2. CASE ~Usable(saved)
      <4>1. Plan[w].start = Plan[w].current
        BY <3>2 DEF Plan, SplitWorkers, SplitInto
      <4> QED
        BY <2>3, <2>4, <4>1
    <3> QED
      BY <3>1, <3>2
  <2>5. \A w \in DOMAIN Plan : \A b \in starts'[w] .. currents'[w] - 1 : b \in doubtful' \/ cache'[b] = info'
    BY <2>1, <2>4
  <2>6. \A w \in DOMAIN Plan : /\ wpc'[w] = "ok" => currents'[w] = ends'[w]
                               /\ wpc'[w] # "stream"
    BY <2>1, <2>3
  <2> QED
    BY <2>1, <2>5, <2>6 DEF FetchedInv, Underway
<1>3. CASE Workers' = Workers /\ UNCHANGED <<starts, ends>> /\ Workers # {} /\ ~StartWorkers
  <2>1. ~PowerLoss /\ ~VerifyFails /\ info' = info
    BY <1>3, StepsKeep
  <2>2. ASSUME NEW w \in Workers, NEW b \in starts[w] .. currents'[w] - 1
        PROVE  b \in doubtful' \/ Underway(w, b)'
    <3> SUFFICES ASSUME b \notin doubtful' PROVE Underway(w, b)'
      OBVIOUS
    <3>1. CASE b \in currents[w] .. currents'[w] - 1
      <4>1. [owner |-> w, block |-> b, content |-> info] \in pending'
        BY <1>3, <3>1, WorkersStep
      <4>2. [owner |-> w, block |-> b, content |-> info] \in PendingOf(w)'
        BY <4>1 DEF PendingOf
      <4> QED
        BY <4>2 DEF Underway
    <3>2. CASE b \in starts[w] .. currents[w] - 1
      <4>1. b \in 0 .. SizeOf[info] - 1 /\ b \in Block /\ b \notin doubtful /\ info \in Version
        BY <1>0, <3>2, CountedInside, DoubtsTyped, ValueTypes
      <4>2. Underway(w, b)
        BY <1>0, <3>2, <4>1 DEF FetchedInv
      <4>3. CASE cache[b] = info
        BY <2>1, <4>1, <4>3, KeptStep DEF Underway
      <4>4. ASSUME NEW p \in PendingOf(w), p.block = b PROVE Underway(w, b)'
        <5>1. p \in pending /\ p.owner = w
          BY DEF PendingOf
        <5>2. p.content = info
          BY <4>1, <4>4, <5>1, LiveWrites
        <5>3. p \in pending' \/ cache'[b] = info
          BY <1>0, <2>1, <4>4, <5>1, <5>2, PendStep
        <5>4. p \in pending' => p \in PendingOf(w)'
          BY <5>1 DEF PendingOf
        <5> QED
          BY <2>1, <4>4, <5>3, <5>4 DEF Underway
      <4> QED
        BY <4>2, <4>3, <4>4 DEF Underway
    <3>3. starts[w] \in Nat /\ currents[w] \in Nat /\ currents'[w] \in Nat
      <4>1. TypeInv'
        BY <1>0, TypeStep
      <4> QED
        BY <1>0, <1>3, <4>1, ValueTypes DEF TypeInv, TypeOK, RangeTypeOK
    <3> QED
      BY <3>1, <3>2, <3>3
  <2>3. \A w \in Workers : /\ wpc'[w] = "stream" => body'[w] = info
                           /\ wpc'[w] = "ok" => currents'[w] = ends[w]
    BY <1>3, WorkersStep
  <2> QED
    BY <1>3, <2>1, <2>2, <2>3 DEF FetchedInv
<1> QED
  BY <1>1, <1>2, <1>3, StepsKeep

\* Nobody but a worker whose stream breaks gives up a write, and it is doubted then.
LEMMA DroppedWrites ==
  ASSUME TypeInv, [Next]_vars, NEW p \in pending', p \notin pending, p.owner = Dropped
  PROVE  p.block \in doubtful' /\ \E w \in Workers : StreamBreaks(w) /\ PendingOf(w) # {}
<1>1. ASSUME NEW w \in Workers, NEW n \in 1 .. MaxChunk, Deliver(w, n) PROVE FALSE
  <2>1. pending' = pending \cup [owner : {w}, block : currents[w] .. WriteEnd(w, n) - 1, content : {body[w]}]
    BY <1>1 DEF Deliver, Write
  <2>2. w # Dropped
    BY RangeTypes DEF Dropped
  <2> QED
    BY <2>1, <2>2
<1>2. ASSUME NEW w \in Workers,
             \/ Loop(w) \/ Reply206(w) \/ Reply200(w) \/ Reply416(w) \/ ReplyError(w)
             \/ StreamCancelled(w) \/ StreamEnds(w) \/ Flush(w) \/ BackoffOver(w)
      PROVE  pending' = pending
  BY <1>2 DEF Loop, Reply206, Reply200, Reply416, ReplyError, StreamCancelled, StreamEnds, Flush,
              BackoffOver, NoIO
<1>3. CallStep => pending' \subseteq pending
  BY DEF CallStep, Probe, ProbeCancelled, StartFails, StartWorkers, Join, ReturnCancelled, ReturnError,
         ReturnChanged, ReturnMismatch, FinalSync, DeleteState, Verify, VerifyFails, taskVars, ioVars
<1>4. EnvironmentStep => pending' \subseteq pending
  BY DEF EnvironmentStep, Land, LandFails, Cancel, Kill, PowerLoss, ServerPublishes, taskVars, ioVars
<1>5. (\E n \in ThreadChoices : Call(n)) \/ SaverStep \/ UNCHANGED vars => UNCHANGED pending
  BY DEF Call, SaverStep, vars, taskVars, ioVars
<1>6. PICK w \in Workers : StreamBreaks(w)
  BY <1>1, <1>2, <1>3, <1>4, <1>5 DEF Next, WorkerStep
<1>7. PICK q \in pending : p = [q EXCEPT !.owner = IF q.owner = w THEN Dropped ELSE q.owner]
  BY <1>6 DEF StreamBreaks
<1>8. q \in [owner : Workers \cup {Dropped}, block : Block, content : Version]
  BY ValueTypes
<1>9. q.owner = w /\ p.block = q.block
  BY <1>7, <1>8
<1>10. q \in PendingOf(w)
  BY <1>9 DEF PendingOf
<1> QED
  BY <1>6, <1>9, <1>10 DEF StreamBreaks, Doubts, BlocksOf

LEMMA PendInvStep ==
  ASSUME SafeInv, Conditions, [Next]_vars
  PROVE  PendInv'
<1>0. TypeInv /\ LayoutInv /\ PendInv
  BY DEF SafeInv
<1>d. doubtful \subseteq doubtful'
  BY <1>0, DoubtsTyped
<1> SUFFICES ASSUME NEW p \in pending'
             PROVE  \/ p.owner = Dropped /\ p.block \in doubtful'
                    \/ /\ p.owner \in Workers'
                       /\ p.content = info'
                       /\ p.block < currents'[p.owner] /\ currents'[p.owner] <= p.block + MaxChunk
  BY DEF PendInv
<1>t. TypeInv'
  BY <1>0, TypeStep
\* A write of a worker that gives up the file.
<1>2. CASE p \notin pending /\ p.owner = Dropped
  BY <1>0, <1>2, DroppedWrites
\* A new one.
<1>3. CASE p \notin pending /\ p.owner # Dropped
  <2>1. PICK w \in Workers, n \in 1 .. MaxChunk :
           Deliver(w, n) /\ p.owner = w /\ p.block \in currents[w] .. WriteEnd(w, n) - 1
    BY <1>0, <1>3, NewWrites
  <2>2. w \in Workers'
    BY <1>3, <2>1, <1>t DEF TypeInv, TypeOK, WorkerTypeOK
  <2>3. Workers' = Workers /\ info' = info
    BY <2>2, StepsKeep
  <2>t. /\ currents \in [Workers -> Nat] /\ ends[w] \in Nat /\ n \in Nat /\ MaxChunk \in Nat
        /\ n <= MaxChunk
    BY <1>0, ValueTypes
  <2>4. currents'[w] = WriteEnd(w, n) /\ WriteEnd(w, n) \in Nat /\ WriteEnd(w, n) <= currents[w] + n
    BY <2>1, <2>t DEF Deliver, WriteEnd, AtMost
  <2>5. p.content = info
    <3>1. wpc[w] = "stream" /\ pending' = pending \cup [owner : {w}, block : currents[w] .. WriteEnd(w, n) - 1, content : {body[w]}]
      BY <2>1 DEF Deliver, Write
    <3>2. body[w] = info
      BY <3>1 DEF SafeInv, FetchedInv
    <3> QED
      BY <1>3, <3>1, <3>2
  <2> QED
    BY <2>1, <2>3, <2>4, <2>5, <2>t
<1>4. CASE p \in pending /\ p.owner = Dropped
  <2>1. p.owner \notin Workers
    BY <1>0, <1>4, RangeTypes DEF Dropped
  <2> QED
    BY <1>0, <1>4, <1>d, <2>1 DEF PendInv
<1>5. CASE p \in pending /\ p.owner # Dropped
  <2>1. /\ p.owner \in Workers /\ p.content = info
        /\ p.block < currents[p.owner] /\ currents[p.owner] <= p.block + MaxChunk
    BY <1>0, <1>5 DEF PendInv
  <2>2. wpc[p.owner] \in {"stream", "flush"} /\ p.owner \in Workers'
    BY <1>0, <1>5, <1>t DEF TypeInv, TypeOK, WorkerTypeOK
  <2>3. ~StartWorkers
    BY <1>0, <2>1, StepsKeep
  <2>4. Workers' = Workers /\ info' = info
    BY <2>1, <2>2, <2>3, StepsKeep
  \* Its worker waits for it.
  <2>5. currents'[p.owner] = currents[p.owner]
    <3>1. ASSUME NEW n \in 1 .. MaxChunk, Deliver(p.owner, n) PROVE FALSE
      BY <1>5, <3>1 DEF Deliver, CanWrite, PendingOf
    <3> QED
      BY <2>1, <2>3, <2>4, <3>1, WorkersStep
  <2> QED
    BY <2>1, <2>2, <2>4, <2>5
<1> QED
  BY <1>2, <1>3, <1>4, <1>5

\* When every worker is done, the file is complete: between them their ranges
\* leave no byte out, and they flushed what they wrote.
LEMMA AllDoneWhole ==
  ASSUME SafeInv, Workers # {}, pc \in AfterRun, \A w \in Workers : wpc[w] = "ok"
  PROVE  Whole
<1>0. TypeInv /\ LayoutInv
  BY DEF SafeInv
<1> SUFFICES ASSUME NEW b \in 0 .. SizeOf[info] - 1, b \notin doubtful PROVE cache[b] = info
  BY DEF Whole
<1>1. PICK w \in Workers : starts[w] <= b /\ b < ends[w]
  BY <1>0, RangesCover
<1>2. currents[w] = ends[w] /\ starts[w] \in Nat /\ ends[w] \in Nat
  BY <1>0, RangeTypes DEF SafeInv, FetchedInv
<1>3. b \in starts[w] .. currents[w] - 1
  BY <1>1, <1>2
<1>4. Underway(w, b)
  BY <1>3 DEF SafeInv, FetchedInv
<1>5. ASSUME NEW p \in PendingOf(w), p.block = b PROVE FALSE
  <2>1. p \in pending /\ pc # "run"
    BY DEF PendingOf, AfterRun
  <2> QED
    BY <1>5, <2>1, LiveWrites
<1> QED
  BY <1>4, <1>5 DEF Underway

\* How a call goes on, and what says Ok.
LEMMA FlowStep ==
  ASSUME TypeInv, result = "ok" => pc = "idle", [Next]_vars
  PROVE  /\ pc' \notin BeforeRun => StartWorkers \/ (pc \notin BeforeRun /\ Workers' = Workers)
         /\ Completing' => FinalSync \/ (Completing /\ info' = info /\ wpc' = wpc)
         /\ result' = "ok" => Verify \/ (result = "ok" /\ pc' = pc /\ info' = info)
<1> DEFINE Goal ==
      /\ pc' \notin BeforeRun => StartWorkers \/ (pc \notin BeforeRun /\ Workers' = Workers)
      /\ Completing' => FinalSync \/ (Completing /\ info' = info /\ wpc' = wpc)
      /\ result' = "ok" => Verify \/ (result = "ok" /\ pc' = pc /\ info' = info)
<1>r. ASSUME NEW r, Return(r), r # "ok" \/ (r = result /\ pc = "idle") PROVE Goal
  BY <1>r DEF Return, BeforeRun, Completing
<1>u. ASSUME UNCHANGED <<pc, info, result, starts>>, wpc' = wpc \/ pc = "run" PROVE Goal
  BY <1>u DEF Workers, Completing
<1>1. ASSUME NEW n \in ThreadChoices, Call(n) PROVE Goal
  BY <1>1 DEF Call, BeforeRun, Completing
<1>2. CASE CallStep
  <2>1. CASE ProbeCancelled \/ StartFails \/ ReturnCancelled \/ ReturnError \/ ReturnMismatch
             \/ VerifyFails
    BY <2>1, <1>r DEF ProbeCancelled, StartFails, ReturnCancelled, ReturnError, ReturnMismatch,
                      VerifyFails
  <2>2. CASE Verify
    BY <2>2 DEF Verify, Return, BeforeRun, Completing
  <2>3. CASE Probe \/ Join \/ ReturnChanged
    <3>1. /\ starts' = starts /\ pc # "idle" /\ pc' \notin {"deleting", "verify"} /\ result' = result
          /\ pc' \notin BeforeRun => pc \notin BeforeRun
      BY <2>3 DEF Probe, Join, ReturnChanged, SaverAwaited, taskVars, rangeVars, BeforeRun
    <3>2. result # "ok"
      BY <3>1
    <3> QED
      BY <3>1, <3>2 DEF Workers, Completing
  <2>4. CASE StartWorkers
    <3>1. pc # "idle" /\ pc' = "run" /\ result' = result
      BY <2>4 DEF StartWorkers
    <3>2. result # "ok"
      BY <3>1
    <3> QED
      BY <2>4, <3>1, <3>2 DEF Completing
  <2>5. CASE FinalSync
    <3>1. pc = "stopping" /\ starts' = starts /\ result' = result
      BY <2>5 DEF FinalSync, AllOk, SaverAwaited, taskVars, rangeVars
    <3>2. result # "ok"
      BY <3>1
    <3> QED
      BY <2>5, <3>1, <3>2 DEF Workers, BeforeRun
  <2>6. CASE DeleteState
    <3>1. CASE Return("failed")
      BY <3>1, <1>r
    <3>2. CASE pc = "deleting" /\ pc' = "verify" /\ UNCHANGED <<info, result, starts, wpc>>
      <4>1. result # "ok"
        BY <3>2
      <4> QED
        BY <3>2, <4>1 DEF Workers, BeforeRun, Completing
    <3> QED
      BY <2>6, <3>1, <3>2 DEF DeleteState, rangeVars, workerVars
  <2> QED
    BY <1>2, <2>1, <2>2, <2>3, <2>4, <2>5, <2>6 DEF CallStep
<1>3. ASSUME NEW w \in Workers, WorkerStep(w) PROVE Goal
  <2>1. wpc[w] \notin Ended
    BY <1>3 DEF WorkerStep, Loop, Reply206, Reply200, Reply416, ReplyError, Deliver,
                StreamCancelled, StreamBreaks, StreamEnds, Flush, BackoffOver, Ended
  <2>2. pc = "run"
    BY <2>1, RunningWorker
  <2> QED
    BY <1>3, <2>2, <1>u DEF WorkerStep, callVars
<1>4. CASE SaverStep
  BY <1>4, <1>u DEF SaverStep, callVars, rangeVars, workerVars
<1>5. CASE Kill
  BY <1>5, <1>r DEF Kill
<1>6. CASE PowerLoss
  BY <1>6, <1>r DEF PowerLoss
<1>7. CASE (\E p \in pending : Land(p) \/ LandFails(p)) \/ Cancel \/ ServerPublishes
  BY <1>7, <1>u DEF Land, LandFails, Cancel, ServerPublishes, callVars, taskVars, rangeVars, workerVars
<1>8. CASE UNCHANGED vars
  BY <1>8, <1>u DEF vars, callVars, taskVars, rangeVars, workerVars
<1> QED
  BY <1>1, <1>2, <1>3, <1>4, <1>5, <1>6, <1>7, <1>8 DEF Next, EnvironmentStep

LEMMA CallInvStep ==
  ASSUME SafeInv, Conditions, [Next]_vars
  PROVE  CallInv'
<1>0. TypeInv /\ CallInv /\ (result = "ok" => pc = "idle")
  BY DEF SafeInv, CallInv
<1>1. info' <= srv'
  BY NowStep
<1>2. pc' \notin BeforeRun => Workers' # {}
  <2>1. CASE StartWorkers
    <3>1. PICK n \in Nat \ {0} : Plan \in [1 .. n -> RangeRecord]
      BY <1>0, PlanTyped
    <3>2. Workers' = DOMAIN Plan /\ 1 \in DOMAIN Plan
      BY <2>1, <3>1 DEF StartWorkers, Workers
    <3> QED
      BY <3>2
  <2>2. CASE pc \notin BeforeRun /\ Workers' = Workers
    BY <1>0, <2>2 DEF CallInv
  <2> QED
    BY <1>0, <2>1, <2>2, FlowStep
<1>3. Completing' => \A w \in Workers' : wpc'[w] = "ok"
  <2>1. CASE FinalSync
    <3>1. UNCHANGED <<starts, wpc>> /\ \A w \in Workers : wpc[w] = "ok"
      BY <2>1 DEF FinalSync, AllOk, taskVars, rangeVars, workerVars
    <3> QED
      BY <3>1 DEF Workers
  <2>2. CASE Completing' /\ Completing /\ wpc' = wpc
    <3>1. Workers' = Workers
      BY <1>0, <2>2, FlowStep DEF BeforeRun, StartWorkers, Completing
    <3> QED
      BY <1>0, <2>2, <3>1 DEF CallInv
  <2> QED
    BY <1>0, <2>1, <2>2, FlowStep
<1>4. ASSUME result' = "ok" PROVE pc' = "idle" /\ Whole'
  <2>1. CASE Verify
    <3>1. Completing /\ pc \in AfterRun /\ pc \notin BeforeRun
      BY <2>1 DEF Verify, Completing, AfterRun, BeforeRun
    <3>2. Whole
      BY <1>0, <3>1, AllDoneWhole DEF CallInv
    <3>3. UNCHANGED <<cache, doubtful, info>> /\ pc' = "idle"
      BY <2>1 DEF Verify, Return, diskVars
    <3> QED
      BY <3>2, <3>3 DEF Whole
  <2>2. CASE result = "ok" /\ pc' = pc /\ info' = info
    <3>1. pc = "idle" /\ Whole /\ ~VerifyFails
      BY <1>0, <2>2 DEF CallInv, VerifyFails
    <3>2. ASSUME NEW b \in 0 .. SizeOf[info] - 1, b \notin doubtful' PROVE cache'[b] = info
      <4>1. b \notin doubtful /\ info \in Version
        BY <1>0, <3>2, DoubtsTyped, ValueTypes
      <4>2. cache[b] = info
        BY <3>1, <4>1 DEF Whole
      <4>3. CASE PowerLoss
        <5>1. "powerloss" \in Faults
          BY <4>3 DEF PowerLoss
        <5>2. platter[b] = {info}
          BY <2>2, <4>1, <5>1 DEF SafeInv, PowerInv, WholeOnPlatter
        <5> QED
          BY <3>1, <3>2, <4>1, <5>1, <5>2, KeptStep
      <4>4. CASE ~PowerLoss
        BY <3>1, <3>2, <4>1, <4>2, <4>4, KeptStep
      <4> QED
        BY <4>3, <4>4
    <3> QED
      BY <2>2, <3>1, <3>2 DEF Whole
  <2> QED
    BY <1>0, <1>4, <2>1, <2>2, FlowStep
<1> QED
  BY <1>1, <1>2, <1>3, <1>4 DEF CallInv

\* Only a sync makes the saver go on as if there had been one.
LEMMA SaverSynced ==
  ASSUME TypeInv, [Next]_vars, spc' = "synced"
  PROVE  (SyncData /\ SaverStep) \/ (spc = "synced" /\ snap' = snap)
<1>r. ASSUME NEW r, Return(r) PROVE FALSE
  BY <1>r DEF Return
<1>1. ASSUME NEW n \in ThreadChoices, Call(n) PROVE UNCHANGED saverVars
  BY <1>1 DEF Call, taskVars
<1>2. CASE CallStep
  <2>1. CASE ProbeCancelled \/ StartFails \/ ReturnCancelled \/ ReturnError \/ ReturnMismatch
             \/ Verify \/ VerifyFails
    BY <2>1, <1>r DEF ProbeCancelled, StartFails, ReturnCancelled, ReturnError, ReturnMismatch,
                      Verify, VerifyFails
  <2>2. CASE Probe \/ Join \/ ReturnChanged \/ FinalSync
    BY <2>2 DEF Probe, Join, ReturnChanged, FinalSync, taskVars, saverVars
  <2>3. CASE StartWorkers
    BY <2>3 DEF StartWorkers
  <2>4. CASE DeleteState
    BY <2>4, <1>r DEF DeleteState, saverVars
  <2> QED
    BY <1>2, <2>1, <2>2, <2>3, <2>4 DEF CallStep
<1>3. ASSUME NEW w \in Workers, WorkerStep(w) PROVE UNCHANGED saverVars
  BY <1>3 DEF WorkerStep
<1>4. CASE SaverStep
  BY <1>4 DEF SaverStep, ReadPosition, Persist, AfterCheckpoint
<1>5. CASE EnvironmentStep
  <2>1. CASE Kill \/ PowerLoss
    BY <2>1, <1>r DEF Kill, PowerLoss
  <2>2. CASE (\E p \in pending : Land(p) \/ LandFails(p)) \/ Cancel \/ ServerPublishes
    BY <2>2 DEF Land, LandFails, Cancel, ServerPublishes, taskVars, saverVars
  <2> QED
    BY <1>5, <2>1, <2>2 DEF EnvironmentStep
<1>6. CASE UNCHANGED vars
  BY <1>6 DEF vars, taskVars, saverVars
<1> QED
  BY <1>1, <1>2, <1>3, <1>4, <1>5, <1>6 DEF Next, saverVars

\* The sync misses nothing but each worker's last write.
LEMMA SyncedStep ==
  ASSUME SafeInv, Conditions, [Next]_vars, "powerloss" \in Faults
  PROVE  SyncedInv'
<1>0. TypeInv /\ LayoutInv
  BY DEF SafeInv
<1>1. SUFFICES ASSUME spc' = "synced" PROVE SyncedInv'
  BY DEF SyncedInv
<1>t. /\ MaxChunk \in Nat /\ info \in Version
      /\ \A w \in Workers : /\ starts[w] \in Nat /\ snap[w] \in Nat /\ currents[w] \in Nat
                            /\ snap[w] <= currents[w]
  BY <1>0, ValueTypes DEF LayoutInv, RangesFollow
<1>2. ASSUME NEW w \in Workers, NEW b \in starts[w] .. snap[w] - 1 - MaxChunk
      PROVE  /\ b \in starts[w] .. currents[w] - 1 /\ b + MaxChunk < currents[w]
             /\ b \in 0 .. SizeOf[info] - 1 /\ b \in Block
  <2>1. b \in starts[w] .. currents[w] - 1 /\ b + MaxChunk < currents[w]
    BY <1>t, <1>2
  <2> QED
    BY <1>0, <2>1, CountedInside
<1>3. CASE SyncData /\ SaverStep
  <2>1. /\ UNCHANGED <<starts, snap, info, doubtful>> /\ Workers' = Workers
        /\ platter' = [b \in Block |-> {cache[b]}]
    BY <1>3 DEF SaverStep, SyncData, Durably, Conditions, callVars, rangeVars, Workers
  <2>2. ASSUME NEW w \in Workers, NEW b \in starts[w] .. snap[w] - 1 - MaxChunk, b \notin doubtful
        PROVE  cache[b] = info
    <3>1. Underway(w, b)
      BY <1>2, <2>2 DEF SafeInv, FetchedInv
    <3>2. ASSUME NEW p \in PendingOf(w), p.block = b PROVE FALSE
      <4>1. p \in pending /\ p.owner = w /\ currents[w] <= b + MaxChunk
        BY <2>2, <3>2, LiveWrites DEF PendingOf
      <4>2. b + MaxChunk < currents[w] /\ b \in Int
        BY <1>2, <2>2
      <4> QED
        BY <1>t, <4>1, <4>2
    <3> QED
      BY <3>1, <3>2 DEF Underway
  <2> QED
    BY <1>2, <2>1, <2>2 DEF SyncedInv
<1>4. CASE spc = "synced" /\ snap' = snap
  <2>1. Workers # {} /\ Workers' # {}
    <3>1. TypeInv'
      BY <1>0, TypeStep
    <3> QED
      BY <1>0, <1>1, <1>4, <3>1 DEF TypeInv
  <2>2. /\ Workers' = Workers /\ starts' = starts /\ info' = info
        /\ ~VerifyFails
    BY <2>1, StepsKeep
  <2>3. ASSUME NEW w \in Workers, NEW b \in starts[w] .. snap[w] - 1 - MaxChunk, b \notin doubtful'
        PROVE  platter'[b] = {info}
    <3>1. b \notin doubtful
      BY <1>0, <2>3, DoubtsTyped
    <3>2. platter[b] = {info}
      BY <1>4, <2>3, <3>1 DEF SafeInv, PowerInv, SyncedInv
    <3> QED
      BY <1>2, <1>t, <2>2, <2>3, <3>2, KeptStep
  <2> QED
    BY <1>4, <2>2, <2>3 DEF SyncedInv
<1> QED
  BY <1>0, <1>1, <1>3, <1>4, SaverSynced

\* The last sync, and nothing after it.
LEMMA PlatterStep ==
  ASSUME SafeInv, Conditions, [Next]_vars, "powerloss" \in Faults, Completing' \/ result' = "ok"
  PROVE  WholeOnPlatter'
<1>0. TypeInv /\ CallInv /\ (result = "ok" => pc = "idle")
  BY DEF SafeInv, CallInv
<1>d. doubtful \subseteq doubtful' /\ info \in Version
  BY <1>0, DoubtsTyped, ValueTypes
<1>1. CASE FinalSync
  <2>1. /\ UNCHANGED <<cache, doubtful, info>>
        /\ platter' = [b \in Block |-> {cache[b]}]
    BY <1>1 DEF FinalSync, SyncedAtEnd, Durably, Conditions
  <2>2. pc \in AfterRun /\ pc \notin BeforeRun /\ \A w \in Workers : wpc[w] = "ok"
    BY <1>1 DEF FinalSync, AllOk, SaverAwaited, AfterRun, BeforeRun
  <2>3. Whole
    BY <1>0, <2>2, AllDoneWhole DEF CallInv
  <2>4. 0 .. SizeOf[info] - 1 \subseteq Block
    BY <1>0, ValueTypes
  <2> QED
    BY <2>1, <2>3, <2>4 DEF Whole, WholeOnPlatter
<1>2. CASE (Completing \/ result = "ok") /\ info' = info /\ ~VerifyFails
  <2>1. WholeOnPlatter
    BY <1>2 DEF SafeInv, PowerInv
  <2>2. ASSUME NEW b \in 0 .. SizeOf[info] - 1, b \notin doubtful' PROVE platter'[b] = {info}
    BY <1>2, <1>d, <2>1, <2>2, KeptStep DEF WholeOnPlatter
  <2> QED
    BY <1>2, <2>2 DEF WholeOnPlatter
<1>3. CASE Verify
  BY <1>3, <1>2 DEF Verify, Return, Completing, VerifyFails
<1>4. ~VerifyFails
  BY DEF VerifyFails, Return, Completing
<1> QED
  BY <1>0, <1>1, <1>2, <1>3, <1>4, FlowStep

LEMMA SafeStep == SafeInv /\ Conditions /\ [Next]_vars => SafeInv'
<1> SUFFICES ASSUME SafeInv, Conditions, [Next]_vars PROVE SafeInv'
  OBVIOUS
<1>1. TypeInv' /\ LayoutInv'
  BY TypeStep, LayoutStep DEF SafeInv
<1>2. PendInv' /\ FetchedInv' /\ CallInv'
  BY PendInvStep, FetchedStep, CallInvStep
<1>3. SafeState(saved)' /\ PowerInv'
  BY StatesStep, CacheStep, SyncedStep, PlatterStep DEF PowerInv
<1> QED
  BY <1>1, <1>2, <1>3 DEF SafeInv

LEMMA SafeAlways == ASSUME Conditions PROVE Spec => []SafeInv
  BY SafeInit, SafeStep, PTL DEF Spec

\* A state file that a call could resume from is of the version it would complete.
LEMMA ResumableIsCurrent ==
  ASSUME SafeInv, Conditions, NEW s, NEW v \in Ahead, ResumableAt(s, v)
  PROVE  /\ SafeState(s) => Arriving(s.workers, v)
         /\ DurableState(s) => OnPlatter(s.workers, v)
<1>1. s # None /\ s \notin Leftovers
  BY LeftoversAssumption DEF ResumableAt, Validate
<1>2. v \in Version /\ v \in Nat /\ Now <= v /\ Now \in Nat
  BY ValueTypes, ConstantsAssumption DEF SafeInv, Ahead, Now, Version
<1>3. ASSUME NEW u \in Version, WrittenFor(s, u), u <= Now PROVE u = v /\ v = Now
  <2>1. u = v /\ u \in Nat
    BY <1>2, <1>3, ResumableTellsApart, ValueTypes DEF SafeInv, Conditions
  <2> QED
    BY <1>2, <1>3, <2>1
<1> QED
  BY <1>1, <1>3 DEF SafeState, DurableState

\* download() returned Ok (multi_thread, download_inner): every byte of the file
\* is of the version it probed, whatever the server, the streams, the process, the
\* caller and the power did before, during and since; but for the blocks of a write
\* that somebody gave up before it was made, which the file may lack for good.
THEOREM CompletedFilesSound ==
  ASSUME Conditions
  PROVE  Spec => []CompletedSound
<1>1. SafeInv => CompletedSound
  BY DEF SafeInv, CallInv, Whole, CompletedSound
<1> QED
  BY <1>1, SafeAlways, PTL

\* What state_save_task writes, and a call resumes from, names bytes of that call's
\* version that are in the file, or that a write under way is about to put there;
\* again but for the blocks of a write that somebody gave up.
THEOREM StateAlwaysSound ==
  ASSUME Conditions
  PROVE  Spec => []SavedSound
<1>1. SafeInv => SavedSound
  <2> SUFFICES ASSUME SafeInv, NEW v \in Ahead, ResumableAt(saved, v),
                      NEW b \in Claimed(saved.workers) \ doubtful
               PROVE  cache[b] = v \/ OnItsWay(b, v)
    BY DEF SavedSound
  <2>1. Arriving(saved.workers, v)
    BY ResumableIsCurrent DEF SafeInv
  <2>2. PICK w \in DOMAIN saved.workers : b \in saved.workers[w].start .. saved.workers[w].current - 1
    BY DEF Claimed
  <2> QED
    BY <2>1, <2>2 DEF Arriving, Coming
<1> QED
  BY <1>1, SafeAlways, PTL

\* With durable_resume, what a power loss may leave of the state file names, up to
\* each worker's last write, only bytes it leaves of the data file: the data sync
\* of the saver, on a handle of its own, misses no more than that.
THEOREM DurableAlwaysSound ==
  ASSUME Conditions, "powerloss" \in Faults
  PROVE  Spec => []DurableSound
<1>1. SafeInv => DurableSound
  <2> SUFFICES ASSUME SafeInv, NEW s \in entries, NEW v \in Ahead, ResumableAt(s, v),
                      NEW b \in SettledClaims(s.workers) \ doubtful
               PROVE  platter[b] = {v}
    BY DEF DurableSound
  <2>1. OnPlatter(s.workers, v)
    BY ResumableIsCurrent DEF SafeInv, PowerInv
  <2>2. PICK w \in DOMAIN s.workers : b \in s.workers[w].start .. s.workers[w].current - 1 - MaxChunk
    BY DEF SettledClaims
  <2> QED
    BY <2>1, <2>2 DEF OnPlatter
<1> QED
  BY <1>1, SafeAlways, PTL

-------------------------------------------------------------------------------
(***************************************************************************)
(* Writes that return before the OS has the bytes.                         *)
(***************************************************************************)

\* Versions may come back and an fsync may fail, but no write is lost, or left to
\* land after the call: none fails, no stream breaks, nothing ends the process; and
\* the last checkpoint is written.
BufferedConditions ==
  /\ ValidatorsTellApart
  /\ Faults \cap {"416", "error", "writefail", "savefail", "kill", "powerloss"} = {}

WritesInv ==
  /\ broken = {}
  /\ \A p \in pending : p.owner # Dropped /\ p.content = info
  /\ \A w \in Workers :
       /\ \A b \in starts[w] .. currents[w] - 1 : Underway(w, b)
       /\ wpc[w] = "stream" => body[w] = info
       /\ wpc[w] = "ok" => currents[w] = ends[w]

\* All that a state file claims is in the file, whichever version it is of.
SavedHolds(s) ==
  \/ s = None
  \/ s \in Leftovers
  \/ \E u \in Version : WrittenFor(s, u) /\ InFile(s.workers, u)

\* What the last checkpoint leaves.
Reached(s) ==
  /\ WrittenFor(s, info)
  /\ DOMAIN s.workers = Workers
  /\ \A w \in Workers : s.workers[w].start = starts[w] /\ s.workers[w].current = currents[w]

\* While a call runs, the state file it found may be of blocks it overwrites; when
\* the workers have ended, it no longer is.
RestInv ==
  /\ pc \notin BeforeRun => Workers # {}
  /\ pc \in BeforeRun => SavedHolds(saved)
  /\ pc = "stopping" /\ spc = "off" => Reached(saved)
  /\ pc \in {"dropping", "deleting"} => Reached(saved) /\ spc = "off"
  /\ pc = "verify" => saved = None /\ spc = "off"
  /\ Completing => \A w \in Workers : wpc[w] = "ok"
  /\ result = "ok" => pc = "idle" /\ Intact

BufferInv == TypeInv /\ LayoutInv /\ SaverInv /\ WritesInv /\ RestInv

LEMMA BufferInit == Init => BufferInv
<1> SUFFICES ASSUME Init PROVE BufferInv
  OBVIOUS
<1>1. Workers = {}
  BY DEF Init, Workers, NoWorkers
<1>2. WritesInv /\ RestInv
  BY <1>1 DEF Init, WritesInv, RestInv, SavedHolds, BeforeRun, Completing
<1> QED
  BY <1>2, TypeInit, LayoutInit, SaverInit DEF BufferInv

\* Where no worker writes, every write has landed.
LEMMA NothingPending ==
  ASSUME TypeInv, WritesInv, pc \in BeforeRun \cup AfterRun
  PROVE  /\ pending = {}
         /\ \A w \in Workers : \A b \in starts[w] .. currents[w] - 1 : cache[b] = info
<1>1. pending = {}
  BY EndedDropped DEF WritesInv
<1> QED
  BY <1>1 DEF WritesInv, Underway, PendingOf

LEMMA ReachedHolds ==
  ASSUME TypeInv, WritesInv, pc \in AfterRun, Reached(saved)
  PROVE  SavedHolds(saved)
<1>1. InFile(saved.workers, info)
  BY NothingPending DEF InFile, Reached
<1> QED
  BY <1>1, ValueTypes DEF SavedHolds, Reached

\* When every worker is done, the file is complete.
LEMMA AllLandedIntact ==
  ASSUME BufferInv, Workers # {}, pc \in AfterRun, \A w \in Workers : wpc[w] = "ok"
  PROVE  Intact
<1>0. TypeInv /\ LayoutInv /\ WritesInv
  BY DEF BufferInv
<1> SUFFICES ASSUME NEW b \in 0 .. SizeOf[info] - 1 PROVE cache[b] = info
  BY DEF Intact
<1>1. PICK w \in Workers : starts[w] <= b /\ b < ends[w]
  BY <1>0, RangesCover
<1>2. currents[w] = ends[w] /\ starts[w] \in Nat /\ ends[w] \in Nat
  BY <1>0, RangeTypes DEF WritesInv
<1>3. b \in starts[w] .. currents[w] - 1
  BY <1>1, <1>2
<1> QED
  BY <1>0, <1>3, NothingPending

\* A call that returns.
LEMMA BufferReturn ==
  ASSUME NEW r, Return(r), pending' = {}, SavedHolds(saved)', r = "ok" => Intact'
  PROVE  WritesInv' /\ RestInv'
<1>1. /\ Workers' = {} /\ pc' = "idle" /\ spc' = "off" /\ result' = r /\ broken' = {}
  BY DEF Return, Workers, NoWorkers
<1> QED
  BY <1>1 DEF WritesInv, RestInv, BeforeRun, Completing

LEMMA BufferStart ==
  ASSUME BufferInv, BufferedConditions, TypeInv', StartWorkers
  PROVE  WritesInv' /\ RestInv'
<1> DEFINE W == DOMAIN Plan
<1>0. /\ TypeInv /\ LayoutInv /\ WritesInv /\ RestInv
      /\ pc = "probed" /\ pc' = "run" /\ info' = info /\ result' = result
      /\ pending' = pending /\ broken' = broken
  BY DEF BufferInv, StartWorkers, ioVars
<1>1. pending = {} /\ broken = {} /\ SavedHolds(saved) /\ result # "ok"
  BY <1>0, NothingPending DEF WritesInv, RestInv, BeforeRun
<1>2. PICK n \in Nat \ {0} : Plan \in [1 .. n -> RangeRecord]
  BY <1>0, PlanTyped
<1>3. /\ Workers' = W /\ W # {}
      /\ \A w \in W : /\ starts'[w] = Plan[w].start /\ ends'[w] = Plan[w].end
                      /\ currents'[w] = Plan[w].current
                      /\ wpc'[w] = IF Plan[w].start < Plan[w].end THEN "loop" ELSE "ok"
                      /\ body'[w] = info
  <2>1. 1 \in W
    BY <1>2
  <2> QED
    BY <2>1 DEF StartWorkers, Workers, PositionOf
<1>4. \A w \in W : /\ Plan[w].start \in Nat /\ Plan[w].current \in Nat /\ Plan[w].end \in Nat
                   /\ Plan[w].start <= Plan[w].current /\ Plan[w].current <= Plan[w].end
  BY <1>0, <1>2, PlanFollows DEF RangeRecord
<1>5. ASSUME NEW w \in W, NEW b \in Plan[w].start .. Plan[w].current - 1
      PROVE  cache'[b] = info
  <2>1. CASE Usable(saved)
    <3>1. ResumableAt(saved, info) /\ Plan = saved.workers
      BY <2>1 DEF Usable, ResumableAt, Plan
    <3>2. saved # None /\ saved \notin Leftovers
      BY <3>1, LeftoversAssumption DEF ResumableAt, Validate
    <3>3. PICK u \in Version : WrittenFor(saved, u) /\ InFile(saved.workers, u)
      BY <1>1, <3>2 DEF SavedHolds
    <3>4. u = info
      BY <1>0, <3>1, <3>3, ValueTypes, ResumableTellsApart DEF BufferedConditions
    <3>5. cache[b] = info
      BY <1>5, <3>1, <3>3, <3>4 DEF InFile
    <3>6. b \in 0 .. SizeOf[info] - 1 /\ b \in Block
      BY <1>0, <1>5, <3>1, <3>3, <3>4, ValueTypes, ClaimsInside DEF WrittenFor
    <3>7. cache' = [c \in Block |-> IF c < SizeOf[info] THEN cache[c] ELSE 0]
      BY DEF StartWorkers, SetLength
    <3> QED
      BY <1>0, <3>5, <3>6, <3>7, ValueTypes
  <2>2. CASE ~Usable(saved)
    <3>1. Plan[w].start = Plan[w].current
      BY <2>2 DEF Plan, SplitWorkers, SplitInto
    <3> QED
      BY <1>4, <1>5, <3>1
  <2> QED
    BY <2>1, <2>2
<1> HIDE DEF W
<1>6. WritesInv'
  <2>1. \A w \in W : wpc'[w] = "ok" => currents'[w] = ends'[w]
    BY <1>3, <1>4
  <2>2. \A w \in W : \A b \in starts'[w] .. currents'[w] - 1 : cache'[b] = info
    BY <1>3, <1>5
  <2> QED
    BY <1>0, <1>1, <1>3, <2>1, <2>2 DEF WritesInv, Underway
<1>7. RestInv'
  BY <1>0, <1>1, <1>3 DEF RestInv, BeforeRun, Completing
<1> QED
  BY <1>6, <1>7

LEMMA BufferCall ==
  ASSUME BufferInv, BufferedConditions, TypeInv', CallStep
  PROVE  WritesInv' /\ RestInv'
<1>0. TypeInv /\ LayoutInv /\ SaverInv /\ WritesInv /\ RestInv
  BY DEF BufferInv
<1>p. pc \in BeforeRun \cup AfterRun => pending = {}
  BY <1>0, NothingPending
\* A call that returns before it ran, or after it stopped.
<1>r. ASSUME NEW r \in Results \ {"ok"}, Return(r), UNCHANGED <<diskVars, pending>>,
             pc \in BeforeRun \/ SaverAwaited
      PROVE  WritesInv' /\ RestInv'
  <2>1. SavedHolds(saved) /\ pending = {}
    BY <1>0, <1>p, <1>r, ReachedHolds DEF RestInv, SaverAwaited, AfterRun
  <2>2. SavedHolds(saved)'
    BY <1>r, <2>1 DEF SavedHolds, WrittenFor, InFile, diskVars
  <2> QED
    BY <1>r, <2>1, <2>2, BufferReturn
\* A step within the call that leaves the data file and the tasks alone.
<1>m. ASSUME UNCHANGED <<cache, taskVars>>, info' = info \/ (Workers = {} /\ pending = {})
      PROVE  WritesInv'
  <2>1. /\ UNCHANGED <<pending, broken, starts, ends, currents, wpc, body>>
        /\ Workers' = Workers
    BY <1>m DEF taskVars, rangeVars, workerVars, ioVars, Workers
  <2> QED
    BY <1>0, <1>m, <2>1 DEF WritesInv, Underway, PendingOf
<1>1. CASE Probe
  <2>1. Workers = {} /\ pending = {}
    BY <1>0, <1>1, <1>p DEF Probe, TypeInv, BeforeRun
  <2>2. WritesInv'
    BY <1>1, <1>m, <2>1 DEF Probe, diskVars
  <2>3. RestInv'
    BY <1>0, <1>1 DEF Probe, RestInv, BeforeRun, Completing, SavedHolds, WrittenFor, InFile,
                      diskVars
  <2> QED
    BY <2>2, <2>3
<1>2. CASE ProbeCancelled
  BY <1>2, <1>r DEF ProbeCancelled, Results, BeforeRun
<1>3. CASE StartFails
  BY <1>3 DEF StartFails, BufferedConditions
<1>4. CASE StartWorkers
  BY <1>4, BufferStart
<1>5. CASE Join
  <2>1. WritesInv'
    BY <1>5, <1>m DEF Join, diskVars
  <2>2. /\ pc = "run" /\ pc' = "stopping" /\ spc' = spc /\ result' = result
        /\ Workers' = Workers /\ spc # "off"
    BY <1>0, <1>5 DEF Join, taskVars, rangeVars, saverVars, Workers, SaverInv
  <2> QED
    BY <1>0, <2>1, <2>2 DEF RestInv, BeforeRun, Completing
<1>6. CASE ReturnCancelled
  BY <1>6, <1>r DEF ReturnCancelled, Results
<1>7. CASE ReturnError
  BY <1>7, <1>r DEF ReturnError, Results
<1>8. CASE ReturnChanged
  <2>1. WritesInv'
    BY <1>8, <1>m DEF ReturnChanged, diskVars
  <2>2. /\ pc = "stopping" /\ spc = "off" /\ pc' = "dropping" /\ spc' = spc
        /\ UNCHANGED <<info, saved, starts, currents, result>> /\ Workers' = Workers
    BY <1>8 DEF ReturnChanged, SaverAwaited, taskVars, rangeVars, saverVars, diskVars, Workers
  <2> QED
    BY <1>0, <2>1, <2>2 DEF RestInv, BeforeRun, Completing, Reached, WrittenFor
<1>9. CASE ReturnMismatch
  BY <1>9, <1>r DEF ReturnMismatch, AllOk, Results
<1>10. CASE FinalSync
  <2>1. WritesInv'
    BY <1>10, <1>m DEF FinalSync
  <2>2. /\ pc = "stopping" /\ spc = "off" /\ pc' = "deleting" /\ spc' = spc
        /\ UNCHANGED <<info, saved, starts, currents, result, wpc>> /\ Workers' = Workers
        /\ \A w \in Workers : wpc[w] = "ok"
    BY <1>10 DEF FinalSync, AllOk, SaverAwaited, taskVars, rangeVars, saverVars, workerVars, Workers
  <2> QED
    BY <1>0, <2>1, <2>2 DEF RestInv, BeforeRun, Completing, Reached, WrittenFor
<1>11. CASE DeleteState
  <2>1. saved' = None /\ UNCHANGED <<cache, pending>>
    BY <1>11 DEF DeleteState, Remove, BufferedConditions
  <2>2. CASE pc = "deleting" /\ pc' = "verify"
    <3>1. /\ UNCHANGED <<info, result, spc, wpc, starts, ends, currents, body, broken>>
          /\ Workers' = Workers
      BY <1>11, <2>2 DEF DeleteState, Return, rangeVars, workerVars, saverVars, Workers
    <3>2. WritesInv'
      BY <1>0, <2>1, <3>1 DEF WritesInv, Underway, PendingOf
    <3> QED
      BY <1>0, <2>1, <2>2, <3>1, <3>2 DEF RestInv, BeforeRun, Completing
  <2>3. CASE pc = "dropping" /\ Return("failed")
    <3>1. SavedHolds(saved)' /\ pending' = {}
      BY <1>p, <2>1, <2>3 DEF SavedHolds, AfterRun
    <3> QED
      BY <2>3, <3>1, BufferReturn
  <2> QED
    BY <1>11, <2>2, <2>3 DEF DeleteState
<1>12. CASE Verify
  <2>1. /\ pending = {} /\ saved = None /\ Workers # {} /\ \A w \in Workers : wpc[w] = "ok"
        /\ pc \in AfterRun
    BY <1>0, <1>12, <1>p DEF Verify, RestInv, AfterRun, BeforeRun, Completing
  <2>2. Intact
    BY <2>1, AllLandedIntact
  <2>3. /\ Return("ok") /\ UNCHANGED <<cache, saved, pending>> /\ info' = info
    BY <1>12 DEF Verify, Return, diskVars
  <2>4. Intact' /\ SavedHolds(saved)'
    BY <2>1, <2>2, <2>3 DEF Intact, SavedHolds
  <2> QED
    BY <2>1, <2>3, <2>4, BufferReturn
<1>13. CASE VerifyFails
  <2>1. saved' = None /\ pending' = {} /\ Return("corrupt")
    BY <1>13 DEF VerifyFails, Remove, BufferedConditions
  <2> QED
    BY <2>1, BufferReturn DEF SavedHolds
<1> QED
  BY <1>1, <1>2, <1>3, <1>4, <1>5, <1>6, <1>7, <1>8, <1>9, <1>10, <1>11, <1>12, <1>13
     DEF CallStep

\* A worker moves on to a place: what it counted stays in the file or on its way.
LEMMA BufferMove ==
  ASSUME BufferInv, TypeInv', NEW w \in Workers, wpc[w] \notin Ended, WorkerFrame,
         NEW place \in Places, Goto(w, place),
         broken' = {}, \A p \in pending' : p.owner # Dropped /\ p.content = info,
         \A v \in Workers : \A b \in starts[v] .. currents'[v] - 1 : Underway(v, b)',
         \A v \in Workers \ {w} : currents'[v] = currents[v] /\ body'[v] = body[v],
         place = "stream" => body'[w] = info,
         place = "ok" => currents'[w] = ends[w]
  PROVE  WritesInv' /\ RestInv'
<1>0. TypeInv /\ WritesInv /\ RestInv /\ pc = "run"
  BY RunningWorker DEF BufferInv
<1>1. /\ Workers' = Workers /\ pc' = "run" /\ result' = result
      /\ UNCHANGED <<saved, info, spc, starts, ends>>
  BY <1>0 DEF WorkerFrame, callVars, saverVars, Workers
<1>2. wpc'[w] = place /\ \A v \in Workers \ {w} : wpc'[v] = wpc[v]
  BY <1>0 DEF Goto, TypeInv, TypeOK, WorkerTypeOK
<1>3. WritesInv'
  BY <1>0, <1>1, <1>2 DEF WritesInv
<1>4. RestInv'
  BY <1>0, <1>1 DEF RestInv, BeforeRun, Completing
<1> QED
  BY <1>3, <1>4

LEMMA BufferWorker ==
  ASSUME BufferInv, BufferedConditions, TypeInv', NEW w \in Workers, WorkerStep(w)
  PROVE  WritesInv' /\ RestInv'
<1>0. TypeInv /\ LayoutInv /\ WritesInv /\ WorkerFrame
  BY DEF BufferInv, WorkerStep, WorkerFrame
<1>t. /\ starts[w] \in Nat /\ currents[w] \in Nat /\ ends[w] \in Nat
      /\ currents[w] <= ends[w] /\ ends[w] <= SizeOf[info]
      /\ SizeOf[info] \in Nat /\ info \in Version
      /\ currents \in [Workers -> Nat] /\ body \in [Workers -> Version]
      /\ cache \in [Block -> Content]
  BY <1>0, ValueTypes, RangesCover
     DEF LayoutInv, RangesFollow, TypeInv, TypeOK, WorkerTypeOK
\* A step that writes nothing.
<1>m. ASSUME NEW place \in Places, Goto(w, place), wpc[w] \notin Ended,
             UNCHANGED <<cache, currents, pending>>, broken' = {},
             \A v \in Workers \ {w} : body'[v] = body[v],
             place = "stream" => body'[w] = info,
             place = "ok" => currents[w] = ends[w]
      PROVE  WritesInv' /\ RestInv'
  <2>1. \A v, b : Underway(v, b) => Underway(v, b)'
    BY <1>0, <1>m DEF Underway, PendingOf, WorkerFrame, callVars
  <2>2. \A v \in Workers : \A b \in starts[v] .. currents'[v] - 1 : Underway(v, b)'
    BY <1>0, <1>m, <2>1 DEF WritesInv
  <2> QED
    BY <1>0, <1>m, <2>2, BufferMove DEF WritesInv
<1>b. broken = {} /\ {} \ {w} = {}
  BY <1>0 DEF WritesInv
<1>1. CASE Loop(w)
  <2>1. wpc[w] = "loop" /\ NoIO /\ UNCHANGED <<attempt, body>>
    BY <1>1 DEF Loop
  <2>2. \E place \in {"ok", "cancelled", "sent"} :
           Goto(w, place) /\ (place = "ok" => currents[w] = ends[w])
    BY <1>1, <1>t DEF Loop
  <2> QED
    BY <2>1, <2>2, <1>b, <1>m DEF Places, Ended, NoIO
<1>2. CASE Reply206(w)
  <2>1. srv = info
    BY <1>0, <1>2, HonouredIsProbed DEF Reply206, BufferedConditions
  <2>2. body'[w] = info /\ \A v \in Workers \ {w} : body'[v] = body[v]
    BY <1>2, <1>t, <2>1 DEF Reply206
  <2> QED
    BY <1>2, <2>2, <1>b, <1>m DEF Reply206, Places, Ended, NoIO
<1>3. CASE Reply200(w)
  <2>1. \E place \in {"norange", "changed"} : Goto(w, place)
    BY <1>3 DEF Reply200
  <2> QED
    BY <1>3, <2>1, <1>b, <1>m DEF Reply200, Places, Ended, NoIO
<1>4. CASE Reply416(w)
  <2>1. srv = info /\ currents[w] >= SizeOf[srv]
    BY <1>0, <1>4, HonouredIsProbed DEF Reply416, BufferedConditions
  <2>2. currents[w] = ends[w]
    BY <2>1, <1>t
  <2>3. currents' = currents
    BY <2>2, <1>4, <1>t DEF Reply416, PositionAfter416
  <2> QED
    BY <1>4, <2>3, <1>b, <1>m DEF Reply416, Places, Ended
<1>6. ASSUME NEW n \in 1 .. MaxChunk, Deliver(w, n) PROVE WritesInv' /\ RestInv'
  <2> DEFINE to     == WriteEnd(w, n)
             blocks == currents[w] .. to - 1
             writes == [owner : {w}, block : blocks, content : {info}]
  <2>1. to \in Nat /\ currents[w] <= to /\ to <= ends[w]
    BY <1>t DEF WriteEnd, AtMost
  <2>2. wpc[w] = "stream" /\ body' = body /\ body[w] = info /\ broken' = {}
    BY <1>0, <1>b, <1>6 DEF Deliver, WritesInv
  <2>3. currents'[w] = to /\ \A v \in Workers \ {w} : currents'[v] = currents[v]
    BY <1>6, <1>t DEF Deliver
  <2>4. \E place \in {"flush", "stream"} : Goto(w, place)
    BY <1>6 DEF Deliver
  <2>5. pending' = pending \cup writes /\ cache' = cache
    BY <1>6, <2>2 DEF Deliver, Write
  <2> HIDE DEF to
  <2>i. info' = info
    BY <1>0 DEF WorkerFrame, callVars
  \* What was there or on its way still is.
  <2>7. ASSUME NEW v \in Workers, NEW b \in starts[v] .. currents[v] - 1
        PROVE  Underway(v, b)'
    <3>1. Underway(v, b) /\ b \in Block
      BY <1>0, CountedInside DEF WritesInv
    <3>2. \A p \in pending : p \in pending'
      BY <2>5
    <3> QED
      BY <2>i, <2>5, <3>1, <3>2 DEF Underway, PendingOf
  <2>8. ASSUME NEW b \in blocks PROVE Underway(w, b)'
    <3>1. [owner |-> w, block |-> b, content |-> info] \in writes
      OBVIOUS
    <3>2. [owner |-> w, block |-> b, content |-> info] \in PendingOf(w)'
      BY <2>5, <3>1 DEF PendingOf
    <3> QED
      BY <3>2 DEF Underway
  <2>9. \A v \in Workers : \A b \in starts[v] .. currents'[v] - 1 : Underway(v, b)'
    <3>1. ASSUME NEW b \in starts[w] .. to - 1 PROVE Underway(w, b)'
      <4>1. b \in starts[w] .. currents[w] - 1 \/ b \in blocks
        BY <2>1, <1>t
      <4> QED
        BY <4>1, <2>7, <2>8
    <3> QED
      BY <2>3, <2>7, <3>1
  <2>10. \A p \in pending' : p.owner # Dropped /\ p.content = info
    <3>1. w # Dropped
      BY <1>0, RangeTypes DEF Dropped
    <3> QED
      BY <1>0, <2>5, <3>1 DEF WritesInv
  <2> QED
    BY <1>0, <2>2, <2>3, <2>4, <2>9, <2>10, BufferMove DEF Places, Ended
<1>7. CASE StreamCancelled(w)
  BY <1>7, <1>b, <1>m DEF StreamCancelled, Places, Ended
<1>9. CASE StreamEnds(w)
  BY <1>9, <1>b, <1>m DEF StreamEnds, Places, Ended, NoIO
<1>10. CASE Flush(w)
  <2>1. Goto(w, "loop")
    BY <1>10, <1>b DEF Flush
  <2> QED
    BY <1>10, <2>1, <1>b, <1>m DEF Flush, Places, Ended
<1>11. CASE BackoffOver(w)
  <2>1. \E place \in {"loop", "cancelled"} : Goto(w, place)
    BY <1>11 DEF BackoffOver
  <2> QED
    BY <1>11, <2>1, <1>b, <1>m DEF BackoffOver, Places, Ended, NoIO
\* No request fails, and no stream breaks.
<1>12. ~ReplyError(w) /\ ~StreamBreaks(w)
  BY <1>b DEF ReplyError, StreamBreaks, BufferedConditions
<1> QED
  BY <1>1, <1>2, <1>3, <1>4, <1>6, <1>7, <1>9, <1>10, <1>11, <1>12 DEF WorkerStep

LEMMA BufferSaver ==
  ASSUME BufferInv, BufferedConditions, SaverStep
  PROVE  WritesInv' /\ RestInv'
<1>0. TypeInv /\ LayoutInv /\ SaverInv /\ WritesInv /\ RestInv
  BY DEF BufferInv
<1>f. /\ UNCHANGED <<pc, info, result, starts, ends, currents, wpc, body, pending, broken, cache>>
      /\ Workers' = Workers
  BY DEF SaverStep, callVars, rangeVars, workerVars, ioVars, Workers
<1>1. WritesInv'
  BY <1>0, <1>f DEF WritesInv, Underway, PendingOf
<1>2. spc # "off" /\ pc \notin BeforeRun /\ pc \in {"run", "stopping"}
  <2>1. spc # "off"
    BY DEF SaverStep, ReadPosition, SyncData, Persist, ReadyToPersist
  <2> QED
    BY <1>0, <2>1 DEF RestInv, TypeInv, TypeOK, CallTypeOK, BeforeRun
<1>3. CASE spc' # "off"
  BY <1>0, <1>1, <1>2, <1>3, <1>f DEF RestInv, BeforeRun, Completing
<1>4. CASE spc' = "off"
  <2>1. Persist /\ saved' = Checkpoint /\ final
    BY <1>4 DEF SaverStep, ReadPosition, SyncData, Persist, AfterCheckpoint, BufferedConditions
  <2>2. \A w \in Workers : snap[w] = currents[w]
    BY <1>0, <2>1 DEF Persist, ReadyToPersist, SaverInv
  <2>3. LaidOut(Checkpoint.workers, SizeOf[info])
    BY <1>0, <1>2, RangesCover DEF RestInv
  <2>4. Reached(Checkpoint)
    BY <2>2, <2>3 DEF Reached, WrittenFor, Checkpoint, NewState
  <2>5. PICK c : c = Checkpoint
    OBVIOUS
  <2>6. Reached(saved)'
    BY <1>f, <2>1, <2>4, <2>5 DEF Reached, WrittenFor
  <2> QED
    BY <1>0, <1>1, <1>2, <1>f, <2>6 DEF RestInv, BeforeRun, Completing
<1> QED
  BY <1>3, <1>4

\* A write that lands is of the version probed: it takes no block back.
LEMMA BufferLand ==
  ASSUME BufferInv, NEW p \in pending, Land(p)
  PROVE  WritesInv' /\ RestInv'
<1>0. TypeInv /\ LayoutInv /\ WritesInv /\ RestInv
  BY DEF BufferInv
<1>1. /\ p.content = info /\ p.block \in Block /\ pc = "run"
  <2>1. pending # {}
    OBVIOUS
  <2> QED
    BY <1>0, <2>1, NothingPending
       DEF WritesInv, TypeInv, TypeOK, WorkerTypeOK, CallTypeOK, BeforeRun, AfterRun
<1>2. /\ UNCHANGED <<pc, spc, info, saved, result, starts, ends, currents, wpc, body, broken>>
      /\ Workers' = Workers /\ pending' = pending \ {p}
      /\ cache' = [cache EXCEPT ![p.block] = info]
  BY <1>1 DEF Land, callVars, rangeVars, workerVars, saverVars, Workers
<1>3. ASSUME NEW w \in Workers, NEW b \in starts[w] .. currents[w] - 1
      PROVE  Underway(w, b)'
  <2>1. Underway(w, b) /\ b \in Block
    BY <1>0, CountedInside DEF WritesInv
  <2>2. \A c \in Block : (c = p.block => cache'[c] = info) /\ (c # p.block => cache'[c] = cache[c])
    BY <1>0, <1>1, <1>2, ValueTypes
  <2>3. CASE cache[b] = info
    BY <1>2, <2>1, <2>2, <2>3 DEF Underway
  <2>4. ASSUME NEW q \in PendingOf(w), q.block = b PROVE Underway(w, b)'
    <3>1. CASE q = p
      BY <1>2, <2>1, <2>2, <2>4, <3>1 DEF Underway
    <3>2. CASE q # p
      BY <1>2, <2>4, <3>2 DEF Underway, PendingOf
    <3> QED
      BY <3>1, <3>2
  <2> QED
    BY <2>1, <2>3, <2>4 DEF Underway
<1>4. WritesInv'
  BY <1>0, <1>2, <1>3 DEF WritesInv
<1>5. RestInv'
  BY <1>0, <1>1, <1>2 DEF RestInv, BeforeRun, Completing
<1> QED
  BY <1>4, <1>5

LEMMA BufferStep == BufferInv /\ BufferedConditions /\ [Next]_vars => BufferInv'
<1> SUFFICES ASSUME BufferInv, BufferedConditions, [Next]_vars PROVE BufferInv'
  OBVIOUS
<1>0. TypeInv /\ LayoutInv /\ SaverInv /\ WritesInv /\ RestInv
  BY DEF BufferInv
<1>1. TypeInv' /\ LayoutInv' /\ SaverInv'
  BY <1>0, TypeStep, LayoutStep, SaverInvStep
<1> SUFFICES WritesInv' /\ RestInv'
  BY <1>1 DEF BufferInv
\* Where neither the disk nor the tasks change.
<1>m. ASSUME UNCHANGED <<info, diskVars, taskVars>>,
             \/ pc' = pc /\ result' = result
             \/ pc \in BeforeRun /\ pc' \in BeforeRun /\ result' # "ok"
      PROVE  WritesInv' /\ RestInv'
  <2>1. /\ UNCHANGED <<cache, saved, spc, pending, broken, starts, ends, currents, wpc, body>>
        /\ Workers' = Workers
    BY <1>m DEF diskVars, taskVars, rangeVars, workerVars, ioVars, saverVars, Workers
  <2>2. WritesInv'
    BY <1>0, <1>m, <2>1 DEF WritesInv, Underway, PendingOf
  <2>3. RestInv'
    BY <1>0, <1>m, <2>1
       DEF RestInv, BeforeRun, Completing, SavedHolds, WrittenFor, InFile, Reached, Intact
  <2> QED
    BY <2>2, <2>3
<1>2. ASSUME NEW n \in ThreadChoices, Call(n) PROVE WritesInv' /\ RestInv'
  BY <1>2, <1>m DEF Call, BeforeRun
<1>3. CASE CallStep
  BY <1>1, <1>3, BufferCall
<1>4. ASSUME NEW w \in Workers, WorkerStep(w) PROVE WritesInv' /\ RestInv'
  BY <1>1, <1>4, BufferWorker
<1>5. CASE SaverStep
  BY <1>5, BufferSaver
<1>6. CASE EnvironmentStep
  <2>1. ASSUME NEW p \in pending, Land(p) PROVE WritesInv' /\ RestInv'
    BY <2>1, BufferLand
  <2>2. CASE Cancel \/ ServerPublishes
    <3>1. UNCHANGED <<info, pc, result, diskVars, taskVars>>
      BY <2>2 DEF Cancel, ServerPublishes, callVars
    <3> QED
      BY <3>1, <1>m
  <2>3. ~Kill /\ ~PowerLoss /\ \A p : ~LandFails(p)
    BY DEF LandFails, Kill, PowerLoss, BufferedConditions
  <2> QED
    BY <1>6, <2>1, <2>2, <2>3 DEF EnvironmentStep
<1>7. CASE UNCHANGED vars
  <2>1. UNCHANGED <<info, pc, result, diskVars, taskVars>>
    BY <1>7 DEF vars, callVars
  <2> QED
    BY <2>1, <1>m
<1> QED
  BY <1>2, <1>3, <1>4, <1>5, <1>6, <1>7 DEF Next

LEMMA BufferAlways == ASSUME BufferedConditions PROVE Spec => []BufferInv
  BY BufferInit, BufferStep, PTL DEF Spec

\* Once a call has returned, however it ended, all that the state file claims is in
\* the file: cancelling it flushed what its workers had counted, and no write of it
\* is left to land on what a later call fetches.
THEOREM StateHoldsAtRest ==
  ASSUME BufferedConditions
  PROVE  Spec => []SavedNotAheadAtRest
<1>1. BufferInv => SavedNotAheadAtRest
  <2> SUFFICES ASSUME BufferInv, pc = "idle", NEW v \in Ahead, ResumableAt(saved, v),
                      NEW b \in Claimed(saved.workers)
               PROVE  cache[b] = v
    BY DEF SavedNotAheadAtRest, SavedNotAhead
  <2>1. TypeInv /\ SavedHolds(saved)
    BY DEF BufferInv, RestInv, BeforeRun
  <2>2. v \in Version
    BY <2>1, ValueTypes, ConstantsAssumption DEF Ahead, Version
  <2>3. saved # None /\ saved \notin Leftovers
    BY LeftoversAssumption DEF ResumableAt, Validate
  <2>4. PICK u \in Version : WrittenFor(saved, u) /\ InFile(saved.workers, u)
    BY <2>1, <2>3 DEF SavedHolds
  <2>5. u = v
    BY <2>2, <2>4, ResumableTellsApart DEF BufferedConditions
  <2> QED
    BY <2>4, <2>5 DEF InFile, Claimed
<1> QED
  BY <1>1, BufferAlways, PTL

\* Under the same conditions Ok means an intact file, though a version comes back
\* that the state file, or a part of the data file, was of.
THEOREM BufferedFilesIntact ==
  ASSUME BufferedConditions
  PROVE  Spec => []CompletedIntact
<1>1. BufferInv => CompletedIntact
  BY DEF BufferInv, RestInv, CompletedIntact
<1> QED
  BY <1>1, BufferAlways, PTL

-------------------------------------------------------------------------------
(***************************************************************************)
(* A checksum settles it.                                                  *)
(***************************************************************************)

\* The digest is known, and where the power may fail, fsync works.
ChecksumConditions ==
  /\ Checksum
  /\ "powerloss" \in Faults => "syncfail" \notin Faults

\* The blocks that a write nobody awaits may still change: none, unless a stream
\* breaks under a write.
Loose == IF "error" \in Faults THEN doubtful ELSE {}

Synced(b) == "powerloss" \in Faults => platter[b] = {cache[b]}

\* Only dropped files have writes that outlive the call, on loose blocks; all else
\* that the checksum was computed of is synced, and stays.
LooseInv ==
  \A p \in pending : /\ p.owner = Dropped => p.block \in Loose
                     /\ p.owner \notin broken

SettledInv ==
  /\ LooseInv
  /\ Completing => \A b \in Block \ Loose : Synced(b)
  /\ result = "ok" => /\ pc = "idle"
                      /\ \A b \in (0 .. SizeOf[info] - 1) \ Loose : cache[b] = info
                      /\ \A b \in Block \ Loose : Synced(b)

\* A worker that has not heard of a failed write yet has no other under way.
LEMMA BrokenStep ==
  ASSUME TypeInv, LooseInv, [Next]_vars, NEW p \in pending'
  PROVE  p.owner \notin broken'
<1>t. broken \subseteq Workers /\ Dropped \notin Workers
  BY RangeTypes DEF TypeInv, TypeOK, WorkerTypeOK, Dropped
<1>u. ASSUME p \in pending, broken' \subseteq broken PROVE p.owner \notin broken'
  BY <1>u DEF LooseInv
<1>1. ASSUME NEW n \in ThreadChoices, Call(n) PROVE p.owner \notin broken'
  BY <1>1, <1>u DEF Call, taskVars, ioVars
<1>2. CASE CallStep
  <2>1. pending' \subseteq pending
    BY <1>2 DEF CallStep, Probe, ProbeCancelled, StartFails, StartWorkers, Join, ReturnCancelled,
       ReturnError, ReturnChanged, ReturnMismatch, FinalSync, DeleteState, Verify, VerifyFails,
       taskVars, ioVars
  <2>2. broken' \subseteq broken
    BY <1>2 DEF CallStep, Probe, ProbeCancelled, StartFails, StartWorkers, Join, ReturnCancelled,
       ReturnError, ReturnChanged, ReturnMismatch, FinalSync, DeleteState, Verify, VerifyFails,
       Return, taskVars, ioVars
  <2> QED
    BY <1>u, <2>1, <2>2
<1>3. ASSUME NEW w \in Workers, WorkerStep(w) PROVE p.owner \notin broken'
  <2>1. ASSUME NEW n \in 1 .. MaxChunk, Deliver(w, n) PROVE p.owner \notin broken'
    <3>1. /\ w \notin broken /\ broken' = broken
          /\ pending' = pending \cup [owner : {w}, block : currents[w] .. WriteEnd(w, n) - 1, content : {body[w]}]
      BY <2>1 DEF Deliver, CanWrite, Write
    <3> QED
      BY <1>u, <3>1
  <2>2. CASE StreamBreaks(w)
    <3>1. broken' \subseteq broken
      BY <2>2 DEF StreamBreaks
    <3>2. CASE p \in pending
      BY <1>u, <3>1, <3>2
    <3>3. CASE p \notin pending
      <4>1. PICK q \in pending : p = [q EXCEPT !.owner = IF q.owner = w THEN Dropped ELSE q.owner]
        BY <2>2 DEF StreamBreaks
      <4>2. q \in [owner : Workers \cup {Dropped}, block : Block, content : Version]
        BY ValueTypes
      <4>3. p.owner = Dropped
        BY <3>3, <4>1, <4>2
      <4> QED
        BY <1>t, <3>1, <4>3
    <3> QED
      BY <3>2, <3>3
  <2>3. CASE \/ Loop(w) \/ Reply206(w) \/ Reply200(w) \/ Reply416(w) \/ ReplyError(w)
             \/ StreamCancelled(w) \/ StreamEnds(w) \/ Flush(w) \/ BackoffOver(w)
    BY <2>3, <1>u DEF Loop, Reply206, Reply200, Reply416, ReplyError, StreamCancelled, StreamEnds,
                      Flush, BackoffOver, NoIO
  <2> QED
    BY <1>3, <2>1, <2>2, <2>3 DEF WorkerStep
<1>4. CASE SaverStep
  BY <1>4, <1>u DEF SaverStep, ioVars
<1>5. ASSUME NEW q \in pending, Land(q) PROVE p.owner \notin broken'
  BY <1>5, <1>u DEF Land
<1>6. ASSUME NEW q \in pending, LandFails(q) PROVE p.owner \notin broken'
  <2>1. broken' = broken \cup ({q.owner} \ {Dropped}) /\ p \in pending
    BY <1>6 DEF LandFails
  <2>2. q.owner # Dropped => p \notin PendingOf(q.owner)
    BY <1>6 DEF LandFails
  <2> QED
    BY <1>u, <2>1, <2>2 DEF PendingOf, LooseInv
<1>7. CASE Kill \/ PowerLoss
  BY <1>7 DEF Kill, PowerLoss
<1>8. CASE Cancel \/ ServerPublishes \/ UNCHANGED vars
  BY <1>8, <1>u DEF Cancel, ServerPublishes, vars, taskVars, ioVars
<1> QED
  BY <1>1, <1>2, <1>3, <1>4, <1>5, <1>6, <1>7, <1>8 DEF Next, EnvironmentStep

LEMMA LooseStep ==
  ASSUME TypeInv, LooseInv, [Next]_vars
  PROVE  LooseInv' /\ Loose \subseteq Loose'
<1>1. Loose \subseteq Loose'
  BY DoubtsTyped DEF Loose
<1>2. ASSUME NEW p \in pending', p.owner = Dropped PROVE p.block \in Loose'
  <2>1. CASE p \in pending
    BY <1>1, <1>2, <2>1 DEF LooseInv
  <2>2. CASE p \notin pending
    <3>1. p.block \in doubtful'
      BY <1>2, <2>2, DroppedWrites
    <3>2. PICK w \in Workers : StreamBreaks(w) /\ PendingOf(w) # {}
      BY <1>2, <2>2, DroppedWrites
    <3>3. w \notin broken
      BY <3>2 DEF LooseInv, PendingOf
    <3>4. "error" \in Faults
      BY <3>2, <3>3 DEF StreamBreaks
    <3> QED
      BY <3>1, <3>4 DEF Loose
  <2> QED
    BY <2>1, <2>2
<1> QED
  BY <1>1, <1>2, BrokenStep DEF LooseInv

LEMMA SettledStep ==
  ASSUME ChecksumConditions, TypeInv, SettledInv, [Next]_vars
  PROVE  SettledInv'
<1>l. LooseInv' /\ Loose \subseteq Loose' /\ LooseInv
  BY LooseStep DEF SettledInv
<1>t. /\ cache \in [Block -> Content] /\ platter \in [Block -> SUBSET Content]
      /\ 0 .. SizeOf[info] - 1 \subseteq Block
  BY ValueTypes
\* The file stays as it is, or what of it is not synced yet becomes so.
<1>k. ASSUME cache' = cache, platter' = platter \/ platter' = Durably([b \in Block |-> {cache[b]}], platter),
             NEW b \in Block, Synced(b)
      PROVE  Synced(b)'
  BY <1>k DEF Synced, Durably
\* Nothing but the end of a call says Ok.
<1>i. ASSUME UNCHANGED <<info, result>>, pc = "idle" => pc' = "idle", Completing' => Completing,
             \A b \in Block \ Loose' : cache'[b] = cache[b] /\ (Synced(b) => Synced(b)')
      PROVE  SettledInv'
  BY <1>i, <1>l, <1>t DEF SettledInv
<1>n. ASSUME result' # "ok", ~Completing' PROVE SettledInv'
  BY <1>n, <1>l DEF SettledInv
<1>1. ASSUME NEW n \in ThreadChoices, Call(n) PROVE SettledInv'
  BY <1>1, <1>n DEF Call, Completing
<1>2. CASE CallStep
  <2>r. pc # "idle" /\ result # "ok"
    BY <1>2 DEF CallStep, Probe, ProbeCancelled, StartFails, StartWorkers, Join, ReturnCancelled,
       ReturnError, ReturnChanged, ReturnMismatch, FinalSync, DeleteState, Verify, VerifyFails,
       AllOk, SaverAwaited, SettledInv
  <2>1. CASE Probe \/ ProbeCancelled \/ StartFails \/ StartWorkers \/ Join \/ ReturnCancelled
             \/ ReturnError \/ ReturnChanged \/ ReturnMismatch \/ VerifyFails
    BY <1>n, <2>1, <2>r DEF Probe, ProbeCancelled, StartFails, StartWorkers, Join,
       ReturnCancelled, ReturnError, ReturnChanged, ReturnMismatch, VerifyFails, Return, Completing
  <2>2. CASE FinalSync
    <3>1. \A b \in Block : Synced(b)'
      BY <2>2 DEF FinalSync, Synced, SyncedAtEnd, Durably, ChecksumConditions
    <3>2. result' # "ok"
      BY <2>2, <2>r DEF FinalSync
    <3> QED
      BY <3>1, <3>2, <1>l DEF SettledInv
  <2>3. CASE DeleteState
    <3>1. UNCHANGED <<cache, platter>> /\ result' # "ok" /\ (Completing' => Completing)
      BY <2>3, <2>r DEF DeleteState, Return, Completing
    <3> QED
      BY <1>k, <1>l, <3>1 DEF SettledInv
  <2>4. CASE Verify
    <3>1. Intact /\ \A b \in Block \ Loose : Synced(b)
      BY <2>4 DEF Verify, Verified, ChecksumConditions, SettledInv, Completing
    <3>2. UNCHANGED <<cache, platter, info>> /\ pc' = "idle"
      BY <2>4 DEF Verify, Return, diskVars
    <3> QED
      BY <3>1, <3>2, <1>k, <1>l DEF SettledInv, Completing, Intact
  <2> QED
    BY <1>2, <2>1, <2>2, <2>3, <2>4 DEF CallStep
\* Workers have ended by then.
<1>3. ASSUME NEW w \in Workers, WorkerStep(w) PROVE SettledInv'
  <2>1. wpc[w] \notin Ended
    BY <1>3 DEF WorkerStep, Loop, Reply206, Reply200, Reply416, ReplyError, Deliver,
       StreamCancelled, StreamBreaks, StreamEnds, Flush, BackoffOver, Ended
  <2>2. pc = "run" /\ UNCHANGED callVars
    BY <1>3, <2>1, RunningWorker DEF WorkerStep
  <2> QED
    BY <1>n, <2>2 DEF callVars, SettledInv, Completing
<1>4. CASE SaverStep
  <2>1. UNCHANGED <<cache, info, result, pc>>
    BY <1>4 DEF SaverStep, callVars
  <2>2. platter' = platter \/ platter' = Durably([b \in Block |-> {cache[b]}], platter)
    BY <1>4 DEF SaverStep, ReadPosition, SyncData, Persist
  <2> QED
    BY <1>i, <1>k, <2>1, <2>2 DEF Completing
<1>5. CASE EnvironmentStep
  <2>1. CASE Cancel \/ ServerPublishes \/ \E p \in pending : LandFails(p)
    <3>1. UNCHANGED <<cache, platter, info, result, pc>>
      BY <2>1 DEF Cancel, ServerPublishes, LandFails, diskVars, callVars
    <3> QED
      BY <1>i, <1>k, <3>1 DEF Completing
  <2>2. CASE Kill
    BY <1>n, <2>2 DEF Kill, Return, Completing
  \* What lands once the call is over was dropped.
  <2>3. ASSUME NEW p \in pending, Land(p) PROVE SettledInv'
    <3>1. CASE pc = "run"
      BY <1>n, <2>3, <3>1 DEF Land, callVars, SettledInv, Completing
    <3>2. CASE pc # "run"
      <4>1. p.owner = Dropped
        BY <3>2, EndedDropped DEF TypeInv, TypeOK, CallTypeOK, BeforeRun, AfterRun
      <4>2. p.block \in Loose'
        BY <1>l, <4>1 DEF LooseInv
      <4>3. /\ UNCHANGED <<info, result, pc>>
            /\ \A b \in Block : b # p.block =>
                 cache'[b] = cache[b] /\ ("powerloss" \in Faults => platter'[b] = platter[b])
        BY <1>t, <2>3 DEF Land, callVars, Durably
      <4> QED
        BY <1>i, <4>2, <4>3 DEF Completing, Synced
    <3> QED
      BY <3>1, <3>2
  <2>4. CASE PowerLoss
    <3>1. CASE result # "ok" \/ pc # "idle"
      BY <1>n, <2>4, <3>1 DEF PowerLoss, Return, Completing
    <3>2. CASE result = "ok" /\ pc = "idle"
      <4>1. PICK kept \in [Block -> Content] :
               /\ \A b \in Block : kept[b] \in platter[b]
               /\ cache' = kept /\ platter' = [b \in Block |-> {kept[b]}]
        BY <2>4 DEF PowerLoss
      <4>2. \A b \in Block \ Loose : platter[b] = {cache[b]}
        BY <2>4, <3>2 DEF SettledInv, Synced, PowerLoss
      <4>3. \A b \in Block \ Loose' : cache'[b] = cache[b] /\ Synced(b)'
        BY <1>l, <4>1, <4>2 DEF Synced
      <4>4. info' = info /\ pc' = "idle" /\ result' = result
        BY <2>4, <3>2 DEF PowerLoss, Return
      <4> QED
        BY <1>i, <4>3, <4>4 DEF Completing
    <3> QED
      BY <3>1, <3>2
  <2> QED
    BY <1>5, <2>1, <2>2, <2>3, <2>4 DEF EnvironmentStep
<1>6. CASE UNCHANGED vars
  <2>1. UNCHANGED <<cache, platter, info, result, pc>>
    BY <1>6 DEF vars, diskVars, callVars
  <2> QED
    BY <1>i, <1>k, <2>1 DEF Completing
<1> QED
  BY <1>1, <1>2, <1>3, <1>4, <1>5, <1>6 DEF Next

LEMMA SettledAlways == ASSUME ChecksumConditions PROVE Spec => []SettledInv
<1>1. Init => SettledInv
  BY DEF Init, SettledInv, LooseInv, Completing
<1>2. TypeInv /\ SettledInv /\ [Next]_vars => TypeInv' /\ SettledInv'
  BY TypeStep, SettledStep
<1> QED
  BY <1>1, <1>2, TypeInit, PTL DEF Spec

\* With a checksum, no server, no fault, no validator that is missing or the same
\* for two versions, and no state file makes download() return Ok for a file that
\* is not of the version probed, nor does a loss of power afterwards; a block may
\* change later only if a broken stream left a write on its way to it.
THEOREM ChecksumSound ==
  ASSUME ChecksumConditions
  PROVE  Spec => []CompletedSound
<1>1. SettledInv => CompletedSound
  BY DEF SettledInv, Loose, CompletedSound
<1> QED
  BY <1>1, SettledAlways, PTL

\* ... and where no stream breaks, no block does: a write that fails takes the rest
\* of its worker's with it, so that nothing is left to land once the call has ended.
THEOREM ChecksumSettles ==
  ASSUME ChecksumConditions, "error" \notin Faults
  PROVE  Spec => []CompletedIntact
<1>1. SettledInv => CompletedIntact
  BY DEF SettledInv, Loose, CompletedIntact, Intact
<1> QED
  BY <1>1, SettledAlways, PTL
===============================================================================
