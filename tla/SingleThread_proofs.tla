------------------------- MODULE SingleThread_proofs -------------------------
(***************************************************************************)
(* Theorems about SingleThread, for any number of versions, blocks,        *)
(* retries and, where they do not say otherwise, calls.                    *)
(***************************************************************************)
EXTENDS SingleThread, TLAPS

-------------------------------------------------------------------------------
(***************************************************************************)
(* The file.                                                               *)
(***************************************************************************)

\* All that the file holds is of version v.
Holds(f, v) == \A k \in 1 .. Len(f) : f[k] = v

LEMMA HoldsRange ==
  ASSUME NEW f \in Seq(Content), NEW v \in Version, Holds(f, v)
  PROVE  Range(f) \subseteq {v}
  BY DEF Holds, Range

LEMMA HoldsWhole ==
  ASSUME NEW f \in Seq(Content), NEW v \in Version, Holds(f, v), Len(f) = SizeOf[v]
  PROVE  f = Whole(v)
  BY ConstantsAssumption DEF Holds, Whole

\* What a write appends: blocks of one version.
LEMMA Appended ==
  ASSUME NEW f \in Seq(Content), NEW v \in Version, NEW n \in Nat,
         NEW tail \in [1 .. n -> {v}]
  PROVE  /\ f \o tail \in Seq(Content)
         /\ Len(f \o tail) = Len(f) + n
         /\ Holds(f, v) => Holds(f \o tail, v)
<1>1. tail \in Seq(Content) /\ Len(tail) = n /\ \A k \in 1 .. n : tail[k] = v
  BY ConstantsAssumption DEF Version, Content
<1>2. f \o tail \in Seq(Content) /\ Len(f \o tail) = Len(f) + n
  BY <1>1
<1>3. \A k \in 1 .. Len(f \o tail) :
        (f \o tail)[k] = IF k <= Len(f) THEN f[k] ELSE tail[k - Len(f)]
  BY <1>1
<1>4. Holds(f, v) => Holds(f \o tail, v)
  BY <1>1, <1>2, <1>3 DEF Holds
<1> QED
  BY <1>2, <1>4

-------------------------------------------------------------------------------
(***************************************************************************)
(* Type correctness, under every fault.                                    *)
(***************************************************************************)

\* What every call starts from and ends with.
LEMMA Zeros ==
  1 \in Version /\ 0 \in 0 .. MaxChunk /\ 0 \in 0 .. AtLeast(MaxRetries, 1) - 1
  BY ConstantsAssumption DEF Version, AtLeast

LEMMA ReturnTyped ==
  ASSUME TypeOK, NEW r \in {"ok", "failed", "cancelled", "corrupt", "stuck", "unread",
                             "panicked", "killed"},
         Return(r), srv' \in Version, file' \in Seq(Content)
  PROVE  TypeOK'
  BY Zeros DEF TypeOK, Return, probeVars

\* The count of failures stays below the limit: it is tested before the next attempt.
LEMMA RetryTyped ==
  ASSUME TypeOK, Retry, UNCHANGED <<srv, file>>
  PROVE  TypeOK'
<1>1. CASE GivesUp /\ Return("failed")
  BY <1>1, ReturnTyped DEF TypeOK
<1>2. CASE ~GivesUp /\ pc' = "backoff" /\ attempt' = Failures
           /\ resuming' = FALSE /\ body' = 1 /\ total' = None /\ lost' = 0
           /\ UNCHANGED <<probeVars, cancel, result, calls>>
  <2>1. attempt' \in 0 .. AtLeast(MaxRetries, 1) - 1
    BY <1>2, ConstantsAssumption DEF TypeOK, GivesUp, Failures, AtLeast
  <2> QED
    BY <1>2, <2>1, Zeros DEF TypeOK, probeVars
<1> QED
  BY <1>1, <1>2 DEF Retry

LEMMA DisclosedTyped ==
  ASSUME TypeOK, NEW fault, NEW otherwise \in Nat \cup {None}
  PROVE  Disclosed(fault, otherwise) \subseteq Nat \cup {None}
  BY ConstantsAssumption DEF TypeOK, Disclosed

\* What a chunk adds to the file, or fails to add.
LEMMA WriteTyped ==
  ASSUME TypeOK, NEW n \in 1 .. MaxChunk, Deliver(n)
  PROVE  /\ file' \in Seq(Content)
         /\ lost' \in 0 .. MaxChunk
         /\ Len(file') <= SizeOf[body]
         /\ Holds(file, body) => Holds(file', body)
<1>0. file \in Seq(Content) /\ body \in Version /\ lost \in 0 .. MaxChunk /\ n \in Nat
  BY ConstantsAssumption DEF TypeOK
<1>1. WriteLen(n) \in 0 .. n
  BY ConstantsAssumption, NoneAssumption
     DEF TypeOK, Deliver, WriteLen, Filled, Pos, AtMost
<1>2. Len(file) + n <= SizeOf[body] /\ SizeOf[body] \in Nat
  BY <1>0, ConstantsAssumption DEF Deliver
<1>3. CASE file' = file /\ lost' = WriteLen(n)
  BY <1>0, <1>1, <1>2, <1>3, ConstantsAssumption
<1>4. CASE file' = file \o [k \in 1 .. WriteLen(n) |-> body] /\ lost' = lost
  <2> DEFINE added == WriteLen(n)
             tail == [k \in 1 .. added |-> body]
  <2>1. added \in Nat /\ added <= n /\ file' = file \o tail
    BY <1>0, <1>1, <1>4
  <2>2. tail \in [1 .. added -> {body}]
    OBVIOUS
  <2> HIDE DEF added, tail
  <2>3. /\ file' \in Seq(Content)
        /\ Len(file') = Len(file) + added
        /\ Holds(file, body) => Holds(file', body)
    BY <1>0, <2>1, <2>2, Appended
  <2>4. Len(file) \in Nat
    BY <1>0
  <2>5. Len(file') <= SizeOf[body]
    BY <1>0, <1>2, <2>1, <2>3, <2>4
  <2> QED
    BY <1>0, <1>4, <2>3, <2>5
<1> QED
  BY <1>3, <1>4 DEF Deliver

LEMMA CallStepTyped ==
  ASSUME TypeOK, CallStep
  PROVE  TypeOK'
<1> USE ConstantsAssumption
<1>0. srv' = srv /\ srv' \in Version
  BY DEF CallStep, TypeOK
<1>1. CASE Probe
  <2>1. expected' \in Nat \cup {None}
    BY <1>1, DisclosedTyped DEF Probe
  <2> QED
    BY <1>0, <1>1, <2>1 DEF Probe, Goto, TypeOK, requestVars
<1>2. CASE ProbeFails \/ AttemptCancelled \/ ReplyUnreachable \/ SendCancelled
           \/ StreamCancelled \/ FinishMismatch \/ FinishOk
  BY <1>0, <1>2, ReturnTyped
     DEF ProbeFails, AttemptCancelled, ReplyUnreachable, SendCancelled,
         StreamCancelled, FinishMismatch, FinishOk, TypeOK
<1>3. CASE FinishCorrupt \/ FinishUnread
  <2>1. file \in Seq(Content) /\ <<>> \in Seq(Content)
    BY DEF TypeOK
  <2>2. file' = file \/ file' = <<>>
    BY <1>3 DEF FinishCorrupt, FinishUnread, AfterMismatch
  <2>3. file' \in Seq(Content)
    BY <2>1, <2>2
  <2> QED
    BY <1>0, <1>3, <2>3, ReturnTyped DEF FinishCorrupt, FinishUnread
<1>4. CASE SkipAttempt
  BY <1>0, <1>4 DEF SkipAttempt, Goto, TypeOK, probeVars, requestVars
<1>5. CASE Send
  BY <1>0, <1>5 DEF Send, Goto, TypeOK, probeVars
<1>6. CASE BackoffOver
  <2>1. CASE cancel /\ Return("cancelled")
    BY <1>0, <1>6, <2>1, ReturnTyped DEF BackoffOver, TypeOK
  <2>2. CASE Goto("attempt") /\ UNCHANGED <<probeVars, requestVars>>
    BY <1>0, <1>6, <2>2 DEF BackoffOver, Goto, TypeOK, probeVars, requestVars
  <2> QED
    BY <1>6, <2>1, <2>2 DEF BackoffOver
<1>7. ASSUME NEW f \in Seq(Content), NEW size \in Nat \cup {None}, Streams(f, size)
      PROVE  TypeOK'
  BY <1>0, <1>7 DEF Streams, Goto, TypeOK, probeVars
<1>8. CASE Reply206 \/ Reply200 \/ Reply206Unasked
  <2>1. expected \in Nat \cup {None} /\ file \in Seq(Content) /\ <<>> \in Seq(Content)
    BY DEF TypeOK
  <2>2. Disclosed("hidden", expected) \subseteq Nat \cup {None}
    BY <2>1, DisclosedTyped
  <2> QED
    BY <1>7, <1>8, <2>1, <2>2 DEF Reply206, Reply200, Reply206Unasked
<1>9. CASE ReplyError \/ StreamBreaks
  BY <1>0, <1>9, RetryTyped DEF ReplyError, StreamBreaks
<1>10. ASSUME NEW n \in 1 .. MaxChunk, Deliver(n) PROVE TypeOK'
  <2>1. file' \in Seq(Content) /\ lost' \in 0 .. MaxChunk
    BY <1>10, WriteTyped
  <2> QED
    BY <1>0, <1>10, <2>1 DEF Deliver, TypeOK, probeVars
<1>11. CASE StreamEnds
  <2>1. CASE Goto("finish") /\ UNCHANGED <<probeVars, requestVars>>
    BY <1>0, <1>11, <2>1 DEF StreamEnds, Goto, TypeOK, probeVars, requestVars
  <2>2. CASE Retry
    BY <1>0, <1>11, <2>2, RetryTyped DEF StreamEnds
  <2> QED
    BY <1>11, <2>1, <2>2 DEF StreamEnds
<1> QED
  BY <1>1, <1>2, <1>3, <1>4, <1>5, <1>6, <1>8, <1>9, <1>10, <1>11 DEF CallStep

LEMMA StepTyped ==
  ASSUME TypeOK, [Next]_vars
  PROVE  TypeOK'
<1> USE ConstantsAssumption
<1>1. CASE Call
  BY <1>1 DEF Call, TypeOK, probeVars, requestVars
<1>2. CASE CallStep
  BY <1>2, CallStepTyped
<1>3. CASE Cancel
  BY <1>3 DEF Cancel, TypeOK, probeVars, requestVars
<1>4. CASE Kill
  BY <1>4, ReturnTyped DEF Kill, TypeOK
<1>5. CASE ServerPublishes
  BY <1>5 DEF ServerPublishes, TypeOK, Version, probeVars, requestVars, callVars
<1>6. CASE UNCHANGED vars
  BY <1>6 DEF vars, TypeOK, probeVars, requestVars, callVars
<1> QED
  BY <1>1, <1>2, <1>3, <1>4, <1>5, <1>6 DEF Next, EnvironmentStep

LEMMA InitTyped == Init => TypeOK
<1> SUFFICES ASSUME Init PROVE TypeOK
  OBVIOUS
<1>1. file \in Seq(Content) /\ 0 \in 0 .. MaxCalls
  BY ConstantsAssumption DEF Init
<1> QED
  BY <1>1, Zeros DEF Init, TypeOK

\* Type correctness of the single-thread path; the bound of attempt says that a
\* call makes at most max_retries attempts (one if that is 0).
THEOREM TypeCorrect == Spec => []TypeOK
<1>1. TypeOK /\ [Next]_vars => TypeOK'
  BY StepTyped
<1> QED
  BY InitTyped, <1>1, PTL DEF Spec

-------------------------------------------------------------------------------
(***************************************************************************)
(* One call: what its attempts leave in the file is of one version.        *)
(***************************************************************************)

\* One call that starts without a file, and validators that tell every two
\* versions apart.  Over two calls the file may be a splice: the second vouches
\* for what the first left with the validator of its own probe.
OneCall == MaxCalls <= 1 /\ Leftovers = {<<>>}

ValidatorsTell ==
  \A u, v \in Version : u # v =>
    IfRangeValidator(EtagOf[u], LastModifiedOf[u]) \notin {None, EtagOf[v], LastModifiedOf[v]}

Conditions == OneCall /\ ValidatorsTell

Part(f, v) == Len(f) <= SizeOf[v] /\ Holds(f, v)

\* Nothing is in the file before the first request; then a beginning of a version
\* no older than the probed one, and while a body streams, of that body's.  No
\* older: a server that honours If-Range then serves the probed version, so that
\* this is what the file holds.
FileInv ==
  /\ calls = 0 => pc = "idle"
  /\ calls = 0 \/ pc = "probing" => file = <<>>
  /\ \E v \in Version : Part(file, v)
  /\ pc \notin {"idle", "probing"} =>
        info <= srv /\ \E v \in info .. srv : v \in Version /\ Part(file, v)
  /\ pc = "stream" => info <= body /\ body <= srv /\ Part(file, body)

LEMMA EmptyPart == ASSUME NEW v \in Version PROVE Part(<<>>, v)
  BY ConstantsAssumption DEF Part, Holds

LEMMA InitFile == ASSUME Conditions, Init PROVE FileInv
<1>1. file = <<>> /\ 1 \in Version
  BY Zeros DEF Init, Conditions, OneCall
<1>2. Part(file, 1)
  BY <1>1, EmptyPart
<1> QED
  BY <1>1, <1>2 DEF Init, FileInv

\* A call that ends leaves the file as it was, or none.
LEMMA ReturnFile ==
  ASSUME FileInv, pc # "idle", NEW r, Return(r), file' = file \/ file' = <<>>
  PROVE  FileInv'
<1>1. calls' = calls /\ calls # 0 /\ pc' = "idle"
  BY DEF FileInv, Return
<1>2. \E v \in Version : Part(file', v)
  BY EmptyPart, Zeros DEF FileInv
<1> QED
  BY <1>1, <1>2 DEF FileInv

\* A step between two requests does not touch the file.
LEMMA MoveFile ==
  ASSUME FileInv, pc \notin {"idle", "probing"}, pc' \notin {"idle", "probing", "stream"},
         UNCHANGED <<srv, file, info, calls>>
  PROVE  FileInv'
  BY DEF FileInv

LEMMA RetryFile ==
  ASSUME FileInv, pc \notin {"idle", "probing"}, Retry, UNCHANGED <<srv, file>>
  PROVE  FileInv'
<1>1. CASE GivesUp /\ Return("failed")
  BY <1>1, ReturnFile
<1>2. CASE ~GivesUp /\ pc' = "backoff" /\ UNCHANGED <<info, calls>>
  BY <1>2, MoveFile
<1> QED
  BY <1>1, <1>2 DEF Retry, probeVars

\* A body that is put behind what it continues, or in its place.
LEMMA StreamsFile ==
  ASSUME TypeOK, FileInv, pc = "sent", UNCHANGED srv,
         NEW f, NEW size, Streams(f, size), Part(f, srv)
  PROVE  FileInv'
<1>1. info' = info /\ calls' = calls /\ body' = srv /\ file' = f /\ pc' = "stream"
  BY DEF Streams, Goto, probeVars
<1>2. calls # 0 /\ info <= srv /\ srv \in Version /\ srv \in Nat /\ info \in Nat
  BY DEF FileInv, TypeOK, Version
<1>3. srv \in info .. srv
  BY <1>2
<1> QED
  BY <1>1, <1>2, <1>3 DEF FileInv

\* If-Range: a range is honoured for the version that was probed only.
LEMMA HonouredSame ==
  ASSUME Conditions, TypeOK, RangeHonoured PROVE info = srv
  BY DEF Conditions, ValidatorsTell, TypeOK, RangeHonoured, IfRange

LEMMA CallStepFile ==
  ASSUME Conditions, TypeOK, FileInv, CallStep
  PROVE  FileInv'
<1>0. /\ srv' = srv /\ srv \in Version /\ body \in Version
      /\ srv \in Nat /\ info \in Nat /\ body \in Nat
  BY DEF CallStep, TypeOK, Version
<1>1. CASE Probe
  <2>1. file' = <<>> /\ pc' = "attempt" /\ info' = srv /\ calls' = calls /\ calls # 0
    BY <1>1 DEF Probe, Goto, FileInv
  <2>2. Part(file', srv) /\ srv \in srv .. srv
    BY <1>0, <2>1, EmptyPart
  <2> QED
    BY <1>0, <2>1, <2>2 DEF FileInv
<1>2. CASE ProbeFails \/ AttemptCancelled \/ ReplyUnreachable \/ SendCancelled
           \/ StreamCancelled \/ FinishMismatch \/ FinishOk \/ FinishCorrupt \/ FinishUnread
  BY <1>2, ReturnFile
     DEF ProbeFails, AttemptCancelled, ReplyUnreachable, SendCancelled,
         StreamCancelled, FinishMismatch, FinishOk, FinishCorrupt, FinishUnread, AfterMismatch
<1>3. CASE SkipAttempt \/ Send
  BY <1>0, <1>3, MoveFile DEF SkipAttempt, Send, Goto, probeVars
<1>4. CASE BackoffOver
  <2>1. CASE cancel /\ Return("cancelled")
    BY <1>4, <2>1, ReturnFile DEF BackoffOver
  <2>2. CASE Goto("attempt") /\ UNCHANGED <<probeVars, requestVars>>
    BY <1>0, <1>4, <2>2, MoveFile DEF BackoffOver, Goto, probeVars
  <2> QED
    BY <1>4, <2>1, <2>2 DEF BackoffOver
<1>5. CASE Reply206
  <2>1. info = srv
    BY <1>5, HonouredSame DEF Reply206
  <2>2. Part(file, srv)
    BY <1>0, <1>5, <2>1 DEF Reply206, FileInv
  <2> QED
    BY <1>0, <1>5, <2>2, StreamsFile DEF Reply206
<1>6. CASE Reply200 \/ Reply206Unasked
  <2>1. Part(<<>>, srv)
    BY <1>0, EmptyPart
  <2> QED
    BY <1>0, <1>6, <2>1, StreamsFile DEF Reply200, Reply206Unasked
<1>7. CASE ReplyError \/ StreamBreaks
  BY <1>0, <1>7, RetryFile DEF ReplyError, StreamBreaks
<1>8. ASSUME NEW n \in 1 .. MaxChunk, Deliver(n) PROVE FileInv'
  <2>1. pc = "stream" /\ UNCHANGED <<pc, calls, info, body>>
    BY <1>8 DEF Deliver, probeVars
  <2>2. Part(file', body)
    BY <1>8, <2>1, WriteTyped DEF FileInv, Part
  <2>3. body \in info .. srv /\ calls # 0
    BY <1>0, <2>1 DEF FileInv
  <2> QED
    BY <1>0, <2>1, <2>2, <2>3 DEF FileInv
<1>9. CASE StreamEnds
  <2>1. CASE Goto("finish") /\ UNCHANGED <<probeVars, requestVars>>
    BY <1>0, <1>9, <2>1, MoveFile DEF StreamEnds, Goto, probeVars
  <2>2. CASE Retry
    BY <1>0, <1>9, <2>2, RetryFile DEF StreamEnds
  <2> QED
    BY <1>9, <2>1, <2>2 DEF StreamEnds
<1> QED
  BY <1>1, <1>2, <1>3, <1>4, <1>5, <1>6, <1>7, <1>8, <1>9 DEF CallStep

LEMMA StepFile ==
  ASSUME Conditions, TypeOK, FileInv, [Next]_vars
  PROVE  FileInv'
<1>1. CASE Call
  <2>1. calls = 0 /\ calls' # 0 /\ pc' = "probing" /\ file' = file
    BY <1>1, ConstantsAssumption DEF Call, Conditions, OneCall, TypeOK
  <2> QED
    BY <2>1 DEF FileInv
<1>2. CASE CallStep
  BY <1>2, CallStepFile
<1>3. CASE Cancel
  BY <1>3 DEF Cancel, FileInv, probeVars, requestVars
<1>4. CASE Kill
  BY <1>4, ReturnFile DEF Kill
<1>5. CASE ServerPublishes
  <2>1. /\ srv' = srv + 1 /\ srv \in Nat /\ info \in Nat /\ body \in Nat
        /\ UNCHANGED <<file, info, body, pc, calls>>
    BY <1>5 DEF ServerPublishes, TypeOK, Version, probeVars, requestVars, callVars
  <2>2. info .. srv \subseteq info .. srv'
    BY <2>1
  <2> QED
    BY <2>1, <2>2 DEF FileInv
<1>6. CASE UNCHANGED vars
  BY <1>6 DEF vars, FileInv, probeVars, requestVars, callVars
<1> QED
  BY <1>1, <1>2, <1>3, <1>4, <1>5, <1>6 DEF Next, EnvironmentStep

\* The attempts of one call never mix two versions of the resource in the file,
\* whatever the server answers and whenever it publishes: what If-Range is for.
THEOREM OneVersion == ASSUME Conditions PROVE Spec => []SingleVersion
<1>1. TypeOK /\ FileInv /\ [Next]_vars => TypeOK' /\ FileInv'
  BY StepTyped, StepFile
<1>2. Init => TypeOK /\ FileInv
  BY InitTyped, InitFile
<1>3. TypeOK /\ FileInv => SingleVersion
  BY HoldsRange DEF TypeOK, FileInv, Part, SingleVersion
<1> QED
  BY <1>1, <1>2, <1>3, PTL DEF Spec

-------------------------------------------------------------------------------
(***************************************************************************)
(* One call: Ok is a whole file.                                           *)
(***************************************************************************)

\* The same, and: no version is longer than an earlier one (a longer one that is
\* cut off at the probed length passes for complete), and a size is disclosed at
\* least once (without any, nothing tells a short body from a whole one).
WholeConditions ==
  /\ Conditions
  /\ \A u, v \in Version : u <= v => SizeOf[v] <= SizeOf[u]
  /\ "unsized" \in Faults => Faults \cap {"hidden", "partial"} = {}

\* A body is streamed with a total it cannot exceed; it ends the call if it
\* reaches that.
WholeInv ==
  /\ pc \notin {"idle", "probing"} =>
        expected = SizeOf[info] \/ (expected = None /\ "unsized" \in Faults)
  /\ pc = "stream" => total \in Nat /\ SizeOf[body] <= total
  /\ pc = "finish" => \E v \in Version : file = Whole(v)
  /\ result = "ok" => pc = "idle" /\ \E v \in Version : file = Whole(v)

LEMMA PartWhole ==
  ASSUME NEW f \in Seq(Content), NEW v \in Version, Part(f, v), SizeOf[v] <= Len(f)
  PROVE  f = Whole(v)
<1>1. Len(f) = SizeOf[v]
  BY ConstantsAssumption DEF Part
<1> QED
  BY <1>1, HoldsWhole DEF Part

LEMMA ReturnWhole ==
  ASSUME WholeInv, NEW r, Return(r), r = "ok" => pc = "finish" /\ file' = file
  PROVE  WholeInv'
<1>1. pc' = "idle" /\ result' = r
  BY DEF Return
<1> QED
  BY <1>1 DEF WholeInv, Whole

\* A step between two requests: the probe's result stays, and no call succeeds.
LEMMA MoveWhole ==
  ASSUME WholeInv, pc \notin {"idle", "probing"}, pc' \in {"attempt", "sent", "backoff"},
         UNCHANGED <<info, expected, result>>
  PROVE  WholeInv'
  BY DEF WholeInv

LEMMA RetryWhole ==
  ASSUME WholeInv, pc \notin {"idle", "probing"}, Retry
  PROVE  WholeInv'
<1>1. CASE GivesUp /\ Return("failed")
  BY <1>1, ReturnWhole
<1>2. CASE ~GivesUp /\ pc' = "backoff" /\ UNCHANGED <<info, expected, result>>
  BY <1>2, MoveWhole
<1> QED
  BY <1>1, <1>2 DEF Retry, probeVars

\* The two ways on to the checks of download_inner.
LEMMA FinishWhole ==
  ASSUME WholeInv, pc \notin {"idle", "probing"}, NEW v \in Version, file = Whole(v),
         pc' = "finish", UNCHANGED <<file, info, expected, result>>
  PROVE  WholeInv'
  BY DEF WholeInv, Whole

\* What a response discloses is no less than what it sends.
LEMMA StreamsWhole ==
  ASSUME WholeInv, pc = "sent", NEW f, NEW size \in Nat, Streams(f, size), SizeOf[srv] <= size
  PROVE  WholeInv'
  BY DEF WholeInv, Streams, Goto, probeVars

LEMMA CallStepWhole ==
  ASSUME WholeConditions, TypeOK, FileInv, WholeInv, CallStep
  PROVE  WholeInv'
<1>0. /\ srv \in Version /\ info \in Version /\ body \in Version /\ file \in Seq(Content)
      /\ srv \in Nat /\ info \in Nat /\ SizeOf[srv] \in Nat /\ SizeOf[info] \in Nat
  BY ConstantsAssumption DEF TypeOK, Version
<1>1. CASE Probe
  <2>1. expected' = SizeOf[info'] \/ (expected' = None /\ "unsized" \in Faults)
    BY <1>1 DEF Probe, Disclosed
  <2>2. pc' = "attempt" /\ result' = result /\ result # "ok"
    BY <1>1 DEF Probe, Goto, WholeInv
  <2> QED
    BY <2>1, <2>2 DEF WholeInv
<1>2. CASE ProbeFails \/ AttemptCancelled \/ ReplyUnreachable \/ SendCancelled
           \/ StreamCancelled \/ FinishMismatch \/ FinishOk \/ FinishCorrupt \/ FinishUnread
  BY <1>2, ReturnWhole
     DEF ProbeFails, AttemptCancelled, ReplyUnreachable, SendCancelled,
         StreamCancelled, FinishMismatch, FinishOk, FinishCorrupt, FinishUnread
<1>3. CASE SkipAttempt
  <2>1. expected = SizeOf[info] /\ SizeOf[info] <= Len(file)
    BY <1>3 DEF SkipAttempt, AlreadyComplete, WholeInv
  <2>2. PICK v \in info .. srv : v \in Version /\ Part(file, v)
    BY <1>3 DEF SkipAttempt, FileInv
  <2>3. SizeOf[v] <= SizeOf[info] /\ SizeOf[v] \in Nat /\ Len(file) \in Nat
    BY <1>0, <2>2, ConstantsAssumption DEF WholeConditions
  <2>4. file = Whole(v)
    BY <1>0, <2>1, <2>2, <2>3, PartWhole
  <2> QED
    BY <1>3, <2>2, <2>4, FinishWhole DEF SkipAttempt, Goto, probeVars
<1>4. CASE Send
  BY <1>4, MoveWhole DEF Send, Goto, probeVars
<1>5. CASE BackoffOver
  <2>1. CASE cancel /\ Return("cancelled")
    BY <2>1, ReturnWhole
  <2>2. CASE Goto("attempt") /\ UNCHANGED <<probeVars, requestVars>>
    BY <1>5, <2>2, MoveWhole DEF BackoffOver, Goto, probeVars
  <2> QED
    BY <1>5, <2>1, <2>2 DEF BackoffOver
<1>6. CASE Reply206 \/ Reply200 \/ Reply206Unasked
  <2>1. SizeOf[srv] <= SizeOf[info]
    BY <1>0, <1>6 DEF Reply206, Reply200, Reply206Unasked, FileInv, WholeConditions
  <2>2. Faults \cap {"hidden", "partial"} # {} => expected = SizeOf[info]
    BY <1>6 DEF Reply206, Reply200, Reply206Unasked, WholeInv, WholeConditions
  <2>3. \A size \in Disclosed("hidden", expected) : size \in Nat /\ SizeOf[srv] <= size
    BY <1>0, <2>1, <2>2 DEF Disclosed
  <2>4. CASE Reply206 \/ Reply200
    BY <2>3, <2>4, StreamsWhole DEF Reply206, Reply200
  <2>5. CASE Reply206Unasked
    BY <1>0, <2>1, <2>2, <2>5, StreamsWhole DEF Reply206Unasked
  <2> QED
    BY <1>6, <2>4, <2>5
<1>7. CASE ReplyError \/ StreamBreaks
  BY <1>7, RetryWhole DEF ReplyError, StreamBreaks
<1>8. ASSUME NEW n \in 1 .. MaxChunk, Deliver(n) PROVE WholeInv'
  <2>1. pc = "stream" /\ UNCHANGED <<pc, info, expected, body, total, result>>
    BY <1>8 DEF Deliver, probeVars
  <2> QED
    BY <2>1 DEF WholeInv
<1>9. CASE StreamEnds
  <2>1. CASE LengthRight /\ Goto("finish") /\ UNCHANGED <<probeVars, requestVars>>
    <3>1. Len(file) = total /\ SizeOf[body] <= total /\ Part(file, body)
      BY <1>9, <2>1, NoneAssumption DEF StreamEnds, LengthRight, WholeInv, FileInv
    <3>2. file = Whole(body)
      BY <1>0, <3>1, PartWhole
    <3> QED
      BY <1>0, <1>9, <2>1, <3>2, FinishWhole DEF StreamEnds, Goto, probeVars
  <2>2. CASE Retry
    BY <1>9, <2>2, RetryWhole DEF StreamEnds
  <2> QED
    BY <1>9, <2>1, <2>2 DEF StreamEnds
<1> QED
  BY <1>1, <1>2, <1>3, <1>4, <1>5, <1>6, <1>7, <1>8, <1>9 DEF CallStep

LEMMA StepWhole ==
  ASSUME WholeConditions, TypeOK, FileInv, WholeInv, [Next]_vars
  PROVE  WholeInv'
<1>1. CASE Call
  BY <1>1 DEF Call, WholeInv
<1>2. CASE CallStep
  BY <1>2, CallStepWhole
<1>3. CASE Cancel
  BY <1>3 DEF Cancel, WholeInv, Whole, probeVars, requestVars
<1>4. CASE Kill
  BY <1>4, ReturnWhole DEF Kill
<1>5. CASE ServerPublishes
  BY <1>5 DEF ServerPublishes, WholeInv, Whole, probeVars, requestVars, callVars
<1>6. CASE UNCHANGED vars
  BY <1>6 DEF vars, WholeInv, Whole, probeVars, requestVars, callVars
<1> QED
  BY <1>1, <1>2, <1>3, <1>4, <1>5, <1>6 DEF Next, EnvironmentStep

\* Ok from the single-thread path: the file is a version of the resource from its
\* first to its last byte, however many attempts wrote it.
THEOREM OkWhole == ASSUME WholeConditions PROVE Spec => []OkIsWhole
<1>1. /\ TypeOK /\ FileInv /\ WholeInv /\ [Next]_vars
      => TypeOK' /\ FileInv' /\ WholeInv'
  BY StepTyped, StepFile, StepWhole DEF WholeConditions
<1>2. Init => TypeOK /\ FileInv /\ WholeInv
  BY InitTyped, InitFile DEF WholeConditions, Init, WholeInv
<1>3. WholeInv => OkIsWhole
  BY DEF WholeInv, OkIsWhole
<1> QED
  BY <1>1, <1>2, <1>3, PTL DEF Spec

===============================================================================
