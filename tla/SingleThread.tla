---------------------------- MODULE SingleThread ----------------------------
(***************************************************************************)
(* The single-thread path of the downloader (single_thread and             *)
(* single_thread_attempt in src/src/downloader.rs, and download_inner      *)
(* around them) over a sequence of calls for one URL and one file.  There  *)
(* is no resume state: an attempt appends to whatever the file holds.      *)
(*                                                                         *)
(* A file is a sequence of blocks, each the version of the resource its    *)
(* bytes came from, or 0 for a hole; no file is the same as an empty one.  *)
(* One step is the code between two awaits.  A write in flight when the    *)
(* process is killed leaves the file as if it had not been issued, and the *)
(* end of every attempt waits for the last one: writes are atomic here.    *)
(***************************************************************************)
EXTENDS DownloadState, Sequences, Functions

CONSTANTS
  MaxVersion,        \* bound: the server publishes versions 1 .. MaxVersion
  SizeOf,            \* a version's length in blocks
  EtagOf,            \* a version's ETag ([weak, tag] or None)
  LastModifiedOf,    \* a version's Last-Modified, or None
  RangeSupport,      \* whether a probe may find range support
  MaxRetries,        \* config.max_retries
  MaxChunk,          \* bound: blocks in one chunk of a response body
  MaxCalls,          \* bound: calls of download()
  Checksum,          \* the caller, or the server, gave a checksum
  Leftovers,         \* the files there may be before the first call
  Faults             \* what may go wrong, see below

Version == 1 .. MaxVersion
Content == 0 .. MaxVersion

(***************************************************************************)
(* The faults an instance admits.                                          *)
(*   change        the server publishes a new version                      *)
(*   full          the server answers 200 to a Range request               *)
(*   partial       ... or 206 to a request without one                     *)
(*   success       ... or some other 2xx status                            *)
(*   unsized       a probe does not disclose the size                      *)
(*   hidden        ... or the response to a GET does not                   *)
(*   short         a body ends early, cleanly                              *)
(*   error         a request, a stream, or opening the file fails          *)
(*   writefail     a write that already returned fails                     *)
(*   hashfail      the file cannot be read to compute its checksum         *)
(*   removefail    ... or a file that fails it cannot be removed           *)
(*   cancel, kill  the caller cancels; the process ends                    *)
(***************************************************************************)
AllFaults == {"change", "full", "partial", "success", "unsized", "hidden", "short",
              "error", "writefail", "hashfail", "removefail", "cancel", "kill"}

ASSUME ConstantsAssumption ==
  /\ MaxVersion \in Nat \ {0}
  /\ SizeOf \in [Version -> Nat]
  /\ DOMAIN EtagOf = Version
  /\ DOMAIN LastModifiedOf = Version
  /\ RangeSupport \in (SUBSET BOOLEAN) \ {{}}
  /\ MaxRetries \in Nat
  /\ MaxChunk \in Nat
  /\ MaxCalls \in Nat
  /\ Checksum \in BOOLEAN
  /\ Leftovers \in (SUBSET Seq(Content)) \ {{}}
  /\ Faults \subseteq AllFaults

ASSUME NoneAssumption == None \notin Nat

VARIABLES
  srv,       \* the version the server serves
  file,      \* the data file
  pc,        \* where the call is
  info,      \* the version the probe found
  expected,  \* the size it disclosed, or None
  ranged,    \* the range support it found
  cancel,    \* the call's cancellation token
  result,    \* how the last call ended
  calls,     \* how many calls were made
  attempt,   \* failed attempts of this call
  resuming,  \* the request has a Range
  body,      \* the version the response body is taken from
  total,     \* the size the response disclosed, or what was expected
  lost       \* blocks of a failed write that was not reported yet

probeVars   == <<info, expected, ranged>>
requestVars == <<resuming, body, total, lost>>
callVars    == <<pc, cancel, result, calls, attempt>>
vars == <<srv, file, probeVars, requestVars, callVars>>

Init ==
  /\ srv = 1
  /\ file \in Leftovers
  /\ pc = "idle"
  /\ info = 1 /\ expected = None /\ ranged = FALSE
  /\ cancel = FALSE /\ result = "none" /\ calls = 0 /\ attempt = 0
  /\ resuming = FALSE /\ body = 1 /\ total = None /\ lost = 0

Goto(place) == pc' = place /\ UNCHANGED <<cancel, result, calls, attempt>>

Return(r) ==
  /\ pc' = "idle"
  /\ result' = r
  /\ cancel' = FALSE
  /\ attempt' = 0
  /\ resuming' = FALSE /\ body' = 1 /\ total' = None /\ lost' = 0
  /\ UNCHANGED <<probeVars, calls>>

-------------------------------------------------------------------------------
(***************************************************************************)
(* The call.                                                               *)
(***************************************************************************)

Call ==
  /\ pc = "idle"
  /\ calls < MaxCalls
  /\ pc' = "probing"
  /\ calls' = calls + 1
  /\ result' = "none"
  /\ UNCHANGED <<srv, file, probeVars, requestVars, cancel, attempt>>

Disclosed(fault, otherwise) ==
  {SizeOf[srv]} \cup (IF fault \in Faults THEN {otherwise} ELSE {})

Probe ==
  /\ pc = "probing"
  /\ info' = srv
  /\ expected' \in Disclosed("unsized", None)
  /\ ranged' \in RangeSupport
  /\ Goto("attempt")
  /\ UNCHANGED <<file, requestVars>>

\* Only the probe itself is raced with the token.
ProbeFails ==
  /\ pc = "probing"
  /\ \/ cancel /\ Return("cancelled")
     \/ "error" \in Faults /\ Return("failed")
  /\ UNCHANGED file

\* The top of single_thread's loop.
AttemptCancelled ==
  /\ pc = "attempt"
  /\ cancel
  /\ Return("cancelled")
  /\ UNCHANGED file

AlreadyComplete == expected # None /\ Len(file) >= expected /\ Len(file) > 0

\* "Already complete from a previous run": nothing is asked of the server.
SkipAttempt ==
  /\ pc = "attempt"
  /\ ~cancel
  /\ AlreadyComplete
  /\ Goto("finish")
  /\ UNCHANGED <<file, probeVars, requestVars>>

Send ==
  /\ pc = "attempt"
  /\ ~cancel
  /\ ~AlreadyComplete
  /\ resuming' = (Len(file) > 0 /\ ranged)
  /\ Goto("sent")
  /\ UNCHANGED <<file, probeVars, body, total, lost>>

\* The failures in a row, this one included.  Mutant: it is not counted.
FailuresUncounted == attempt
Failures == attempt + 1

\* Another attempt, unless there were enough.  Mutant: one too many.
GivesUpLate == Failures > MaxRetries
GivesUp == Failures >= MaxRetries

Retry ==
  \/ GivesUp /\ Return("failed")
  \/ /\ ~GivesUp
     /\ pc' = "backoff"
     /\ attempt' = Failures
     /\ resuming' = FALSE /\ body' = 1 /\ total' = None /\ lost' = 0
     /\ UNCHANGED <<probeVars, cancel, result, calls>>

BackoffOver ==
  /\ pc = "backoff"
  /\ \/ Goto("attempt") /\ UNCHANGED <<probeVars, requestVars>>
     \/ cancel /\ Return("cancelled")
  /\ UNCHANGED file

-------------------------------------------------------------------------------
(***************************************************************************)
(* The answers to one request.                                             *)
(***************************************************************************)

IfRange == IfRangeValidator(EtagOf[info], LastModifiedOf[info])

\* The server honours a Range if If-Range names what it serves.
\* Mutant: If-Range is not sent.
RangeHonouredAlways == TRUE
RangeHonoured == IfRange = None \/ IfRange \in {EtagOf[srv], LastModifiedOf[srv]}

Streams(f, size) ==
  /\ file' = f
  /\ body' = srv
  /\ total' = size
  /\ Goto("stream")
  /\ UNCHANGED <<probeVars, resuming, lost>>

Reply206 ==
  /\ pc = "sent" /\ resuming
  /\ RangeHonoured
  /\ Len(file) < SizeOf[srv]
  /\ \E size \in Disclosed("hidden", expected) : Streams(file, size)

\* A body from byte 0 replaces the file.
Reply200 ==
  /\ pc = "sent"
  /\ ~resuming \/ ~RangeHonoured \/ "full" \in Faults
  /\ \E size \in Disclosed("hidden", expected) : Streams(<<>>, size)

\* A 206 that nobody asked for is taken for a 200.
Reply206Unasked ==
  /\ pc = "sent" /\ ~resuming
  /\ "partial" \in Faults
  /\ Streams(<<>>, expected)

\* A 416, another error status, no answer, or the file cannot be opened.
ReplyError ==
  /\ pc = "sent"
  /\ \/ resuming /\ RangeHonoured /\ Len(file) >= SizeOf[srv]
     \/ "error" \in Faults
  /\ Retry
  /\ UNCHANGED file

\* The match on the status has no arm for it but unreachable!().
ReplyUnreachable ==
  /\ pc = "sent"
  /\ "success" \in Faults
  /\ Return("panicked")
  /\ UNCHANGED file

SendCancelled ==
  /\ pc = "sent"
  /\ cancel
  /\ Return("cancelled")
  /\ UNCHANGED file

-------------------------------------------------------------------------------
(***************************************************************************)
(* The body.                                                               *)
(***************************************************************************)

\* pos: what was written, or was to be.
Pos == Len(file) + lost

Filled == total # None /\ Pos >= total

\* What is written of a chunk is capped at the total.
WriteLen(n) == IF total = None THEN n ELSE AtMost(n, total - Len(file))

\* A chunk of n blocks arrives and is written, or the write will fail.
Deliver(n) ==
  /\ pc = "stream"
  /\ ~cancel /\ lost = 0 /\ ~Filled
  /\ Len(file) + n <= SizeOf[body]
  /\ \/ /\ file' = file \o [k \in 1 .. WriteLen(n) |-> body]
        /\ UNCHANGED lost
     \/ /\ "writefail" \in Faults
        /\ lost' = WriteLen(n)
        /\ UNCHANGED file
  /\ UNCHANGED <<pc, cancel, result, calls, attempt, probeVars, resuming, body, total>>

StreamCancelled ==
  /\ pc = "stream"
  /\ cancel
  /\ Return("cancelled")
  /\ UNCHANGED file

\* The stream fails, or a write reports the failure of the one before.
StreamBreaks ==
  /\ pc = "stream"
  /\ ~cancel
  /\ "error" \in Faults \/ lost > 0
  /\ Retry
  /\ UNCHANGED file

BodyEnds == Pos >= SizeOf[body] \/ Filled \/ "short" \in Faults

\* For a known total, the file's length decides.  Mutant: it is not looked at.
LengthRightAnyway == TRUE
LengthRight == total = None \/ Len(file) = total

\* The loop over the body is over; what the last flush and sync report is ignored.
StreamEnds ==
  /\ pc = "stream"
  /\ BodyEnds
  /\ \/ LengthRight /\ Goto("finish") /\ UNCHANGED <<probeVars, requestVars>>
     \/ ~LengthRight /\ Retry
  /\ UNCHANGED file

-------------------------------------------------------------------------------
(***************************************************************************)
(* Back in download_inner.                                                 *)
(***************************************************************************)

Whole(v) == [k \in 1 .. SizeOf[v] |-> v]

SizeRight == expected = None \/ Len(file) = expected

Verified == ~Checksum \/ file = Whole(info)

\* The file's length is not what the probe disclosed.
FinishMismatch ==
  /\ pc = "finish"
  /\ ~SizeRight
  /\ Return("failed")
  /\ UNCHANGED file

FinishOk ==
  /\ pc = "finish"
  /\ SizeRight /\ Verified
  /\ Return("ok")
  /\ UNCHANGED file

\* A file that fails the checksum is removed.  Mutant: it is left.
AfterMismatchKept == file
AfterMismatch == <<>>

\* That the removal fails is ignored: the caller gets the same error.
FinishCorrupt ==
  /\ pc = "finish"
  /\ SizeRight /\ ~Verified
  /\ \/ Return("corrupt") /\ file' = AfterMismatch
     \/ "removefail" \in Faults /\ Return("stuck") /\ UNCHANGED file

\* So is, unread, a file whose checksum cannot be computed.
FinishUnread ==
  /\ pc = "finish"
  /\ SizeRight
  /\ Checksum /\ "hashfail" \in Faults
  /\ Return("unread")
  /\ file' = AfterMismatch \/ ("removefail" \in Faults /\ UNCHANGED file)

-------------------------------------------------------------------------------
CallStep ==
  /\ \/ Probe \/ ProbeFails
     \/ AttemptCancelled \/ SkipAttempt \/ Send \/ BackoffOver
     \/ Reply206 \/ Reply200 \/ Reply206Unasked
     \/ ReplyError \/ ReplyUnreachable \/ SendCancelled
     \/ \E n \in 1 .. MaxChunk : Deliver(n)
     \/ StreamCancelled \/ StreamBreaks \/ StreamEnds
     \/ FinishMismatch \/ FinishOk \/ FinishCorrupt \/ FinishUnread
  /\ UNCHANGED srv

Cancel ==
  /\ "cancel" \in Faults
  /\ pc \notin {"idle", "finish"}   \* later, nothing looks at the token
  /\ ~cancel
  /\ cancel' = TRUE
  /\ UNCHANGED <<srv, file, probeVars, requestVars, pc, result, calls, attempt>>

Kill ==
  /\ "kill" \in Faults
  /\ pc # "idle"
  /\ Return("killed")
  /\ UNCHANGED <<srv, file>>

ServerPublishes ==
  /\ "change" \in Faults
  /\ srv < MaxVersion
  /\ srv' = srv + 1
  /\ UNCHANGED <<file, probeVars, requestVars, callVars>>

EnvironmentStep == Cancel \/ Kill \/ ServerPublishes

Next == Call \/ CallStep \/ EnvironmentStep

Spec == Init /\ [][Next]_vars

\* Every request is answered or times out, and a stream ends (the timeout of
\* chunk_request_timeout covers both).
Fairness == WF_vars(CallStep)

FairSpec == Spec /\ Fairness

\* ... and the caller tries again.
RerunSpec == FairSpec /\ WF_vars(Call)

-------------------------------------------------------------------------------
\* Type correctness.  That the attempts of a call are bounded is part of it.
TypeOK ==
  /\ {srv, info, body} \subseteq Version
  /\ file \in Seq(Content)
  /\ pc \in {"idle", "probing", "attempt", "sent", "stream", "backoff", "finish"}
  /\ {expected, total} \subseteq Nat \cup {None}
  /\ {ranged, cancel, resuming} \subseteq BOOLEAN
  /\ result \in {"none", "ok", "failed", "cancelled", "corrupt", "stuck", "unread",
                "panicked", "killed"}
  /\ lost \in 0 .. MaxChunk
  /\ calls \in 0 .. MaxCalls
  /\ attempt \in 0 .. AtLeast(MaxRetries, 1) - 1

\* The file never holds bytes of two versions: attempts append only to what is of
\* the version they receive, or start over.
SingleVersion == \E v \in Version : Range(file) \subseteq {v}

\* download() returned Ok: the file is all of one version.
OkIsWhole == result = "ok" => \E v \in Version : file = Whole(v)

\* A call that was made returns, whatever the server answers: unlike a worker's,
\* the attempts of this path are counted through partial progress.
CallReturns == pc = "probing" ~> pc = "idle"

\* "remove it ... so a rerun starts clean instead of "completing" a bad file
\* again": once the file that failed its checksum is removed, a rerun gets it right,
\* if the server changes no more and the file can be read to compute it.
RerunHeals ==
  (result = "corrupt" /\ calls < MaxCalls /\ srv = MaxVersion) ~> result \in {"ok", "unread"}

-------------------------------------------------------------------------------
(***************************************************************************)
(* What the documents and the code say and some instance refutes.          *)
(***************************************************************************)

\* The last arm of the match on the status: unreachable!().
NeverPanics == result # "panicked"
=============================================================================
