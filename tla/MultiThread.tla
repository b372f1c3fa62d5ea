----------------------------- MODULE MultiThread -----------------------------
(***************************************************************************)
(* The multi-thread path of the downloader (src/src/downloader.rs) over a  *)
(* sequence of calls for one URL and one file: the call itself             *)
(* (download_inner, multi_thread), one worker per byte range (worker_loop, *)
(* download_segment), the task that checkpoints the resume state           *)
(* (state_save_task, state::save), and around them the server, the page    *)
(* cache, the disk, and the end of the process or of the power.            *)
(*                                                                         *)
(* A file is a sequence of blocks.  A block holds the version of the       *)
(* resource its bytes came from, 0 for a hole or for bytes of anything     *)
(* else.  One step of a task is the code between two awaits.               *)
(***************************************************************************)
EXTENDS DownloadState, FiniteSets, Functions

CONSTANTS
  MaxVersion,        \* bound: the server publishes versions 1 .. MaxVersion
  SizeOf,            \* a version's length in blocks
  EtagOf,            \* a version's ETag ([weak, tag] or None)
  LastModifiedOf,    \* a version's Last-Modified, or None
  ThreadChoices,     \* thread counts a call may ask for, clamped and above one
  MinChunk,          \* config.min_chunk_size, in blocks
  MaxRetries,        \* config.max_retries
  MaxChunk,          \* bound: blocks in one write, a chunk of a response body
  MaxCalls,          \* bound: calls of download()
  DurableResume,     \* config.durable_resume
  Checksum,          \* the caller, or the server, gave a checksum
  Leftovers,         \* state files of an earlier release, or broken ones
  Faults             \* what may go wrong, see below

Version == 1 .. MaxVersion
Content == 0 .. MaxVersion
Block   == UNION { 0 .. SizeOf[v] - 1 : v \in Version }

(***************************************************************************)
(* The faults an instance admits.                                          *)
(*   change, revert   the server publishes a new or an earlier version     *)
(*   full             the server answers 200 to a Range request            *)
(*   416              ... or 416, though the range is satisfiable          *)
(*   short            ... or ends a body early, cleanly                    *)
(*   error            a request, a stream, opening or hashing a file fails *)
(*   writefail        a write that already returned fails                  *)
(*   savefail         a write, rename or removal of the state file, or the *)
(*                    removal of the data file, fails                      *)
(*   syncfail         an fsync of the data file fails                      *)
(*   cancel           the caller cancels                                   *)
(*   kill, powerloss  the process ends; the page cache is lost with it     *)
(***************************************************************************)
AllFaults == {"change", "revert", "full", "416", "short", "error", "writefail",
              "savefail", "syncfail", "cancel", "kill", "powerloss"}

ASSUME ConstantsAssumption ==
  /\ MaxVersion \in Nat \ {0}
  /\ SizeOf \in [Version -> Nat \ {0}]
  /\ DOMAIN EtagOf = Version
  /\ DOMAIN LastModifiedOf = Version
  /\ ThreadChoices \subseteq Nat \ {0, 1}
  /\ MinChunk \in Nat
  /\ MaxRetries \in Nat
  /\ MaxChunk \in Nat
  /\ MaxCalls \in Nat
  /\ {DurableResume, Checksum} \subseteq BOOLEAN
  /\ Faults \subseteq AllFaults

\* `load` refuses what an earlier release left behind.
ASSUME LeftoversAssumption ==
  \A s \in Leftovers : s # None /\ s.version # STATE_FILE_VERSION

VARIABLES
  srv,          \* the version the server serves
  cache,        \* the data file as a read of it returns it
  platter,      \* for each block, the contents a power loss may leave there
  saved,        \* the .dlstate file, or None
  entries,      \* the .dlstate files a power loss may leave
  doubtful,     \* history: the blocks that a write nobody awaited was to fill
  pc,           \* where the call is
  info,         \* the version the probe found
  threads,      \* the thread count asked for
  cancel,       \* the call's cancellation token
  result,       \* how the last call ended
  calls,        \* how many calls were made
  starts, ends, \* the workers' ranges
  currents,     \* the workers' positions, read by the saver
  downloaded,   \* the counter the workers share
  wpc,          \* where each worker is
  attempt,      \* its failed attempts in a row
  body,         \* the version its response body is taken from
  pending,      \* writes that returned but are not in the page cache
  broken,       \* workers with a failed write not reported to them yet
  spc,          \* where the saver is
  read,         \* how many positions it has read
  snap,         \* what it has read
  final         \* this is the checkpoint it makes on shutdown

diskVars   == <<cache, platter, saved, entries, doubtful>>
callVars   == <<pc, info, threads, cancel, result, calls>>
rangeVars  == <<starts, ends, currents, downloaded>>
workerVars == <<wpc, attempt, body>>
ioVars     == <<pending, broken>>
saverVars  == <<spc, read, snap, final>>
taskVars   == <<rangeVars, workerVars, ioVars, saverVars>>
vars == <<srv, diskVars, callVars, taskVars>>

Workers == DOMAIN starts
NoWorkers == [w \in {} |-> 0]
Ended == {"ok", "cancelled", "norange", "changed", "exhausted"}

\* A pending write is owned by its worker until the worker drops its file.
Dropped == 0
PendingOf(w) == { p \in pending : p.owner = w }
BlocksOf(writes) == { p.block : p \in writes }

\* The program goes on, or ends, without knowing that these blocks were written.
Doubts(blocks) == doubtful' = doubtful \cup blocks

\* The history a power loss can bring back is kept only if there is one.
Durably(v, old) == IF "powerloss" \in Faults THEN v ELSE old

Init ==
  /\ srv = 1
  /\ cache = [b \in Block |-> 0]
  /\ platter = [b \in Block |-> {0}]
  /\ saved \in {None} \cup Leftovers
  /\ entries = {saved}
  /\ doubtful = {}
  /\ pc = "idle"
  /\ info = 1
  /\ threads \in ThreadChoices
  /\ cancel = FALSE
  /\ result = "none"
  /\ calls = 0
  /\ starts = NoWorkers /\ ends = NoWorkers /\ currents = NoWorkers
  /\ downloaded = 0
  /\ wpc = NoWorkers /\ attempt = NoWorkers /\ body = NoWorkers
  /\ pending = {} /\ broken = {}
  /\ spc = "off" /\ read = 0 /\ snap = NoWorkers /\ final = FALSE

-------------------------------------------------------------------------------
(***************************************************************************)
(* The call: download_inner and multi_thread.                              *)
(***************************************************************************)

\* The call returns, and everything it kept in memory is gone.  Writes its
\* workers left behind still land.
Return(r) ==
  /\ pc' = "idle"
  /\ result' = r
  /\ cancel' = FALSE
  /\ starts' = NoWorkers /\ ends' = NoWorkers /\ currents' = NoWorkers
  /\ downloaded' = 0
  /\ wpc' = NoWorkers /\ attempt' = NoWorkers /\ body' = NoWorkers
  /\ broken' = {}
  /\ spc' = "off" /\ read' = 0 /\ snap' = NoWorkers /\ final' = FALSE
  /\ UNCHANGED <<info, threads, calls>>

Call(n) ==
  /\ pc = "idle"
  /\ calls < MaxCalls
  /\ pc' = "probing"
  /\ threads' = n
  /\ calls' = calls + 1
  /\ result' = "none"
  /\ UNCHANGED <<srv, info, cancel, diskVars, taskVars>>

Probe ==
  /\ pc = "probing"
  /\ pc' = "probed"
  /\ info' = srv
  /\ UNCHANGED <<threads, cancel, result, calls, diskVars, taskVars>>

\* Only the probe itself is raced with the token.
ProbeCancelled ==
  /\ pc = "probing"
  /\ cancel
  /\ Return("cancelled")
  /\ UNCHANGED <<diskVars, pending>>

\* The probe fails, or creating or sizing the file does.
StartFails ==
  /\ pc \in {"probing", "probed"}
  /\ "error" \in Faults
  /\ Return("failed")
  /\ UNCHANGED <<diskVars, pending>>

\* The saved state may be resumed.
Usable(s) ==
  /\ s # None
  /\ Validate(s)
  /\ s.size = SizeOf[info]
  /\ MatchesResource(s, EtagOf[info], LastModifiedOf[info])

\* load, or split_workers.
Plan == IF Usable(saved) THEN saved.workers
        ELSE SplitWorkers(SizeOf[info], threads, MinChunk)

\* set_len, then sync_all: what was cut off reads as a hole afterwards.
SetLength ==
  LET resized == [b \in Block |-> IF b < SizeOf[info] THEN cache[b] ELSE 0]
  IN  /\ cache' = resized
      /\ platter' = Durably([b \in Block |->
                               IF "syncfail" \in Faults THEN platter[b] \cup {resized[b]}
                                                        ELSE {resized[b]}], platter)

\* Where a worker starts.  Mutant: it starts over.
PositionOfStart(range) == range.start
PositionOf(range) == range.current

StartWorkers ==
  /\ pc = "probed"
  /\ pc' = "run"
  /\ LET plan == Plan
         W    == DOMAIN plan
     IN  /\ starts' = [w \in W |-> plan[w].start]
         /\ ends' = [w \in W |-> plan[w].end]
         /\ currents' = [w \in W |-> PositionOf(plan[w])]
         /\ downloaded' = SumFunction([w \in W |-> PositionOf(plan[w]) - plan[w].start])
         /\ wpc' = [w \in W |-> IF plan[w].start < plan[w].end THEN "loop" ELSE "ok"]
         /\ attempt' = [w \in W |-> 0]
         /\ body' = [w \in W |-> info]
         /\ snap' = [w \in W |-> plan[w].start]
  /\ SetLength
  /\ spc' = "read" /\ read' = 0 /\ final' = FALSE
  /\ UNCHANGED <<info, threads, cancel, result, calls, saved, entries, doubtful, ioVars>>

\* Every handle was awaited; the background tasks are told to stop.
Join ==
  /\ pc = "run"
  /\ \A w \in Workers : wpc[w] \in Ended
  /\ pc' = "stopping"
  /\ UNCHANGED <<info, threads, cancel, result, calls, diskVars, taskVars>>

SaverAwaited == pc = "stopping" /\ spc = "off"

Cancelled == \E w \in Workers : wpc[w] = "cancelled"
Failed(w) == wpc[w] \in {"norange", "changed", "exhausted"}

\* first_error: that of the first handle, whichever failed first.
FirstFailed(w) == Failed(w) /\ \A v \in Workers : Failed(v) => w <= v

ReturnCancelled ==
  /\ SaverAwaited
  /\ Cancelled
  /\ Return("cancelled")
  /\ UNCHANGED <<diskVars, pending>>

ReturnError ==
  /\ SaverAwaited
  /\ ~Cancelled
  /\ \E w \in Workers : FirstFailed(w) /\ wpc[w] # "changed"
  /\ Return("failed")
  /\ UNCHANGED <<diskVars, pending>>

\* ResourceChanged: the saved progress is dropped before the call returns.
ReturnChanged ==
  /\ SaverAwaited
  /\ ~Cancelled
  /\ \E w \in Workers : FirstFailed(w) /\ wpc[w] = "changed"
  /\ pc' = "dropping"
  /\ UNCHANGED <<info, threads, cancel, result, calls, diskVars, taskVars>>

AllOk == SaverAwaited /\ \A w \in Workers : wpc[w] = "ok"

\* The byte count does not add up, or the file cannot be opened to be synced.
ReturnMismatch ==
  /\ AllOk
  /\ downloaded # SizeOf[info] \/ "error" \in Faults
  /\ Return("failed")
  /\ UNCHANGED <<diskVars, pending>>

SyncedAtEnd == [b \in Block |-> {cache[b]}]

FinalSync ==
  /\ AllOk
  /\ downloaded = SizeOf[info]
  /\ pc' = "deleting"
  /\ \/ platter' = Durably(SyncedAtEnd, platter)
     \/ "syncfail" \in Faults /\ UNCHANGED platter
  /\ UNCHANGED <<info, threads, cancel, result, calls, cache, saved, entries, doubtful>>
  /\ UNCHANGED taskVars

\* The state file is removed; an error is ignored.
Remove ==
  \/ /\ saved' = None
     /\ entries' = Durably(entries \cup {None}, entries)
  \/ "savefail" \in Faults /\ UNCHANGED <<saved, entries>>

DeleteState ==
  /\ \/ /\ pc = "deleting"
        /\ pc' = "verify"
        /\ UNCHANGED <<info, threads, cancel, result, calls>>
        /\ UNCHANGED <<rangeVars, workerVars, saverVars, broken>>
     \/ /\ pc = "dropping"
        /\ Return("failed")
  /\ Remove
  /\ UNCHANGED <<cache, platter, doubtful, pending>>

Intact == \A b \in 0 .. SizeOf[info] - 1 : cache[b] = info

\* Back in download_inner: the file's length is right; its checksum, if one is
\* known, decides.  A file that fails it, or cannot be read to compute it, is
\* removed, and the state with it; that a removal fails is ignored.
\* Mutant: the checksum is computed, and its verdict ignored.
VerifiedAnyway == TRUE
Verified == ~Checksum \/ Intact

Verify ==
  /\ pc = "verify"
  /\ Verified
  /\ Return("ok")
  /\ UNCHANGED <<diskVars, pending>>

\* What a state file that stays, or may come back, claims of the removed file.
Orphaned ==
  { b \in Block : \E s \in entries' \cup {saved'} :
      s # None /\ Validate(s) /\ b \in Claimed(s.workers) }

VerifyFails ==
  /\ pc = "verify"
  /\ ~Verified \/ (Checksum /\ "error" \in Faults)
  /\ Return("corrupt")
  /\ \/ /\ cache' = [b \in Block |-> 0]
        /\ platter' = Durably([b \in Block |-> platter[b] \cup {0}], platter)
        /\ pending' = {}
     \/ "savefail" \in Faults /\ UNCHANGED <<cache, platter, pending>>
  /\ Remove
  /\ Doubts(Orphaned)

CallStep ==
  /\ \/ Probe \/ ProbeCancelled \/ StartFails \/ StartWorkers \/ Join
     \/ ReturnCancelled \/ ReturnError \/ ReturnChanged \/ ReturnMismatch
     \/ FinalSync \/ DeleteState \/ Verify \/ VerifyFails
  /\ UNCHANGED srv

-------------------------------------------------------------------------------
(***************************************************************************)
(* A worker: worker_loop around download_segment.                          *)
(***************************************************************************)

\* Only the worker's own place changes.
NoIO == UNCHANGED <<cache, platter, doubtful, currents, downloaded, pending, broken>>

Goto(w, place) == wpc' = [wpc EXCEPT ![w] = place]

\* Another attempt, unless there were enough.  Mutant: one too many.
GivesUpLate(w) == attempt[w] + 1 > MaxRetries
GivesUp(w) == attempt[w] + 1 >= MaxRetries

Retry(w) ==
  /\ attempt' = [attempt EXCEPT ![w] = @ + 1]
  /\ Goto(w, IF GivesUp(w) THEN "exhausted" ELSE "backoff")

\* The top of worker_loop: the range is done, or the token is set, or a
\* request goes out.
Loop(w) ==
  /\ wpc[w] = "loop"
  /\ \/ currents[w] >= ends[w] /\ Goto(w, "ok")
     \/ currents[w] < ends[w] /\ cancel /\ Goto(w, "cancelled")
     \/ currents[w] < ends[w] /\ ~cancel /\ Goto(w, "sent")
  /\ NoIO /\ UNCHANGED <<attempt, body>>

IfRange == IfRangeValidator(EtagOf[info], LastModifiedOf[info])

\* The server honours a Range if If-Range names what it serves.
\* Mutant: If-Range is not sent.
RangeHonouredAlways == TRUE
RangeHonoured == IfRange = None \/ IfRange \in {EtagOf[srv], LastModifiedOf[srv]}

Reply206(w) ==
  /\ wpc[w] = "sent"
  /\ RangeHonoured
  /\ currents[w] < SizeOf[srv]
  /\ body' = [body EXCEPT ![w] = srv]
  /\ Goto(w, "stream")
  /\ NoIO /\ UNCHANGED attempt

Reply200(w) ==
  /\ wpc[w] = "sent"
  /\ ~RangeHonoured \/ "full" \in Faults
  /\ Goto(w, IF IfRange = None THEN "norange" ELSE "changed")
  /\ NoIO /\ UNCHANGED <<attempt, body>>

\* Mutant: a 416 leaves the position where it was.
PositionAfter416Kept(w) == currents[w]
PositionAfter416(w) == ends[w]

\* The worker calls itself done; the shared counter does not move.
Reply416(w) ==
  /\ wpc[w] = "sent"
  /\ (RangeHonoured /\ currents[w] >= SizeOf[srv]) \/ "416" \in Faults
  /\ currents' = [currents EXCEPT ![w] = PositionAfter416(w)]
  /\ attempt' = [attempt EXCEPT ![w] = 0]
  /\ Goto(w, "loop")
  /\ UNCHANGED <<body, cache, platter, doubtful, downloaded, pending, broken>>

\* No answer, another status, or the file cannot be opened.
ReplyError(w) ==
  /\ wpc[w] = "sent"
  /\ "error" \in Faults
  /\ Retry(w)
  /\ NoIO /\ UNCHANGED body

\* The next write waits for the last one, and reports its failure.
CanWrite(w) == PendingOf(w) = {} /\ w \notin broken

\* What is written of a chunk is capped at the range's end.
\* Mutant: it is not.
WriteEndUncapped(w, n) == currents[w] + n
WriteEnd(w, n) == AtMost(currents[w] + n, ends[w])

\* write_all returns before the OS has the bytes; nothing awaits them until the
\* next operation on the file.
Write(w, blocks) ==
  pending' = pending \cup [owner : {w}, block : blocks, content : {body[w]}]

\* A chunk of n blocks arrives and is written; position and counter follow.
Deliver(w, n) ==
  /\ wpc[w] = "stream"
  /\ ~cancel
  /\ CanWrite(w)
  /\ currents[w] + n <= SizeOf[body[w]]
  /\ LET to == WriteEnd(w, n)
     IN  /\ Write(w, currents[w] .. to - 1)
         /\ currents' = [currents EXCEPT ![w] = to]
         /\ downloaded' = downloaded + (to - currents[w])
         /\ Goto(w, IF to >= ends[w] THEN "flush" ELSE "stream")
  /\ UNCHANGED <<attempt, body, broken, cache, platter, doubtful>>

\* The token is looked at when the stream yields something; the worker flushes
\* before it gives up.  Mutant: it does not.
FlushedNever(w) == TRUE
Flushed(w) == PendingOf(w) = {}

StreamCancelled(w) ==
  /\ wpc[w] = "stream"
  /\ cancel
  /\ Flushed(w)
  /\ Goto(w, "cancelled")
  /\ broken' = broken \ {w}
  /\ UNCHANGED <<attempt, body, cache, platter, doubtful, currents, downloaded, pending>>

\* The stream or a write fails.  The file is dropped without a flush.
StreamBreaks(w) ==
  /\ wpc[w] = "stream"
  /\ ~cancel
  /\ "error" \in Faults \/ w \in broken
  /\ Retry(w)
  /\ pending' = { [p EXCEPT !.owner = IF @ = w THEN Dropped ELSE @] : p \in pending }
  /\ broken' = broken \ {w}
  /\ Doubts(BlocksOf(PendingOf(w)))
  /\ UNCHANGED <<body, cache, platter, currents, downloaded>>

StreamEnds(w) ==
  /\ wpc[w] = "stream"
  /\ currents[w] >= SizeOf[body[w]] \/ "short" \in Faults
  /\ Goto(w, "flush")
  /\ NoIO /\ UNCHANGED <<attempt, body>>

\* The last flush; download_segment returns Ok whatever was left to fetch.
Flush(w) ==
  /\ wpc[w] = "flush"
  /\ PendingOf(w) = {}
  /\ \/ w \in broken /\ Retry(w)
     \/ w \notin broken /\ attempt' = [attempt EXCEPT ![w] = 0] /\ Goto(w, "loop")
  /\ broken' = broken \ {w}
  /\ UNCHANGED <<body, cache, platter, doubtful, currents, downloaded, pending>>

BackoffOver(w) ==
  /\ wpc[w] = "backoff"
  /\ \/ Goto(w, "loop")
     \/ cancel /\ Goto(w, "cancelled")
  /\ NoIO /\ UNCHANGED <<attempt, body>>

WorkerStep(w) ==
  /\ \/ Loop(w) \/ Reply206(w) \/ Reply200(w) \/ Reply416(w) \/ ReplyError(w)
     \/ \E n \in 1 .. MaxChunk : Deliver(w, n)
     \/ StreamCancelled(w) \/ StreamBreaks(w) \/ StreamEnds(w)
     \/ Flush(w) \/ BackoffOver(w)
  /\ UNCHANGED <<srv, callVars, saverVars, saved, entries, starts, ends>>

-------------------------------------------------------------------------------
(***************************************************************************)
(* The state-save task: read the positions one by one, sync the data file  *)
(* if resume is to be durable, replace the state file.                     *)
(***************************************************************************)

\* Mutant: what the position will be after the block being received.
SnapPositionAhead(w) == currents[w] + 1
SnapPosition(w) == AtMost(currents[w], ends[w])

\* A tick, or the stop token, starts a checkpoint with the first position; the
\* one made after the token is the last.
ReadPosition(w) ==
  /\ spc = "read"
  /\ pc \in {"run", "stopping"}
  /\ w = read + 1
  /\ snap' = [snap EXCEPT ![w] = SnapPosition(w)]
  /\ read' = w
  /\ final' = IF w = 1 THEN pc = "stopping" ELSE final
  /\ spc' = IF w + 1 \in Workers THEN "read" ELSE "snapped"
  /\ UNCHANGED <<platter, saved, entries>>

SyncData ==
  /\ spc = "snapped"
  /\ DurableResume
  /\ spc' = "synced"
  /\ \/ platter' = Durably([b \in Block |-> {cache[b]}], platter)
     \/ "syncfail" \in Faults /\ UNCHANGED platter
  /\ UNCHANGED <<saved, entries, read, snap, final>>

\* Mutants: the sync is left to chance; a checkpoint under way when the stop
\* token is set is taken for the last.
ReadyToPersistUnsynced == spc \in {"snapped", "synced"}
ReadyToPersist == spc = IF DurableResume THEN "synced" ELSE "snapped"

AfterCheckpointIfStopping == IF pc = "stopping" THEN "off" ELSE "read"
AfterCheckpoint == IF final THEN "off" ELSE "read"

\* Mutant: the positions are read again once the data is synced.
CheckpointLate ==
  NewState(SizeOf[info], EtagOf[info], LastModifiedOf[info],
           [w \in Workers |->
              [start |-> starts[w], current |-> SnapPosition(w), end |-> ends[w]]])

Checkpoint ==
  NewState(SizeOf[info], EtagOf[info], LastModifiedOf[info],
           [w \in Workers |->
              [start |-> starts[w], current |-> snap[w], end |-> ends[w]]])

\* save: write a temporary file, sync it, rename it; an error is ignored.
Persist ==
  /\ ReadyToPersist
  /\ \/ /\ saved' = Checkpoint
        /\ entries' = Durably(entries \cup {Checkpoint}, entries)
     \/ "savefail" \in Faults /\ UNCHANGED <<saved, entries>>
  /\ spc' = AfterCheckpoint
  /\ read' = 0
  /\ snap' = starts
  /\ final' = FALSE
  /\ UNCHANGED platter

SaverStep ==
  /\ (\E w \in Workers : ReadPosition(w)) \/ SyncData \/ Persist
  /\ UNCHANGED <<srv, callVars, rangeVars, workerVars, ioVars, cache, doubtful>>

-------------------------------------------------------------------------------
(***************************************************************************)
(* Around the program: the OS, the caller, the server, the end of it all.  *)
(***************************************************************************)

\* A write that had returned reaches the page cache.
Land(p) ==
  /\ cache' = [cache EXCEPT ![p.block] = p.content]
  /\ platter' = Durably([platter EXCEPT ![p.block] = @ \cup {p.content}], platter)
  /\ pending' = pending \ {p}
  /\ UNCHANGED <<saved, entries, doubtful, broken>>
  /\ UNCHANGED <<srv, callVars, rangeVars, workerVars, saverVars>>

\* ... or fails: its owner, if there still is one, hears of it with its next
\* operation on the file.
LandFails(p) ==
  /\ "writefail" \in Faults
  /\ LET lost == IF p.owner = Dropped THEN {p} ELSE PendingOf(p.owner)
     IN  pending' = pending \ lost /\ Doubts(BlocksOf(lost))
  /\ broken' = broken \cup ({p.owner} \ {Dropped})
  /\ UNCHANGED <<srv, cache, platter, saved, entries>>
  /\ UNCHANGED <<callVars, rangeVars, workerVars, saverVars>>

Cancel ==
  /\ "cancel" \in Faults
  /\ pc \in {"probing", "probed", "run"}   \* later, nothing looks at the token
  /\ ~cancel
  /\ cancel' = TRUE
  /\ UNCHANGED <<pc, info, threads, result, calls>>
  /\ UNCHANGED <<srv, diskVars, taskVars>>

\* The process is killed: the page cache and the files outlive it, writes that
\* did not reach them do not.
Kill ==
  /\ "kill" \in Faults
  /\ pc # "idle"
  /\ Return("killed")
  /\ pending' = {}
  /\ Doubts(BlocksOf(pending))
  /\ UNCHANGED <<srv, cache, platter, saved, entries>>

\* The bytes a state names but for each worker's last write: the data sync of
\* the saver, on a handle of its own, does not wait for that one.
SettledClaims(workers) ==
  UNION { workers[w].start .. workers[w].current - 1 - MaxChunk : w \in DOMAIN workers }

Unsettled(s) ==
  IF s = None \/ ~Validate(s) THEN {}
  ELSE Block \cap (Claimed(s.workers) \ SettledClaims(s.workers))

\* The power fails: each block, and the directory, is as some write left it
\* since it was last synced.
PowerLoss ==
  /\ "powerloss" \in Faults
  /\ \E kept \in [Block -> Content], entry \in entries :
       /\ \A b \in Block : kept[b] \in platter[b]
       /\ cache' = kept
       /\ platter' = [b \in Block |-> {kept[b]}]
       /\ saved' = entry
       /\ entries' = {entry}
       /\ Doubts(BlocksOf(pending) \cup Unsettled(entry))
  /\ Return(IF pc = "idle" THEN result ELSE "killed")
  /\ pending' = {}
  /\ UNCHANGED srv

ServerPublishes ==
  /\ \/ "change" \in Faults /\ srv < MaxVersion /\ srv' = srv + 1
     \/ "revert" \in Faults /\ srv > 1 /\ srv' = srv - 1
  /\ UNCHANGED <<diskVars, callVars, taskVars>>

EnvironmentStep ==
  \/ \E p \in pending : Land(p) \/ LandFails(p)
  \/ Cancel \/ Kill \/ PowerLoss \/ ServerPublishes

Next ==
  \/ \E n \in ThreadChoices : Call(n)
  \/ CallStep
  \/ \E w \in Workers : WorkerStep(w)
  \/ SaverStep
  \/ EnvironmentStep

Spec == Init /\ [][Next]_vars

(***************************************************************************)
(* Every task that can run is run, every request is answered or times out  *)
(* (chunk_request_timeout), every write that returned lands or fails.      *)
(* Nothing obliges the caller to call, or the saver's ticker to tick       *)
(* before it is told to stop.                                              *)
(***************************************************************************)
MaxWorkers == CHOOSE n \in ThreadChoices : \A m \in ThreadChoices : m <= n

Fairness ==
  /\ WF_vars(CallStep)
  /\ \A w \in 1 .. MaxWorkers : WF_vars(w \in Workers /\ WorkerStep(w))
  /\ WF_vars(SaverStep)
  /\ WF_vars(\E p \in pending : Land(p) \/ LandFails(p))

FairSpec == Spec /\ Fairness

-------------------------------------------------------------------------------
DiskTypeOK ==
  /\ srv \in Version
  /\ cache \in [Block -> Content]
  /\ platter \in [Block -> SUBSET Content]
  /\ "powerloss" \in Faults => saved \in entries
  /\ doubtful \subseteq Block

CallTypeOK ==
  /\ pc \in {"idle", "probing", "probed", "run", "stopping", "dropping",
             "deleting", "verify"}
  /\ info \in Version
  /\ threads \in ThreadChoices
  /\ cancel \in BOOLEAN
  /\ result \in {"none", "ok", "failed", "cancelled", "corrupt", "killed"}
  /\ calls \in 0 .. MaxCalls

RangeTypeOK ==
  /\ starts \in [Workers -> Nat]
  /\ ends \in [Workers -> Nat]
  /\ currents \in [Workers -> Nat]

WorkerTypeOK ==
  /\ wpc \in [Workers -> {"loop", "sent", "stream", "flush", "backoff"} \cup Ended]
  /\ attempt \in [Workers -> 0 .. AtLeast(MaxRetries, 1)]
  /\ body \in [Workers -> Version]
  /\ pending \subseteq [owner : Workers \cup {Dropped}, block : Block, content : Version]
  /\ broken \subseteq Workers

SaverTypeOK ==
  /\ spc \in {"off", "read", "snapped", "synced"}
  /\ read \in Workers \cup {0}
  /\ snap \in [Workers -> Nat]
  /\ final \in BOOLEAN

\* Type correctness.  That a worker never counts an attempt beyond max_retries
\* is part of it.
TypeOK ==
  DiskTypeOK /\ CallTypeOK /\ RangeTypeOK /\ WorkerTypeOK /\ SaverTypeOK

\* A state file that a probe of version v would let a call resume from.
ResumableAt(s, v) ==
  /\ s # None
  /\ Validate(s)
  /\ s.size = SizeOf[v]
  /\ MatchesResource(s, EtagOf[v], LastModifiedOf[v])

\* download() returned Ok: every byte of the file is of the version it probed.
CompletedIntact == result = "ok" => Intact

\* ... whatever the resource, the process and the power went through on the way,
\* but for blocks whose write nobody awaited: a resume may skip those.
CompletedSound ==
  result = "ok" => \A b \in (0 .. SizeOf[info] - 1) \ doubtful : cache[b] = info

\* The versions a call that runs, or one to come, may meet.
Ahead == (IF pc \in {"idle", "probing"} THEN srv ELSE info) .. MaxVersion

\* The state file claims only bytes that are in the file, and of the version that
\* a call resuming from it will complete.
SavedNotAhead ==
  \A v \in Ahead : ResumableAt(saved, v) =>
    \A b \in Claimed(saved.workers) : cache[b] = v

\* Any call that would resume from the state file, now or after a restart, skips
\* only bytes of the version it will complete that are in the file, or on their
\* way there, or that nobody awaited.
OnItsWay(b, v) == \E p \in pending : p.block = b /\ p.content = v

SavedSound ==
  \A v \in Ahead : ResumableAt(saved, v) =>
    \A b \in Claimed(saved.workers) \ doubtful : cache[b] = v \/ OnItsWay(b, v)

\* The same of anything a power loss may leave: what a directory entry it may
\* bring back names, up to each worker's last write, is in any block contents it
\* may bring back.
DurableSound ==
  \A s \in entries, v \in Ahead : ResumableAt(s, v) =>
    \A b \in SettledClaims(s.workers) \ doubtful : platter[b] = {v}

\* Whatever a checkpoint writes, the next call can load: positions read one by
\* one while workers move still make a consistent state.
StateLoadable == saved = None \/ saved \in Leftovers \/ Validate(saved)

\* The byte count that decides completion never exceeds what the positions say
\* was fetched: a file is not called complete on bytes counted twice.
CountWithinPositions ==
  downloaded \in 0 .. SumFunction([w \in Workers |-> AtMost(currents[w], ends[w]) - starts[w]])

\* A call that fails or is cancelled once it ran leaves a state file behind that
\* names exactly what each worker had reached: the next call loses nothing.
FailureKeepsProgress ==
  [][ pc = "stopping" /\ pc' = "idle" /\ result' \in {"failed", "cancelled"} =>
        /\ saved' # None
        /\ DOMAIN saved'.workers = Workers
        /\ \A w \in Workers : saved'.workers[w].current = AtMost(currents[w], ends[w])
    ]_vars

\* Bytes go where their worker's range is ("writes to a disjoint byte range"),
\* even when a response is too long: no block is written that another worker
\* writes, or that a state file this call could resume from calls fetched.
WritesStayInRange ==
  [][ \A p \in pending' \ pending : p.owner # Dropped =>
        /\ p.block \in starts[p.owner] .. ends[p.owner] - 1
        /\ \A w \in Workers \ {p.owner} : p.block \notin starts[w] .. ends[w] - 1
        /\ ResumableAt(saved, info) => p.block \notin Claimed(saved.workers) ]_vars

\* A cancelled call leaves no claim without its bytes: once the call returned,
\* what the state file names is in the file, though writes return early.
SavedNotAheadAtRest == pc = "idle" => SavedNotAhead

\* A checkpoint never takes back what an earlier one of the same resource
\* granted, be it of this call or of one that was killed.
CheckpointsOnlyGrow ==
  [][ /\ saved # None /\ saved' # None
      /\ saved.version = saved'.version
      /\ saved.etag = saved'.etag /\ saved.lastModified = saved'.lastModified
      => Claimed(saved.workers) \subseteq Claimed(saved'.workers) ]_vars

\* A call that was made returns.
CallReturns == pc = "probing" ~> pc = "idle"

-------------------------------------------------------------------------------
(***************************************************************************)
(* What the documents say and some instance refutes.                       *)
(***************************************************************************)

\* The comment above checkpoint: "The saved state can never get ahead of durable
\* bytes": a state file names only bytes that a loss of power leaves there.
DurableNotAhead ==
  \A s \in entries, v \in Ahead : ResumableAt(s, v) =>
    \A b \in Claimed(s.workers) : platter[b] = {v}

\* README: "the multi-thread path fails cleanly (and clears the stale state)".
ChangeClearsState ==
  [][ (\E w \in Workers : wpc[w] = "changed") /\ pc # "idle" /\ pc' = "idle"
        => saved' = None ]_vars

\* config.max_threads: "Hard upper bound on threads per task".
ThreadsBounded == Cardinality({ w \in Workers : starts[w] < ends[w] }) <= threads
===============================================================================
