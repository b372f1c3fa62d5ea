# fast_downloader in TLA+

A verification project for the Rust crate in `src/`: an asynchronous HTTP
downloader that splits a file into byte ranges, fetches them concurrently,
checkpoints its progress so that a later call can resume, and a queue that runs
several such downloads. The modules here are written from the code
(`src/src/*.rs`, quoted below without the prefix `src/src/`); `PROJECT.json` maps every
definition to the lines it models.

Run one model with `tlc -workers 4 -config MTChange.cfg MCMultiThread`, one proof
module with `tlapm MultiThread_proofs.tla`.

- [1. The system](#1-the-system)
- [2. The plan](#2-the-plan)
- [3. The modules and the code](#3-the-modules-and-the-code)
- [4. What is checked](#4-what-is-checked)
- [5. What is proved](#5-what-is-proved)
- [6. Where the code falls short](#6-where-the-code-falls-short)
- [7. What is not modelled](#7-what-is-not-modelled)

## 1. The system

### Components

| component | code | state | operations |
|---|---|---|---|
| download call | `downloader.rs` `download`, `download_inner` | none of its own; the data file, the token | probe, choose a path, compare the size, verify the checksum, remove a corrupt file |
| multi-thread path | `multi_thread`, `worker_loop`, `download_segment` | one position (`AtomicU64`) per range, a shared byte counter | load or plan ranges, preallocate, spawn workers and saver, join, decide |
| state-save task | `state_save_task` | a snapshot | on a tick and on shutdown: read positions, sync the data (if durable), save |
| state file | `state.rs` `save`, `load`, `delete` | `.dlstate` and `.dlstate.tmp` | create, write, sync the temporary file, rename it; read and parse; remove |
| resume state | `state.rs` | a record of size, validators, ranges | `validate`, `matches_resource`, `split_workers` |
| single-thread path | `single_thread`, `single_thread_attempt` | the data file's length is the state | skip, resume by `Range`, truncate, stream, compare the length, retry |
| HTTP client | `http.rs` | what is known of the resource so far | `probe` (HEAD, then a one-byte Range request), `if_range_validator` |
| checksums | `checksum.rs` | none | choose among advertised digests, hash the file |
| queue | `queue.rs` | a bounded channel, a semaphore, a map from ids to tokens, an id counter | `submit`, `cancel`, `cancel_all`, `shutdown`, dispatch |
| progress, speed | `progress.rs`, `downloader.rs` `progress_task` | a window of samples, a ticker | sample the counter, compute the speed, report; once more when stopped |
| file names, errors, examples, tests | `filename.rs`, `error.rs`, `examples/`, `tests/` | none | string functions, an enumeration, programs around the library |

### How they interact

The **call** probes, then runs the multi-thread path if the server takes ranges
and more than one thread is worth it, else the single-thread path. In the
multi-thread path the **workers** share nothing but the data file (disjoint
ranges, a handle each), their positions, which the **saver** reads one at a
time without a lock, and a counter, which the call reads once all of them have
ended. The call joins the workers in order, then stops the saver by a token and
joins it; the saver's last act is a checkpoint. Only then does the call decide:
delete the state and go on to verify, or keep it and fail. What connects one call
with the **next** is on disk only: the data file and the state file. What
connects the call with the **server** is a validator: `matches_resource` compares
the one in the state with the one just probed, and `If-Range` carries the probed
one with every range request. The **queue** wraps calls: a submission puts a
token in the map and a message in the channel; the dispatcher spawns a task per
message, and that task waits for a permit or its token, downloads, replies, and
leaves the map. A **progress task** per attempt reads the byte counter and reports;
the call joins it before it says how it ended. Nothing but custom keeps **two
calls** off one path: they share the data file, the state file and the name of its
temporary file, as does a call with the tasks of one whose future was dropped.

### What is hard about it

* *Interleavings*: workers, saver and call at every await; the server may publish
  a new version between any two requests.
* *Crashes*: the process may be killed at any await, and with `durable_resume` the
  power may fail; the data file and the state file reach the disk separately.
* *Writes that return early*: `tokio::fs::File::write_all` always returns before the
  write is made; its error surfaces at the next operation, or never, and a sync
  through another handle does not wait for it.
* *Stale state*: a state file of another version or an older release; a file of
  any length in the single-thread path.
* *Retries*: of an attempt that made progress; counters that must not count twice.
* *Shared names*: two savers that write one temporary file.
* *Two requests for one answer*: the probe's HEAD and GET may see two versions.
* *Shutdown of the queue*: messages behind the Shutdown, tasks without a permit,
  callers waiting for a dispatcher.

The hazards, each with its line and the properties meant to catch it, are listed
in `PROJECT.json`.

### What makes each component correct

* A call that returns Ok leaves a file that is wholly the probed version.
* A state file never claims a byte that the data file does not have, of the
  version a resuming call will complete: at any kill, and, if durable, at any loss
  of power. (That is the aim, `downloader.rs:668-671`; the code keeps it for all
  writes but those that are given up before they were made: section 6.)
* What a failed call fetched is not lost, and checkpoints only grow.
* Ranges are a partition, and what is written stays inside.
* Every call returns; every attempt is counted.
* The attempts of one single-thread call do not mix versions.
* What the probe puts together fits the version whose validator it keeps.
* A save replaces the state at once or not at all; overlapping saves, an abandoned
  call's included, leave nothing that claims too much.
* The last position is reported before the end, and the speed is one the link had.
* No permit is lost; every task in flight can be cancelled, a cancelled one ends
  though others hang; `submit` and `shutdown` return.

## 2. The plan

Ordered by how much depends on it.

| | module | abstraction or proof | state |
|---|---|---|---|
| 1 | `DownloadState` | the pure operations on the resume state, lemmas in `DownloadState_proofs` | done |
| 2 | `MultiThread` | workers, saver, call, disk, server; `MultiThread_proofs` (types, ranges, counts, checkpoints, the use of `StateStore`), `MultiThreadSafety_proofs` (integrity) | done |
| 3 | `SplitWorkers` | the loop of `split_workers` implements the closed form the other modules use | done |
| 4 | `SingleThread` | the single-thread path; `SingleThread_proofs` | done |
| 5 | `TaskSlots`, `DownloadQueue` | the queue, and what it promises; `DownloadQueue_proofs` | done |
| 6 | `Probe`, `Planning` | HEAD and the Range request as two steps that may see two versions, the choice among digests; composed with the choice of path and `SplitWorkers`; `Planning_proofs` | done |
| 7 | `StateStore`, `StateFile` | a save call by call, and what it promises; proofs in `SharedPath_proofs` | done |
| 8 | `SharedPath` | two calls for one path at a time, over `StateFile`; `SharedPath_proofs` | done |
| 9 | `Progress` | events and speed; `Progress_proofs` | done |
| 10 | a call that may take either path | `MultiThread` and `SingleThread` over one file: one composed module in place of `Leftovers` | later |

Every safety invariant and action property that a run checks is stated by a theorem
(section 5). Still worth proving: within one call, that a checksum settles the file
even where streams break; and, with module 10, that the preallocated length is the
one way in which the two paths mislead each other.

## 3. The modules and the code

**`DownloadState`** holds the pure part: `Validate`, `MatchesResource`,
`IfRangeValidator`, `NewState`, `SplitWorkers` as a closed form, what a list of
ranges claims. An ETag is a record of a tag and its weakness, since nothing but
equality and the `W/` prefix is looked at.

**`Probe`** is `http::probe`: `AskHead` and `AskRange` are its two requests, each
of which may fail, and `Publish` may come between them. `info` is the `FileInfo` as
it grows, field by field the first answer that had it (`LearnValidator`), except the
size, where a `Content-Range` wins. The server is a record of what it discloses: which
headers to a HEAD and to a GET, whether it honours ranges, says so, names the total,
and which digests it sends. `DigestFromParts` is the choice of `checksum.rs`.

**`SplitWorkers`** is the loop of `split_workers`, one range a step (`Push`), and
**`Planning`** composes the two: `Probing`, then `Choose` (the clamp of the thread
count, `can_multi`), then `Split` with the arguments of that call.
`LoopIsClosedForm` ties the loop to `DownloadState!SplitWorkers`, which
`MultiThread` and every proof use. (A configured `max_threads` of 0, on which
`clamp` panics, is not among the `Setups`.)

**`MultiThread`** is the multi-thread path over a *sequence of calls* on one file.

| TLA+ | code |
|---|---|
| `srv`, `ServerPublishes` | the resource at the URL |
| `cache`, `platter` | the data file as read; the contents each block may have after a power loss |
| `saved`, `entries` | the `.dlstate` file; those a power loss may bring back |
| `pending`, `broken` | writes that returned but are not made; failures nobody was told of |
| `doubtful` | history: the blocks a write was to fill that nobody awaited |
| `Call` .. `Return` | `download_inner`: probe, plan, the wait for the workers, the two joins, the decision, the checks |
| `starts`, `ends`, `currents`, `downloaded`, `wpc`, `attempt` | `WorkerRange`s, the atomics, `worker_loop`'s place and its local counter |
| `spc`, `read`, `snap`, `final` | `state_save_task`: how far the snapshot is, what it read, whether this is the checkpoint of the shutdown |

A block stands for a run of bytes that is written together and holds the version
its bytes came from, so that a splice is a value. A worker's step is the code
between two awaits: `Send`, an answer, `Deliver` one chunk (its write, the
position, the counter), `Flush`, the end of the stream, the backoff. The saver
reads *one* position per step. Every write is pending until it lands (`Land`) or
fails (`LandFails`), and only its worker's next write or flush waits for it; a
dropped file's write is `Dropped`, and lands when it likes, or never. `Kill` and
`PowerLoss` take every pending write with them.

A write that is given up so leaves a position ahead of the file, and the code lets
a state file name it (section 6). To say what holds nevertheless, `doubtful` records
the blocks concerned, at the step where somebody goes on without them: a file
dropped in the middle of a stream, a write that fails, a kill, a power loss (which also
takes the last write of each worker before a checkpoint, since the saver's sync did
not wait for it), and the removal of a corrupt file whose state file stays. No
action reads it. `CompletedSound`, `SavedSound` and `DurableSound` except those blocks
and no others; `CompletedIntact` and `SavedNotAheadAtRest` except none, and are
checked where no write is given up, or a checksum stands behind the file.
`VerifyFails` is a wrong digest or a file that cannot be read to compute it; either
way the file is removed, if that works.

**`StateStore`** says what the state file promises those who load it, with the
state that `load` returns (`saved`) and those a power loss may bring back (`entries`)
as its only content. Initially any state may be there, left by an earlier call. This is
how `MultiThread` has it: each of its steps is one of `StateStore`'s with a single
saver, or leaves the state file alone (theorem `CallsUseStore`). **`StateFile`** is `save`,
`load` and `delete` as coded, a system call a step, for any number of savers of one
path. `disk` has the two names, `kept` what `load` could make of each after a loss of
power (its old contents too, until it is synced), `handle` the file each saver has open:
a rename by another saver moves an open file under the name `.dlstate`, or takes away
its name, and a write through that handle then changes the state file in place.
`SaveFailed` is an error of any call (which `save` returns, and the saver ignores);
`Killed` and `PowerLost` may come at any point. It implements `StateStore`
with `saved` as what `load` makes of the file. Where saves overlap the promise is the
weaker one of `Collide`: one of the states they are saving, or none.

**`SharedPath`** has several calls of the multi-thread path on one path, each started
when it likes once the earlier ones were, over the state file of `StateFile` (which
it EXTENDS: a call's saver *is* the saver of that name). `Abandon` drops the future of
a call: nobody cancels `stop_bg`, so its worker runs on to its end and its saver for
good. Only one worker a call is kept: how several divide the file is
`MultiThread`'s subject. Its writes are pending like those of `MultiThread`, land
between any two steps, of the other call's too, and `doubtful` is the same history;
a call that resumes from blocks which a worker of another is still writing adds them.

**`SingleThread`** is the single-thread path, also over a sequence of calls. Its
only memory is the file, here a sequence of blocks. `Leftovers` are files it may
find, those of the multi-thread path among them. At the end the file may be whole, fail
its checksum (`FinishCorrupt`) or be unreadable (`FinishUnread`), and its removal may fail.

**`TaskSlots`** is what the queue promises of any set of tasks: at most `Slots`
run, each is settled at most once, and no slot stays free while a task waits.
**`DownloadQueue`** is the queue as coded, with `submit` and `shutdown` in two
steps each (they wait for room in the channel) and a spawned task in four; a
download is one step (`Finish`) with the outcomes a call of `MultiThread` has, or it
panics (`Panic`), which gives the permit back but leaves the entry in the map. It
implements `TaskSlots` under the mapping `stageOf`.

**`Progress`** is what a subscriber hears: the events of `download()`, the progress
task with its ticker (whose first tick is thrown away, and which skips the ticks it
missed), and `SpeedMeter` (`Record`, `SpeedBps`). Time is a number; `Passes` lets it
go on, with or without bytes, so that any step may come late.

The `MC*` modules give the constants that a `.cfg` cannot express. Every cfg turns
the deadlock check off, for one reason: the models end, when every call that the
bound admits was made (of `StateFile`: never), or the queue was shut down and every
task ended.
That nothing stops *before* that is what `CallReturns`, `CancelSettles` and
`CallersReturn` say.

## 4. What is checked

| run | question | instance | distinct states |
|---|---|---|---|
| `plan` | does the probe put together what belongs together, and the loop return a loadable, balanced partition? | 5 pairs of versions and every server that gives a GET no validator which it does not give a HEAD; a plain server with every size, thread count and floor up to the bounds in the cfg | 673 000 |
| `state_file` | do overlapping, failing, killed saves keep `StateStore`? | 2 savers, 2 states, every fault, any number of saves | 86 800 |
| `shared_path` | do two calls on one path spoil each other? | 2 calls, a file of 2 blocks, 2 versions (the second published between calls), streams that break, abandonment, kills, power loss; a checkpoint of the first call while it runs, and the last one of each | 3 104 000 |
| `progress` | are reports true, and in order? | 2 attempts, a window and an interval of 2 units, 9 units of time, a link of at most 2 | 302 000 |
| `change` | can a change of the resource, a kill, a cancel or a failure between any two steps make a splice, lose or invent progress? | 2 versions of 3 blocks with the same *weak* ETag and different dates, 2 threads, chunks of up to 2 blocks, 2 calls | 2 238 000 |
| `power_loss` | is a durable checkpoint true whatever comes back? | one version of 3 blocks, one block a chunk, `durable_resume`, 2 calls; kills, cancels and failing streams too | 866 000 |
| `buffered` | is the last checkpoint true though writes return early, and without exception? | versions that change forth and back, a state file of release 1, cancel, failing fsync | 362 000 |
| `returns` | does every call return, and what does a checksum settle? | one call, no validators at all, a size that shrinks from 3 to 2, every fault but a short body | 555 000 |
| `single_call` | do the attempts of one call stay with one version, and end? | up to 3 attempts, 3 blocks, bodies that end early, failing writes | 2 000 |
| `single_rerun` | do calls with a checksum recover whatever file they find? | 5 leftovers, 4 calls, a file that cannot be hashed or removed | 1 900 |
| `queue` | permits, tokens, callers, refinement of `TaskSlots` | 2 submissions, 2 shutdowns, 1 slot, a channel of 1, downloads that may hang or panic | 28 300 |
| `single_splice` | a sentence of the docs that the code does not keep | smallest that shows it | see section 6 |

### Why these bounds

* *Two versions*: every mechanism compares one version with another; three add
  orders of the same comparisons (with validators that tell them apart, the
  theorems cover any number).
* *Three blocks, two workers*: the smallest file whose two ranges differ in
  length, with a range in which a chunk can be full or partial, a position can be
  strictly inside and a chunk (`MaxChunk = 2`) can run past the end of a range.
* *Two calls*: one leaves a file and a state, the other meets them; what a third
  would meet, the second may have met already. `single_rerun` has four, since its
  recovery takes up to three. `returns` has one: what a call inherits does not decide
  whether it returns, and a checksum does not settle what a write left behind by an
  earlier call does later (section 6).
* *One version, one block a chunk in `power_loss`*: its subject is what comes back of
  writes and checkpoints, and every block has several contents already by being written
  or not; a change under every other fault is `change`'s. The theorems have both at once.
* *Two or three retries*: one attempt that fails, one that is retried, one that
  is the last.
* *Queue*: two tasks for one slot and a channel with one place make every wait
  happen; with three tasks and one shutdown (241 000 states) TLC finds no error
  either. The safety part is proved for any number.
* *Planning*: 14 bytes, 7 threads asked for (6 allowed) and a floor of 5 give every
  remainder, a floor that does and does not bind, more threads than bytes. Two
  versions, and one replacement, since there are two requests.
* *State file*: two savers make every overlap of two names; a save has four steps, and
  the state space is finite without a bound.
* *Shared path*: two calls, so that a third can only meet what a second did (and any
  number is proved); two blocks, so that a worker has written one and has another
  under way; `MaxTicks` bounds the checkpoints before the last. `SaveFails` is FALSE here: a save that fails leaves less to see than one
  that is killed at the same point, and `state_file` has it.
* *Progress*: nine units are more than four windows: an attempt, a stall longer than
  the window, and a second attempt. Two samples are the least the meter's capacity
  can be and still show a speed.
* Counters have no other bound than these: calls, versions, attempts, and the
  clock of `Progress`.

A fault is in an instance only if `Faults` names it, so that one run's question is
not drowned by another's finding: section 6 lists what the combinations left out
do.

### Fairness

* `MultiThread`: weak fairness of the call, of each worker, of the saver and of
  pending writes. The tokio runtime polls what can run; a request has a timeout
  (`chunk_request_timeout` covers headers and body), so every request is answered
  or fails; a write lands or fails. Nothing makes the saver's ticker fire before
  the stop: no property needs it to. The server need not change, the caller need
  not call again or cancel.
* `SingleThread`: weak fairness of the call; `RerunSpec` adds that the caller calls
  again, which only `RerunHeals` needs ("a rerun" is its subject).
* `DownloadQueue`: weak fairness of callers' pending calls, the dispatcher, spawned
  tasks; *not* of downloads, which may hang, unless they were cancelled. Weak
  fairness of a task's wait for a permit is enough for `TaskSlots`' promise (some
  waiting task starts); that *each* task starts in the order of its wait is the
  semaphore's, and is not claimed.
* The other modules state safety only.

## 5. What is proved

All with TLAPS, for every value of the constants.

| theorem | statement | needs |
|---|---|---|
| **`Planning_proofs`** | | |
| `PlanTypeCorrect` | types, from the first request to the last range | nothing; any set of servers |
| `LoopCorrect`, `SplitLoadable`, `SplitBalanced` | the loop ends with the closed form; that is a partition `load` accepts; no range is empty or much longer than another | nothing |
| `RangesAlwaysFit`, `DigestAlwaysFits` | where the server honours the requests, the ranges end where the version asked for does, and the digest kept is that version's | `ProbeConditions`: no validator in a GET alone |
| **`SharedPath_proofs`** | | |
| `FileTypeCorrect` | types of the state file's steps | nothing |
| `FileKeepsStore` | `save`, `load`, `delete` implement `StateStore` | nothing; any number of savers |
| `PathKeepsStore` | so they do under calls that share a path | nothing; every fault |
| `ClaimsAlwaysHeld` | no state file claims, up to the last write before its position, what is not on the platter, `doubtful` blocks excepted | the resource does not change *while* a call runs |
| `OkAlwaysIntact` | a file reported complete stays whole, `doubtful` blocks excepted | the same |
| **`MultiThread_proofs`** | | |
| `TypeCorrect` | types; a worker counts no more than `max_retries` attempts | nothing; every fault |
| `StateAlwaysLoadable` | what is saved can be loaded, at whatever moments the positions were read | nothing; every fault |
| `WritesAlwaysInRange` | no worker writes a block outside its range, in another's, or one that a resumable state claims | nothing; every fault |
| `CountAlwaysWithinPositions` | the counter counts nothing twice | nothing; every fault |
| `FailureAlwaysKeepsProgress` | a call that fails leaves what each worker had reached | `SavingWorks`: a save does not fail |
| `CheckpointsAlwaysGrow` | no checkpoint takes back what an earlier one of the same resource granted | `GrowConditions`: equal validators mean equal sizes, no power loss |
| `CallsUseStore` | calls, workers and savers use the state file as `StateStore` allows: `Spec => Store!Spec` | nothing; every fault |
| **`MultiThreadSafety_proofs`** | | |
| `CompletedFilesSound` | Ok means a file of the probed version, `doubtful` blocks excepted | `Conditions` |
| `StateAlwaysSound` | the state file claims only what is in the file, on its way there, or `doubtful` | `Conditions` |
| `DurableAlwaysSound` | what any state file that a power loss may bring back claims, up to each worker's last write, is in any contents it may leave, `doubtful` blocks excepted | `Conditions`, and that the power may fail |
| `StateHoldsAtRest` | once a call returned, the state file claims nothing the file does not have, though writes return early and versions come back | `BufferedConditions` |
| `BufferedFilesIntact` | Ok means an intact file | `BufferedConditions` |
| `ChecksumSound` | Ok means an intact file but for blocks whose write was dropped with its file | `ChecksumConditions`: a digest; where the power may fail, fsync works |
| `ChecksumSettles` | Ok means an intact file | `ChecksumConditions`, and no stream breaks (the fault `error`) |
| **`SingleThread_proofs`** | | |
| `TypeCorrect` | types; attempts are bounded | nothing; every fault |
| `OneVersion` | one call's attempts never mix versions | one call, no file at first, validators that tell versions apart; every fault |
| `OkWhole` | Ok is a whole file | the same, no version longer than an earlier one, a size disclosed at least once |
| **`DownloadQueue_proofs`** | | |
| `TypeCorrect` | types | nothing |
| `SlotsAlwaysAccounted` | no permit is lost or invented | nothing |
| `MapAlwaysHoldsInFlight` | the map names only tasks that are still to end, or panicked | nothing |
| `InFlightAlwaysCancellable` | the map has the token of each task in flight | ids are left to the queue |
| `QueueKeepsSlots` | every step of the queue is one of `TaskSlots`, or a stutter | nothing |
| **`Progress_proofs`** | | |
| `EventsAlwaysInOrder` | a terminal event is the last, and comes after the final position | nothing |
| `SpeedAlwaysWithinRate` | the speed is never more than the link gives | nothing |
| `StallAlwaysShowsZero` | a report after a stall longer than the window shows 0 | nothing |
| `FlowAlwaysShows` | a report on time shows what came | `Interval <= Window`, a meter of two samples or more |

`DownloadState_proofs` has the lemmas about the pure operations that several of
these rest on: what `split_workers` returns, and that a list `validate()` accepts
leaves no byte out.

**Assumptions.** Besides the types of the constants: `Conditions` of
`MultiThreadSafety_proofs` say that validators identify versions, that no version
returns once it was replaced, that a 416 is never given to a satisfiable range,
and that where the power may fail, resume is durable and fsync works. Kills, cancels,
failing requests, streams, writes and saves are all admitted. `BufferedConditions`
admit a version that returns and an fsync that fails as well, and in exchange nothing
that gives a write up: no request, write or save fails, and the process and the power stay.
`ChecksumConditions` admit every server, validator, state file, kill and failure
but one. Each of them is needed; section 6 has the
instance for each. `NoneIsNoState` and `NoneIsNoValidator` say that `None` is neither a
record of a state nor a validator. `"change" \notin Faults` of `SharedPath_proofs` is needed as well:
with a change, one call writes the new version while the other still counts on the
old one (section 6).

**The invariant of the multi-thread path.** `CompletedSound` speaks of the end
only, so `SafeInv` says why the end is right. `LayoutInv`: the live ranges cover
the file and each snapshot lies between a range's start and its position.
`PendInv`: a pending write is its worker's last one, of the probed version and
at most a chunk behind the position, or its block is `doubtful`. `FetchedInv`:
what is before a position is of the probed version, or a write of *that* worker will
make it so (`Underway`), or nobody awaited it; what a worker
streams is of that version (the server honoured `If-Range`, and validators tell versions
apart); and a worker that ended well is at its end, with nothing under way after its
flush. `SafeState`: a state file is of
an old release (refused), or of a version that was replaced (refused when
compared, and no version returns), or of the version a call is completing, and
then each block it claims is `Coming`: in the file, on its way, or `doubtful`. `Now` is
the version that matters: the probed one while a call runs, else the server's. The
steps that take a pending write away are the ones that add its block to `doubtful`;
`Land` puts one into the file. `PowerInv` is the same of everything a
power loss may bring back: what is claimed up to a chunk before the position
(`OnPlatter`) is *all* the platter may hold. Here the saver's order enters, a snapshot, a
sync, then the write (`SyncedInv`; the mutant that reads the positions again after
the sync is caught by the run), and that a worker has one write in flight at most: the
last one before the position it had when it was read.

**What holds without conditions.** `LayoutInv`: each range begins where the one before ends,
the last ends at the size, and every snapshot and position lies between the two
ends of its range, in this order. So whatever mixture of old and new positions a checkpoint
has, it is a list `validate()` accepts (`StateAlwaysLoadable`); and what `load`
accepted is laid out so again, which carries the invariant through a resume. `CountInv`
puts the counter under a sum over the workers: that changing one term changes the
sum by as much is proved from the folds' definition, with a least counterexample
in place of induction. For `FailureAlwaysKeepsProgress` the saver's last
checkpoint matters: `SaverInv` says that, once it is the final one, what it has read is what the
worker's position still is, because the workers have ended. `GrowInv` is why
checkpoints grow: while a call runs, each block that the state file of its resource
claims lies before the position of one of its workers, and before that worker's snapshot
if the saver has read it in this round. The next checkpoint then claims it as well.

**Where no write is given up.** In `WritesInv` a block before a position is in the file *or*
on its way by its own worker (`Underway`), with no other write in flight, and each of
the probed version. A worker ends its segment, or a cancelled stream, with a flush, so
that none is on its way when all have ended, and `RestInv` says that the last checkpoint
is of these positions. As soon as a call returned, the state file so holds, and a file
called complete is whole, without an exception.
Nothing follows for the time *between*: `SavedNotAhead` itself is violated while a
call runs. A version that returns does no harm here, since the checkpoint of
every call replaces what was there.

**A checksum.** `SettledInv` needs next to nothing of the above. When the call
verifies the file, its workers have flushed, so that the only writes in flight
are those of files that were dropped, on blocks that are `Loose`. The digest is
taken of what is in the page cache, and until the next call nothing but such a write
alters it. Where the power may fail, the final fsync has made the
platter agree (`Synced`); an fsync that fails and is ignored (`downloader.rs:498`)
would break this. A file is dropped with a write in flight only if its
stream breaks (a write that fails takes the others of its handle with it), which
is why `ChecksumSettles` excludes that one fault.

**The probe.** `OneVersionInv`: what is known is of *one* version, not later than the
served one, but for a size that may be of a later. If that version has a
validator, then a server that honours it serves this version. HEAD tells every
validator that the GET will, so that the GET of a later version adds none to a digest of an earlier
one (`Settled`).

**The progress meter.** `MeterInv` says of each sample that the link had the time to bring
what came since (`Fits`), and that samples are in the order of their time. So
the quotient of the first and the last is within the rate; and after a stall, all that
is left in the window has the same count. The last sample is the last report, and at
most an interval old when the ticker fires on time, whence `FlowAlwaysShows`.

**The invariant of the single-thread path.** `FileInv`: once the probe is made,
the file is a beginning of *some* version from the probed one up to the
server's. A 206 is only given if the server still serves the probed one
(`HonouredSame`), and then "from the probed one up to the server's" is that one
version: so what is appended fits. `WholeInv` adds that a stream's total is no
less than its body, so that reaching the total is having it all. This argument
is what fails over two calls, where the second probe's version is *later* than
what the first left.

**The state file.** A save that is alone is easy: its state is in no place `load`
sees until the rename, and on the platter by then. With several, the rename of one
takes what another is writing. The invariant therefore says what the temporary file is:
while no saves overlap, that of the one saver (`OwnsTmp`), with its state once that is
written, and on the platter after its sync; once they do (`Mixes`), a state of one of
them, or a text that `load` refuses; and none of them can rename a file that may bring back
anything else, since a rename follows the saver's own sync, after which `kept` has only
what a saver wrote. A saver whose file was renamed under it writes the state file in place: then the
old contents, the new ones or none may come back, all of which `Collide` allows. Then each
of the eight actions is one of `StateStore`'s, or a stutter; `Rename` is `Put` or
`Collide`. `CallsUseStore` is the other
side: `MultiThread` with its saver's snapshot as the state being saved is a
`StateStore` with one saver. It needs that a state is only deleted once the
saver has ended (`OffInv`), which is the order of the two joins.

**Shared paths.** `ClaimsHeld` follows from what `load` may see being, at any
moment, something *some* saver read: so `PathInv` says of every state that it may find,
that is being saved or that `kept` has (`HeldInv`) that if it is
of the current version, its blocks are in the file or on their way, and all but the last
are on the platter; of a snapshot whose sync is still to come (`SnapInv`), that they are in
the file; always but for `doubtful` blocks. A block is on its way only as the last one
of a worker that will wait for it (`PendInv`), which is why the sync can miss no more than
one. That no later step takes this back is because all workers that
are alive fetch the version served (`InfoInv`: here the condition enters), and no
write of that version takes away a block of it. `OkInv` carries the
same from the end of a call to the end of the behaviour.

**The queue.** `SlotsAccounted` is nearly inductive: a permit is held exactly in
the phases `running` and `replied`. `InFlightCancellable` needs that ids of
distinct submissions differ, hence that the counter is above all of them, hence
that no caller chooses one. `MapHoldsInFlight` needs less: an entry has the id its task
was submitted with (`MapInv`), so that a task that ends removes its own, whichever
ids were chosen.

**Not proved, only model-checked**: liveness, which is out of the prover's reach here:
`CallReturns` of both paths, `RerunHeals`, `CancelSettles`, `CallersReturn`, and the fairness
half of `KeepsPromise` (its safety half is `QueueKeepsSlots`). And of the safety
properties, the instance outside a theorem's conditions: `CompletedIntact` in
`returns`, where there is a checksum and streams may break as well.

## 6. Where the code falls short

Run **`single_splice`** shows a sentence of the documentation that the code does
not keep (`downloader.rs:896-897`, "so a changed resource self-heals here"): a part left by an
earlier call is resumed with the validator of the *new* probe
(`downloader.rs:898`), so a changed resource is appended to it. Within one call this
cannot happen (theorem `OneVersion`).

Other disagreements were found with the modules and are *kept out of* the runs'
fault sets. Each is reproduced by changing constants of the cfg named, and
checking the property alone (an action property as PROPERTY, the others as
INVARIANT):

| what | cfg, with | violated |
|---|---|---|
| A 416 to a satisfiable range puts the position at the end; the byte count of this call notices (as the comment at `downloader.rs:803` says), but the final checkpoint claims the range, and the *next* call completes over the hole. | `MTPowerLoss`, `DurableResume = FALSE`, `Faults = {"416"}` | `CompletedSound` |
| A version returns after it was replaced: its state file was refused, but left on disk while its blocks were overwritten. | `MTChange`, `EtagOf <- MCEtagStrong`, `LastModifiedOf <- MCNoDates`, `MaxCalls = 3`, `Faults = {"change", "revert", "kill"}` | `CompletedSound` |
| `downloader.rs:668-671`, "The saved state can never get ahead of durable bytes": it can, by the last write of each worker. `write_all` returned and the position moved, but the write may not be made; `sync_data`, on a handle of its own, does not wait for it. | `MTPowerLoss` | `DurableNotAhead` |
| After the power failed at that point, the next call is Ok over the hole. | `MTPowerLoss`, `Faults = {"powerloss"}` | `CompletedIntact` |
| So it is after a kill between `write_all`'s return and the write, `durable_resume` on or off. | `MTBuffered`, `Faults = {"kill"}` | `CompletedIntact` |
| A write fails after it returned: its position stays counted, the retry goes on behind it. | `MTBuffered`, `Faults = {"writefail"}` | `CompletedIntact` |
| A failed attempt drops its file with a write in flight, which nobody awaits. | `MTBuffered`, `Faults = {"error"}` | `CompletedIntact` |
| Such a write may outlive its call: it lands after the next one has verified the file against its checksum. | `MTReturns`, `MaxCalls = 2` | `CompletedIntact` |
| The final fsync fails, which is ignored (`downloader.rs:498`), and then the power. | `MTPowerLoss`, `Checksum = TRUE`, `"syncfail"` added to `Faults` | `CompletedSound` |
| `downloader.rs:68`, retries are bounded: a body that ends early and cleanly is a successful segment, which resets the count (`downloader.rs:736`); a server that always does so, without a byte, is asked for ever, with no backoff. | `MTReturns`, `MaxVersion = 1`, `SizeOf <- MCSizeOne`, `EtagOf <- MCEtagOne`, `LastModifiedOf <- MCNoDateOne`, `MaxCalls = 1`, `Faults = {"short"}` | `CallReturns` |
| A file as long as the resource is "already complete" (`downloader.rs:882`), and the multi-thread path gives the file its length first: killed, and followed by a call with one thread, its holes are Ok. | `SingleSplice`, `Leftovers <- MCPreallocated`, `MaxCalls = 1`, `Faults = {}` | `OkIsWhole` |
| README.md:84, "On success the state file is removed": the saver of a call whose future was dropped is never stopped, and writes it again. Once the file is moved away, the next call takes a hole for it. | `SharedPath` | `SuccessRemovesState` |
| Two calls on one path while the resource changes: the earlier one goes on writing the old version into a file of which the later one says Ok, or claims. | `SharedPath`, `Faults = {"change"}` | `OkIntact`, `ClaimsHeld` |
| `http.rs:130-131`, a digest "could describe just the probed byte": it is not taken from a 206, but it is from a HEAD whose version nothing in the same answer identifies; the validator is then the GET's. This needs a server that gives a GET a validator which it does not give a HEAD. | `Planning`, `Uneven = TRUE` | `DigestFits`, `RangesFitSize` |
| README.md:42, "smoothed speed": with a `progress_interval` above `speed_window` every sample is dropped before the next, and the speed is 0 throughout. Nothing compares the two. | `Progress`, `Interval = 3` | `FlowShows` |
| README.md:16-17, a change mid-download "clears the stale state": not if another worker's error is met first. | `MTChange`, `Faults = {"change", "error", "cancel"}` | `ChangeClearsState` |
| `downloader.rs:43`, `max_threads` is a hard upper bound: a resumed state brings its own number of ranges. | `MTChange`, `ThreadChoices = {2, 3}`, `Faults = {"kill", "cancel"}` | `ThreadsBounded` |
| `state.rs:187`, every chunk is at least `min_chunk_size`: rounding up the number of ranges makes smaller ones. | `Planning` | `EveryChunkAtLeastMin` |
| Another 2xx status meets `unreachable!()` (`downloader.rs:950`). | `SingleCall` | `NeverPanics` |
| A longer version that replaces the resource during a single-thread call, broken off at or past the old length, is "already complete" to the next attempt, and as long as was probed. | `SingleCall`, `SizeOf <- MCSizeGrows`, `Faults = {"change", "error"}` | `OkIsWhole` |
| With no size from the probe or the response, a failed last write goes unnoticed. | `SingleCall`, `Faults = {"unsized", "hidden", "writefail"}` | `OkIsWhole` |
| `queue.rs:59`, `queue_capacity` bounds what waits: the dispatcher takes messages whether or not there is a slot. | `Queue`, 3 submissions, 1 shutdown, `QueueCapacity = 1` | `BackpressureBound` |
| `queue.rs:5-6`, a result comes when the task "is finished, cancelled, or fails": submissions in the channel behind a Shutdown are dropped (`queue.rs:119`). | `Queue`, `Stop = {s1}`, `QueueCapacity = 2` | `NoHandleLost` |
| Two tasks with one id (`queue.rs:140`), of which the caller chose one. | `Queue`, `TaskIds <- MCChosenIds` | `InFlightCancellable` |

A checksum, given or advertised, catches all of these that are about the multi-thread
path's data (theorem `ChecksumSound`), but for the write that outlives its call and the
failing final fsync, which come after it was computed; and every file of the
single-thread path, whose `FinishOk` follows the digest at once.

These conditions of the theorems of section 5 have no line in the table:

| condition | without it | violated |
|---|---|---|
| `ValidatorsTellApart` | `MTChange`, `EtagOf <- MCNoDates`, `LastModifiedOf <- MCNoDates` | `CompletedSound`, `SavedSound` |
| | `MTBuffered`, `EtagOf <- MCNoDates` | `CompletedIntact`, `SavedNotAheadAtRest` |
| `Conditions`: where the power may fail, resume is durable | `MTPowerLoss`, `DurableResume = FALSE` | `CompletedSound`, `DurableSound` |
| `Conditions`: and fsync works | `MTPowerLoss`, `"syncfail"` added to `Faults` | `CompletedSound`, `DurableSound` |
| `BufferedConditions`: none of these faults | `MTBuffered`, with any *one* of `"416"`, `"error"`, `"writefail"`, `"savefail"`, `"kill"`, `"powerloss"` added to `Faults` | `SavedNotAheadAtRest` |
| `StateHoldsAtRest` speaks of the time between calls | `MTBuffered` | `SavedNotAhead` |
| `ChecksumSettles`: no stream breaks | `MTReturns`, `MaxCalls = 2` | `CompletedIntact` |
| `ChecksumConditions`: and fsync works | `MTPowerLoss`, `Checksum = TRUE`, `"syncfail"` added to `Faults` | `CompletedSound` |
| `SavingWorks` | `MTChange`, `"savefail"` added to `Faults` | `FailureKeepsProgress` |
| `GrowConditions`: equal validators mean equal sizes | `MTReturns`, `MaxCalls = 2` | `CheckpointsOnlyGrow` |
| `GrowConditions`: no power loss, which may leave an older checkpoint | `MTPowerLoss` | `CheckpointsOnlyGrow` |

Met while reading, and in the modules as they are: the comment at `http.rs:130` says a
digest is also captured from "a full 200", which no code does (`LearnDigest`);
a 416 to the probe of an *empty* file fails the call (`AskRange`); a task cancelled
in the queue ends without any event, since `download()` never ran;
an entry of a task that panicked stays in the map (`Panic`); a file *longer* than the resource is
never shortened by the single-thread path: every call fails on the size, before a checksum would remove it;
"The finished file is corrupt" (`downloader.rs:297`) is also said of an intact one that
could not be read to compute its checksum, and it is removed as well (`VerifyFails`,
`FinishUnread`); the removals' errors are ignored (`downloader.rs:299-300`), so that where one
fails a rerun does "complete" the bad file again, until a removal works (`FinishCorrupt`, result `stuck`,
from which `RerunHeals` claims nothing).

## 7. What is not modelled

* **File names** (`filename.rs`), the file name a probe finds, and creation of the
  directory: functions of strings, without a state.
* **Digest parsing, hashing**: a hash is taken to tell contents apart.
* **Building the client** (`http.rs`): settings that are passed on.
* **Durations**: backoff, timeouts and intervals are "at some time", except in
  `Progress`. An attempt that times out after progress is a failed one like any other.
* **The remaining time** in a report: a quotient of two numbers that are modelled.
* **A call that may take either path** within one behaviour: the single-thread path
  meets what the other leaves through `Leftovers` (planned). The probe of the two
  paths' modules is one step that sees one version; `Probe` says what it may see.
* **A `sync_all` of the state file that fails**: its error is ignored; on a file
  system without it, a power loss may leave no state where there was one, which is
  safe.
* **Power loss in the single-thread path**: its files are lost or cut in whole
  blocks at worst, which `Leftovers` can express.
* **Widths**: offsets are `u64` and come from 64-bit sizes; no sum in the modelled
  code can pass the size of the file, so no wrap-around is modelled.
