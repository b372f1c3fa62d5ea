------------------------------- MODULE Progress -------------------------------
(***************************************************************************)
(* What a subscriber hears of a call: the events of download() and of its  *)
(* progress task (src/src/downloader.rs), with the speed from the samples  *)
(* of SpeedMeter (src/src/progress.rs).                                    *)
(*                                                                         *)
(* Time is counted in units of which no timer resolves less.  A call makes *)
(* one attempt (multi_thread) or several (single_thread); each has its own *)
(* progress task and its own meter.                                        *)
(***************************************************************************)
EXTENDS Integers, Sequences, FiniteSetsExt

CONSTANTS
  Window,       \* speed_window
  Interval,     \* progress_interval
  Capacity,     \* samples a meter keeps
  Rate,         \* what the link delivers at most in a unit of time
  Total,        \* the size of the file
  Attempts,     \* bound: attempts of the call
  MaxTime       \* bound

ASSUME ProgressAssumption ==
  /\ Window \in Nat \ {0} /\ Interval \in Nat \ {0} /\ Capacity \in Nat \ {0}
  /\ Rate \in Nat /\ Total \in Nat /\ Attempts \in Nat \ {0} /\ MaxTime \in Nat

VARIABLES
  now,
  arrived,      \* when the last bytes came
  downloaded,   \* the counter the task reads
  call,         \* where the call is
  attempt,
  task,         \* the progress task: off, spawned, or on
  stop,         \* its token is cancelled
  due,          \* when its ticker fires next
  samples,      \* its meter: [at, bytes]
  heard         \* the last event, with the position and speed last reported

clock   == <<now, arrived, downloaded>>
work    == <<call, attempt, stop>>
reports == <<task, due, samples>>
vars    == <<clock, work, reports, heard>>

Terminal == {"Completed", "Failed", "Cancelled"}

Init ==
  /\ now = 0 /\ arrived = 0
  /\ downloaded \in 0 .. Total      \* what a state file or the file itself vouches for
  /\ call = "new" /\ attempt = 0 /\ stop = FALSE
  /\ task = "off" /\ due = 0 /\ samples = <<>>
  /\ heard = [event |-> "Queued", position |-> downloaded, speed |-> 0]

Says(event) == heard' = [heard EXCEPT !.event = event]

-------------------------------------------------------------------------------
(***************************************************************************)
(* SpeedMeter                                                              *)
(***************************************************************************)
\* The list without what comes before the first sample to keep.
From(list, kept) == IF kept = {} THEN <<>> ELSE SubSeq(list, Min(kept), Len(list))

\* Mutants: a sample is dropped only for want of room, or an instant too soon.
RecentKept(list, t) == list
RecentYounger(list, t) == From(list, {n \in DOMAIN list : t - list[n].at < Window})
Recent(list, t) == From(list, {n \in DOMAIN list : t - list[n].at <= Window})

Last(list, n) == IF Len(list) > n THEN SubSeq(list, Len(list) - n + 1, Len(list)) ELSE list

Record(list, t, bytes) ==
  Last(Append(Recent(list, t), [at |-> t, bytes |-> bytes]), Capacity)

AtLeast(a, b) == IF a < b THEN b ELSE a
AtMost(a, b)  == IF a < b THEN a ELSE b

\* The floor of a millisecond, and the cap at the window for a late reader.
Elapsed(list, t) == AtMost(AtLeast(t - Head(list).at, 1), Window)

SpeedBps(list, t) ==
  IF Len(list) < 2 THEN 0
  ELSE AtLeast(list[Len(list)].bytes - Head(list).bytes, 0) \div Elapsed(list, t)

-------------------------------------------------------------------------------
(***************************************************************************)
(* progress_task                                                           *)
(***************************************************************************)
Emit ==
  /\ samples' = Record(samples, now, downloaded)
  /\ heard' = [event |-> "Progress", position |-> downloaded, speed |-> SpeedBps(samples', now)]

\* Mutant: the meter of a new task starts from nothing downloaded.
FirstSampleZero == <<[at |-> now, bytes |-> 0]>>
FirstSample == <<>>

\* The first tick comes at once and is thrown away.
TaskStarts ==
  /\ task = "spawned"
  /\ task' = "on"
  /\ due' = now + Interval
  /\ samples' = FirstSample
  /\ UNCHANGED <<clock, work, heard>>

\* MissedTickBehavior::Skip: the next tick stays on the ticker's grid.
Tick ==
  /\ task = "on" /\ ~stop
  /\ due <= now
  /\ Emit
  /\ due' = due + Interval * ((now - due) \div Interval + 1)
  /\ UNCHANGED <<clock, work, task>>

\* "Final emit so the consumer sees the last position before Completed."
TaskEnds ==
  /\ task = "on" /\ stop
  /\ Emit
  /\ task' = "off"
  /\ UNCHANGED <<clock, work, due>>

-------------------------------------------------------------------------------
(***************************************************************************)
(* download(): Probing and the terminal event; Started is emitted between  *)
(* them, once the probe succeeded.                                         *)
(***************************************************************************)
Probes ==
  /\ call = "new"
  /\ call' = "probing"
  /\ Says("Probing")
  /\ UNCHANGED <<clock, attempt, stop, reports>>

Starts ==
  /\ call = "probing"
  /\ call' = "started"
  /\ Says("Started")
  /\ UNCHANGED <<clock, attempt, stop, reports>>

\* An attempt got an answer to write down: from where it resumes, or, with a
\* 200 to a single-thread resume, from the beginning.
AttemptRuns ==
  /\ call = "started"
  /\ attempt < Attempts
  /\ call' = "running"
  /\ attempt' = attempt + 1
  /\ downloaded' \in {downloaded, 0}
  /\ task' = "spawned" /\ stop' = FALSE
  /\ UNCHANGED <<now, arrived, due, samples, heard>>

\* The stream ended, or broke, or the call was cancelled.
AttemptStops ==
  /\ call = "running"
  /\ call' = "joining"
  /\ stop' = TRUE
  /\ UNCHANGED <<clock, attempt, reports, heard>>

\* Mutant: the handle of the task is dropped.
TaskLeft == TRUE
TaskJoined == task = "off"

Joins ==
  /\ call = "joining"
  /\ TaskJoined
  /\ call' = "joined"
  /\ UNCHANGED <<clock, attempt, stop, reports, heard>>

Retries ==
  /\ call = "joined"
  /\ attempt < Attempts
  /\ call' = "started"
  /\ UNCHANGED <<clock, attempt, stop, reports, heard>>

\* What is complete from an earlier run needs no attempt.
Ends ==
  /\ \/ call \in {"started", "joined"} /\ downloaded = Total /\ Says("Completed")
     \/ call \in {"probing", "started", "joined"} /\ (Says("Failed") \/ Says("Cancelled"))
  /\ call' = "over"
  /\ UNCHANGED <<clock, attempt, stop, reports>>

-------------------------------------------------------------------------------
\* Time passes, and while the attempt runs it brings bytes.
Passes ==
  /\ now < MaxTime
  /\ call # "over"
  /\ now' = now + 1
  /\ \/ UNCHANGED <<arrived, downloaded>>
     \/ /\ call = "running"
        /\ \E n \in 1 .. AtMost(Rate, Total - downloaded) : downloaded' = downloaded + n
        /\ arrived' = now'
  /\ UNCHANGED <<work, reports, heard>>

Next ==
  \/ TaskStarts \/ Tick \/ TaskEnds
  \/ Probes \/ Starts \/ AttemptRuns \/ AttemptStops \/ Joins \/ Retries \/ Ends
  \/ Passes

Spec == Init /\ [][Next]_vars

-------------------------------------------------------------------------------
\* A terminal event is the last one, and the position last reported before it
\* is the final one, whatever attempts and progress tasks came before.
EventsInOrder ==
  call = "over" => heard.event \in Terminal /\ (attempt > 0 => heard.position = downloaded)

\* Bytes that were there before the task, or that an earlier attempt fetched,
\* never count as speed, nor does a late or skipped tick inflate it.
SpeedWithinRate == heard.speed <= Rate

\* "otherwise a stalled download would keep reporting a stale speed forever"
\* (progress.rs): a report made when nothing came for longer than the window
\* shows none, nor does it repeat the one before.
StallShowsZero ==
  [][ Tick \/ TaskEnds => (now - arrived > Window => heard'.speed = 0) ]_vars

\* A window that is no shorter than the interval bridges two ticks: a report on
\* time shows speed if enough came since the last one.
FlowShows ==
  [][ Tick /\ now = due /\ samples # <<>> /\ downloaded >= heard.position + Window
        => heard'.speed > 0 ]_vars
===============================================================================
