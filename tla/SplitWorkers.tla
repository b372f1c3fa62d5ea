----------------------------- MODULE SplitWorkers -----------------------------
(***************************************************************************)
(* split_workers (src/src/state.rs), the loop itself: each turn pushes one *)
(* range and moves on to where it ended.  DownloadState!SplitWorkers gives *)
(* the same list in closed form; the other modules, and the proofs, use    *)
(* that one.  Module Planning runs the loop with the arguments of a call.  *)
(***************************************************************************)
EXTENDS DownloadState, Sequences

VARIABLES size, threads, minChunk,      \* the arguments
          i, pos, workers               \* the loop's own state

vars == <<size, threads, minChunk, i, pos, workers>>

effective == Effective(size, threads, minChunk)
chunk     == size \div effective

\* assert!(file_size > 0) holds for the arguments that download_inner passes.
LoopInit == i = 0 /\ pos = 0 /\ workers = <<>>

\* Where the range being laid out ends: the last one takes the remainder.
NextEndWithoutRemainder == pos + chunk
NextEndInclusive == IF i = effective - 1 THEN size ELSE pos + chunk - 1
NextEnd == IF i = effective - 1 THEN size ELSE pos + chunk

Looping == i < effective

Push ==
  /\ Looping
  /\ workers' = Append(workers, [start |-> pos, current |-> pos, end |-> NextEnd])
  /\ pos' = NextEnd
  /\ i' = i + 1
  /\ UNCHANGED <<size, threads, minChunk>>

Done == i = effective

-------------------------------------------------------------------------------

\* The loop stays inside the file, and pushes one range per turn.
TypeOK ==
  /\ i \in 0 .. effective
  /\ pos \in 0 .. size
  /\ Len(workers) = i

\* When the loop ends it returned the closed form, for every argument.
LoopIsClosedForm == Done => workers = SplitWorkers(size, threads, minChunk)

\* A fresh split passes the check that `load` makes of a saved one: whatever
\* split_workers returns can be checkpointed and resumed.
SplitIsLoadable == Done => Validate(NewState(size, None, None, workers))

\* With a minimum chunk set, no worker is handed an empty range, and no worker
\* waits for one that got more than the others by as much as their number.
SplitIsBalanced ==
  Done =>
    \A v, w \in DOMAIN workers :
      LET Length(u) == workers[u].end - workers[u].start
      IN  /\ minChunk > 0 => Length(v) > 0
          /\ Length(w) < Length(v) + effective

\* What the doc comment of split_workers says: "Ensures every chunk is at
\* least `min_chunk` bytes" (a file smaller than one chunk is one range).
EveryChunkAtLeastMin ==
  Done =>
    \A w \in DOMAIN workers :
      workers[w].end - workers[w].start >= AtMost(minChunk, size)
===============================================================================
