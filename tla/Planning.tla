------------------------------- MODULE Planning -------------------------------
(***************************************************************************)
(* download_inner (src/src/downloader.rs) up to the first request for the  *)
(* content: the probe, the thread count, the choice of path, and for many  *)
(* threads the ranges of a call that resumes nothing.                      *)
(***************************************************************************)
EXTENDS SplitWorkers, Probe

CONSTANT Setups   \* a server, the threads a task asks for, and the config

ASSUME SetupsAssumption ==
  \A s \in Setups :
    s \in [server : Server, wanted : Nat, max : Nat \ {0}, minChunk : Nat]

VARIABLE setup

planVars == <<setup, probeVars, vars>>

PlanInit ==
  /\ setup \in Setups
  /\ ProbeInit({setup.server})
  /\ size = 1 /\ threads = 1 /\ minChunk = 0
  /\ LoopInit

\* thread_count.clamp(1, max_threads)
RequestedThreads == AtMost(AtLeast(setup.wanted, 1), setup.max)

\* Mutant: an empty file is split as well.
CanMultiEmpty == info.ranged /\ info.size # None /\ RequestedThreads > 1
CanMulti == info.ranged /\ info.size # None /\ info.size > 0 /\ RequestedThreads > 1

Probing == ProbeNext /\ UNCHANGED <<setup, vars>>

Choose ==
  /\ stage = "probed"
  /\ \/ /\ CanMulti
        /\ stage' = "multi"
        /\ size' = info.size
        /\ threads' = RequestedThreads
        /\ minChunk' = setup.minChunk
     \/ /\ ~CanMulti
        /\ stage' = "single"
        /\ UNCHANGED <<size, threads, minChunk>>
  /\ UNCHANGED <<setup, server, srv, info, i, pos, workers>>

Split ==
  /\ stage = "multi"
  /\ Push
  /\ UNCHANGED <<setup, probeVars>>

PlanNext == Probing \/ Choose \/ Split

PlanSpec == PlanInit /\ [][PlanNext]_planVars

-------------------------------------------------------------------------------
PlanTypeOK ==
  /\ server = setup.server /\ srv \in Versions
  /\ stage \in {"head", "get", "probed", "failed", "single", "multi"}
  /\ info.size \in Nat \cup {None}
  /\ info.ranged \in IF Probed THEN BOOLEAN ELSE BOOLEAN \cup {None}
  /\ size \in Nat \ {0} /\ threads \in Nat /\ minChunk \in Nat
  /\ TypeOK

\* The probe may have asked two versions.  The ranges planned from what it put
\* together are those of the version whose validator every request carries:
\* while the server honours that, no worker asks for what is not there, and no
\* byte is left out.
RangesFitSize ==
  stage = "multi" /\ Done /\ Honoured => workers[Len(workers)].end = server.len[srv]
===============================================================================
