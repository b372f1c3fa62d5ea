------------------------------ MODULE SharedPath ------------------------------
(***************************************************************************)
(* Calls of download() that meet on one path (src/src/downloader.rs,       *)
(* multi_thread): at the same time, or because the future of an earlier    *)
(* call was dropped, which stops neither the worker nor the saver that it  *)
(* spawned (stop_bg is only cancelled by the code behind the await).  They *)
(* share the data file, the state file and the name of its temporary file. *)
(*                                                                         *)
(* MultiThread has one call at a time with all its workers, and the state  *)
(* file in one step.  Here a call has one worker and all of the file, all  *)
(* versions have one size and a strong ETag, resume is durable, and the    *)
(* state file is that of StateFile.                                        *)
(***************************************************************************)
EXTENDS StateFile

CONSTANTS
  MaxVersion,   \* bound: the server publishes versions 1 .. MaxVersion
  Size,         \* blocks of the file
  MaxTicks,     \* bound: the checkpoints each call makes before its last
  Faults        \* change (a new version while a call runs), full (a 200 to a
                \* range of what did not change), error, abandon, kill, powerloss

Calls   == Savers          \* bound: each is made once, in this order
Version == 1 .. MaxVersion
Block   == 0 .. Size - 1

ASSUME PathAssumption ==
  /\ Savers \subseteq Nat \ {0}
  /\ MaxVersion \in Nat \ {0} /\ Size \in Nat \ {0}
  /\ MaxTicks \in [Calls -> Nat]
  /\ States = [ver : Version, at : 0 .. Size]
  /\ Faults \subseteq {"change", "full", "error", "abandon", "kill", "powerloss"}

VARIABLES
  srv,       \* the version the server serves
  cache,     \* the data file as a read returns it: each block's version, or 0
  platter,   \* for each block, what a power loss may leave there
  pending,   \* writes that returned but are not in the page cache
  doubtful,  \* history: the blocks that a write nobody awaited was to fill
  phase,     \* where each call is
  info,      \* the version it probed
  at,        \* how far its worker is
  outcome,   \* how the worker ended
  saver,     \* its saver: off, on, or making its last checkpoint
  ticks,     \* the ticks its saver has left
  snap       \* what the saver read, not yet in a file

ioVars   == <<pending, doubtful>>
dataVars == <<srv, cache, platter, ioVars>>
callVars == <<phase, info, at, outcome, saver, ticks, snap>>
pathVars == <<fileVars, dataVars, callVars>>

PathInit ==
  /\ FileInit
  /\ srv = 1
  /\ cache = [b \in Block |-> 0]
  /\ platter = [b \in Block |-> {0}]
  /\ pending = {} /\ doubtful = {}
  /\ phase = [c \in Calls |-> "new"]
  /\ info = [c \in Calls |-> 1]
  /\ at = [c \in Calls |-> 0]
  /\ outcome = [c \in Calls |-> "none"]
  /\ saver = [c \in Calls |-> "off"]
  /\ ticks = MaxTicks
  /\ snap = [c \in Calls |-> None]

\* A pending write is owned by its worker until the worker drops its file.
Dropped == 0
PendingOf(c) == { p \in pending : p.owner = c }
BlocksOf(writes) == { p.block : p \in writes }

\* Somebody goes on without knowing that these blocks were written.
Doubts(blocks) == doubtful' = doubtful \cup blocks

Goto(c, p) == phase' = [phase EXCEPT ![c] = p]

\* The call is over, and its worker with it.
Over(c, p) ==
  /\ Goto(c, p)
  /\ at' = [at EXCEPT ![c] = 0]
  /\ outcome' = [outcome EXCEPT ![c] = "none"]

\* Mutant: the file is opened with truncate(true).
OpenedTruncated == [b \in Block |-> 0]
OpenedFile == cache

\* The probe, load, set_len with its sync, and the spawning of the tasks.  What
\* it resumes may name blocks that a worker of another call is still writing.
Start(c) ==
  /\ phase[c] = "new"
  /\ \A d \in Calls : d < c => phase[d] # "new"
  /\ Goto(c, "run")
  /\ info' = [info EXCEPT ![c] = srv]
  /\ at' = [at EXCEPT ![c] = IF Loaded # None /\ Loaded.ver = srv THEN Loaded.at ELSE 0]
  /\ saver' = [saver EXCEPT ![c] = "on"]
  /\ cache' = OpenedFile
  /\ platter' = [b \in Block |-> {cache'[b]}]
  /\ Doubts({ b \in BlocksOf(pending) : b < at'[c] })
  /\ UNCHANGED <<fileVars, srv, pending, outcome, ticks, snap>>

\* Nothing but its own outcome ends a worker.
Works(c) == phase[c] \in {"run", "abandoned"} /\ outcome[c] = "none"

\* A block arrives.  The next write waits for the last one; write_all returns
\* before the OS has the bytes, and the position moves.
Fetch(c) ==
  /\ Works(c)
  /\ at[c] < Size
  /\ PendingOf(c) = {}
  /\ pending' = pending \cup {[owner |-> c, block |-> at[c], ver |-> info[c]]}
  /\ at' = [at EXCEPT ![c] = @ + 1]
  /\ UNCHANGED <<fileVars, srv, cache, platter, doubtful, phase, info, outcome, saver, ticks, snap>>

\* The OS does what write_all returned for.
Land(p) ==
  /\ cache' = [cache EXCEPT ![p.block] = p.ver]
  /\ platter' = [platter EXCEPT ![p.block] = @ \cup {p.ver}]
  /\ pending' = pending \ {p}
  /\ UNCHANGED <<fileVars, srv, doubtful, callVars>>

\* The stream breaks: the file is dropped without a flush, and opened anew.
Breaks(c) ==
  /\ "error" \in Faults
  /\ Works(c)
  /\ PendingOf(c) # {}
  /\ pending' = { [p EXCEPT !.owner = IF @ = c THEN Dropped ELSE @] : p \in pending }
  /\ Doubts(BlocksOf(PendingOf(c)))
  /\ UNCHANGED <<fileVars, srv, cache, platter, callVars>>

\* The range is done and flushed, or a request is answered with 200, or retries
\* run out.
WorkerEnds(c) ==
  /\ Works(c)
  /\ PendingOf(c) = {}
  /\ \/ at[c] = Size /\ outcome' = [outcome EXCEPT ![c] = "done"]
     \/ at[c] < Size /\ (srv # info[c] \/ "full" \in Faults) /\ outcome' = [outcome EXCEPT ![c] = "changed"]
     \/ "error" \in Faults /\ at[c] < Size /\ outcome' = [outcome EXCEPT ![c] = "error"]
  /\ UNCHANGED <<fileVars, dataVars, phase, info, at, saver, ticks, snap>>

\* The worker is joined, and stop_bg cancelled.
Join(c) ==
  /\ phase[c] = "run"
  /\ outcome[c] # "none"
  /\ Goto(c, "stopping")
  /\ UNCHANGED <<fileVars, dataVars, info, at, outcome, saver, ticks, snap>>

Stopped(c) == phase[c] \in {"stopping", "left"}
SaverIdle(c) == snap[c] = None /\ step[c] = "idle"
SaverEnded(c) == saver[c] = "off" \/ (saver[c] = "last" /\ SaverIdle(c))

\* checkpoint: a tick, or the token, makes the saver read the position ...
Snapshot(c) ==
  /\ ~SaverEnded(c)
  /\ SaverIdle(c)
  /\ snap' = [snap EXCEPT ![c] = [ver |-> info[c], at |-> at[c]]]
  /\ \/ Stopped(c) /\ saver' = [saver EXCEPT ![c] = "last"] /\ ticks' = [ticks EXCEPT ![c] = 0]
     \/ ~Stopped(c) /\ ticks[c] > 0 /\ ticks' = [ticks EXCEPT ![c] = @ - 1] /\ UNCHANGED saver
  /\ UNCHANGED <<fileVars, dataVars, phase, info, at, outcome>>

\* ... sync the data file, on a handle of its own, which waits for no worker's
\* write, and save.  Mutant: it is not synced.
DataUnsynced == platter
DataSynced == [b \in Block |-> {cache[b]}]

StartSave(c) ==
  /\ snap[c] # None
  /\ Create(c, snap[c])
  /\ snap' = [snap EXCEPT ![c] = None]
  /\ platter' = DataSynced
  /\ UNCHANGED <<srv, cache, ioVars, phase, info, at, outcome, saver, ticks>>

Save(c) == SaveStep(c) /\ UNCHANGED <<dataVars, callVars>>

\* The saver is joined, and the call decides.
Decide(c) ==
  /\ phase[c] = "stopping"
  /\ SaverEnded(c)
  /\ saver' = [saver EXCEPT ![c] = "off"]
  /\ \/ outcome[c] = "done" /\ Over(c, "deleting") /\ platter' = DataSynced
     \/ outcome[c] = "changed" /\ Over(c, "dropping") /\ UNCHANGED platter
     \/ outcome[c] = "error" /\ Over(c, "failed") /\ UNCHANGED platter
  /\ UNCHANGED <<fileVars, srv, cache, ioVars, info, ticks, snap>>

DeleteState(c) ==
  /\ \/ phase[c] = "deleting" /\ Goto(c, "ok")
     \/ phase[c] = "dropping" /\ Goto(c, "failed")
  /\ Delete
  /\ UNCHANGED <<dataVars, info, at, outcome, saver, ticks, snap>>

\* The future of the call is dropped at one of its awaits.
Abandon(c) ==
  /\ "abandon" \in Faults
  /\ \/ phase[c] = "run" /\ Goto(c, "abandoned")
     \/ phase[c] \in {"stopping", "deleting", "dropping"} /\ Goto(c, "left")
  /\ UNCHANGED <<fileVars, dataVars, info, at, outcome, saver, ticks, snap>>

Alive(c) == phase[c] \in {"run", "stopping", "deleting", "dropping", "abandoned"} \/ ~SaverEnded(c)

CallsEnd ==
  /\ phase' = [c \in Calls |-> IF phase[c] \in {"new", "ok", "failed"} THEN phase[c] ELSE "gone"]
  /\ at' = [c \in Calls |-> 0]
  /\ outcome' = [c \in Calls |-> "none"]
  /\ saver' = [c \in Calls |-> "off"]
  /\ ticks' = [c \in Calls |-> IF phase[c] = "new" THEN ticks[c] ELSE 0]
  /\ snap' = [c \in Calls |-> None]
  /\ pending' = {}
  /\ UNCHANGED <<srv, info>>

Kill ==
  /\ "kill" \in Faults
  /\ \E c \in Calls : Alive(c)
  /\ Killed
  /\ CallsEnd
  /\ Doubts(BlocksOf(pending))
  /\ UNCHANGED <<cache, platter>>

\* The block before a position is that of the last write, which the sync of the
\* saver may have missed.
LastOf(s) == IF s = None THEN {} ELSE Block \cap {s.at - 1}

PowerLoss ==
  /\ "powerloss" \in Faults
  /\ PowerLost
  /\ CallsEnd
  /\ Doubts(BlocksOf(pending) \cup LastOf(Loaded'))
  /\ \E survives \in [Block -> 0 .. MaxVersion] :
       /\ \A b \in Block : survives[b] \in platter[b]
       /\ cache' = survives
       /\ platter' = [b \in Block |-> {survives[b]}]

ServerPublishes ==
  /\ "change" \in Faults \/ \A c \in Calls : ~Alive(c)
  /\ srv < MaxVersion
  /\ srv' = srv + 1
  /\ UNCHANGED <<fileVars, cache, platter, ioVars, callVars>>

CallStep(c) ==
  \/ Start(c) \/ Fetch(c) \/ Breaks(c) \/ WorkerEnds(c) \/ Join(c) \/ Snapshot(c)
  \/ StartSave(c) \/ Save(c) \/ Decide(c) \/ DeleteState(c) \/ Abandon(c)

PathNext ==
  \/ \E c \in Calls : CallStep(c)
  \/ \E p \in pending : Land(p)
  \/ Kill \/ PowerLoss \/ ServerPublishes

PathSpec == PathInit /\ [][PathNext]_pathVars

-------------------------------------------------------------------------------
\* download() returned Ok: as long as nobody called for another version, the
\* file is whole and of the version probed, whoever else writes to the path; but
\* for blocks whose write nobody awaited.
OkIntact ==
  \A c \in Calls :
    /\ phase[c] = "ok"
    /\ \A d \in Calls : d > c /\ phase[d] # "new" => info[d] = info[c]
    => \A b \in Block \ doubtful : cache[b] = info[c]

\* Whatever state file the next call may find, be it written by a call that is
\* still running, was abandoned or killed: what it claims, up to the last write
\* before its position, is on the platter, if it was awaited.
ClaimsHeld ==
  \A s \in Entries \ {None} :
    s.ver = srv => \A b \in (0 .. s.at - 2) \ doubtful : platter[b] = {s.ver}

-------------------------------------------------------------------------------
\* README: "On success the state file is removed".  An abandoned saver puts it
\* back: once the file is moved away, the next call takes a hole for it.
SuccessRemovesState ==
  (\A c \in Calls : phase[c] \in {"new", "ok", "abandoned"} /\ step[c] = "idle")
    /\ (\E c \in Calls : phase[c] = "ok" /\ \A d \in Calls : d > c => phase[d] = "new")
    => Loaded = None
===============================================================================
