---------------------------- MODULE MCMultiThread ----------------------------
\* Small instances of MultiThread.
EXTENDS MultiThread, TLC

Tag(v) == [weak |-> FALSE, tag |-> v]
WeakTag == [weak |-> TRUE, tag |-> 1]
\* A date has a tag's shape, so that TLC can compare the two.
Date(v) == [weak |-> FALSE, tag |-> 10 + v]

\* Two versions of the same length, told apart by a strong ETag alone.
MCSizeSame == 1 :> 3 @@ 2 :> 3
MCEtagStrong == 1 :> Tag(1) @@ 2 :> Tag(2)
MCNoDates == 1 :> None @@ 2 :> None

\* The new version is shorter.
MCSizeShrinks == 1 :> 3 @@ 2 :> 2

\* ETags are weak and equal, the dates differ.
MCEtagWeak == 1 :> WeakTag @@ 2 :> WeakTag
MCDates == 1 :> Date(1) @@ 2 :> Date(2)

\* A single version, for the runs in which the resource stays what it is.
MCSizeOne == 1 :> 3
MCEtagOne == 1 :> Tag(1)
MCNoDateOne == 1 :> None

\* What release 1 left: no validators, and every block claimed.
Legacy == [ version |-> 1, size |-> 3, etag |-> None, lastModified |-> None,
            workers |-> <<[start |-> 0, current |-> 3, end |-> 3]>> ]
MCLegacy == {Legacy}
MCNothing == {}
==============================================================================
