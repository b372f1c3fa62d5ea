--------------------------- MODULE MCSingleThread ---------------------------
\* Small instances of SingleThread.
EXTENDS SingleThread, TLC

Tag(v) == [weak |-> FALSE, tag |-> v]

\* Two versions told apart by a strong ETag, of the same or of different length.
MCSizeSame == 1 :> 3 @@ 2 :> 3
MCSizeShrinks == 1 :> 3 @@ 2 :> 2
MCSizeGrows == 1 :> 2 @@ 2 :> 3
MCEtagStrong == 1 :> Tag(1) @@ 2 :> Tag(2)
MCNoDates == 1 :> None @@ 2 :> None

MCNoFile == {<<>>}

\* What a call of the multi-thread path leaves when it is killed: the file has
\* its full length from the start.
MCPreallocated == {<<1, 0, 1>>}

\* ... or what an earlier call on this path got.
MCAnyFile == {<<>>, <<1>>, <<1, 0, 1>>, <<1, 1, 1>>, <<1, 1, 1, 1>>}
=============================================================================
