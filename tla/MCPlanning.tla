------------------------------ MODULE MCPlanning ------------------------------
\* Small instances of Planning: plain servers with every argument of the split,
\* and every server with one choice of threads.
EXTENDS Planning

CONSTANTS
  MaxSize,    \* bound: a plain server's file has 0 .. MaxSize bytes
  MaxWanted,  \* bound: a task asks for 0 .. MaxWanted threads, and may have all but one
  MaxChunk,   \* bound: of min_chunk_size
  Uneven      \* a GET may be answered with a validator that a HEAD is not

Plain(n) ==
  [ len |-> [v \in Versions |-> n], head |-> Validators, get |-> Validators, weak |-> FALSE,
    accept |-> "bytes", ranges |-> TRUE, total |-> TRUE, repr |-> {}, md5 |-> FALSE ]

MCPlain == { Plain(n) : n \in 0 .. MaxSize }

MCVarious ==
  { s \in [ len : {<<3, 5>>, <<5, 3>>, <<4, 4>>, <<0, 2>>, <<2, 0>>},
            head : SUBSET Validators, get : SUBSET Validators, weak : BOOLEAN,
            accept : {"bytes", "none", None}, ranges : BOOLEAN, total : BOOLEAN,
            repr : {{}, {"md5"}, {"md5", "sha-256", "sha-512"}}, md5 : BOOLEAN ] :
      Uneven \/ s.get \ {"length"} \subseteq s.head }

MCSetups ==
  [server : MCPlain, wanted : 0 .. MaxWanted, max : {MaxWanted - 1}, minChunk : 0 .. MaxChunk]
    \cup [server : MCVarious, wanted : {2}, max : {2}, minChunk : {1}]
===============================================================================
