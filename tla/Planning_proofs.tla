---------------------------- MODULE Planning_proofs ----------------------------
(***************************************************************************)
(* Theorems about Planning.  For every server, size, thread count and      *)
(* minimum chunk: the loop of split_workers returns the closed form, whose *)
(* ranges a later call can load and no worker is short of; and what the    *)
(* probe puts together is of one version, while that is honoured.          *)
(***************************************************************************)
EXTENDS Planning, DownloadState_proofs

ClosedRange(w) ==
  [ start   |-> (w - 1) * chunk,
    current |-> (w - 1) * chunk,
    end     |-> IF w = effective THEN size ELSE w * chunk ]

\* After i turns: the first i ranges of the closed form, and the place where
\* the next one starts.
LoopInv ==
  /\ size \in Nat \ {0} /\ threads \in Nat /\ minChunk \in Nat
  /\ i \in 0 .. effective
  /\ workers \in Seq(RangeRecord)
  /\ Len(workers) = i
  /\ \A w \in 1 .. i : workers[w] = ClosedRange(w)
  /\ pos = IF i = effective THEN size ELSE i * chunk

LEMMA ChunkType ==
  ASSUME size \in Nat \ {0}, threads \in Nat, minChunk \in Nat
  PROVE  effective \in Nat \ {0} /\ chunk \in Nat /\ chunk * effective <= size
<1>1. effective \in Nat \ {0}
  BY EffectiveType DEF effective
<1> QED
  BY <1>1, DivBounds DEF chunk

LEMMA LoopTurn == LoopInv /\ [Push]_vars => LoopInv'
<1> SUFFICES ASSUME LoopInv, [Push]_vars PROVE LoopInv'
  OBVIOUS
<1>e. effective \in Nat \ {0} /\ chunk \in Nat /\ chunk * effective <= size
  BY ChunkType DEF LoopInv
<1>1. CASE UNCHANGED vars
  BY <1>1 DEF vars, LoopInv, ClosedRange, effective, chunk
<1>2. CASE Push
  <2> USE <1>2
  <2>1. effective' = effective /\ chunk' = chunk /\ size' = size
    BY DEF Push, effective, chunk
  <2>2. i < effective /\ i' = i + 1 /\ pos = i * chunk /\ i \in Nat
    BY <1>e DEF Push, Looping, LoopInv
  <2>3. i * chunk \in Nat /\ (i + 1) * chunk = i * chunk + chunk
    BY <2>2, <1>e, ProductMonotone
  <2>4. NextEnd = IF i + 1 = effective THEN size ELSE (i + 1) * chunk
    BY <2>2, <2>3, <1>e DEF NextEnd
  <2>5. NextEnd \in Nat
    BY <2>4, <2>3, <1>e DEF LoopInv
  <2>6. [start |-> pos, current |-> pos, end |-> NextEnd] = ClosedRange(i + 1)
    <3>1. (i + 1) - 1 = i
      BY <2>2
    <3> QED
      BY <3>1, <2>2, <2>4 DEF ClosedRange
  <2>7. ClosedRange(i + 1) \in RangeRecord
    BY <2>2, <2>3, <2>5, <2>6 DEF RangeRecord
  <2>8. workers' = Append(workers, ClosedRange(i + 1))
    BY <2>6 DEF Push
  <2>9. workers' \in Seq(RangeRecord) /\ Len(workers') = i + 1
    BY <2>7, <2>8 DEF LoopInv
  <2>10. ASSUME NEW w \in 1 .. i + 1 PROVE workers'[w] = ClosedRange(w)'
    <3>1. ClosedRange(w)' = ClosedRange(w)
      BY <2>1 DEF ClosedRange
    <3>2. CASE w = i + 1
      BY <3>1, <3>2, <2>7, <2>8 DEF LoopInv
    <3>3. CASE w \in 1 .. i
      BY <3>1, <3>3, <2>7, <2>8 DEF LoopInv
    <3> QED
      BY <3>2, <3>3, <2>2
  <2>11. pos' = NextEnd
    BY DEF Push
  <2> QED
    BY <2>1, <2>2, <2>4, <2>9, <2>10, <2>11, <1>e DEF LoopInv, Push
<1> QED
  BY <1>1, <1>2

\* The ranges as one function, when the loop is done.
LEMMA LoopEnd == LoopInv /\ Done => workers = SplitWorkers(size, threads, minChunk)
<1> SUFFICES ASSUME LoopInv, Done PROVE workers = SplitWorkers(size, threads, minChunk)
  OBVIOUS
<1>1. workers = [w \in 1 .. effective |-> workers[w]]
  BY DEF LoopInv, Done
<1>2. workers = [w \in 1 .. effective |-> ClosedRange(w)]
  BY <1>1 DEF LoopInv, Done
<1> QED
  BY <1>2 DEF ClosedRange, SplitWorkers, SplitInto, effective, chunk

-------------------------------------------------------------------------------
(***************************************************************************)
(* The arguments that the probe and the choice of path give the loop.      *)
(***************************************************************************)
PlanInv ==
  /\ setup \in Setups /\ server = setup.server /\ srv \in Versions
  /\ stage \in {"head", "get", "probed", "failed", "single", "multi"}
  /\ info.size \in Nat \cup {None}
  /\ info.ranged \in BOOLEAN \cup {None}
  /\ Probed => info.ranged \in BOOLEAN
  /\ stage # "multi" => LoopInit
  /\ LoopInv

LEMMA SetupType ==
  ASSUME NEW s \in Setups
  PROVE  /\ s.server \in Server /\ \A v \in Versions : s.server.len[v] \in Nat
         /\ s.wanted \in Nat /\ s.max \in Nat \ {0} /\ s.minChunk \in Nat
  BY SetupsAssumption DEF Server

\* The loop has not begun: any arguments will do.
LEMMA LoopStart ==
  ASSUME size \in Nat \ {0}, threads \in Nat, minChunk \in Nat, LoopInit
  PROVE  LoopInv
<1>1. effective \in Nat \ {0} /\ chunk \in Nat
  BY ChunkType
<1>2. 0 * chunk = 0
  BY <1>1
<1> QED
  BY <1>1, <1>2 DEF LoopInit, LoopInv

LEMMA PlanStart == PlanInit => PlanInv
<1> SUFFICES ASSUME PlanInit PROVE PlanInv
  OBVIOUS
<1>1. LoopInv
  BY LoopStart DEF PlanInit
<1> QED
  BY <1>1 DEF PlanInit, ProbeInit, PlanInv, Probed, Versions

LEMMA PlanStep == PlanInv /\ [PlanNext]_planVars => PlanInv'
<1> SUFFICES ASSUME PlanInv, [PlanNext]_planVars PROVE PlanInv'
  OBVIOUS
<1>s. \A v \in Versions : server.len[v] \in Nat
  BY SetupType DEF PlanInv
<1>u. UNCHANGED vars => LoopInv' /\ (LoopInit => LoopInit')
  BY LoopTurn DEF PlanInv, LoopInit, vars
<1>1. CASE Probing
  <2>1. UNCHANGED <<setup, vars, server>>
    BY <1>1 DEF Probing, ProbeNext, AskHead, AskRange, Publish
  <2>2. ASSUME AskHead
        PROVE  /\ info'.size \in Nat \cup {None} /\ info'.ranged \in BOOLEAN \cup {None}
               /\ stage' \in {"get", "probed"} /\ srv' = srv
               /\ stage' = "probed" => info'.ranged \in BOOLEAN
    <3>1. CASE LearnHead
      <4>1. info'.size \in Nat \cup {None} /\ info'.ranged \in BOOLEAN \cup {None}
        BY <3>1, <1>s DEF LearnHead, HeadAnswer, Headers, Sent, Confirmed, PlanInv
      <4> QED
        BY <2>2, <4>1 DEF AskHead, PlanInv
    <3>2. CASE stage' = "get" /\ UNCHANGED info
      BY <2>2, <3>2 DEF AskHead, PlanInv
    <3> QED
      BY <2>2, <3>1, <3>2 DEF AskHead
  <2>3. ASSUME AskRange
        PROVE  /\ info'.size \in Nat \cup {None} /\ info'.ranged \in BOOLEAN \cup {None}
               /\ stage' \in {"probed", "failed"} /\ srv' = srv
               /\ stage' = "probed" => info'.ranged \in BOOLEAN
    <3>1. GetAnswer.length \in Nat \cup {None} /\ GetAnswer.total \in Nat \cup {None}
      BY <1>s DEF GetAnswer, Headers, Sent, PlanInv
    <3>2. CASE stage' = "failed" /\ UNCHANGED info
      BY <2>3, <3>2 DEF AskRange, PlanInv
    <3>3. CASE stage' = "probed"
      <4>1. info'.size \in {GetAnswer.length, GetAnswer.total, info.size}
        BY <2>3, <3>3 DEF AskRange, Or
      <4>2. info'.ranged = (Status = 206 \/ info.ranged = TRUE)
        <5>1. stage' # "failed"
          BY <3>3
        <5> DEFINE seen == [ size     |-> IF Status = 206 THEN Or(GetAnswer.total, info.size)
                                          ELSE Or(info.size, GetAnswer.length),
                             ranged   |-> Status = 206 \/ info.ranged = TRUE,
                             etag     |-> LearnValidator(info.etag, GetAnswer.etag),
                             modified |-> LearnValidator(info.modified, GetAnswer.modified),
                             digest   |-> LearnDigest(info.digest, GetAnswer) ]
        <5>2. info' = seen
          BY <2>3, <5>1, Zenon DEF AskRange
        <5>3. seen.ranged = (Status = 206 \/ info.ranged = TRUE)
          BY Zenon
        <5> QED
          BY <5>2, <5>3
      <4>3. info'.ranged \in BOOLEAN
        BY <4>2, Zenon
      <4> QED
        BY <2>3, <3>1, <3>3, <4>1, <4>3 DEF AskRange, PlanInv
    <3> QED
      BY <2>3, <3>2, <3>3 DEF AskRange
  <2>4. ASSUME Publish PROVE srv' \in Versions /\ UNCHANGED <<stage, info>>
    BY <2>4 DEF Publish, Versions
  <2> QED
    BY <1>1, <1>u, <2>1, <2>2, <2>3, <2>4 DEF Probing, ProbeNext, AskHead, AskRange, PlanInv, Probed
<1>2. CASE Choose
  <2>1. RequestedThreads \in Nat
    BY SetupType DEF PlanInv, RequestedThreads, AtMost, AtLeast
  <2>2. LoopInit'
    BY <1>2 DEF Choose, PlanInv, LoopInit
  <2>3. size' \in Nat \ {0} /\ threads' \in Nat /\ minChunk' \in Nat
    BY <1>2, <2>1, SetupType DEF Choose, CanMulti, PlanInv, LoopInv
  <2>4. LoopInv'
    <3>1. effective' \in Nat \ {0} /\ chunk' \in Nat
      BY <2>3, EffectiveType, DivBounds DEF effective, chunk
    <3>2. \A c \in Nat : (0 * c) = 0
      OBVIOUS
    <3>3. i' = 0 /\ pos' = 0 /\ workers' = <<>> /\ (0 * chunk') = 0
      BY <2>2, <3>1, <3>2 DEF LoopInit
    <3>4. workers' \in Seq(RangeRecord) /\ Len(workers') = 0
      BY <3>3
    <3>5. pos' = IF i' = effective' THEN size' ELSE i' * chunk'
      <4>1. i' # effective'
        BY <3>1, <3>3
      <4>2. i' * chunk' = 0
        BY <3>3
      <4> QED
        BY <3>3, <4>1, <4>2
    <3>6. i' \in 0 .. effective' /\ Len(workers') = i' /\ 1 .. i' = {}
      BY <3>1, <3>3, <3>4
    <3> QED
      BY <2>3, <3>4, <3>5, <3>6 DEF LoopInv
  <2> QED
    BY <1>2, <2>2, <2>4 DEF Choose, PlanInv, Probed
<1>3. CASE Split
  BY <1>3, LoopTurn DEF Split, PlanInv, probeVars, Probed
<1>4. CASE UNCHANGED planVars
  BY <1>4, <1>u DEF planVars, probeVars, PlanInv, Probed
<1> QED
  BY <1>1, <1>2, <1>3, <1>4 DEF PlanNext

LEMMA PlanInvAlways == PlanSpec => []PlanInv
BY PlanStart, PlanStep, PTL DEF PlanSpec

\* Whatever the probe learned, the loop stays inside the file.
THEOREM PlanTypeCorrect == PlanSpec => []PlanTypeOK
<1>1. PlanInv => PlanTypeOK
  <2> SUFFICES ASSUME PlanInv PROVE PlanTypeOK
    OBVIOUS
  <2>1. LoopInv
    BY DEF PlanInv
  <2>2. effective \in Nat \ {0} /\ chunk \in Nat /\ chunk * effective <= size
    BY <2>1, ChunkType DEF LoopInv
  <2>3. i * chunk \in Nat /\ i * chunk <= effective * chunk
    BY <2>1, <2>2, ProductMonotone DEF LoopInv
  <2>4. effective * chunk = chunk * effective
    BY <2>2
  <2>5. TypeOK
    BY <2>1, <2>2, <2>3, <2>4 DEF LoopInv, TypeOK
  <2> QED
    BY <2>1, <2>5 DEF PlanInv, PlanTypeOK, LoopInv
<1> QED
  BY <1>1, PlanInvAlways, PTL

\* For all arguments, what the loop returns is what the rest of the project
\* takes split_workers to return.
THEOREM LoopCorrect == PlanSpec => []LoopIsClosedForm
<1>1. PlanInv => LoopIsClosedForm
  BY LoopEnd DEF PlanInv, LoopIsClosedForm
<1> QED
  BY <1>1, PlanInvAlways, PTL

\* For all arguments, a fresh split passes the checks `load` makes.
THEOREM SplitLoadable == PlanSpec => []SplitIsLoadable
<1>1. PlanInv => SplitIsLoadable
  BY LoopEnd, SplitValidates DEF PlanInv, LoopInv, SplitIsLoadable
<1> QED
  BY <1>1, PlanInvAlways, PTL

\* The floor of split_workers leaves no chunk empty.
LEMMA NoEmptyChunk ==
  ASSUME size \in Nat \ {0}, threads \in Nat, minChunk \in Nat \ {0}
  PROVE  chunk > 0
<1>1. DivCeil(size, minChunk) \in Nat /\ DivCeil(size, minChunk) <= size
  <2> DEFINE a == size + minChunk - 1
             q == a \div minChunk
  <2>1. q \in Nat /\ q * minChunk <= a
    BY DivBounds
  <2>2. ASSUME q > size PROVE FALSE
    <3>1. size + 1 <= q /\ (size + 1) * minChunk <= q * minChunk
      BY <2>1, <2>2, ProductMonotone
    <3>2. (size + 1) * minChunk = size * minChunk + minChunk /\ size * 1 <= size * minChunk
      BY ProductMonotone
    <3> QED
      BY <2>1, <3>1, <3>2
  <2> QED
    BY <2>1, <2>2 DEF DivCeil
<1>2. effective \in Nat \ {0} /\ effective <= size
  BY <1>1, EffectiveType DEF effective, Effective, AtLeast, AtMost
<1>3. chunk \in Nat /\ size < (chunk + 1) * effective
  BY <1>2, DivBounds DEF chunk
<1> QED
  BY <1>2, <1>3

\* For all arguments, no worker is handed nothing while a minimum is set, and
\* none gets as many bytes more than another as there are workers.
THEOREM SplitBalanced == PlanSpec => []SplitIsBalanced
<1>1. PlanInv => SplitIsBalanced
  <2> SUFFICES ASSUME PlanInv, Done PROVE SplitIsBalanced
    BY DEF SplitIsBalanced
  <2> DEFINE Length(u) == workers[u].end - workers[u].start
  <2>1. /\ size \in Nat \ {0} /\ threads \in Nat /\ minChunk \in Nat
        /\ DOMAIN workers = 1 .. effective
        /\ \A w \in 1 .. effective : workers[w] = ClosedRange(w)
    BY DEF PlanInv, LoopInv, Done
  <2>2. effective \in Nat \ {0} /\ chunk \in Nat /\ chunk * effective <= size
        /\ size < (chunk + 1) * effective
    BY <2>1, ChunkType, EffectiveType, DivBounds DEF chunk
  <2>3. (chunk + 1) * effective = chunk * effective + effective
        /\ (effective - 1) * chunk = chunk * effective - chunk
    BY <2>2
  <2>4. ASSUME NEW u \in 1 .. effective
        PROVE  Length(u) \in Int /\ chunk <= Length(u) /\ Length(u) < chunk + effective
    <3>1. CASE u = effective
      <4>1. Length(u) = size - (effective - 1) * chunk
        BY <2>1, <3>1 DEF ClosedRange
      <4> QED
        BY <2>1, <2>2, <2>3, <4>1
    <3>2. CASE u # effective
      <4>1. Length(u) = u * chunk - (u - 1) * chunk
        BY <2>1, <3>2 DEF ClosedRange
      <4>2. u * chunk \in Int /\ (u - 1) * chunk = u * chunk - chunk
        BY <2>2
      <4> QED
        BY <2>2, <4>1, <4>2
    <3> QED
      BY <3>1, <3>2
  <2>5. minChunk > 0 => chunk > 0
    BY <2>1, NoEmptyChunk
  <2> QED
    BY <2>1, <2>2, <2>4, <2>5 DEF SplitIsBalanced
<1> QED
  BY <1>1, PlanInvAlways, PTL
-------------------------------------------------------------------------------
(***************************************************************************)
(* What the probe puts together.                                           *)
(***************************************************************************)
\* A server that gives a validator to a GET gives it to a HEAD; and None is none.
HeadTells == \A s \in Setups : s.server.get \cap {"etag", "modified"} \subseteq s.server.head

NoneIsNoValidator == \A w, v : [weak |-> w, tag |-> v] # None /\ [date |-> v] # None

ProbeConditions == HeadTells /\ NoneIsNoValidator

\* What is known is of version v, but for a size that may be of a later one.
FromOne(v) ==
  /\ info.etag \in {None, Tag(v)} /\ info.modified \in {None, Date(v)}
  /\ v = srv => info.size \in {None, server.len[v]}
  /\ info.digest # None =>
       /\ info.digest.of = v
       /\ \A alg \in server.repr : Rank([alg |-> alg, of |-> v]) <= Rank(info.digest)

Blank ==
  info = [size |-> None, ranged |-> info.ranged, etag |-> None, modified |-> None, digest |-> None]

\* The GET has no validator to add.
Settled ==
  /\ info.etag = None => "etag" \notin server.get
  /\ info.modified = None => "modified" \notin server.get

OneVersionInv ==
  /\ stage = "head" => Blank
  /\ stage = "get" => Blank \/ (Settled /\ \E v \in 1 .. srv : FromOne(v))
  /\ Probed => \E v \in 1 .. srv : FromOne(v)
  /\ stage = "multi" => size = info.size /\ info.size # None

LEMMA RankType == \A c : Rank(c) \in 0 .. 3
  BY DEF Rank

LEMMA StrongestIs ==
  ASSUME NEW list, list # {}
  PROVE  StrongestOf(list) \in list /\ \A d \in list : Rank(d) <= Rank(StrongestOf(list))
<1>1. \E c \in list : \A d \in list : Rank(d) <= Rank(c)
  <2>1. PICK any \in list : TRUE
    OBVIOUS
  <2>2. CASE \E c \in list : Rank(c) = 3
    BY <2>2, RankType
  <2>3. CASE (\A c \in list : Rank(c) # 3) /\ \E c \in list : Rank(c) = 2
    BY <2>3, RankType
  <2>4. CASE (\A c \in list : Rank(c) \notin {2, 3}) /\ \E c \in list : Rank(c) = 1
    BY <2>4, RankType
  <2>5. CASE \A c \in list : Rank(c) \notin {1, 2, 3}
    BY <2>1, <2>5, RankType
  <2> QED
    BY <2>2, <2>3, <2>4, <2>5
<1> QED
  BY <1>1, Zenon DEF StrongestOf

\* The digest of a HEAD is of the version that answered, and the strongest.
LEMMA HeadDigest ==
  LET d == DigestFromParts(HeadAnswer)
  IN  d # None => /\ d.of = srv
                  /\ \A alg \in server.repr : Rank([alg |-> alg, of |-> srv]) <= Rank(d)
<1> DEFINE list == [alg : server.repr, of : {srv}]
           best == StrongestOf(list)
           md5  == IF server.md5 THEN [alg |-> "md5", of |-> srv] ELSE None
           d    == DigestFromParts(HeadAnswer)
<1>1. HeadAnswer.repr = list /\ HeadAnswer.md5 = md5
  BY DEF HeadAnswer, Headers
<1>2. d = IF Rank(md5) > Rank(best) THEN md5 ELSE best
  BY <1>1 DEF DigestFromParts
<1>3. md5 # None => md5.of = srv
  OBVIOUS
<1>4. \A alg \in server.repr : [alg |-> alg, of |-> srv] \in list
  OBVIOUS
<1>5. \A c \in list : c.of = srv
  OBVIOUS
<1> HIDE DEF list, md5
<1>6. CASE list = {}
  <2>1. best = None
    BY <1>6 DEF StrongestOf
  <2>2. server.repr = {}
    BY <1>4, <1>6
  <2> QED
    BY <1>2, <1>3, <2>1, <2>2
<1>7. CASE list # {}
  <2>1. best \in list /\ \A c \in list : Rank(c) <= Rank(best)
    BY <1>7, StrongestIs
  <2>2. PICK b : b = best
    OBVIOUS
  <2>3. Rank(b) \in 0 .. 3 /\ Rank(md5) \in 0 .. 3 /\ \A c \in list : Rank(c) \in 0 .. 3
    BY RankType
  <2>4. d \in {md5, b} /\ Rank(b) <= Rank(d)
    BY <1>2, <2>2, <2>3
  <2>5. \A c \in list : Rank(c) <= Rank(d)
    BY <2>1, <2>2, <2>3, <2>4
  <2>6. d # None => d.of = srv
    BY <1>3, <1>5, <2>1, <2>2, <2>4
  <2> QED
    BY <1>4, <2>5, <2>6
<1> QED
  BY <1>6, <1>7

LEMMA HeadLearns ==
  ASSUME PlanInv, HeadTells, LearnHead
  PROVE  /\ info'.etag \in {None, Tag(srv)} /\ info'.modified \in {None, Date(srv)}
         /\ info'.size \in {None, server.len[srv]}
         /\ info'.digest # None =>
              /\ info'.digest.of = srv
              /\ \A alg \in server.repr : Rank([alg |-> alg, of |-> srv]) <= Rank(info'.digest)
         /\ info'.etag = None => "etag" \notin server.get \/ Tag(srv) = None
         /\ info'.modified = None => "modified" \notin server.get \/ Date(srv) = None
<1> DEFINE h == HeadAnswer
           d == DigestFromParts(h)
<1>1. /\ info'.size = h.length /\ info'.etag = h.etag /\ info'.modified = h.modified /\ info'.digest = d
  BY DEF LearnHead
<1>2. /\ h.length = Sent(server.head, "length", server.len[srv])
      /\ h.etag = Sent(server.head, "etag", Tag(srv))
      /\ h.modified = Sent(server.head, "modified", Date(srv))
  BY DEF HeadAnswer, Headers
<1>3. server.get \cap {"etag", "modified"} \subseteq server.head
  BY DEF PlanInv, HeadTells
<1>4. d # None => /\ d.of = srv
                  /\ \A alg \in server.repr : Rank([alg |-> alg, of |-> srv]) <= Rank(d)
  BY HeadDigest
<1> HIDE DEF d, h
<1> QED
  BY <1>1, <1>2, <1>3, <1>4 DEF Sent

\* What a GET adds is of the version it is answered with.
LEMMA RangeLearns ==
  ASSUME PlanInv, AskRange, stage' = "probed"
  PROVE  /\ info'.etag = Or(info.etag, IF "etag" \in server.get THEN Tag(srv) ELSE None)
         /\ info'.modified = Or(info.modified, IF "modified" \in server.get THEN Date(srv) ELSE None)
         /\ info'.size \in {None, server.len[srv], info.size}
         /\ info'.digest = info.digest
<1> DEFINE h == GetAnswer
           seen == [ size     |-> IF Status = 206 THEN Or(h.total, info.size) ELSE Or(info.size, h.length),
                     ranged   |-> Status = 206 \/ info.ranged = TRUE,
                     etag     |-> LearnValidator(info.etag, h.etag),
                     modified |-> LearnValidator(info.modified, h.modified),
                     digest   |-> LearnDigest(info.digest, h) ]
<1>1. info' = seen
  BY Zenon DEF AskRange
<1>2. /\ seen.size = IF Status = 206 THEN Or(h.total, info.size) ELSE Or(info.size, h.length)
      /\ seen.etag = LearnValidator(info.etag, h.etag)
      /\ seen.modified = LearnValidator(info.modified, h.modified)
      /\ seen.digest = LearnDigest(info.digest, h)
  BY Zenon
<1>3. /\ h.etag = Sent(server.get, "etag", Tag(srv)) /\ h.modified = Sent(server.get, "modified", Date(srv))
      /\ h.total \in {None, server.len[srv]}
      /\ Status # 206 => h.length \in {None, server.len[srv]}
  BY DEF GetAnswer, Headers, Sent
<1> HIDE DEF h, seen
<1>4. info'.size \in {None, server.len[srv], info.size}
  BY <1>1, <1>2, <1>3 DEF Or
<1> QED
  BY <1>1, <1>2, <1>3, <1>4 DEF LearnValidator, LearnDigest, Sent

LEMMA OneVersionStart == PlanInit => OneVersionInv
  BY DEF PlanInit, ProbeInit, OneVersionInv, Blank, Probed

LEMMA OneVersionStep ==
  ASSUME ProbeConditions, PlanInv, OneVersionInv, [PlanNext]_planVars
  PROVE  OneVersionInv'
<1>v. srv \in 1 .. 2 /\ srv \in 1 .. srv /\ Tag(srv) # None /\ Date(srv) # None
  BY DEF PlanInv, Versions, ProbeConditions, NoneIsNoValidator, Tag, Date
\* What was learned stays true of the version it is of.
<1>k. ASSUME UNCHANGED <<info, server>>, srv' = srv \/ (srv = 1 /\ srv' = 2), NEW v \in 1 .. srv, FromOne(v)
      PROVE  v \in 1 .. srv' /\ FromOne(v)'
  <2>1. v \in 1 .. srv' /\ (v = srv' => v = srv)
    BY <1>k, <1>v
  <2>2. Tag(v)' = Tag(v) /\ Date(v)' = Date(v)
    BY <1>k DEF Tag, Date
  <2> QED
    BY <1>k, <2>1, <2>2 DEF FromOne
<1>1. CASE AskHead /\ Probing
  <2>1. stage = "head" /\ stage' \in {"get", "probed"} /\ UNCHANGED <<server, srv>> /\ Blank
    BY <1>1 DEF AskHead, OneVersionInv
  <2>2. CASE UNCHANGED info /\ stage' = "get"
    BY <2>1, <2>2 DEF OneVersionInv, Blank, Probed
  <2>3. CASE LearnHead
    <3>1. /\ info'.etag \in {None, Tag(srv)} /\ info'.modified \in {None, Date(srv)}
          /\ info'.size \in {None, server.len[srv]}
          /\ info'.digest # None =>
               /\ info'.digest.of = srv
               /\ \A alg \in server.repr : Rank([alg |-> alg, of |-> srv]) <= Rank(info'.digest)
      BY <2>3, HeadLearns DEF ProbeConditions
    <3>2. PICK v : v = srv
      OBVIOUS
    <3>3. Settled'
      BY <2>1, <2>3, <1>v, HeadLearns DEF ProbeConditions, Settled
    <3>4. Tag(v)' = Tag(v) /\ Date(v)' = Date(v)
      BY <2>1 DEF Tag, Date
    <3>5. FromOne(v)' /\ v \in 1 .. srv'
      BY <1>v, <2>1, <3>1, <3>2, <3>4 DEF FromOne
    <3> QED
      BY <2>1, <3>3, <3>5 DEF OneVersionInv, Probed
  <2> QED
    BY <1>1, <2>2, <2>3 DEF AskHead
<1>2. CASE AskRange /\ Probing
  <2>1. stage = "get" /\ UNCHANGED <<server, srv>> /\ stage' \in {"probed", "failed"}
    BY <1>2 DEF AskRange
  <2>2. CASE stage' = "failed"
    BY <2>2 DEF OneVersionInv, Probed
  <2>3. CASE stage' = "probed"
    <3>1. /\ info'.etag = Or(info.etag, IF "etag" \in server.get THEN Tag(srv) ELSE None)
          /\ info'.modified = Or(info.modified, IF "modified" \in server.get THEN Date(srv) ELSE None)
          /\ info'.size \in {None, server.len[srv], info.size}
          /\ info'.digest = info.digest
      BY <1>2, <2>3, RangeLearns
    <3>2. \A v \in 1 .. srv : Tag(v)' = Tag(v) /\ Date(v)' = Date(v)
      BY <2>1 DEF Tag, Date
    <3>3. CASE Blank
      <4>1. info.etag = None /\ info.modified = None /\ info.size = None /\ info.digest = None
        BY <3>3 DEF Blank
      <4>2. PICK v \in 1 .. srv : v = srv
        BY <1>v
      <4>3. FromOne(v)'
        BY <2>1, <3>1, <3>2, <4>1, <4>2 DEF FromOne, Or
      <4> QED
        BY <2>1, <2>3, <4>3 DEF OneVersionInv
    <3>4. CASE Settled /\ \E v \in 1 .. srv : FromOne(v)
      <4>1. PICK v \in 1 .. srv : FromOne(v)
        BY <3>4
      <4>2. info'.etag = info.etag /\ info'.modified = info.modified
        BY <3>1, <3>4 DEF Settled, Or
      <4>3. FromOne(v)'
        BY <2>1, <3>1, <3>2, <4>1, <4>2 DEF FromOne
      <4> QED
        BY <2>1, <2>3, <4>3 DEF OneVersionInv
    <3> QED
      BY <2>1, <3>3, <3>4 DEF OneVersionInv
  <2> QED
    BY <2>1, <2>2, <2>3
<1>3. CASE (Publish /\ Probing) \/ Split \/ UNCHANGED planVars
  <2>1. /\ UNCHANGED <<info, server, stage>> /\ (srv' = srv \/ (srv = 1 /\ srv' = 2))
        /\ size' = size
    BY <1>3 DEF Publish, Probing, Split, Push, planVars, probeVars, vars
  <2>2. (\E v \in 1 .. srv : FromOne(v)) => \E v \in 1 .. srv' : FromOne(v)'
    BY <1>k, <2>1
  <2> QED
    BY <2>1, <2>2 DEF OneVersionInv, Blank, Settled, Probed
<1>4. CASE Choose
  <2>1. /\ stage = "probed" /\ stage' \in {"multi", "single"} /\ UNCHANGED <<info, server, srv>>
        /\ stage' = "multi" => size' = info.size /\ info.size # None
    BY <1>4 DEF Choose, CanMulti
  <2>2. \E v \in 1 .. srv' : FromOne(v)'
    BY <1>k, <2>1 DEF OneVersionInv, Probed
  <2> QED
    BY <2>1, <2>2 DEF OneVersionInv
<1> QED
  BY <1>1, <1>2, <1>3, <1>4 DEF PlanNext, Probing, ProbeNext

LEMMA OneVersionAlways ==
  ASSUME ProbeConditions
  PROVE  PlanSpec => [](PlanInv /\ OneVersionInv)
<1>1. PlanInv /\ OneVersionInv /\ [PlanNext]_planVars => PlanInv' /\ OneVersionInv'
  BY PlanStep, OneVersionStep
<1> QED
  BY <1>1, PlanStart, OneVersionStart, PTL DEF PlanSpec

\* While the server honours the validator, all that is known is of its version.
LEMMA HonouredIsOfOne ==
  ASSUME ProbeConditions, Honoured, NEW v, FromOne(v)
  PROVE  v = srv
<1>1. Tag(srv) # None /\ Date(srv) # None
  BY DEF ProbeConditions, NoneIsNoValidator, Tag, Date
<1>2. Tag(v) # Date(srv) /\ Date(v) # Tag(srv) /\ (Tag(v) = Tag(srv) => v = srv) /\ (Date(v) = Date(srv) => v = srv)
  BY DEF Tag, Date
<1> QED
  BY <1>1, <1>2 DEF Honoured, IfRangeValidator, FromOne

\* Provided that a server gives a HEAD the validators it gives a GET: for all
\* sizes, arguments and times of the replacement, the ranges end where the
\* version that the requests ask for does.
THEOREM RangesAlwaysFit ==
  ASSUME ProbeConditions
  PROVE  PlanSpec => []RangesFitSize
<1>1. PlanInv /\ OneVersionInv => RangesFitSize
  <2> SUFFICES ASSUME PlanInv, OneVersionInv, stage = "multi", Done, Honoured
               PROVE  workers[Len(workers)].end = server.len[srv]
    BY DEF RangesFitSize
  <2>1. PICK v \in 1 .. srv : FromOne(v)
    BY DEF OneVersionInv, Probed
  <2>2. v = srv
    BY <2>1, HonouredIsOfOne
  <2>3. size = server.len[srv]
    BY <2>1, <2>2 DEF FromOne, OneVersionInv
  <2>4. effective \in Nat \ {0} /\ Len(workers) = effective /\ workers[effective] = ClosedRange(effective)
    BY ChunkType DEF PlanInv, LoopInv, Done
  <2> QED
    BY <2>3, <2>4 DEF ClosedRange
<1> QED
  BY <1>1, OneVersionAlways, PTL

\* Provided the same: no file the validator lets through is checked against the
\* digest of another, and none against a weaker digest than HEAD offered.
THEOREM DigestAlwaysFits ==
  ASSUME ProbeConditions
  PROVE  PlanSpec => []DigestFits
<1>1. PlanInv /\ OneVersionInv => DigestFits
  <2> SUFFICES ASSUME PlanInv, OneVersionInv, Probed, Honoured, info.digest # None PROVE DigestFits
    BY DEF DigestFits
  <2>1. PICK v \in 1 .. srv : FromOne(v)
    BY DEF OneVersionInv
  <2>2. v = srv
    BY <2>1, HonouredIsOfOne
  <2> QED
    BY <2>1, <2>2 DEF FromOne, DigestFits
<1> QED
  BY <1>1, OneVersionAlways, PTL
================================================================================
