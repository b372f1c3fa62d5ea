------------------------- MODULE DownloadState_proofs -------------------------
(***************************************************************************)
(* What split_workers returns, for every size, thread count and minimum    *)
(* chunk; and that a list of ranges validate() accepts lies in the file    *)
(* and leaves no byte of it out.                                           *)
(***************************************************************************)
EXTENDS DownloadState, TLAPS, WellFoundedInduction

RangeRecord == [start : Nat, current : Nat, end : Nat]

\* A list of ranges that lie within a file of this size, hold their positions,
\* and leave no byte of it out.
LaidOut(workers, size) ==
  \E n \in Nat \ {0} :
    /\ workers \in [1 .. n -> RangeRecord]
    /\ \A w \in 1 .. n : /\ workers[w].start <= workers[w].current
                         /\ workers[w].current <= workers[w].end
                         /\ workers[w].end <= size
    /\ \A b \in 0 .. size - 1 :
         \E w \in 1 .. n : workers[w].start <= b /\ b < workers[w].end

-------------------------------------------------------------------------------

\* What \div is known by.
LEMMA DivBounds ==
  ASSUME NEW a \in Nat, NEW n \in Nat \ {0}
  PROVE  /\ a \div n \in Nat
         /\ (a \div n) * n <= a
         /\ a < ((a \div n) + 1) * n
  OBVIOUS

LEMMA ProductMonotone ==
  ASSUME NEW c \in Nat, NEW i \in Nat, NEW j \in Nat, i <= j
  PROVE  /\ i * c \in Nat
         /\ i * c <= j * c
<1>1. \E d \in Nat : j = i + d
  <2>1. j - i \in Nat /\ j = i + (j - i)
    OBVIOUS
  <2> QED BY <2>1
<1>2. PICK d \in Nat : j = i + d
  BY <1>1
<1>3. j * c = i * c + d * c
  BY <1>2
<1>4. i * c \in Nat /\ d * c \in Nat
  OBVIOUS
<1> QED
  BY <1>3, <1>4

LEMMA EffectiveType ==
  ASSUME NEW size \in Nat \ {0}, NEW threads \in Nat, NEW minChunk \in Nat
  PROVE  Effective(size, threads, minChunk) \in Nat \ {0}
<1>1. minChunk > 0 => DivCeil(size, minChunk) \in Nat
  BY DivBounds DEF DivCeil
<1> QED
  BY <1>1 DEF Effective, AtLeast, AtMost

LEMMA SplitIsLaidOut ==
  ASSUME NEW size \in Nat \ {0}, NEW threads \in Nat, NEW minChunk \in Nat
  PROVE  LaidOut(SplitWorkers(size, threads, minChunk), size)
<1> DEFINE n     == Effective(size, threads, minChunk)
           chunk == size \div n
           ws    == SplitWorkers(size, threads, minChunk)
<1>n. n \in Nat \ {0}
  BY EffectiveType
<1>c. chunk \in Nat /\ chunk * n <= size
  BY <1>n, DivBounds
<1>ws. ws = [ w \in 1 .. n |->
                [ start   |-> (w - 1) * chunk,
                  current |-> (w - 1) * chunk,
                  end     |-> IF w = n THEN size ELSE w * chunk ] ]
  BY DEF SplitWorkers, SplitInto
<1> HIDE DEF n, chunk, ws
<1>m. ASSUME NEW w \in 1 .. n
      PROVE  /\ (w - 1) * chunk \in Nat
             /\ w * chunk \in Nat
             /\ (w - 1) * chunk <= w * chunk
             /\ w * chunk <= size
  <2>1. w \in Nat /\ w - 1 \in Nat /\ w - 1 <= w /\ w <= n
    BY <1>n
  <2>2. (w - 1) * chunk \in Nat /\ (w - 1) * chunk <= w * chunk
    BY <2>1, <1>c, ProductMonotone
  <2>3. w * chunk \in Nat /\ w * chunk <= n * chunk
    BY <2>1, <1>n, <1>c, ProductMonotone
  <2>4. n * chunk = chunk * n
    BY <1>n, <1>c
  <2> QED
    BY <2>2, <2>3, <2>4, <1>n, <1>c
<1>1. ws \in [1 .. n -> RangeRecord]
  <2>1. ASSUME NEW w \in 1 .. n  PROVE ws[w] \in RangeRecord
    BY <1>m, <1>ws, <1>n DEF RangeRecord
  <2> QED
    BY <2>1, <1>ws
<1>2. ASSUME NEW w \in 1 .. n
      PROVE  /\ ws[w].start <= ws[w].current
             /\ ws[w].current <= ws[w].end
             /\ ws[w].end <= size
  <2>1. (w - 1) * chunk <= size
    BY <1>m, <1>n
  <2> QED
    BY <2>1, <1>m, <1>ws, <1>n
<1>3. ASSUME NEW b \in 0 .. size - 1
      PROVE  \E w \in 1 .. n : ws[w].start <= b /\ b < ws[w].end
  <2>1. CASE (n - 1) * chunk <= b
    BY <2>1, <1>ws, <1>n
  <2>2. CASE b < (n - 1) * chunk
    <3> DEFINE q == b \div chunk
    <3>1. chunk # 0
      BY <2>2, <1>n, <1>c
    <3>2. q \in Nat /\ q * chunk <= b /\ b < (q + 1) * chunk
      BY <3>1, <1>c, DivBounds
    <3> HIDE DEF q
    <3>3. q + 1 < n
      <4>1. SUFFICES ASSUME n - 1 <= q PROVE FALSE
        BY <3>2, <1>n
      <4>2. (n - 1) * chunk <= q * chunk
        BY <4>1, <3>2, <1>n, <1>c, ProductMonotone
      <4>3. (n - 1) * chunk \in Nat /\ q * chunk \in Nat
        BY <3>2, <1>n, <1>c, ProductMonotone
      <4> QED
        BY <4>2, <4>3, <3>2, <2>2
    <3>4. q + 1 \in 1 .. n /\ (q + 1) - 1 = q
      BY <3>2, <3>3, <1>n
    <3>5. ws[q + 1].start = q * chunk /\ ws[q + 1].end = (q + 1) * chunk
      BY <3>3, <3>4, <1>ws, <1>n
    <3> QED
      BY <3>2, <3>4, <3>5
  <2>3. (n - 1) * chunk \in Nat
    <3>1. n - 1 \in Nat
      BY <1>n
    <3> QED
      BY <3>1, <1>c, ProductMonotone
  <2> QED
    BY <2>1, <2>2, <2>3
<1> QED
  BY <1>n, <1>1, <1>2, <1>3 DEF LaidOut, ws

\* The ranges also follow one another: `load` accepts them.
LEMMA SplitValidates ==
  ASSUME NEW s \in Nat \ {0}, NEW t \in Nat, NEW m \in Nat
  PROVE  Validate(NewState(s, None, None, SplitWorkers(s, t, m)))
<1> DEFINE n  == Effective(s, t, m)
           c  == s \div n
           ws == SplitWorkers(s, t, m)
<1>n. n \in Nat \ {0}
  BY EffectiveType
<1>c. c \in Nat
  BY <1>n, DivBounds
<1>ws. ws = [ w \in 1 .. n |->
                [ start   |-> (w - 1) * c,
                  current |-> (w - 1) * c,
                  end     |-> IF w = n THEN s ELSE w * c ] ]
  BY DEF SplitWorkers, SplitInto
<1>l. PICK k \in Nat \ {0} :
        /\ ws \in [1 .. k -> RangeRecord]
        /\ \A w \in 1 .. k : ws[w].start <= ws[w].current /\ ws[w].current <= ws[w].end
  BY SplitIsLaidOut DEF LaidOut
<1> HIDE DEF n, c, ws
<1>d. DOMAIN ws = 1 .. n /\ DOMAIN ws = 1 .. k
  BY <1>ws, <1>l
<1>1. ASSUME NEW w \in DOMAIN ws
      PROVE  /\ ws[w].start = IF w = 1 THEN 0 ELSE ws[w - 1].end
             /\ w + 1 \notin DOMAIN ws => ws[w].end = s
  <2>1. CASE w = 1
    <3>1. (w - 1) * c = 0
      BY <2>1, <1>c
    <3> QED
      BY <2>1, <3>1, <1>ws, <1>n
  <2>2. CASE w # 1
    <3>1. w - 1 \in 1 .. n /\ w - 1 # n
      BY <2>2, <1>d, <1>n
    <3> QED
      BY <2>2, <3>1, <1>ws, <1>n
  <2> QED
    BY <2>1, <2>2
<1>2. ASSUME NEW w \in DOMAIN ws
      PROVE  ws[w].start <= ws[w].current /\ ws[w].current <= ws[w].end
  BY <1>l, <1>d
<1>3. DOMAIN ws # {}
  <2>1. 1 \in DOMAIN ws
    BY <1>d, <1>n
  <2> QED
    BY <2>1
<1>4. Validate(NewState(s, None, None, ws))
  BY <1>1, <1>2, <1>3 DEF Validate, NewState
<1> QED
  BY <1>4 DEF ws

-------------------------------------------------------------------------------

\* A set of numbers has a least one.
LEMMA Least ==
  ASSUME NEW T \in SUBSET Nat, T # {}
  PROVE  \E n \in T : \A m \in T : n <= m
<1> DEFINE R == OpToRel(<, Nat)
<1>1. IsWellFoundedOn(R, Nat)
  BY NatLessThanWellFounded
<1>2. \A x, y \in Nat : x < y => <<x, y>> \in R
  BY DEF OpToRel
<1> HIDE DEF R
<1>3. PICK n \in T : \A m \in T : ~ (<<m, n>> \in R)
  BY <1>1, WFMin, Zenon
<1>4. ASSUME NEW m \in T  PROVE n <= m
  <2>1. m \in Nat /\ n \in Nat
    OBVIOUS
  <2>2. ~ (m < n)
    BY <1>2, <1>3, <2>1
  <2> QED
    BY <2>1, <2>2
<1> QED
  BY <1>4

\* Nor does `load` accept ranges that leave a byte out or run past the end.
LEMMA ValidateLaysOut ==
  ASSUME NEW s, NEW n \in Nat, s.workers \in [1 .. n -> RangeRecord], s.size \in Nat, Validate(s)
  PROVE  LaidOut(s.workers, s.size)
<1> DEFINE ws == s.workers
<1>1. DOMAIN ws = 1 .. n /\ n \in Nat \ {0}
  BY DEF Validate
<1>2. ASSUME NEW w \in 1 .. n
      PROVE  /\ ws[w].start \in Nat /\ ws[w].current \in Nat /\ ws[w].end \in Nat
             /\ ws[w].start = IF w = 1 THEN 0 ELSE ws[w - 1].end
             /\ ws[w].start <= ws[w].current
             /\ ws[w].current <= ws[w].end
  BY <1>1 DEF Validate, RangeRecord
<1>3. ws[n].end = s.size
  <2>1. n \in DOMAIN ws /\ n + 1 \notin DOMAIN ws
    BY <1>1
  <2> QED
    BY <2>1 DEF Validate
<1>t. ws \in [1 .. n -> RangeRecord]
  OBVIOUS
<1> HIDE DEF ws
<1>4. ASSUME NEW b \in 0 .. s.size - 1
      PROVE  \E w \in 1 .. n : ws[w].start <= b /\ b < ws[w].end
  <2> DEFINE T == { w \in 1 .. n : b < ws[w].end }
  <2>1. n \in T
    BY <1>1, <1>3
  <2>2. PICK w \in T : \A v \in T : w <= v
    <3>1. T \in SUBSET Nat /\ T # {}
      BY <2>1
    <3> QED
      BY <3>1, Least
  <2>3. CASE w = 1
    BY <2>3, <1>1, <1>2
  <2>4. CASE w # 1
    <3>1. w - 1 \in 1 .. n /\ ~ (w <= w - 1)
      BY <2>4, <1>1
    <3>2. ~ (b < ws[w - 1].end)
      BY <3>1, <2>2
    <3>3. ws[w].start <= b
      BY <2>4, <3>1, <3>2, <1>1, <1>2
    <3> QED
      BY <3>3
  <2> QED
    BY <2>3, <2>4
<1>5. ASSUME NEW w \in 1 .. n  PROVE ws[w].end <= s.size
  \* Otherwise the last range that ends beyond the file is not the last range.
  <2> DEFINE T == { d \in 0 .. n - 1 : s.size < ws[n - d].end }
  <2>1. SUFFICES ASSUME s.size < ws[w].end PROVE FALSE
    BY <1>2
  <2>2. n - w \in T
    <3>1. n - w \in 0 .. n - 1 /\ n - (n - w) = w
      BY <1>1
    <3> QED
      BY <3>1, <2>1
  <2>3. PICK d \in T : \A c \in T : d <= c
    <3>1. T \in SUBSET Nat /\ T # {}
      BY <2>2
    <3> QED
      BY <3>1, Least
  <2>4. d # 0
    BY <1>1, <1>3
  <2>5. /\ d - 1 \in 0 .. n - 1 /\ n - d \in 1 .. n
        /\ n - (d - 1) \in 1 .. n /\ n - (d - 1) # 1
        /\ (n - (d - 1)) - 1 = n - d
        /\ ~ (d <= d - 1)
    BY <2>4, <1>1
  <2>6. s.size < ws[n - (d - 1)].end
    <3> DEFINE v == n - (d - 1)
    <3>1. v \in 1 .. n /\ v # 1 /\ v - 1 = n - d
      BY <2>5
    <3>2. s.size < ws[v - 1].end /\ v - 1 \in 1 .. n
      BY <3>1, <2>5
    <3> HIDE DEF v
    <3>3. /\ ws[v].start = ws[v - 1].end /\ ws[v - 1].end \in Nat
          /\ ws[v].start \in Nat /\ ws[v].current \in Nat /\ ws[v].end \in Nat
          /\ ws[v].start <= ws[v].current /\ ws[v].current <= ws[v].end
      BY <1>2, <3>1, <3>2
    <3>4. s.size < ws[v].end
      BY <3>2, <3>3
    <3> QED
      BY <3>4 DEF v
  <2> QED
    BY <2>3, <2>5, <2>6
<1>6. \A w \in 1 .. n : /\ ws[w].start <= ws[w].current
                        /\ ws[w].current <= ws[w].end
                        /\ ws[w].end <= s.size
  BY <1>2, <1>5
<1> QED
  BY <1>1, <1>t, <1>4, <1>6 DEF LaidOut, ws
===============================================================================
