---------------------------- MODULE Progress_proofs ----------------------------
(***************************************************************************)
(* Theorems about Progress, for every window, interval, capacity, rate and *)
(* size, any number of attempts, and any lateness of the task's steps.     *)
(***************************************************************************)
EXTENDS Progress, SequenceTheorems, WellFoundedInduction, TLAPS

Sample == [at : Nat, bytes : Nat]

InOrder(list) ==
  \A m, n \in 1 .. Len(list) :
    m <= n => list[m].at <= list[n].at /\ list[m].bytes <= list[n].bytes

-------------------------------------------------------------------------------
(***************************************************************************)
(* SpeedMeter, for any list of samples.                                    *)
(***************************************************************************)
\* A set of numbers has a least one.
LEMMA LeastOf ==
  ASSUME NEW T \in SUBSET Nat, T # {}
  PROVE  Min(T) \in T /\ \A m \in T : Min(T) <= m
<1> DEFINE R == OpToRel(<, Nat)
<1>1. IsWellFoundedOn(R, Nat)
  BY NatLessThanWellFounded
<1>2. \A x, y \in Nat : x < y => <<x, y>> \in R
  BY DEF OpToRel
<1> HIDE DEF R
<1>3. PICK n \in T : \A m \in T : ~ (<<m, n>> \in R)
  BY <1>1, WFMin, Zenon
<1>4. ASSUME NEW m \in T PROVE n <= m
  <2>1. m \in Nat /\ n \in Nat /\ ~ (m < n)
    BY <1>2, <1>3
  <2> QED
    BY <2>1
<1> QED
  BY <1>4 DEF Min

\* What is kept is the end of the list that is inside the window.
LEMMA RecentIs ==
  ASSUME NEW list \in Seq(Sample), InOrder(list), NEW t \in Nat
  PROVE  /\ Recent(list, t) \in Seq(Sample)
         /\ \E k \in 0 .. Len(list) :
              /\ Len(Recent(list, t)) = Len(list) - k
              /\ \A n \in 1 .. Len(list) - k : Recent(list, t)[n] = list[n + k]
              /\ \A n \in k + 1 .. Len(list) : t - list[n].at <= Window
         /\ Len(list) > 0 /\ t - list[Len(list)].at <= Window => Len(Recent(list, t)) > 0
<1> DEFINE kept == {n \in DOMAIN list : t - list[n].at <= Window}
<1>l. Len(list) \in Nat /\ DOMAIN list = 1 .. Len(list) /\ \A n \in 1 .. Len(list) : list[n] \in Sample
  OBVIOUS
<1>r. Recent(list, t) = From(list, kept)
  BY DEF Recent
<1>n. Recent(list, t) = IF kept = {} THEN <<>> ELSE SubSeq(list, Min(kept), Len(list))
  BY <1>r DEF From
<1>w. Window \in Nat
  BY ProgressAssumption
<1> DEFINE q == Recent(list, t)
<1> HIDE DEF q
<1>1. CASE kept = {}
  <2>1. q = <<>> /\ Len(q) = 0
    BY <1>n, <1>1 DEF q
  <2>2. Len(list) > 0 => ~ (t - list[Len(list)].at <= Window)
    BY <1>l, <1>1
  <2>3. q \in Seq(Sample)
    BY <2>1
  <2>4. \E k \in 0 .. Len(list) :
          /\ Len(q) = Len(list) - k
          /\ \A n \in 1 .. Len(list) - k : q[n] = list[n + k]
          /\ \A n \in k + 1 .. Len(list) : t - list[n].at <= Window
    <3> WITNESS Len(list) \in 0 .. Len(list)
    <3> QED
      BY <1>l, <2>1
  <2> QED
    BY <2>2, <2>3, <2>4 DEF q
<1>2. CASE kept # {}
  <2>s. kept \in SUBSET Nat
    BY <1>l
  <2>0. Min(kept) \in kept
    BY <1>2, <2>s, LeastOf
  <2>1. PICK m : m = Min(kept)
    OBVIOUS
  <2>2. m \in 1 .. Len(list) /\ t - list[m].at <= Window /\ q = SubSeq(list, m, Len(list))
    BY <1>l, <1>n, <1>2, <2>0, <2>1 DEF q
  <2> HIDE DEF kept
  <2>3. /\ q \in Seq(Sample)
        /\ Len(q) = Len(list) - m + 1
        /\ \A n \in 1 .. Len(list) - m + 1 : q[n] = list[m + n - 1]
    BY <1>l, <2>2, SubSeqProperties
  <2>4. ASSUME NEW n \in m .. Len(list) PROVE t - list[n].at <= Window
    <3>1. n \in 1 .. Len(list) /\ m <= n
      BY <1>l, <2>2
    <3>2. list[m].at \in Nat /\ list[n].at \in Nat
      BY <1>l, <2>2, <3>1 DEF Sample
    <3>3. list[m].at <= list[n].at
      BY <2>2, <3>1 DEF InOrder
    <3> QED
      BY <1>w, <2>2, <3>2, <3>3
  <2>5. PICK k : k = m - 1
    OBVIOUS
  <2>6. k \in 0 .. Len(list) /\ k + 1 = m /\ Len(q) = Len(list) - k /\ Len(q) > 0
    BY <1>l, <2>2, <2>3, <2>5
  <2>7. \A n \in 1 .. Len(list) - k : q[n] = list[n + k]
    BY <1>l, <2>2, <2>3, <2>5
  <2>8. \A n \in k + 1 .. Len(list) : t - list[n].at <= Window
    BY <2>4, <2>6
  <2> QED
    BY <2>3, <2>6, <2>7, <2>8 DEF q
<1> QED
  BY <1>1, <1>2

\* The list a report computes its speed from: the new sample, after an end of
\* the old list that is inside the window.
Ending(r, list, t, bytes) ==
  /\ r \in Seq(Sample) /\ Len(r) > 0
  /\ r[Len(r)] = [at |-> t, bytes |-> bytes]
  /\ \E k \in 0 .. Len(list) :
       /\ Len(r) = Len(list) - k + 1
       /\ \A n \in 1 .. Len(r) - 1 : r[n] = list[n + k]
       /\ \A n \in k + 1 .. Len(list) : t - list[n].at <= Window

LEMMA RecordEnds ==
  ASSUME NEW list \in Seq(Sample), InOrder(list), NEW t \in Nat, NEW bytes \in Nat
  PROVE  /\ Ending(Record(list, t, bytes), list, t, bytes)
         /\ Len(list) > 0 /\ t - list[Len(list)].at <= Window /\ Capacity > 1
              => Len(Record(list, t, bytes)) > 1
<1> DEFINE new == [at |-> t, bytes |-> bytes]
           q   == Recent(list, t)
           all == Append(q, new)
<1>1. q \in Seq(Sample)
  BY RecentIs
<1>2. PICK k \in 0 .. Len(list) :
              /\ Len(q) = Len(list) - k
              /\ \A n \in 1 .. Len(list) - k : q[n] = list[n + k]
              /\ \A n \in k + 1 .. Len(list) : t - list[n].at <= Window
  BY RecentIs
<1>3. Len(list) > 0 /\ t - list[Len(list)].at <= Window => Len(q) > 0
  BY RecentIs
<1> HIDE DEF q
<1>4. /\ all \in Seq(Sample) /\ Len(all) = Len(q) + 1 /\ all[Len(q) + 1] = new
      /\ \A n \in 1 .. Len(q) : all[n] = q[n]
  BY <1>1, AppendProperties DEF Sample
<1>5. Record(list, t, bytes) = Last(all, Capacity)
  BY DEF Record, q
<1>c. Capacity \in Nat \ {0} /\ Len(list) \in Nat /\ Len(q) \in Nat
  BY <1>1, ProgressAssumption
<1> HIDE DEF all, new
<1>6. CASE Len(all) <= Capacity
  <2>1. Record(list, t, bytes) = all
    BY <1>4, <1>5, <1>6, <1>c DEF Last
  <2>2. Ending(all, list, t, bytes)
    BY <1>2, <1>4, <1>c DEF Ending, new
  <2> QED
    BY <1>3, <1>4, <1>c, <2>1, <2>2
<1>7. CASE Len(all) > Capacity
  <2> DEFINE f == Len(all) - Capacity + 1
             r == SubSeq(all, f, Len(all))
  <2>1. Record(list, t, bytes) = r
    BY <1>4, <1>5, <1>7, <1>c DEF Last
  <2>f. f \in 1 .. Len(all) /\ Len(all) \in Nat /\ Len(all) - f + 1 = Capacity
    BY <1>4, <1>7, <1>c
  <2>h. f = Len(all) - Capacity + 1
    OBVIOUS
  <2> HIDE DEF f
  <2>2. /\ r \in Seq(Sample)
        /\ Len(r) = Capacity
        /\ \A n \in 1 .. Capacity : r[n] = all[f + n - 1]
    <3>2. \A n \in f .. Len(all) : all[n] \in Sample
      BY <1>4, <2>f
    <3> QED
      BY <2>f, <3>2, SubSeqProperties
  <2>3. f = Len(q) + 1 - Capacity + 1 /\ f + Capacity - 1 = Len(q) + 1 /\ Len(q) + 1 > Capacity
    BY <1>4, <1>7, <1>c, <2>h
  <2> HIDE DEF r
  <2>4. r[Len(r)] = new
    BY <1>4, <1>c, <2>2, <2>3
  <2>k. PICK j : j = k + (f - 1)
    OBVIOUS
  <2>5. j \in 0 .. Len(list) /\ Len(r) = Len(list) - j + 1 /\ k <= j
    BY <1>2, <1>c, <2>2, <2>3, <2>k
  <2>6. \A n \in 1 .. Len(r) - 1 : r[n] = list[n + j]
    <3> TAKE n \in 1 .. Len(r) - 1
    <3>1. n \in 1 .. Capacity /\ f + n - 1 \in 1 .. Len(q) /\ f + n - 1 + k = n + j
      BY <1>c, <1>2, <2>2, <2>3, <2>k
    <3>2. r[n] = q[f + n - 1]
      BY <1>4, <2>2, <3>1
    <3> QED
      BY <1>2, <3>1, <3>2
  <2>7. \A n \in j + 1 .. Len(list) : t - list[n].at <= Window
    BY <1>2, <2>5
  <2>8. Len(r) > 0 /\ (Capacity > 1 => Len(r) > 1)
    BY <1>c, <2>2
  <2>9. \E i \in 0 .. Len(list) :
          /\ Len(r) = Len(list) - i + 1
          /\ \A n \in 1 .. Len(r) - 1 : r[n] = list[n + i]
          /\ \A n \in i + 1 .. Len(list) : t - list[n].at <= Window
    BY <2>5, <2>6, <2>7
  <2>10. Ending(r, list, t, bytes)
    BY <2>2, <2>4, <2>8, <2>9 DEF Ending, new
  <2> QED
    BY <2>1, <2>8, <2>10
<1>8. Len(all) <= Capacity \/ Len(all) > Capacity
  BY <1>4, <1>c
<1> QED
  BY <1>6, <1>7, <1>8
-------------------------------------------------------------------------------
(***************************************************************************)
(* What a report says.                                                     *)
(***************************************************************************)
ClockInv ==
  /\ now \in Nat /\ arrived \in 0 .. now
  /\ downloaded \in 0 .. Total

\* No attempt without its task until it is joined, and no news in between.
CallInv ==
  /\ attempt \in Nat
  /\ call \in {"new", "probing", "started", "running", "joining", "joined", "over"}
  /\ call \in {"new", "probing"} => attempt = 0
  /\ call \notin {"running", "joining"} => task = "off"
  /\ call = "running" => ~stop /\ task # "off"
  /\ task = "off" /\ attempt > 0 => heard.position = downloaded
  /\ call = "over" => heard.event \in Terminal

Events == {"Queued", "Probing", "Started", "Progress", "Completed", "Failed", "Cancelled"}

HeardInv ==
  /\ heard \in [event : Events, position : Nat, speed : Nat]
  /\ heard.speed <= Rate

\* The link had the time to bring what came since the sample, and if nothing
\* came, the sample has it all.
Fits(s) ==
  /\ s.at <= now /\ s.bytes <= downloaded
  /\ downloaded - s.bytes <= Rate * (now - s.at)
  /\ s.at > arrived => s.bytes = downloaded

\* The last sample is the last report, and the next one is due an interval on.
MeterInv ==
  task = "on" =>
    /\ samples \in Seq(Sample) /\ InOrder(samples)
    /\ \A n \in 1 .. Len(samples) : Fits(samples[n])
    /\ due \in Nat
    /\ Len(samples) > 0 => /\ samples[Len(samples)].bytes = heard.position
                           /\ due <= samples[Len(samples)].at + Interval

ProgressInv == ClockInv /\ CallInv /\ HeardInv /\ MeterInv

LEMMA Quotient ==
  ASSUME NEW a \in Nat, NEW n \in Nat \ {0}, NEW r \in Nat
  PROVE  /\ a \div n \in Nat
         /\ a <= r * n => a \div n <= r
         /\ n <= a => a \div n > 0
<1>1. a \div n \in Nat /\ (a \div n) * n <= a /\ a < ((a \div n) + 1) * n
  OBVIOUS
<1>2. PICK q \in Nat : q = a \div n
  BY <1>1
<1>3. ASSUME a <= r * n, q > r PROVE FALSE
  <2>1. PICK d \in Nat : q = r + 1 + d
    <3>1. q - r - 1 \in Nat /\ q = r + 1 + (q - r - 1)
      BY <1>3
    <3> QED
      BY <3>1
  <2>2. q * n = r * n + n + d * n /\ d * n \in Nat /\ r * n \in Nat
    BY <2>1
  <2> QED
    BY <1>1, <1>2, <1>3, <2>2
<1>4. ASSUME n <= a, q = 0 PROVE FALSE
  BY <1>1, <1>2, <1>4
<1> QED
  BY <1>2, <1>3, <1>4

LEMMA Later ==
  ASSUME NEW x \in Nat, NEW y \in Nat, x <= y
  PROVE  Rate * x \in Nat /\ Rate * x <= Rate * y
<1>1. PICK d \in Nat : y = x + d
  <2>1. y - x \in Nat /\ y = x + (y - x)
    OBVIOUS
  <2> QED
    BY <2>1
<1>r. Rate \in Nat
  BY ProgressAssumption
<1>2. Rate * y = Rate * x + Rate * d /\ Rate * d \in Nat /\ Rate * x \in Nat
  BY <1>1, <1>r
<1> QED
  BY <1>r, <1>2

\* A speed is computed over no less than the time since the first sample, and
\* no more than the window.
LEMMA SpeedOf ==
  ASSUME ClockInv, NEW r \in Seq(Sample), Len(r) > 0, \A n \in 1 .. Len(r) : Fits(r[n]),
         r[Len(r)] = [at |-> now, bytes |-> downloaded], now - r[1].at <= Window
  PROVE  /\ SpeedBps(r, now) \in Nat /\ SpeedBps(r, now) <= Rate
         /\ r[1].at > arrived => SpeedBps(r, now) = 0
         /\ Len(r) > 1 /\ downloaded - r[1].bytes >= Window => SpeedBps(r, now) > 0
<1>p. Rate \in Nat /\ Window \in Nat \ {0}
  BY ProgressAssumption
<1>1. PICK h \in Sample : h = r[1]
  OBVIOUS
<1>h. h.at \in Nat /\ h.bytes \in Nat /\ now \in Nat /\ downloaded \in Nat /\ arrived \in Nat
  BY DEF Sample, ClockInv
<1>f. Fits(h) /\ Head(r) = h /\ now - h.at <= Window
  BY <1>1
<1>2. PICK age \in Nat : age = now - h.at
  BY <1>h, <1>f DEF Fits
<1>3. PICK e : e = Elapsed(r, now)
  OBVIOUS
<1>4. e \in Nat \ {0} /\ age <= e /\ e <= Window
  BY <1>p, <1>h, <1>f, <1>2, <1>3 DEF Elapsed, AtLeast, AtMost
<1>5. PICK d \in Nat : d = downloaded - h.bytes
  BY <1>h, <1>f DEF Fits
<1>6. SpeedBps(r, now) = IF Len(r) < 2 THEN 0 ELSE d \div e
  <2>1. AtLeast(r[Len(r)].bytes - Head(r).bytes, 0) = d
    BY <1>h, <1>f, <1>5 DEF AtLeast
  <2> QED
    BY <1>3, <2>1 DEF SpeedBps
<1>7. d <= Rate * e
  <2>1. d <= Rate * age
    BY <1>f, <1>2, <1>5 DEF Fits
  <2>2. Rate * age \in Nat /\ Rate * age <= Rate * e /\ Rate * e \in Nat
    BY <1>p, <1>4, Later
  <2> QED
    BY <2>1, <2>2
<1>8. d \div e \in Nat /\ d \div e <= Rate /\ (e <= d => d \div e > 0)
  BY <1>p, <1>4, <1>7, Quotient
<1>9. ASSUME h.at > arrived PROVE d \div e = 0
  <2>1. d = 0
    BY <1>f, <1>h, <1>5, <1>9 DEF Fits
  <2> QED
    BY <1>4, <2>1, Quotient
<1> QED
  BY <1>p, <1>1, <1>4, <1>5, <1>6, <1>8, <1>9

LEMMA EmitSays ==
  ASSUME ClockInv, MeterInv, task = "on", Emit
  PROVE  /\ samples' \in Seq(Sample) /\ InOrder(samples') /\ Len(samples') > 0
         /\ \A n \in 1 .. Len(samples') : Fits(samples'[n])
         /\ samples'[Len(samples')] = [at |-> now, bytes |-> downloaded]
         /\ heard' = [event |-> "Progress", position |-> downloaded, speed |-> heard'.speed]
         /\ heard'.speed \in Nat /\ heard'.speed <= Rate
         /\ now - arrived > Window => heard'.speed = 0
         /\ /\ Interval <= Window /\ Capacity > 1
            /\ now = due /\ Len(samples) > 0 /\ downloaded >= heard.position + Window
            => heard'.speed > 0
<1>p. /\ Window \in Nat \ {0} /\ Interval \in Nat \ {0} /\ Rate \in Nat
  BY ProgressAssumption
<1>c. now \in Nat /\ downloaded \in Nat /\ arrived \in Nat
  BY DEF ClockInv
<1>m. /\ samples \in Seq(Sample) /\ InOrder(samples)
      /\ \A n \in 1 .. Len(samples) : Fits(samples[n])
      /\ \A n \in 1 .. Len(samples) : samples[n].at \in Nat /\ samples[n].bytes \in Nat
      /\ Len(samples) \in Nat
  <2>1. /\ samples \in Seq(Sample) /\ InOrder(samples)
        /\ \A n \in 1 .. Len(samples) : Fits(samples[n])
    BY DEF MeterInv
  <2>2. Len(samples) \in Nat /\ \A n \in 1 .. Len(samples) : samples[n] \in Sample
    BY <2>1
  <2> QED
    BY <2>1, <2>2 DEF Sample
<1>1. PICK r : r = Record(samples, now, downloaded)
  OBVIOUS
<1>2. /\ samples' = r
      /\ heard' = [event |-> "Progress", position |-> downloaded, speed |-> SpeedBps(r, now)]
  BY <1>1 DEF Emit
<1>3. Ending(r, samples, now, downloaded)
  BY <1>1, <1>c, <1>m, RecordEnds
<1>4. PICK k \in 0 .. Len(samples) :
         /\ Len(r) = Len(samples) - k + 1
         /\ \A n \in 1 .. Len(r) - 1 : r[n] = samples[n + k]
         /\ \A n \in k + 1 .. Len(samples) : now - samples[n].at <= Window
  BY <1>3 DEF Ending
<1>5. /\ r \in Seq(Sample) /\ Len(r) \in Nat /\ Len(r) > 0
      /\ r[Len(r)] = [at |-> now, bytes |-> downloaded]
  BY <1>3 DEF Ending
\* Every sample is the new one, or an old one inside the window.
<1>6. ASSUME NEW n \in 1 .. Len(r)
      PROVE  \/ n = Len(r)
             \/ /\ n < Len(r) /\ n + k \in k + 1 .. Len(samples)
                /\ r[n] = samples[n + k] /\ now - samples[n + k].at <= Window
  <2>1. n \in Nat /\ k \in Nat /\ 1 <= n /\ n <= Len(r)
    BY <1>5, <1>m
  <2>2. n # Len(r) => n \in 1 .. Len(r) - 1 /\ n + k \in k + 1 .. Len(samples)
    BY <2>1, <1>4, <1>5, <1>m
  <2> QED
    BY <2>1, <2>2, <1>4
<1>7. Fits(r[Len(r)])
  <2>1. Rate * (now - now) = 0
    BY <1>p, <1>c
  <2> QED
    BY <1>c, <1>5, <2>1 DEF Fits, ClockInv
<1>8. ASSUME NEW n \in 1 .. Len(r) PROVE Fits(r[n])
  <2>1. n + k \in k + 1 .. Len(samples) => n + k \in 1 .. Len(samples)
    BY <1>m
  <2> QED
    BY <1>6, <1>7, <1>m, <2>1
<1>9. InOrder(r)
  <2> SUFFICES ASSUME NEW m \in 1 .. Len(r), NEW n \in 1 .. Len(r), m <= n
               PROVE  r[m].at <= r[n].at /\ r[m].bytes <= r[n].bytes
    BY DEF InOrder
  <2>1. CASE n = Len(r)
    BY <1>5, <1>8, <2>1 DEF Fits
  <2>2. CASE n # Len(r)
    <3>1. /\ m + k \in 1 .. Len(samples) /\ n + k \in 1 .. Len(samples) /\ m + k <= n + k
          /\ r[m] = samples[m + k] /\ r[n] = samples[n + k]
      BY <1>4, <1>5, <1>6, <1>m, <2>2
    <3> QED
      BY <1>m, <3>1 DEF InOrder
  <2> QED
    BY <2>1, <2>2
<1>10. now - r[1].at <= Window
  <2>1. CASE Len(r) = 1
    BY <1>c, <1>p, <1>5, <2>1
  <2>2. CASE Len(r) # 1
    <3>1. 1 \in 1 .. Len(r) /\ 1 # Len(r)
      BY <1>5, <2>2
    <3> QED
      BY <1>6, <3>1
  <2> QED
    BY <2>1, <2>2
<1>11. /\ SpeedBps(r, now) \in Nat /\ SpeedBps(r, now) <= Rate
       /\ r[1].at > arrived => SpeedBps(r, now) = 0
       /\ Len(r) > 1 /\ downloaded - r[1].bytes >= Window => SpeedBps(r, now) > 0
  BY <1>5, <1>8, <1>10, SpeedOf
<1>r. r[1] \in Sample /\ r[1].at \in Nat /\ r[1].bytes \in Nat
  <2>1. 1 \in 1 .. Len(r)
    BY <1>5
  <2>2. r[1] \in Sample
    BY <1>5, <2>1
  <2> QED
    BY <2>2 DEF Sample
<1>12. ASSUME now - arrived > Window PROVE SpeedBps(r, now) = 0
  <2>1. r[1].at > arrived
    BY <1>c, <1>p, <1>r, <1>10, <1>12
  <2> QED
    BY <1>11, <2>1
<1>13. ASSUME Interval <= Window, Capacity > 1, now = due, Len(samples) > 0,
              downloaded >= heard.position + Window
       PROVE  SpeedBps(r, now) > 0
  <2>1. PICK s : s = samples[Len(samples)]
    OBVIOUS
  <2>2. /\ s.at \in Nat /\ s.bytes \in Nat /\ due \in Nat
        /\ s.bytes = heard.position /\ due <= s.at + Interval
    BY <1>m, <1>13, <2>1 DEF MeterInv
  <2>3. now - s.at <= Window
    BY <1>c, <1>p, <1>13, <2>2
  <2>4. Len(r) > 1
    BY <1>1, <1>c, <1>m, <1>13, <2>1, <2>3, RecordEnds
  <2>5. r[1] = samples[1 + k] /\ 1 + k \in 1 .. Len(samples) /\ 1 + k <= Len(samples)
    BY <1>4, <1>5, <1>6, <1>m, <2>4
  <2>6. r[1].bytes <= s.bytes
    BY <1>m, <1>13, <2>1, <2>5 DEF InOrder
  <2> QED
    BY <1>c, <1>p, <1>r, <1>11, <1>13, <2>2, <2>4, <2>6
<1> QED
  BY <1>2, <1>5, <1>8, <1>9, <1>11, <1>12, <1>13
-------------------------------------------------------------------------------
(***************************************************************************)
(* The steps.                                                              *)
(***************************************************************************)
LEMMA ProgressStart == Init => ProgressInv
<1> SUFFICES ASSUME Init PROVE ProgressInv
  OBVIOUS
<1>p. Rate \in Nat /\ Total \in Nat
  BY ProgressAssumption
<1>1. ClockInv /\ MeterInv
  BY <1>p DEF Init, ClockInv, MeterInv
<1>2. downloaded \in Nat
  BY <1>1, <1>p DEF ClockInv
<1>3. HeardInv
  BY <1>p, <1>2 DEF Init, HeardInv, Events
<1>4. CallInv
  BY DEF Init, CallInv
<1> QED
  BY <1>1, <1>3, <1>4 DEF ProgressInv

\* download() announces something, and no task runs: the position stays.
LEMMA SaysKeeps ==
  ASSUME HeardInv, NEW event \in Events, Says(event)
  PROVE  HeardInv' /\ heard'.event = event /\ heard'.position = heard.position
  BY DEF HeardInv, Says

LEMMA ProgressStep == ProgressInv /\ [Next]_vars => ProgressInv'
<1> SUFFICES ASSUME ProgressInv, [Next]_vars PROVE ProgressInv'
  OBVIOUS
<1>t. ClockInv /\ CallInv /\ HeardInv /\ MeterInv
  BY DEF ProgressInv
<1>p. Interval \in Nat \ {0} /\ Rate \in Nat /\ Total \in Nat
  BY ProgressAssumption
<1>c. UNCHANGED clock => ClockInv'
  BY <1>t DEF clock, ClockInv
\* The meter of a task that goes on, while the clock stands still.
<1>m. ASSUME UNCHANGED <<clock, samples, due>>, heard'.position = heard.position,
             task' = "on" => task = "on"
      PROVE  MeterInv'
  BY <1>m, <1>t DEF clock, MeterInv, Fits
<1>1. CASE TaskStarts
  <2>1. ClockInv' /\ CallInv' /\ HeardInv'
    BY <1>1, <1>c, <1>t DEF TaskStarts, work, CallInv, HeardInv, clock
  <2>2. MeterInv'
    <3>1. samples' = <<>> /\ due' = now + Interval
      BY <1>1 DEF TaskStarts, FirstSample
    <3>2. samples' \in Seq(Sample) /\ Len(samples') = 0 /\ due' \in Nat
      BY <1>t, <1>p, <3>1 DEF ClockInv
    <3> QED
      BY <3>2 DEF MeterInv, InOrder
  <2> QED
    BY <2>1, <2>2 DEF ProgressInv
<1>2. ASSUME task = "on", Emit, UNCHANGED <<clock, work>>,
             task' \in {"on", "off"}, task' = "off" => stop,
             task' = "on" => due' \in Nat /\ due' <= now + Interval
      PROVE  ProgressInv'
  <2>1. /\ samples' \in Seq(Sample) /\ InOrder(samples') /\ Len(samples') > 0
        /\ \A n \in 1 .. Len(samples') : Fits(samples'[n])
        /\ samples'[Len(samples')] = [at |-> now, bytes |-> downloaded]
        /\ heard' = [event |-> "Progress", position |-> downloaded, speed |-> heard'.speed]
        /\ heard'.speed \in Nat /\ heard'.speed <= Rate
    BY <1>2, <1>t, EmitSays
  <2>2. HeardInv'
    <3>1. PICK speed \in Nat : speed = heard'.speed
      BY <2>1
    <3>2. heard' = [event |-> "Progress", position |-> downloaded, speed |-> speed] /\ speed <= Rate
      BY <2>1, <3>1
    <3>3. downloaded \in Nat
      BY <1>t, <1>p DEF ClockInv
    <3> QED
      BY <3>2, <3>3 DEF HeardInv, Events
  <2>3. CallInv'
    BY <1>2, <1>t, <2>1 DEF CallInv, clock, work
  <2>4. MeterInv'
    <3>1. InOrder(samples)'
      BY <2>1 DEF InOrder
    <3>2. \A n \in 1 .. Len(samples') : Fits(samples[n])'
      BY <1>2, <2>1 DEF Fits, clock
    <3>3. samples'[Len(samples')].bytes = heard'.position /\ samples'[Len(samples')].at = now
      BY <2>1
    <3> QED
      BY <1>2, <2>1, <3>1, <3>2, <3>3 DEF MeterInv
  <2> QED
    BY <1>2, <1>c, <2>2, <2>3, <2>4 DEF ProgressInv
<1>3. CASE Tick
  <2>1. due \in Nat /\ due <= now /\ now \in Nat
    BY <1>3, <1>t DEF Tick, MeterInv, ClockInv
  <2>2. PICK q \in Nat : q = (now - due) \div Interval
    <3>1. now - due \in Nat
      BY <2>1
    <3> QED
      BY <1>p, <3>1, Quotient
  <2>3. Interval * q <= now - due
    <3>1. PICK a \in Nat : a = now - due
      BY <2>1
    <3>2. (a \div Interval) * Interval <= a
      BY <1>p, <3>1
    <3> QED
      BY <1>p, <2>2, <3>1, <3>2
  <2>4. Interval * (q + 1) = Interval * q + Interval /\ Interval * q \in Nat
    BY <1>p
  <2>5. due' = due + Interval * (q + 1)
    BY <1>3, <2>2 DEF Tick
  <2>6. due' \in Nat /\ due' <= now + Interval
    BY <1>p, <2>1, <2>3, <2>4, <2>5
  <2> QED
    BY <1>2, <1>3, <2>6 DEF Tick
<1>4. CASE TaskEnds
  BY <1>2, <1>4 DEF TaskEnds
<1>5. CASE Probes \/ Starts
  <2>1. Says("Probing") \/ Says("Started")
    BY <1>5 DEF Probes, Starts
  <2>2. HeardInv' /\ heard'.position = heard.position
    BY <1>t, <2>1, SaysKeeps DEF Events
  <2>3. UNCHANGED <<clock, attempt, stop, reports>>
    BY <1>5 DEF Probes, Starts
  <2>4. CallInv' /\ MeterInv'
    BY <1>5, <1>m, <1>t, <2>2, <2>3 DEF Probes, Starts, CallInv, clock, reports
  <2> QED
    BY <1>c, <2>2, <2>3, <2>4 DEF ProgressInv
<1>6. CASE AttemptRuns
  BY <1>6, <1>t, <1>p DEF AttemptRuns, ProgressInv, ClockInv, CallInv, HeardInv, MeterInv
<1>7. CASE AttemptStops \/ Joins \/ Retries
  <2>1. UNCHANGED <<clock, attempt, reports, heard>>
    BY <1>7 DEF AttemptStops, Joins, Retries
  <2>2. CallInv'
    BY <1>7, <1>t, <2>1 DEF AttemptStops, Joins, TaskJoined, Retries, CallInv, clock, reports
  <2>3. HeardInv' /\ MeterInv'
    BY <1>m, <1>t, <2>1 DEF HeardInv, reports
  <2> QED
    BY <1>c, <2>1, <2>2, <2>3 DEF ProgressInv
<1>8. CASE Ends
  <2>1. PICK event \in Terminal : Says(event)
    BY <1>8 DEF Ends, Terminal
  <2>2. HeardInv' /\ heard'.position = heard.position /\ heard'.event \in Terminal
    <3>1. event \in Events
      BY DEF Terminal, Events
    <3> QED
      BY <1>t, <2>1, <3>1, SaysKeeps
  <2>3. UNCHANGED <<clock, attempt, stop, reports>> /\ call \in {"probing", "started", "joined"} /\ call' = "over"
    BY <1>8 DEF Ends
  <2>4. CallInv' /\ MeterInv'
    BY <1>m, <1>t, <2>2, <2>3 DEF CallInv, clock, reports
  <2> QED
    BY <1>c, <2>2, <2>3, <2>4 DEF ProgressInv
<1>9. CASE Passes
  <2>1. /\ now' = now + 1 /\ UNCHANGED <<work, reports, heard>> /\ call # "over"
        /\ downloaded' \in 0 .. Total /\ downloaded <= downloaded' /\ downloaded' <= downloaded + Rate
        /\ \/ arrived' = arrived /\ downloaded' = downloaded
           \/ arrived' = now' /\ call = "running"
    <3>1. CASE UNCHANGED <<arrived, downloaded>>
      BY <1>9, <1>t, <1>p, <3>1 DEF Passes, ClockInv
    <3>2. CASE ~ UNCHANGED <<arrived, downloaded>>
      <4>1. PICK n \in 1 .. AtMost(Rate, Total - downloaded) : downloaded' = downloaded + n
        BY <1>9, <3>2 DEF Passes
      <4> QED
        BY <1>9, <1>t, <1>p, <3>2, <4>1 DEF Passes, ClockInv, AtMost
    <3> QED
      BY <3>1, <3>2
  <2>2. ClockInv' /\ HeardInv'
    BY <1>t, <2>1 DEF ClockInv, HeardInv
  <2>3. CallInv'
    BY <1>t, <2>1 DEF CallInv, work, reports
  <2>4. ASSUME task = "on", NEW n \in 1 .. Len(samples) PROVE Fits(samples[n])'
    <3>1. Fits(samples[n]) /\ samples[n] \in Sample
      BY <1>t, <2>4 DEF MeterInv
    <3>2. PICK s \in Sample : s = samples[n] /\ s = samples'[n]
      BY <2>1, <3>1 DEF reports
    <3>3. /\ s.at \in Nat /\ s.bytes \in Nat /\ now \in Nat /\ downloaded \in Nat /\ arrived \in Nat
          /\ arrived <= now /\ downloaded' \in Nat
      BY <1>t, <1>p, <2>1 DEF Sample, ClockInv
    <3>4. PICK age \in Nat : age = now - s.at
      BY <3>1, <3>2, <3>3 DEF Fits
    <3>5. now' - s.at = age + 1
      BY <2>1, <3>3, <3>4
    <3>6. Rate * (age + 1) = Rate * age + Rate /\ Rate * age \in Nat
      BY <1>p
    <3>7. downloaded - s.bytes <= Rate * age
      BY <3>1, <3>2, <3>4 DEF Fits
    <3>8. downloaded' - s.bytes <= Rate * (age + 1)
      BY <1>p, <2>1, <3>3, <3>6, <3>7
    <3>9. s.at > arrived' => s.bytes = downloaded'
      BY <2>1, <3>1, <3>2, <3>3 DEF Fits
    <3>10. s.at <= now' /\ s.bytes <= downloaded'
      BY <2>1, <3>1, <3>2, <3>3 DEF Fits
    <3> QED
      BY <3>2, <3>5, <3>8, <3>9, <3>10 DEF Fits
  <2>5. MeterInv'
    <3>1. UNCHANGED <<task, samples, due, heard>>
      BY <2>1 DEF reports
    <3> QED
      BY <1>t, <2>4, <3>1 DEF MeterInv, InOrder
  <2> QED
    BY <2>2, <2>3, <2>5 DEF ProgressInv
<1>10. CASE UNCHANGED vars
  <2>1. UNCHANGED <<clock, work, reports, heard>>
    BY <1>10 DEF vars
  <2>2. CallInv' /\ HeardInv' /\ MeterInv'
    BY <1>m, <1>t, <2>1 DEF CallInv, HeardInv, clock, work, reports
  <2> QED
    BY <1>c, <2>1, <2>2 DEF ProgressInv
<1> QED
  BY <1>1, <1>3, <1>4, <1>5, <1>6, <1>7, <1>8, <1>9, <1>10 DEF Next

LEMMA ProgressInvAlways == Spec => []ProgressInv
BY ProgressStart, ProgressStep, PTL DEF Spec

-------------------------------------------------------------------------------
\* Whatever attempts and tasks came before, and however late their steps: the
\* terminal event is the last, and the position reported before it is final.
THEOREM EventsAlwaysInOrder == Spec => []EventsInOrder
<1>1. ProgressInv => EventsInOrder
  BY DEF ProgressInv, CallInv, EventsInOrder
<1> QED
  BY <1>1, ProgressInvAlways, PTL

\* For every window, interval, capacity and lateness, no speed is reported that
\* the link did not have.
THEOREM SpeedAlwaysWithinRate == Spec => []SpeedWithinRate
<1>1. ProgressInv => SpeedWithinRate
  BY DEF ProgressInv, HeardInv, SpeedWithinRate
<1> QED
  BY <1>1, ProgressInvAlways, PTL

\* "otherwise a stalled download would keep reporting a stale speed forever"
\* (progress.rs:109): for every window, whenever the task reports once nothing came
\* for longer than that, it reports none, be it for the first time or again.
THEOREM StallAlwaysShowsZero == Spec => StallShowsZero
<1>1. ProgressInv /\ [Next]_vars =>
        [Tick \/ TaskEnds => (now - arrived > Window => heard'.speed = 0)]_vars
  <2> SUFFICES ASSUME ProgressInv, Tick \/ TaskEnds, now - arrived > Window
               PROVE  heard'.speed = 0
    OBVIOUS
  <2>1. task = "on" /\ Emit
    BY DEF Tick, TaskEnds
  <2> QED
    BY <2>1, EmitSays DEF ProgressInv
<1> QED
  BY <1>1, ProgressInvAlways, PTL DEF Spec, StallShowsZero

\* With an interval no longer than the window, and room for two samples, a flow
\* is never reported as a standstill.
THEOREM FlowAlwaysShows ==
  ASSUME Interval <= Window, Capacity > 1
  PROVE  Spec => FlowShows
<1>1. ProgressInv /\ [Next]_vars =>
        [Tick /\ now = due /\ samples # <<>> /\ downloaded >= heard.position + Window
           => heard'.speed > 0]_vars
  <2> SUFFICES ASSUME ProgressInv, Tick, now = due, samples # <<>>, downloaded >= heard.position + Window
               PROVE  heard'.speed > 0
    OBVIOUS
  <2>1. task = "on" /\ Emit
    BY DEF Tick
  <2>2. Len(samples) > 0
    BY <2>1 DEF ProgressInv, MeterInv
  <2> QED
    BY <2>1, <2>2, EmitSays DEF ProgressInv
<1> QED
  BY <1>1, ProgressInvAlways, PTL DEF Spec, FlowShows
================================================================================
