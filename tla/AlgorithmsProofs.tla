-------------------------- MODULE AlgorithmsProofs --------------------------
(***************************************************************************)
(* What the algorithms compute for every input.  A recursive function is   *)
(* reasoned about as the iteration of its steps (IterationExists,          *)
(* SameIterations of DataLemmas), with an invariant of what it has come to.*)
(***************************************************************************)
EXTENDS Algorithms, PbScalars, DataLemmas, FiniteSetTheorems, SequenceTheorems, TLAPS

(* Any two flags select a slice of any list that is not empty.             *)
LEMMA BandOfAnyList ==
  ASSUME NEW lo \in Int, NEW hi \in Int, NEW n \in Nat \ {0}
  PROVE  InRange(Band(lo, hi, n), n)
<1> DEFINE l == AtLeast(lo, 0)
           h == AtMost(hi, n)
           r == AtMost(l, n - 1)
<1>1. l \in Nat /\ h \in Int /\ h <= n
  BY DEF AtLeast, AtMost
<1>2. r \in Nat /\ r + 1 <= n
  BY <1>1 DEF AtMost
<1>3. Band(lo, hi, n) = IF l < h THEN <<l, h>> ELSE <<r, r + 1>>
  BY DEF Band
<1> HIDE DEF l, h, r
<1>4. CASE l < h
  BY <1>1, <1>3, <1>4 DEF InRange
<1>5. CASE ~(l < h)
  BY <1>2, <1>3, <1>5 DEF InRange
<1> QED
  BY <1>4, <1>5

(* bandedTargets never slices reach beyond its ends and never selects      *)
(* nothing: neither the slice nor band[0], which it logs, can panic.       *)
THEOREM BandSelectsTargets == InputSpec => []BandInRange
<1>1. InputInit => BandInRange
  <2> SUFFICES ASSUME InputInit, algorithm = "band"
               PROVE  InRange(Band(input.lo, input.hi, input.n), input.n)
    BY DEF BandInRange
  <2>1. input \in Bands
    BY DEF InputInit
  <2> QED
    BY <2>1, BandOfAnyList, AlgorithmsAssumption
<1>2. BandInRange /\ [InputNext]_inputVars => BandInRange'
  BY DEF BandInRange, InputNext, inputVars
<1> QED
  BY <1>1, <1>2, PTL DEF InputSpec

OfRank(sorted, q, k) == /\ Quantile(sorted, q) = sorted[k]
                        /\ 1000 * k >= q * Len(sorted)
                        /\ 1000 * (k - 1) < q * Len(sorted)

Ranked(s, q) == \E k \in 1..Len(s) : OfRank(s, q, k)
Thousandths == 1..1000

(* A sample is of some rank with at least that share.                      *)
LEMMA RankedOfAny == \A S : \A s \in Seq(S), q \in Thousandths : s # <<>> => Ranked(s, q)
<1> SUFFICES ASSUME NEW S, NEW s \in Seq(S), s # <<>>, NEW q \in Thousandths
             PROVE  Ranked(s, q)
  OBVIOUS
<1>0. q \in 1..1000
  BY DEF Thousandths
<1> DEFINE n == Len(s)
           m == q * n
           k == (m + 999) \div 1000
<1>1. n \in Nat \ {0}
  OBVIOUS
<1>2. m \in Nat \ {0} /\ m <= 1000 * n
  BY <1>0, <1>1
<1> HIDE DEF n, m
<1>3. k \in 1..n /\ 1000 * k >= m /\ 1000 * (k - 1) < m
  BY <1>1, <1>2
<1>4. Quantile(s, q) = s[k]
  <2>1. Quantile(s, q) =
          IF n = 0 THEN 0
          ELSE s[1 + (IF k - 1 < 0 THEN 0
                      ELSE IF k - 1 >= n THEN n - 1 ELSE k - 1)]
    BY DEF Quantile, n, m
  <2> QED
    BY <1>1, <1>3, <2>1
<1> QED
  BY <1>3, <1>4 DEF Ranked, OfRank, n, m

(* quantile(sorted, q) is the sample of rank k, the least rank that has at *)
(* least the share q of the samples at or below it.                        *)
THEOREM QuantileIsNearestRank ==
  ASSUME NEW S, NEW s \in Seq(S), s # <<>>, NEW q \in 1..1000
  PROVE  \E k \in 1..Len(s) : OfRank(s, q, k)
<1>1. q \in Thousandths
  BY DEF Thousandths
<1>2. Ranked(s, q)
  BY <1>1, RankedOfAny
<1> QED
  BY <1>2 DEF Ranked

-----------------------------------------------------------------------------
(* How many of the first n of a list are v.                                *)
Among(s, n, v) == Cardinality({i \in 1..n : s[i] = v})

(* None of no elements is v.                                               *)
LEMMA AmongNone == \A s, v : Among(s, 0, v) = 0
<1> SUFFICES ASSUME NEW s, NEW v PROVE Among(s, 0, v) = 0
  OBVIOUS
<1>1. {i \in 1..0 : s[i] = v} = {}
  OBVIOUS
<1> QED
  BY <1>1, FS_EmptySet DEF Among

(* How many there are is a number.                                         *)
LEMMA AmongType == \A s, v : \A n \in Nat : Among(s, n, v) \in Nat
<1> SUFFICES ASSUME NEW s, NEW v, NEW n \in Nat PROVE Among(s, n, v) \in Nat
  OBVIOUS
<1> DEFINE Hits == {i \in 1..n : s[i] = v}
<1>1. IsFiniteSet(1..n) /\ Hits \subseteq 1..n
  BY FirstNumbers, Zenon
<1>2. IsFiniteSet(Hits)
  <2> HIDE DEF Hits
  <2> QED
    BY <1>1, FS_Subset
<1>3. Cardinality(Hits) \in Nat
  <2> HIDE DEF Hits
  <2> QED
    BY <1>2, FS_CardinalityType
<1> QED
  BY <1>3 DEF Among

(* One more of the list is one more of its line and none of the others.    *)
LEMMA AmongNext ==
  \A s, v : \A n \in Nat :
    /\ s[n + 1] = v => Among(s, n + 1, v) = Among(s, n, v) + 1
    /\ s[n + 1] # v => Among(s, n + 1, v) = Among(s, n, v)
<1> SUFFICES ASSUME NEW s, NEW v, NEW n \in Nat
             PROVE  /\ s[n + 1] = v => Among(s, n + 1, v) = Among(s, n, v) + 1
                    /\ s[n + 1] # v => Among(s, n + 1, v) = Among(s, n, v)
  OBVIOUS
<1> DEFINE Hits == {i \in 1..n : s[i] = v}
           More == {i \in 1..n + 1 : s[i] = v}
<1>1. PICK x : x = n + 1
  OBVIOUS
<1>2. 1..n + 1 = (1..n) \cup {x} /\ x \notin 1..n /\ x = n + 1
  BY <1>1
<1>3. IsFiniteSet(Hits) /\ x \notin Hits
  <2>1. IsFiniteSet(1..n) /\ Hits \subseteq 1..n
    BY FirstNumbers, Zenon
  <2> HIDE DEF Hits
  <2> QED
    BY <1>2, <2>1, FS_Subset
<1>4. ASSUME s[n + 1] = v PROVE Among(s, n + 1, v) = Among(s, n, v) + 1
  <2>1. More = Hits \cup {x}
    BY <1>2, <1>4
  <2>2. Cardinality(Hits \cup {x}) = Cardinality(Hits) + 1
    <3> HIDE DEF Hits
    <3> QED
      BY <1>3, FS_AddElement
  <2> QED
    BY <2>1, <2>2 DEF Among
<1>5. ASSUME s[n + 1] # v PROVE Among(s, n + 1, v) = Among(s, n, v)
  <2>1. More = Hits
    BY <1>2, <1>5
  <2> QED
    BY <2>1 DEF Among
<1> QED
  BY <1>4, <1>5

(* A line that is not among the rest is among the first as often as in all.*)
LEMMA AmongAll ==
  ASSUME NEW S, NEW s \in Seq(S), NEW v, NEW n \in 0..Len(s)
  PROVE  /\ Among(s, n, v) <= Count(s, v)
         /\ (\A i \in n + 1..Len(s) : s[i] # v) => Among(s, n, v) = Count(s, v)
<1> DEFINE Hits == {i \in 1..n : s[i] = v}
           All == {i \in 1..Len(s) : s[i] = v}
<1>1. Len(s) \in Nat /\ DOMAIN s = 1..Len(s) /\ n \in Nat /\ n <= Len(s)
  BY LenProperties
<1>2. Hits \subseteq All /\ All \subseteq 1..Len(s)
  BY <1>1
<1>3. IsFiniteSet(All)
  <2>1. IsFiniteSet(1..Len(s))
    BY <1>1, FirstNumbers, Zenon
  <2> HIDE DEF All, Hits
  <2> QED
    BY <1>2, <2>1, FS_Subset
<1>4. Cardinality(Hits) <= Cardinality(All)
  <2> HIDE DEF All, Hits
  <2> QED
    BY <1>2, <1>3, FS_Subset
<1>5. Among(s, n, v) = Cardinality(Hits) /\ Count(s, v) = Cardinality(All)
  BY <1>1 DEF Among, Count
<1>6. ASSUME \A i \in n + 1..Len(s) : s[i] # v PROVE Hits = All
  BY <1>1, <1>6
<1> HIDE DEF All, Hits
<1> QED
  BY <1>4, <1>5, <1>6

(* A line written is one more of its kind.                                 *)
LEMMA CountAppend ==
  ASSUME NEW S, NEW s \in Seq(S), NEW x \in S, NEW v
  PROVE  /\ x = v => Count(Append(s, x), v) = Count(s, v) + 1
         /\ x # v => Count(Append(s, x), v) = Count(s, v)
<1> DEFINE t == Append(s, x)
<1>1. /\ t \in Seq(S) /\ Len(t) = Len(s) + 1 /\ Len(s) \in Nat /\ t[Len(s) + 1] = x
      /\ \A i \in 1..Len(s) : t[i] = s[i]
      /\ DOMAIN t = 1..Len(t) /\ DOMAIN s = 1..Len(s)
  BY AppendProperties, LenProperties
<1> HIDE DEF t
<1>2. Count(t, v) = Among(t, Len(s) + 1, v) /\ Count(s, v) = Among(s, Len(s), v)
  BY <1>1 DEF Count, Among
<1>3. Among(t, Len(s), v) = Among(s, Len(s), v)
  <2>1. {i \in 1..Len(s) : t[i] = v} = {i \in 1..Len(s) : s[i] = v}
    BY <1>1
  <2> QED
    BY <2>1 DEF Among
<1>4. /\ t[Len(s) + 1] = v => Among(t, Len(s) + 1, v) = Among(t, Len(s), v) + 1
      /\ t[Len(s) + 1] # v => Among(t, Len(s) + 1, v) = Among(t, Len(s), v)
  BY <1>1, AmongNext
<1> QED
  BY <1>1, <1>2, <1>3, <1>4 DEF t

-----------------------------------------------------------------------------
(* Where the merge of two lists can stand.                                 *)
Places(src, dst) == [ps : 1..Len(src) + 1, ds : 1..Len(dst) + 1, buf : Seq(Nat)]

(* What has been left behind of v in either list, and what that says of    *)
(* what is written and what is still to come.                              *)
Balanced(src, dst, at, v) ==
  LET a == Among(src, at.ps - 1, v)
      b == Among(dst, at.ds - 1, v)
  IN /\ Count(at.buf, v) = IF b < a THEN a - b ELSE 0
     /\ b < a => /\ dst # <<>> /\ v < dst[Len(dst)]
                 /\ \A i \in at.ds..Len(dst) : v < dst[i]
     /\ a < b => \A i \in at.ps..Len(src) : v < src[i]
     /\ at.ds > Len(dst) /\ dst # <<>> =>
          \A i \in at.ps..Len(src) : dst[Len(dst)] <= src[i]

Over(src, dst, at) == at.ps > Len(src) \/ at.ds > Len(dst)

(* What a sorted list is: numbers, in order, its indices from 1 to its     *)
(* length.                                                                 *)
LEMMA ListParts ==
  ASSUME NEW s \in SortedLists
  PROVE  /\ s \in Seq(Nat) /\ Len(s) \in Nat /\ DOMAIN s = 1..Len(s)
         /\ \A i \in 1..Len(s) : s[i] \in Nat
         /\ \A i, j \in 1..Len(s) : i <= j => s[i] <= s[j]
         /\ s # <<>> <=> Len(s) # 0
<1>1. s \in Seq(Nat) /\ \A i, j \in DOMAIN s : i <= j => s[i] <= s[j]
  BY DEF SortedLists
<1>2. Len(s) \in Nat /\ DOMAIN s = 1..Len(s) /\ \A i \in 1..Len(s) : s[i] \in Nat
  BY <1>1, LenProperties, ElementOfSeq
<1>3. s # <<>> <=> Len(s) # 0
  BY <1>1, EmptySeq
<1> QED
  BY <1>1, <1>2, <1>3

(* What a round does: nothing, or one of three things.                     *)
Moved(at, ps, ds, buf, to) == to.ps = at.ps + ps /\ to.ds = at.ds + ds /\ to.buf = buf

(* The four outcomes of a round of compare's loop: over, a match, a line   *)
(* of the first list alone, a line of the second alone.                    *)
LEMMA RoundCases ==
  ASSUME NEW src \in SortedLists, NEW dst \in SortedLists, NEW at \in Places(src, dst)
  PROVE  /\ Over(src, dst, at) => Round(src, dst, at) = at
         /\ ~Over(src, dst, at) =>
              /\ at.ps \in 1..Len(src) /\ at.ds \in 1..Len(dst)
              /\ \/ /\ src[at.ps] = dst[at.ds]
                    /\ Moved(at, 1, 1, at.buf, Round(src, dst, at))
                 \/ /\ src[at.ps] < dst[at.ds]
                    /\ Moved(at, 1, 0, Append(at.buf, src[at.ps]), Round(src, dst, at))
                 \/ /\ dst[at.ds] < src[at.ps]
                    /\ Moved(at, 0, 1, at.buf, Round(src, dst, at))
         /\ Round(src, dst, at) \in Places(src, dst)
<1> DEFINE s == src[at.ps]
           d == dst[at.ds]
<1>1. /\ Len(src) \in Nat /\ Len(dst) \in Nat
      /\ at.ps \in 1..Len(src) + 1 /\ at.ds \in 1..Len(dst) + 1 /\ at.buf \in Seq(Nat)
  BY ListParts DEF Places
<1>2. CASE Over(src, dst, at)
  BY <1>2 DEF Round, Over
<1>3. CASE ~Over(src, dst, at)
  <2>1. at.ps \in 1..Len(src) /\ at.ds \in 1..Len(dst)
    BY <1>1, <1>3 DEF Over
  <2>2. s \in Nat /\ d \in Nat
    BY <2>1, ListParts
  <2>3. PICK t : t = Append(at.buf, s)
    OBVIOUS
  <2>4. t \in Seq(Nat)
    BY <1>1, <2>2, <2>3, AppendProperties
  <2>5. Round(src, dst, at) =
          IF s = d THEN [ps |-> at.ps + 1, ds |-> at.ds + 1, buf |-> at.buf]
          ELSE IF s < d THEN [ps |-> at.ps + 1, ds |-> at.ds, buf |-> t]
          ELSE [ps |-> at.ps, ds |-> at.ds + 1, buf |-> at.buf]
    BY <1>3, <2>3 DEF Round, Over
  <2> HIDE DEF s, d
  <2>6. CASE s = d
    <3>1. Round(src, dst, at) = [ps |-> at.ps + 1, ds |-> at.ds + 1, buf |-> at.buf]
      BY <2>5, <2>6
    <3>2. Moved(at, 1, 1, at.buf, Round(src, dst, at)) /\ Round(src, dst, at) \in Places(src, dst)
      BY <1>1, <2>1, <3>1 DEF Places, Moved
    <3> QED
      BY <1>3, <2>1, <2>6, <3>2 DEF s, d
  <2>7. CASE s < d
    <3>1. Round(src, dst, at) = [ps |-> at.ps + 1, ds |-> at.ds, buf |-> t]
      BY <2>2, <2>5, <2>7
    <3>2. Moved(at, 1, 0, t, Round(src, dst, at)) /\ Round(src, dst, at) \in Places(src, dst)
      BY <1>1, <2>1, <2>4, <3>1 DEF Places, Moved
    <3> QED
      BY <1>3, <2>1, <2>3, <2>7, <3>2 DEF s, d
  <2>8. CASE d < s
    <3>1. Round(src, dst, at) = [ps |-> at.ps, ds |-> at.ds + 1, buf |-> at.buf]
      BY <2>2, <2>5, <2>8
    <3>2. Moved(at, 0, 1, at.buf, Round(src, dst, at)) /\ Round(src, dst, at) \in Places(src, dst)
      BY <1>1, <2>1, <3>1 DEF Places, Moved
    <3> QED
      BY <1>3, <2>1, <2>8, <3>2 DEF s, d
  <2> QED
    BY <2>2, <2>6, <2>7, <2>8
<1> QED
  BY <1>2, <1>3

(* A round keeps the balance of every line.                                *)
LEMMA RoundKeepsBalance ==
  ASSUME NEW src \in SortedLists, NEW dst \in SortedLists, NEW at \in Places(src, dst),
         NEW v \in Nat, Balanced(src, dst, at, v)
  PROVE  Balanced(src, dst, Round(src, dst, at), v)
<1> DEFINE to == Round(src, dst, at)
           a == Among(src, at.ps - 1, v)
           b == Among(dst, at.ds - 1, v)
           a2 == Among(src, to.ps - 1, v)
           b2 == Among(dst, to.ds - 1, v)
           L == Len(src)
           D == Len(dst)
           s == src[at.ps]
           d == dst[at.ds]
<1>1. CASE Over(src, dst, at)
  BY <1>1, RoundCases
<1>2. CASE ~Over(src, dst, at)
  <2>1. /\ L \in Nat /\ D \in Nat /\ dst # <<>> /\ dst[D] \in Nat
        /\ at.ps \in 1..L /\ at.ds \in 1..D /\ s \in Nat /\ d \in Nat
        /\ at.buf \in Seq(Nat)
    <3>1. at.ps \in 1..L /\ at.ds \in 1..D /\ at.buf \in Seq(Nat)
      BY <1>2, RoundCases DEF Places
    <3>2. L \in Nat /\ D \in Nat /\ s \in Nat /\ d \in Nat
      BY <3>1, ListParts
    <3>3. D # 0 /\ D \in 1..D
      BY <3>1, <3>2
    <3> QED
      BY <3>1, <3>2, <3>3, ListParts
  <2>2. /\ \A i \in at.ps..L : s <= src[i] /\ src[i] \in Nat
        /\ \A i \in at.ds..D : d <= dst[i] /\ dst[i] \in Nat
        /\ d <= dst[D]
    <3>1. \A i \in at.ps..L : i \in 1..L /\ at.ps <= i
      BY <2>1
    <3>2. \A i \in at.ds..D : i \in 1..D /\ at.ds <= i
      BY <2>1
    <3>3. D \in at.ds..D
      BY <2>1
    <3> QED
      BY <2>1, <3>1, <3>2, <3>3, ListParts
  <2>3. a \in Nat /\ b \in Nat
    <3>1. at.ps - 1 \in Nat /\ at.ds - 1 \in Nat
      BY <2>1
    <3> QED
      BY <3>1, AmongType
  <2>4. /\ s = v => Among(src, at.ps, v) = a + 1
        /\ s # v => Among(src, at.ps, v) = a
        /\ d = v => Among(dst, at.ds, v) = b + 1
        /\ d # v => Among(dst, at.ds, v) = b
    <3>1. PICK m \in Nat : m = at.ps - 1 /\ m + 1 = at.ps
      BY <2>1
    <3>2. PICK n \in Nat : n = at.ds - 1 /\ n + 1 = at.ds
      BY <2>1
    <3>3. /\ src[m + 1] = v => Among(src, m + 1, v) = Among(src, m, v) + 1
          /\ src[m + 1] # v => Among(src, m + 1, v) = Among(src, m, v)
          /\ dst[n + 1] = v => Among(dst, n + 1, v) = Among(dst, n, v) + 1
          /\ dst[n + 1] # v => Among(dst, n + 1, v) = Among(dst, n, v)
      BY AmongNext
    <3> QED
      BY <3>1, <3>2, <3>3
  <2>5. /\ Count(at.buf, v) = IF b < a THEN a - b ELSE 0
        /\ b < a => v < dst[D] /\ \A i \in at.ds..D : v < dst[i]
        /\ a < b => \A i \in at.ps..L : v < src[i]
    BY DEF Balanced
  <2>6. /\ b < a => v < d
        /\ a < b => v < s
    <3>1. at.ds \in at.ds..D /\ at.ps \in at.ps..L
      BY <2>1
    <3> QED
      BY <2>5, <3>1
  <2>7. SUFFICES
          /\ Count(to.buf, v) = IF b2 < a2 THEN a2 - b2 ELSE 0
          /\ b2 < a2 => v < dst[D] /\ \A i \in to.ds..D : v < dst[i]
          /\ a2 < b2 => \A i \in to.ps..L : v < src[i]
          /\ to.ds > D => \A i \in to.ps..L : dst[D] <= src[i]
    BY <2>1 DEF Balanced
  <2>8. CASE s = d /\ Moved(at, 1, 1, at.buf, to)
    <3>1. to.ps = at.ps + 1 /\ to.ds = at.ds + 1 /\ to.buf = at.buf
      BY <2>8 DEF Moved
    <3>2. a2 = Among(src, at.ps, v) /\ b2 = Among(dst, at.ds, v)
      <4>1. to.ps - 1 = at.ps /\ to.ds - 1 = at.ds
        BY <2>1, <3>1, SMTT(30)
      <4> QED
        BY <4>1
    <3> HIDE DEF to, a, b, a2, b2, s, d
    <3>3. a2 - b2 = a - b /\ a2 \in Nat /\ b2 \in Nat
      BY <2>3, <2>4, <2>8, <3>2
    <3>4. (b2 < a2 <=> b < a) /\ (a2 < b2 <=> a < b)
      BY <2>3, <3>3
    <3>5. /\ \A i \in to.ds..D : i \in at.ds..D
          /\ \A i \in to.ps..L : i \in at.ps..L
      BY <2>1, <3>1
    <3>6. Count(to.buf, v) = IF b2 < a2 THEN a2 - b2 ELSE 0
      BY <2>5, <3>1, <3>3, <3>4
    <3>7. ASSUME to.ds > D PROVE \A i \in to.ps..L : dst[D] <= src[i]
      <4>1. at.ds = D
        BY <2>1, <3>1, <3>7
      <4> QED
        BY <2>2, <2>8, <3>5, <4>1 DEF d
    <3> QED
      BY <2>5, <3>4, <3>5, <3>6, <3>7
  <2>9. CASE s < d /\ Moved(at, 1, 0, Append(at.buf, s), to)
    <3>1. to.ps = at.ps + 1 /\ to.ds = at.ds /\ to.buf = Append(at.buf, s)
      BY <2>1, <2>9 DEF Moved
    <3>2. a2 = Among(src, at.ps, v) /\ b2 = b
      <4>1. to.ps - 1 = at.ps
        BY <2>1, <3>1
      <4> QED
        BY <3>1, <4>1
    <3>3. /\ s = v => Count(to.buf, v) = Count(at.buf, v) + 1
          /\ s # v => Count(to.buf, v) = Count(at.buf, v)
      <4>1. PICK buf \in Seq(Nat), x \in Nat : buf = at.buf /\ x = s
        BY <2>1
      <4>2. /\ x = v => Count(Append(buf, x), v) = Count(buf, v) + 1
            /\ x # v => Count(Append(buf, x), v) = Count(buf, v)
        BY CountAppend
      <4>3. to.buf = Append(buf, x)
        BY <3>1, <4>1
      <4> QED
        BY <4>1, <4>2, <4>3
    <3> HIDE DEF to, a, b, a2, b2, s, d
    <3>4. /\ \A i \in to.ds..D : i \in at.ds..D
          /\ \A i \in to.ps..L : i \in at.ps..L
          /\ ~(to.ds > D)
      BY <2>1, <3>1
    <3>5. CASE s = v
      <4>1. a2 = a + 1 /\ b2 = b /\ ~(a < b)
        BY <2>1, <2>4, <2>6, <3>2, <3>5
      <4>2. Count(to.buf, v) = a2 - b2 /\ b2 < a2 /\ ~(a2 < b2)
        BY <2>3, <2>5, <3>3, <3>5, <4>1
      <4>3. v < dst[D] /\ \A i \in to.ds..D : v < dst[i]
        BY <2>1, <2>2, <2>9, <3>4, <3>5
      <4> QED
        BY <3>4, <4>2, <4>3
    <3>6. CASE s # v
      <4>1. a2 = a /\ b2 = b
        BY <2>4, <3>2, <3>6
      <4> QED
        BY <2>5, <3>3, <3>4, <3>6, <4>1
    <3> QED
      BY <3>5, <3>6
  <2>10. CASE d < s /\ Moved(at, 0, 1, at.buf, to)
    <3>1. to.ps = at.ps /\ to.ds = at.ds + 1 /\ to.buf = at.buf
      BY <2>1, <2>10 DEF Moved
    <3>2. a2 = a /\ b2 = Among(dst, at.ds, v)
      <4>1. to.ds - 1 = at.ds
        BY <2>1, <3>1
      <4> QED
        BY <3>1, <4>1
    <3> HIDE DEF to, a, b, a2, b2, s, d
    <3>3. /\ \A i \in to.ds..D : i \in at.ds..D
          /\ \A i \in to.ps..L : i \in at.ps..L
      BY <2>1, <3>1
    <3>4. ASSUME to.ds > D PROVE \A i \in to.ps..L : dst[D] <= src[i]
      <4>1. at.ds = D
        BY <2>1, <3>1, <3>4
      <4>2. dst[D] = d
        BY <4>1 DEF d
      <4> QED
        BY <2>1, <2>2, <2>10, <3>3, <4>2
    <3>5. CASE d = v
      <4>1. b2 = b + 1 /\ a2 = a /\ ~(b < a)
        BY <2>1, <2>4, <2>6, <3>2, <3>5
      <4>2. ~(b2 < a2) /\ Count(to.buf, v) = 0
        BY <2>3, <2>5, <3>1, <4>1
      <4>3. \A i \in to.ps..L : v < src[i]
        BY <2>1, <2>2, <2>10, <3>3, <3>5
      <4> QED
        BY <3>4, <4>2, <4>3
    <3>6. CASE d # v
      <4>1. a2 = a /\ b2 = b
        BY <2>4, <3>2, <3>6
      <4> QED
        BY <2>5, <3>1, <3>3, <3>4, <4>1
    <3> QED
      BY <3>5, <3>6
  <2> QED
    BY <1>2, <2>8, <2>9, <2>10, RoundCases
<1> QED
  BY <1>1, <1>2

-----------------------------------------------------------------------------
(* The rounds of compare, one after the other.                             *)
LEMMA CompareRounds ==
  ASSUME NEW src \in SortedLists, NEW dst \in SortedLists
  PROVE  \E r \in [0..Len(src) + Len(dst) -> Places(src, dst)] :
           /\ r[0] = [ps |-> 1, ds |-> 1, buf |-> <<>>]
           /\ \A k \in 1..Len(src) + Len(dst) : r[k] = Round(src, dst, r[k - 1])
           /\ Compare(src, dst) = r[Len(src) + Len(dst)].buf
<1> DEFINE n == Len(src) + Len(dst)
           start == [ps |-> 1, ds |-> 1, buf |-> <<>>]
           Rounds == [k \in 1..n |-> [at \in Places(src, dst) |-> Round(src, dst, at)]]
           Def(g) == [k \in 0..n |-> IF k = 0 THEN start ELSE Round(src, dst, g[k - 1])]
<1>1. n \in Nat
  BY ListParts
<1>2. start \in Places(src, dst)
  <2>1. <<>> \in Seq(Nat)
    BY EmptySeq
  <2>2. 1 \in 1..Len(src) + 1 /\ 1 \in 1..Len(dst) + 1
    BY ListParts
  <2> QED
    BY <2>1, <2>2 DEF Places
<1>3. Rounds \in [1..n -> [Places(src, dst) -> Places(src, dst)]]
  BY RoundCases
<1> HIDE DEF n, start, Rounds
<1>4. PICK r \in [0..n -> Places(src, dst)] : Iterates(r, start, Rounds, n)
  BY <1>1, <1>2, <1>3, IterationExists
<1>5. r[0] = start /\ \A k \in 1..n : r[k] = Round(src, dst, r[k - 1])
  <2>1. \A k \in 1..n : k - 1 \in 0..n
    BY <1>1
  <2>2. \A k \in 1..n, at \in Places(src, dst) : Rounds[k][at] = Round(src, dst, at)
    BY DEF Rounds
  <2> QED
    BY <1>4, <2>1, <2>2 DEF Iterates
<1>6. r = Def(r)
  <2> SUFFICES ASSUME NEW k \in 0..n, k # 0 PROVE r[k] = Round(src, dst, r[k - 1])
    BY <1>5
  <2>1. k \in 1..n
    BY <1>1
  <2> QED
    BY <1>5, <2>1
<1> DEFINE rounds == CHOOSE g : g = Def(g)
<1>7. rounds = Def(rounds)
  BY <1>6
<1>8. Compare(src, dst) = rounds[n].buf
  BY DEF Compare, n, start
<1> HIDE DEF rounds
<1>9. rounds[0] = start /\ \A k \in 1..n : rounds[k] = Round(src, dst, rounds[k - 1])
  <2>1. \A k \in 0..n : rounds[k] = IF k = 0 THEN start ELSE Round(src, dst, rounds[k - 1])
    BY <1>7
  <2>2. 0 \in 0..n /\ \A k \in 1..n : k \in 0..n /\ k # 0
    BY <1>1
  <2> QED
    BY <2>1, <2>2
<1>10. rounds[n] = r[n]
  <2>1. GoAlike(r, rounds, n)
    BY <1>5, <1>9 DEF GoAlike
  <2>2. Alike(r, rounds, n)
    BY <1>1, <2>1, SameIterations
  <2>3. n \in 0..n
    BY <1>1
  <2> QED
    BY <2>2, <2>3 DEF Alike
<1> QED
  BY <1>4, <1>5, <1>8, <1>10 DEF n, start

(* What compare writes of a line.                                          *)
LEMMA CompareCounts ==
  ASSUME NEW src \in SortedLists, NEW dst \in SortedLists, NEW v \in Nat
  PROVE  Count(Compare(src, dst), v) =
           IF dst # <<>> /\ v < dst[Len(dst)]
           THEN AtLeast(Count(src, v) - Count(dst, v), 0)
           ELSE 0
<1> DEFINE L == Len(src)
           D == Len(dst)
           n == L + D
           Start(at) == at = [ps |-> 1, ds |-> 1, buf |-> <<>>]
           Good(at, k) == /\ Balanced(src, dst, at, v)
                          /\ Over(src, dst, at) \/ at.ps + at.ds >= k + 2
<1>1. PICK r \in [0..n -> Places(src, dst)] :
        /\ Start(r[0])
        /\ \A k \in 1..n : r[k] = Round(src, dst, r[k - 1])
        /\ Compare(src, dst) = r[n].buf
  BY CompareRounds
<1>2. L \in Nat /\ D \in Nat /\ n \in Nat /\ (dst # <<>> <=> D # 0)
  BY ListParts
<1>3. \A k \in 0..n : Good(r[k], k)
  <2> DEFINE T == {k \in Nat : k <= n => Good(r[k], k)}
  <2>1. 0 \in T
    <3>1. r[0].ps = 1 /\ r[0].ds = 1 /\ r[0].buf = <<>>
      BY <1>1
    <3>2. Among(src, 0, v) = 0 /\ Among(dst, 0, v) = 0
      BY AmongNone
    <3>3. Count(<<>>, v) = 0
      <4>1. {i \in DOMAIN <<>> : <<>>[i] = v} = {}
        BY EmptySeq
      <4> QED
        BY <4>1, FS_EmptySet DEF Count
    <3>4. D = 0 \/ ~(1 > D)
      BY <1>2
    <3>5. Balanced(src, dst, r[0], v)
      BY <1>2, <3>1, <3>2, <3>3, <3>4 DEF Balanced
    <3> QED
      BY <3>1, <3>5
  <2>2. ASSUME NEW k \in Nat, k \in T PROVE k + 1 \in T
    <3> SUFFICES ASSUME k + 1 <= n PROVE Good(r[k + 1], k + 1)
      OBVIOUS
    <3>1. k \in 0..n /\ k + 1 \in 1..n /\ (k + 1) - 1 = k
      BY <1>2
    <3>2. PICK at \in Places(src, dst) : at = r[k] /\ Good(at, k)
      BY <2>2, <3>1
    <3>3. r[k + 1] = Round(src, dst, at)
      BY <1>1, <3>1, <3>2
    <3> HIDE DEF T
    <3>4. Balanced(src, dst, Round(src, dst, at), v)
      BY <3>2, RoundKeepsBalance
    <3>5. Over(src, dst, Round(src, dst, at))
            \/ Round(src, dst, at).ps + Round(src, dst, at).ds >= (k + 1) + 2
      <4>1. CASE Over(src, dst, at)
        BY <4>1, RoundCases
      <4>2. CASE ~Over(src, dst, at)
        <5>1. at.ps \in Nat /\ at.ds \in Nat /\ at.ps + at.ds >= k + 2
          BY <1>2, <3>2, <4>2 DEF Places
        <5>2. \E ps, ds \in 0..1 : /\ Round(src, dst, at).ps = at.ps + ps
                                   /\ Round(src, dst, at).ds = at.ds + ds
                                   /\ ps + ds >= 1
          BY <4>2, RoundCases DEF Moved
        <5> QED
          BY <5>1, <5>2
      <4> QED
        BY <4>1, <4>2
    <3> QED
      BY <3>3, <3>4, <3>5
  <2>3. \A k \in Nat : k \in T
    <3> HIDE DEF T
    <3> QED
      BY <2>1, <2>2, EveryNatural
  <2> QED
    BY <1>2, <2>3
<1>4. PICK at \in Places(src, dst) :
        at = r[n] /\ Balanced(src, dst, at, v) /\ Over(src, dst, at)
  <2>1. n \in 0..n
    BY <1>2
  <2>2. r[n] \in Places(src, dst) /\ Good(r[n], n)
    BY <1>1, <1>3, <2>1
  <2>3. r[n].ps \in 1..L + 1 /\ r[n].ds \in 1..D + 1
    BY <2>2 DEF Places
  <2>4. r[n].ps + r[n].ds >= n + 2 => r[n].ps > L
    BY <1>2, <2>3
  <2> QED
    BY <2>2, <2>4 DEF Over
<1> DEFINE a == Among(src, at.ps - 1, v)
           b == Among(dst, at.ds - 1, v)
           A2 == Count(src, v)
           B2 == Count(dst, v)
<1>5. at.ps \in 1..L + 1 /\ at.ds \in 1..D + 1 /\ (at.ps > L \/ at.ds > D)
  BY <1>4 DEF Places, Over
<1>6. PICK p \in 0..L : p = at.ps - 1 /\ p + 1 = at.ps
  BY <1>2, <1>5
<1>7. PICK q \in 0..D : q = at.ds - 1 /\ q + 1 = at.ds
  BY <1>2, <1>5
<1>8. /\ a \in Nat /\ b \in Nat /\ A2 \in Nat /\ B2 \in Nat /\ a <= A2 /\ b <= B2
      /\ (\A i \in at.ps..L : src[i] # v) => a = A2
      /\ (\A i \in at.ds..D : dst[i] # v) => b = B2
  <2>1. src \in Seq(Nat) /\ dst \in Seq(Nat) /\ DOMAIN src = 1..L /\ DOMAIN dst = 1..D
    BY ListParts
  <2>2. /\ Among(src, p, v) <= Count(src, v)
        /\ (\A i \in p + 1..L : src[i] # v) => Among(src, p, v) = Count(src, v)
    BY <2>1, AmongAll
  <2>3. /\ Among(dst, q, v) <= Count(dst, v)
        /\ (\A i \in q + 1..D : dst[i] # v) => Among(dst, q, v) = Count(dst, v)
    BY <2>1, AmongAll
  <2>4. Among(src, p, v) \in Nat /\ Among(dst, q, v) \in Nat
    <3>1. p \in Nat /\ q \in Nat
      BY <1>2
    <3> QED
      BY <3>1, AmongType
  <2>5. Count(src, v) = Among(src, L, v) /\ Count(dst, v) = Among(dst, D, v)
    BY <2>1 DEF Count, Among
  <2>6. Count(src, v) \in Nat /\ Count(dst, v) \in Nat
    BY <1>2, <2>5, AmongType
  <2> QED
    BY <1>6, <1>7, <2>2, <2>3, <2>4, <2>6
<1>9. /\ Count(at.buf, v) = IF b < a THEN a - b ELSE 0
      /\ b < a => /\ dst # <<>> /\ v < dst[D]
                  /\ \A i \in at.ds..D : v < dst[i]
      /\ a < b => \A i \in at.ps..L : v < src[i]
      /\ at.ds > D /\ dst # <<>> => \A i \in at.ps..L : dst[D] <= src[i]
  BY <1>4 DEF Balanced
<1>10. /\ \A i \in at.ps..L : src[i] \in Nat
       /\ \A i \in at.ds..D : dst[i] \in Nat
       /\ dst # <<>> => dst[D] \in Nat
  <2>1. /\ \A i \in at.ps..L : i \in 1..L
        /\ \A i \in at.ds..D : i \in 1..D
        /\ dst # <<>> => D \in 1..D
    BY <1>2, <1>5
  <2> QED
    BY <2>1, ListParts
<1>11. Compare(src, dst) = at.buf
  BY <1>1, <1>4
<1> HIDE DEF a, b, A2, B2, L, D, n
<1>12. CASE b < a
  <2>1. b = B2
    BY <1>8, <1>9, <1>10, <1>12
  <2>2. a = A2
    <3>1. CASE at.ps > L
      <4>1. at.ps..L = {}
        BY <1>2, <1>5, <3>1
      <4> QED
        BY <1>8, <4>1
    <3>2. CASE at.ds > D
      <4>1. \A i \in at.ps..L : src[i] # v
        BY <1>9, <1>10, <1>12, <3>2
      <4> QED
        BY <1>8, <4>1
    <3> QED
      BY <1>5, <3>1, <3>2
  <2> QED
    BY <1>8, <1>9, <1>11, <1>12, <2>1, <2>2 DEF AtLeast, A2, B2, D
<1>13. CASE ~(b < a)
  <2>1. Count(at.buf, v) = 0
    BY <1>9, <1>13
  <2>2. ASSUME dst # <<>>, v < dst[D] PROVE A2 <= B2
    <3>1. a = A2
      <4>1. CASE at.ps > L
        <5>1. at.ps..L = {}
          BY <1>2, <1>5, <4>1
        <5> QED
          BY <1>8, <5>1
      <4>2. CASE at.ds > D
        <5>1. \A i \in at.ps..L : src[i] # v
          BY <1>9, <1>10, <2>2, <4>2
        <5> QED
          BY <1>8, <5>1
      <4> QED
        BY <1>5, <4>1, <4>2
    <3> QED
      BY <1>8, <1>13, <3>1
  <2> QED
    BY <1>8, <1>11, <2>1, <2>2 DEF AtLeast, A2, B2, D
<1> QED
  BY <1>12, <1>13

(* compare writes no line more often than the first list has more of it,   *)
(* and just as often if the line is before the last of the second list:    *)
(* for lists of any length.                                                *)
THEOREM DiffIsExact == InputSpec => []DiffExact
<1>1. InputInit => DiffExact
  <2> SUFFICES ASSUME InputInit, algorithm = "diff" PROVE DiffExact
    BY DEF DiffExact
  <2>1. PICK src \in SortedLists, dst \in SortedLists : src = input[1] /\ dst = input[2]
    <3>1. input \in Diffs
      BY DEF InputInit
    <3> QED
      BY <3>1, AlgorithmsAssumption
  <2>2. ASSUME NEW v \in LinesOf(src, dst)
        PROVE  /\ Count(Compare(src, dst), v) <= MoreOf(src, dst, v)
               /\ dst # <<>> /\ v < Last(dst) =>
                    Count(Compare(src, dst), v) = MoreOf(src, dst, v)
    <3>1. v \in Nat
      BY ListParts DEF LinesOf
    <3>2. Count(Compare(src, dst), v) =
            IF dst # <<>> /\ v < Last(dst) THEN MoreOf(src, dst, v) ELSE 0
      BY <3>1, CompareCounts DEF Last, MoreOf
    <3>3. Count(src, v) \in Nat /\ Count(dst, v) \in Nat
      <4>1. /\ Len(src) \in Nat /\ Len(dst) \in Nat
            /\ DOMAIN src = 1..Len(src) /\ DOMAIN dst = 1..Len(dst)
        BY ListParts, LenProperties
      <4>2. Count(src, v) = Among(src, Len(src), v) /\ Count(dst, v) = Among(dst, Len(dst), v)
        BY <4>1 DEF Count, Among
      <4> QED
        BY <4>1, <4>2, AmongType
    <3>4. MoreOf(src, dst, v) \in Nat
      BY <3>3 DEF MoreOf, AtLeast
    <3> QED
      BY <3>2, <3>4
  <2> QED
    BY <2>1, <2>2 DEF DiffExact
<1>2. DiffExact /\ [InputNext]_inputVars => DiffExact'
  <2> SUFFICES ASSUME DiffExact, UNCHANGED inputVars PROVE DiffExact'
    BY DEF InputNext
  <2> QED
    BY DEF DiffExact, inputVars
<1> QED
  BY <1>1, <1>2, PTL DEF InputSpec
-----------------------------------------------------------------------------
(* How many are below a value, and how many at or below it.                *)
LEMMA Ranks ==
  ASSUME NEW s \in Seq(Nat), NEW v \in Nat
  PROVE  /\ Below(s, v) \in Nat /\ UpTo(s, v) \in Nat /\ UpTo(s, v) <= Len(s)
         /\ \A w \in Nat : v < w => UpTo(s, v) <= Below(s, w)
         /\ \A w \in Nat : v = w + 1 => Below(s, v) = UpTo(s, w)
         /\ (\A i \in 1..Len(s) : s[i] <= v) => UpTo(s, v) = Len(s)
         /\ UpTo(s, v) >= Len(s) => \A i \in 1..Len(s) : s[i] <= v
         /\ Below(s, v) < 1 => \A i \in 1..Len(s) : v <= s[i]
<1> DEFINE All == 1..Len(s)
           Less(w) == {i \in All : s[i] < w}
           AtMostOf(w) == {i \in All : s[i] <= w}
<1>1. /\ Len(s) \in Nat /\ DOMAIN s = All
      /\ \A i \in All : s[i] \in Nat
      /\ \A w : Below(s, w) = Cardinality(Less(w)) /\ UpTo(s, w) = Cardinality(AtMostOf(w))
  BY LenProperties, ElementOfSeq DEF Below, UpTo
<1>2. IsFiniteSet(All) /\ Cardinality(All) = Len(s)
  BY <1>1, FirstNumbers, Zenon
<1>3. \A T : T \subseteq All =>
         /\ IsFiniteSet(T) /\ Cardinality(T) \in Nat /\ Cardinality(T) <= Len(s)
         /\ Cardinality(T) = Len(s) => T = All
         /\ \A Some : Some \subseteq T => Cardinality(Some) <= Cardinality(T)
  <2> HIDE DEF All
  <2> SUFFICES ASSUME NEW T, T \subseteq All
               PROVE  /\ IsFiniteSet(T) /\ Cardinality(T) \in Nat /\ Cardinality(T) <= Len(s)
                      /\ Cardinality(T) = Len(s) => T = All
                      /\ \A Some : Some \subseteq T => Cardinality(Some) <= Cardinality(T)
    OBVIOUS
  <2>1. IsFiniteSet(T) /\ Cardinality(T) <= Cardinality(All)
        /\ (Cardinality(T) = Cardinality(All) => T = All)
    BY <1>2, FS_Subset
  <2>2. Cardinality(T) \in Nat
    BY <2>1, FS_CardinalityType
  <2>3. \A Some : Some \subseteq T => Cardinality(Some) <= Cardinality(T)
    BY <2>1, FS_Subset
  <2> QED
    BY <1>2, <2>1, <2>2, <2>3
<1>4. \A w : Less(w) \subseteq All /\ AtMostOf(w) \subseteq All
  OBVIOUS
<1>5. \A w \in Nat : v < w => AtMostOf(v) \subseteq Less(w)
  BY <1>1
<1>6. \A w \in Nat : v = w + 1 => Less(v) = AtMostOf(w)
  BY <1>1
<1>7. (\A i \in All : s[i] <= v) => AtMostOf(v) = All
  OBVIOUS
<1>8. AtMostOf(v) = All => \A i \in All : s[i] <= v
  OBVIOUS
<1>9. Less(v) = {} => \A i \in All : v <= s[i]
  BY <1>1, SMTT(30)
<1> HIDE DEF All, Less, AtMostOf
<1>10. Cardinality(Less(v)) = 0 => Less(v) = {}
  BY <1>3, <1>4, FS_EmptySet
<1>11. /\ Below(s, v) = Cardinality(Less(v)) /\ UpTo(s, v) = Cardinality(AtMostOf(v))
       /\ Cardinality(Less(v)) \in Nat /\ Cardinality(AtMostOf(v)) \in Nat
       /\ Cardinality(AtMostOf(v)) <= Len(s)
  BY <1>1, <1>3, <1>4
<1>12. \A w \in Nat : v < w => UpTo(s, v) <= Below(s, w)
  BY <1>1, <1>3, <1>4, <1>5
<1>13. \A w \in Nat : v = w + 1 => Below(s, v) = UpTo(s, w)
  BY <1>1, <1>6
<1>14. (\A i \in All : s[i] <= v) => UpTo(s, v) = Len(s)
  BY <1>2, <1>7, <1>11
<1>15. UpTo(s, v) >= Len(s) => \A i \in All : s[i] <= v
  BY <1>1, <1>3, <1>4, <1>8, <1>11
<1>16. Below(s, v) < 1 => \A i \in All : v <= s[i]
  BY <1>9, <1>10, <1>11
<1> QED
  BY <1>11, <1>12, <1>13, <1>14, <1>15, <1>16 DEF All

(* The ranks of a value are numbers.                                       *)
LEMMA RankTypes == \A s \in Seq(Nat), v \in Nat : Below(s, v) \in Nat /\ UpTo(s, v) \in Nat
<1> SUFFICES ASSUME NEW s \in Seq(Nat), NEW v \in Nat
             PROVE  Below(s, v) \in Nat /\ UpTo(s, v) \in Nat
  OBVIOUS
<1> QED
  BY Ranks

(* The values of a sequence of naturals are bounded.                       *)
LEMMA Bounded ==
  ASSUME NEW s \in Seq(Nat)
  PROVE  \E b \in Nat : \A i \in 1..Len(s) : s[i] <= b
<1> DEFINE T == {n \in Nat : n <= Len(s) => \E b \in Nat : \A i \in 1..n : s[i] <= b}
<1>1. Len(s) \in Nat /\ \A i \in 1..Len(s) : s[i] \in Nat
  BY LenProperties, ElementOfSeq
<1>2. 0 \in T
  OBVIOUS
<1>3. ASSUME NEW n \in Nat, n \in T PROVE n + 1 \in T
  <2> SUFFICES ASSUME n + 1 <= Len(s) PROVE \E b \in Nat : \A i \in 1..n + 1 : s[i] <= b
    OBVIOUS
  <2>1. PICK b \in Nat : \A i \in 1..n : s[i] <= b
    BY <1>1, <1>3
  <2>2. s[n + 1] \in Nat
    BY <1>1
  <2>3. b + s[n + 1] \in Nat /\ \A i \in 1..n + 1 : s[i] <= b + s[n + 1]
    <3>1. \A i \in 1..n + 1 : s[i] \in Nat /\ (i \in 1..n \/ i = n + 1)
      BY <1>1
    <3> QED
      BY <2>1, <2>2, <3>1
  <2> QED
    BY <2>3
<1>4. Len(s) \in T
  <2> HIDE DEF T
  <2> QED
    BY <1>1, <1>2, <1>3, EveryNatural
<1> QED
  BY <1>1, <1>4

(* Every place of a sorted sequence has its value: one that is there, of   *)
(* that rank.                                                              *)
LEMMA InOrderRanks ==
  ASSUME NEW s \in Seq(Nat)
  PROVE  /\ InOrder(s) \in Seq(Nat) /\ Len(InOrder(s)) = Len(s)
         /\ \A k \in 1..Len(s) :
              /\ \E i \in 1..Len(s) : InOrder(s)[k] = s[i]
              /\ Below(s, InOrder(s)[k]) < k /\ k <= UpTo(s, InOrder(s)[k])
<1> DEFINE Values == {s[i] : i \in DOMAIN s}
           Of(k, v) == Below(s, v) < k /\ k <= UpTo(s, v)
<1>1. Len(s) \in Nat /\ DOMAIN s = 1..Len(s) /\ \A i \in 1..Len(s) : s[i] \in Nat
  BY LenProperties, ElementOfSeq
<1>2. ASSUME NEW k \in 1..Len(s) PROVE \E v \in Values : Of(k, v)
  <2> DEFINE G == {v \in Nat : k <= UpTo(s, v)}
  <2>1. G # {}
    <3>1. PICK b \in Nat : \A i \in 1..Len(s) : s[i] <= b
      BY Bounded
    <3>2. UpTo(s, b) = Len(s)
      BY <3>1, Ranks
    <3> QED
      BY <1>1, <3>2
  <2>2. PICK v \in G : \A w \in G : v <= w
    <3>1. G \subseteq Nat
      OBVIOUS
    <3> HIDE DEF G
    <3> QED
      BY <2>1, <3>1, LeastNatural
  <2>3. v \in Nat /\ k <= UpTo(s, v)
    OBVIOUS
  <2>4. Below(s, v) < k
    <3>1. CASE v = 0
      <4>1. {i \in DOMAIN s : s[i] < v} = {}
        BY <1>1, <3>1
      <4>2. Below(s, v) = 0
        BY <4>1, FS_EmptySet DEF Below
      <4> QED
        BY <4>2
    <3>2. CASE v # 0
      <4>1. PICK w \in Nat : v = w + 1
        <5>1. v - 1 \in Nat /\ v = (v - 1) + 1
          BY <2>3, <3>2
        <5> QED
          BY <5>1
      <4>2. w \notin G
        BY <2>2, <4>1
      <4>3. UpTo(s, w) \in Nat /\ ~(k <= UpTo(s, w))
        BY <4>2, Ranks
      <4>4. Below(s, v) = UpTo(s, w)
        BY <2>3, <4>1, Ranks
      <4> QED
        BY <4>3, <4>4
    <3> QED
      BY <3>1, <3>2
  <2>5. v \in Values
    <3> SUFFICES ASSUME v \notin Values PROVE FALSE
      OBVIOUS
    <3>1. {i \in DOMAIN s : s[i] < v} = {i \in DOMAIN s : s[i] <= v}
      BY <1>1, <2>3
    <3>2. Below(s, v) = UpTo(s, v)
      BY <3>1 DEF Below, UpTo
    <3> QED
      BY <2>3, <2>4, <3>2, Ranks
  <2> QED
    BY <2>3, <2>4, <2>5
<1> DEFINE Here(k) == CHOOSE v \in Values : Of(k, v)
<1> HIDE DEF Of, Values
<1>3. \A k \in 1..Len(s) : Here(k) \in Values /\ Of(k, Here(k))
  BY <1>2
<1>4. InOrder(s) = [k \in 1..Len(s) |-> Here(k)]
  BY DEF InOrder, Of, Values
<1> HIDE DEF Here
<1>5. \A k \in 1..Len(s) : Here(k) \in Nat /\ \E i \in 1..Len(s) : Here(k) = s[i]
  BY <1>1, <1>3 DEF Values
<1>6. InOrder(s) \in Seq(Nat) /\ Len(InOrder(s)) = Len(s)
  <2>1. InOrder(s) \in [1..Len(s) -> Nat]
    BY <1>4, <1>5
  <2> QED
    BY <1>1, <2>1, IsASeq, LenProperties
<1>7. \A k \in 1..Len(s) : InOrder(s)[k] = Here(k)
  BY <1>4
<1> QED
  BY <1>3, <1>5, <1>6, <1>7 DEF Of

(* Sorted samples ascend.                                                  *)
LEMMA InOrderAscends ==
  ASSUME NEW s \in Seq(Nat), NEW j \in 1..Len(s), NEW k \in 1..Len(s), j <= k
  PROVE  InOrder(s)[j] <= InOrder(s)[k]
<1>1. PICK v \in Nat, w \in Nat : v = InOrder(s)[j] /\ w = InOrder(s)[k]
  <2>1. \A i \in 1..Len(s) : s[i] \in Nat
    BY ElementOfSeq
  <2> QED
    BY <2>1, InOrderRanks
<1>2. Below(s, v) < j /\ k <= UpTo(s, w)
  BY <1>1, InOrderRanks
<1> SUFFICES ASSUME w < v PROVE FALSE
  BY <1>1
<1>3. UpTo(s, w) <= Below(s, v) /\ UpTo(s, w) \in Nat /\ Below(s, v) \in Nat
  BY Ranks
<1> QED
  BY <1>2, <1>3, LenProperties

(* What lies between multiples of n is a multiple of something between.    *)
Between(n, t, lo, hi) == n * lo <= t /\ t <= n * hi
ShareBetween(n, t, lo, hi) == lo <= t \div n /\ t \div n <= hi

(* A sum between n times two bounds has its n-th part between them.        *)
LEMMA Shares ==
  \A n, t, lo, hi \in Int : n > 0 /\ Between(n, t, lo, hi) => ShareBetween(n, t, lo, hi)
<1> SUFFICES ASSUME NEW n \in Int, NEW t \in Int, NEW lo \in Int, NEW hi \in Int,
                    n > 0, n * lo <= t, t <= n * hi
             PROVE  lo <= t \div n /\ t \div n <= hi
  BY DEF Between, ShareBetween
<1>1. lo <= t \div n
  BY SMTT(30)
<1>2. t \div n <= hi
  BY SMTT(30)
<1> QED
  BY <1>1, <1>2

(* The mean of naturals lies between any bounds of theirs.                 *)
LEMMA MeanWithin ==
  ASSUME NEW s \in Seq(Nat), s # <<>>, NEW lo \in Nat, NEW hi \in Nat,
         \A i \in 1..Len(s) : lo <= s[i] /\ s[i] <= hi
  PROVE  lo <= Total(s) \div Len(s) /\ Total(s) \div Len(s) <= hi
<1>1. PICK f \in [0..Len(s) -> Nat] : SumsUpTo(f, s, Len(s)) /\ Total(s) = f[Len(s)]
  BY TotalIsLast
<1>2. Len(s) \in Nat \ {0} /\ \A i \in 1..Len(s) : s[i] \in Nat
  BY LenProperties, ElementOfSeq, EmptySeq
<1>3. f[0] = 0 /\ \A k \in 1..Len(s) : f[k] = f[k - 1] + s[k]
  BY <1>1 DEF SumsUpTo
<1> DEFINE T == {n \in Nat : n <= Len(s) => n * lo <= f[n] /\ f[n] <= n * hi}
<1>4. 0 \in T
  BY <1>3
<1>5. ASSUME NEW n \in Nat, n \in T PROVE n + 1 \in T
  <2> SUFFICES ASSUME n + 1 <= Len(s)
               PROVE  (n + 1) * lo <= f[n + 1] /\ f[n + 1] <= (n + 1) * hi
    OBVIOUS
  <2>1. n * lo <= f[n] /\ f[n] <= n * hi
    BY <1>2, <1>5
  <2>2. n + 1 \in 1..Len(s) /\ (n + 1) - 1 = n /\ n \in 0..Len(s)
    BY <1>2
  <2>3. f[n + 1] = f[n] + s[n + 1] /\ f[n] \in Nat /\ s[n + 1] \in Nat
        /\ lo <= s[n + 1] /\ s[n + 1] <= hi
    BY <1>2, <1>3, <2>2
  <2>4. (n + 1) * lo = n * lo + lo /\ (n + 1) * hi = n * hi + hi
        /\ n * lo \in Nat /\ n * hi \in Nat
    OBVIOUS
  <2> QED
    BY <2>1, <2>3, <2>4, SMTT(30)
<1>6. \A n \in Nat : n \in T
  <2> HIDE DEF T
  <2> QED
    BY <1>4, <1>5, EveryNatural
<1>7. PICK n \in Nat \ {0}, t \in Nat : n = Len(s) /\ t = Total(s)
  BY <1>1, <1>2
<1>8. n * lo <= t /\ t <= n * hi
  <2>1. n \in T /\ n <= Len(s) /\ f[n] = t
    BY <1>1, <1>6, <1>7
  <2>2. n * lo <= f[n] /\ f[n] <= n * hi
    BY <2>1
  <2> QED
    BY <2>1, <2>2
<1>9. lo <= t \div n /\ t \div n <= hi
  <2>1. n \in Int /\ n > 0 /\ t \in Int /\ lo \in Int /\ hi \in Int
    BY <1>7
  <2>2. Between(n, t, lo, hi)
    BY <1>8 DEF Between
  <2>3. ShareBetween(n, t, lo, hi)
    BY <2>1, <2>2, Shares
  <2> QED
    BY <2>3 DEF ShareBetween
<1> QED
  BY <1>7, <1>9

(* What Summarize reports of any samples.                                  *)
LEMMA SummaryOfAny ==
  ASSUME NEW s \in Seq(Nat), s # <<>>
  PROVE  LET r == Summarized(s)
         IN /\ Nearest(s, r.P50, 500) /\ Nearest(s, r.P95, 950)
            /\ Nearest(s, r.P99, 990) /\ Nearest(s, r.P999, 999)
            /\ r.Min <= r.P50 /\ r.P999 <= r.Max
            /\ r.Min <= r.Mean /\ r.Mean <= r.Max
<1> DEFINE t == InOrder(s)
           n == Len(s)
           r == Summarized(s)
           Sound(q) == Nearest(s, Quantile(t, q), q)
           Amid(q) == t[1] <= Quantile(t, q) /\ Quantile(t, q) <= t[n]
<1>1. /\ n \in Nat \ {0} /\ DOMAIN s = 1..n /\ \A i \in 1..n : s[i] \in Nat
      /\ t \in Seq(Nat) /\ Len(t) = n /\ t # <<>>
      /\ \A k \in 1..n : t[k] \in Nat
  <2>1. n \in Nat \ {0} /\ DOMAIN s = 1..n /\ \A i \in 1..n : s[i] \in Nat
    BY LenProperties, ElementOfSeq, EmptySeq
  <2>2. t \in Seq(Nat) /\ Len(t) = n
    BY InOrderRanks
  <2> HIDE DEF t
  <2>3. t # <<>> /\ \A k \in 1..n : t[k] \in Nat
    BY <2>1, <2>2, ElementOfSeq, EmptySeq
  <2> QED
    BY <2>1, <2>2, <2>3
<1>2. \A k \in 1..n : /\ \E i \in 1..n : t[k] = s[i]
                      /\ Below(s, t[k]) < k /\ k <= UpTo(s, t[k])
  BY InOrderRanks
<1>3. \A j, k \in 1..n : j <= k => t[j] <= t[k]
  BY InOrderAscends
<1>4. /\ r.Min = t[1] /\ r.Max = t[n] /\ r.Mean = Total(t) \div n
      /\ r.P50 = Quantile(t, 500) /\ r.P95 = Quantile(t, 950)
      /\ r.P99 = Quantile(t, 990) /\ r.P999 = Quantile(t, 999)
  BY <1>1 DEF Summarized
<1> HIDE DEF t, n, r
<1>5. ASSUME NEW q \in Thousandths PROVE Sound(q) /\ Amid(q)
  <2>0. q \in 1..1000
    BY DEF Thousandths
  <2>1. PICK k \in 1..Len(t) : OfRank(t, q, k)
    <3>1. PICK u \in Seq(Nat) : u = t /\ u # <<>>
      BY <1>1
    <3>2. Ranked(u, q)
      BY <3>1, RankedOfAny
    <3> QED
      BY <3>1, <3>2 DEF Ranked
  <2>1a. /\ Quantile(t, q) = t[k]
        /\ 1000 * k >= q * Len(t) /\ 1000 * (k - 1) < q * Len(t)
    BY <2>1 DEF OfRank
  <2>2. PICK v \in Nat : v = t[k]
    BY <1>1, <2>1
  <2>2a. PICK up \in Nat : up = UpTo(s, v)
    BY RankTypes
  <2>2b. PICK low \in Nat : low = Below(s, v)
    BY RankTypes
  <2>3. k \in Nat /\ k \in 1..n /\ 1 \in 1..n /\ n \in 1..n /\ 1 <= k /\ k <= n
    BY <1>1, <2>1
  <2>4. low < k /\ k <= up /\ v \in {s[i] : i \in DOMAIN s}
    <3>1. Below(s, t[k]) < k /\ k <= UpTo(s, t[k]) /\ \E i \in 1..n : t[k] = s[i]
      BY <1>2, <2>3
    <3>2. low < k /\ k <= up
      BY <2>2, <2>2a, <2>2b, <3>1
    <3>3. PICK i \in 1..n : t[k] = s[i]
      BY <3>1
    <3>4. i \in DOMAIN s /\ v = s[i]
      BY <1>1, <2>2, <3>3
    <3>5. v \in {s[j] : j \in DOMAIN s}
      BY <3>4, ZenonT(60)
    <3> QED
      BY <3>2, <3>5
  <2>5. PICK m \in Nat : m = q * n
    BY <1>1, <2>0
  <2>6. 1000 * k >= m /\ 1000 * (k - 1) < m
    BY <1>1, <2>0, <2>1a, <2>5
  <2>7. 1000 * up >= m /\ 1000 * low < m
    BY <2>3, <2>4, <2>6
  <2>8. Nearest(s, v, q)
    BY <2>0, <2>2a, <2>2b, <2>4, <2>5, <2>7 DEF Nearest, n
  <2> QED
    <3>1. Sound(q)
      BY <2>1a, <2>2, <2>8
    <3>2. Amid(q)
      BY <1>3, <2>1a, <2>3
    <3> QED
      BY <3>1, <3>2
<1> HIDE DEF Sound, Amid
<1>5a. /\ 500 \in Thousandths /\ 950 \in Thousandths
       /\ 990 \in Thousandths /\ 999 \in Thousandths
  BY DEF Thousandths
<1>5b. Sound(500) /\ Sound(950) /\ Sound(990) /\ Sound(999)
  BY <1>5, <1>5a
<1>5c. Amid(500) /\ Amid(999)
  BY <1>5, <1>5a
<1>5d. /\ r.P50 = Quantile(t, 500) /\ r.P95 = Quantile(t, 950)
      /\ r.P99 = Quantile(t, 990) /\ r.P999 = Quantile(t, 999)
  BY <1>4
<1>6. t[1] <= Total(t) \div n /\ Total(t) \div n <= t[n]
  <2>1. 1 \in 1..n /\ n \in 1..n /\ \A k \in 1..n : 1 <= k /\ k <= n
    BY <1>1
  <2>2. \A i \in 1..Len(t) : t[1] <= t[i] /\ t[i] <= t[n]
    BY <1>1, <1>3, <2>1
  <2>3. PICK lo \in Nat, hi \in Nat : lo = t[1] /\ hi = t[n]
    BY <1>1, <2>1
  <2>4. \A i \in 1..Len(t) : lo <= t[i] /\ t[i] <= hi
    BY <2>2, <2>3
  <2>5. lo <= Total(t) \div Len(t) /\ Total(t) \div Len(t) <= hi
    BY <1>1, <2>4, MeanWithin
  <2> QED
    BY <1>1, <2>3, <2>5
<1>7. /\ Nearest(s, r.P50, 500) /\ Nearest(s, r.P95, 950)
      /\ Nearest(s, r.P99, 990) /\ Nearest(s, r.P999, 999)
      /\ r.Min <= r.P50 /\ r.P999 <= r.Max
      /\ r.Min <= r.Mean /\ r.Mean <= r.Max
  <2>2. /\ Nearest(s, r.P50, 500) /\ Nearest(s, r.P95, 950)
        /\ Nearest(s, r.P99, 990) /\ Nearest(s, r.P999, 999)
    BY <1>5b, <1>5d DEF Sound
  <2>3. r.Min <= r.P50 /\ r.P999 <= r.Max
    <3>1. t[1] <= Quantile(t, 500) /\ Quantile(t, 999) <= t[n]
      BY <1>5c DEF Amid
    <3>2. r.Min = t[1] /\ r.Max = t[n]
      BY <1>4
    <3> QED
      BY <1>5d, <3>1, <3>2
  <2>4. r.Min <= r.Mean /\ r.Mean <= r.Max
    <3>1. r.Min = t[1] /\ r.Max = t[n] /\ r.Mean = Total(t) \div n
      BY <1>4
    <3>2. \A x, y, z : x <= y /\ y <= z /\ r.Min = x /\ r.Max = z /\ r.Mean = y
                     => r.Min <= r.Mean /\ r.Mean <= r.Max
      BY Zenon
    <3> QED
      BY <1>6, <3>1, <3>2, ZenonT(60)
  <2> QED
    BY <2>2, <2>3, <2>4
<1> QED
  BY <1>7 DEF r

(* Every percentile reported is the nearest-rank one, between the extremes,*)
(* and the mean is between them too: of any samples.                       *)
THEOREM SummaryIsNearestRank == InputSpec => []NearestRank
<1>1. InputInit => NearestRank
  <2> SUFFICES ASSUME InputInit, algorithm = "stats", input # <<>> PROVE NearestRank
    BY DEF NearestRank
  <2>1. input \in Seq(Nat)
    BY AlgorithmsAssumption DEF InputInit
  <2>2. PICK s \in Seq(Nat) : s = input
    BY <2>1
  <2>3. s # <<>>
    BY <2>2
  <2> QED
    BY <2>2, <2>3, SummaryOfAny DEF NearestRank
<1>2. NearestRank /\ [InputNext]_inputVars => NearestRank'
  BY DEF NearestRank, InputNext, inputVars
<1> QED
  BY <1>1, <1>2, PTL DEF InputSpec
-----------------------------------------------------------------------------
(* What walkPath knows while it walks.                                     *)
Walkers == [total : Nat, seen : SUBSET Vertices, noLoop : BOOLEAN, ok : BOOLEAN,
            halted : BOOLEAN]

Usable(h) == ~h.malformed /\ h.facet # Missing
Stands(w, total, seen, noLoop, ok, halted) ==
  /\ w.total = total /\ w.seen = seen /\ w.noLoop = noLoop /\ w.ok = ok
  /\ w.halted = halted

(* What walkPath does with a hop: it has halted, the hop breaks the path   *)
(* off, it comes back to a vertex, or it goes on.                          *)
LEMMA WalkedCases ==
  ASSUME NEW w \in Walkers, NEW h \in Hop
  PROVE  /\ Walked(w, h) \in Walkers
         /\ w.halted => Walked(w, h) = w
         /\ ~w.halted =>
              \/ /\ ~Usable(h)
                 /\ Stands(Walked(w, h), w.total, w.seen, w.noLoop, FALSE, TRUE)
              \/ /\ Usable(h) /\ h.uid \in w.seen
                 /\ Stands(Walked(w, h), w.total + h.facet, w.seen, FALSE, w.ok, TRUE)
              \/ /\ Usable(h) /\ h.uid \notin w.seen
                 /\ Stands(Walked(w, h), w.total + h.facet,
                           w.seen \cup ({h.uid} \ {Missing}), w.noLoop, w.ok, FALSE)
<1> DEFINE more == w.total + h.facet
           wider == w.seen \cup ({h.uid} \ {Missing})
           Made(total, seen, noLoop, ok, halted) ==
             [total |-> total, seen |-> seen, noLoop |-> noLoop, ok |-> ok, halted |-> halted]
<1>1. /\ w.total \in Nat /\ w.seen \subseteq Vertices /\ w.noLoop \in BOOLEAN
      /\ w.ok \in BOOLEAN /\ w.halted \in BOOLEAN
      /\ w = Made(w.total, w.seen, w.noLoop, w.ok, w.halted)
  BY DEF Walkers
<1>2. /\ h.malformed \in BOOLEAN /\ h.facet \in Nat \cup {Missing}
      /\ h.uid \in Vertices \cup {Missing}
  BY DEF Hop
<1>3. \A total, seen, noLoop, ok, halted :
        /\ Stands(Made(total, seen, noLoop, ok, halted), total, seen, noLoop, ok, halted)
        /\ total \in Nat /\ seen \subseteq Vertices /\ noLoop \in BOOLEAN /\ ok \in BOOLEAN
             /\ halted \in BOOLEAN
           => Made(total, seen, noLoop, ok, halted) \in Walkers
  BY DEF Stands, Walkers
<1>4. CASE w.halted
  BY <1>4 DEF Walked
<1>5. CASE ~w.halted /\ ~Usable(h)
  <2>1. Walked(w, h) = [w EXCEPT !.halted = TRUE, !.ok = FALSE]
    BY <1>5 DEF Walked, Usable
  <2>2. Walked(w, h) = Made(w.total, w.seen, w.noLoop, FALSE, TRUE)
    BY <1>1, <2>1
  <2> HIDE DEF Made
  <2> QED
    BY <1>1, <1>3, <1>5, <2>2
<1>6. CASE ~w.halted /\ Usable(h) /\ h.uid \in w.seen
  <2>1. Walked(w, h) = [w EXCEPT !.halted = TRUE, !.noLoop = FALSE, !.total = @ + h.facet]
    BY <1>6 DEF Walked, Usable
  <2>2. Walked(w, h) = Made(more, w.seen, FALSE, w.ok, TRUE)
    BY <1>1, <2>1
  <2>3. more \in Nat
    BY <1>1, <1>2, <1>6 DEF Usable
  <2> HIDE DEF Made, more
  <2>4. Walked(w, h) \in Walkers /\ Stands(Walked(w, h), more, w.seen, FALSE, w.ok, TRUE)
    BY <1>1, <1>3, <2>2, <2>3
  <2> QED
    BY <1>6, <2>4 DEF more
<1>7. CASE ~w.halted /\ Usable(h) /\ h.uid \notin w.seen
  <2>1. Walked(w, h) = [w EXCEPT !.total = @ + h.facet, !.seen = @ \cup ({h.uid} \ {Missing})]
    BY <1>7 DEF Walked, Usable
  <2>2. Walked(w, h) = Made(more, wider, w.noLoop, w.ok, FALSE)
    BY <1>1, <1>7, <2>1
  <2>3. more \in Nat /\ wider \subseteq Vertices
    BY <1>1, <1>2, <1>7 DEF Usable
  <2> HIDE DEF Made, more, wider
  <2>4. Walked(w, h) \in Walkers /\ Stands(Walked(w, h), more, wider, w.noLoop, w.ok, FALSE)
    BY <1>1, <1>3, <2>2, <2>3
  <2> QED
    BY <1>7, <2>4 DEF more, wider
<1> QED
  BY <1>1, <1>4, <1>5, <1>6, <1>7

(* What a path is: a root, a weight, and hops with a facet and a target.   *)
LEMMA PathParts ==
  ASSUME NEW p \in Path
  PROVE  /\ p.uid \in Vertices \cup {Missing} /\ p.weight \in Nat \cup {Missing}
         /\ p.hops \in Seq(Hop) /\ Len(p.hops) \in Nat /\ DOMAIN p.hops = 1..Len(p.hops)
         /\ \A k \in 1..Len(p.hops) :
              /\ p.hops[k] \in Hop /\ p.hops[k].facet \in Nat \cup {Missing}
              /\ p.hops[k].uid \in Vertices \cup {Missing}
<1>1. /\ p.uid \in Vertices \cup {Missing} /\ p.weight \in Nat \cup {Missing}
      /\ p.hops \in Seq(Hop)
  BY DEF Path
<1>2. /\ Len(p.hops) \in Nat /\ DOMAIN p.hops = 1..Len(p.hops)
      /\ \A k \in 1..Len(p.hops) : p.hops[k] \in Hop
  BY <1>1, LenProperties, ElementOfSeq
<1>3. \A h \in Hop : h.facet \in Nat \cup {Missing} /\ h.uid \in Vertices \cup {Missing}
  BY DEF Hop
<1> QED
  BY <1>1, <1>2, <1>3

(* The hops of a walk, one after the other.                                *)
LEMMA WalkSteps ==
  ASSUME NEW p \in Path
  PROVE  \E r \in [0..Len(p.hops) -> Walkers] :
           /\ r[0] = Standing(p)
           /\ \A k \in 1..Len(p.hops) : r[k] = Walked(r[k - 1], p.hops[k])
           /\ WalkPath(p) = r[Len(p.hops)]
<1> DEFINE n == Len(p.hops)
           Steps == [k \in 1..n |-> [w \in Walkers |-> Walked(w, p.hops[k])]]
           Def(g) == [k \in 0..n |-> IF k = 0 THEN Standing(p) ELSE Walked(g[k - 1], p.hops[k])]
<1>1. n \in Nat /\ \A k \in 1..n : p.hops[k] \in Hop
  BY PathParts
<1>2. Standing(p) \in Walkers
  BY PathParts DEF Standing, Walkers
<1>3. Steps \in [1..n -> [Walkers -> Walkers]]
  BY <1>1, WalkedCases
<1> HIDE DEF n, Steps
<1>4. PICK r \in [0..n -> Walkers] : Iterates(r, Standing(p), Steps, n)
  BY <1>1, <1>2, <1>3, IterationExists
<1>5. r[0] = Standing(p) /\ \A k \in 1..n : r[k] = Walked(r[k - 1], p.hops[k])
  <2>1. \A k \in 1..n : k - 1 \in 0..n
    BY <1>1
  <2>2. \A k \in 1..n, w \in Walkers : Steps[k][w] = Walked(w, p.hops[k])
    BY DEF Steps
  <2> QED
    BY <1>4, <2>1, <2>2 DEF Iterates
<1>6. r = Def(r)
  <2> SUFFICES ASSUME NEW k \in 0..n, k # 0 PROVE r[k] = Walked(r[k - 1], p.hops[k])
    BY <1>5
  <2>1. k \in 1..n
    BY <1>1
  <2> QED
    BY <1>5, <2>1
<1> DEFINE walk == CHOOSE g : g = Def(g)
<1>7. walk = Def(walk)
  BY <1>6
<1>8. WalkPath(p) = walk[n]
  BY DEF WalkPath, n
<1> HIDE DEF walk
<1>9. walk[0] = Standing(p) /\ \A k \in 1..n : walk[k] = Walked(walk[k - 1], p.hops[k])
  <2>1. \A k \in 0..n :
          walk[k] = IF k = 0 THEN Standing(p) ELSE Walked(walk[k - 1], p.hops[k])
    BY <1>7
  <2>2. 0 \in 0..n /\ \A k \in 1..n : k \in 0..n /\ k # 0
    BY <1>1
  <2> QED
    BY <2>1, <2>2
<1>10. walk[n] = r[n]
  <2>1. GoAlike(r, walk, n)
    BY <1>5, <1>9 DEF GoAlike
  <2>2. Alike(r, walk, n)
    BY <1>1, <2>1, SameIterations
  <2>3. n \in 0..n
    BY <1>1
  <2> QED
    BY <2>2, <2>3 DEF Alike
<1> QED
  BY <1>4, <1>5, <1>8, <1>10 DEF n

(* The trail of a path begins with its root and goes on with its hops.     *)
LEMMA TrailAt ==
  ASSUME NEW p \in Path
  PROVE  /\ Trail(p)[1] = p.uid
         /\ \A k \in 1..Len(p.hops) : Trail(p)[k + 1] = p.hops[k].uid
<1> DEFINE rest == [k \in 1..Len(p.hops) |-> p.hops[k].uid]
<1>1. rest \in Seq(Vertices \cup {Missing}) /\ Len(rest) = Len(p.hops)
  <2>1. rest \in [1..Len(p.hops) -> Vertices \cup {Missing}] /\ Len(p.hops) \in Nat
    BY PathParts
  <2> QED
    BY <2>1
<1>2. <<p.uid>> \in Seq(Vertices \cup {Missing}) /\ Len(<<p.uid>>) = 1 /\ <<p.uid>>[1] = p.uid
  BY PathParts
<1>3. Trail(p) = <<p.uid>> \o rest
  BY PathParts DEF Trail
<1>4. \A k \in 1..Len(p.hops) : rest[k] = p.hops[k].uid
  OBVIOUS
<1> HIDE DEF rest
<1>5. PICK one \in Seq(Vertices \cup {Missing}), more \in Seq(Vertices \cup {Missing}) :
        one = <<p.uid>> /\ more = rest
  BY <1>1, <1>2
<1>6. /\ Len(one \o more) = Len(one) + Len(more)
      /\ \A i \in 1..Len(one) + Len(more) :
           (one \o more)[i] = IF i <= Len(one) THEN one[i] ELSE more[i - Len(one)]
  BY ConcatProperties
<1>7. Len(one) = 1 /\ one[1] = p.uid /\ Len(more) = Len(p.hops) /\ Len(p.hops) \in Nat
  BY <1>1, <1>2, <1>5, PathParts
<1>8. Trail(p)[1] = p.uid
  BY <1>3, <1>5, <1>6, <1>7
<1>9. ASSUME NEW k \in 1..Len(p.hops) PROVE Trail(p)[k + 1] = p.hops[k].uid
  <2>1. k + 1 \in 1..Len(one) + Len(more) /\ ~(k + 1 <= Len(one)) /\ (k + 1) - Len(one) = k
    BY <1>7
  <2>2. (one \o more)[k + 1] = more[k]
    BY <1>6, <2>1
  <2> QED
    BY <1>3, <1>4, <1>5, <2>2
<1> QED
  BY <1>8, <1>9

(* The first k hops lead nowhere the walk has been.                        *)
Meets(p, j, k) == Trail(p)[j] = Trail(p)[k + 1] /\ Trail(p)[j] # Missing
Fresh(p, k) == Walkable(p, k) /\ \A m \in 1..k : \A j \in 1..m : ~Meets(p, j, m)
SeenBy(p, k) == {Trail(p)[j] : j \in 1..k + 1} \ {Missing}

(* Where a walk of k hops stands: still on its way, or where it broke off. *)
OnItsWay(p, k, w) == ~w.halted /\ w.ok /\ w.noLoop /\ Fresh(p, k) /\ w.seen = SeenBy(p, k)
BrokeOff(p, k, w) ==
  w.halted /\ ~w.ok /\ w.noLoop /\ \E m \in 1..k : Fresh(p, m - 1) /\ ~Usable(p.hops[m])
CameBack(p, k, w) ==
  w.halted /\ w.ok /\ ~w.noLoop /\ \E m \in 1..k : Walkable(p, m) /\ \E j \in 1..m : Meets(p, j, m)
Stood(p, k, w) == OnItsWay(p, k, w) \/ BrokeOff(p, k, w) \/ CameBack(p, k, w)

(* Before the first hop the walk is on its way.                            *)
LEMMA StoodFirst == ASSUME NEW p \in Path PROVE Stood(p, 0, Standing(p))
<1>1. SeenBy(p, 0) = {p.uid} \ {Missing}
  BY TrailAt DEF SeenBy
<1>2. Fresh(p, 0)
  BY DEF Fresh, Walkable
<1>3. OnItsWay(p, 0, Standing(p))
  BY <1>1, <1>2 DEF OnItsWay, Standing
<1> QED
  BY <1>3 DEF Stood

(* Every hop keeps what the walk stands for.                               *)
LEMMA StoodNext ==
  ASSUME NEW p \in Path, NEW k \in Nat, k + 1 <= Len(p.hops), NEW w \in Walkers,
         Stood(p, k, w)
  PROVE  Stood(p, k + 1, Walked(w, p.hops[k + 1]))
<1> DEFINE h == p.hops[k + 1]
           to == Walked(w, h)
<1>1. /\ k + 1 \in 1..Len(p.hops) /\ h \in Hop /\ Len(p.hops) \in Nat
      /\ Trail(p)[(k + 1) + 1] = h.uid
  <2>1. PICK m \in 1..Len(p.hops) : m = k + 1
    BY PathParts
  <2>2. p.hops[m] \in Hop /\ Trail(p)[m + 1] = p.hops[m].uid
    BY PathParts, TrailAt
  <2>3. Len(p.hops) \in Nat
    BY PathParts
  <2> QED
    BY <2>1, <2>2, <2>3
<1>2. 1..k \subseteq 1..k + 1 /\ k + 1 \in 1..k + 1 /\ (k + 1) - 1 = k
  OBVIOUS
<1>3. Walkable(p, k + 1) <=> Walkable(p, k) /\ Usable(h)
  <2>1. \A i \in 1..k + 1 : i \in 1..k \/ i = k + 1
    OBVIOUS
  <2> QED
    BY <1>2, <2>1 DEF Walkable, Usable
<1> HIDE DEF to
<1>4. CASE BrokeOff(p, k, w)
  <2>1. to = w
    BY <1>1, <1>4, WalkedCases DEF BrokeOff, to
  <2>2. BrokeOff(p, k + 1, to)
    BY <1>2, <1>4, <2>1 DEF BrokeOff
  <2> QED
    BY <2>2 DEF Stood, to
<1>5. CASE CameBack(p, k, w)
  <2>1. to = w
    BY <1>1, <1>5, WalkedCases DEF CameBack, to
  <2>2. CameBack(p, k + 1, to)
    BY <1>2, <1>5, <2>1 DEF CameBack
  <2> QED
    BY <2>2 DEF Stood, to
<1>6. CASE OnItsWay(p, k, w)
  <2>1. \/ /\ ~Usable(h)
           /\ Stands(to, w.total, w.seen, w.noLoop, FALSE, TRUE)
        \/ /\ Usable(h) /\ h.uid \in w.seen
           /\ Stands(to, w.total + h.facet, w.seen, FALSE, w.ok, TRUE)
        \/ /\ Usable(h) /\ h.uid \notin w.seen
           /\ Stands(to, w.total + h.facet, w.seen \cup ({h.uid} \ {Missing}),
                     w.noLoop, w.ok, FALSE)
    BY <1>1, <1>6, WalkedCases DEF OnItsWay, to
  <2>2. /\ w.ok /\ w.noLoop /\ Fresh(p, k) /\ Walkable(p, k)
        /\ \A v : v \in w.seen <=> v # Missing /\ \E j \in 1..k + 1 : v = Trail(p)[j]
    BY <1>6 DEF OnItsWay, Fresh, SeenBy
  <2>3. CASE ~Usable(h) /\ Stands(to, w.total, w.seen, w.noLoop, FALSE, TRUE)
    <3>1. BrokeOff(p, k + 1, to)
      <4>1. to.halted /\ ~to.ok /\ to.noLoop
        BY <2>2, <2>3 DEF Stands
      <4>2. Fresh(p, (k + 1) - 1) /\ ~Usable(p.hops[k + 1])
        BY <1>2, <2>2, <2>3
      <4> QED
        BY <1>2, <4>1, <4>2 DEF BrokeOff
    <3> QED
      BY <3>1 DEF Stood, to
  <2>4. CASE /\ Usable(h) /\ h.uid \in w.seen
             /\ Stands(to, w.total + h.facet, w.seen, FALSE, w.ok, TRUE)
    <3>1. to.halted /\ to.ok /\ ~to.noLoop
      BY <2>2, <2>4 DEF Stands
    <3>2. PICK j \in 1..k + 1 : h.uid = Trail(p)[j] /\ h.uid # Missing
      BY <2>2, <2>4
    <3>3. Meets(p, j, k + 1)
      BY <1>1, <3>2 DEF Meets
    <3>4. Walkable(p, k + 1)
      BY <1>3, <2>2, <2>4
    <3>5. CameBack(p, k + 1, to)
      BY <1>2, <3>1, <3>3, <3>4 DEF CameBack
    <3> QED
      BY <3>5 DEF Stood, to
  <2>5. CASE /\ Usable(h) /\ h.uid \notin w.seen
             /\ Stands(to, w.total + h.facet, w.seen \cup ({h.uid} \ {Missing}),
                       w.noLoop, w.ok, FALSE)
    <3>1. /\ ~to.halted /\ to.ok /\ to.noLoop
          /\ to.seen = w.seen \cup ({h.uid} \ {Missing})
      BY <2>2, <2>5 DEF Stands
    <3>2. \A j \in 1..k + 1 : ~Meets(p, j, k + 1)
      BY <1>1, <2>2, <2>5 DEF Meets
    <3>3. Fresh(p, k + 1)
      <4>1. Walkable(p, k + 1)
        BY <1>3, <2>2, <2>5
      <4>2. \A m \in 1..k + 1 : m \in 1..k \/ m = k + 1
        OBVIOUS
      <4> QED
        BY <2>2, <3>2, <4>1, <4>2 DEF Fresh
    <3>4. to.seen = SeenBy(p, k + 1)
      <4>1. \A j : j \in 1..(k + 1) + 1 <=> j \in 1..k + 1 \/ j = (k + 1) + 1
        OBVIOUS
      <4>2. w.seen = SeenBy(p, k)
        BY <1>6 DEF OnItsWay
      <4>3. SeenBy(p, k + 1) = SeenBy(p, k) \cup ({h.uid} \ {Missing})
        BY <1>1, <4>1 DEF SeenBy
      <4> QED
        BY <3>1, <4>2, <4>3
    <3> QED
      BY <3>1, <3>3, <3>4 DEF OnItsWay, Stood, to
  <2> QED
    BY <2>1, <2>3, <2>4, <2>5
<1> QED
  BY <1>4, <1>5, <1>6 DEF Stood

(* What the walk of a path finds.                                          *)
LEMMA WalkExact ==
  ASSUME NEW p \in Path
  PROVE  /\ WalkPath(p).noLoop <=> ~Repeats(p)
         /\ WalkPath(p).ok /\ WalkPath(p).noLoop
              <=> Walkable(p, Len(p.hops)) /\ ~Repeats(p)
         /\ WalkPath(p).ok /\ WalkPath(p).noLoop => WalkPath(p).total = Cost(p)
<1> DEFINE n == Len(p.hops)
           w == WalkPath(p)
<1>1. PICK r \in [0..n -> Walkers] :
        /\ r[0] = Standing(p)
        /\ \A k \in 1..n : r[k] = Walked(r[k - 1], p.hops[k])
        /\ w = r[n]
  BY WalkSteps
<1>2. n \in Nat /\ n \in 0..n
  BY PathParts
<1>3. \A k \in Nat : k <= n => Stood(p, k, r[k])
  <2> DEFINE T == {k \in Nat : k <= n => Stood(p, k, r[k])}
  <2>1. 0 \in T
    BY <1>1, StoodFirst
  <2>2. ASSUME NEW k \in Nat, k \in T PROVE k + 1 \in T
    <3> SUFFICES ASSUME k + 1 <= n PROVE Stood(p, k + 1, r[k + 1])
      OBVIOUS
    <3>1. k \in 0..n /\ k <= n /\ k + 1 \in 1..n /\ (k + 1) - 1 = k
      BY <1>2
    <3>2. PICK v \in Walkers : v = r[k]
      BY <3>1
    <3>3. Stood(p, k, v)
      BY <2>2, <3>1, <3>2
    <3>4. r[k + 1] = Walked(v, p.hops[k + 1])
      BY <1>1, <3>1, <3>2
    <3> QED
      BY <3>3, <3>4, StoodNext
  <2>3. \A k \in Nat : k \in T
    <3> HIDE DEF T
    <3> QED
      BY <2>1, <2>2, EveryNatural
  <2> QED
    BY <2>3
<1>4. Stood(p, n, w)
  BY <1>1, <1>2, <1>3
<1> HIDE DEF w
<1>5. Repeats(p) <=> \E k \in 1..n : Walkable(p, k) /\ \E j \in 1..k : Meets(p, j, k)
  <2>1. \A k \in 1..n, j \in 1..n : j <= k => j \in 1..k
    OBVIOUS
  <2>2. \A k \in 1..n : \A j \in 1..k : j \in 1..n /\ j <= k
    BY <1>2
  <2> QED
    BY <2>1, <2>2 DEF Repeats, Meets
<1>6. CASE OnItsWay(p, n, w)
  <2>1. w.ok /\ w.noLoop /\ Walkable(p, n) /\ ~Repeats(p) /\ ~w.halted
    BY <1>5, <1>6 DEF OnItsWay, Fresh
  <2>2. w.total = Cost(p)
    <3> DEFINE costs == [k \in 1..n |-> p.hops[k].facet]
    <3>1. costs \in Seq(Nat) /\ Len(costs) = n /\ \A k \in 1..n : costs[k] \in Nat
      <4>1. \A k \in 1..n : p.hops[k].facet \in Nat
        BY <2>1, PathParts DEF Walkable
      <4>2. costs \in [1..n -> Nat]
        BY <4>1
      <4> QED
        BY <1>2, <4>1, <4>2
    <3>2. Cost(p) = Total(costs)
      BY PathParts DEF Cost
    <3>3. \A k \in 0..n : ~r[k].halted
      <4> DEFINE T == {k \in Nat : k <= n => ~r[n - k].halted}
      <4>1. 0 \in T
        BY <1>1, <1>2, <2>1
      <4>2. ASSUME NEW k \in Nat, k \in T PROVE k + 1 \in T
        <5> SUFFICES ASSUME k + 1 <= n, r[n - (k + 1)].halted PROVE FALSE
          OBVIOUS
        <5>1. PICK m \in 1..n : m = n - k /\ m - 1 = n - (k + 1)
          <6>1. n - k \in 1..n /\ (n - k) - 1 = n - (k + 1)
            BY <1>2
          <6> QED
            BY <6>1
        <5>2. PICK v \in Walkers : v = r[m - 1] /\ v.halted
          <6>1. m - 1 \in 0..n
            BY <1>2
          <6> QED
            BY <5>1, <6>1
        <5>3. r[m] = v
          BY <1>1, <5>2, PathParts, WalkedCases
        <5>4. ~r[m].halted
          BY <1>2, <4>2, <5>1
        <5> QED
          BY <5>2, <5>3, <5>4
      <4>3. \A k \in Nat : k \in T
        <5> HIDE DEF T
        <5> QED
          BY <4>1, <4>2, EveryNatural
      <4> SUFFICES ASSUME NEW k \in 0..n PROVE ~r[k].halted
        OBVIOUS
      <4>4. n - k \in Nat /\ n - k <= n /\ n - (n - k) = k
        BY <1>2
      <4> QED
        BY <4>3, <4>4
    <3> DEFINE g == [k \in 0..n |-> r[k].total]
    <3>4. \A k \in 1..n : r[k].total = r[k - 1].total + costs[k]
      <4> SUFFICES ASSUME NEW k \in 1..n PROVE r[k].total = r[k - 1].total + costs[k]
        OBVIOUS
      <4>1. k - 1 \in 0..n /\ k \in 0..n
        BY <1>2
      <4>2. PICK v \in Walkers : v = r[k - 1] /\ ~v.halted
        BY <3>3, <4>1
      <4>3. r[k] = Walked(v, p.hops[k]) /\ ~r[k].halted /\ p.hops[k] \in Hop
        BY <1>1, <3>3, <4>1, <4>2, PathParts
      <4>4. r[k].total = v.total + p.hops[k].facet
        <5>1. PICK h \in Hop : h = p.hops[k]
          BY <4>3
        <5>2. PICK u : u = Walked(v, h)
          OBVIOUS
        <5>3. \/ Stands(u, v.total, v.seen, v.noLoop, FALSE, TRUE)
              \/ Stands(u, v.total + h.facet, v.seen, FALSE, v.ok, TRUE)
              \/ Stands(u, v.total + h.facet, v.seen \cup ({h.uid} \ {Missing}),
                        v.noLoop, v.ok, FALSE)
          BY <4>2, <5>2, WalkedCases
        <5>4. ~u.halted
          BY <4>3, <5>1, <5>2
        <5>5. u.total = v.total + h.facet
          BY <5>3, <5>4 DEF Stands
        <5> QED
          BY <4>3, <5>1, <5>2, <5>5
      <4> QED
        BY <4>2, <4>4
    <3>5. /\ g[0] = 0 /\ g[n] = w.total
          /\ \A k \in 1..n : g[k] = g[k - 1] + costs[k]
      <4>1. \A k \in 1..n : k \in 0..n /\ k - 1 \in 0..n
        BY <1>2
      <4>2. g[0] = 0 /\ g[n] = w.total
        BY <1>1, <1>2 DEF Standing
      <4> QED
        BY <3>4, <4>1, <4>2
    <3> HIDE DEF g, costs
    <3>6. Total(costs) = g[n]
      BY <3>1, <3>5, TotalOf
    <3> QED
      BY <3>2, <3>5, <3>6
  <2> QED
    BY <2>1, <2>2 DEF w
<1>7. CASE BrokeOff(p, n, w)
  <2>1. PICK m \in 1..n : Fresh(p, m - 1) /\ ~Usable(p.hops[m])
    BY <1>7 DEF BrokeOff
  <2>2. ~w.ok /\ w.noLoop
    BY <1>7 DEF BrokeOff
  <2>3. \A k \in 1..n : Walkable(p, k) => k \in 1..m - 1
    <3> SUFFICES ASSUME NEW k \in 1..n, Walkable(p, k), ~(k \in 1..m - 1) PROVE FALSE
      OBVIOUS
    <3>1. m \in 1..k
      BY <1>2
    <3> QED
      BY <2>1, <3>1 DEF Walkable, Usable
  <2>4. ~Repeats(p)
    BY <1>5, <2>1, <2>3 DEF Fresh
  <2>5. ~Walkable(p, n)
    BY <1>2, <2>1 DEF Walkable, Usable
  <2> QED
    BY <2>2, <2>4, <2>5 DEF w
<1>8. CASE CameBack(p, n, w)
  BY <1>5, <1>8 DEF CameBack, w
<1> QED
  BY <1>4, <1>6, <1>7, <1>8 DEF Stood

(* The costs that are sorted are those some path reports.                  *)
CostOfOne(paths, n, c) == \E i \in 1..n : Reported(paths[i]) /\ c = paths[i].weight
Kept(costs, path) == IF Reported(path) THEN Append(costs, path.weight) ELSE costs

(* The cost Shortest reports is the weight of one of the paths.            *)
LEMMA WeightsAreReported ==
  ASSUME NEW paths \in Seq(Path), Weights(paths) # <<>>
  PROVE  CostOfOne(paths, Len(paths), Head(Weights(paths)))
<1> DEFINE n == Len(paths)
           Steps == [k \in 1..n |-> [c \in Seq(Nat) |-> Kept(c, paths[k])]]
           Def(g) == [k \in 0..n |->
                        IF k = 0 THEN <<>>
                        ELSE IF Reported(paths[k]) THEN Append(g[k - 1], paths[k].weight)
                        ELSE g[k - 1]]
<1>1. n \in Nat /\ \A k \in 1..n : paths[k] \in Path
  BY LenProperties, ElementOfSeq
<1>2. \A path \in Path : Reported(path) => path.weight \in Nat
  BY DEF Path, Reported
<1>3. \A path \in Path, c \in Seq(Nat) : Kept(c, path) \in Seq(Nat)
  BY <1>2, AppendProperties DEF Kept
<1>4. Steps \in [1..n -> [Seq(Nat) -> Seq(Nat)]] /\ <<>> \in Seq(Nat)
  BY <1>1, <1>3, EmptySeq
<1> HIDE DEF n, Steps
<1>5. PICK r \in [0..n -> Seq(Nat)] : Iterates(r, <<>>, Steps, n)
  BY <1>1, <1>4, IterationExists
<1>6. r[0] = <<>> /\ \A k \in 1..n : r[k] = Kept(r[k - 1], paths[k])
  <2>1. \A k \in 1..n : k - 1 \in 0..n
    BY <1>1
  <2>2. \A k \in 1..n, c \in Seq(Nat) : Steps[k][c] = Kept(c, paths[k])
    BY DEF Steps
  <2> QED
    BY <1>5, <2>1, <2>2 DEF Iterates
<1>7. r = Def(r)
  <2> SUFFICES ASSUME NEW k \in 0..n, k # 0
               PROVE  r[k] = IF Reported(paths[k]) THEN Append(r[k - 1], paths[k].weight)
                             ELSE r[k - 1]
    BY <1>6
  <2>1. k \in 1..n
    BY <1>1
  <2> QED
    BY <1>6, <2>1, Zenon DEF Kept
<1> DEFINE upto == CHOOSE g : g = Def(g)
<1>8. upto = Def(upto)
  BY <1>7, Zenon
<1>9. Weights(paths) = InOrder(upto[n])
  BY DEF Weights, n
<1> HIDE DEF upto
<1>10. upto[0] = <<>> /\ \A k \in 1..n : upto[k] = Kept(upto[k - 1], paths[k])
  <2>1. \A k \in 0..n :
          upto[k] = IF k = 0 THEN <<>>
                    ELSE IF Reported(paths[k]) THEN Append(upto[k - 1], paths[k].weight)
                    ELSE upto[k - 1]
    BY <1>8
  <2>2. 0 \in 0..n /\ \A k \in 1..n : k \in 0..n /\ k # 0
    BY <1>1
  <2> QED
    BY <2>1, <2>2 DEF Kept
<1>11. upto[n] = r[n]
  <2>1. GoAlike(r, upto, n)
    BY <1>6, <1>10 DEF GoAlike
  <2>2. Alike(r, upto, n)
    BY <1>1, <2>1, SameIterations
  <2>3. n \in 0..n
    BY <1>1
  <2> QED
    BY <2>2, <2>3 DEF Alike
<1>12. \A k \in Nat : k <= n => \A i \in 1..Len(r[k]) : CostOfOne(paths, k, r[k][i])
  <2> DEFINE T == {k \in Nat : k <= n => \A i \in 1..Len(r[k]) : CostOfOne(paths, k, r[k][i])}
  <2>1. 0 \in T
    <3>1. Len(r[0]) = 0
      BY <1>6, EmptySeq
    <3> QED
      BY <3>1
  <2>2. ASSUME NEW k \in Nat, k \in T PROVE k + 1 \in T
    <3> SUFFICES ASSUME k + 1 <= n, NEW i \in 1..Len(r[k + 1])
                 PROVE  CostOfOne(paths, k + 1, r[k + 1][i])
      OBVIOUS
    <3>1. k \in 0..n /\ k <= n /\ k + 1 \in 1..n /\ (k + 1) - 1 = k
      BY <1>1
    <3>2. PICK c \in Seq(Nat) : c = r[k]
      BY <3>1
    <3>3. r[k + 1] = Kept(c, paths[k + 1])
      BY <1>6, <3>1, <3>2
    <3>4. \A j \in 1..Len(c) : CostOfOne(paths, k + 1, c[j])
      <4>1. \A j \in 1..Len(c) : CostOfOne(paths, k, c[j])
        BY <2>2, <3>1, <3>2
      <4>2. 1..k \subseteq 1..k + 1
        OBVIOUS
      <4> QED
        BY <4>1, <4>2 DEF CostOfOne
    <3>5. CASE ~Reported(paths[k + 1])
      BY <3>3, <3>4, <3>5 DEF Kept
    <3>6. CASE Reported(paths[k + 1])
      <4>1. PICK x \in Nat : x = paths[k + 1].weight
        BY <1>1, <1>2, <3>1, <3>6
      <4>2. r[k + 1] = Append(c, x)
        BY <3>3, <3>6, <4>1 DEF Kept
      <4>3. /\ Len(Append(c, x)) = Len(c) + 1 /\ Append(c, x)[Len(c) + 1] = x
            /\ \A j \in 1..Len(c) : Append(c, x)[j] = c[j]
            /\ Len(c) \in Nat
        BY AppendProperties, LenProperties
      <4>4. CASE i \in 1..Len(c)
        BY <3>4, <4>2, <4>3, <4>4
      <4>5. CASE i = Len(c) + 1
        <5>1. r[k + 1][i] = paths[k + 1].weight
          BY <4>1, <4>2, <4>3, <4>5
        <5>2. k + 1 \in 1..k + 1
          OBVIOUS
        <5> QED
          BY <3>6, <5>1, <5>2 DEF CostOfOne
      <4> QED
        BY <4>2, <4>3, <4>4, <4>5
    <3> QED
      BY <3>5, <3>6
  <2>3. \A k \in Nat : k \in T
    <3> HIDE DEF T
    <3> QED
      BY <2>1, <2>2, EveryNatural
  <2> QED
    BY <2>3
<1>13. PICK c \in Seq(Nat) : /\ Weights(paths) = InOrder(c)
                             /\ \A i \in 1..Len(c) : CostOfOne(paths, n, c[i])
  <2>1. r[n] \in Seq(Nat) /\ Weights(paths) = InOrder(r[n])
    BY <1>1, <1>9, <1>11
  <2>2. \A i \in 1..Len(r[n]) : CostOfOne(paths, n, r[n][i])
    BY <1>1, <1>12
  <2> QED
    BY <2>1, <2>2
<1>14. /\ InOrder(c) \in Seq(Nat) /\ Len(InOrder(c)) = Len(c) /\ InOrder(c) # <<>>
       /\ \A k \in 1..Len(c) : \E i \in 1..Len(c) : InOrder(c)[k] = c[i]
  BY <1>13, InOrderRanks
<1>15. 1 \in 1..Len(c) /\ Head(InOrder(c)) = InOrder(c)[1]
  <2>1. PICK u \in Seq(Nat) : u = InOrder(c) /\ u # <<>>
    BY <1>14
  <2>2. Len(u) \in Nat /\ Len(u) # 0 /\ Head(u) = u[1]
    BY <2>1, LenProperties, EmptySeq
  <2> QED
    BY <1>14, <2>1, <2>2
<1> QED
  BY <1>13, <1>14, <1>15 DEF n

(* What the self-check says of any reply.                                  *)
LEMMA ReplyExact ==
  ASSUME NEW paths \in Seq(Path), paths # <<>>
  PROVE  LET r == Shortest(paths)
             simple == \A i \in DOMAIN paths : ~Repeats(paths[i])
         IN /\ r.Loopless = simple
            /\ r.SelfConsistent =
                 /\ simple
                 /\ \A i \in DOMAIN paths :
                      /\ Walkable(paths[i], Len(paths[i].hops))
                      /\ paths[i].weight \in {Missing, Cost(paths[i])}
            /\ r.SelfConsistent /\ r.Distance # Inf =>
                 \E i \in DOMAIN paths : Cost(paths[i]) = r.Distance
<1> DEFINE r == Shortest(paths)
           simple == \A i \in DOMAIN paths : ~Repeats(paths[i])
           whole(p) == Walkable(p, Len(p.hops)) /\ p.weight \in {Missing, Cost(p)}
           clean(p) == /\ WalkPath(p).ok /\ WalkPath(p).noLoop
                       /\ Reported(p) => WalkPath(p).total = p.weight
<1>1. DOMAIN paths = 1..Len(paths) /\ \A i \in DOMAIN paths : paths[i] \in Path
  BY LenProperties, ElementOfSeq
<1>2. /\ r.Loopless = \A i \in DOMAIN paths : WalkPath(paths[i]).noLoop
      /\ r.SelfConsistent = \A i \in DOMAIN paths : clean(paths[i])
      /\ r.Distance = IF Weights(paths) = <<>> THEN Inf ELSE Head(Weights(paths))
  BY DEF Shortest
<1> HIDE DEF r
<1>3. \A p \in Path : WalkPath(p).noLoop <=> ~Repeats(p)
  BY WalkExact
<1>4. \A p \in Path : clean(p) <=> ~Repeats(p) /\ whole(p)
  BY WalkExact DEF Reported
<1>5. (\A i \in DOMAIN paths : WalkPath(paths[i]).noLoop) <=> simple
  BY <1>1, <1>3
<1>6. (\A i \in DOMAIN paths : clean(paths[i]))
        <=> simple /\ \A i \in DOMAIN paths : whole(paths[i])
  <2> HIDE DEF clean, whole
  <2> QED
    BY <1>1, <1>4
<1>7. ASSUME r.SelfConsistent, r.Distance # Inf
      PROVE  \E i \in DOMAIN paths : Cost(paths[i]) = r.Distance
  <2>1. Weights(paths) # <<>> /\ r.Distance = Head(Weights(paths))
    BY <1>2, <1>7
  <2>2. CostOfOne(paths, Len(paths), Head(Weights(paths)))
    BY <2>1, WeightsAreReported
  <2>3. PICK i \in 1..Len(paths) :
          Reported(paths[i]) /\ Head(Weights(paths)) = paths[i].weight
    BY <2>2 DEF CostOfOne
  <2>4. clean(paths[i])
    <3> HIDE DEF clean
    <3> QED
      BY <1>1, <1>2, <1>7, <2>3
  <2>5. paths[i].weight \in {Missing, Cost(paths[i])}
    <3>1. whole(paths[i])
      BY <1>1, <1>4, <2>3, <2>4
    <3> QED
      BY <3>1
  <2> QED
    BY <1>1, <2>1, <2>3, <2>5 DEF Reported
<1>8. r.Loopless = simple
  BY <1>2, <1>5, Zenon
<1>9. r.SelfConsistent = (simple /\ \A i \in DOMAIN paths : whole(paths[i]))
  BY <1>2, <1>6, Zenon
<1> QED
  BY <1>7, <1>8, <1>9 DEF r

(* The self-check is right about every reply: it finds every loop, and     *)
(* vouches for no path that is broken, misses a facet or costs something   *)
(* else than it claims, and for every other.                               *)
THEOREM SelfCheckIsSound == InputSpec => []SelfCheckSound
<1>1. InputInit => SelfCheckSound
  <2> SUFFICES ASSUME InputInit, algorithm = "reply", input # <<>> PROVE SelfCheckSound
    BY DEF SelfCheckSound
  <2>1. input \in Seq(Path)
    BY AlgorithmsAssumption DEF InputInit
  <2>2. PICK paths \in Seq(Path) : paths = input
    BY <2>1
  <2>3. paths # <<>>
    BY <2>2
  <2> QED
    BY <2>2, <2>3, ReplyExact DEF SelfCheckSound
<1>2. SelfCheckSound /\ [InputNext]_inputVars => SelfCheckSound'
  BY DEF SelfCheckSound, InputNext, inputVars
<1> QED
  BY <1>1, <1>2, PTL DEF InputSpec
-----------------------------------------------------------------------------
(* Parts of a list: the elements behind place lo up to place hi.           *)
Part(s, lo, hi) == SubSeq(s, lo + 1, hi)

Within(s, lo, hi) == lo <= hi /\ hi <= Len(s)
IsPart(t, S, s, lo, hi) == /\ t \in Seq(S)
                           /\ Len(t) = hi - lo
                           /\ \A i \in 1..hi - lo : t[i] = s[lo + i]
                           /\ t = <<>> <=> lo = hi

(* A part of a list holds the list's elements, and is empty only when it   *)
(* begins where it ends.                                                   *)
LEMMA PartIs ==
  \A S : \A s \in Seq(S) : \A lo, hi \in Nat :
    Within(s, lo, hi) => IsPart(Part(s, lo, hi), S, s, lo, hi)
<1> SUFFICES ASSUME NEW S, NEW s \in Seq(S), NEW lo \in Nat, NEW hi \in Nat,
                    lo <= hi, hi <= Len(s)
             PROVE  IsPart(Part(s, lo, hi), S, s, lo, hi)
  BY DEF Within
<1>1. Len(s) \in Nat /\ \A i \in 1..Len(s) : s[i] \in S
  BY LenProperties, ElementOfSeq
<1>2. lo + 1 \in Int /\ hi \in Int /\ \A i \in lo + 1..hi : s[i] \in S
  BY <1>1
<1>3. /\ SubSeq(s, lo + 1, hi) \in Seq(S)
      /\ Len(SubSeq(s, lo + 1, hi)) = IF lo + 1 <= hi THEN hi - (lo + 1) + 1 ELSE 0
      /\ \A i \in 1..hi - (lo + 1) + 1 : SubSeq(s, lo + 1, hi)[i] = s[lo + 1 + i - 1]
  BY <1>2, SubSeqProperties
<1>4. hi - (lo + 1) + 1 = hi - lo /\ \A i \in 1..hi - lo : lo + 1 + i - 1 = lo + i
  OBVIOUS
<1>5. Len(SubSeq(s, lo + 1, hi)) = hi - lo
  BY <1>3
<1>6. SubSeq(s, lo + 1, hi) = <<>> <=> lo = hi
  BY <1>3, <1>5, EmptySeq
<1> QED
  BY <1>3, <1>4, <1>5, <1>6 DEF Part, IsPart

(* Two parts that meet make one part.                                      *)
LEMMA PartsMeet ==
  ASSUME NEW S, NEW s \in Seq(S), NEW lo \in Nat, NEW mid \in Nat, NEW hi \in Nat,
         lo <= mid, mid <= hi, hi <= Len(s)
  PROVE  Part(s, lo, mid) \o Part(s, mid, hi) = Part(s, lo, hi)
<1>1. Len(s) \in Nat
  BY LenProperties
<1>2. lo + 1 \in 1..Len(s) + 1 /\ mid \in (lo + 1) - 1..Len(s) /\ hi \in mid..Len(s)
  BY <1>1
<1> QED
  BY <1>2, ConcatAdjacentSubSeq DEF Part

(* A part and the element after it make the part that ends one later.      *)
LEMMA PartGrows ==
  ASSUME NEW S, NEW s \in Seq(S), NEW lo \in Nat, NEW hi \in Nat, lo <= hi, hi < Len(s)
  PROVE  Append(Part(s, lo, hi), s[hi + 1]) = Part(s, lo, hi + 1)
<1>1. Len(s) \in Nat
  BY LenProperties
<1>2. /\ hi + 1 \in 1..Len(s) /\ hi + 1 \in Nat
      /\ Within(s, lo, hi) /\ Within(s, lo, hi + 1)
  BY <1>1 DEF Within
<1>3. IsPart(Part(s, lo, hi), S, s, lo, hi) /\ IsPart(Part(s, lo, hi + 1), S, s, lo, hi + 1)
  BY <1>2, PartIs
<1>4. /\ Part(s, lo, hi) \in Seq(S) /\ Len(Part(s, lo, hi)) = hi - lo
      /\ \A i \in 1..hi - lo : Part(s, lo, hi)[i] = s[lo + i]
      /\ Part(s, lo, hi + 1) \in Seq(S) /\ Len(Part(s, lo, hi + 1)) = hi + 1 - lo
      /\ \A i \in 1..hi + 1 - lo : Part(s, lo, hi + 1)[i] = s[lo + i]
  BY <1>3 DEF IsPart
<1>5. s[hi + 1] \in S
  BY <1>2, ElementOfSeq
<1> DEFINE part == Part(s, lo, hi)
           next == s[hi + 1]
           long == Append(part, next)
<1>6. /\ long \in Seq(S) /\ Len(long) = Len(part) + 1
      /\ \A i \in 1..Len(part) : long[i] = part[i]
      /\ long[Len(part) + 1] = next
  <2>1. part \in Seq(S) /\ next \in S
    BY <1>4, <1>5
  <2> HIDE DEF part, next
  <2> QED
    BY <2>1, AppendProperties
<1> HIDE DEF long
<1>7. Len(long) = hi + 1 - lo
  BY <1>4, <1>6
<1>8. ASSUME NEW i \in 1..hi + 1 - lo PROVE long[i] = Part(s, lo, hi + 1)[i]
  <2>1. CASE i \in 1..hi - lo
    BY <1>4, <1>6, <2>1
  <2>2. CASE i = hi - lo + 1
    <3>1. lo + i = hi + 1
      BY <2>2
    <3> QED
      BY <1>4, <1>6, <2>2, <3>1
  <2> QED
    BY <2>1, <2>2
<1>9. long = Part(s, lo, hi + 1)
  BY <1>4, <1>6, <1>7, <1>8, SeqEqual, ZenonT(60)
<1> QED
  BY <1>9 DEF long

SameHalf(l, a, b) == a \div l = b \div l
Fits(l, a, b) == (b - a) % l = b - a
(* Numbers of one upper half differ by less than a lower half can hold, so *)
(* that the delta between them is kept whole.                              *)
LEMMA DeltaFits ==
  \A l, a, b \in Int : l > 0 /\ 0 <= a /\ a <= b /\ SameHalf(l, a, b) => Fits(l, a, b)
<1> SUFFICES ASSUME NEW l \in Int, NEW a \in Int, NEW b \in Int,
                    l > 0, 0 <= a, a <= b, a \div l = b \div l
             PROVE  (b - a) % l = b - a
  BY DEF SameHalf, Fits
<1>1. b - a < l
  BY SMTT(30)
<1> QED
  BY <1>1, SMTT(30)

GroupsOf(r, g) == (r + g - 1) \div g
Covers(r, g) == r <= g * GroupsOf(r, g)
(* Rounding up to groups leaves nothing out.                               *)
LEMMA GroupsCover == \A r, g \in Int : g > 0 /\ r > 0 => Covers(r, g)
<1> SUFFICES ASSUME NEW r \in Int, NEW g \in Int, g > 0, r > 0
             PROVE  r <= g * ((r + g - 1) \div g)
  BY DEF Covers, GroupsOf
<1> QED
  BY SMTT(30)

-----------------------------------------------------------------------------
(* The codec: what a list of uids, a block and an encoder are.             *)
UidBlocks == [Base : 0..MaxUid, NumUids : Nat, Deltas : Seq(Int)]
Encoders == [uids : Seq(0..MaxUid), blocks : Seq(UidBlocks)]

(* What a list of uids is: of uids, ascending, its indices from 1 to its   *)
(* length.                                                                 *)
LEMMA UidParts ==
  ASSUME NEW uids \in UidLists
  PROVE  /\ uids \in Seq(0..MaxUid) /\ Len(uids) \in Nat /\ DOMAIN uids = 1..Len(uids)
         /\ \A i \in 1..Len(uids) : uids[i] \in 0..MaxUid /\ uids[i] \in Nat
         /\ \A i, j \in 1..Len(uids) : i < j => uids[i] < uids[j]
<1>1. uids \in Seq(0..MaxUid) /\ \A i, j \in DOMAIN uids : i < j => uids[i] < uids[j]
  BY DEF UidLists
<1>2. Len(uids) \in Nat /\ DOMAIN uids = 1..Len(uids)
  BY <1>1, LenProperties
<1>3. \A i \in 1..Len(uids) : uids[i] \in 0..MaxUid
  BY <1>1, ElementOfSeq
<1>4. MaxUid \in Nat
  BY UidCodecAssumption
<1> QED
  BY <1>1, <1>2, <1>3, <1>4

(* packBlock's block of any uids but none is a block.                      *)
LEMMA BlockType ==
  ASSUME NEW uids \in Seq(0..MaxUid), uids # <<>>
  PROVE  BlockOf(uids) \in UidBlocks
<1> DEFINE rest == Len(uids) - 1
           groups == IF rest = 0 THEN 1 ELSE (rest + GroupSize - 1) \div GroupSize
           delta(i) == IF i > rest THEN 0 ELSE (uids[i + 1] - uids[i]) % Low
           m == GroupSize * groups
<1>1. Low \in Nat \ {0} /\ MaxUid \in Nat /\ GroupSize \in Nat \ {0}
  BY UidCodecAssumption
<1>2. Len(uids) \in Nat \ {0}
  BY EmptySeq, LenProperties
<1>3. \A i \in 1..Len(uids) : uids[i] \in Int
  BY <1>1, ElementOfSeq
<1>4. Head(uids) \in 0..MaxUid
  BY HeadTailProperties
<1>5. groups \in Nat
  <2>1. rest \in Nat
    BY <1>2
  <2>2. CASE rest = 0
    BY <2>2
  <2>3. CASE rest # 0
    <3>1. (rest + GroupSize - 1) \in Nat
      BY <1>1, <2>1
    <3>2. \A x \in Nat, g \in Nat \ {0} : x \div g \in Nat
      BY SMTT(30)
    <3> QED
      BY <1>1, <2>3, <3>1, <3>2
  <2> QED
    BY <2>2, <2>3
<1>6. m \in Nat
  <2>1. \A x, y \in Nat : x * y \in Nat
    OBVIOUS
  <2> HIDE DEF groups
  <2> QED
    BY <1>1, <1>5, <2>1
<1>7. ASSUME NEW i \in 1..m PROVE delta(i) \in Int
  <2>1. CASE i > rest
    BY <2>1
  <2>2. CASE ~(i > rest)
    <3>1. i \in 1..Len(uids) /\ i + 1 \in 1..Len(uids)
      <4> HIDE DEF m
      <4> QED
        BY <1>2, <1>6, <2>2
    <3>2. uids[i + 1] - uids[i] \in Int
      BY <1>3, <3>1
    <3>3. \A x \in Int, l \in Nat \ {0} : x % l \in Int
      OBVIOUS
    <3>4. (uids[i + 1] - uids[i]) % Low \in Int
      BY <1>1, <3>2, <3>3
    <3> QED
      BY <2>2, <3>4
  <2> QED
    BY <2>1, <2>2
<1>8. BlockOf(uids) = [Base |-> Head(uids), NumUids |-> Len(uids),
                       Deltas |-> [i \in 1..m |-> delta(i)]]
  BY DEF BlockOf
<1> HIDE DEF m, delta
<1>9. [i \in 1..m |-> delta(i)] \in [1..m -> Int]
  BY <1>7
<1>10. [i \in 1..m |-> delta(i)] \in Seq(Int)
  BY <1>6, <1>9, IsASeq
<1> QED
  BY <1>2, <1>4, <1>8, <1>10 DEF UidBlocks

(* Block b holds the uids behind place lo up to place hi.                  *)
Holds(b, uids, lo, hi) ==
  /\ b.Base = uids[lo + 1] /\ b.NumUids = hi - lo
  /\ \A i \in 1..hi - lo - 1 : b.Deltas[i] = uids[lo + i + 1] - uids[lo + i]
OneHalf(uids, lo, hi) ==
  \A i \in lo + 1..hi, j \in lo + 1..hi : SameHalf(Low, uids[i], uids[j])

(* packBlock's block holds the uids it was made of when they share an      *)
(* upper half: the deltas fit into a lower half and the groups cover them. *)
LEMMA BlockHolds ==
  ASSUME NEW uids \in UidLists, NEW lo \in Nat, NEW hi \in Nat, lo < hi, hi <= Len(uids),
         OneHalf(uids, lo, hi)
  PROVE  Holds(BlockOf(Part(uids, lo, hi)), uids, lo, hi)
<1> DEFINE u == Part(uids, lo, hi)
           rest == Len(u) - 1
           groups == IF rest = 0 THEN 1 ELSE (rest + GroupSize - 1) \div GroupSize
           delta(i) == IF i > rest THEN 0 ELSE (u[i + 1] - u[i]) % Low
           m == GroupSize * groups
<1>1. Low \in Nat \ {0} /\ GroupSize \in Nat \ {0}
  BY UidCodecAssumption
<1>2. /\ uids \in Seq(0..MaxUid) /\ Len(uids) \in Nat
      /\ \A i \in 1..Len(uids) : uids[i] \in Nat
      /\ \A i, j \in 1..Len(uids) : i < j => uids[i] < uids[j]
  BY UidParts
<1>3. IsPart(u, 0..MaxUid, uids, lo, hi)
  BY <1>2, PartIs DEF Within
<1> HIDE DEF u
<1>4. /\ u \in Seq(0..MaxUid) /\ Len(u) = hi - lo /\ u # <<>>
      /\ \A i \in 1..hi - lo : u[i] = uids[lo + i]
  BY <1>3 DEF IsPart
<1>5. Head(u) = uids[lo + 1]
  <2>1. Head(u) = u[1]
    BY <1>4
  <2>2. 1 \in 1..hi - lo
    OBVIOUS
  <2> QED
    BY <1>4, <2>1, <2>2
<1>6. BlockOf(u) = [Base |-> Head(u), NumUids |-> Len(u), Deltas |-> [i \in 1..m |-> delta(i)]]
  BY DEF BlockOf
<1>7. rest \in Nat /\ rest = hi - lo - 1
  BY <1>4
<1>8. ASSUME NEW i \in 1..hi - lo - 1 PROVE i \in 1..m
  <2>1. rest \in Int /\ rest > 0 /\ rest # 0 /\ GroupSize \in Int /\ GroupSize > 0
    <3>1. hi - lo - 1 \in Int /\ hi - lo - 1 > 0
      OBVIOUS
    <3>2. GroupSize \in Int /\ GroupSize > 0
      BY <1>1
    <3> HIDE DEF rest
    <3> QED
      BY <1>7, <3>1, <3>2
  <2>2. Covers(rest, GroupSize)
    <3> HIDE DEF rest
    <3> QED
      BY <2>1, GroupsCover
  <2>3. groups = GroupsOf(rest, GroupSize)
    BY <2>1 DEF GroupsOf
  <2>4. rest <= m
    <3>1. rest <= GroupSize * GroupsOf(rest, GroupSize)
      BY <2>2 DEF Covers
    <3> HIDE DEF rest, groups
    <3> QED
      BY <2>3, <3>1
  <2>5. m \in Int
    <3>1. \A r, g \in Int : g > 0 => r \div g \in Int
      BY SMTT(30)
    <3>2. (rest + GroupSize - 1) \in Int
      BY <2>1
    <3>3. groups \in Int
      BY <2>1, <3>1, <3>2
    <3>4. \A x, y \in Int : x * y \in Int
      OBVIOUS
    <3> HIDE DEF groups
    <3> QED
      BY <1>1, <3>3, <3>4
  <2> HIDE DEF m, rest
  <2> QED
    BY <1>7, <2>4, <2>5
<1>9. ASSUME NEW i \in 1..hi - lo - 1 PROVE delta(i) = uids[lo + i + 1] - uids[lo + i]
  <2>1. i \in 1..hi - lo /\ i + 1 \in 1..hi - lo /\ ~(i > rest)
    BY <1>7
  <2>2. u[i] = uids[lo + i] /\ u[i + 1] = uids[lo + (i + 1)] /\ lo + (i + 1) = lo + i + 1
    BY <1>4, <2>1
  <2>3. PICK a \in Nat, b \in Nat : a = uids[lo + i] /\ b = uids[lo + i + 1] /\ a < b
    <3>1. lo + i \in 1..Len(uids) /\ lo + i + 1 \in 1..Len(uids) /\ lo + i < lo + i + 1
      BY <1>2, <2>1
    <3>2. uids[lo + i] \in Nat /\ uids[lo + i + 1] \in Nat /\ uids[lo + i] < uids[lo + i + 1]
      BY <1>2, <3>1
    <3> QED
      BY <3>2
  <2>4. SameHalf(Low, a, b)
    <3>1. lo + i \in lo + 1..hi /\ lo + i + 1 \in lo + 1..hi
      BY <2>1
    <3> QED
      BY <2>3, <3>1 DEF OneHalf
  <2>5. Fits(Low, a, b)
    <3>1. Low \in Int /\ Low > 0 /\ a \in Int /\ b \in Int /\ 0 <= a /\ a <= b
      BY <1>1, <2>3
    <3> QED
      BY <2>4, <3>1, DeltaFits
  <2>6. (u[i + 1] - u[i]) % Low = b - a
    BY <2>2, <2>3, <2>5 DEF Fits
  <2> QED
    BY <2>1, <2>3, <2>6
<1> HIDE DEF m, delta
<1>10. \A i \in 1..hi - lo - 1 : [j \in 1..m |-> delta(j)][i] = uids[lo + i + 1] - uids[lo + i]
  BY <1>8, <1>9
<1>11. BlockOf(u).Base = uids[lo + 1] /\ BlockOf(u).NumUids = hi - lo
       /\ BlockOf(u).Deltas = [j \in 1..m |-> delta(j)]
  BY <1>4, <1>5, <1>6
<1> QED
  BY <1>10, <1>11 DEF Holds, u

(* packBlock and Add leave an encoder, packBlock one without open uids.    *)
LEMMA EncoderTypes ==
  ASSUME NEW e \in Encoders
  PROVE  /\ PackBlock(e) \in Encoders /\ PackBlock(e).uids = <<>>
         /\ \A uid \in 0..MaxUid, size \in Nat : Add(e, uid, size) \in Encoders
<1>1. \A f \in Encoders : PackBlock(f) \in Encoders /\ PackBlock(f).uids = <<>>
  <2> SUFFICES ASSUME NEW f \in Encoders
               PROVE  PackBlock(f) \in Encoders /\ PackBlock(f).uids = <<>>
    OBVIOUS
  <2>1. f.uids \in Seq(0..MaxUid) /\ f.blocks \in Seq(UidBlocks)
    BY DEF Encoders
  <2>2. CASE f.uids = <<>>
    BY <2>2 DEF PackBlock
  <2>3. CASE f.uids # <<>>
    <3>1. BlockOf(f.uids) \in UidBlocks
      BY <2>1, <2>3, BlockType
    <3>2. Append(f.blocks, BlockOf(f.uids)) \in Seq(UidBlocks)
      BY <2>1, <3>1, AppendProperties
    <3>3. <<>> \in Seq(0..MaxUid)
      BY EmptySeq
    <3>4. PackBlock(f) = [uids |-> <<>>, blocks |-> Append(f.blocks, BlockOf(f.uids))]
      BY <2>3 DEF PackBlock
    <3> QED
      BY <3>2, <3>3, <3>4 DEF Encoders
  <2> QED
    BY <2>2, <2>3
<1>2. ASSUME NEW uid \in 0..MaxUid, NEW size \in Nat PROVE Add(e, uid, size) \in Encoders
  <2> DEFINE f == IF e.uids # <<>> /\ ~Match32MSB(Last(e.uids), uid) THEN PackBlock(e) ELSE e
             g == [uids |-> Append(f.uids, uid), blocks |-> f.blocks]
  <2>1. f \in Encoders
    BY <1>1
  <2> HIDE DEF f
  <2>2. Append(f.uids, uid) \in Seq(0..MaxUid)
    <3>1. f.uids \in Seq(0..MaxUid)
      BY <2>1 DEF Encoders
    <3> QED
      BY <3>1, AppendProperties
  <2>3. g \in Encoders
    BY <2>1, <2>2 DEF Encoders
  <2> HIDE DEF g
  <2>4. Add(e, uid, size) = IF Len(g.uids) >= size THEN PackBlock(g) ELSE g
    BY DEF Add, f, g
  <2> QED
    BY <1>1, <2>3, <2>4
<1> QED
  BY <1>1, <1>2

(* The blocks packed hold the first k uids, block j those from cut[j - 1]  *)
(* to cut[j]; and the encoder those after them.                            *)
Packed(blocks, uids, size, cut, k) ==
  /\ cut \in [0..Len(blocks) -> Nat] /\ cut[0] = 0 /\ cut[Len(blocks)] = k
  /\ \A j \in 1..Len(blocks) : /\ cut[j - 1] < cut[j] /\ cut[j] - cut[j - 1] <= size
                               /\ Holds(blocks[j], uids, cut[j - 1], cut[j])
Open(e, uids, size, cut, m, k) ==
  /\ m <= k /\ k - m <= size /\ k <= Len(uids) /\ Packed(e.blocks, uids, size, cut, m)
  /\ e.uids = Part(uids, m, k) /\ OneHalf(uids, m, k)
Encoding(e, uids, size, k) ==
  \E m \in Nat : \E cut : Open(e, uids, size, cut, m, k) /\ k - m < size
Closed(e, uids, size, k) == e.uids = <<>> /\ \E cut : Packed(e.blocks, uids, size, cut, k)

(* An encoder without open uids is an encoder between two calls of Add.    *)
LEMMA ClosedIsEncoding ==
  ASSUME NEW uids \in UidLists, NEW size \in Nat \ {0}, NEW k \in Nat, k <= Len(uids), NEW e,
         Closed(e, uids, size, k)
  PROVE  Encoding(e, uids, size, k)
<1>1. PICK cut : e.uids = <<>> /\ Packed(e.blocks, uids, size, cut, k)
  BY DEF Closed
<1>2. Part(uids, k, k) = <<>>
  <2>1. IsPart(Part(uids, k, k), 0..MaxUid, uids, k, k)
    <3>1. uids \in Seq(0..MaxUid) /\ Within(uids, k, k)
      BY UidParts DEF Within
    <3> QED
      BY <3>1, PartIs
  <2> QED
    BY <2>1 DEF IsPart
<1>3. OneHalf(uids, k, k)
  BY DEF OneHalf
<1>4. Open(e, uids, size, cut, k, k) /\ k - k < size
  BY <1>1, <1>2, <1>3 DEF Open
<1> QED
  BY <1>4 DEF Encoding

(* packBlock closes the open uids into a block of their own.               *)
LEMMA PackKeeps ==
  ASSUME NEW uids \in UidLists, NEW size \in Nat, NEW e \in Encoders,
         NEW m \in Nat, NEW k \in Nat, NEW cut, Open(e, uids, size, cut, m, k)
  PROVE  Closed(PackBlock(e), uids, size, k)
<1> DEFINE n == Len(e.blocks)
<1>1. /\ m <= k /\ k - m <= size /\ k <= Len(uids)
      /\ cut \in [0..n -> Nat] /\ cut[0] = 0 /\ cut[n] = m
      /\ \A j \in 1..n : /\ cut[j - 1] < cut[j] /\ cut[j] - cut[j - 1] <= size
                         /\ Holds(e.blocks[j], uids, cut[j - 1], cut[j])
      /\ e.uids = Part(uids, m, k) /\ OneHalf(uids, m, k)
  BY DEF Open, Packed
<1>2. e.uids \in Seq(0..MaxUid) /\ e.blocks \in Seq(UidBlocks) /\ n \in Nat
  BY LenProperties DEF Encoders
<1>3. e.uids = <<>> <=> m = k
  <2>1. uids \in Seq(0..MaxUid) /\ Within(uids, m, k)
    BY <1>1, UidParts DEF Within
  <2>2. IsPart(Part(uids, m, k), 0..MaxUid, uids, m, k)
    BY <2>1, PartIs
  <2> QED
    BY <1>1, <2>2 DEF IsPart
<1>4. CASE m = k
  <2>1. PackBlock(e) = e /\ e.uids = <<>>
    BY <1>3, <1>4 DEF PackBlock
  <2>2. Packed(e.blocks, uids, size, cut, k)
    BY <1>4 DEF Open
  <2> QED
    BY <2>1, <2>2 DEF Closed
<1>5. CASE m # k
  <2> DEFINE b == BlockOf(e.uids)
             more == Append(e.blocks, b)
             c == [j \in 0..n + 1 |-> IF j = n + 1 THEN k ELSE cut[j]]
  <2>1. PackBlock(e) = [uids |-> <<>>, blocks |-> more]
    BY <1>3, <1>5 DEF PackBlock
  <2>2. b \in UidBlocks
    BY <1>2, <1>3, <1>5, BlockType
  <2>3. Holds(b, uids, m, k)
    <3>1. m < k
      BY <1>1, <1>5
    <3> QED
      BY <1>1, <3>1, BlockHolds
  <2> HIDE DEF b
  <2>4. /\ Len(more) = n + 1 /\ more[n + 1] = b
        /\ \A j \in 1..n : more[j] = e.blocks[j]
    BY <1>2, <2>2, AppendProperties
  <2> HIDE DEF more
  <2>5. c \in [0..n + 1 -> Nat] /\ c[0] = 0 /\ c[n + 1] = k /\ c[n] = m
    <3>1. \A j \in 0..n + 1 : j # n + 1 => j \in 0..n
      BY <1>2
    <3>2. 0 \in 0..n + 1 /\ 0 # n + 1 /\ n + 1 \in 0..n + 1 /\ n \in 0..n + 1 /\ n # n + 1
      BY <1>2
    <3>3. c \in [0..n + 1 -> Nat]
      BY <1>1, <3>1
    <3> HIDE DEF n
    <3> QED
      BY <1>1, <3>2, <3>3
  <2>6. \A j \in 1..n : c[j] = cut[j] /\ c[j - 1] = cut[j - 1]
    <3> SUFFICES ASSUME NEW j \in 1..n PROVE c[j] = cut[j] /\ c[j - 1] = cut[j - 1]
      OBVIOUS
    <3>1. j \in 0..n + 1 /\ j # n + 1 /\ j - 1 \in 0..n + 1 /\ j - 1 # n + 1
      BY <1>2
    <3> HIDE DEF n
    <3> QED
      BY <3>1
  <2> HIDE DEF c
  <2>7. ASSUME NEW j \in 1..n + 1
        PROVE  /\ c[j - 1] < c[j] /\ c[j] - c[j - 1] <= size
               /\ Holds(more[j], uids, c[j - 1], c[j])
    <3>1. CASE j \in 1..n
      BY <1>1, <2>4, <2>6, <3>1
    <3>2. CASE j = n + 1
      <4>1. j - 1 = n
        BY <1>2, <3>2
      <4>2. c[j] = k /\ c[j - 1] = m /\ more[j] = b
        BY <2>4, <2>5, <3>2, <4>1
      <4>3. m < k
        BY <1>1, <1>5
      <4> QED
        BY <1>1, <2>3, <4>2, <4>3
    <3> QED
      BY <1>2, <3>1, <3>2
  <2>8. Packed(more, uids, size, c, k)
    <3>1. Len(more) = n + 1
      BY <2>4
    <3> HIDE DEF n
    <3> QED
      BY <2>5, <2>7, <3>1 DEF Packed
  <2> QED
    BY <2>1, <2>8 DEF Closed
<1> QED
  BY <1>4, <1>5

(* Add takes the list's next uid: Add(k + 1) keeps what an encoder is      *)
(* between two calls.                                                      *)
LEMMA AddKeeps ==
  ASSUME NEW uids \in UidLists, NEW size \in Nat \ {0}, NEW k \in Nat, k < Len(uids),
         NEW e \in Encoders, Encoding(e, uids, size, k)
  PROVE  Encoding(Add(e, uids[k + 1], size), uids, size, k + 1)
<1> DEFINE uid == uids[k + 1]
           f == IF e.uids # <<>> /\ ~Match32MSB(Last(e.uids), uid) THEN PackBlock(e) ELSE e
           g == [uids |-> Append(f.uids, uid), blocks |-> f.blocks]
<1>1. /\ uids \in Seq(0..MaxUid) /\ Len(uids) \in Nat /\ k + 1 \in Nat /\ k + 1 <= Len(uids)
      /\ k <= Len(uids) /\ uid \in 0..MaxUid
  <2>1. /\ uids \in Seq(0..MaxUid) /\ Len(uids) \in Nat
        /\ \A i \in 1..Len(uids) : uids[i] \in 0..MaxUid
    BY UidParts
  <2>2. k + 1 \in 1..Len(uids)
    BY <2>1
  <2> QED
    BY <2>1, <2>2
<1>2. /\ f \in Encoders /\ Encoding(f, uids, size, k)
      /\ f.uids = <<>> \/ SameHalf(Low, Last(f.uids), uid)
  <2>1. CASE e.uids # <<>> /\ ~Match32MSB(Last(e.uids), uid)
    <3>1. PICK m \in Nat : \E cut : Open(e, uids, size, cut, m, k)
      BY DEF Encoding
    <3>2. PICK cut : Open(e, uids, size, cut, m, k)
      BY <3>1
    <3>3. Closed(PackBlock(e), uids, size, k)
      BY <3>2, PackKeeps
    <3>4. Encoding(PackBlock(e), uids, size, k)
      BY <1>1, <3>3, ClosedIsEncoding
    <3>5. PackBlock(e) \in Encoders /\ PackBlock(e).uids = <<>>
      BY EncoderTypes
    <3> QED
      BY <2>1, <3>4, <3>5
  <2>2. CASE ~(e.uids # <<>> /\ ~Match32MSB(Last(e.uids), uid))
    <3>1. f = e /\ (e.uids = <<>> \/ Match32MSB(Last(e.uids), uid))
      BY <2>2
    <3> HIDE DEF f
    <3> QED
      BY <3>1 DEF Match32MSB, SameHalf
  <2> QED
    BY <2>1, <2>2
<1> HIDE DEF f
<1>3. Add(e, uid, size) = IF Len(g.uids) >= size THEN PackBlock(g) ELSE g
  BY DEF Add, f
<1>4. PICK m \in Nat : \E cut : Open(f, uids, size, cut, m, k) /\ k - m < size
  BY <1>2 DEF Encoding
<1>5. PICK cut : Open(f, uids, size, cut, m, k) /\ k - m < size
  BY <1>4
<1>6. /\ m <= k /\ Packed(f.blocks, uids, size, cut, m)
      /\ f.uids = Part(uids, m, k) /\ OneHalf(uids, m, k)
  BY <1>5 DEF Open
<1>7. Append(f.uids, uid) = Part(uids, m, k + 1)
  BY <1>1, <1>6, PartGrows
<1>8. OneHalf(uids, m, k + 1)
  <2>1. CASE m = k
    <3>1. \A i \in m + 1..k + 1 : i = k + 1
      BY <2>1
    <3> QED
      BY <3>1 DEF OneHalf, SameHalf
  <2>2. CASE m # k
    <3>1. IsPart(Part(uids, m, k), 0..MaxUid, uids, m, k)
      BY <1>1, <1>6, PartIs DEF Within
    <3>2. /\ Len(f.uids) = k - m /\ f.uids # <<>> /\ k - m \in 1..k - m
          /\ \A i \in 1..k - m : f.uids[i] = uids[m + i]
      BY <1>6, <2>2, <3>1 DEF IsPart
    <3>3. Last(f.uids) = uids[k]
      <4>1. m + (k - m) = k
        OBVIOUS
      <4>2. f.uids[k - m] = uids[m + (k - m)]
        BY <3>2
      <4> QED
        BY <3>2, <4>1, <4>2 DEF Last
    <3>4. SameHalf(Low, uids[k], uid)
      BY <1>2, <3>2, <3>3
    <3>5. \A i \in m + 1..k : SameHalf(Low, uids[i], uid)
      <4>1. k \in m + 1..k
        BY <1>6, <2>2
      <4>2. \A i \in m + 1..k : SameHalf(Low, uids[i], uids[k])
        BY <1>6, <4>1 DEF OneHalf
      <4> QED
        BY <3>4, <4>2 DEF SameHalf
    <3>6. \A i \in m + 1..k + 1 : i \in m + 1..k \/ i = k + 1
      OBVIOUS
    <3>7. SameHalf(Low, uid, uid)
      BY DEF SameHalf
    <3>8. \A i \in m + 1..k + 1 : SameHalf(Low, uids[i], uid)
      BY <3>5, <3>6, <3>7
    <3> QED
      BY <3>8 DEF OneHalf, SameHalf
  <2> QED
    BY <2>1, <2>2
<1>9. g \in Encoders /\ g.uids = Part(uids, m, k + 1) /\ g.blocks = f.blocks
  <2>1. Append(f.uids, uid) \in Seq(0..MaxUid)
    <3>1. f.uids \in Seq(0..MaxUid)
      BY <1>2 DEF Encoders
    <3> QED
      BY <1>1, <3>1, AppendProperties
  <2> QED
    BY <1>2, <1>7, <2>1 DEF Encoders
<1> HIDE DEF g
<1>10. Open(g, uids, size, cut, m, k + 1)
  <2>1. m <= k + 1 /\ k + 1 - m <= size
    BY <1>5, <1>6
  <2> QED
    BY <1>1, <1>6, <1>8, <1>9, <2>1 DEF Open
<1>11. CASE Len(g.uids) >= size
  <2>1. Closed(PackBlock(g), uids, size, k + 1)
    BY <1>1, <1>9, <1>10, PackKeeps
  <2>2. Encoding(PackBlock(g), uids, size, k + 1)
    BY <1>1, <2>1, ClosedIsEncoding
  <2> QED
    BY <1>3, <1>11, <2>2
<1>12. CASE ~(Len(g.uids) >= size)
  <2>1. IsPart(Part(uids, m, k + 1), 0..MaxUid, uids, m, k + 1)
    <3>1. Within(uids, m, k + 1)
      BY <1>1, <1>6 DEF Within
    <3> QED
      BY <1>1, <3>1, PartIs
  <2>2. Len(g.uids) = k + 1 - m
    BY <1>9, <2>1 DEF IsPart
  <2>3. k + 1 - m < size
    BY <1>12, <2>2
  <2>4. Encoding(g, uids, size, k + 1)
    BY <1>10, <2>3 DEF Encoding
  <2> QED
    BY <1>3, <1>12, <2>4
<1> QED
  BY <1>11, <1>12

(* Encode is a run of Add over the list, from an empty encoder, and a      *)
(* packBlock at the end.                                                   *)
LEMMA EncodeSteps ==
  ASSUME NEW uids \in UidLists, NEW size \in Nat
  PROVE  \E r \in [0..Len(uids) -> Encoders] :
           /\ r[0] = [uids |-> <<>>, blocks |-> <<>>]
           /\ \A k \in 1..Len(uids) : r[k] = Add(r[k - 1], uids[k], size)
           /\ Encode(uids, size) = PackBlock(r[Len(uids)]).blocks
<1> DEFINE n == Len(uids)
           start == [uids |-> <<>>, blocks |-> <<>>]
           Steps == [k \in 1..n |-> [e \in Encoders |-> Add(e, uids[k], size)]]
           Def(g) == [k \in 0..n |-> IF k = 0 THEN start ELSE Add(g[k - 1], uids[k], size)]
<1>1. n \in Nat /\ \A k \in 1..n : uids[k] \in 0..MaxUid
  BY UidParts
<1>2. start \in Encoders
  <2>1. <<>> \in Seq(0..MaxUid)
    BY EmptySeq
  <2>2. <<>> \in Seq(UidBlocks)
    BY EmptySeq
  <2> QED
    BY <2>1, <2>2 DEF Encoders
<1>3. Steps \in [1..n -> [Encoders -> Encoders]]
  BY <1>1, EncoderTypes
<1> HIDE DEF n, start, Steps
<1>4. PICK r \in [0..n -> Encoders] : Iterates(r, start, Steps, n)
  BY <1>1, <1>2, <1>3, IterationExists
<1>5. r[0] = start /\ \A k \in 1..n : r[k] = Add(r[k - 1], uids[k], size)
  <2>1. \A k \in 1..n : k - 1 \in 0..n
    BY <1>1
  <2>2. \A k \in 1..n, e \in Encoders : Steps[k][e] = Add(e, uids[k], size)
    BY DEF Steps
  <2> QED
    BY <1>4, <2>1, <2>2 DEF Iterates
<1>6. r = Def(r)
  <2> SUFFICES ASSUME NEW k \in 0..n, k # 0 PROVE r[k] = Add(r[k - 1], uids[k], size)
    BY <1>5
  <2>1. k \in 1..n
    BY <1>1
  <2> QED
    BY <1>5, <2>1
<1> DEFINE added == CHOOSE g : g = Def(g)
<1>7. added = Def(added)
  BY <1>6
<1>8. Encode(uids, size) = PackBlock(added[n]).blocks
  BY DEF Encode, n, start
<1> HIDE DEF added
<1>9. added[0] = start /\ \A k \in 1..n : added[k] = Add(added[k - 1], uids[k], size)
  <2>1. \A k \in 0..n : added[k] = IF k = 0 THEN start ELSE Add(added[k - 1], uids[k], size)
    BY <1>7
  <2>2. 0 \in 0..n /\ \A k \in 1..n : k \in 0..n /\ k # 0
    BY <1>1
  <2> QED
    BY <2>1, <2>2
<1>10. added[n] = r[n]
  <2>1. GoAlike(r, added, n)
    BY <1>5, <1>9 DEF GoAlike
  <2>2. Alike(r, added, n)
    BY <1>1, <2>1, SameIterations
  <2>3. n \in 0..n
    BY <1>1
  <2> QED
    BY <2>2, <2>3 DEF Alike
<1> QED
  BY <1>4, <1>5, <1>8, <1>10 DEF n, start

(* Encode's blocks hold the whole list, each at most size of it.           *)
LEMMA EncodeExact ==
  ASSUME NEW uids \in UidLists, NEW size \in Nat \ {0}
  PROVE  /\ Encode(uids, size) \in Seq(UidBlocks)
         /\ \E cut : Packed(Encode(uids, size), uids, size, cut, Len(uids))
<1>1. PICK r \in [0..Len(uids) -> Encoders] :
        /\ r[0] = [uids |-> <<>>, blocks |-> <<>>]
        /\ \A k \in 1..Len(uids) : r[k] = Add(r[k - 1], uids[k], size)
        /\ Encode(uids, size) = PackBlock(r[Len(uids)]).blocks
  BY EncodeSteps
<1>2. Len(uids) \in Nat
  BY UidParts
<1> DEFINE T == {k \in Nat : k <= Len(uids) => Encoding(r[k], uids, size, k)}
<1>3. 0 \in T
  <2>1. Packed(<<>>, uids, size, [j \in 0..0 |-> 0], 0)
    <3>1. Len(<<>>) = 0
      OBVIOUS
    <3> QED
      BY <3>1 DEF Packed
  <2>2. Closed(r[0], uids, size, 0)
    <3>1. r[0].uids = <<>> /\ r[0].blocks = <<>>
      BY <1>1
    <3> QED
      BY <2>1, <3>1 DEF Closed
  <2> QED
    BY <1>2, <2>2, ClosedIsEncoding
<1>4. ASSUME NEW k \in Nat, k \in T PROVE k + 1 \in T
  <2> SUFFICES ASSUME k + 1 <= Len(uids) PROVE Encoding(r[k + 1], uids, size, k + 1)
    OBVIOUS
  <2>1. k < Len(uids) /\ k <= Len(uids) /\ k \in 0..Len(uids) /\ k + 1 \in 1..Len(uids)
        /\ (k + 1) - 1 = k
    BY <1>2
  <2>2. r[k] \in Encoders /\ Encoding(r[k], uids, size, k)
    BY <1>4, <2>1
  <2>3. r[k + 1] = Add(r[k], uids[k + 1], size)
    BY <1>1, <2>1
  <2> QED
    BY <2>1, <2>2, <2>3, AddKeeps
<1>5. Len(uids) \in T
  <2> HIDE DEF T
  <2> QED
    BY <1>2, <1>3, <1>4, EveryNatural
<1> DEFINE e == r[Len(uids)]
<1>6. e \in Encoders /\ Encoding(e, uids, size, Len(uids))
  <2>1. Len(uids) \in 0..Len(uids)
    BY <1>2
  <2> QED
    BY <1>2, <1>5, <2>1
<1> HIDE DEF e
<1>7. PICK m \in Nat : \E cut : Open(e, uids, size, cut, m, Len(uids))
  BY <1>6 DEF Encoding
<1>8. PICK cut : Open(e, uids, size, cut, m, Len(uids))
  BY <1>7
<1>9. Closed(PackBlock(e), uids, size, Len(uids))
  BY <1>2, <1>6, <1>8, PackKeeps
<1>10. PackBlock(e) \in Encoders
  BY <1>6, EncoderTypes
<1>11. Encode(uids, size) = PackBlock(e).blocks
  BY <1>1 DEF e
<1> QED
  BY <1>9, <1>10, <1>11 DEF Closed, Encoders

-----------------------------------------------------------------------------
(* What a pack of the whole list looks like.                               *)
Cuts(pack, uids, cut) ==
  /\ pack \in Seq(UidBlocks) /\ uids \in UidLists
  /\ \E size \in Nat \ {0} : Packed(pack, uids, size, cut, Len(uids))

(* The cuts of a pack ascend from 0 to the length of the list, and block j *)
(* begins at cut j.                                                        *)
LEMMA CutParts ==
  ASSUME NEW pack, NEW uids, NEW cut, Cuts(pack, uids, cut)
  PROVE  /\ Len(pack) \in Nat /\ Len(uids) \in Nat /\ uids \in UidLists
         /\ uids \in Seq(0..MaxUid)
         /\ \A j \in 0..Len(pack) : cut[j] \in Nat /\ cut[j] <= Len(uids)
         /\ cut[0] = 0 /\ cut[Len(pack)] = Len(uids)
         /\ \A i, j \in 0..Len(pack) : i < j => cut[i] < cut[j]
         /\ \A j \in 1..Len(pack) : Holds(pack[j], uids, cut[j - 1], cut[j])
<1> DEFINE n == Len(pack)
<1>1. PICK size \in Nat : Packed(pack, uids, size, cut, Len(uids))
  BY DEF Cuts
<1>2. n \in Nat /\ uids \in UidLists
  BY LenProperties DEF Cuts
<1>3. Len(uids) \in Nat /\ uids \in Seq(0..MaxUid)
  BY <1>2, UidParts
<1>4. /\ cut \in [0..n -> Nat] /\ cut[0] = 0 /\ cut[n] = Len(uids)
      /\ \A j \in 1..n : cut[j - 1] < cut[j] /\ Holds(pack[j], uids, cut[j - 1], cut[j])
  BY <1>1 DEF Packed
<1> HIDE DEF n
<1> DEFINE T == {j \in Nat : j <= n => \A i \in 0..n : i < j => cut[i] < cut[j]}
<1>5. 0 \in T
  OBVIOUS
<1>6. ASSUME NEW j \in Nat, j \in T PROVE j + 1 \in T
  <2> SUFFICES ASSUME j + 1 <= n, NEW i \in 0..n, i < j + 1 PROVE cut[i] < cut[j + 1]
    OBVIOUS
  <2>1. j + 1 \in 1..n /\ (j + 1) - 1 = j /\ j \in 0..n /\ j + 1 \in 0..n /\ j <= n
    BY <1>2
  <2>2. cut[j] < cut[j + 1]
    BY <1>4, <2>1
  <2>3. i = j \/ cut[i] < cut[j]
    BY <1>6, <2>1
  <2>4. cut[i] \in Nat /\ cut[j] \in Nat /\ cut[j + 1] \in Nat
    BY <1>4, <2>1
  <2> QED
    BY <2>2, <2>3, <2>4
<1>7. \A j \in Nat : j \in T
  <2> HIDE DEF T
  <2> QED
    BY <1>5, <1>6, EveryNatural
<1>8. \A i, j \in 0..n : i < j => cut[i] < cut[j]
  BY <1>7
<1>9. \A j \in 0..n : cut[j] \in Nat /\ cut[j] <= Len(uids)
  <2> SUFFICES ASSUME NEW j \in 0..n PROVE cut[j] \in Nat /\ cut[j] <= Len(uids)
    OBVIOUS
  <2>1. n \in 0..n /\ (j = n \/ j < n)
    BY <1>2
  <2>2. cut[j] \in Nat
    BY <1>4
  <2>3. j = n \/ cut[j] < cut[n]
    BY <1>8, <2>1
  <2> QED
    BY <1>3, <1>4, <2>2, <2>3
<1> QED
  BY <1>2, <1>3, <1>4, <1>8, <1>9 DEF n

(* UnpackBlock gives back the uids that went into the block.               *)
LEMMA UnpackExact ==
  ASSUME NEW pack, NEW uids, NEW cut, Cuts(pack, uids, cut), NEW idx \in 0..Len(pack) - 1
  PROVE  Unpack(pack, idx) = Part(uids, cut[idx], cut[idx + 1])
<1> DEFINE b == pack[idx + 1]
           m == b.NumUids
<1>1. PICK lo \in Nat, hi \in Nat : lo = cut[idx] /\ hi = cut[idx + 1] /\ lo < hi /\ hi <= Len(uids)
  <2>1. idx \in 0..Len(pack) /\ idx + 1 \in 0..Len(pack) /\ idx < idx + 1
    BY CutParts
  <2>2. /\ cut[idx] \in Nat /\ cut[idx + 1] \in Nat
        /\ cut[idx] < cut[idx + 1] /\ cut[idx + 1] <= Len(uids)
    BY <2>1, CutParts
  <2> QED
    BY <2>2
<1>2. Holds(b, uids, lo, hi)
  <2>1. idx + 1 \in 1..Len(pack) /\ (idx + 1) - 1 = idx
    BY CutParts
  <2>2. Holds(pack[idx + 1], uids, cut[(idx + 1) - 1], cut[idx + 1])
    BY <2>1, CutParts
  <2> QED
    BY <1>1, <2>1, <2>2
<1>3. /\ b.Base = uids[lo + 1] /\ m = hi - lo
      /\ \A i \in 1..hi - lo - 1 : b.Deltas[i] = uids[lo + i + 1] - uids[lo + i]
  BY <1>2 DEF Holds
<1>4. /\ Len(uids) \in Nat /\ uids \in Seq(0..MaxUid)
      /\ \A i \in 1..Len(uids) : uids[i] \in 0..MaxUid /\ uids[i] \in Nat
  BY CutParts, UidParts
<1> DEFINE Def(g) == [i \in 0..m - 1 |-> IF i = 0 THEN b.Base ELSE g[i - 1] + b.Deltas[i]]
           r == [i \in 0..m - 1 |-> uids[lo + 1 + i]]
           sum == CHOOSE g : g = Def(g)
<1>5. Unpack(pack, idx) = [i \in 1..m |-> sum[i - 1]]
  <2>1. ~(idx >= NumBlocks(pack))
    BY CutParts DEF NumBlocks
  <2> QED
    BY <2>1 DEF Unpack, Block
<1>6. m \in Nat \ {0} /\ m = hi - lo
  BY <1>1, <1>3
<1> HIDE DEF m, b
<1>7. r[0] = b.Base /\ \A i \in 1..m - 1 : r[i] = r[i - 1] + b.Deltas[i]
  <2>1. r[0] = uids[lo + 1 + 0] /\ lo + 1 + 0 = lo + 1
    BY <1>6
  <2>2. ASSUME NEW i \in 1..m - 1 PROVE r[i] = r[i - 1] + b.Deltas[i]
    <3>1. /\ i \in 0..m - 1 /\ i - 1 \in 0..m - 1 /\ i \in 1..hi - lo - 1
          /\ lo + 1 + i = lo + i + 1 /\ lo + 1 + (i - 1) = lo + i
      BY <1>6
    <3>2. r[i] = uids[lo + i + 1] /\ r[i - 1] = uids[lo + i]
      BY <3>1
    <3>3. uids[lo + i + 1] \in Nat /\ uids[lo + i] \in Nat
      <4>1. Len(uids) \in Nat /\ hi <= Len(uids) /\ i \in Nat /\ 1 <= i /\ i <= hi - lo - 1
        BY <1>1, <1>4, <3>1
      <4>2. lo + i \in 1..Len(uids) /\ lo + i + 1 \in 1..Len(uids)
        BY <4>1
      <4> QED
        BY <1>4, <4>2
    <3> HIDE DEF r
    <3> QED
      BY <1>3, <3>1, <3>2, <3>3
  <2> HIDE DEF r
  <2> QED
    BY <1>3, <2>1, <2>2
<1>8. r = Def(r)
  <2> SUFFICES ASSUME NEW i \in 0..m - 1
               PROVE  r[i] = IF i = 0 THEN b.Base ELSE r[i - 1] + b.Deltas[i]
    OBVIOUS
  <2>1. i = 0 \/ i \in 1..m - 1
    BY <1>6
  <2> HIDE DEF r
  <2> QED
    BY <1>7, <2>1
<1>9. sum = Def(sum)
  BY <1>8
<1> HIDE DEF sum
<1>10. \A i \in 0..m - 1 : sum[i] = r[i]
  <2>1. sum[0] = b.Base /\ \A i \in 1..m - 1 : sum[i] = sum[i - 1] + b.Deltas[i]
    <3>1. \A i \in 0..m - 1 : sum[i] = IF i = 0 THEN b.Base ELSE sum[i - 1] + b.Deltas[i]
      BY <1>9
    <3>2. 0 \in 0..m - 1 /\ \A i \in 1..m - 1 : i \in 0..m - 1 /\ i # 0
      BY <1>6
    <3> QED
      BY <3>1, <3>2
  <2> HIDE DEF r
  <2>2. GoAlike(r, sum, m - 1)
    BY <1>7, <2>1 DEF GoAlike
  <2>3. m - 1 \in Nat
    BY <1>6
  <2>4. Alike(r, sum, m - 1)
    BY <2>2, <2>3, SameIterations
  <2> QED
    BY <2>4 DEF Alike
<1> DEFINE u == [i \in 1..m |-> sum[i - 1]]
<1>11. ASSUME NEW i \in 1..m PROVE u[i] = uids[lo + i]
  <2>1. i - 1 \in 0..m - 1 /\ lo + 1 + (i - 1) = lo + i
    BY <1>6
  <2>2. sum[i - 1] = uids[lo + i]
    BY <1>10, <2>1
  <2> QED
    BY <2>2
<1>12. u \in Seq(0..MaxUid) /\ Len(u) = hi - lo
  <2>1. ASSUME NEW i \in 1..m PROVE u[i] \in 0..MaxUid
    <3>1. lo + i \in 1..Len(uids)
      BY <1>1, <1>4, <1>6, SMTT(30)
    <3> HIDE DEF u
    <3> QED
      BY <1>4, <1>11, <3>1
  <2>2. u \in [1..m -> 0..MaxUid]
    BY <2>1
  <2> QED
    BY <1>6, <2>2, IsASeq, LenProperties
<1>13. /\ Part(uids, lo, hi) \in Seq(0..MaxUid) /\ Len(Part(uids, lo, hi)) = hi - lo
       /\ \A i \in 1..hi - lo : Part(uids, lo, hi)[i] = uids[lo + i]
  <2>1. IsPart(Part(uids, lo, hi), 0..MaxUid, uids, lo, hi)
    BY <1>1, <1>4, PartIs DEF Within
  <2> QED
    BY <2>1 DEF IsPart
<1> HIDE DEF u
<1>14. \A i \in 1..Len(u) : u[i] = Part(uids, lo, hi)[i]
  BY <1>6, <1>11, <1>12, <1>13
<1>15. u = Part(uids, lo, hi)
  BY <1>12, <1>13, <1>14, SeqEqual
<1> QED
  BY <1>1, <1>5, <1>15 DEF u

(* A part of a part is a part of the list.                                 *)
LEMMA PartOfPart ==
  ASSUME NEW S, NEW s \in Seq(S), NEW lo \in Nat, NEW mid \in Nat, NEW hi \in Nat,
         lo <= mid, mid <= hi, hi <= Len(s)
  PROVE  Part(Part(s, lo, hi), mid - lo, hi - lo) = Part(s, mid, hi)
<1> DEFINE u == Part(s, lo, hi)
           v == Part(u, mid - lo, hi - lo)
           w == Part(s, mid, hi)
<1>1. /\ u \in Seq(S) /\ Len(u) = hi - lo /\ \A i \in 1..hi - lo : u[i] = s[lo + i]
      /\ w \in Seq(S) /\ Len(w) = hi - mid /\ \A i \in 1..hi - mid : w[i] = s[mid + i]
  <2>1. Within(s, lo, hi) /\ Within(s, mid, hi)
    BY DEF Within
  <2>2. IsPart(u, S, s, lo, hi) /\ IsPart(w, S, s, mid, hi)
    BY <2>1, PartIs
  <2> QED
    BY <2>2 DEF IsPart
<1> HIDE DEF u, w
<1>2. /\ v \in Seq(S) /\ Len(v) = (hi - lo) - (mid - lo)
      /\ \A i \in 1..(hi - lo) - (mid - lo) : v[i] = u[(mid - lo) + i]
  <2>1. mid - lo \in Nat /\ hi - lo \in Nat /\ Within(u, mid - lo, hi - lo)
    BY <1>1 DEF Within
  <2>2. IsPart(v, S, u, mid - lo, hi - lo)
    BY <1>1, <2>1, PartIs
  <2> QED
    BY <2>2 DEF IsPart
<1> HIDE DEF v
<1>3. (hi - lo) - (mid - lo) = hi - mid
  OBVIOUS
<1>4. ASSUME NEW i \in 1..hi - mid PROVE v[i] = w[i]
  <2>1. (mid - lo) + i \in 1..hi - lo /\ lo + ((mid - lo) + i) = mid + i
    OBVIOUS
  <2>2. v[i] = u[(mid - lo) + i]
    BY <1>2, <1>3
  <2>3. u[(mid - lo) + i] = s[lo + ((mid - lo) + i)]
    BY <1>1, <2>1
  <2> QED
    BY <1>1, <2>1, <2>2, <2>3
<1>5. v = w
  BY <1>1, <1>2, <1>3, <1>4, SeqEqual
<1> QED
  BY <1>5 DEF u, v, w

-----------------------------------------------------------------------------
(* A decoder that has k uids behind it.                                    *)
Decoders == [blockIdx : Nat, uids : Seq(0..MaxUid)]
InBlock(d, uids, cut, n, k) ==
  /\ d.blockIdx \in 0..n - 1 /\ cut[d.blockIdx] <= k /\ k < cut[d.blockIdx + 1]
  /\ d.uids = Part(uids, k, cut[d.blockIdx + 1])
AtEnd(d, uids, n, k) == d.blockIdx = n /\ k = Len(uids) /\ d.uids = <<>>
Reading(d, uids, cut, n, k) == InBlock(d, uids, cut, n, k) \/ AtEnd(d, uids, n, k)

(* A decoder unpacked at a block has the uids before that block behind it. *)
LEMMA AtReads ==
  ASSUME NEW pack, NEW uids, NEW cut, Cuts(pack, uids, cut), NEW idx \in Nat
  PROVE  /\ At(pack, idx) \in Decoders /\ At(pack, idx).blockIdx = idx
         /\ idx <= Len(pack) => Reading(At(pack, idx), uids, cut, Len(pack), cut[idx])
<1> DEFINE n == Len(pack)
<1>1. n \in Nat /\ Len(uids) \in Nat /\ uids \in Seq(0..MaxUid) /\ cut[n] = Len(uids)
  BY CutParts
<1>2. At(pack, idx) = [blockIdx |-> idx, uids |-> Unpack(pack, idx)]
  BY DEF At
<1>3. CASE idx < n
  <2>1. idx \in 0..Len(pack) - 1 /\ idx \in 0..Len(pack) /\ idx + 1 \in 0..Len(pack)
    BY <1>1, <1>3
  <2>2. Unpack(pack, idx) = Part(uids, cut[idx], cut[idx + 1])
    BY <2>1, UnpackExact
  <2>3. /\ cut[idx] \in Nat /\ cut[idx + 1] \in Nat /\ cut[idx] < cut[idx + 1]
        /\ cut[idx + 1] <= Len(uids)
    BY <2>1, CutParts
  <2>4. Part(uids, cut[idx], cut[idx + 1]) \in Seq(0..MaxUid)
    <3>1. Within(uids, cut[idx], cut[idx + 1])
      BY <2>3 DEF Within
    <3>2. IsPart(Part(uids, cut[idx], cut[idx + 1]), 0..MaxUid, uids, cut[idx], cut[idx + 1])
      BY <1>1, <2>3, <3>1, PartIs
    <3> QED
      BY <3>2 DEF IsPart
  <2>5. At(pack, idx) \in Decoders
    BY <1>2, <2>2, <2>4 DEF Decoders
  <2>6. At(pack, idx).blockIdx = idx /\ At(pack, idx).uids = Part(uids, cut[idx], cut[idx + 1])
    BY <1>2, <2>2
  <2>7. InBlock(At(pack, idx), uids, cut, n, cut[idx])
    BY <2>1, <2>3, <2>6 DEF InBlock
  <2> QED
    BY <2>5, <2>6, <2>7 DEF Reading
<1>4. CASE ~(idx < n)
  <2>1. Unpack(pack, idx) = <<>>
    <3>1. idx >= NumBlocks(pack)
      BY <1>1, <1>4 DEF NumBlocks
    <3> QED
      BY <3>1 DEF Unpack
  <2>2. <<>> \in Seq(0..MaxUid)
    BY EmptySeq
  <2>3. At(pack, idx) \in Decoders
    BY <1>2, <2>1, <2>2 DEF Decoders
  <2>4. At(pack, idx).blockIdx = idx /\ At(pack, idx).uids = <<>>
    BY <1>2, <2>1
  <2>5. idx <= n => idx = n
    BY <1>1, <1>4
  <2>6. idx <= n => AtEnd(At(pack, idx), uids, n, cut[idx])
    BY <1>1, <2>4, <2>5 DEF AtEnd
  <2> QED
    BY <2>3, <2>4, <2>6 DEF Reading
<1> QED
  BY <1>3, <1>4

(* Decode's loop: what is left from k on.                                  *)
Drains == [d : Decoders, out : Seq(0..MaxUid)]
DrainTo(r, uids, cut, n, from, k, m) ==
  /\ from <= m /\ m <= Len(uids) /\ k <= r.d.blockIdx
  /\ Reading(r.d, uids, cut, n, m) /\ r.out = Part(uids, from, m)
Drain(r, uids, cut, n, from, k) == \E m \in Nat : DrainTo(r, uids, cut, n, from, k, m)

(* A round of Decode's loop leaves a decoder and uids.                     *)
LEMMA RoundType ==
  ASSUME NEW pack, NEW uids, NEW cut, Cuts(pack, uids, cut), NEW r \in Drains
  PROVE  /\ DecodeRound(pack, r) \in Drains
         /\ r.d.uids = <<>> => DecodeRound(pack, r) = r
         /\ r.d.uids # <<>> => /\ DecodeRound(pack, r).d = At(pack, r.d.blockIdx + 1)
                               /\ DecodeRound(pack, r).out = r.out \o r.d.uids
<1>1. r.d \in Decoders /\ r.out \in Seq(0..MaxUid)
  BY DEF Drains
<1>2. r.d.blockIdx \in Nat /\ r.d.uids \in Seq(0..MaxUid)
  BY <1>1 DEF Decoders
<1>3. CASE r.d.uids = <<>>
  BY <1>3 DEF DecodeRound
<1>4. CASE r.d.uids # <<>>
  <2>1. DecodeRound(pack, r) = [d |-> At(pack, r.d.blockIdx + 1), out |-> r.out \o r.d.uids]
    BY <1>4 DEF DecodeRound, Advance
  <2>2. r.d.blockIdx + 1 \in Nat
    BY <1>2
  <2>3. At(pack, r.d.blockIdx + 1) \in Decoders
    BY <2>2, AtReads
  <2>4. r.out \o r.d.uids \in Seq(0..MaxUid)
    BY <1>1, <1>2, ConcatProperties
  <2>5. DecodeRound(pack, r) \in Drains
    BY <2>1, <2>3, <2>4 DEF Drains
  <2>6. /\ DecodeRound(pack, r).d = At(pack, r.d.blockIdx + 1)
        /\ DecodeRound(pack, r).out = r.out \o r.d.uids
    <3> DEFINE x == At(pack, r.d.blockIdx + 1)
               y == r.out \o r.d.uids
    <3>1. DecodeRound(pack, r) = [d |-> x, out |-> y]
      BY <2>1
    <3> HIDE DEF x, y
    <3>2. DecodeRound(pack, r).d = x /\ DecodeRound(pack, r).out = y
      BY <3>1
    <3> QED
      BY <3>2 DEF x, y
  <2> QED
    BY <1>4, <2>5, <2>6
<1> QED
  BY <1>3, <1>4

(* A round of Decode's loop appends the uids of one block and goes to the  *)
(* next.                                                                   *)
LEMMA RoundDrains ==
  ASSUME NEW pack, NEW uids, NEW cut, Cuts(pack, uids, cut), NEW r \in Drains,
         NEW from \in Nat, NEW k \in Nat, k < Len(pack), Drain(r, uids, cut, Len(pack), from, k)
  PROVE  Drain(DecodeRound(pack, r), uids, cut, Len(pack), from, k + 1)
<1> DEFINE n == Len(pack)
           q == DecodeRound(pack, r)
<1>1. n \in Nat /\ Len(uids) \in Nat /\ uids \in Seq(0..MaxUid)
  BY CutParts
<1>2. PICK m \in Nat : DrainTo(r, uids, cut, n, from, k, m)
  BY DEF Drain
<1>3. /\ from <= m /\ m <= Len(uids) /\ k <= r.d.blockIdx
      /\ Reading(r.d, uids, cut, n, m) /\ r.out = Part(uids, from, m)
  BY <1>2 DEF DrainTo
<1>4. CASE AtEnd(r.d, uids, n, m)
  <2>1. r.d.uids = <<>> /\ r.d.blockIdx = n
    BY <1>4 DEF AtEnd
  <2>2. q = r
    BY <2>1, RoundType
  <2>3. k + 1 <= r.d.blockIdx
    BY <1>1, <2>1
  <2> HIDE DEF q
  <2>4. DrainTo(q, uids, cut, n, from, k + 1, m)
    BY <1>3, <2>2, <2>3 DEF DrainTo
  <2> HIDE DEF n
  <2>5. Drain(q, uids, cut, n, from, k + 1)
    BY <2>4 DEF Drain
  <2> QED
    BY <2>5 DEF q, n
<1>5. CASE InBlock(r.d, uids, cut, n, m)
  <2> DEFINE idx == r.d.blockIdx
  <2>1. /\ idx \in 0..n - 1 /\ cut[idx] <= m /\ m < cut[idx + 1]
        /\ r.d.uids = Part(uids, m, cut[idx + 1])
    BY <1>5 DEF InBlock
  <2> HIDE DEF idx
  <2>2. idx \in Nat /\ idx + 1 \in 0..n /\ idx + 1 \in Nat /\ idx + 1 <= n
    BY <1>1, <2>1
  <2>3. PICK hi \in Nat : hi = cut[idx + 1] /\ hi <= Len(uids) /\ m < hi
    BY <2>1, <2>2, CutParts
  <2>4. r.d.uids # <<>>
    <3>1. Within(uids, m, hi)
      BY <2>3 DEF Within
    <3>2. IsPart(Part(uids, m, hi), 0..MaxUid, uids, m, hi)
      BY <1>1, <3>1, PartIs
    <3>3. Part(uids, m, hi) = <<>> <=> m = hi
      BY <3>2 DEF IsPart
    <3> QED
      BY <2>1, <2>3, <3>3
  <2>5. q.d = At(pack, idx + 1) /\ q.out = r.out \o r.d.uids
    BY <2>4, RoundType DEF idx
  <2>6. q.d.blockIdx = idx + 1 /\ Reading(q.d, uids, cut, n, hi)
    BY <2>2, <2>3, <2>5, AtReads
  <2>7. q.out = Part(uids, from, hi)
    <3>1. Part(uids, from, m) \o Part(uids, m, hi) = Part(uids, from, hi)
      <4>1. from <= m /\ m <= hi /\ hi <= Len(uids)
        BY <1>3, <2>3
      <4> QED
        BY <1>1, <4>1, PartsMeet
    <3> QED
      BY <1>3, <2>1, <2>3, <2>5, <3>1
  <2> HIDE DEF q
  <2>8. from <= hi /\ k + 1 <= q.d.blockIdx
    <3>1. k <= idx
      BY <1>3 DEF idx
    <3> QED
      BY <1>3, <2>2, <2>3, <2>6, <3>1
  <2>9. DrainTo(q, uids, cut, n, from, k + 1, hi)
    BY <2>3, <2>6, <2>7, <2>8 DEF DrainTo
  <2> HIDE DEF n
  <2>10. Drain(q, uids, cut, n, from, k + 1)
    BY <2>9 DEF Drain
  <2> QED
    BY <2>10 DEF q, n
<1> QED
  BY <1>3, <1>4, <1>5 DEF Reading

(* Decode's loop is a run of rounds, no more of them than the pack has     *)
(* blocks.                                                                 *)
LEMMA DrainSteps ==
  ASSUME NEW pack, NEW uids, NEW cut, Cuts(pack, uids, cut), NEW d \in Decoders
  PROVE  \E r \in [0..Len(pack) -> Drains] :
           /\ r[0] = [d |-> d, out |-> <<>>]
           /\ \A k \in 1..Len(pack) : r[k] = DecodeRound(pack, r[k - 1])
           /\ Drained(pack, d) = r[Len(pack)].out
<1> DEFINE n == Len(pack)
           start == [d |-> d, out |-> <<>>]
           Steps == [k \in 1..n |-> [x \in Drains |-> DecodeRound(pack, x)]]
           Def(g) == [k \in 0..n |-> IF k = 0 THEN start ELSE DecodeRound(pack, g[k - 1])]
<1>1. n \in Nat
  BY CutParts
<1>2. start \in Drains
  <2>1. <<>> \in Seq(0..MaxUid)
    BY EmptySeq
  <2> QED
    BY <2>1 DEF Drains
<1>3. Steps \in [1..n -> [Drains -> Drains]]
  BY RoundType
<1> HIDE DEF n, start, Steps
<1>4. PICK r \in [0..n -> Drains] : Iterates(r, start, Steps, n)
  BY <1>1, <1>2, <1>3, IterationExists
<1>5. r[0] = start /\ \A k \in 1..n : r[k] = DecodeRound(pack, r[k - 1])
  <2>1. \A k \in 1..n : k - 1 \in 0..n
    BY <1>1
  <2>2. \A k \in 1..n, x \in Drains : Steps[k][x] = DecodeRound(pack, x)
    BY DEF Steps
  <2> QED
    BY <1>4, <2>1, <2>2 DEF Iterates
<1>6. r = Def(r)
  <2> SUFFICES ASSUME NEW k \in 0..n, k # 0 PROVE r[k] = DecodeRound(pack, r[k - 1])
    BY <1>5
  <2>1. k \in 1..n
    BY <1>1
  <2> QED
    BY <1>5, <2>1
<1> DEFINE rounds == CHOOSE g : g = Def(g)
<1>7. rounds = Def(rounds)
  BY <1>6
<1>8. Drained(pack, d) = rounds[n].out
  BY DEF Drained, NumBlocks, n, start
<1> HIDE DEF rounds
<1>9. rounds[0] = start /\ \A k \in 1..n : rounds[k] = DecodeRound(pack, rounds[k - 1])
  <2>1. \A k \in 0..n : rounds[k] = IF k = 0 THEN start ELSE DecodeRound(pack, rounds[k - 1])
    BY <1>7
  <2>2. 0 \in 0..n /\ \A k \in 1..n : k \in 0..n /\ k # 0
    BY <1>1
  <2> QED
    BY <2>1, <2>2
<1>10. rounds[n] = r[n]
  <2>1. GoAlike(r, rounds, n)
    BY <1>5, <1>9 DEF GoAlike
  <2>2. Alike(r, rounds, n)
    BY <1>1, <2>1, SameIterations
  <2>3. n \in 0..n
    BY <1>1
  <2> QED
    BY <2>2, <2>3 DEF Alike
<1> QED
  BY <1>4, <1>5, <1>8, <1>10 DEF n, start

(* A decoder with k uids behind it drains exactly the others.              *)
LEMMA DrainExact ==
  ASSUME NEW pack, NEW uids, NEW cut, Cuts(pack, uids, cut), NEW d \in Decoders,
         NEW from \in Nat, from <= Len(uids), Reading(d, uids, cut, Len(pack), from)
  PROVE  Drained(pack, d) = Part(uids, from, Len(uids))
<1> DEFINE n == Len(pack)
<1>1. n \in Nat /\ Len(uids) \in Nat /\ uids \in Seq(0..MaxUid)
  BY CutParts
<1>2. PICK r \in [0..n -> Drains] : /\ r[0] = [d |-> d, out |-> <<>>]
                                    /\ \A k \in 1..n : r[k] = DecodeRound(pack, r[k - 1])
                                    /\ Drained(pack, d) = r[n].out
  BY DrainSteps
<1> DEFINE T == {k \in Nat : k <= n => Drain(r[k], uids, cut, n, from, k)}
<1>3. 0 \in T
  <2>1. r[0].d = d /\ r[0].out = <<>>
    BY <1>2
  <2>2. Part(uids, from, from) = <<>>
    <3>1. Within(uids, from, from)
      BY DEF Within
    <3>2. IsPart(Part(uids, from, from), 0..MaxUid, uids, from, from)
      BY <1>1, <3>1, PartIs
    <3> QED
      BY <3>2 DEF IsPart
  <2>3. 0 <= d.blockIdx
    BY DEF Decoders
  <2>4. DrainTo(r[0], uids, cut, n, from, 0, from)
    BY <2>1, <2>2, <2>3 DEF DrainTo
  <2>5. Drain(r[0], uids, cut, n, from, 0)
    <3> HIDE DEF n
    <3> QED
      BY <2>4 DEF Drain
  <2> QED
    BY <2>5
<1>4. ASSUME NEW k \in Nat, k \in T PROVE k + 1 \in T
  <2> SUFFICES ASSUME k + 1 <= n PROVE Drain(r[k + 1], uids, cut, n, from, k + 1)
    OBVIOUS
  <2>1. k < n /\ k <= n /\ k \in 0..n /\ k + 1 \in 1..n /\ (k + 1) - 1 = k
    BY <1>1
  <2>2. r[k] \in Drains /\ Drain(r[k], uids, cut, n, from, k) /\ r[k + 1] = DecodeRound(pack, r[k])
    BY <1>2, <1>4, <2>1
  <2> QED
    BY <2>1, <2>2, RoundDrains
<1>5. n \in T
  <2> HIDE DEF T, n
  <2> QED
    BY <1>1, <1>3, <1>4, EveryNatural
<1>6. PICK m \in Nat : DrainTo(r[n], uids, cut, n, from, n, m)
  BY <1>1, <1>5 DEF Drain
<1>7. n <= r[n].d.blockIdx /\ Reading(r[n].d, uids, cut, n, m) /\ r[n].out = Part(uids, from, m)
  BY <1>6 DEF DrainTo
<1>8. ~InBlock(r[n].d, uids, cut, n, m)
  BY <1>1, <1>7 DEF InBlock
<1>9. m = Len(uids)
  BY <1>7, <1>8 DEF Reading, AtEnd
<1> QED
  BY <1>2, <1>7, <1>9

(* sort.Search finds the first hit.                                        *)
LEMMA SearchFinds ==
  ASSUME NEW n \in Nat, NEW hits, hits \subseteq 0..n - 1
  PROVE  /\ Search(n, hits) \in Nat /\ Search(n, hits) <= n
         /\ Search(n, hits) \in hits \/ Search(n, hits) = n
         /\ \A j \in hits : Search(n, hits) <= j
<1> DEFINE all == hits \cup {n}
<1>1. all \subseteq Nat /\ all # {}
  OBVIOUS
<1>2. \E x \in all : \A y \in all : x <= y
  <2> HIDE DEF all
  <2> QED
    BY <1>1, LeastNatural
<1>3. \E x \in all : \A y \in hits : x <= y
  BY <1>2
<1>4. Search(n, hits) = CHOOSE i \in all : \A j \in hits : i <= j
  BY DEF Search
<1>5. \A x \in all : x \in Nat /\ x <= n /\ (x \in hits \/ x = n)
  OBVIOUS
<1> HIDE DEF all
<1>6. Search(n, hits) \in all /\ \A j \in hits : Search(n, hits) <= j
  BY <1>3, <1>4
<1> QED
  BY <1>5, <1>6

(* The uids beyond one are those behind the place where they begin.        *)
Begins(uids, uid, whence, k) ==
  /\ k < Len(uids) => Beyond(uids[k + 1], uid, whence)
  /\ k > 0 => ~Beyond(uids[k], uid, whence)
AllBeyond(uids, uid, whence, k) ==
  \A i \in 1..Len(uids) : Beyond(uids[i], uid, whence) <=> i > k

(* In an ascending list the uids beyond one are those behind one place.    *)
LEMMA BeginsAll ==
  ASSUME NEW uids \in UidLists, NEW uid \in Nat, NEW whence, NEW k \in Nat, k <= Len(uids),
         Begins(uids, uid, whence, k)
  PROVE  AllBeyond(uids, uid, whence, k)
<1>1. /\ Len(uids) \in Nat /\ \A i \in 1..Len(uids) : uids[i] \in Nat
      /\ \A i, j \in 1..Len(uids) : i < j => uids[i] < uids[j]
  BY UidParts
<1>2. \A v, w \in Nat : v < w /\ Beyond(v, uid, whence) => Beyond(w, uid, whence)
  BY DEF Beyond
<1> SUFFICES ASSUME NEW i \in 1..Len(uids) PROVE Beyond(uids[i], uid, whence) <=> i > k
  BY DEF AllBeyond
<1>3. CASE i > k
  <2>1. k < Len(uids) /\ k + 1 \in 1..Len(uids) /\ (i = k + 1 \/ k + 1 < i)
    BY <1>1, <1>3
  <2>2. Beyond(uids[k + 1], uid, whence)
    BY <2>1 DEF Begins
  <2>3. CASE i = k + 1
    BY <1>3, <2>2, <2>3
  <2>4. CASE k + 1 < i
    <3>1. uids[k + 1] < uids[i] /\ uids[k + 1] \in Nat /\ uids[i] \in Nat
      BY <1>1, <2>1, <2>4
    <3>2. Beyond(uids[i], uid, whence)
      BY <1>2, <2>2, <3>1
    <3> QED
      BY <1>3, <3>2
  <2> QED
    BY <2>1, <2>3, <2>4
<1>4. CASE ~(i > k)
  <2>1. k > 0 /\ k \in 1..Len(uids) /\ (i = k \/ i < k)
    BY <1>1, <1>4
  <2>2. ~Beyond(uids[k], uid, whence)
    BY <2>1 DEF Begins
  <2>3. CASE i = k
    BY <1>4, <2>2, <2>3
  <2>4. CASE i < k
    <3>1. uids[i] < uids[k] /\ uids[k] \in Nat /\ uids[i] \in Nat
      BY <1>1, <2>1, <2>4
    <3>2. ~Beyond(uids[i], uid, whence)
      BY <1>2, <2>2, <3>1
    <3> QED
      BY <1>4, <3>2
  <2> QED
    BY <2>1, <2>3, <2>4
<1> QED
  BY <1>3, <1>4

(* The base of a block is the first uid behind its cut.                    *)
LEMMA BaseOfBlock ==
  ASSUME NEW pack, NEW uids, NEW cut, Cuts(pack, uids, cut), NEW i \in 0..Len(pack) - 1
  PROVE  /\ Block(pack, i).Base = uids[cut[i] + 1] /\ cut[i] \in Nat
         /\ cut[i] + 1 \in 1..Len(uids) /\ cut[i] < Len(uids)
<1>1. i \in 0..Len(pack) /\ i + 1 \in 0..Len(pack) /\ i + 1 \in 1..Len(pack) /\ (i + 1) - 1 = i
  BY CutParts
<1>2. Holds(pack[i + 1], uids, cut[(i + 1) - 1], cut[i + 1])
  BY <1>1, CutParts
<1>3. pack[i + 1].Base = uids[cut[i] + 1]
  BY <1>1, <1>2 DEF Holds
<1>4. /\ cut[i] \in Nat /\ cut[i + 1] \in Nat /\ cut[i] < cut[i + 1] /\ cut[i + 1] <= Len(uids)
      /\ Len(uids) \in Nat
  BY <1>1, CutParts
<1> QED
  BY <1>3, <1>4 DEF Block

(* Where Seek leaves the decoder.                                          *)
Found(d, pack, uids, cut, uid, whence, k) ==
  /\ d \in Decoders /\ k <= Len(uids) /\ Reading(d, uids, cut, Len(pack), k)
  /\ Begins(uids, uid, whence, k)

(* When every uid of the list is beyond the one sought, the first block is *)
(* where they begin.                                                       *)
LEMMA SeekAtFirst ==
  ASSUME NEW pack, NEW uids, NEW cut, Cuts(pack, uids, cut), NEW uid \in Nat, NEW whence,
         Len(uids) > 0 => Beyond(uids[1], uid, whence)
  PROVE  Found(At(pack, 0), pack, uids, cut, uid, whence, 0)
<1>1. Len(pack) \in Nat /\ Len(uids) \in Nat /\ cut[0] = 0
  BY CutParts
<1>2. At(pack, 0) \in Decoders /\ Reading(At(pack, 0), uids, cut, Len(pack), cut[0])
  BY <1>1, AtReads
<1>3. Begins(uids, uid, whence, 0)
  <2>1. 0 + 1 = 1
    OBVIOUS
  <2> QED
    BY <2>1 DEF Begins
<1> QED
  BY <1>1, <1>2, <1>3 DEF Found

(* Seek leaves the decoder where the uids sought begin.                    *)
LEMMA SeekFinds ==
  ASSUME NEW pack, NEW uids, NEW cut, Cuts(pack, uids, cut), NEW uid \in Nat,
         NEW whence \in {SeekStart, SeekCurrent}, uid # 0 \/ whence = SeekStart
  PROVE  \E k \in Nat : Found(Seek(pack, uid, whence), pack, uids, cut, uid, whence, k)
<1> DEFINE n == Len(pack)
           hits == {i \in 0..n - 1 : Beyond(Block(pack, i).Base, uid, whence)}
           idx == Search(n, hits)
           u == Unpack(pack, idx - 1)
           inner == {i \in 0..Len(u) - 1 : Beyond(u[i + 1], uid, whence)}
           uidx == Search(Len(u), inner)
           d == Seek(pack, uid, whence)
<1>1. /\ n \in Nat /\ Len(uids) \in Nat /\ uids \in Seq(0..MaxUid) /\ uids \in UidLists
      /\ cut[0] = 0 /\ cut[n] = Len(uids)
      /\ \A i \in 1..Len(uids) : uids[i] \in Nat
      /\ \A i, j \in 1..Len(uids) : i < j => uids[i] < uids[j]
  BY CutParts, UidParts
<1>2. d = IF uid = 0 \/ idx = 0 THEN At(pack, 0)
          ELSE IF idx < n /\ Block(pack, idx).Base = uid THEN At(pack, idx)
          ELSE IF uidx < Len(u)
          THEN [blockIdx |-> idx - 1, uids |-> SubSeq(u, uidx + 1, Len(u))]
          ELSE At(pack, idx)
  BY DEF Seek, NumBlocks
<1>3. /\ idx \in Nat /\ idx <= n /\ (idx \in hits \/ idx = n) /\ \A j \in hits : idx <= j
  <2>1. hits \subseteq 0..n - 1
    OBVIOUS
  <2> HIDE DEF hits
  <2> QED
    BY <1>1, <2>1, SearchFinds
<1> HIDE DEF d, idx
<1>4. idx < n => Beyond(uids[cut[idx] + 1], uid, whence)
  <2> SUFFICES ASSUME idx < n PROVE Beyond(uids[cut[idx] + 1], uid, whence)
    OBVIOUS
  <2>1. idx \in hits /\ idx \in 0..n - 1
    BY <1>1, <1>3
  <2>2. Beyond(Block(pack, idx).Base, uid, whence)
    BY <2>1
  <2>3. Block(pack, idx).Base = uids[cut[idx] + 1]
    BY <2>1, BaseOfBlock
  <2> QED
    BY <2>2, <2>3, Zenon
<1>5. \A i \in 0..n - 1 : i < idx => ~Beyond(uids[cut[i] + 1], uid, whence)
  <2> SUFFICES ASSUME NEW i \in 0..n - 1, i < idx, Beyond(uids[cut[i] + 1], uid, whence) PROVE FALSE
    OBVIOUS
  <2>1. i \in hits
    BY BaseOfBlock
  <2> HIDE DEF hits
  <2>2. idx <= i
    BY <1>3, <2>1
  <2> QED
    BY <1>1, <1>3, <2>2
<1> HIDE DEF hits
<1>6. CASE uid = 0
  <2>1. whence = SeekStart
    BY <1>6
  <2>2. Len(uids) > 0 => Beyond(uids[1], uid, whence)
    <3>1. Len(uids) > 0 => 1 \in 1..Len(uids)
      BY <1>1
    <3>2. Len(uids) > 0 => uids[1] \in Nat
      BY <1>1, <3>1
    <3> QED
      BY <1>6, <2>1, <3>2 DEF Beyond
  <2>3. Found(At(pack, 0), pack, uids, cut, uid, whence, 0)
    BY <2>2, SeekAtFirst
  <2> QED
    BY <1>2, <1>6, <2>3 DEF d
<1>7. CASE uid # 0 /\ idx = 0
  <2>1. Len(uids) > 0 => Beyond(uids[1], uid, whence)
    <3> SUFFICES ASSUME Len(uids) > 0 PROVE Beyond(uids[1], uid, whence)
      OBVIOUS
    <3>1. n # 0
      BY <1>1
    <3>2. idx < n /\ cut[idx] + 1 = 1
      BY <1>1, <1>7, <3>1
    <3> QED
      BY <1>4, <3>2
  <2>2. Found(At(pack, 0), pack, uids, cut, uid, whence, 0)
    BY <2>1, SeekAtFirst
  <2> QED
    BY <1>2, <1>7, <2>2 DEF d
<1>8. ASSUME uid # 0, idx # 0
      PROVE  /\ idx - 1 \in 0..n - 1 /\ idx \in 0..n
             /\ cut[idx] \in Nat /\ cut[idx - 1] \in Nat /\ cut[idx - 1] < cut[idx]
             /\ cut[idx] <= Len(uids)
             /\ ~Beyond(uids[cut[idx - 1] + 1], uid, whence)
             /\ u = Part(uids, cut[idx - 1], cut[idx])
             /\ At(pack, idx) \in Decoders /\ Reading(At(pack, idx), uids, cut, n, cut[idx])
  <2>1. /\ idx - 1 \in 0..n - 1 /\ idx - 1 \in 0..n /\ idx \in 0..n
        /\ idx - 1 < idx /\ (idx - 1) + 1 = idx
    BY <1>1, <1>3, <1>8
  <2>2. /\ cut[idx] \in Nat /\ cut[idx - 1] \in Nat /\ cut[idx - 1] < cut[idx]
        /\ cut[idx] <= Len(uids)
    BY <2>1, CutParts
  <2>3. ~Beyond(uids[cut[idx - 1] + 1], uid, whence)
    BY <1>5, <2>1
  <2>4. u = Part(uids, cut[idx - 1], cut[idx])
    <3>1. u = Part(uids, cut[idx - 1], cut[(idx - 1) + 1])
      BY <2>1, UnpackExact
    <3> QED
      BY <2>1, <3>1
  <2>5. At(pack, idx) \in Decoders /\ Reading(At(pack, idx), uids, cut, n, cut[idx])
    BY <1>3, AtReads
  <2> QED
    BY <2>1, <2>2, <2>3, <2>4, <2>5
<1> HIDE DEF u
<1>9. CASE uid # 0 /\ idx # 0 /\ idx < n /\ Block(pack, idx).Base = uid
  <2>1. PICK k \in Nat : k = cut[idx] /\ k > 0 /\ k <= Len(uids)
    BY <1>8, <1>9
  <2>2. d = At(pack, idx)
    BY <1>2, <1>9
  <2>3. idx \in 0..n - 1
    BY <1>1, <1>3, <1>9
  <2>4. uids[k + 1] = uid /\ k + 1 \in 1..Len(uids)
    BY <1>9, <2>1, <2>3, BaseOfBlock
  <2>5. ~Beyond(uids[k], uid, whence)
    <3>1. k \in 1..Len(uids) /\ k < k + 1
      BY <1>1, <2>1
    <3>2. uids[k] < uid /\ uids[k] \in Nat
      BY <1>1, <2>4, <3>1
    <3> QED
      BY <3>2 DEF Beyond
  <2>6. Begins(uids, uid, whence, k)
    BY <1>4, <1>9, <2>1, <2>5 DEF Begins
  <2>7. Found(d, pack, uids, cut, uid, whence, k)
    BY <1>8, <1>9, <2>1, <2>2, <2>6 DEF Found
  <2> QED
    BY <2>7 DEF d
<1>10. CASE uid # 0 /\ idx # 0 /\ ~(idx < n /\ Block(pack, idx).Base = uid)
  <2>1. PICK lo \in Nat, hi \in Nat :
          /\ lo = cut[idx - 1] /\ hi = cut[idx] /\ lo < hi /\ hi <= Len(uids)
    BY <1>8, <1>10
  <2>2. u = Part(uids, lo, hi) /\ ~Beyond(uids[lo + 1], uid, whence)
    BY <1>8, <1>10, <2>1
  <2>3. IsPart(u, 0..MaxUid, uids, lo, hi)
    BY <1>1, <2>1, <2>2, PartIs DEF Within
  <2>4. Len(u) = hi - lo /\ \A i \in 1..hi - lo : u[i] = uids[lo + i]
    BY <2>3 DEF IsPart
  <2>5. /\ uidx \in Nat /\ uidx <= hi - lo /\ (uidx \in inner \/ uidx = hi - lo)
        /\ \A j \in inner : uidx <= j
    <3>1. inner \subseteq 0..Len(u) - 1 /\ Len(u) \in Nat
      BY <2>1, <2>4
    <3> HIDE DEF inner
    <3> QED
      BY <2>4, <3>1, SearchFinds, ZenonT(60)
  <2> HIDE DEF uidx
  <2>6. \A i \in 0..hi - lo - 1 : i \in inner <=> Beyond(uids[lo + i + 1], uid, whence)
    <3> SUFFICES ASSUME NEW i \in 0..hi - lo - 1
                 PROVE  i \in inner <=> Beyond(uids[lo + i + 1], uid, whence)
      OBVIOUS
    <3>1. i + 1 \in 1..hi - lo /\ lo + (i + 1) = lo + i + 1 /\ i \in 0..Len(u) - 1
      BY <2>4
    <3>2. u[i + 1] = uids[lo + i + 1]
      BY <2>4, <3>1
    <3> QED
      BY <3>1, <3>2
  <2> HIDE DEF inner
  <2>7. uidx > 0
    <3>1. 0 \in 0..hi - lo - 1 /\ lo + 0 + 1 = lo + 1 /\ hi - lo > 0
      BY <2>1
    <3>2. 0 \notin inner
      BY <2>2, <2>6, <3>1
    <3> QED
      BY <2>5, <3>1, <3>2
  <2>8. ~Beyond(uids[lo + uidx], uid, whence)
    <3>1. uidx - 1 \in 0..hi - lo - 1 /\ lo + (uidx - 1) + 1 = lo + uidx /\ ~(uidx <= uidx - 1)
      BY <2>5, <2>7
    <3>2. uidx - 1 \notin inner
      BY <2>5, <3>1
    <3> QED
      BY <2>6, <3>1, <3>2
  <2>9. CASE uidx < Len(u)
    <3>1. PICK k \in Nat : k = lo + uidx
      BY <2>5
    <3>2. /\ lo <= k /\ k < hi /\ k > 0 /\ k <= Len(uids)
          /\ uidx \in 0..hi - lo - 1 /\ uidx # hi - lo /\ uidx = k - lo
      <4>1. uidx < hi - lo /\ uidx > 0 /\ uidx \in Nat
        BY <2>4, <2>5, <2>7, <2>9
      <4>2. hi <= Len(uids) /\ Len(uids) \in Nat
        BY <1>1, <2>1
      <4> QED
        BY <3>1, <4>1, <4>2
    <3>3. Beyond(uids[k + 1], uid, whence)
      BY <2>5, <2>6, <3>1, <3>2
    <3>4. Begins(uids, uid, whence, k)
      BY <2>8, <3>1, <3>3 DEF Begins
    <3>5. SubSeq(u, uidx + 1, Len(u)) = Part(uids, k, hi)
      <4>1. Part(Part(uids, lo, hi), k - lo, hi - lo) = Part(uids, k, hi)
        <5>1. lo <= k /\ k <= hi /\ hi <= Len(uids)
          BY <2>1, <3>2
        <5>2. uids \in Seq(0..MaxUid)
          BY <1>1
        <5> QED
          BY <5>1, <5>2, PartOfPart
      <4>2. Part(u, uidx, Len(u)) = Part(uids, k, hi)
        BY <2>2, <2>4, <3>2, <4>1
      <4> QED
        BY <4>2 DEF Part
    <3>6. d = [blockIdx |-> idx - 1, uids |-> Part(uids, k, hi)]
      BY <1>2, <1>10, <2>9, <3>5
    <3>7. Part(uids, k, hi) \in Seq(0..MaxUid)
      <4>1. IsPart(Part(uids, k, hi), 0..MaxUid, uids, k, hi)
        BY <1>1, <2>1, <3>2, PartIs DEF Within
      <4> QED
        BY <4>1 DEF IsPart
    <3>8. idx - 1 \in Nat /\ idx - 1 \in 0..n - 1 /\ (idx - 1) + 1 = idx
      BY <1>3, <1>8, <1>10
    <3>9. d \in Decoders /\ d.blockIdx = idx - 1 /\ d.uids = Part(uids, k, hi)
      BY <3>6, <3>7, <3>8 DEF Decoders
    <3>10. InBlock(d, uids, cut, n, k)
      BY <2>1, <3>2, <3>8, <3>9 DEF InBlock
    <3>11. Found(d, pack, uids, cut, uid, whence, k)
      BY <3>2, <3>4, <3>9, <3>10 DEF Found, Reading
    <3> QED
      BY <3>11 DEF d
  <2>10. CASE ~(uidx < Len(u))
    <3>1. uidx = hi - lo /\ lo + uidx = hi
      BY <2>1, <2>4, <2>5, <2>10
    <3>2. d = At(pack, idx)
      BY <1>2, <1>10, <2>10
    <3>3. hi < Len(uids) => idx < n
      BY <1>1, <1>3, <2>1
    <3>4. Begins(uids, uid, whence, hi)
      BY <1>4, <2>1, <2>8, <3>1, <3>3 DEF Begins
    <3>5. Found(d, pack, uids, cut, uid, whence, hi)
      BY <1>8, <1>10, <2>1, <3>2, <3>4 DEF Found
    <3> QED
      BY <3>5 DEF d
  <2> QED
    BY <2>9, <2>10
<1> QED
  BY <1>6, <1>7, <1>9, <1>10

(* LinearSeek stops, at the block it began with or one that begins at or   *)
(* below the uid sought, and every later block begins beyond it.           *)
LEMMA LinearSeekStops ==
  ASSUME NEW pack, NEW uids, NEW cut, Cuts(pack, uids, cut),
         NEW seek \in Nat, seek < MaxUid, NEW idx \in 0..Len(pack) - 1
  PROVE  /\ Stops(pack, idx, seek) # {}
         /\ \E at \in Nat :
              /\ idx <= at /\ at < Len(pack) /\ LinearSeek(pack, idx, seek) = At(pack, at)
              /\ at = idx \/ Block(pack, at).Base <= seek
              /\ \A i \in at + 1..Len(pack) - 1 : Block(pack, i).Base > seek
<1> DEFINE n == Len(pack)
           stops == Stops(pack, idx, seek)
           at == CHOOSE i \in stops : \A j \in stops : i <= j
<1>1. /\ n \in Nat /\ uids \in UidLists /\ Len(uids) \in Nat
      /\ \A i \in 1..Len(uids) : uids[i] \in Nat
      /\ \A i, j \in 1..Len(uids) : i < j => uids[i] < uids[j]
  BY CutParts, UidParts
<1>2. n - 1 \in stops
  <2>1. PeekNextBase(pack, n - 1) = MaxUid
    BY <1>1 DEF PeekNextBase, NumBlocks
  <2>2. n - 1 \in idx..idx + NumBlocks(pack)
    BY <1>1 DEF NumBlocks
  <2> QED
    BY <2>1, <2>2 DEF Stops
<1>3. stops \subseteq Nat
  BY <1>1 DEF Stops, NumBlocks
<1> HIDE DEF stops
<1>4. at \in stops /\ \A j \in stops : at <= j
  <2>1. \E i \in stops : \A j \in stops : i <= j
    BY <1>2, <1>3, LeastNatural
  <2> QED
    BY <2>1
<1>5. LinearSeek(pack, idx, seek) = At(pack, at)
  BY DEF LinearSeek, stops
<1> HIDE DEF at
<1>6. at \in Nat /\ idx <= at /\ at < n
  <2>1. at \in idx..idx + NumBlocks(pack)
    BY <1>4 DEF stops, Stops
  <2>2. at <= n - 1 /\ at \in Nat
    BY <1>2, <1>3, <1>4
  <2> QED
    BY <1>1, <2>1, <2>2
<1>7. ASSUME at # idx PROVE Block(pack, at).Base <= seek
  <2>1. at - 1 \in idx..idx + NumBlocks(pack) /\ ~(at <= at - 1) /\ (at - 1) + 1 = at
    BY <1>1, <1>6, <1>7 DEF NumBlocks
  <2>2. at - 1 \notin stops
    BY <1>4, <2>1
  <2>3. ~(seek < PeekNextBase(pack, at - 1))
    BY <2>1, <2>2 DEF stops, Stops
  <2>4. PeekNextBase(pack, at - 1) = Block(pack, at).Base
    BY <1>6, <2>1 DEF PeekNextBase, NumBlocks
  <2>5. Block(pack, at).Base \in Nat
    <3>1. at \in 0..n - 1
      BY <1>1, <1>6
    <3> QED
      BY <1>1, <3>1, BaseOfBlock, SMTT(30)
  <2> QED
    BY <2>3, <2>4, <2>5
<1>8. ASSUME NEW i \in at + 1..n - 1 PROVE Block(pack, i).Base > seek
  <2>1. at + 1 < n /\ at + 1 \in 0..n - 1 /\ i \in 0..n - 1 /\ (i = at + 1 \/ at + 1 < i)
        /\ at + 1 \in 0..n /\ i \in 0..n
    BY <1>1, <1>6
  <2>2. seek < Block(pack, at + 1).Base
    <3>1. seek < PeekNextBase(pack, at)
      BY <1>4 DEF stops, Stops
    <3> QED
      BY <2>1, <3>1 DEF PeekNextBase, NumBlocks
  <2>3. CASE i = at + 1
    BY <2>2, <2>3
  <2>4. CASE at + 1 < i
    <3>1. PICK x \in Nat, y \in Nat : x = cut[at + 1] /\ y = cut[i] /\ x < y
      BY <2>1, <2>4, CutParts, SMTT(30)
    <3>2. /\ Block(pack, at + 1).Base = uids[x + 1] /\ Block(pack, i).Base = uids[y + 1]
          /\ x + 1 \in 1..Len(uids) /\ y + 1 \in 1..Len(uids)
      <4>1. \A j \in 0..n - 1 : /\ Block(pack, j).Base = uids[cut[j] + 1]
                                /\ cut[j] + 1 \in 1..Len(uids)
        BY BaseOfBlock
      <4> QED
        BY <2>1, <3>1, <4>1
    <3>3. x + 1 < y + 1
      BY <3>1
    <3>4. uids[x + 1] < uids[y + 1] /\ uids[x + 1] \in Nat /\ uids[y + 1] \in Nat
      BY <1>1, <3>2, <3>3
    <3> QED
      BY <2>2, <3>2, <3>4
  <2> QED
    BY <2>1, <2>3, <2>4
<1>9. at = idx \/ Block(pack, at).Base <= seek
  BY <1>7
<1> QED
  BY <1>2, <1>5, <1>6, <1>8, <1>9 DEF stops

(* From such a block on the decoder drains every uid from the one sought   *)
(* on.                                                                     *)
LEMMA LinearSeekCovers ==
  ASSUME NEW pack, NEW uids, NEW cut, Cuts(pack, uids, cut), NEW seek \in Nat,
         NEW at \in 0..Len(pack) - 1, Block(pack, at).Base <= seek \/ at = 0
  PROVE  /\ cut[at] \in 0..Len(uids)
         /\ Drained(pack, At(pack, at)) = Part(uids, cut[at], Len(uids))
         /\ \A i \in 1..Len(uids) : uids[i] >= seek => i > cut[at]
<1>1. /\ uids \in UidLists /\ Len(uids) \in Nat /\ cut[0] = 0 /\ Len(pack) \in Nat
      /\ \A i \in 1..Len(uids) : uids[i] \in Nat
      /\ \A i, j \in 1..Len(uids) : i < j => uids[i] < uids[j]
  BY CutParts, UidParts
<1>2. PICK k \in Nat : /\ k = cut[at] /\ k + 1 \in 1..Len(uids) /\ k < Len(uids)
                       /\ Block(pack, at).Base = uids[k + 1]
  BY BaseOfBlock
<1>3. at \in Nat /\ at <= Len(pack)
  BY <1>1
<1>4. At(pack, at) \in Decoders /\ Reading(At(pack, at), uids, cut, Len(pack), k)
  BY <1>2, <1>3, AtReads
<1>5. Drained(pack, At(pack, at)) = Part(uids, k, Len(uids))
  <2>1. k <= Len(uids)
    BY <1>1, <1>2
  <2> QED
    BY <1>4, <2>1, DrainExact
<1>6. ASSUME NEW i \in 1..Len(uids), uids[i] >= seek PROVE i > k
  <2>1. CASE k = 0
    BY <2>1
  <2>2. CASE k # 0
    <3>1. uids[k + 1] <= seek
      <4>1. at # 0
        BY <1>1, <1>2, <2>2
      <4> QED
        BY <1>2, <4>1
    <3> SUFFICES ASSUME ~(i > k) PROVE FALSE
      OBVIOUS
    <3>2. i < k + 1
      OBVIOUS
    <3>3. uids[i] < uids[k + 1] /\ uids[i] \in Nat /\ uids[k + 1] \in Nat
      BY <1>1, <1>2, <3>2
    <3> QED
      BY <1>6, <3>1, <3>3
  <2> QED
    BY <2>1, <2>2
<1>7. k \in 0..Len(uids)
  BY <1>1, <1>2
<1> QED
  BY <1>2, <1>5, <1>6, <1>7

(* ExactLen is the length of the list and ApproxLen is no less.            *)
LEMMA LengthsRight ==
  ASSUME NEW pack, NEW uids \in UidLists, NEW cut, NEW size \in Nat \ {0},
         Cuts(pack, uids, cut), Packed(pack, uids, size, cut, Len(uids))
  PROVE  ExactLen(pack) = Len(uids) /\ ApproxLen(pack, size) >= Len(uids)
<1> DEFINE n == Len(pack)
           Def(g) == [k \in 0..n |-> IF k = 0 THEN 0 ELSE g[k - 1] + pack[k].NumUids]
           num == CHOOSE g : g = Def(g)
<1>1. /\ n \in Nat /\ Len(uids) \in Nat /\ cut[0] = 0 /\ cut[n] = Len(uids)
      /\ \A j \in 0..n : cut[j] \in Nat
  BY CutParts
<1>2. cut \in [0..n -> Nat] /\ \A j \in 1..n : cut[j] - cut[j - 1] <= size
  BY DEF Packed
<1>3. \A k \in 1..n : cut[k] = cut[k - 1] + pack[k].NumUids
  <2> SUFFICES ASSUME NEW k \in 1..n PROVE cut[k] = cut[k - 1] + pack[k].NumUids
    OBVIOUS
  <2>1. Holds(pack[k], uids, cut[k - 1], cut[k])
    BY CutParts
  <2>2. pack[k].NumUids = cut[k] - cut[k - 1]
    BY <2>1 DEF Holds
  <2>3. cut[k] \in Nat /\ cut[k - 1] \in Nat
    <3>1. k \in 0..n /\ k - 1 \in 0..n
      BY <1>1
    <3> QED
      BY <1>1, <3>1
  <2> QED
    BY <2>2, <2>3
<1>4. ExactLen(pack) = num[n]
  BY DEF ExactLen
<1> HIDE DEF n
<1>5. cut = Def(cut)
  <2>1. DOMAIN cut = 0..n /\ cut = [k \in 0..n |-> cut[k]]
    BY <1>2
  <2>2. \A k \in 0..n : cut[k] = IF k = 0 THEN 0 ELSE cut[k - 1] + pack[k].NumUids
    <3>1. \A k \in 0..n : k # 0 => k \in 1..n
      BY <1>1
    <3> QED
      BY <1>1, <1>3, <3>1
  <2> QED
    BY <2>1, <2>2
<1>6. num = Def(num)
  BY <1>5
<1> HIDE DEF num
<1>7. num[n] = cut[n]
  <2>1. num[0] = 0 /\ \A k \in 1..n : num[k] = num[k - 1] + pack[k].NumUids
    <3>1. \A k \in 0..n : num[k] = IF k = 0 THEN 0 ELSE num[k - 1] + pack[k].NumUids
      BY <1>6
    <3>2. 0 \in 0..n /\ \A k \in 1..n : k \in 0..n /\ k # 0
      BY <1>1
    <3> QED
      BY <3>1, <3>2
  <2>2. GoAlike(num, cut, n)
    BY <1>1, <1>3, <2>1 DEF GoAlike
  <2>3. Alike(num, cut, n)
    BY <1>1, <2>2, SameIterations
  <2>4. n \in 0..n
    BY <1>1
  <2> QED
    BY <2>3, <2>4 DEF Alike
<1> DEFINE T == {k \in Nat : k <= n => cut[k] <= k * size}
<1>8. 0 \in T
  BY <1>1
<1>9. ASSUME NEW k \in Nat, k \in T PROVE k + 1 \in T
  <2> SUFFICES ASSUME k + 1 <= n PROVE cut[k + 1] <= (k + 1) * size
    OBVIOUS
  <2>1. k + 1 \in 1..n /\ (k + 1) - 1 = k /\ k \in 0..n /\ k + 1 \in 0..n /\ k <= n
    BY <1>1
  <2>2. cut[k] \in Nat /\ cut[k + 1] \in Nat /\ cut[k + 1] - cut[k] <= size
    BY <1>1, <1>2, <2>1
  <2>3. cut[k] <= k * size
    BY <1>9, <2>1
  <2>4. (k + 1) * size = k * size + size /\ k * size \in Nat
    OBVIOUS
  <2> QED
    BY <2>2, <2>3, <2>4
<1>10. n \in T
  <2> HIDE DEF T
  <2> QED
    BY <1>1, <1>8, <1>9, EveryNatural
<1>11. Len(uids) <= n * size
  <2>1. cut[n] <= n * size
    BY <1>1, <1>10
  <2> QED
    BY <1>1, <2>1
<1>12. ApproxLen(pack, size) = n * size
  BY DEF ApproxLen, NumBlocks, n
<1>13. n * size >= Len(uids)
  <2>1. n * size \in Nat
    BY <1>1
  <2> QED
    BY <1>1, <1>11, <2>1
<1> QED
  BY <1>1, <1>4, <1>7, <1>12, <1>13

(* The codec of any list of uids and any size of the blocks.               *)
LEMMA CodecOfAny ==
  ASSUME input \in Packs, algorithm = "codec"
  PROVE  CodecExact
<1> DEFINE uids == input.uids
           size == input.size
<1>1. uids \in UidLists /\ size \in Nat \ {0}
  BY AlgorithmsAssumption
<1>2. PICK cut : Packed(Pack, uids, size, cut, Len(uids))
  BY <1>1, EncodeExact DEF Pack
<1>3. Cuts(Pack, uids, cut)
  BY <1>1, <1>2, EncodeExact DEF Cuts, Pack
<1>4. /\ Len(Pack) \in Nat /\ Len(uids) \in Nat /\ uids \in Seq(0..MaxUid)
      /\ DOMAIN uids = 1..Len(uids) /\ MaxUid \in Nat
  BY <1>1, <1>3, CutParts, UidParts, UidCodecAssumption
<1> HIDE DEF uids, size
<1>5. \A k : Rest(k) = Part(uids, k, Len(uids))
  BY DEF Rest, Part, uids
<1>6. ASSUME NEW uid \in Nat, NEW whence \in {SeekStart, SeekCurrent}, uid # 0 \/ whence = SeekStart
      PROVE  \E k \in 0..Len(uids) :
               /\ Drained(Pack, Seek(Pack, uid, whence)) = Part(uids, k, Len(uids))
               /\ AllBeyond(uids, uid, whence, k)
  <2>1. PICK k \in Nat : Found(Seek(Pack, uid, whence), Pack, uids, cut, uid, whence, k)
    BY <1>3, <1>6, SeekFinds
  <2>2. /\ Seek(Pack, uid, whence) \in Decoders /\ k <= Len(uids)
        /\ Reading(Seek(Pack, uid, whence), uids, cut, Len(Pack), k)
        /\ Begins(uids, uid, whence, k)
    BY <2>1 DEF Found
  <2>3. Drained(Pack, Seek(Pack, uid, whence)) = Part(uids, k, Len(uids))
    BY <1>3, <2>2, DrainExact
  <2>4. AllBeyond(uids, uid, whence, k)
    BY <1>1, <2>2, BeginsAll
  <2>5. k \in 0..Len(uids)
    BY <1>4, <2>2
  <2> QED
    BY <2>3, <2>4, <2>5
<1>7. RoundTrip
  <2>1. Decode(Pack, 0) = uids
    <3>1. PICK k \in 0..Len(uids) :
            /\ Drained(Pack, Seek(Pack, 0, SeekStart)) = Part(uids, k, Len(uids))
            /\ AllBeyond(uids, 0, SeekStart, k)
      BY <1>6
    <3>2. k = 0
      <4> SUFFICES ASSUME k # 0 PROVE FALSE
        OBVIOUS
      <4>1. k \in 1..Len(uids) /\ ~(k > k)
        BY <1>4
      <4>2. uids[k] \in Nat
        BY <1>1, <4>1, UidParts
      <4>3. Beyond(uids[k], 0, SeekStart)
        BY <4>2 DEF Beyond
      <4> QED
        BY <3>1, <4>1, <4>3 DEF AllBeyond
    <3>3. Part(uids, 0, Len(uids)) = uids
      <4>1. 0 + 1 = 1
        OBVIOUS
      <4> QED
        BY <1>4, <4>1, SubSeqFull DEF Part
    <3> QED
      BY <3>1, <3>2, <3>3 DEF Decode
  <2>2. ExactLen(Pack) = Len(uids) /\ ApproxLen(Pack, size) >= Len(uids)
    BY <1>1, <1>2, <1>3, LengthsRight
  <2> QED
    BY <2>1, <2>2 DEF RoundTrip, uids, size
<1>8. SeekExact
  <2> SUFFICES ASSUME NEW uid \in Uids, NEW whence \in {SeekStart, SeekCurrent},
                      uid # 0 \/ whence = SeekStart
               PROVE  \E k \in 0..Len(uids) :
                        /\ Drained(Pack, Seek(Pack, uid, whence)) = Rest(k)
                        /\ \A i \in DOMAIN uids : Beyond(uids[i], uid, whence) <=> i > k
    BY DEF SeekExact, uids
  <2>1. uid \in Nat
    BY <1>4 DEF Uids
  <2>2. PICK k \in 0..Len(uids) :
          /\ Drained(Pack, Seek(Pack, uid, whence)) = Part(uids, k, Len(uids))
          /\ AllBeyond(uids, uid, whence, k)
    BY <1>6, <2>1
  <2>3. \A i \in DOMAIN uids : Beyond(uids[i], uid, whence) <=> i > k
    BY <1>4, <2>2 DEF AllBeyond
  <2> QED
    BY <1>5, <2>2, <2>3
<1>9. LinearSeekFinds
  <2> SUFFICES ASSUME NEW seek \in Uids \ {MaxUid}, NEW idx \in 0..NumBlocks(Pack) - 1
               PROVE  /\ Stops(Pack, idx, seek) # {}
                      /\ LET d == LinearSeek(Pack, idx, seek) IN
                           /\ d.blockIdx = idx \/ Block(Pack, d.blockIdx).Base <= seek
                           /\ \A i \in d.blockIdx + 1..NumBlocks(Pack) - 1 :
                                Block(Pack, i).Base > seek
                           /\ Block(Pack, idx).Base <= seek \/ idx = 0 =>
                                \E k \in 0..Len(uids) :
                                  /\ Drained(Pack, d) = Rest(k)
                                  /\ \A i \in DOMAIN uids : uids[i] >= seek => i > k
    BY DEF LinearSeekFinds, uids
  <2>1. seek \in Nat /\ seek < MaxUid /\ idx \in 0..Len(Pack) - 1
    BY <1>4 DEF Uids, NumBlocks
  <2>2. Stops(Pack, idx, seek) # {}
    BY <1>3, <2>1, LinearSeekStops
  <2>3. PICK at \in Nat :
          /\ idx <= at /\ at < Len(Pack) /\ LinearSeek(Pack, idx, seek) = At(Pack, at)
          /\ at = idx \/ Block(Pack, at).Base <= seek
          /\ \A i \in at + 1..Len(Pack) - 1 : Block(Pack, i).Base > seek
    BY <1>3, <2>1, LinearSeekStops
  <2>4. At(Pack, at).blockIdx = at
    BY <1>3, AtReads
  <2>5. ASSUME Block(Pack, idx).Base <= seek \/ idx = 0
        PROVE  \E k \in 0..Len(uids) :
                 /\ Drained(Pack, At(Pack, at)) = Rest(k)
                 /\ \A i \in DOMAIN uids : uids[i] >= seek => i > k
    <3>1. Block(Pack, at).Base <= seek \/ at = 0
      BY <2>3, <2>5
    <3>2. at \in 0..Len(Pack) - 1
      BY <1>4, <2>3
    <3>3. /\ cut[at] \in 0..Len(uids)
          /\ Drained(Pack, At(Pack, at)) = Part(uids, cut[at], Len(uids))
          /\ \A i \in 1..Len(uids) : uids[i] >= seek => i > cut[at]
      BY <1>3, <2>1, <3>1, <3>2, LinearSeekCovers
    <3> QED
      BY <1>4, <1>5, <3>3
  <2> QED
    BY <2>2, <2>3, <2>4, <2>5 DEF NumBlocks
<1> QED
  BY <1>7, <1>8, <1>9 DEF CodecExact

(* The packs of bitmap/codec.go: Decode gives back what Encode was given,  *)
(* both lengths are right, Seek yields exactly the uids from the one       *)
(* sought on and LinearSeek all of them, for every ascending list of uids, *)
(* every size of the blocks, and halves and groups of any size.            *)
THEOREM CodecIsExact == InputSpec => []CodecExact
<1>1. InputInit => CodecExact
  <2> SUFFICES ASSUME InputInit PROVE CodecExact
    OBVIOUS
  <2>1. CASE algorithm = "codec"
    <3>1. input \in Packs
      BY <2>1 DEF InputInit
    <3> QED
      BY <2>1, <3>1, CodecOfAny
  <2>2. CASE algorithm # "codec"
    BY <2>2 DEF CodecExact, RoundTrip, SeekExact, LinearSeekFinds
  <2> QED
    BY <2>1, <2>2
<1>2. CodecExact /\ [InputNext]_inputVars => CodecExact'
  <2> SUFFICES ASSUME CodecExact, [InputNext]_inputVars PROVE CodecExact'
    OBVIOUS
  <2>1. algorithm' = algorithm /\ input' = input
    BY DEF InputNext, inputVars
  <2>2. RoundTrip => RoundTrip'
    BY <2>1 DEF RoundTrip, Pack
  <2>3. SeekExact => SeekExact'
    BY <2>1 DEF SeekExact, Pack, Rest
  <2>4. LinearSeekFinds => LinearSeekFinds'
    BY <2>1 DEF LinearSeekFinds, Pack, Rest
  <2> QED
    BY <2>2, <2>3, <2>4 DEF CodecExact
<1> QED
  BY <1>1, <1>2, PTL DEF InputSpec
-----------------------------------------------------------------------------
Edge == [src : Int, dst : Int, weight : Int]
PairOf(e) == <<e.src, e.dst>>
NoLoops(E) == \A e \in E : e \in Edge /\ e.src # e.dst
PairsOf(E) == {PairOf(e) : e \in E}

WeightedGraphs == UNION {[D -> Int] : D \in SUBSET (Int \X Int)}

(* A weight of a pair is that of one of its edges, and none of them is     *)
(* lighter.                                                                *)
Chosen(g, p, E) == \E e \in E : PairOf(e) = p /\ g[p] = e.weight
NotAbove(g, e) == g[PairOf(e)] <= e.weight
Lightest(g, E) ==
  /\ g \in WeightedGraphs /\ DOMAIN g = PairsOf(E)
  /\ \A p \in DOMAIN g : Chosen(g, p, E)
  /\ \A e \in E : NotAbove(g, e)

(* What an edge is made of.                                                *)
LEMMA EdgeParts ==
  \A e \in Edge : e.src \in Int /\ e.dst \in Int /\ e.weight \in Int /\ PairOf(e) \in Int \X Int
BY DEF Edge, PairOf

(* What a graph is.                                                        *)
LEMMA GraphParts ==
  \A g \in WeightedGraphs : /\ g \in [DOMAIN g -> Int] /\ DOMAIN g \subseteq Int \X Int
                            /\ \A p \in DOMAIN g : g[p] \in Int
<1> SUFFICES ASSUME NEW g \in WeightedGraphs
             PROVE  /\ g \in [DOMAIN g -> Int] /\ DOMAIN g \subseteq Int \X Int
                    /\ \A p \in DOMAIN g : g[p] \in Int
  OBVIOUS
<1>1. PICK D \in SUBSET (Int \X Int) : g \in [D -> Int]
  BY DEF WeightedGraphs
<1> QED
  BY <1>1

(* A function from pairs of vertices to weights is a graph.                *)
LEMMA GraphIs == \A D \in SUBSET (Int \X Int) : \A g \in [D -> Int] : g \in WeightedGraphs
BY DEF WeightedGraphs

(* AddEdge of a proper edge, by cases.                                     *)
LEMMA AddEdgeCases ==
  ASSUME NEW g \in WeightedGraphs, NEW e \in Edge
  PROVE  /\ AddEdge(g, e) \in WeightedGraphs
         /\ \/ /\ AddEdge(g, e) = g
               /\ e.src = e.dst \/ (PairOf(e) \in DOMAIN g /\ NotAbove(g, e))
            \/ /\ e.src # e.dst
               /\ DOMAIN AddEdge(g, e) = DOMAIN g \cup {PairOf(e)}
               /\ AddEdge(g, e)[PairOf(e)] = e.weight
               /\ \A q \in DOMAIN g : q # PairOf(e) => AddEdge(g, e)[q] = g[q]
               /\ PairOf(e) \in DOMAIN g => e.weight <= g[PairOf(e)]
<1> DEFINE p == PairOf(e)
           h == [q \in DOMAIN g \cup {p} |-> IF q = p THEN e.weight ELSE g[q]]
<1>1. p \in Int \X Int /\ e.weight \in Int
  BY EdgeParts
<1>2. DOMAIN g \subseteq Int \X Int /\ \A q \in DOMAIN g : g[q] \in Int
  BY GraphParts
<1>3. AddEdge(g, e) = IF e.src = e.dst \/ (p \in DOMAIN g /\ e.weight >= g[p]) THEN g ELSE h
  BY DEF AddEdge, PairOf
<1> HIDE DEF p
<1>4. h \in WeightedGraphs
  <2>1. DOMAIN g \cup {p} \in SUBSET (Int \X Int)
    BY <1>1, <1>2
  <2>2. h \in [DOMAIN g \cup {p} -> Int]
    BY <1>1, <1>2
  <2> QED
    BY <2>1, <2>2, GraphIs
<1>5. DOMAIN h = DOMAIN g \cup {p} /\ h[p] = e.weight /\ \A q \in DOMAIN g : q # p => h[q] = g[q]
  OBVIOUS
<1> HIDE DEF h
<1>6. CASE e.src = e.dst \/ (p \in DOMAIN g /\ e.weight >= g[p])
  <2>1. AddEdge(g, e) = g
    BY <1>3, <1>6
  <2>2. e.src = e.dst \/ (p \in DOMAIN g /\ g[p] <= e.weight)
    BY <1>1, <1>2, <1>6
  <2> QED
    BY <2>1, <2>2 DEF p, NotAbove
<1>7. CASE ~(e.src = e.dst \/ (p \in DOMAIN g /\ e.weight >= g[p]))
  <2>1. AddEdge(g, e) = h
    BY <1>3, <1>7
  <2>2. e.src # e.dst /\ (p \in DOMAIN g => e.weight <= g[p])
    BY <1>1, <1>2, <1>7
  <2> QED
    BY <1>4, <1>5, <2>1, <2>2 DEF p
<1> QED
  BY <1>6, <1>7

(* Nothing has no edges.                                                   *)
LEMMA LightestNone == Lightest(NoEdges, {})
<1>1. {} \in SUBSET (Int \X Int) /\ NoEdges \in [{} -> Int]
  BY DEF NoEdges
<1>2. NoEdges \in WeightedGraphs
  BY <1>1, GraphIs
<1> QED
  BY <1>2 DEF Lightest, NoEdges, PairsOf

(* With one more edge the graph is that of the edges and it.               *)
LEMMA LightestAdd ==
  ASSUME NEW E, NoLoops(E), NEW e \in Edge, e.src # e.dst, NEW g, Lightest(g, E)
  PROVE  Lightest(AddEdge(g, e), E \cup {e})
<1> DEFINE h == AddEdge(g, e)
           p == PairOf(e)
<1>1. /\ g \in WeightedGraphs /\ DOMAIN g = PairsOf(E)
      /\ \A q \in DOMAIN g : Chosen(g, q, E)
      /\ \A d \in E : NotAbove(g, d)
  BY DEF Lightest
<1>2. \A q \in DOMAIN g : g[q] \in Int
  BY <1>1, GraphParts
<1>3. \A d \in E : PairOf(d) \in DOMAIN g /\ d.weight \in Int
  BY <1>1, EdgeParts DEF PairsOf, NoLoops
<1>4. PairsOf(E \cup {e}) = PairsOf(E) \cup {p}
  BY DEF PairsOf
<1>5. CASE /\ h = g /\ p \in DOMAIN g /\ NotAbove(g, e)
  <2>1. DOMAIN h = PairsOf(E \cup {e})
    BY <1>1, <1>4, <1>5
  <2>2. \A q \in DOMAIN h : Chosen(h, q, E \cup {e})
    BY <1>1, <1>5 DEF Chosen
  <2>3. \A d \in E \cup {e} : NotAbove(h, d)
    BY <1>1, <1>5
  <2> QED
    BY <1>1, <1>5, <2>1, <2>2, <2>3 DEF Lightest
<1>6. CASE /\ h \in WeightedGraphs /\ DOMAIN h = DOMAIN g \cup {p} /\ h[p] = e.weight
           /\ \A q \in DOMAIN g : q # p => h[q] = g[q]
           /\ p \in DOMAIN g => e.weight <= g[p]
  <2>1. DOMAIN h = PairsOf(E \cup {e})
    BY <1>1, <1>4, <1>6
  <2>2. \A q \in DOMAIN h : Chosen(h, q, E \cup {e})
    <3> SUFFICES ASSUME NEW q \in DOMAIN h PROVE Chosen(h, q, E \cup {e})
      OBVIOUS
    <3>1. CASE q = p
      BY <1>6, <3>1 DEF Chosen
    <3>2. CASE q # p
      <4>1. q \in DOMAIN g /\ h[q] = g[q] /\ Chosen(g, q, E)
        BY <1>1, <1>6, <3>2
      <4> QED
        BY <4>1 DEF Chosen
    <3> QED
      BY <3>1, <3>2
  <2>3. \A d \in E \cup {e} : NotAbove(h, d)
    <3> SUFFICES ASSUME NEW d \in E \cup {e} PROVE NotAbove(h, d)
      OBVIOUS
    <3> DEFINE q == PairOf(d)
    <3>1. CASE d = e
      <4>1. e.weight \in Int
        BY EdgeParts
      <4> QED
        BY <1>6, <3>1, <4>1 DEF NotAbove
    <3>2. CASE d \in E /\ q # p
      <4>1. h[q] = g[q] /\ NotAbove(g, d)
        BY <1>1, <1>3, <1>6, <3>2
      <4> QED
        BY <4>1 DEF NotAbove
    <3>3. CASE d \in E /\ q = p
      <4>1. p \in DOMAIN g /\ g[p] \in Int /\ d.weight \in Int /\ NotAbove(g, d)
        BY <1>1, <1>2, <1>3, <3>3
      <4>2. g[p] <= d.weight
        BY <3>3, <4>1 DEF NotAbove
      <4>3. e.weight <= g[p] /\ h[q] = e.weight /\ e.weight \in Int
        BY <1>6, <3>3, <4>1, EdgeParts
      <4>4. e.weight <= d.weight
        BY <4>1, <4>2, <4>3
      <4> QED
        BY <4>3, <4>4 DEF NotAbove
    <3> QED
      BY <3>1, <3>2, <3>3
  <2> QED
    BY <1>6, <2>1, <2>2, <2>3 DEF Lightest
<1> QED
  BY <1>1, <1>5, <1>6, AddEdgeCases

(* Graph runs AddEdge over the edges.                                      *)
LEMMA GraphSteps ==
  ASSUME NEW es \in Seq(Edge)
  PROVE  \E r \in [0..Len(es) -> WeightedGraphs] :
           /\ r[0] = NoEdges
           /\ \A k \in 1..Len(es) : r[k] = AddEdge(r[k - 1], es[k])
           /\ Graph(es) = r[Len(es)]
<1> DEFINE n == Len(es)
           start == NoEdges
           Steps == [k \in 1..n |-> [x \in WeightedGraphs |-> AddEdge(x, es[k])]]
           Def(g) == [k \in 0..n |-> IF k = 0 THEN start ELSE AddEdge(g[k - 1], es[k])]
<1>1. n \in Nat
  BY LenProperties
<1>2. start \in WeightedGraphs
  BY LightestNone DEF Lightest
<1>3. Steps \in [1..n -> [WeightedGraphs -> WeightedGraphs]]
  <2> SUFFICES ASSUME NEW k \in 1..n, NEW x \in WeightedGraphs
               PROVE  AddEdge(x, es[k]) \in WeightedGraphs
    OBVIOUS
  <2>1. es[k] \in Edge
    BY ElementOfSeq
  <2> QED
    BY <2>1, AddEdgeCases
<1> HIDE DEF n, start, Steps
<1>4. PICK r \in [0..n -> WeightedGraphs] : Iterates(r, start, Steps, n)
  BY <1>1, <1>2, <1>3, IterationExists
<1>5. r[0] = start /\ \A k \in 1..n : r[k] = AddEdge(r[k - 1], es[k])
  <2>1. \A k \in 1..n : k - 1 \in 0..n
    BY <1>1
  <2>2. \A k \in 1..n, x \in WeightedGraphs : Steps[k][x] = AddEdge(x, es[k])
    BY DEF Steps
  <2> QED
    BY <1>4, <2>1, <2>2 DEF Iterates
<1>6. r = Def(r)
  <2> SUFFICES ASSUME NEW k \in 0..n, k # 0 PROVE r[k] = AddEdge(r[k - 1], es[k])
    BY <1>5
  <2>1. k \in 1..n
    BY <1>1
  <2> QED
    BY <1>5, <2>1
<1> DEFINE f == CHOOSE g : g = Def(g)
<1>7. f = Def(f)
  BY <1>6
<1>8. Graph(es) = f[n]
  BY DEF Graph, n, start
<1> HIDE DEF f
<1>9. f[0] = start /\ \A k \in 1..n : f[k] = AddEdge(f[k - 1], es[k])
  <2>1. \A k \in 0..n : f[k] = IF k = 0 THEN start ELSE AddEdge(f[k - 1], es[k])
    BY <1>7
  <2>2. 0 \in 0..n /\ \A k \in 1..n : k \in 0..n /\ k # 0
    BY <1>1
  <2> QED
    BY <2>1, <2>2
<1>10. f[n] = r[n]
  <2>1. GoAlike(r, f, n)
    BY <1>5, <1>9 DEF GoAlike
  <2>2. Alike(r, f, n)
    BY <1>1, <2>1, SameIterations
  <2>3. n \in 0..n
    BY <1>1
  <2> QED
    BY <2>2, <2>3 DEF Alike
<1> QED
  BY <1>4, <1>5, <1>8, <1>10 DEF n, start

EdgesOf(es) == {es[i] : i \in DOMAIN es}

(* oracle.Graph holds for each pair the least weight of its edges.         *)
LEMMA GraphIsLightest ==
  ASSUME NEW es \in Seq(Edge), NoLoops(EdgesOf(es))
  PROVE  Lightest(Graph(es), EdgesOf(es))
<1>1. PICK r \in [0..Len(es) -> WeightedGraphs] :
        /\ r[0] = NoEdges
        /\ \A k \in 1..Len(es) : r[k] = AddEdge(r[k - 1], es[k])
        /\ Graph(es) = r[Len(es)]
  BY GraphSteps
<1> DEFINE n == Len(es)
           First(k) == {es[i] : i \in 1..k}
           Good == {k \in Nat : k <= n => Lightest(r[k], First(k))}
<1>2. n \in Nat /\ DOMAIN es = 1..n
  BY LenProperties
<1>3. \A i \in 1..n : es[i] \in Edge /\ es[i].src # es[i].dst
  BY <1>2 DEF NoLoops, EdgesOf
<1> HIDE DEF n
<1>4. 0 \in Good
  <2>1. First(0) = {}
    OBVIOUS
  <2> QED
    BY <1>1, <2>1, LightestNone
<1>5. ASSUME NEW k \in Nat, k \in Good PROVE k + 1 \in Good
  <2>1. SUFFICES ASSUME k + 1 <= n PROVE Lightest(r[k + 1], First(k + 1))
    OBVIOUS
  <2>2. Lightest(r[k], First(k)) /\ k + 1 \in 1..n
    BY <1>2, <1>5, <2>1
  <2>3. NoLoops(First(k))
    BY <1>2, <1>3, <2>2 DEF NoLoops
  <2>4. First(k + 1) = First(k) \cup {es[k + 1]}
    OBVIOUS
  <2>5. r[k + 1] = AddEdge(r[k], es[k + 1])
    BY <1>1, <2>2 DEF n
  <2>6. es[k + 1] \in Edge /\ es[k + 1].src # es[k + 1].dst
    BY <1>3, <2>2
  <2> HIDE DEF First, Good
  <2> QED
    BY <2>2, <2>3, <2>4, <2>5, <2>6, LightestAdd
<1>6. n \in Good
  <2> HIDE DEF Good
  <2> QED
    BY <1>2, <1>4, <1>5, EveryNatural
<1> QED
  BY <1>1, <1>2, <1>6 DEF EdgesOf, n
-----------------------------------------------------------------------------
(* What an edge added to a list of them makes of it.                       *)
LEMMA AppendEdge ==
  \A es \in Seq(Edge), e \in Edge :
    /\ Append(es, e) \in Seq(Edge) /\ Len(Append(es, e)) = Len(es) + 1 /\ Len(es) \in Nat
    /\ \A i \in 1..Len(es) : Append(es, e)[i] = es[i]
    /\ Append(es, e)[Len(es) + 1] = e
    /\ EdgesOf(Append(es, e)) = EdgesOf(es) \cup {e}
<1> SUFFICES ASSUME NEW es \in Seq(Edge), NEW e \in Edge
             PROVE  /\ Append(es, e) \in Seq(Edge) /\ Len(Append(es, e)) = Len(es) + 1
                    /\ Len(es) \in Nat
                    /\ \A i \in 1..Len(es) : Append(es, e)[i] = es[i]
                    /\ Append(es, e)[Len(es) + 1] = e
                    /\ EdgesOf(Append(es, e)) = EdgesOf(es) \cup {e}
  OBVIOUS
<1> DEFINE more == Append(es, e)
<1>1. /\ more \in Seq(Edge) /\ Len(more) = Len(es) + 1 /\ Len(es) \in Nat
      /\ \A i \in 1..Len(es) : more[i] = es[i]
      /\ more[Len(es) + 1] = e
  BY AppendProperties, LenProperties
<1>2. DOMAIN es = 1..Len(es) /\ DOMAIN more = 1..Len(es) + 1
  BY <1>1, LenProperties
<1> HIDE DEF more
<1>3. EdgesOf(more) = EdgesOf(es) \cup {e}
  <2>1. \A i \in 1..Len(es) + 1 : i \in 1..Len(es) \/ i = Len(es) + 1
    BY <1>1
  <2>2. 1..Len(es) \subseteq 1..Len(es) + 1 /\ Len(es) + 1 \in 1..Len(es) + 1
    BY <1>1
  <2> QED
    BY <1>1, <1>2, <2>1, <2>2 DEF EdgesOf
<1> QED
  BY <1>1, <1>3 DEF more

(* No edge is a loop, in a list without edges as in one with a proper one  *)
(* more.                                                                   *)
LEMMA NoLoopsAppend ==
  /\ <<>> \in Seq(Edge) /\ NoLoops(EdgesOf(<<>>))
  /\ \A es \in Seq(Edge), e \in Edge :
       NoLoops(EdgesOf(es)) /\ e.src # e.dst => NoLoops(EdgesOf(Append(es, e)))
<1>1. <<>> \in Seq(Edge)
  BY EmptySeq
<1>2. EdgesOf(<<>>) = {}
  BY DEF EdgesOf
<1>3. ASSUME NEW es \in Seq(Edge), NEW e \in Edge, NoLoops(EdgesOf(es)), e.src # e.dst
      PROVE  NoLoops(EdgesOf(Append(es, e)))
  <2>1. EdgesOf(Append(es, e)) = EdgesOf(es) \cup {e}
    BY AppendEdge
  <2> QED
    BY <1>3, <2>1 DEF NoLoops
<1> QED
  BY <1>1, <1>2, <1>3 DEF NoLoops

(* What may be read of a problem file, and of a list of edges.             *)
Proper == {es \in Seq(Edge) : NoLoops(EdgesOf(es))}
Readings == [n : Nat, edges : Proper]

(* A line of a problem file leaves what was read so far proper.            *)
LEMMA ArcLineReads == \A d \in Readings, l \in ArcLine : ReadArcLine(d, l) \in Readings
<1> SUFFICES ASSUME NEW d \in Readings, NEW l \in ArcLine PROVE ReadArcLine(d, l) \in Readings
  OBVIOUS
<1>1. d.n \in Nat /\ d.edges \in Proper
  BY DEF Readings
<1>2. d.edges \in Seq(Edge) /\ NoLoops(EdgesOf(d.edges))
  BY <1>1 DEF Proper
<1>3. CASE l.tag = "p"
  <2>1. l.n \in Nat
    BY <1>3 DEF ArcLine
  <2>2. ReadArcLine(d, l) = [n |-> l.n, edges |-> d.edges]
    BY <1>3 DEF ReadArcLine
  <2> QED
    BY <1>1, <2>1, <2>2 DEF Readings
<1>4. CASE l.tag = "a" /\ l.u # l.v
  <2> DEFINE e == [src |-> l.u, dst |-> l.v, weight |-> l.w]
             more == Append(d.edges, e)
  <2>1. l.u \in Int /\ l.v \in Int /\ l.w \in Int
    BY <1>4 DEF ArcLine
  <2>2. e \in Edge /\ e.src # e.dst
    BY <1>4, <2>1 DEF Edge
  <2>3. ReadArcLine(d, l) = [n |-> d.n, edges |-> more]
    BY <1>4 DEF ReadArcLine
  <2> HIDE DEF e
  <2>4. more \in Proper
    BY <1>2, <2>2, AppendEdge, NoLoopsAppend DEF Proper
  <2> HIDE DEF more
  <2> QED
    BY <1>1, <2>3, <2>4 DEF Readings
<1>5. CASE ~(l.tag = "p") /\ ~(l.tag = "a" /\ l.u # l.v)
  BY <1>5 DEF ReadArcLine
<1> QED
  BY <1>3, <1>4, <1>5

(* parseDIMACS reads line by line.                                         *)
LEMMA DIMACSSteps ==
  ASSUME NEW lines \in Seq(ArcLine)
  PROVE  \E r \in [0..Len(lines) -> Readings] :
           /\ r[0] = [n |-> 0, edges |-> <<>>]
           /\ \A k \in 1..Len(lines) : r[k] = ReadArcLine(r[k - 1], lines[k])
           /\ ParseDIMACS(lines) =
                IF (\E i \in DOMAIN lines : lines[i].tag = "bad") \/ r[Len(lines)].n = 0 THEN Failed
                ELSE [err |-> FALSE, vertices |-> [i \in 1..r[Len(lines)].n |-> i],
                      edges |-> r[Len(lines)].edges, directed |-> TRUE]
<1> DEFINE n == Len(lines)
           start == [n |-> 0, edges |-> <<>>]
           Steps == [k \in 1..n |-> [x \in Readings |-> ReadArcLine(x, lines[k])]]
           Def(g) == [k \in 0..n |-> IF k = 0 THEN start ELSE ReadArcLine(g[k - 1], lines[k])]
<1>1. n \in Nat
  BY LenProperties
<1>2. start \in Readings
  BY NoLoopsAppend DEF Readings, Proper
<1>3. Steps \in [1..n -> [Readings -> Readings]]
  <2> SUFFICES ASSUME NEW k \in 1..n, NEW x \in Readings
               PROVE  ReadArcLine(x, lines[k]) \in Readings
    OBVIOUS
  <2>1. lines[k] \in ArcLine
    BY ElementOfSeq
  <2> QED
    BY <2>1, ArcLineReads
<1> HIDE DEF n, start, Steps
<1>4. PICK r \in [0..n -> Readings] : Iterates(r, start, Steps, n)
  BY <1>1, <1>2, <1>3, IterationExists
<1>5. r[0] = start /\ \A k \in 1..n : r[k] = ReadArcLine(r[k - 1], lines[k])
  <2>1. \A k \in 1..n : k - 1 \in 0..n
    BY <1>1
  <2>2. \A k \in 1..n, x \in Readings : Steps[k][x] = ReadArcLine(x, lines[k])
    BY DEF Steps
  <2> QED
    BY <1>4, <2>1, <2>2 DEF Iterates
<1>6. r = Def(r)
  <2> SUFFICES ASSUME NEW k \in 0..n, k # 0 PROVE r[k] = ReadArcLine(r[k - 1], lines[k])
    BY <1>5
  <2>1. k \in 1..n
    BY <1>1
  <2> QED
    BY <1>5, <2>1
<1> DEFINE f == CHOOSE g : g = Def(g)
<1>7. f = Def(f)
  BY <1>6
<1>8. ParseDIMACS(lines) =
                IF (\E i \in DOMAIN lines : lines[i].tag = "bad") \/ f[n].n = 0 THEN Failed
                ELSE [err |-> FALSE, vertices |-> [i \in 1..f[n].n |-> i],
                      edges |-> f[n].edges, directed |-> TRUE]
  BY DEF ParseDIMACS, n, start
<1> HIDE DEF f
<1>9. f[0] = start /\ \A k \in 1..n : f[k] = ReadArcLine(f[k - 1], lines[k])
  <2>1. \A k \in 0..n : f[k] = IF k = 0 THEN start ELSE ReadArcLine(f[k - 1], lines[k])
    BY <1>7
  <2>2. 0 \in 0..n /\ \A k \in 1..n : k \in 0..n /\ k # 0
    BY <1>1
  <2> QED
    BY <2>1, <2>2
<1>10. f[n] = r[n]
  <2>1. GoAlike(r, f, n)
    BY <1>5, <1>9 DEF GoAlike
  <2>2. Alike(r, f, n)
    BY <1>1, <2>1, SameIterations
  <2>3. n \in 0..n
    BY <1>1
  <2> QED
    BY <2>2, <2>3 DEF Alike
<1> QED
  BY <1>4, <1>5, <1>8, <1>10 DEF n, start

(* A network as parsed: no loops, and if it is undirected no two edges     *)
(* between the same vertices.                                              *)
OneEdgeEach(es) ==
  \A i, j \in DOMAIN es : {es[i].src, es[i].dst} = {es[j].src, es[j].dst} => i = j

IsDataset(ds) ==
  /\ IsFiniteSet(ToSet(ds.vertices)) /\ ds.edges \in Proper /\ ds.directed \in BOOLEAN
  /\ ~ds.directed => OneEdgeEach(ds.edges)

(* As many numbers as there are vertices are finitely many.                *)
LEMMA VerticesFinite ==
  \A n \in Nat : /\ IsFiniteSet(ToSet([i \in 1..n |-> i]))
                 /\ IsFiniteSet(ToSet([i \in 1..n |-> i - 1]))
<1> SUFFICES ASSUME NEW n \in Nat
             PROVE  /\ IsFiniteSet(ToSet([i \in 1..n |-> i]))
                    /\ IsFiniteSet(ToSet([i \in 1..n |-> i - 1]))
  OBVIOUS
<1> DEFINE I == 1..n
           s == [i \in 1..n |-> i]
           t == [i \in 1..n |-> i - 1]
<1>1. IsFiniteSet(I)
  BY FirstNumbers, Zenon
<1>2. s \in Surjection(I, ToSet(s)) /\ t \in Surjection(I, ToSet(t))
  BY DEF Surjection, ToSet
<1> HIDE DEF I, s, t
<1>3. IsFiniteSet(ToSet(s)) /\ IsFiniteSet(ToSet(t))
  BY <1>1, <1>2, FS_Surjection
<1> QED
  BY <1>3 DEF s, t

(* Of a problem file parseDIMACS makes a network.                          *)
LEMMA DIMACSIsDataset ==
  ASSUME NEW lines \in Seq(ArcLine), ~ParseDIMACS(lines).err
  PROVE  IsDataset(ParseDIMACS(lines))
<1>1. PICK r \in [0..Len(lines) -> Readings] :
        ParseDIMACS(lines) =
          IF (\E i \in DOMAIN lines : lines[i].tag = "bad") \/ r[Len(lines)].n = 0 THEN Failed
          ELSE [err |-> FALSE, vertices |-> [i \in 1..r[Len(lines)].n |-> i],
                edges |-> r[Len(lines)].edges, directed |-> TRUE]
  BY DIMACSSteps
<1>2. r[Len(lines)] \in Readings
  BY LenProperties
<1> DEFINE d == r[Len(lines)]
           vertices == [i \in 1..d.n |-> i]
           es == d.edges
<1>3. d.n \in Nat /\ es \in Proper
  BY <1>2 DEF Readings
<1>4. IsFiniteSet(ToSet(vertices))
  BY <1>3, VerticesFinite
<1>5. ParseDIMACS(lines) = [err |-> FALSE, vertices |-> vertices, edges |-> es, directed |-> TRUE]
  BY <1>1 DEF Failed
<1> HIDE DEF d, vertices, es
<1>6. /\ ParseDIMACS(lines).vertices = vertices /\ ParseDIMACS(lines).edges = es
      /\ ParseDIMACS(lines).directed = TRUE
  BY <1>5
<1> QED
  BY <1>3, <1>4, <1>6 DEF IsDataset

(* Lists of edges as parseCSVZip keeps them.                               *)
KeptOnce == {es \in Proper : OneEdgeEach(es)}

(* A row leaves them so.                                                   *)
LEMMA RowKeeps == \A es \in KeptOnce, r \in Row : KeepRow(es, r) \in KeptOnce
<1> SUFFICES ASSUME NEW es \in KeptOnce, NEW r \in Row PROVE KeepRow(es, r) \in KeptOnce
  OBVIOUS
<1> DEFINE Joins(i) == {es[i].src, es[i].dst} = {r.u, r.v}
<1>1. es \in Seq(Edge) /\ NoLoops(EdgesOf(es)) /\ OneEdgeEach(es)
  BY DEF KeptOnce, Proper
<1>2. CASE r.tag # "row" \/ r.u = r.v \/ \E i \in DOMAIN es : Joins(i)
  BY <1>2 DEF KeepRow
<1>3. CASE ~(r.tag # "row" \/ r.u = r.v \/ \E i \in DOMAIN es : Joins(i))
  <2> DEFINE e == [src |-> r.u, dst |-> r.v, weight |-> r.w]
             more == Append(es, e)
  <2>1. r.u \in Int /\ r.v \in Int /\ r.w \in Int
    BY <1>3 DEF Row
  <2>2. e \in Edge /\ e.src # e.dst /\ e.src = r.u /\ e.dst = r.v
    BY <1>3, <2>1 DEF Edge
  <2>3. KeepRow(es, r) = more
    BY <1>3 DEF KeepRow
  <2>4. \A i \in DOMAIN es : {es[i].src, es[i].dst} # {e.src, e.dst}
    BY <1>3, <2>2
  <2> HIDE DEF e
  <2>5. more \in Proper
    BY <1>1, <2>2, AppendEdge, NoLoopsAppend DEF Proper
  <2>6. OneEdgeEach(more)
    <3>1. /\ more \in Seq(Edge) /\ Len(more) = Len(es) + 1 /\ Len(es) \in Nat
          /\ \A i \in 1..Len(es) : more[i] = es[i]
          /\ more[Len(es) + 1] = e
      BY <1>1, <2>2, AppendEdge
    <3>2. DOMAIN es = 1..Len(es) /\ DOMAIN more = 1..Len(es) + 1
      BY <1>1, <3>1, LenProperties
    <3> HIDE DEF more
    <3>3. \A i \in 1..Len(es) + 1 : i \in 1..Len(es) \/ i = Len(es) + 1
      BY <3>1
    <3>4. \A i \in DOMAIN more : \/ i \in DOMAIN es /\ more[i] = es[i]
                                 \/ i = Len(es) + 1 /\ more[i] = e
      BY <3>1, <3>2, <3>3
    <3> QED
      BY <1>1, <2>4, <3>4, Zenon DEF OneEdgeEach
  <2> QED
    BY <2>3, <2>5, <2>6 DEF KeptOnce
<1> QED
  BY <1>2, <1>3

(* parseCSVZip reads row by row.                                           *)
LEMMA CSVSteps ==
  ASSUME NEW nodes, NEW rows \in Seq(Row)
  PROVE  \E r \in [0..Len(rows) -> KeptOnce] :
           /\ r[0] = <<>>
           /\ \A k \in 1..Len(rows) : r[k] = KeepRow(r[k - 1], rows[k])
           /\ ParseCSVZip(nodes, rows) =
                IF \E i \in DOMAIN rows : rows[i].tag = "bad" THEN Failed
                ELSE [err |-> FALSE, vertices |-> [i \in 1..CountCSVRows(nodes) |-> i - 1],
                      edges |-> r[Len(rows)], directed |-> FALSE]
<1> DEFINE n == Len(rows)
           start == <<>>
           Steps == [k \in 1..n |-> [x \in KeptOnce |-> KeepRow(x, rows[k])]]
           Def(g) == [k \in 0..n |-> IF k = 0 THEN start ELSE KeepRow(g[k - 1], rows[k])]
<1>1. n \in Nat
  BY LenProperties
<1>2. start \in KeptOnce
  BY NoLoopsAppend DEF KeptOnce, Proper, OneEdgeEach
<1>3. Steps \in [1..n -> [KeptOnce -> KeptOnce]]
  <2> SUFFICES ASSUME NEW k \in 1..n, NEW x \in KeptOnce
               PROVE  KeepRow(x, rows[k]) \in KeptOnce
    OBVIOUS
  <2>1. rows[k] \in Row
    BY ElementOfSeq
  <2> QED
    BY <2>1, RowKeeps
<1> HIDE DEF n, start, Steps
<1>4. PICK r \in [0..n -> KeptOnce] : Iterates(r, start, Steps, n)
  BY <1>1, <1>2, <1>3, IterationExists
<1>5. r[0] = start /\ \A k \in 1..n : r[k] = KeepRow(r[k - 1], rows[k])
  <2>1. \A k \in 1..n : k - 1 \in 0..n
    BY <1>1
  <2>2. \A k \in 1..n, x \in KeptOnce : Steps[k][x] = KeepRow(x, rows[k])
    BY DEF Steps
  <2> QED
    BY <1>4, <2>1, <2>2 DEF Iterates
<1>6. r = Def(r)
  <2> SUFFICES ASSUME NEW k \in 0..n, k # 0 PROVE r[k] = KeepRow(r[k - 1], rows[k])
    BY <1>5
  <2>1. k \in 1..n
    BY <1>1
  <2> QED
    BY <1>5, <2>1
<1> DEFINE f == CHOOSE g : g = Def(g)
<1>7. f = Def(f)
  BY <1>6
<1>8. ParseCSVZip(nodes, rows) =
                IF \E i \in DOMAIN rows : rows[i].tag = "bad" THEN Failed
                ELSE [err |-> FALSE, vertices |-> [i \in 1..CountCSVRows(nodes) |-> i - 1],
                      edges |-> f[n], directed |-> FALSE]
  BY DEF ParseCSVZip, n, start
<1> HIDE DEF f
<1>9. f[0] = start /\ \A k \in 1..n : f[k] = KeepRow(f[k - 1], rows[k])
  <2>1. \A k \in 0..n : f[k] = IF k = 0 THEN start ELSE KeepRow(f[k - 1], rows[k])
    BY <1>7
  <2>2. 0 \in 0..n /\ \A k \in 1..n : k \in 0..n /\ k # 0
    BY <1>1
  <2> QED
    BY <2>1, <2>2
<1>10. f[n] = r[n]
  <2>1. GoAlike(r, f, n)
    BY <1>5, <1>9 DEF GoAlike
  <2>2. Alike(r, f, n)
    BY <1>1, <2>1, SameIterations
  <2>3. n \in 0..n
    BY <1>1
  <2> QED
    BY <2>2, <2>3 DEF Alike
<1> QED
  BY <1>4, <1>5, <1>8, <1>10 DEF n, start

(* Of a zip archive parseCSVZip makes a network.                           *)
LEMMA CSVIsDataset ==
  ASSUME NEW nodes \in Seq(Row), NEW rows \in Seq(Row), ~ParseCSVZip(nodes, rows).err
  PROVE  IsDataset(ParseCSVZip(nodes, rows))
<1> DEFINE n == CountCSVRows(nodes)
           vertices == [i \in 1..n |-> i - 1]
           Full == {i \in DOMAIN nodes : nodes[i].tag # "blank"}
<1>1. PICK r \in [0..Len(rows) -> KeptOnce] :
        ParseCSVZip(nodes, rows) =
          IF \E i \in DOMAIN rows : rows[i].tag = "bad" THEN Failed
          ELSE [err |-> FALSE, vertices |-> vertices, edges |-> r[Len(rows)], directed |-> FALSE]
  BY CSVSteps
<1> DEFINE es == r[Len(rows)]
<1>2. es \in KeptOnce
  BY LenProperties
<1>3. n \in Nat
  <2>1. Full \subseteq 1..Len(nodes) /\ Len(nodes) \in Nat
    BY LenProperties
  <2>2. IsFiniteSet(1..Len(nodes))
    BY <2>1, FirstNumbers, Zenon
  <2> HIDE DEF Full
  <2>3. Cardinality(Full) \in Nat
    BY <2>1, <2>2, FS_Subset, FS_CardinalityType
  <2> QED
    BY <2>3 DEF CountCSVRows, Full
<1> HIDE DEF n
<1>4. IsFiniteSet(ToSet(vertices))
  BY <1>3, VerticesFinite
<1>5. ParseCSVZip(nodes, rows) =
        [err |-> FALSE, vertices |-> vertices, edges |-> es, directed |-> FALSE]
  BY <1>1 DEF Failed
<1> HIDE DEF vertices, es
<1>6. /\ ParseCSVZip(nodes, rows).vertices = vertices /\ ParseCSVZip(nodes, rows).edges = es
      /\ ParseCSVZip(nodes, rows).directed = FALSE
  BY <1>5
<1> QED
  BY <1>2, <1>4, <1>6 DEF IsDataset, KeptOnce
-----------------------------------------------------------------------------
(* The edges that are travelled, of a directed network or an undirected.   *)
Effective(E, directed) == IF directed THEN E ELSE E \cup {Reversed(e) : e \in E}

(* Turned round an edge is an edge, and again it is itself.                *)
LEMMA ReversedIs ==
  \A e \in Edge : /\ Reversed(e) \in Edge /\ Reversed(Reversed(e)) = e
                  /\ Reversed(e).src = e.dst /\ Reversed(e).dst = e.src
                  /\ Reversed(e).weight = e.weight
BY DEF Reversed, Edge

(* Of the doubled list the odd elements are the edges, the even ones their *)
(* reverses.                                                               *)
LEMMA Halves ==
  \A n \in Nat :
    /\ \A k \in 1..2 * n : /\ k % 2 = 1 => (k + 1) \div 2 \in 1..n
                           /\ k % 2 # 1 => k \div 2 \in 1..n
    /\ \A i \in 1..n : /\ 2 * i - 1 \in 1..2 * n /\ (2 * i - 1) % 2 = 1
                       /\ ((2 * i - 1) + 1) \div 2 = i
                       /\ 2 * i \in 1..2 * n /\ (2 * i) % 2 # 1 /\ (2 * i) \div 2 = i
OBVIOUS

(* forEachEffectiveEdge passes those edges.                                *)
LEMMA BothWaysIs ==
  ASSUME NEW es \in Seq(Edge), NEW directed \in BOOLEAN
  PROVE  /\ BothWays(es, directed) \in Seq(Edge)
         /\ EdgesOf(BothWays(es, directed)) = Effective(EdgesOf(es), directed)
<1> DEFINE n == Len(es)
           b == BothWays(es, directed)
<1>1. n \in Nat /\ DOMAIN es = 1..n /\ \A i \in 1..n : es[i] \in Edge
  BY LenProperties, ElementOfSeq
<1>2. CASE directed
  BY <1>2 DEF BothWays, Effective
<1>3. CASE ~directed
  <2>1. b = [k \in 1..2 * n |-> IF k % 2 = 1 THEN es[(k + 1) \div 2] ELSE Reversed(es[k \div 2])]
    BY <1>3 DEF BothWays
  <2> HIDE DEF n
  <2>2. /\ 2 * n \in Nat
        /\ \A k \in 1..2 * n : /\ k % 2 = 1 => (k + 1) \div 2 \in 1..n
                               /\ k % 2 # 1 => k \div 2 \in 1..n
        /\ \A i \in 1..n : /\ 2 * i - 1 \in 1..2 * n /\ (2 * i - 1) % 2 = 1
                           /\ ((2 * i - 1) + 1) \div 2 = i
                           /\ 2 * i \in 1..2 * n /\ (2 * i) % 2 # 1 /\ (2 * i) \div 2 = i
    BY <1>1, Halves
  <2>3. \A k \in 1..2 * n : /\ k % 2 = 1 => b[k] = es[(k + 1) \div 2]
                            /\ k % 2 # 1 => b[k] = Reversed(es[k \div 2])
    BY <2>1
  <2>4. \A k \in 1..2 * n : b[k] \in Edge
    BY <1>1, <2>2, <2>3, ReversedIs
  <2>5. b \in [1..2 * n -> Edge]
    BY <2>1, <2>4
  <2>6. DOMAIN b = 1..2 * n
    BY <2>1
  <2> HIDE DEF b
  <2>7. b \in Seq(Edge)
    BY <2>2, <2>5, SeqDef
  <2>8. \A i \in 1..n : b[2 * i - 1] = es[i] /\ b[2 * i] = Reversed(es[i])
    BY <2>2, <2>3
  <2>9. EdgesOf(b) \subseteq EdgesOf(es) \cup {Reversed(e) : e \in EdgesOf(es)}
    BY <1>1, <2>2, <2>3, <2>6 DEF EdgesOf
  <2>10. EdgesOf(es) \cup {Reversed(e) : e \in EdgesOf(es)} \subseteq EdgesOf(b)
    <3>1. ASSUME NEW i \in 1..n PROVE es[i] \in EdgesOf(b) /\ Reversed(es[i]) \in EdgesOf(b)
      <4>1. 2 * i - 1 \in DOMAIN b /\ 2 * i \in DOMAIN b
        BY <2>2, <2>6
      <4> QED
        BY <2>8, <4>1, Zenon DEF EdgesOf
    <3> QED
      BY <1>1, <3>1, Zenon DEF EdgesOf
  <2> QED
    BY <1>3, <2>7, <2>9, <2>10 DEF Effective, b
<1> QED
  BY <1>2, <1>3

(* Travelled both ways a network without loops has none.                   *)
LEMMA EffectiveNoLoops ==
  \A E, d : NoLoops(E) => NoLoops(Effective(E, d))
BY ReversedIs DEF NoLoops, Effective

-----------------------------------------------------------------------------
(* Rounding gives a whole number.                                          *)
LEMMA RoundedType == \A w \in Int : Rounded(w) \in Int
<1>1. Parts \in Nat /\ Parts > 0
  BY RoadAssumption
<1> SUFFICES ASSUME NEW w \in Int PROVE Rounded(w) \in Int
  OBVIOUS
<1>2. Parts \div 2 \in Int
  BY <1>1
<1>3. (w + Parts \div 2) \div Parts \in Int
  BY <1>1, <1>2
<1> QED
  BY <1>1, <1>3 DEF Rounded

RoundedEdge(e) == [src |-> e.src, dst |-> e.dst, weight |-> Rounded(e.weight)]

(* An edge of the file.                                                    *)
LEMMA RoundedEdgeIs ==
  \A e \in Edge : /\ RoundedEdge(e) \in Edge
                  /\ RoundedEdge(e).src = e.src /\ RoundedEdge(e).dst = e.dst
                  /\ RoundedEdge(e).weight = Rounded(e.weight)
BY RoundedType DEF RoundedEdge, Edge

(* writeEdges writes the edges that are travelled, rounded.                *)
LEMMA WriteEdgesIs ==
  ASSUME NEW ds, ds.edges \in Seq(Edge), ds.directed \in BOOLEAN
  PROVE  /\ WriteEdges(ds) \in Seq(Edge)
         /\ EdgesOf(WriteEdges(ds)) =
              {RoundedEdge(e) : e \in Effective(EdgesOf(ds.edges), ds.directed)}
<1> DEFINE es == BothWays(ds.edges, ds.directed)
           written == WriteEdges(ds)
<1>1. es \in Seq(Edge) /\ EdgesOf(es) = Effective(EdgesOf(ds.edges), ds.directed)
  BY BothWaysIs
<1>2. written = [i \in DOMAIN es |-> RoundedEdge(es[i])]
  BY DEF WriteEdges, ForEachEffectiveEdge, RoundedEdge
<1> HIDE DEF es, written
<1>3. DOMAIN es = 1..Len(es) /\ Len(es) \in Nat /\ \A i \in DOMAIN es : es[i] \in Edge
  BY <1>1, LenProperties, ElementOfSeq
<1>4. written \in [1..Len(es) -> Edge]
  BY <1>2, <1>3, RoundedEdgeIs
<1>5. written \in Seq(Edge)
  BY <1>3, <1>4, SeqDef
<1>6. EdgesOf(written) = {RoundedEdge(e) : e \in EdgesOf(es)}
  BY <1>2 DEF EdgesOf
<1> QED
  BY <1>1, <1>5, <1>6 DEF written

-----------------------------------------------------------------------------
Values == BOOLEAN \cup Int \cup {"weight"}
PropertyLines == [key : {"directed", "weight-property", "sssp-source"}, val : Values]
PropertySets == [Directed : Values, WeightedSSSP : BOOLEAN, SourceVertex : Values]

(* A line of .properties leaves properties.                                *)
LEMMA PropertyLineReads ==
  \A p \in PropertySets, l \in PropertyLines : ReadPropertyLine(p, l) \in PropertySets
BY DEF PropertySets, PropertyLines, ReadPropertyLine

(* ReadProperties reads line by line.                                      *)
LEMMA PropertySteps ==
  ASSUME NEW lines \in Seq(PropertyLines)
  PROVE  \E r \in [0..Len(lines) -> PropertySets] :
           /\ r[0] = [Directed |-> FALSE, WeightedSSSP |-> FALSE, SourceVertex |-> 0]
           /\ \A k \in 1..Len(lines) : r[k] = ReadPropertyLine(r[k - 1], lines[k])
           /\ ReadProperties(lines) = r[Len(lines)]
<1> DEFINE n == Len(lines)
           start == [Directed |-> FALSE, WeightedSSSP |-> FALSE, SourceVertex |-> 0]
           Steps == [k \in 1..n |-> [x \in PropertySets |-> ReadPropertyLine(x, lines[k])]]
           Def(g) == [k \in 0..n |-> IF k = 0 THEN start ELSE ReadPropertyLine(g[k - 1], lines[k])]
<1>1. n \in Nat
  BY LenProperties
<1>2. start \in PropertySets
  BY DEF PropertySets, Values
<1>3. Steps \in [1..n -> [PropertySets -> PropertySets]]
  <2> SUFFICES ASSUME NEW k \in 1..n, NEW x \in PropertySets
               PROVE  ReadPropertyLine(x, lines[k]) \in PropertySets
    OBVIOUS
  <2>1. lines[k] \in PropertyLines
    BY ElementOfSeq
  <2> QED
    BY <2>1, PropertyLineReads
<1> HIDE DEF n, start, Steps
<1>4. PICK r \in [0..n -> PropertySets] : Iterates(r, start, Steps, n)
  BY <1>1, <1>2, <1>3, IterationExists
<1>5. r[0] = start /\ \A k \in 1..n : r[k] = ReadPropertyLine(r[k - 1], lines[k])
  <2>1. \A k \in 1..n : k - 1 \in 0..n
    BY <1>1
  <2>2. \A k \in 1..n, x \in PropertySets : Steps[k][x] = ReadPropertyLine(x, lines[k])
    BY DEF Steps
  <2> QED
    BY <1>4, <2>1, <2>2 DEF Iterates
<1>6. r = Def(r)
  <2> SUFFICES ASSUME NEW k \in 0..n, k # 0 PROVE r[k] = ReadPropertyLine(r[k - 1], lines[k])
    BY <1>5
  <2>1. k \in 1..n
    BY <1>1
  <2> QED
    BY <1>5, <2>1
<1> DEFINE f == CHOOSE g : g = Def(g)
<1>7. f = Def(f)
  BY <1>6
<1>8. ReadProperties(lines) = f[n]
  BY DEF ReadProperties, n, start
<1> HIDE DEF f
<1>9. f[0] = start /\ \A k \in 1..n : f[k] = ReadPropertyLine(f[k - 1], lines[k])
  <2>1. \A k \in 0..n : f[k] = IF k = 0 THEN start ELSE ReadPropertyLine(f[k - 1], lines[k])
    BY <1>7
  <2>2. 0 \in 0..n /\ \A k \in 1..n : k \in 0..n /\ k # 0
    BY <1>1
  <2> QED
    BY <2>1, <2>2
<1>10. f[n] = r[n]
  <2>1. GoAlike(r, f, n)
    BY <1>5, <1>9 DEF GoAlike
  <2>2. Alike(r, f, n)
    BY <1>1, <2>1, SameIterations
  <2>3. n \in 0..n
    BY <1>1
  <2> QED
    BY <2>2, <2>3 DEF Alike
<1> QED
  BY <1>4, <1>5, <1>8, <1>10 DEF n, start

(* The properties read are those that were written.                        *)
LEMMA PropertiesBack ==
  ASSUME NEW ds, ds.directed \in BOOLEAN, NEW source \in Int
  PROVE  /\ ReadProperties(WriteProperties(ds, source)).Directed = ds.directed
         /\ ReadProperties(WriteProperties(ds, source)).SourceVertex = source
<1> DEFINE d == ds.directed
           one == [key |-> "directed", val |-> d]
           two == [key |-> "weight-property", val |-> "weight"]
           three == [key |-> "sssp-source", val |-> source]
           lines == WriteProperties(ds, source)
<1>1. one \in PropertyLines /\ two \in PropertyLines /\ three \in PropertyLines
  BY DEF PropertyLines, Values
<1>2. lines = <<one, two, three>>
  BY DEF WriteProperties
<1>3. one.key = "directed" /\ one.val = d /\ two.key = "weight-property"
        /\ three.key = "sssp-source" /\ three.val = source
  OBVIOUS
<1> HIDE DEF d, one, two, three, lines
<1>4. /\ lines \in Seq(PropertyLines) /\ Len(lines) = 3
      /\ lines[1] = one /\ lines[2] = two /\ lines[3] = three
  BY <1>1, <1>2
<1>5. PICK r \in [0..Len(lines) -> PropertySets] :
        /\ r[0] = [Directed |-> FALSE, WeightedSSSP |-> FALSE, SourceVertex |-> 0]
        /\ \A k \in 1..Len(lines) : r[k] = ReadPropertyLine(r[k - 1], lines[k])
        /\ ReadProperties(lines) = r[Len(lines)]
  BY <1>4, PropertySteps
<1>6. /\ r[1] = ReadPropertyLine(r[0], one) /\ r[2] = ReadPropertyLine(r[1], two)
      /\ r[3] = ReadPropertyLine(r[2], three) /\ ReadProperties(lines) = r[3]
  <2>1. 1 \in 1..Len(lines) /\ 2 \in 1..Len(lines) /\ 3 \in 1..Len(lines)
    BY <1>4
  <2>2. r[1] = ReadPropertyLine(r[1 - 1], one)
    BY <1>4, <1>5, <2>1
  <2>3. r[2] = ReadPropertyLine(r[2 - 1], two)
    BY <1>4, <1>5, <2>1
  <2>4. r[3] = ReadPropertyLine(r[3 - 1], three)
    BY <1>4, <1>5, <2>1
  <2>5. 1 - 1 = 0 /\ 2 - 1 = 1 /\ 3 - 1 = 2
    OBVIOUS
  <2>6. ReadProperties(lines) = r[3]
    BY <1>4, <1>5, Zenon
  <2> QED
    BY <2>2, <2>3, <2>4, <2>5, <2>6, Zenon
<1>7. r[0] \in PropertySets /\ r[1] \in PropertySets /\ r[2] \in PropertySets
  <2>1. 0 \in 0..Len(lines) /\ 1 \in 0..Len(lines) /\ 2 \in 0..Len(lines)
    BY <1>4
  <2> QED
    BY <1>5, <2>1
<1>8. r[1].Directed = d
  <2>1. r[1] = [r[0] EXCEPT !.Directed = d]
    BY <1>3, <1>6 DEF ReadPropertyLine
  <2> QED
    BY <1>7, <2>1 DEF PropertySets
<1>9. r[2].Directed = d
  <2>1. r[2] = [r[1] EXCEPT !.WeightedSSSP = TRUE]
    BY <1>3, <1>6 DEF ReadPropertyLine
  <2> QED
    BY <1>7, <1>8, <2>1 DEF PropertySets
<1>10. r[3].Directed = d /\ r[3].SourceVertex = source
  <2>1. r[3] = [r[2] EXCEPT !.SourceVertex = source]
    BY <1>3, <1>6 DEF ReadPropertyLine
  <2> QED
    BY <1>7, <1>9, <2>1 DEF PropertySets
<1> QED
  BY <1>6, <1>10 DEF d, lines
-----------------------------------------------------------------------------
(* dgraph holds for each pair the weight of one of its triples.            *)
LEMMA LoadedIs ==
  ASSUME NEW triples \in Seq(Edge), NEW g
  PROVE  g \in Loaded(triples) <=>
           /\ g \in WeightedGraphs /\ DOMAIN g = PairsOf(EdgesOf(triples))
           /\ \A p \in DOMAIN g : Chosen(g, p, EdgesOf(triples))
<1> DEFINE E == EdgesOf(triples)
           pairs == {<<triples[i].src, triples[i].dst>> : i \in DOMAIN triples}
           weights == {triples[i].weight : i \in DOMAIN triples}
           Some(h, p) == \E i \in DOMAIN triples :
                           <<triples[i].src, triples[i].dst>> = p /\ triples[i].weight = h[p]
<1>1. \A e \in E : e \in Edge
  BY LenProperties, ElementOfSeq DEF EdgesOf
<1>2. pairs = PairsOf(E) /\ weights = {e.weight : e \in E}
  BY DEF PairsOf, PairOf, EdgesOf
<1>3. \A h, p : Some(h, p) <=> Chosen(h, p, E)
  BY DEF Chosen, PairOf, EdgesOf
<1>4. g \in Loaded(triples) <=> g \in [pairs -> weights] /\ \A p \in DOMAIN g : Some(g, p)
  BY DEF Loaded
<1> HIDE DEF E, pairs, weights, Some
<1>5. pairs \subseteq Int \X Int /\ weights \subseteq Int
  BY <1>1, <1>2, EdgeParts DEF PairsOf
<1>6. ASSUME g \in [pairs -> weights], \A p \in DOMAIN g : Some(g, p)
      PROVE  /\ g \in WeightedGraphs /\ DOMAIN g = PairsOf(E)
             /\ \A p \in DOMAIN g : Chosen(g, p, E)
  <2>1. g \in [pairs -> Int] /\ DOMAIN g = pairs
    BY <1>5, <1>6
  <2>2. g \in WeightedGraphs
    BY <1>5, <2>1, GraphIs
  <2> QED
    BY <1>2, <1>3, <1>6, <2>1, <2>2
<1>7. ASSUME g \in WeightedGraphs, DOMAIN g = PairsOf(E), \A p \in DOMAIN g : Chosen(g, p, E)
      PROVE  g \in [pairs -> weights] /\ \A p \in DOMAIN g : Some(g, p)
  <2>1. g \in [pairs -> Int]
    BY <1>2, <1>7, GraphParts
  <2>2. \A p \in pairs : g[p] \in weights
    BY <1>2, <1>7 DEF Chosen
  <2> QED
    BY <1>3, <1>7, <2>1, <2>2
<1> QED
  BY <1>4, <1>6, <1>7 DEF E

(* Two graphs over the same pairs with the same weights are one.           *)
LEMMA SameGraph ==
  \A g, h \in WeightedGraphs :
    DOMAIN g = DOMAIN h /\ (\A p \in DOMAIN g : g[p] = h[p]) => g = h
<1> SUFFICES ASSUME NEW g \in WeightedGraphs, NEW h \in WeightedGraphs, DOMAIN g = DOMAIN h,
                    \A p \in DOMAIN g : g[p] = h[p]
             PROVE  g = h
  OBVIOUS
<1>1. g \in [DOMAIN g -> Int] /\ h \in [DOMAIN g -> Int]
  BY GraphParts
<1> QED
  BY <1>1

(* What of an edge of an undirected network stays when it is rounded or    *)
(* turned round.                                                           *)
EndsOf(e) == {e.src, e.dst}
FromOf(t, e) == t.weight = Rounded(e.weight) /\ EndsOf(t) = EndsOf(e)
Triples(E, directed) ==
  Effective({RoundedEdge(e) : e \in Effective(E, directed)}, directed)

(* A triple comes from an edge.                                            *)
LEMMA TripleFrom ==
  ASSUME NEW E, NoLoops(E), NEW directed, NEW t \in Triples(E, directed)
  PROVE  t \in Edge /\ \E e \in E : FromOf(t, e)
<1>1. \A e \in Effective(E, directed) :
        e \in Edge /\ \E c \in E : e.weight = c.weight /\ EndsOf(e) = EndsOf(c)
  BY ReversedIs DEF Effective, NoLoops, EndsOf
<1>2. ASSUME NEW e \in Effective(E, directed)
      PROVE  RoundedEdge(e) \in Edge /\ \E c \in E : FromOf(RoundedEdge(e), c)
  <2>1. PICK c \in E : e.weight = c.weight /\ EndsOf(e) = EndsOf(c)
    BY <1>1
  <2>2. e \in Edge
    BY <1>1
  <2>3. FromOf(RoundedEdge(e), c)
    BY <2>1, <2>2, RoundedEdgeIs DEF FromOf, EndsOf
  <2> QED
    BY <2>2, <2>3, RoundedEdgeIs
<1>3. ASSUME NEW e \in Edge, NEW c, FromOf(e, c)
      PROVE  FromOf(Reversed(e), c)
  BY <1>3, ReversedIs DEF FromOf, EndsOf
<1>4. \/ \E e \in Effective(E, directed) : t = RoundedEdge(e)
      \/ \E e \in Effective(E, directed) : t = Reversed(RoundedEdge(e))
  BY DEF Triples, Effective
<1>5. CASE \E e \in Effective(E, directed) : t = RoundedEdge(e)
  BY <1>2, <1>5
<1>6. CASE \E e \in Effective(E, directed) : t = Reversed(RoundedEdge(e))
  <2>1. PICK e \in Effective(E, directed) : t = Reversed(RoundedEdge(e))
    BY <1>6
  <2>2. RoundedEdge(e) \in Edge
    BY <1>2
  <2>3. PICK c \in E : FromOf(RoundedEdge(e), c)
    BY <1>2
  <2>4. FromOf(t, c)
    BY <1>3, <2>1, <2>2, <2>3
  <2> QED
    BY <2>1, <2>2, <2>4, ReversedIs
<1> QED
  BY <1>4, <1>5, <1>6

(* Of an undirected network the triples go both ways.                      *)
LEMMA TriplesBothWays ==
  ASSUME NEW E, NoLoops(E), NEW t \in Triples(E, FALSE)
  PROVE  Reversed(t) \in Triples(E, FALSE)
<1> DEFINE G == {RoundedEdge(e) : e \in Effective(E, FALSE)}
<1>1. \A e \in G : e \in Edge
  BY ReversedIs, RoundedEdgeIs DEF Effective, NoLoops
<1>2. Triples(E, FALSE) = G \cup {Reversed(e) : e \in G}
  BY DEF Triples, Effective
<1> HIDE DEF G
<1> QED
  BY <1>1, <1>2, ReversedIs

(* Edges between the same vertices, of an undirected network, are one.     *)
LEMMA OneEdgeBetween ==
  ASSUME NEW es, OneEdgeEach(es), NEW c \in EdgesOf(es), NEW d \in EdgesOf(es),
         EndsOf(c) = EndsOf(d)
  PROVE  c = d
BY DEF OneEdgeEach, EdgesOf, EndsOf

(* So two triples between the same vertices have one weight.               *)
LEMMA OneWeightBetween ==
  ASSUME NEW es \in Proper, OneEdgeEach(es),
         NEW t \in Triples(EdgesOf(es), FALSE), NEW u \in Triples(EdgesOf(es), FALSE),
         EndsOf(t) = EndsOf(u)
  PROVE  t.weight = u.weight
<1>0. NoLoops(EdgesOf(es))
  BY DEF Proper
<1>1. PICK c \in EdgesOf(es) : FromOf(t, c)
  BY <1>0, TripleFrom
<1>2. PICK d \in EdgesOf(es) : FromOf(u, d)
  BY <1>0, TripleFrom
<1>3. EndsOf(c) = EndsOf(d)
  BY <1>1, <1>2 DEF FromOf
<1>4. c = d
  BY <1>3, OneEdgeBetween
<1> QED
  BY <1>1, <1>2, <1>4 DEF FromOf

-----------------------------------------------------------------------------
(* What the programs make of a network that could be parsed, and of any    *)
(* number: the edge file, the properties, the graph of the oracle and      *)
(* those dgraph may hold.                                                  *)
IsOneGraph(ds, file, props, oracle, graphs, source) ==
  /\ props.SourceVertex = source
  /\ \A g \in graphs : /\ DOMAIN g = DOMAIN oracle
                       /\ \A p \in DOMAIN g : oracle[p] <= g[p]
  /\ SameWeight(file) \/ ~ds.directed => graphs = {oracle}
  /\ ~ds.directed => \A p \in DOMAIN oracle : oracle[<<p[2], p[1]>>] = oracle[p]

(* The oracle's graph has the least weight of each pair among the triples, *)
(* which are the edges of the file in both directions.                     *)
LEMMA OracleOfAny ==
  ASSUME NEW ds, IsDataset(ds), NEW source \in Int,
         NEW file, file = WriteEdges(ds),
         NEW props, props = ReadProperties(WriteProperties(ds, source)),
         NEW triples, triples = WriteRDF(file, props)
  PROVE  /\ ds.edges \in Seq(Edge) /\ NoLoops(EdgesOf(ds.edges))
         /\ props.Directed = ds.directed /\ props.SourceVertex = source
         /\ triples \in Seq(Edge) /\ EdgesOf(triples) = Triples(EdgesOf(ds.edges), ds.directed)
         /\ EdgesOf(triples) = Effective(EdgesOf(file), ds.directed)
         /\ Lightest(OracleGraph(file, props), EdgesOf(triples))
<1> DEFINE es == ds.edges
           dir == ds.directed
           E == EdgesOf(es)
           T == EdgesOf(triples)
<1>1. es \in Seq(Edge) /\ NoLoops(E) /\ dir \in BOOLEAN
  BY DEF IsDataset, Proper
<1>2. props.Directed = dir /\ props.SourceVertex = source
  BY <1>1, PropertiesBack
<1>3. file \in Seq(Edge) /\ EdgesOf(file) = {RoundedEdge(e) : e \in Effective(E, dir)}
  BY <1>1, WriteEdgesIs
<1>4. triples = BothWays(file, dir)
  BY <1>2 DEF WriteRDF
<1>5. triples \in Seq(Edge) /\ T = Effective(EdgesOf(file), dir)
  BY <1>1, <1>3, <1>4, BothWaysIs
<1>6. T = Triples(E, dir)
  BY <1>3, <1>5 DEF Triples
<1>7. OracleGraph(file, props) = Graph(triples)
  BY <1>2, <1>4 DEF OracleGraph
<1> HIDE DEF es, dir, E, T
<1>8. NoLoops(T)
  <2>1. NoLoops(Effective(E, dir))
    BY <1>1, EffectiveNoLoops
  <2>2. NoLoops(EdgesOf(file))
    BY <1>3, <2>1, RoundedEdgeIs DEF NoLoops
  <2> QED
    BY <1>5, <2>2, EffectiveNoLoops
<1>9. Lightest(Graph(triples), T)
  BY <1>5, <1>8, GraphIsLightest DEF T
<1> QED
  BY <1>1, <1>2, <1>5, <1>6, <1>7, <1>9 DEF es, dir, E, T

(* They are what OneGraph says.                                            *)
LEMMA OneGraphOfAny ==
  ASSUME NEW ds, IsDataset(ds), NEW source \in Int,
         NEW file, file = WriteEdges(ds),
         NEW props, props = ReadProperties(WriteProperties(ds, source)),
         NEW oracle, oracle = OracleGraph(file, props),
         NEW graphs, graphs = Loaded(WriteRDF(file, props))
  PROVE  IsOneGraph(ds, file, props, oracle, graphs, source)
<1> DEFINE es == ds.edges
           dir == ds.directed
           E == EdgesOf(es)
           triples == WriteRDF(file, props)
           T == EdgesOf(triples)
<1>1. dir \in BOOLEAN /\ es \in Proper /\ (~dir => OneEdgeEach(es))
  BY DEF IsDataset
<1>2. props.SourceVertex = source
  BY OracleOfAny
<1>3. NoLoops(E) /\ triples \in Seq(Edge)
  BY OracleOfAny
<1>4. T = Effective(EdgesOf(file), dir)
  BY OracleOfAny
<1>5. T = Triples(E, dir)
  BY OracleOfAny
<1>6. graphs = Loaded(triples)
  OBVIOUS
<1>8. Lightest(oracle, T)
  BY OracleOfAny
<1> HIDE DEF es, dir, E, triples, T
<1>9. /\ oracle \in WeightedGraphs /\ DOMAIN oracle = PairsOf(T)
      /\ \A p \in DOMAIN oracle : Chosen(oracle, p, T)
      /\ \A e \in T : NotAbove(oracle, e)
  BY <1>8 DEF Lightest
<1>10. \A g : g \in graphs <=> /\ g \in WeightedGraphs /\ DOMAIN g = PairsOf(T)
                               /\ \A p \in DOMAIN g : Chosen(g, p, T)
  BY <1>3, <1>6, LoadedIs DEF T
<1>11. ASSUME NEW g \in graphs
       PROVE  DOMAIN g = DOMAIN oracle /\ \A p \in DOMAIN g : oracle[p] <= g[p]
  <2>1. DOMAIN g = PairsOf(T) /\ \A p \in DOMAIN g : Chosen(g, p, T)
    BY <1>10
  <2>2. ASSUME NEW p \in DOMAIN g PROVE oracle[p] <= g[p]
    <3>1. PICK e \in T : PairOf(e) = p /\ g[p] = e.weight
      BY <2>1 DEF Chosen
    <3>2. NotAbove(oracle, e)
      BY <1>9
    <3> QED
      BY <3>1, <3>2 DEF NotAbove
  <2> QED
    BY <1>9, <2>1, <2>2
<1>12. ASSUME \A t, u \in T : PairOf(t) = PairOf(u) => t.weight = u.weight
       PROVE  graphs = {oracle}
  <2>1. oracle \in graphs
    BY <1>9, <1>10
  <2>2. ASSUME NEW g \in graphs PROVE g = oracle
    <3>1. /\ g \in WeightedGraphs /\ DOMAIN g = DOMAIN oracle
          /\ \A p \in DOMAIN g : Chosen(g, p, T)
      BY <1>9, <1>10
    <3>2. \A p \in DOMAIN g : g[p] = oracle[p]
      BY <1>9, <1>12, <3>1 DEF Chosen
    <3> QED
      BY <1>9, <3>1, <3>2, SameGraph
  <2> QED
    BY <2>1, <2>2
<1>13. ASSUME ~dir, NEW t \in T, NEW u \in T, EndsOf(t) = EndsOf(u)
       PROVE  t.weight = u.weight
  BY <1>1, <1>5, <1>13, OneWeightBetween DEF E
<1>14. ASSUME SameWeight(file) \/ ~dir PROVE graphs = {oracle}
  <2>1. CASE dir
    <3>1. T = EdgesOf(file) /\ SameWeight(file)
      BY <1>4, <1>14, <2>1 DEF Effective
    <3>2. \A t, u \in T : PairOf(t) = PairOf(u) => t.weight = u.weight
      BY <3>1 DEF SameWeight, EdgesOf, PairOf
    <3> QED
      BY <1>12, <3>2
  <2>2. CASE ~dir
    <3>1. ASSUME NEW t \in T, NEW u \in T, PairOf(t) = PairOf(u) PROVE t.weight = u.weight
      <4>1. EndsOf(t) = EndsOf(u)
        BY <3>1 DEF PairOf, EndsOf
      <4> QED
        BY <1>13, <2>2, <4>1
    <3> QED
      BY <1>12, <3>1
  <2> QED
    BY <2>1, <2>2
<1>15. ASSUME ~dir, NEW p \in DOMAIN oracle PROVE oracle[<<p[2], p[1]>>] = oracle[p]
  <2>1. PICK t \in T : PairOf(t) = p /\ oracle[p] = t.weight
    BY <1>9 DEF Chosen
  <2>2. t \in Edge /\ Reversed(t) \in T
    <3>1. dir = FALSE
      BY <1>1, <1>15
    <3> QED
      BY <1>3, <1>5, <3>1, TripleFrom, TriplesBothWays
  <2>3. <<p[2], p[1]>> = PairOf(Reversed(t))
    BY <2>1, <2>2, ReversedIs DEF PairOf
  <2>4. PairOf(Reversed(t)) \in DOMAIN oracle
    BY <1>9, <2>2 DEF PairsOf
  <2>5. PICK u \in T : PairOf(u) = PairOf(Reversed(t)) /\ oracle[PairOf(Reversed(t))] = u.weight
    BY <1>9, <2>4 DEF Chosen
  <2>6. EndsOf(u) = EndsOf(t)
    BY <2>2, <2>5, ReversedIs DEF PairOf, EndsOf
  <2>7. u.weight = t.weight
    BY <1>13, <1>15, <2>6
  <2> QED
    BY <2>1, <2>3, <2>5, <2>7
<1> QED
  BY <1>2, <1>11, <1>14, <1>15 DEF IsOneGraph, dir

(* What cmd/prepare gets is parsed into a network or not at all.           *)
LEMMA PreparedIs ==
  ASSUME algorithm = "road", input \in Networks, ~Prepared.err
  PROVE  IsDataset(Prepared) /\ input.source \in Int
<1>1. input.source \in Int
  BY AlgorithmsAssumption
<1>2. CASE input.format = "dimacs"
  <2>1. input.lines \in Seq(ArcLine) /\ Prepared = ParseDIMACS(input.lines)
    BY <1>2, AlgorithmsAssumption DEF Prepared
  <2> QED
    BY <1>1, <2>1, DIMACSIsDataset
<1>3. CASE input.format # "dimacs"
  <2>1. input.lines \in Seq(Row) /\ input.nodes \in Seq(Row)
    BY <1>3, AlgorithmsAssumption
  <2>2. Prepared = ParseCSVZip(input.nodes, input.lines)
    BY <1>3 DEF Prepared
  <2> QED
    BY <1>1, <2>1, <2>2, CSVIsDataset
<1> QED
  BY <1>2, <1>3

(* For any network and any source the oracle searches the graph that       *)
(* dgraph is loaded with.                                                  *)
THEOREM OracleSeesWhatDgraphHolds == InputSpec => []OneGraph
<1> DEFINE OfNetwork == algorithm = "road" => input \in Networks
<1>1. InputInit => OfNetwork
  BY DEF InputInit
<1>2. OfNetwork /\ [InputNext]_inputVars => OfNetwork'
  BY DEF InputNext, inputVars
<1>3. OfNetwork => OneGraph
  <2> SUFFICES ASSUME OfNetwork, algorithm = "road", ~Prepared.err PROVE OneGraph
    BY DEF OneGraph
  <2>1. input \in Networks
    OBVIOUS
  <2>2. IsDataset(Prepared) /\ input.source \in Int
    BY <2>1, PreparedIs
  <2>3. IsOneGraph(Prepared, EdgeFile, Props, Oracle, DgraphGraphs, input.source)
    BY <2>2, OneGraphOfAny DEF EdgeFile, Props, Oracle, DgraphGraphs
  <2> QED
    BY <2>3 DEF IsOneGraph, OneGraph
<1> QED
  BY <1>1, <1>2, <1>3, PTL DEF InputSpec
-----------------------------------------------------------------------------
(* Whole division leaves less than the divisor.                            *)
Divides(a, b, q) == q * b <= a /\ a < q * b + b

(* What \div computes is the quotient.                                     *)
LEMMA QuotientOf ==
  \A a, b \in Int : b > 0 => a \div b \in Int /\ Divides(a, b, a \div b)
<1> SUFFICES ASSUME NEW a \in Int, NEW b \in Int, b > 0
             PROVE  /\ a \div b \in Int
                    /\ (a \div b) * b <= a /\ a < (a \div b) * b + b
  BY DEF Divides
<1> QED
  BY SMTT(30)

(* Quotients of larger numbers are no less.                                *)
LEMMA QuotientsAscend ==
  \A a, c, b, q, r \in Int : b > 0 /\ a <= c /\ Divides(a, b, q) /\ Divides(c, b, r) => q <= r
<1> SUFFICES ASSUME NEW a \in Int, NEW c \in Int, NEW b \in Int, NEW q \in Int, NEW r \in Int,
                    b > 0, a <= c, q * b <= a, c < r * b + b, r < q
             PROVE  FALSE
  BY DEF Divides
<1>1. r + 1 <= q
  OBVIOUS
<1>2. (r + 1) * b <= q * b
  BY <1>1, SMTT(30)
<1>3. (r + 1) * b = r * b + b
  BY SMTT(30)
<1>4. r * b \in Int /\ q * b \in Int
  OBVIOUS
<1> QED
  BY <1>2, <1>3, <1>4

(* A weight and what is written of it differ by less than half a unit of   *)
(* the last digit, and what is written is a number of them.                *)
Whole(y) == \E q \in Int : y = q * Parts
WithinHalf(x, y) == 2 * (x - y) < Parts /\ 2 * (y - x) < Parts

(* So rounding does.                                                       *)
LEMMA RoundedNear ==
  ASSUME NEW w \in Int
  PROVE  /\ Rounded(w) \in Int /\ Whole(Rounded(w)) /\ WithinHalf(w, Rounded(w))
         /\ w >= 0 => Rounded(w) >= 0
<1> DEFINE h == Parts \div 2
           q == (w + h) \div Parts
<1>1. Parts \in Int /\ Parts > 0 /\ h \in Int /\ 2 * h = Parts - 1
  BY RoadAssumption
<1> HIDE DEF h
<1>2. q \in Int /\ Divides(w + h, Parts, q)
  BY <1>1, QuotientOf
<1> HIDE DEF q
<1> DEFINE y == q * Parts
<1>3. Rounded(w) = y
  BY DEF Rounded, q, h
<1>4. y \in Int /\ y <= w + h /\ w + h < y + Parts
  BY <1>1, <1>2 DEF Divides
<1>5. Whole(y)
  BY <1>2 DEF Whole
<1>6. w >= 0 => y >= 0
  <2> SUFFICES ASSUME w >= 0, q < 0 PROVE FALSE
    BY <1>1, <1>2, SMTT(30)
  <2>1. q <= -1
    BY <1>2
  <2>2. q * Parts <= (-1) * Parts
    BY <1>1, <1>2, <2>1, SMTT(30)
  <2> QED
    BY <1>1, <1>4, <2>2
<1> HIDE DEF y
<1>7. WithinHalf(w, y)
  BY <1>1, <1>4 DEF WithinHalf
<1> QED
  BY <1>3, <1>4, <1>5, <1>6, <1>7

(* And it keeps the order.                                                 *)
LEMMA RoundedAscends == \A v, w \in Int : v <= w => Rounded(v) <= Rounded(w)
<1> SUFFICES ASSUME NEW v \in Int, NEW w \in Int, v <= w PROVE Rounded(v) <= Rounded(w)
  OBVIOUS
<1> DEFINE h == Parts \div 2
           q == (v + h) \div Parts
           r == (w + h) \div Parts
<1>1. Parts \in Int /\ Parts > 0 /\ h \in Int
  BY RoadAssumption
<1> HIDE DEF h
<1>2. v + h <= w + h /\ v + h \in Int /\ w + h \in Int
  BY <1>1
<1>a. q \in Int /\ Divides(v + h, Parts, q)
  BY <1>1, <1>2, QuotientOf
<1>b. r \in Int /\ Divides(w + h, Parts, r)
  BY <1>1, <1>2, QuotientOf
<1> HIDE DEF q, r
<1>4. q <= r
  BY <1>1, <1>2, <1>a, <1>b, QuotientsAscend
<1>5. q * Parts <= r * Parts
  BY <1>1, <1>a, <1>b, <1>4, SMTT(30)
<1> QED
  BY <1>5 DEF Rounded, q, r, h

-----------------------------------------------------------------------------
(* How near what the oracle adds up is to what the reference does: one     *)
(* part in twice Tolerance + 1.                                            *)
Fineness == 2 * (Tolerance + 1)
Near(x, y) == (x - y) * Fineness <= x /\ (y - x) * Fineness <= x

(* The fineness is at least four.                                          *)
LEMMA FinenessIs == Fineness \in Int /\ Fineness > 1
BY RoadAssumption DEF Fineness

(* Sums of what is near are near.                                          *)
LEMMA NearSum ==
  \A x, y, v, w \in Int : Near(x, y) /\ Near(v, w) => Near(x + v, y + w)
<1> SUFFICES ASSUME NEW x \in Int, NEW y \in Int, NEW v \in Int, NEW w \in Int,
                    Near(x, y), Near(v, w)
             PROVE  Near(x + v, y + w)
  OBVIOUS
<1> DEFINE c == Fineness
<1>1. c \in Int
  BY FinenessIs
<1>2. (x - y) * c <= x /\ (y - x) * c <= x /\ (v - w) * c <= v /\ (w - v) * c <= v
  BY DEF Near
<1> HIDE DEF c
<1>3. ((x + v) - (y + w)) * c = (x - y) * c + (v - w) * c
  BY <1>1, SMTT(30)
<1>4. ((y + w) - (x + v)) * c = (y - x) * c + (w - v) * c
  BY <1>1, SMTT(30)
<1>5. (x - y) * c \in Int /\ (v - w) * c \in Int /\ (y - x) * c \in Int /\ (w - v) * c \in Int
  BY <1>1
<1>6. ((x + v) - (y + w)) * c <= x + v /\ ((y + w) - (x + v)) * c <= x + v
  BY <1>2, <1>3, <1>4, <1>5
<1> QED
  BY <1>6 DEF Near, c

(* The lesser of what is near are near.                                    *)
LEMMA NearLeast ==
  \A x, y, v, w \in Int : Near(x, y) /\ Near(v, w) /\ x <= v /\ w <= y => Near(x, w)
<1> SUFFICES ASSUME NEW x \in Int, NEW y \in Int, NEW v \in Int, NEW w \in Int,
                    Near(x, y), Near(v, w), x <= v, w <= y
             PROVE  Near(x, w)
  OBVIOUS
<1> DEFINE c == Fineness
<1>1. c \in Int /\ c > 1
  BY FinenessIs
<1>2. (y - x) * c <= x /\ (v - w) * c <= v
  BY DEF Near
<1> HIDE DEF c
<1>3. (w - x) * c <= (y - x) * c
  BY <1>1, SMTT(30)
<1>4. (x - w) * c - x <= (v - w) * c - v
  <2>1. (v - w) * c - v - ((x - w) * c - x) = (v - x) * (c - 1)
    BY <1>1, SMTT(30)
  <2>2. (v - x) * (c - 1) >= 0
    BY <1>1, SMTT(30)
  <2>3. (v - w) * c \in Int /\ (x - w) * c \in Int /\ (v - x) * (c - 1) \in Int
    BY <1>1
  <2> QED
    BY <2>1, <2>2, <2>3
<1>5. (w - x) * c \in Int /\ (y - x) * c \in Int /\ (x - w) * c \in Int /\ (v - w) * c \in Int
  BY <1>1
<1>6. (x - w) * c <= x /\ (w - x) * c <= x
  BY <1>2, <1>3, <1>4, <1>5
<1> QED
  BY <1>6 DEF Near, c

(* Tolerance + 1 units of the last digit.                                  *)
Heaviness == Parts * (Tolerance + 1)

(* A weight of that heaviness is near what rounding makes of it.           *)
LEMMA HeavyNear ==
  \A w, y \in Int : WithinHalf(w, y) /\ w >= Heaviness => Near(w, y)
<1> SUFFICES ASSUME NEW w \in Int, NEW y \in Int, WithinHalf(w, y), w >= Heaviness
             PROVE  Near(w, y)
  OBVIOUS
<1> DEFINE c == Tolerance + 1
           a == 2 * (w - y)
           b == 2 * (y - w)
<1>1. c \in Int /\ c > 0 /\ Parts \in Int
  BY RoadAssumption
<1>2. a \in Int /\ b \in Int /\ a <= Parts /\ b <= Parts
  BY <1>1 DEF WithinHalf
<1>3. w >= Parts * c
  BY DEF Heaviness
<1>4. Fineness = 2 * c
  BY DEF Fineness
<1>5. (w - y) * (2 * c) = a * c /\ (y - w) * (2 * c) = b * c
  <2> HIDE DEF c
  <2> QED
    BY <1>1, SMTT(30)
<1> HIDE DEF a, b, c
<1>6. a * c <= Parts * c /\ b * c <= Parts * c
  BY <1>1, <1>2, SMTT(30)
<1>7. a * c \in Int /\ b * c \in Int /\ Parts * c \in Int
  BY <1>1, <1>2
<1>8. a * c <= w /\ b * c <= w
  BY <1>3, <1>6, <1>7
<1> QED
  BY <1>4, <1>5, <1>8 DEF Near

(* A whole number of units near a distance is within the tolerance of it   *)
(* as written.                                                             *)
LEMMA NearIsTolerable ==
  ASSUME NEW x \in Nat, NEW y \in Nat, NEW e \in Nat, Near(x, y), WithinHalf(x, e),
         Whole(y), Whole(e)
  PROVE  AbsDiff(e, y) * Tolerance <= e
<1> DEFINE t == Tolerance
           d == AbsDiff(e, y)
           f == AbsDiff(x, y)
<1>1. t \in Nat /\ Parts \in Int /\ Parts > 0
  BY RoadAssumption
<1>2. d \in Nat /\ f \in Nat /\ 2 * d <= 2 * f + (Parts - 1) /\ (d = 0 \/ d >= Parts)
  <2>1. PICK q \in Int : y = q * Parts
    BY DEF Whole
  <2>2. PICK r \in Int : e = r * Parts
    BY DEF Whole
  <2>3. d \in Nat /\ f \in Nat
    BY DEF AbsDiff
  <2>4. 2 * d <= 2 * f + (Parts - 1)
    BY <1>1 DEF AbsDiff, WithinHalf
  <2>5. d = 0 \/ d >= Parts
    <3>1. CASE q = r
      BY <2>1, <2>2, <3>1 DEF AbsDiff
    <3>2. CASE q < r
      <4>1. r * Parts - q * Parts = (r - q) * Parts
        BY <1>1, SMTT(30)
      <4>2. (r - q) * Parts >= Parts
        BY <1>1, <3>2, SMTT(30)
      <4>3. e - y >= Parts
        BY <2>1, <2>2, <4>1, <4>2
      <4> QED
        BY <1>1, <4>3 DEF AbsDiff
    <3>3. CASE r < q
      <4>1. q * Parts - r * Parts = (q - r) * Parts
        BY <1>1, SMTT(30)
      <4>2. (q - r) * Parts >= Parts
        BY <1>1, <3>3, SMTT(30)
      <4>3. y - e >= Parts
        BY <2>1, <2>2, <4>1, <4>2
      <4> QED
        BY <1>1, <4>3 DEF AbsDiff
    <3> QED
      BY <3>1, <3>2, <3>3
  <2> QED
    BY <2>3, <2>4, <2>5
<1>3. f * Fineness <= x
  BY DEF Near, AbsDiff
<1>4. f * Fineness = (2 * f) * (t + 1)
  <2> HIDE DEF f
  <2> QED
    BY <1>1, <1>2, SMTT(30) DEF Fineness
<1>5. 2 * x <= 2 * e + (Parts - 1)
  BY <1>1 DEF WithinHalf
<1> HIDE DEF d, f, t
<1>6. CASE d = 0
  BY <1>1, <1>6 DEF d, t
<1>7. CASE d >= Parts
  <2>1. d + 1 <= 2 * f
    BY <1>1, <1>2, <1>7
  <2>2. (d + 1) * (t + 1) <= (2 * f) * (t + 1)
    BY <1>1, <1>2, <2>1, SMTT(30)
  <2>3. (d + 1) * (t + 1) = d * t + d + t + 1
    BY <1>1, <1>2, SMTT(30)
  <2>4. d * t \in Int /\ (2 * f) * (t + 1) \in Int
    BY <1>1, <1>2
  <2>5. d * t + d + t + 1 <= x
    <3>1. (2 * f) * (t + 1) <= x
      BY <1>3, <1>4, Zenon
    <3>2. (d + 1) * (t + 1) \in Int
      BY <1>1, <1>2
    <3>3. (d + 1) * (t + 1) <= x
      <4> DEFINE l == (d + 1) * (t + 1)
                 m == (2 * f) * (t + 1)
      <4>1. l \in Int /\ m \in Int /\ l <= m /\ m <= x
        BY <2>2, <2>4, <3>1, <3>2
      <4> HIDE DEF l, m
      <4>2. l <= x
        BY <4>1
      <4> QED
        BY <4>2 DEF l
    <3> QED
      BY <2>3, <3>3
  <2>6. d * t <= e
    BY <1>1, <1>2, <1>5, <1>7, <2>4, <2>5
  <2> QED
    BY <2>6 DEF d, t
<1> QED
  BY <1>2, <1>6, <1>7
-----------------------------------------------------------------------------
(* Least of numbers is one of them, and none is less; of none, Infinity.   *)
LEMMA LeastIs ==
  ASSUME NEW S, S \subseteq Nat
  PROVE  /\ S = {} => Least(S) = Infinity
         /\ S # {} => Least(S) \in S /\ \A y \in S : Least(S) <= y
<1>1. S = {} => Least(S) = Infinity
  BY DEF Least
<1>2. ASSUME S # {} PROVE Least(S) \in S /\ \A y \in S : Least(S) <= y
  <2>1. \E x \in S : \A y \in S : x <= y
    BY <1>2, LeastNatural
  <2>2. Least(S) = CHOOSE x \in S : \A y \in S : x <= y
    BY <1>2 DEF Least
  <2> QED
    BY <2>1, <2>2
<1> QED
  BY <1>1, <1>2

(* A distance over weights as read, and one over rounded weights that      *)
(* stands for it: near, where no weight is too light.                      *)
Agree(x, y, heavy) == x \in Nat /\ y \in Nat /\ Whole(y) /\ (heavy => Near(x, y))
Same(x, y, heavy) == (x = Infinity /\ y = Infinity) \/ Agree(x, y, heavy)

(* Nothing stands for nothing.                                             *)
LEMMA AgreeZero == \A heavy : Agree(0, 0, heavy)
<1>1. Parts \in Int
  BY RoadAssumption
<1>2. 0 = 0 * Parts
  BY <1>1
<1>3. Whole(0)
  BY <1>2 DEF Whole
<1>4. Near(0, 0)
  <2>1. (0 - 0) * Fineness = 0
    BY FinenessIs
  <2> QED
    BY <2>1 DEF Near
<1> QED
  BY <1>3, <1>4 DEF Agree

(* One edge more, and the sums still agree.                                *)
LEMMA AgreeSum ==
  \A x, y, v, w, heavy : Agree(x, y, heavy) /\ Agree(v, w, heavy) => Agree(x + v, y + w, heavy)
<1> SUFFICES ASSUME NEW x, NEW y, NEW v, NEW w, NEW heavy,
                    Agree(x, y, heavy), Agree(v, w, heavy)
             PROVE  Agree(x + v, y + w, heavy)
  OBVIOUS
<1>1. x \in Nat /\ y \in Nat /\ v \in Nat /\ w \in Nat
  BY DEF Agree
<1>2. x + v \in Nat /\ y + w \in Nat
  BY <1>1
<1>3. Whole(y + w)
  <2>1. PICK q \in Int : y = q * Parts
    BY DEF Agree, Whole
  <2>2. PICK r \in Int : w = r * Parts
    BY DEF Agree, Whole
  <2>3. (q + r) * Parts = q * Parts + r * Parts
    <3>1. Parts \in Int
      BY RoadAssumption
    <3> QED
      BY <3>1, SMTT(30)
  <2>4. y + w = (q + r) * Parts /\ q + r \in Int
    BY <2>1, <2>2, <2>3
  <2> QED
    BY <2>4 DEF Whole
<1>4. ASSUME heavy PROVE Near(x + v, y + w)
  <2>1. Near(x, y) /\ Near(v, w)
    BY <1>4 DEF Agree
  <2>2. x \in Int /\ y \in Int /\ v \in Int /\ w \in Int
    BY <1>1
  <2> QED
    BY <2>1, <2>2, NearSum
<1> QED
  BY <1>2, <1>3, <1>4 DEF Agree

(* Each of some distances stands for one of the others.                    *)
AllAgree(X, Y, heavy) ==
  /\ \A x \in X : \E y \in Y : Agree(x, y, heavy)
  /\ \A y \in Y : \E x \in X : Agree(x, y, heavy)

(* Then so do the least of them.                                           *)
LEMMA AgreeLeast ==
  ASSUME NEW X, NEW Y, NEW heavy, AllAgree(X, Y, heavy)
  PROVE  Same(Least(X), Least(Y), heavy)
<1>1. X \subseteq Nat /\ Y \subseteq Nat
  BY DEF AllAgree, Agree
<1>2. CASE X = {}
  <2>1. Y = {}
    BY <1>2 DEF AllAgree
  <2> QED
    BY <1>1, <1>2, <2>1, LeastIs DEF Same
<1>3. CASE X # {}
  <2>1. Y # {}
    BY <1>3 DEF AllAgree
  <2> DEFINE x == Least(X)
             w == Least(Y)
  <2>2. x \in X /\ (\A z \in X : x <= z) /\ w \in Y /\ (\A z \in Y : w <= z)
    BY <1>1, <1>3, <2>1, LeastIs
  <2> HIDE DEF x, w
  <2>3. PICK y \in Y : Agree(x, y, heavy)
    BY <2>2 DEF AllAgree
  <2>4. PICK v \in X : Agree(v, w, heavy)
    BY <2>2 DEF AllAgree
  <2>5. x \in Nat /\ y \in Nat /\ v \in Nat /\ w \in Nat /\ Whole(w)
    BY <2>3, <2>4 DEF Agree
  <2>6. x <= v /\ w <= y
    BY <2>2
  <2>7. ASSUME heavy PROVE Near(x, w)
    <3>1. Near(x, y) /\ Near(v, w)
      BY <2>3, <2>4, <2>7 DEF Agree
    <3>2. x \in Int /\ y \in Int /\ v \in Int /\ w \in Int
      BY <2>5
    <3> QED
      BY <2>6, <3>1, <3>2, NearLeast
  <2>8. Agree(x, w, heavy)
    BY <2>5, <2>7 DEF Agree
  <2> QED
    BY <2>8 DEF Same, x, w
<1> QED
  BY <1>2, <1>3

-----------------------------------------------------------------------------
(* A graph without negative weights whose edges join the nodes, and the    *)
(* distances of its nodes.                                                 *)
Travelled(g, nodes) ==
  /\ IsFiniteSet(nodes)
  /\ \A p \in DOMAIN g : g[p] \in Nat /\ p[1] \in nodes
DistanceMaps(nodes) == [nodes -> Nat \cup {Infinity}]

(* A round gives distances.                                                *)
LEMMA RelaxedIs ==
  ASSUME NEW g, NEW nodes, Travelled(g, nodes), NEW dist \in DistanceMaps(nodes)
  PROVE  /\ Relaxed(dist, g, nodes) \in DistanceMaps(nodes)
         /\ \A v \in nodes : /\ Relaxed(dist, g, nodes)[v] = Least(Reached(dist, g, v))
                             /\ Reached(dist, g, v) \subseteq Nat
<1>1. \A v \in nodes : dist[v] \in Nat \cup {Infinity}
  BY DEF DistanceMaps
<1>2. ASSUME NEW v \in nodes PROVE Reached(dist, g, v) \subseteq Nat
  <2>1. ASSUME NEW p \in DOMAIN g, dist[p[1]] # Infinity PROVE dist[p[1]] + g[p] \in Nat
    <3>1. p[1] \in nodes /\ g[p] \in Nat
      BY DEF Travelled
    <3>2. dist[p[1]] \in Nat
      BY <1>1, <2>1, <3>1
    <3> QED
      BY <3>1, <3>2
  <2>2. dist[v] # Infinity => dist[v] \in Nat
    BY <1>1
  <2> QED
    BY <2>1, <2>2 DEF Reached
<1>3. ASSUME NEW v \in nodes PROVE Least(Reached(dist, g, v)) \in Nat \cup {Infinity}
  <2> DEFINE X == Reached(dist, g, v)
  <2>1. X \subseteq Nat
    BY <1>2
  <2> HIDE DEF X
  <2>2. Least(X) \in Nat \cup {Infinity}
    BY <2>1, LeastIs
  <2> QED
    BY <2>2 DEF X
<1> QED
  BY <1>2, <1>3 DEF Relaxed, DistanceMaps

(* Distances are what the rounds give.                                     *)
LEMMA DistanceSteps ==
  ASSUME NEW g, NEW nodes, Travelled(g, nodes), NEW src
  PROVE  \E r \in [0..Cardinality(nodes) -> DistanceMaps(nodes)] :
           /\ r[0] = [v \in nodes |-> IF v = src THEN 0 ELSE Infinity]
           /\ \A k \in 1..Cardinality(nodes) : r[k] = Relaxed(r[k - 1], g, nodes)
           /\ Distances(g, nodes, src) = r[Cardinality(nodes)]
<1> DEFINE n == Cardinality(nodes)
           start == [v \in nodes |-> IF v = src THEN 0 ELSE Infinity]
           Steps == [k \in 1..n |-> [x \in DistanceMaps(nodes) |-> Relaxed(x, g, nodes)]]
           Def(h) == [k \in 0..n |-> IF k = 0 THEN start ELSE Relaxed(h[k - 1], g, nodes)]
<1>1. n \in Nat
  BY FS_CardinalityType DEF Travelled
<1>2. start \in DistanceMaps(nodes)
  BY DEF DistanceMaps
<1>3. Steps \in [1..n -> [DistanceMaps(nodes) -> DistanceMaps(nodes)]]
  BY RelaxedIs
<1> HIDE DEF n, start, Steps
<1>4. PICK r \in [0..n -> DistanceMaps(nodes)] : Iterates(r, start, Steps, n)
  BY <1>1, <1>2, <1>3, IterationExists
<1>5. r[0] = start /\ \A k \in 1..n : r[k] = Relaxed(r[k - 1], g, nodes)
  <2>1. \A k \in 1..n : k - 1 \in 0..n
    BY <1>1
  <2>2. \A k \in 1..n, x \in DistanceMaps(nodes) : Steps[k][x] = Relaxed(x, g, nodes)
    BY DEF Steps
  <2> QED
    BY <1>4, <2>1, <2>2 DEF Iterates
<1>6. r = Def(r)
  <2> SUFFICES ASSUME NEW k \in 0..n, k # 0 PROVE r[k] = Relaxed(r[k - 1], g, nodes)
    BY <1>5
  <2>1. k \in 1..n
    BY <1>1
  <2> QED
    BY <1>5, <2>1
<1> DEFINE f == CHOOSE h : h = Def(h)
<1>7. f = Def(f)
  BY <1>6
<1>8. Distances(g, nodes, src) = f[n]
  BY DEF Distances, n, start
<1> HIDE DEF f
<1>9. f[0] = start /\ \A k \in 1..n : f[k] = Relaxed(f[k - 1], g, nodes)
  <2>1. \A k \in 0..n : f[k] = IF k = 0 THEN start ELSE Relaxed(f[k - 1], g, nodes)
    BY <1>7
  <2>2. 0 \in 0..n /\ \A k \in 1..n : k \in 0..n /\ k # 0
    BY <1>1
  <2> QED
    BY <2>1, <2>2
<1>10. f[n] = r[n]
  <2>1. GoAlike(r, f, n)
    BY <1>5, <1>9 DEF GoAlike
  <2>2. Alike(r, f, n)
    BY <1>1, <2>1, SameIterations
  <2>3. n \in 0..n
    BY <1>1
  <2> QED
    BY <2>2, <2>3 DEF Alike
<1> QED
  BY <1>4, <1>5, <1>8, <1>10 DEF n, start

(* Weights that agree, edge by edge.                                       *)
EdgesAgree(g, h, heavy) == DOMAIN g = DOMAIN h /\ \A p \in DOMAIN g : Agree(g[p], h[p], heavy)
MapsAgree(d, e, nodes, heavy) == \A v \in nodes : Same(d[v], e[v], heavy)

(* Of distances that agree a round makes distances that agree.             *)
LEMMA RoundAgrees ==
  ASSUME NEW g, NEW h, NEW nodes, NEW heavy, Travelled(g, nodes), Travelled(h, nodes),
         EdgesAgree(g, h, heavy), NEW d \in DistanceMaps(nodes), NEW e \in DistanceMaps(nodes),
         MapsAgree(d, e, nodes, heavy)
  PROVE  MapsAgree(Relaxed(d, g, nodes), Relaxed(e, h, nodes), nodes, heavy)
<1>0. Infinity \notin Nat
  BY RoadAssumption
<1>1. \A v \in nodes : Relaxed(d, g, nodes)[v] = Least(Reached(d, g, v))
  BY RelaxedIs
<1>2. \A v \in nodes : Relaxed(e, h, nodes)[v] = Least(Reached(e, h, v))
  BY RelaxedIs
<1>3. \A v \in nodes : /\ d[v] = Infinity <=> e[v] = Infinity
                       /\ d[v] # Infinity => Agree(d[v], e[v], heavy)
  <2> SUFFICES ASSUME NEW v \in nodes
               PROVE  /\ d[v] = Infinity <=> e[v] = Infinity
                      /\ d[v] # Infinity => Agree(d[v], e[v], heavy)
    OBVIOUS
  <2>1. Same(d[v], e[v], heavy)
    BY DEF MapsAgree
  <2> QED
    BY <1>0, <2>1 DEF Same, Agree
<1>4. ASSUME NEW p \in DOMAIN g, d[p[1]] # Infinity
      PROVE  Agree(d[p[1]] + g[p], e[p[1]] + h[p], heavy)
  <2>1. p[1] \in nodes /\ Agree(g[p], h[p], heavy)
    BY DEF Travelled, EdgesAgree
  <2>2. Agree(d[p[1]], e[p[1]], heavy)
    BY <1>3, <1>4, <2>1
  <2> QED
    BY <2>1, <2>2, AgreeSum
<1>5. DOMAIN g = DOMAIN h /\ \A p \in DOMAIN g : p[1] \in nodes
  BY DEF EdgesAgree, Travelled
<1>6. ASSUME NEW v \in nodes PROVE AllAgree(Reached(d, g, v), Reached(e, h, v), heavy)
  <2>1. ASSUME NEW x \in Reached(d, g, v) PROVE \E y \in Reached(e, h, v) : Agree(x, y, heavy)
    <3>1. \/ x = d[v] /\ d[v] # Infinity
          \/ \E p \in DOMAIN g : p[2] = v /\ d[p[1]] # Infinity /\ x = d[p[1]] + g[p]
      BY DEF Reached
    <3>2. CASE x = d[v] /\ d[v] # Infinity
      <4>1. e[v] \in Reached(e, h, v) /\ Agree(d[v], e[v], heavy)
        BY <1>3, <3>2 DEF Reached
      <4> QED
        BY <3>2, <4>1
    <3>3. CASE \E p \in DOMAIN g : p[2] = v /\ d[p[1]] # Infinity /\ x = d[p[1]] + g[p]
      <4>1. PICK p \in DOMAIN g : p[2] = v /\ d[p[1]] # Infinity /\ x = d[p[1]] + g[p]
        BY <3>3
      <4>2. e[p[1]] + h[p] \in Reached(e, h, v)
        BY <1>3, <1>5, <4>1 DEF Reached
      <4> QED
        BY <1>4, <4>1, <4>2
    <3> QED
      BY <3>1, <3>2, <3>3
  <2>2. ASSUME NEW y \in Reached(e, h, v) PROVE \E x \in Reached(d, g, v) : Agree(x, y, heavy)
    <3>1. \/ y = e[v] /\ e[v] # Infinity
          \/ \E p \in DOMAIN h : p[2] = v /\ e[p[1]] # Infinity /\ y = e[p[1]] + h[p]
      BY DEF Reached
    <3>2. CASE y = e[v] /\ e[v] # Infinity
      <4>1. d[v] \in Reached(d, g, v) /\ Agree(d[v], e[v], heavy)
        BY <1>3, <3>2 DEF Reached
      <4> QED
        BY <3>2, <4>1
    <3>3. CASE \E p \in DOMAIN h : p[2] = v /\ e[p[1]] # Infinity /\ y = e[p[1]] + h[p]
      <4>1. PICK p \in DOMAIN g : p[2] = v /\ e[p[1]] # Infinity /\ y = e[p[1]] + h[p]
        BY <1>5, <3>3
      <4>2. d[p[1]] # Infinity
        BY <1>3, <1>5, <4>1
      <4>3. d[p[1]] + g[p] \in Reached(d, g, v)
        BY <4>1, <4>2 DEF Reached
      <4> QED
        BY <1>4, <4>1, <4>2, <4>3
    <3> QED
      BY <3>1, <3>2, <3>3
  <2> QED
    BY <2>1, <2>2 DEF AllAgree
<1>7. ASSUME NEW v \in nodes
      PROVE  Same(Relaxed(d, g, nodes)[v], Relaxed(e, h, nodes)[v], heavy)
  BY <1>1, <1>2, <1>6, AgreeLeast
<1> QED
  BY <1>7 DEF MapsAgree

(* So the distances over graphs whose weights agree agree.                 *)
LEMMA DistancesAgree ==
  ASSUME NEW g, NEW h, NEW nodes, NEW heavy, NEW src, Travelled(g, nodes), Travelled(h, nodes),
         EdgesAgree(g, h, heavy)
  PROVE  /\ Distances(g, nodes, src) \in DistanceMaps(nodes)
         /\ Distances(h, nodes, src) \in DistanceMaps(nodes)
         /\ MapsAgree(Distances(g, nodes, src), Distances(h, nodes, src), nodes, heavy)
<1> DEFINE n == Cardinality(nodes)
           start == [v \in nodes |-> IF v = src THEN 0 ELSE Infinity]
           Runs(r, G) == /\ r \in [0..n -> DistanceMaps(nodes)] /\ r[0] = start
                         /\ \A k \in 1..n : r[k] = Relaxed(r[k - 1], G, nodes)
                         /\ Distances(G, nodes, src) = r[n]
<1>a. ASSUME NEW G, Travelled(G, nodes) PROVE \E r : Runs(r, G)
  BY <1>a, DistanceSteps
<1>b. (\E r : Runs(r, g)) /\ (\E r : Runs(r, h))
  BY <1>a
<1>1. PICK r : Runs(r, g)
  BY <1>b
<1>2. PICK s : Runs(s, h)
  BY <1>b
<1>3. n \in Nat
  BY FS_CardinalityType DEF Travelled
<1> DEFINE Good == {k \in Nat : k <= n => MapsAgree(r[k], s[k], nodes, heavy)}
<1>4. 0 \in Good
  <2>1. MapsAgree(start, start, nodes, heavy)
    BY AgreeZero DEF MapsAgree, Same
  <2> QED
    BY <1>1, <1>2, <2>1
<1> HIDE DEF n, start
<1>5. ASSUME NEW k \in Nat, k \in Good PROVE k + 1 \in Good
  <2>1. SUFFICES ASSUME k + 1 <= n PROVE MapsAgree(r[k + 1], s[k + 1], nodes, heavy)
    OBVIOUS
  <2>2. k + 1 \in 1..n /\ (k + 1) - 1 = k /\ k \in 0..n
    BY <1>3, <2>1
  <2>3. r[k + 1] = Relaxed(r[k], g, nodes) /\ s[k + 1] = Relaxed(s[k], h, nodes)
    BY <1>1, <1>2, <2>2
  <2>4. MapsAgree(r[k], s[k], nodes, heavy)
    BY <1>3, <1>5, <2>2
  <2>5. r[k] \in DistanceMaps(nodes) /\ s[k] \in DistanceMaps(nodes)
    BY <1>1, <1>2, <2>2
  <2> QED
    BY <2>3, <2>4, <2>5, RoundAgrees
<1>6. n \in Good
  <2> HIDE DEF Good
  <2> QED
    BY <1>3, <1>4, <1>5, EveryNatural
<1>7. n \in 0..n /\ MapsAgree(r[n], s[n], nodes, heavy)
  BY <1>3, <1>6
<1> QED
  BY <1>1, <1>2, <1>7
-----------------------------------------------------------------------------
(* Rounding and turning round, in either order.                            *)
LEMMA RoundedReversed == \A e \in Edge : Reversed(RoundedEdge(e)) = RoundedEdge(Reversed(e))
BY DEF Reversed, RoundedEdge, Edge

(* The triples are the edges that are travelled, rounded.                  *)
LEMMA TriplesAreRounded ==
  ASSUME NEW E, NoLoops(E), NEW directed \in BOOLEAN
  PROVE  Triples(E, directed) = {RoundedEdge(e) : e \in Effective(E, directed)}
<1> DEFINE B == Effective(E, directed)
           G == {RoundedEdge(e) : e \in B}
<1>1. CASE directed
  BY <1>1 DEF Triples, Effective
<1>2. CASE ~directed
  <2>1. \A e \in B : e \in Edge /\ Reversed(e) \in B
    BY <1>2, ReversedIs DEF Effective, NoLoops
  <2>2. Triples(E, directed) = G \cup {Reversed(t) : t \in G}
    BY <1>2 DEF Triples, Effective
  <2> HIDE DEF B
  <2>3. \A e \in B : Reversed(RoundedEdge(e)) = RoundedEdge(Reversed(e))
    BY <2>1, RoundedReversed
  <2>4. \A t \in G : Reversed(t) \in G
    BY <2>1, <2>3
  <2> QED
    BY <2>2, <2>4 DEF B
<1> QED
  BY <1>1, <1>2

(* Over rounded edges the graph has the rounded weights.                   *)
LEMMA GraphsRounded ==
  ASSUME NEW B, NoLoops(B), NEW g, Lightest(g, B), NEW h, Lightest(h, {RoundedEdge(e) : e \in B})
  PROVE  DOMAIN h = DOMAIN g /\ \A p \in DOMAIN g : h[p] = Rounded(g[p])
<1> DEFINE C == {RoundedEdge(e) : e \in B}
<1>1. /\ g \in WeightedGraphs /\ DOMAIN g = PairsOf(B)
      /\ \A p \in DOMAIN g : Chosen(g, p, B)
      /\ \A e \in B : NotAbove(g, e)
  BY DEF Lightest
<1>2. /\ h \in WeightedGraphs /\ DOMAIN h = PairsOf(C)
      /\ \A p \in DOMAIN h : Chosen(h, p, C)
      /\ \A e \in C : NotAbove(h, e)
  BY DEF Lightest
<1>3. \A e \in B : /\ e \in Edge /\ e.weight \in Int /\ PairOf(RoundedEdge(e)) = PairOf(e)
                   /\ RoundedEdge(e).weight = Rounded(e.weight)
  BY RoundedEdgeIs, EdgeParts DEF NoLoops, PairOf
<1>4. PairsOf(C) = PairsOf(B)
  BY <1>3 DEF PairsOf
<1> HIDE DEF C
<1>5. ASSUME NEW p \in DOMAIN g PROVE h[p] = Rounded(g[p])
  <2>1. PICK e \in B : PairOf(e) = p /\ g[p] = e.weight
    BY <1>1 DEF Chosen
  <2>2. PICK c \in B : PairOf(c) = p /\ h[p] = Rounded(c.weight)
    <3>1. PICK t \in C : PairOf(t) = p /\ h[p] = t.weight
      BY <1>1, <1>2, <1>4 DEF Chosen
    <3>2. PICK c \in B : t = RoundedEdge(c)
      BY DEF C
    <3> QED
      BY <1>3, <3>1, <3>2
  <2>3. h[p] <= Rounded(e.weight)
    <3>1. RoundedEdge(e) \in C
      BY DEF C
    <3>2. NotAbove(h, RoundedEdge(e))
      BY <1>2, <3>1
    <3> QED
      BY <1>3, <2>1, <3>2 DEF NotAbove
  <2>4. Rounded(g[p]) <= Rounded(c.weight)
    <3>1. NotAbove(g, c)
      BY <1>1
    <3>2. g[p] <= c.weight
      BY <2>2, <3>1 DEF NotAbove
    <3>3. g[p] \in Int /\ c.weight \in Int
      BY <1>3, <2>1
    <3> QED
      BY <3>2, <3>3, RoundedAscends
  <2>5. Rounded(e.weight) \in Int /\ Rounded(c.weight) \in Int
    BY <1>3, RoundedType
  <2> DEFINE x == Rounded(e.weight)
             y == Rounded(c.weight)
  <2>6. y <= x /\ x <= y /\ x \in Int /\ y \in Int
    BY <2>1, <2>2, <2>3, <2>4, <2>5
  <2> HIDE DEF x, y
  <2>7. x = y
    BY <2>6
  <2> QED
    BY <2>1, <2>2, <2>7 DEF x, y
<1> QED
  BY <1>1, <1>2, <1>4, <1>5

(* A list of edges has finitely many, and they have finitely many ends.    *)
LEMMA EndsFinite ==
  ASSUME NEW es \in Seq(Edge), NEW g, DOMAIN g = PairsOf(EdgesOf(es))
  PROVE  IsFiniteSet(Ends(g))
<1> DEFINE I == 1..Len(es)
           from == [i \in I |-> es[i].src]
           to == [i \in I |-> es[i].dst]
           Sources == {p[1] : p \in DOMAIN g}
           Targets == {p[2] : p \in DOMAIN g}
<1>1. IsFiniteSet(I)
  <2>1. Len(es) \in Nat
    BY LenProperties
  <2> QED
    BY <2>1, FirstNumbers, Zenon
<1>2. DOMAIN g = {<<es[i].src, es[i].dst>> : i \in I}
  BY LenProperties DEF PairsOf, PairOf, EdgesOf
<1> HIDE DEF I
<1>3. from \in Surjection(I, Sources) /\ to \in Surjection(I, Targets)
  <2>1. \A i \in I : <<es[i].src, es[i].dst>> \in DOMAIN g
    BY <1>2
  <2>2. \A p \in DOMAIN g : \E i \in I : p[1] = es[i].src /\ p[2] = es[i].dst
    BY <1>2
  <2>3. \A i \in I : es[i].src \in Sources /\ es[i].dst \in Targets
    <3> SUFFICES ASSUME NEW i \in I PROVE es[i].src \in Sources /\ es[i].dst \in Targets
      OBVIOUS
    <3> DEFINE p == <<es[i].src, es[i].dst>>
    <3>1. p \in DOMAIN g /\ p[1] = es[i].src /\ p[2] = es[i].dst
      BY <2>1
    <3> HIDE DEF p
    <3> QED
      BY <3>1
  <2>4. \A v \in Sources : \E i \in I : from[i] = v
    BY <2>2
  <2>5. \A v \in Targets : \E i \in I : to[i] = v
    BY <2>2
  <2>6. from \in [I -> Sources] /\ to \in [I -> Targets]
    BY <2>3
  <2> HIDE DEF from, to, Sources, Targets
  <2> QED
    BY <2>4, <2>5, <2>6 DEF Surjection
<1> HIDE DEF from, to, Sources, Targets
<1>4. IsFiniteSet(Sources) /\ IsFiniteSet(Targets)
  BY <1>1, <1>3, FS_Surjection
<1>5. IsFiniteSet(Sources \cup Targets)
  BY <1>4, FS_Union
<1> QED
  BY <1>5 DEF Ends, Sources, Targets

(* Every edge that is travelled has the weight of one that was read.       *)
LEMMA EffectiveWeights ==
  \A E, d : NoLoops(E) => \A b \in Effective(E, d) : \E e \in E : b.weight = e.weight
BY ReversedIs DEF Effective, NoLoops

(* What is asked of a network is answered as the reference says.           *)
IsConfirmed(ds, ref, answers, heavy) ==
  ~ref.err =>
    /\ \A v \in DOMAIN ref.dist : (ref.dist[v] = Infinity) <=> (answers[v] = Infinity)
    /\ heavy => Validate(ref.dist, answers) = {}

(* A distance as written, and the answer that stands for it.               *)
AsWritten(x) == IF x = Infinity THEN Infinity ELSE Rounded(x)
Confirms(e, y) ==
  /\ (e = Infinity) <=> (y = Infinity)
  /\ e # Infinity => ~(AbsDiff(e, y) * Tolerance > RelativeTo(e))
Answered(e, y, heavy) == /\ (e = Infinity) <=> (y = Infinity)
                         /\ heavy => Confirms(e, y)

(* They are infinite together, and where no weight is too light the answer *)
(* is within the tolerance.                                                *)
LEMMA SameConfirms ==
  \A x, y, heavy : Same(x, y, heavy) => Answered(AsWritten(x), y, heavy)
<1> SUFFICES ASSUME NEW x, NEW y, NEW heavy, Same(x, y, heavy)
             PROVE  /\ (AsWritten(x) = Infinity) <=> (y = Infinity)
                    /\ heavy => Confirms(AsWritten(x), y)
  BY DEF Answered
<1>0. Infinity \notin Int
  BY RoadAssumption
<1>1. CASE x = Infinity
  <2>1. y = Infinity
    BY <1>0, <1>1 DEF Same, Agree
  <2> QED
    BY <1>1, <2>1 DEF AsWritten, Confirms
<1>2. CASE x # Infinity
  <2> DEFINE e == Rounded(x)
  <2>1. x \in Nat /\ y \in Nat /\ Whole(y) /\ (heavy => Near(x, y))
    BY <1>2 DEF Same, Agree
  <2>2. e \in Nat /\ Whole(e) /\ WithinHalf(x, e)
    BY <2>1, RoundedNear
  <2>3. AsWritten(x) = e
    BY <1>2 DEF AsWritten
  <2> HIDE DEF e
  <2>4. e # Infinity /\ y # Infinity
    BY <1>0, <2>1, <2>2
  <2>5. ASSUME heavy PROVE ~(AbsDiff(e, y) * Tolerance > RelativeTo(e))
    <3> DEFINE d == AbsDiff(e, y) * Tolerance
    <3>1. d <= e
      BY <2>1, <2>2, <2>5, NearIsTolerable
    <3>2. d \in Int
      BY <2>1, <2>2, RoadAssumption DEF AbsDiff
    <3>3. RelativeTo(e) \in Int /\ e <= RelativeTo(e)
      BY <2>2, RoadAssumption DEF RelativeTo
    <3> HIDE DEF d
    <3>4. ~(d > RelativeTo(e))
      BY <2>2, <3>1, <3>2, <3>3
    <3> QED
      BY <3>4 DEF d
  <2> QED
    BY <2>3, <2>4, <2>5 DEF Confirms
<1> QED
  BY <1>1, <1>2

(* The distances over the graph as loaded confirm the reference.           *)
LEMMA ConfirmedOfAny ==
  ASSUME NEW ds, IsDataset(ds), NEW source \in Int,
         NEW file, file = WriteEdges(ds),
         NEW props, props = ReadProperties(WriteProperties(ds, source)),
         NEW oracle, oracle = OracleGraph(file, props),
         NEW nodes, nodes = ToSet(ds.vertices) \cup Ends(oracle),
         NEW heavy,
         heavy = \A i \in DOMAIN ds.edges : ds.edges[i].weight >= Parts * (Tolerance + 1)
  PROVE  IsConfirmed(ds, Reference(ds, source), Distances(oracle, nodes, source), heavy)
<1> DEFINE es == ForEachEffectiveEdge(ds)
           E == EdgesOf(ds.edges)
           B == EdgesOf(es)
           g == Graph(es)
           verts == ToSet(ds.vertices)
           far == Distances(g, verts \cup Ends(g), source)
           answers == Distances(oracle, nodes, source)
           ref == Reference(ds, source)
<1>1. ds.edges \in Seq(Edge) /\ NoLoops(E) /\ ds.directed \in BOOLEAN /\ IsFiniteSet(verts)
  BY DEF IsDataset, Proper
<1>2. Lightest(oracle, Triples(E, ds.directed))
  BY OracleOfAny
<1>3. es \in Seq(Edge) /\ B = Effective(E, ds.directed)
  BY <1>1, BothWaysIs DEF ForEachEffectiveEdge
<1>4. ref = IF HasNegative(es) \/ source \notin verts \cup Ends(g) THEN Failed
            ELSE [err |-> FALSE,
                  dist |-> [v \in verts |-> IF far[v] = Infinity THEN Infinity
                                                                  ELSE Rounded(far[v])]]
  BY DEF Reference, ReferenceFrom
<1> SUFFICES ASSUME ~ref.err
             PROVE  /\ \A v \in DOMAIN ref.dist :
                          (ref.dist[v] = Infinity) <=> (answers[v] = Infinity)
                    /\ heavy => Validate(ref.dist, answers) = {}
  BY DEF IsConfirmed
<1>5. ~HasNegative(es) /\ ref.dist = [v \in verts |-> AsWritten(far[v])]
  BY <1>4 DEF Failed, AsWritten
<1> HIDE DEF es, E, B, g, verts, far, answers, ref
<1>6. NoLoops(B)
  BY <1>1, <1>3, EffectiveNoLoops
<1>7. Lightest(g, B)
  BY <1>3, <1>6, GraphIsLightest DEF B, g
<1>8. Triples(E, ds.directed) = {RoundedEdge(e) : e \in B}
  BY <1>1, <1>3, TriplesAreRounded
<1>9. DOMAIN oracle = DOMAIN g /\ \A p \in DOMAIN g : oracle[p] = Rounded(g[p])
  BY <1>2, <1>6, <1>7, <1>8, GraphsRounded
<1>10. \A b \in B : b.weight \in Nat /\ (heavy => b.weight >= Heaviness)
  <2> SUFFICES ASSUME NEW b \in B PROVE b.weight \in Nat /\ (heavy => b.weight >= Heaviness)
    OBVIOUS
  <2>1. b.weight \in Int /\ b.weight >= 0
    <3>1. PICK i \in DOMAIN es : b = es[i]
      BY DEF B, EdgesOf
    <3>2. ~(es[i].weight < 0)
      BY <1>5 DEF HasNegative
    <3>3. b.weight \in Int
      BY <1>6, EdgeParts DEF NoLoops
    <3> QED
      BY <3>1, <3>2, <3>3
  <2>2. PICK e \in E : b.weight = e.weight
    BY <1>1, <1>3, EffectiveWeights
  <2>3. PICK i \in DOMAIN ds.edges : e = ds.edges[i]
    BY DEF E, EdgesOf
  <2>4. heavy => e.weight >= Heaviness
    BY <2>3 DEF Heaviness
  <2> QED
    BY <2>1, <2>2, <2>4
<1>11. ASSUME NEW p \in DOMAIN g PROVE g[p] \in Nat /\ Agree(g[p], oracle[p], heavy)
  <2>1. PICK b \in B : PairOf(b) = p /\ g[p] = b.weight
    BY <1>7 DEF Lightest, Chosen
  <2>2. g[p] \in Nat /\ (heavy => g[p] >= Heaviness)
    BY <1>10, <2>1
  <2> DEFINE w == g[p]
             y == Rounded(w)
  <2>3. oracle[p] = y
    BY <1>9
  <2>4. w \in Int /\ w >= 0 /\ (heavy => w >= Heaviness)
    BY <2>2
  <2> HIDE DEF w
  <2>5. y \in Int /\ Whole(y) /\ WithinHalf(w, y) /\ y >= 0
    BY <2>4, RoundedNear
  <2> HIDE DEF y
  <2>6. heavy => Near(w, y)
    BY <2>4, <2>5, HeavyNear
  <2>7. Agree(w, y, heavy)
    BY <2>4, <2>5, <2>6 DEF Agree
  <2> QED
    BY <2>2, <2>3, <2>7 DEF w
<1>12. EdgesAgree(g, oracle, heavy)
  BY <1>9, <1>11 DEF EdgesAgree
<1>13. Ends(oracle) = Ends(g) /\ nodes = verts \cup Ends(g)
  BY <1>9 DEF Ends, verts
<1>14. IsFiniteSet(nodes)
  <2>1. IsFiniteSet(Ends(g))
    BY <1>3, <1>7, EndsFinite DEF Lightest, B
  <2> DEFINE ends == Ends(g)
  <2> HIDE DEF ends
  <2>2. IsFiniteSet(verts) /\ IsFiniteSet(ends)
    BY <1>1, <2>1 DEF ends
  <2>3. IsFiniteSet(verts \cup ends)
    BY <2>2, FS_Union
  <2> QED
    BY <1>13, <2>3 DEF ends
<1>15. Travelled(g, nodes) /\ Travelled(oracle, nodes)
  <2>1. \A p \in DOMAIN g : p[1] \in nodes
    BY <1>13 DEF Ends
  <2> QED
    BY <1>9, <1>11, <1>14, <2>1 DEF Travelled, Agree
<1>16. /\ answers \in DistanceMaps(nodes)
       /\ MapsAgree(far, answers, nodes, heavy)
  BY <1>12, <1>13, <1>15, DistancesAgree DEF far, answers
<1>17. verts \subseteq nodes /\ DOMAIN answers = nodes /\ DOMAIN ref.dist = verts
  BY <1>5, <1>13, <1>16 DEF DistanceMaps
<1>18. ASSUME NEW v \in verts
       PROVE  /\ (ref.dist[v] = Infinity) <=> (answers[v] = Infinity)
              /\ heavy => Confirms(ref.dist[v], answers[v])
  <2>1. Same(far[v], answers[v], heavy)
    BY <1>16, <1>17 DEF MapsAgree
  <2>2. ref.dist[v] = AsWritten(far[v])
    BY <1>5
  <2>3. Answered(AsWritten(far[v]), answers[v], heavy)
    BY <2>1, SameConfirms
  <2>4. Answered(ref.dist[v], answers[v], heavy)
    BY <2>2, <2>3
  <2> QED
    BY <2>4 DEF Answered
<1>19. ASSUME heavy PROVE Validate(ref.dist, answers) = {}
  BY <1>17, <1>18, <1>19 DEF Validate, Confirms
<1> QED
  BY <1>17, <1>18, <1>19

(* For any network, source and tolerance: the alpha that answers rightly   *)
(* over the rounded graph is confirmed by the reference, as ReferenceFrom  *)
(* says.                                                                   *)
THEOREM RightAnswersAreConfirmed == InputSpec => []ReferenceConfirmed
<1> DEFINE OfNetwork == algorithm = "road" => input \in Networks
<1>1. InputInit => OfNetwork
  BY DEF InputInit
<1>2. OfNetwork /\ [InputNext]_inputVars => OfNetwork'
  BY DEF InputNext, inputVars
<1>3. OfNetwork => ReferenceConfirmed
  <2> SUFFICES ASSUME OfNetwork, algorithm = "road", ~Prepared.err PROVE ReferenceConfirmed
    BY DEF ReferenceConfirmed
  <2>1. input \in Networks
    OBVIOUS
  <2>2. IsDataset(Prepared) /\ input.source \in Int
    BY <2>1, PreparedIs
  <2> DEFINE nodes == ToSet(Prepared.vertices) \cup Ends(Oracle)
             heavy == \A i \in DOMAIN Prepared.edges :
                        Prepared.edges[i].weight >= Parts * (Tolerance + 1)
  <2>3. IsConfirmed(Prepared, Reference(Prepared, input.source),
                    Distances(Oracle, nodes, input.source), heavy)
    BY <2>2, ConfirmedOfAny DEF EdgeFile, Props, Oracle
  <2> QED
    BY <2>3 DEF IsConfirmed, ReferenceConfirmed
<1> QED
  BY <1>1, <1>2, <1>3, PTL DEF InputSpec
-----------------------------------------------------------------------------
(* A map M[0], M[1], ... that is given a value where P holds, and what its *)
(* keys and values then are.                                               *)
Writes(M, P, key, val, n) ==
  /\ M[0] = None
  /\ \A k \in 1..n : M[k] = IF k \in P THEN Put(M[k - 1], key[k], val[k]) ELSE M[k - 1]
Keeps(m, P, key, val, n) ==
  /\ \A x \in DOMAIN m : \E j \in 1..n : j \in P /\ key[j] = x /\ m[x] = val[j]
  /\ \A j \in 1..n : j \in P => key[j] \in DOMAIN m

(* A map keeps for each key a value it was given.                          *)
LEMMA KeepsOne ==
  ASSUME NEW m, NEW P, NEW key, NEW val, NEW n \in Nat, Keeps(m, P, key, val, n),
         NEW t, t = IF n + 1 \in P THEN Put(m, key[n + 1], val[n + 1]) ELSE m
  PROVE  Keeps(t, P, key, val, n + 1)
<1>1. 1..n \subseteq 1..n + 1 /\ n + 1 \in 1..n + 1 /\ \A j \in 1..n + 1 : j \in 1..n \/ j = n + 1
  OBVIOUS
<1>2. CASE n + 1 \notin P
  BY <1>1, <1>2 DEF Keeps
<1>3. CASE n + 1 \in P
  <2> DEFINE j0 == n + 1
             x0 == key[j0]
  <2>1. /\ DOMAIN t = DOMAIN m \cup {x0}
        /\ \A x \in DOMAIN t : t[x] = IF x = x0 THEN val[j0] ELSE m[x]
    BY <1>3 DEF Put
  <2>2. j0 \in P /\ j0 \in 1..n + 1
    BY <1>1, <1>3
  <2> HIDE DEF x0, j0
  <2>3. \A x \in DOMAIN t : \E j \in 1..n + 1 : j \in P /\ key[j] = x /\ t[x] = val[j]
    <3> SUFFICES ASSUME NEW x \in DOMAIN t
                 PROVE  \E j \in 1..n + 1 : j \in P /\ key[j] = x /\ t[x] = val[j]
      OBVIOUS
    <3>1. CASE x = x0
      BY <2>1, <2>2, <3>1 DEF x0
    <3>2. CASE x # x0
      <4>1. x \in DOMAIN m /\ t[x] = m[x]
        BY <2>1, <3>2
      <4>2. PICK j \in 1..n : j \in P /\ key[j] = x /\ m[x] = val[j]
        BY <4>1 DEF Keeps
      <4> QED
        BY <1>1, <4>1, <4>2
    <3> QED
      BY <3>1, <3>2
  <2>4. \A j \in 1..n + 1 : j \in P => key[j] \in DOMAIN t
    <3>1. \A j \in 1..n : j \in P => key[j] \in DOMAIN m
      BY DEF Keeps
    <3> QED
      BY <1>1, <2>1, <3>1 DEF x0, j0
  <2> QED
    BY <2>3, <2>4 DEF Keeps
<1> QED
  BY <1>2, <1>3

(* So it is after any number of lines.                                     *)
LEMMA KeepsAll ==
  ASSUME NEW M, NEW P, NEW key, NEW val, NEW N \in Nat, Writes(M, P, key, val, N)
  PROVE  \A n \in 0..N : Keeps(M[n], P, key, val, n)
<1> DEFINE T == {n \in Nat : n <= N => Keeps(M[n], P, key, val, n)}
<1>1. 0 \in T
  BY DEF Writes, Keeps, None
<1>2. ASSUME NEW n \in Nat, n \in T PROVE n + 1 \in T
  <2> SUFFICES ASSUME n + 1 <= N PROVE Keeps(M[n + 1], P, key, val, n + 1)
    OBVIOUS
  <2>1. Keeps(M[n], P, key, val, n)
    BY <1>2
  <2>2. n + 1 \in 1..N /\ (n + 1) - 1 = n
    OBVIOUS
  <2>3. M[n + 1] = IF n + 1 \in P THEN Put(M[n], key[n + 1], val[n + 1]) ELSE M[n]
    BY <2>2 DEF Writes
  <2> QED
    BY <2>1, <2>3, KeepsOne
<1>3. T = Nat
  <2> HIDE DEF T
  <2>1. T \in SUBSET Nat
    BY DEF T
  <2> QED
    BY <1>1, <1>2, <2>1, EveryNatural
<1> QED
  BY <1>3

(* Of one kind of pair: the second halves written at once, the keys whose  *)
(* halves meet at the end, the pairs there are; P1 and P2 are the lines of *)
(* the first and of the second halves.                                     *)
Waits(A, P2, sub) == {i \in P2 : sub[i] \notin DOMAIN A[i - 1]}
Told(A, P2, sub, obj, a, c) ==
  {i \in P2 : sub[i] \in DOMAIN A[i - 1] /\ A[i - 1][sub[i]] = a /\ obj[i] = c}
MeetLate(m, w, a, c) == {k \in DOMAIN w \cap DOMAIN m : m[k] = a /\ w[k] = c}
Met(P1, P2, sub, obj, a, c) ==
  {p \in P1 \X P2 : obj[p[1]] = sub[p[2]] /\ sub[p[1]] = a /\ obj[p[2]] = c}
Unique(P, key) == \A i, j \in P : key[i] = key[j] => i = j
TwoHalves(n, P1, P2, sub, obj, A, W) ==
  /\ n \in Nat /\ P1 \in SUBSET (1..n) /\ P2 \in SUBSET (1..n)
  /\ Writes(A, P1, obj, sub, n) /\ Writes(W, Waits(A, P2, sub), sub, obj, n)
AllMet(n, P1, P2, sub, obj, A, W, a, c) ==
  LET told == Cardinality(Told(A, P2, sub, obj, a, c))
      late == Cardinality(MeetLate(A[n], W[n], a, c))
      met == Cardinality(Met(P1, P2, sub, obj, a, c))
  IN  /\ told \in Nat /\ late \in Nat /\ met \in Nat
      /\ told + late <= met
      /\ Unique(P1, obj) /\ Unique(P2, sub) => told + late = met

(* Every edge written stands for a pair of its own, and where each key has *)
(* one first half and one second half every pair is written.               *)
LEMMA MetOnce ==
  \A N, P1, P2, sub, obj, A, W, a, c :
    TwoHalves(N, P1, P2, sub, obj, A, W) => AllMet(N, P1, P2, sub, obj, A, W, a, c)
<1> SUFFICES ASSUME NEW N \in Nat, NEW P1 \in SUBSET (1..N), NEW P2 \in SUBSET (1..N),
                    NEW sub, NEW obj, NEW A, NEW W, NEW a, NEW c, Writes(A, P1, obj, sub, N),
                    Writes(W, Waits(A, P2, sub), sub, obj, N)
             PROVE  AllMet(N, P1, P2, sub, obj, A, W, a, c)
  BY DEF TwoHalves
<1> DEFINE X == Told(A, P2, sub, obj, a, c)
           K == MeetLate(A[N], W[N], a, c)
           B == Met(P1, P2, sub, obj, a, c)
           V == Waits(A, P2, sub)
           By(i, k) == sub[i] = k /\ obj[i] = c
           g == [k \in K |-> CHOOSE i \in V : By(i, k)]
           Y == {g[k] : k \in K}
           I == X \cup Y
           From(j, i) == obj[j] = sub[i] /\ sub[j] = a
           h == [i \in I |-> <<CHOOSE j \in P1 : From(j, i), i>>]
<1>1. V \subseteq P2 /\ X \subseteq P2 /\ X \cap V = {}
  BY DEF Waits, Told
<1>2. \A n \in 0..N : Keeps(A[n], P1, obj, sub, n)
  BY KeepsAll
<1>3. Keeps(W[N], V, sub, obj, N)
  <2>1. N \in 0..N
    OBVIOUS
  <2>2. Writes(W, V, sub, obj, N)
    OBVIOUS
  <2> HIDE DEF V
  <2>3. \A n \in 0..N : Keeps(W[n], V, sub, obj, n)
    BY <2>2, KeepsAll
  <2> QED
    BY <2>1, <2>3
<1>4. \A n \in 0..N : \A x \in DOMAIN A[n] : \E j \in P1 : obj[j] = x /\ A[n][x] = sub[j]
  <2> SUFFICES ASSUME NEW n \in 0..N, NEW x \in DOMAIN A[n]
               PROVE  \E j \in P1 : obj[j] = x /\ A[n][x] = sub[j]
    OBVIOUS
  <2>1. Keeps(A[n], P1, obj, sub, n)
    BY <1>2
  <2> QED
    BY <2>1 DEF Keeps
<1>5. \A j \in P1 : obj[j] \in DOMAIN A[N]
  <2>1. Keeps(A[N], P1, obj, sub, N)
    BY <1>2
  <2> QED
    BY <2>1 DEF Keeps
<1>6. \A x \in DOMAIN W[N] : \E i \in V : sub[i] = x /\ W[N][x] = obj[i]
  BY <1>3 DEF Keeps
<1>7. \A i \in V : sub[i] \in DOMAIN W[N]
  <2>1. V \subseteq 1..N
    BY <1>1
  <2> QED
    BY <1>3, <2>1 DEF Keeps
<1>8. \A k \in K : g[k] \in V /\ By(g[k], k)
  <2> SUFFICES ASSUME NEW k \in K PROVE g[k] \in V /\ By(g[k], k)
    OBVIOUS
  <2>1. k \in DOMAIN W[N] /\ W[N][k] = c
    BY DEF MeetLate
  <2>2. \E i \in V : By(i, k)
    BY <1>6, <2>1
  <2>3. g[k] = CHOOSE i \in V : By(i, k)
    OBVIOUS
  <2> HIDE DEF V, g, By
  <2> QED
    BY <2>2, <2>3
<1>9. DOMAIN g = K
  OBVIOUS
<1>10. \A k \in K : k \in DOMAIN A[N] /\ A[N][k] = a /\ k \in DOMAIN W[N] /\ W[N][k] = c
  BY DEF MeetLate
<1>11. \A k : k \in DOMAIN A[N] /\ A[N][k] = a /\ k \in DOMAIN W[N] /\ W[N][k] = c => k \in K
  BY DEF MeetLate
<1>12. \A i \in X : /\ i - 1 \in 0..N /\ sub[i] \in DOMAIN A[i - 1]
                   /\ A[i - 1][sub[i]] = a /\ obj[i] = c
  BY DEF Told
<1>13. \A i \in P2 \ V : sub[i] \in DOMAIN A[i - 1]
  BY DEF Waits
<1>14. \A i \in P2 : sub[i] \in DOMAIN A[i - 1] /\ A[i - 1][sub[i]] = a /\ obj[i] = c => i \in X
  BY DEF Told
<1>15. \A p \in B : /\ p[1] \in P1 /\ p[2] \in P2 /\ p = <<p[1], p[2]>>
                    /\ From(p[1], p[2]) /\ obj[p[2]] = c
  BY DEF Met
<1>16. \A j \in P1, i \in P2 : From(j, i) /\ obj[i] = c => <<j, i>> \in B
  BY DEF Met
<1> HIDE DEF X, K, B, V, g
<1>17. \A i \in I : i \in P2 /\ obj[i] = c /\ \E j \in P1 : From(j, i)
  <2>1. ASSUME NEW i \in X PROVE i \in P2 /\ obj[i] = c /\ \E j \in P1 : From(j, i)
    <3>1. /\ i - 1 \in 0..N /\ sub[i] \in DOMAIN A[i - 1] /\ A[i - 1][sub[i]] = a
          /\ obj[i] = c /\ i \in P2
      BY <1>1, <1>12, <2>1
    <3> QED
      BY <1>4, <3>1
  <2>2. ASSUME NEW k \in K PROVE g[k] \in P2 /\ obj[g[k]] = c /\ \E j \in P1 : From(j, g[k])
    <3>1. g[k] \in P2 /\ sub[g[k]] = k /\ obj[g[k]] = c
      BY <1>1, <1>8, <2>2
    <3>2. N \in 0..N /\ k \in DOMAIN A[N] /\ A[N][k] = a
      BY <1>10, <2>2
    <3>3. PICK j \in P1 : obj[j] = k /\ A[N][k] = sub[j]
      BY <1>4, <3>2
    <3> QED
      BY <3>1, <3>2, <3>3
  <2> QED
    BY <2>1, <2>2
<1>18. IsFiniteSet(P1) /\ IsFiniteSet(P2) /\ IsFiniteSet(V)
  BY <1>1, FirstNumbers, FS_Subset
<1>19. IsFiniteSet(X) /\ IsFiniteSet(Y) /\ IsFiniteSet(I)
  <2>1. X \subseteq P2 /\ Y \subseteq P2 /\ I \subseteq P2
    <3>1. \A k \in K : g[k] \in P2
      BY <1>1, <1>8
    <3> QED
      BY <1>1, <3>1
  <2> HIDE DEF Y, I
  <2> QED
    BY <1>18, <2>1, FS_Subset
<1>20. IsFiniteSet(K) /\ Cardinality(K) = Cardinality(Y)
  <2>1. g \in [K -> Y]
    <3>1. g = [k \in K |-> g[k]]
      BY DEF g
    <3> QED
      BY <3>1
  <2>2. \A k, l \in K : g[k] = g[l] => k = l
    BY <1>8
  <2>3. \A y \in Y : \E k \in K : g[k] = y
    OBVIOUS
  <2> HIDE DEF Y
  <2>4. g \in Injection(K, Y) /\ g \in Surjection(K, Y)
    BY <2>1, <2>2, <2>3 DEF Injection, IsInjective, Surjection
  <2> QED
    BY <1>19, <2>4, FS_Injection
<1>21. Cardinality(I) = Cardinality(X) + Cardinality(Y)
  <2>1. X \cap Y = {}
    <3>1. \A k \in K : g[k] \notin X
      BY <1>1, <1>8
    <3> QED
      BY <3>1
  <2>2. I = X \cup Y
    OBVIOUS
  <2> HIDE DEF Y, I
  <2>3. Cardinality(X \cap Y) = 0
    BY <2>1, FS_EmptySet
  <2>4. Cardinality(X) \in Nat /\ Cardinality(Y) \in Nat
    BY <1>19, FS_CardinalityType
  <2>5. Cardinality(I) = Cardinality(X) + Cardinality(Y) - Cardinality(X \cap Y)
    BY <1>19, <2>2, FS_Union
  <2> QED
    BY <2>3, <2>4, <2>5
<1>22. IsFiniteSet(B)
  <2>1. IsFiniteSet(P1 \X P2)
    BY <1>18, FS_Product
  <2>2. B \in SUBSET (P1 \X P2)
    BY DEF B, Met
  <2> QED
    BY <2>1, <2>2, FS_Subset
<1>23. Cardinality(X) \in Nat /\ Cardinality(K) \in Nat /\ Cardinality(B) \in Nat
  BY <1>19, <1>20, <1>22, FS_CardinalityType
<1>24. Cardinality(I) <= Cardinality(B)
  <2>1. \A i \in I : h[i] = <<CHOOSE j \in P1 : From(j, i), i>>
    OBVIOUS
  <2>2. ASSUME NEW i \in I PROVE h[i] \in B /\ h[i][2] = i
    <3> DEFINE j == CHOOSE j \in P1 : From(j, i)
    <3>1. \E x \in P1 : From(x, i)
      BY <1>17, <2>2
    <3>2. j \in P1 /\ From(j, i)
      BY <3>1
    <3>3. h[i] = <<j, i>>
      BY <2>1, <2>2
    <3>4. i \in P2 /\ obj[i] = c
      BY <1>17, <2>2
    <3> HIDE DEF j
    <3> QED
      BY <1>16, <3>2, <3>3, <3>4
  <2>3. DOMAIN h = I
    OBVIOUS
  <2> HIDE DEF I, h
  <2>4. h \in [I -> B]
    <3>1. h = [i \in I |-> h[i]]
      BY <2>3 DEF h
    <3> QED
      BY <2>2, <3>1
  <2>5. \A i, j \in I : h[i] = h[j] => i = j
    BY <2>2
  <2>6. h \in Injection(I, B)
    BY <2>4, <2>5 DEF Injection, IsInjective
  <2> QED
    BY <1>22, <2>6, FS_Injection
<1>25. ASSUME Unique(P1, obj), Unique(P2, sub) PROVE Cardinality(B) <= Cardinality(I)
  <2>1. \A i, j \in P1 : obj[i] = obj[j] => i = j
    BY <1>25 DEF Unique
  <2>2. \A i, j \in P2 : sub[i] = sub[j] => i = j
    BY <1>25 DEF Unique
  <2>3. \A n \in 0..N, j \in P1 : obj[j] \in DOMAIN A[n] => A[n][obj[j]] = sub[j]
    BY <1>4, <2>1
  <2>4. \A i \in V : W[N][sub[i]] = obj[i]
    BY <1>1, <1>6, <1>7, <2>2
  <2>5. ASSUME NEW p \in B PROVE p[2] \in I
    <3> DEFINE i == p[2]
               j == p[1]
    <3>1. j \in P1 /\ i \in P2 /\ obj[j] = sub[i] /\ sub[j] = a /\ obj[i] = c
      BY <1>15, <2>5
    <3> HIDE DEF i, j
    <3>2. CASE i \notin V
      <4>1. i - 1 \in 0..N /\ sub[i] \in DOMAIN A[i - 1]
        BY <1>13, <3>1, <3>2
      <4>2. A[i - 1][sub[i]] = a
        BY <2>3, <3>1, <4>1
      <4>3. i \in X
        BY <1>14, <3>1, <4>1, <4>2
      <4> QED
        BY <4>3 DEF i
    <3>3. CASE i \in V
      <4>1. sub[i] \in DOMAIN W[N] /\ W[N][sub[i]] = c
        BY <1>7, <2>4, <3>1, <3>3
      <4>2. sub[i] \in DOMAIN A[N] /\ A[N][sub[i]] = a
        <5>1. N \in 0..N
          OBVIOUS
        <5> QED
          BY <1>5, <2>3, <3>1, <5>1
      <4>3. sub[i] \in K
        BY <1>11, <4>1, <4>2
      <4>4. g[sub[i]] = i
        BY <1>1, <1>8, <2>2, <3>1, <4>3
      <4>5. i \in Y
        BY <4>3, <4>4
      <4> QED
        BY <4>5 DEF i
    <3> QED
      BY <3>2, <3>3
  <2> DEFINE f == [p \in B |-> p[2]]
  <2>6. \A p, q \in B : p[2] = q[2] => p = q
    <3> SUFFICES ASSUME NEW p \in B, NEW q \in B, p[2] = q[2] PROVE p = q
      OBVIOUS
    <3>1. /\ p[1] \in P1 /\ q[1] \in P1 /\ obj[p[1]] = sub[p[2]] /\ obj[q[1]] = sub[q[2]]
          /\ p = <<p[1], p[2]>> /\ q = <<q[1], q[2]>>
      BY <1>15
    <3>2. p[1] = q[1]
      BY <2>1, <3>1
    <3> QED
      BY <3>1, <3>2
  <2>7. f \in [B -> I] /\ \A p \in B : f[p] = p[2]
    BY <2>5
  <2> HIDE DEF f, I
  <2>8. f \in Injection(B, I)
    BY <2>6, <2>7 DEF Injection, IsInjective
  <2> QED
    BY <1>19, <2>8, FS_Injection
<1>26. Cardinality(I) = Cardinality(X) + Cardinality(K) /\ Cardinality(I) \in Nat
  BY <1>20, <1>21, <1>19, FS_CardinalityType
<1> HIDE DEF I
<1> QED
  BY <1>23, <1>24, <1>25, <1>26 DEF AllMet, X, K, B

(* An output O[0], O[1], ... to which the elements of T append the line,   *)
(* and others something else or nothing.                                   *)
Appends(O, T, S, line, n) ==
  /\ O[0] = <<>>
  /\ \A k \in 1..n : /\ O[k - 1] \in Seq(S)
                     /\ k \in T => line \in S /\ O[k] = Append(O[k - 1], line)
                     /\ k \notin T => \/ O[k] = O[k - 1]
                                      \/ \E x \in S \ {line} : O[k] = Append(O[k - 1], x)

(* A line is in the output as often as it was appended to it.              *)
LEMMA CountAppends ==
  ASSUME NEW N \in Nat, NEW T \in SUBSET (1..N), NEW O, NEW S, NEW line,
         Appends(O, T, S, line, N)
  PROVE  Count(O[N], line) = Cardinality(T)
<1> DEFINE s == [i \in 1..N |-> IF i \in T THEN 1 ELSE 0]
           Z == {n \in Nat : n <= N => Count(O[n], line) = Among(s, n, 1)}
<1>1. 0 \in Z
  <2>1. Count(<<>>, line) = 0
    <3>1. {i \in DOMAIN <<>> : <<>>[i] = line} = {}
      BY EmptySeq
    <3> QED
      BY <3>1, FS_EmptySet DEF Count
  <2>2. Count(O[0], line) = 0
    BY <2>1 DEF Appends
  <2>3. Among(s, 0, 1) = 0
    BY AmongNone
  <2> QED
    BY <2>2, <2>3
<1>2. ASSUME NEW n \in Nat, n \in Z PROVE n + 1 \in Z
  <2> SUFFICES ASSUME n + 1 <= N PROVE Count(O[n + 1], line) = Among(s, n + 1, 1)
    OBVIOUS
  <2>1. Count(O[n], line) = Among(s, n, 1)
    BY <1>2
  <2>2. n + 1 \in 1..N /\ (n + 1) - 1 = n
    OBVIOUS
  <2>3. s[n + 1] = IF n + 1 \in T THEN 1 ELSE 0
    BY <2>2
  <2> HIDE DEF s
  <2>4. O[n] \in Seq(S)
    BY <2>2 DEF Appends
  <2>5. CASE n + 1 \in T
    <3>1. line \in S /\ O[n + 1] = Append(O[n], line)
      BY <2>2, <2>5 DEF Appends
    <3>2. Count(O[n + 1], line) = Count(O[n], line) + 1
      BY <2>4, <3>1, CountAppend
    <3>3. Among(s, n + 1, 1) = Among(s, n, 1) + 1
      BY <2>3, <2>5, AmongNext
    <3> QED
      BY <2>1, <3>2, <3>3
  <2>6. CASE n + 1 \notin T
    <3>1. O[n + 1] = O[n] \/ \E x \in S \ {line} : O[n + 1] = Append(O[n], x)
      BY <2>2, <2>6 DEF Appends
    <3>2. Count(O[n + 1], line) = Count(O[n], line)
      <4>1. ASSUME NEW x \in S \ {line}, O[n + 1] = Append(O[n], x)
            PROVE  Count(O[n + 1], line) = Count(O[n], line)
        BY <2>4, <4>1, CountAppend
      <4> QED
        BY <3>1, <4>1
    <3>3. s[n + 1] # 1
      BY <2>3, <2>6
    <3>4. Among(s, n + 1, 1) = Among(s, n, 1)
      BY <3>3, AmongNext
    <3> QED
      BY <2>1, <3>2, <3>4
  <2> QED
    BY <2>5, <2>6
<1>3. Z = Nat
  <2> HIDE DEF Z
  <2>1. Z \in SUBSET Nat
    BY DEF Z
  <2> QED
    BY <1>1, <1>2, <2>1, EveryNatural
<1>4. Count(O[N], line) = Among(s, N, 1)
  BY <1>3
<1>5. {i \in 1..N : s[i] = 1} = T
  <2>1. \A i \in 1..N : s[i] = 1 <=> i \in T
    OBVIOUS
  <2> HIDE DEF s
  <2> QED
    BY <2>1
<1> QED
  BY <1>4, <1>5 DEF Among
(* The maps of convert and the edges it writes.                            *)
JoinMaps == UNION {[D -> STRING] : D \in SUBSET STRING}
JoinEdges == STRING \X {"acted_in", "actors", "name"} \X STRING
JoinStates == [actormp : JoinMaps, starringmp : JoinMaps, r1 : JoinMaps, r2 : JoinMaps,
               out : Seq(JoinEdges)]
JoinStart == [actormp |-> None, starringmp |-> None, r1 |-> None, r2 |-> None, out |-> <<>>]

(* Such a map holds strings, and still does with one more.                 *)
LEMMA JoinMapsHold ==
  /\ None \in JoinMaps
  /\ \A m \in JoinMaps : \A x \in DOMAIN m : m[x] \in STRING
  /\ \A m \in JoinMaps, x, y \in STRING : Put(m, x, y) \in JoinMaps
<1>1. None \in JoinMaps
  <2>1. None \in [{} -> STRING] /\ {} \in SUBSET STRING
    BY DEF None
  <2> QED
    BY <2>1 DEF JoinMaps
<1>2. \A m \in JoinMaps : \E D \in SUBSET STRING : m \in [D -> STRING]
  BY DEF JoinMaps
<1>3. ASSUME NEW m \in JoinMaps, NEW x \in STRING, NEW y \in STRING
      PROVE  Put(m, x, y) \in JoinMaps
  <2>1. PICK D \in SUBSET STRING : m \in [D -> STRING]
    BY <1>2
  <2>2. D \cup {x} \in SUBSET STRING
    OBVIOUS
  <2>3. Put(m, x, y) \in [D \cup {x} -> STRING]
    BY <2>1 DEF Put
  <2> QED
    BY <2>2, <2>3 DEF JoinMaps
<1> QED
  BY <1>1, <1>2, <1>3

(* Two ends and what one is to the other make an edge.                     *)
LEMMA JoinEdgesHold ==
  \A x, y \in STRING :
    /\ <<x, "acted_in", y>> \in JoinEdges
    /\ <<x, "actors", y>> \in JoinEdges
    /\ <<x, "name", y>> \in JoinEdges
  BY DEF JoinEdges

(* What one line does to each part of the state.                           *)
JoinSteps(s, nq, t) ==
  /\ t.actormp = IF nq.pred = "actor.film" THEN Put(s.actormp, nq.obj, nq.sub) ELSE s.actormp
  /\ t.starringmp = IF nq.pred = "starring" THEN Put(s.starringmp, nq.obj, nq.sub)
                                            ELSE s.starringmp
  /\ t.r1 = IF nq.pred = "performance.film" /\ nq.sub \notin DOMAIN s.actormp
            THEN Put(s.r1, nq.sub, nq.obj) ELSE s.r1
  /\ t.r2 = IF nq.pred = "performance.actor" /\ nq.sub \notin DOMAIN s.starringmp
            THEN Put(s.r2, nq.sub, nq.obj) ELSE s.r2
  /\ t.out = IF nq.pred = "performance.film" /\ nq.sub \in DOMAIN s.actormp
             THEN Append(s.out, <<s.actormp[nq.sub], "acted_in", nq.obj>>)
             ELSE IF nq.pred = "performance.actor" /\ nq.sub \in DOMAIN s.starringmp
             THEN Append(s.out, <<s.starringmp[nq.sub], "actors", nq.obj>>)
             ELSE IF nq.pred = "name" THEN Append(s.out, <<nq.sub, "name", nq.obj>>)
             ELSE s.out

(* JoinLine does that, and keeps the types.                                *)
LEMMA JoinLineIs ==
  ASSUME NEW s \in JoinStates, NEW nq \in NQuad
  PROVE  JoinSteps(s, nq, JoinLine(s, nq)) /\ JoinLine(s, nq) \in JoinStates
<1> DEFINE t == JoinLine(s, nq)
<1>1. JoinSteps(s, nq, t)
  <2>1. CASE nq.pred = "actor.film"
    BY <2>1 DEF JoinLine, JoinSteps, JoinStates
  <2>2. CASE nq.pred = "starring"
    BY <2>2 DEF JoinLine, JoinSteps, JoinStates
  <2>3. CASE nq.pred = "performance.film"
    BY <2>3 DEF JoinLine, JoinSteps, JoinStates
  <2>4. CASE nq.pred = "performance.actor"
    BY <2>4 DEF JoinLine, JoinSteps, JoinStates
  <2>5. CASE nq.pred = "name"
    BY <2>5 DEF JoinLine, JoinSteps, JoinStates
  <2>6. CASE nq.pred \notin {"actor.film", "starring", "performance.film",
                            "performance.actor", "name"}
    <3>1. t = s
      BY <2>6 DEF JoinLine
    <3> HIDE DEF t
    <3> QED
      BY <2>6, <3>1 DEF JoinSteps
  <2> QED
    BY <2>1, <2>2, <2>3, <2>4, <2>5, <2>6
<1>2. /\ s.actormp \in JoinMaps /\ s.starringmp \in JoinMaps /\ s.r1 \in JoinMaps
      /\ s.r2 \in JoinMaps /\ s.out \in Seq(JoinEdges)
  BY DEF JoinStates
<1>3. nq.pred \in STRING /\ nq.sub \in STRING /\ nq.obj \in STRING
  BY DEF NQuad
<1>4. t = [actormp |-> t.actormp, starringmp |-> t.starringmp, r1 |-> t.r1, r2 |-> t.r2,
           out |-> t.out]
  <2>1. s = [actormp |-> s.actormp, starringmp |-> s.starringmp, r1 |-> s.r1, r2 |-> s.r2,
             out |-> s.out]
    BY DEF JoinStates
  <2> QED
    BY <2>1 DEF JoinLine
<1> HIDE DEF t
<1>5. /\ t.actormp \in JoinMaps /\ t.starringmp \in JoinMaps
      /\ t.r1 \in JoinMaps /\ t.r2 \in JoinMaps
  BY <1>1, <1>2, <1>3, JoinMapsHold DEF JoinSteps
<1>6. t.out \in Seq(JoinEdges)
  <2>1. nq.sub \in DOMAIN s.actormp =>
          <<s.actormp[nq.sub], "acted_in", nq.obj>> \in JoinEdges
    BY <1>2, <1>3, JoinMapsHold, JoinEdgesHold
  <2>2. nq.sub \in DOMAIN s.starringmp =>
          <<s.starringmp[nq.sub], "actors", nq.obj>> \in JoinEdges
    BY <1>2, <1>3, JoinMapsHold, JoinEdgesHold
  <2>3. <<nq.sub, "name", nq.obj>> \in JoinEdges
    BY <1>3, JoinEdgesHold
  <2>4. \A e \in JoinEdges : Append(s.out, e) \in Seq(JoinEdges)
    BY <1>2, AppendProperties
  <2> QED
    BY <1>1, <1>2, <2>1, <2>2, <2>3, <2>4 DEF JoinSteps
<1>7. [actormp |-> t.actormp, starringmp |-> t.starringmp, r1 |-> t.r1, r2 |-> t.r2,
       out |-> t.out] \in JoinStates
  BY <1>5, <1>6 DEF JoinStates
<1>8. t \in JoinStates
  BY <1>4, <1>7
<1> QED
  BY <1>1, <1>8 DEF t

(* Joined goes through the lines one by one.                               *)
LEMMA JoinedSteps ==
  ASSUME NEW lines \in Seq(NQuad)
  PROVE  \E r \in [0..Len(lines) -> JoinStates] :
           /\ r[0] = JoinStart
           /\ \A k \in 1..Len(lines) : r[k] = JoinLine(r[k - 1], lines[k])
           /\ Joined(lines) = r[Len(lines)]
<1> DEFINE n == Len(lines)
           start == JoinStart
           Steps == [k \in 1..n |-> [x \in JoinStates |-> JoinLine(x, lines[k])]]
           Def(g) == [k \in 0..n |-> IF k = 0 THEN start ELSE JoinLine(g[k - 1], lines[k])]
<1>1. n \in Nat
  BY LenProperties
<1>2. start \in JoinStates
  BY JoinMapsHold, EmptySeq DEF JoinStart, JoinStates
<1>3. Steps \in [1..n -> [JoinStates -> JoinStates]]
  <2>1. \A k \in 1..n : lines[k] \in NQuad
    BY ElementOfSeq DEF n
  <2> QED
    BY <2>1, JoinLineIs
<1> HIDE DEF n, start, Steps
<1>4. PICK r \in [0..n -> JoinStates] : Iterates(r, start, Steps, n)
  BY <1>1, <1>2, <1>3, IterationExists
<1>5. r[0] = start /\ \A k \in 1..n : r[k] = JoinLine(r[k - 1], lines[k])
  <2>1. \A k \in 1..n : k - 1 \in 0..n
    BY <1>1
  <2>2. \A k \in 1..n, x \in JoinStates : Steps[k][x] = JoinLine(x, lines[k])
    BY DEF Steps
  <2> QED
    BY <1>4, <2>1, <2>2 DEF Iterates
<1>6. r = Def(r)
  <2> SUFFICES ASSUME NEW k \in 0..n, k # 0 PROVE r[k] = JoinLine(r[k - 1], lines[k])
    BY <1>5
  <2>1. k \in 1..n
    BY <1>1
  <2> QED
    BY <1>5, <2>1
<1> DEFINE f == CHOOSE g : g = Def(g)
<1>7. f = Def(f)
  BY <1>6
<1>8. Joined(lines) = f[n]
  BY DEF Joined, JoinStart, n, start
<1> HIDE DEF f
<1>9. f[0] = start /\ \A k \in 1..n : f[k] = JoinLine(f[k - 1], lines[k])
  <2>1. \A k \in 0..n : f[k] = IF k = 0 THEN start ELSE JoinLine(f[k - 1], lines[k])
    BY <1>7
  <2>2. 0 \in 0..n /\ \A k \in 1..n : k \in 0..n /\ k # 0
    BY <1>1
  <2> QED
    BY <2>1, <2>2
<1>10. f[n] = r[n]
  <2>1. GoAlike(r, f, n)
    BY <1>5, <1>9 DEF GoAlike
  <2>2. Alike(r, f, n)
    BY <1>1, <2>1, SameIterations
  <2>3. n \in 0..n
    BY <1>1
  <2> QED
    BY <2>2, <2>3 DEF Alike
<1> QED
  BY <1>4, <1>5, <1>8, <1>10 DEF n, start

(* The states of convert, from none of the lines to all of them.           *)
JoinRun(r, lines) ==
  /\ r[0] = JoinStart /\ Joined(lines) = r[Len(lines)]
  /\ \A k \in 1..Len(lines) : /\ r[k - 1] \in JoinStates /\ lines[k] \in NQuad
                              /\ JoinSteps(r[k - 1], lines[k], r[k])

(* Any lines can be read.                                                  *)
LEMMA JoinRuns == ASSUME NEW lines \in Seq(NQuad) PROVE \E r : JoinRun(r, lines)
<1>1. PICK r \in [0..Len(lines) -> JoinStates] :
        /\ r[0] = JoinStart
        /\ \A k \in 1..Len(lines) : r[k] = JoinLine(r[k - 1], lines[k])
        /\ Joined(lines) = r[Len(lines)]
  BY JoinedSteps
<1>2. \A k \in 1..Len(lines) : k - 1 \in 0..Len(lines) /\ lines[k] \in NQuad
  BY ElementOfSeq, LenProperties
<1>3. \A k \in 1..Len(lines) : r[k - 1] \in JoinStates
  BY <1>1, <1>2
<1>4. \A k \in 1..Len(lines) : JoinSteps(r[k - 1], lines[k], r[k])
  BY <1>1, <1>2, <1>3, JoinLineIs
<1> QED
  BY <1>1, <1>2, <1>3, <1>4 DEF JoinRun

(* The lines of one predicate, and the pairs that are to become a line.    *)
OfPred(lines, pred) == {i \in DOMAIN lines : lines[i].pred = pred}
Met2(lines, first, second, line) ==
  {p \in OfPred(lines, first) \X OfPred(lines, second) :
     /\ lines[p[1]].obj = lines[p[2]].sub
     /\ lines[p[1]].sub = line[1] /\ lines[p[2]].obj = line[3]}
SubOnce(lines, pred) ==
  \A i, j \in OfPred(lines, pred) : lines[i].sub = lines[j].sub => i = j
ObjOnce(lines, pred) ==
  \A i, j \in OfPred(lines, pred) : lines[i].obj = lines[j].obj => i = j
Late(waiting, first, name, line) ==
  {k \in DOMAIN waiting \cap DOMAIN first : line = <<first[k], name, waiting[k]>>}

(* The output is what was appended and what was late.                      *)
LEMMA OutputIs ==
  ASSUME NEW lines, NEW line, NEW s, s = Joined(lines)
  PROVE  Output(lines, line) = Count(s.out, line)
                               + Cardinality(Late(s.r1, s.actormp, "acted_in", line))
                               + Cardinality(Late(s.r2, s.starringmp, "actors", line))
  BY DEF Output, Late, Count

(* No line is another one's.                                               *)
LEMMA NoneLate ==
  ASSUME NEW waiting, NEW first, NEW name, NEW line, line[2] # name
  PROVE  Cardinality(Late(waiting, first, name, line)) = 0
<1>1. Late(waiting, first, name, line) = {}
  BY DEF Late
<1> QED
  BY <1>1, FS_EmptySet

(* An actor's performances are joined with their films.                     *)
LEMMA FilmsCounted ==
  ASSUME NEW lines \in Seq(NQuad), NEW line \in JoinEdges, line[2] = "acted_in"
  PROVE  LET met == Cardinality(Met2(lines, "actor.film", "performance.film", line))
         IN  /\ met \in Nat
             /\ Output(lines, line) <= met
             /\ ObjOnce(lines, "actor.film") /\ SubOnce(lines, "performance.film") =>
                  Output(lines, line) = met
<1>1. PICK r : JoinRun(r, lines)
  BY JoinRuns
<1> DEFINE N == Len(lines)
           sub == [i \in 1..N |-> lines[i].sub]
           obj == [i \in 1..N |-> lines[i].obj]
           P1 == OfPred(lines, "actor.film")
           P2 == OfPred(lines, "performance.film")
           A == [k \in 0..N |-> r[k].actormp]
           W == [k \in 0..N |-> r[k].r1]
           O == [k \in 0..N |-> r[k].out]
           a == line[1]
           c == line[3]
           told == Told(A, P2, sub, obj, a, c)
<1>2. N \in Nat /\ DOMAIN lines = 1..N
  BY LenProperties
<1>3. \A k \in 1..N : /\ k - 1 \in 0..N /\ k \in 0..N /\ lines[k] \in NQuad
                      /\ r[k - 1] \in JoinStates /\ JoinSteps(r[k - 1], lines[k], r[k])
  BY <1>1, <1>2 DEF JoinRun
<1>4. \A k \in 0..N : A[k] = r[k].actormp /\ W[k] = r[k].r1 /\ O[k] = r[k].out
  OBVIOUS
<1>5. \A k \in 1..N : sub[k] = lines[k].sub /\ obj[k] = lines[k].obj
  OBVIOUS
<1>6. \A k \in 1..N : /\ k \in P1 <=> lines[k].pred = "actor.film"
                      /\ k \in P2 <=> lines[k].pred = "performance.film"
  BY <1>2 DEF OfPred
<1>7. P1 \in SUBSET (1..N) /\ P2 \in SUBSET (1..N)
  BY <1>2 DEF OfPred
<1>8. A[0] = None /\ W[0] = None /\ O[0] = <<>>
  <2>1. r[0] = JoinStart /\ 0 \in 0..N
    BY <1>1, <1>2 DEF JoinRun
  <2>2. r[0].actormp = None /\ r[0].r1 = None /\ r[0].out = <<>>
    BY <2>1 DEF JoinStart
  <2> QED
    BY <1>4, <2>1, <2>2
<1>9. Joined(lines) = r[N] /\ N \in 0..N
  BY <1>1, <1>2 DEF JoinRun
<1>10. line = <<a, "acted_in", c>>
  BY DEF JoinEdges
<1> HIDE DEF N, sub, obj, A, W, O, P1, P2, a, c
<1>11. Writes(A, P1, obj, sub, N)
  <2>1. ASSUME NEW k \in 1..N
        PROVE  A[k] = IF k \in P1 THEN Put(A[k - 1], obj[k], sub[k]) ELSE A[k - 1]
    <3>1. r[k].actormp = IF lines[k].pred = "actor.film"
                      THEN Put(r[k - 1].actormp, lines[k].obj, lines[k].sub)
                      ELSE r[k - 1].actormp
      BY <1>3, <2>1 DEF JoinSteps
    <3> QED
      BY <1>3, <1>4, <1>5, <1>6, <2>1, <3>1
  <2> QED
    BY <1>8, <2>1 DEF Writes
<1>12. Writes(W, Waits(A, P2, sub), sub, obj, N)
  <2> DEFINE V == Waits(A, P2, sub)
  <2>1. ASSUME NEW k \in 1..N
        PROVE  W[k] = IF k \in V THEN Put(W[k - 1], sub[k], obj[k]) ELSE W[k - 1]
    <3>1. r[k].r1 = IF /\ lines[k].pred = "performance.film"
                        /\ lines[k].sub \notin DOMAIN r[k - 1].actormp
                     THEN Put(r[k - 1].r1, lines[k].sub, lines[k].obj)
                     ELSE r[k - 1].r1
      BY <1>3, <2>1 DEF JoinSteps
    <3>2. k \in V <=> /\ lines[k].pred = "performance.film"
                      /\ lines[k].sub \notin DOMAIN r[k - 1].actormp
      BY <1>3, <1>4, <1>5, <1>6, <2>1 DEF Waits
    <3> HIDE DEF V
    <3> QED
      BY <1>3, <1>4, <1>5, <2>1, <3>1, <3>2
  <2> HIDE DEF V
  <2>2. Writes(W, V, sub, obj, N)
    BY <1>8, <2>1 DEF Writes
  <2> QED
    BY <2>2 DEF V
<1>13. /\ Cardinality(told) \in Nat /\ Cardinality(MeetLate(A[N], W[N], a, c)) \in Nat
       /\ Cardinality(Met(P1, P2, sub, obj, a, c)) \in Nat
       /\ Cardinality(told) + Cardinality(MeetLate(A[N], W[N], a, c))
            <= Cardinality(Met(P1, P2, sub, obj, a, c))
       /\ Unique(P1, obj) /\ Unique(P2, sub) =>
            Cardinality(told) + Cardinality(MeetLate(A[N], W[N], a, c))
              = Cardinality(Met(P1, P2, sub, obj, a, c))
  <2>1. TwoHalves(N, P1, P2, sub, obj, A, W)
    BY <1>2, <1>7, <1>11, <1>12 DEF TwoHalves
  <2>2. AllMet(N, P1, P2, sub, obj, A, W, a, c)
    BY <2>1, MetOnce
  <2> QED
    BY <2>2 DEF AllMet
<1>14. \A k \in 1..N :
         k \in told <=> /\ lines[k].pred = "performance.film"
                        /\ lines[k].sub \in DOMAIN r[k - 1].actormp
                        /\ r[k - 1].actormp[lines[k].sub] = a /\ lines[k].obj = c
  BY <1>3, <1>4, <1>5, <1>6 DEF Told
<1>15. told \in SUBSET (1..N)
  BY <1>7 DEF Told
<1> HIDE DEF told
<1>16. Appends(O, told, JoinEdges, line, N)
  <2> SUFFICES ASSUME NEW k \in 1..N
               PROVE  /\ O[k - 1] \in Seq(JoinEdges)
                      /\ k \in told => line \in JoinEdges /\ O[k] = Append(O[k - 1], line)
                      /\ k \notin told => \/ O[k] = O[k - 1]
                                          \/ \E x \in JoinEdges \ {line} :
                                               O[k] = Append(O[k - 1], x)
    BY <1>8 DEF Appends
  <2> DEFINE nq == lines[k]
             s == r[k - 1]
             e1 == <<s.actormp[nq.sub], "acted_in", nq.obj>>
             e2 == <<s.starringmp[nq.sub], "actors", nq.obj>>
             e3 == <<nq.sub, "name", nq.obj>>
  <2>1. O[k - 1] = s.out /\ s \in JoinStates /\ nq \in NQuad
    BY <1>3, <1>4
  <2>2. O[k] = IF nq.pred = "performance.film" /\ nq.sub \in DOMAIN s.actormp
               THEN Append(s.out, e1)
               ELSE IF nq.pred = "performance.actor" /\ nq.sub \in DOMAIN s.starringmp
               THEN Append(s.out, e2)
               ELSE IF nq.pred = "name" THEN Append(s.out, e3)
               ELSE s.out
    BY <1>3, <1>4 DEF JoinSteps
  <2>3. k \in told <=> /\ nq.pred = "performance.film" /\ nq.sub \in DOMAIN s.actormp
                       /\ s.actormp[nq.sub] = a /\ nq.obj = c
    BY <1>14
  <2> HIDE DEF nq, s
  <2>4. /\ s.out \in Seq(JoinEdges) /\ s.actormp \in JoinMaps /\ s.starringmp \in JoinMaps
        /\ nq.sub \in STRING /\ nq.obj \in STRING
    BY <2>1 DEF JoinStates, NQuad
  <2>5. nq.sub \in DOMAIN s.actormp => e1 \in JoinEdges
    BY <2>4, JoinMapsHold, JoinEdgesHold
  <2>6. nq.sub \in DOMAIN s.starringmp => e2 \in JoinEdges
    BY <2>4, JoinMapsHold, JoinEdgesHold
  <2>7. e3 \in JoinEdges
    BY <2>4, JoinEdgesHold
  <2>8. /\ e1[1] = s.actormp[nq.sub] /\ e1[2] = "acted_in" /\ e1[3] = nq.obj
        /\ e2[1] = s.starringmp[nq.sub] /\ e2[2] = "actors" /\ e2[3] = nq.obj
        /\ e3[2] = "name"
    OBVIOUS
  <2>9. line[1] = a /\ line[3] = c
    BY DEF a, c
  <2>10. e1 = line <=> s.actormp[nq.sub] = a /\ nq.obj = c
    BY <1>10
  <2>11. e2 # line /\ e3 # line
    BY <1>10
  <2> HIDE DEF e1, e2, e3
  <2>12. CASE k \in told
    <3>1. nq.pred = "performance.film" /\ nq.sub \in DOMAIN s.actormp /\ e1 = line
      BY <2>3, <2>10, <2>12
    <3>2. O[k] = Append(s.out, e1)
      BY <2>2, <3>1
    <3> QED
      BY <2>1, <2>4, <2>12, <3>1, <3>2
  <2>13. CASE k \notin told
    <3>1. \/ O[k] = s.out
          \/ nq.sub \in DOMAIN s.actormp /\ O[k] = Append(s.out, e1) /\ e1 # line
          \/ nq.sub \in DOMAIN s.starringmp /\ O[k] = Append(s.out, e2)
          \/ O[k] = Append(s.out, e3)
      BY <2>2, <2>3, <2>10, <2>13
    <3> QED
      BY <2>1, <2>4, <2>5, <2>6, <2>7, <2>11, <2>13, <3>1
  <2> QED
    BY <2>12, <2>13
<1>17. Count(O[N], line) = Cardinality(told)
  BY <1>2, <1>15, <1>16, CountAppends
<1>18. Output(lines, line) = Cardinality(told) + Cardinality(MeetLate(A[N], W[N], a, c))
  <2> DEFINE s == r[N]
  <2>1. s = Joined(lines) /\ A[N] = s.actormp /\ W[N] = s.r1 /\ O[N] = s.out
    BY <1>4, <1>9
  <2> HIDE DEF s
  <2>2. Output(lines, line) = Count(s.out, line)
                              + Cardinality(Late(s.r1, s.actormp, "acted_in", line))
                              + Cardinality(Late(s.r2, s.starringmp, "actors", line))
    BY <2>1, OutputIs
  <2>3. Cardinality(Late(s.r2, s.starringmp, "actors", line)) = 0
    BY <1>10, NoneLate
  <2>4. Late(s.r1, s.actormp, "acted_in", line) = MeetLate(A[N], W[N], a, c)
    <3>1. \A k : line = <<s.actormp[k], "acted_in", s.r1[k]>>
                   <=> s.actormp[k] = a /\ s.r1[k] = c
      BY <1>10
    <3> QED
      BY <2>1, <3>1 DEF Late, MeetLate
  <2> QED
    BY <1>13, <1>17, <2>1, <2>2, <2>3, <2>4
<1>19. Met2(lines, "actor.film", "performance.film", line) = Met(P1, P2, sub, obj, a, c)
  <2>1. \A i \in P1 : i \in 1..N
    BY <1>7
  <2>2. \A i \in P2 : i \in 1..N
    BY <1>7
  <2> QED
    BY <1>5, <2>1, <2>2 DEF Met2, Met, P1, P2, a, c
<1>20. /\ ObjOnce(lines, "actor.film") => Unique(P1, obj)
       /\ SubOnce(lines, "performance.film") => Unique(P2, sub)
  <2>1. \A i \in P1 : obj[i] = lines[i].obj
    BY <1>5, <1>7
  <2>2. \A i \in P2 : sub[i] = lines[i].sub
    BY <1>5, <1>7
  <2> QED
    BY <2>1, <2>2 DEF ObjOnce, SubOnce, Unique, P1, P2
<1> QED
  BY <1>13, <1>18, <1>19, <1>20

(* A film's performances are joined with their actors.                     *)
LEMMA ActorsCounted ==
  ASSUME NEW lines \in Seq(NQuad), NEW line \in JoinEdges, line[2] = "actors"
  PROVE  LET met == Cardinality(Met2(lines, "starring", "performance.actor", line))
         IN  /\ met \in Nat
             /\ Output(lines, line) <= met
             /\ ObjOnce(lines, "starring") /\ SubOnce(lines, "performance.actor") =>
                  Output(lines, line) = met
<1>1. PICK r : JoinRun(r, lines)
  BY JoinRuns
<1> DEFINE N == Len(lines)
           sub == [i \in 1..N |-> lines[i].sub]
           obj == [i \in 1..N |-> lines[i].obj]
           P1 == OfPred(lines, "starring")
           P2 == OfPred(lines, "performance.actor")
           A == [k \in 0..N |-> r[k].starringmp]
           W == [k \in 0..N |-> r[k].r2]
           O == [k \in 0..N |-> r[k].out]
           a == line[1]
           c == line[3]
           told == Told(A, P2, sub, obj, a, c)
<1>2. N \in Nat /\ DOMAIN lines = 1..N
  BY LenProperties
<1>3. \A k \in 1..N : /\ k - 1 \in 0..N /\ k \in 0..N /\ lines[k] \in NQuad
                      /\ r[k - 1] \in JoinStates /\ JoinSteps(r[k - 1], lines[k], r[k])
  BY <1>1, <1>2 DEF JoinRun
<1>4. \A k \in 0..N : A[k] = r[k].starringmp /\ W[k] = r[k].r2 /\ O[k] = r[k].out
  OBVIOUS
<1>5. \A k \in 1..N : sub[k] = lines[k].sub /\ obj[k] = lines[k].obj
  OBVIOUS
<1>6. \A k \in 1..N : /\ k \in P1 <=> lines[k].pred = "starring"
                      /\ k \in P2 <=> lines[k].pred = "performance.actor"
  BY <1>2 DEF OfPred
<1>7. P1 \in SUBSET (1..N) /\ P2 \in SUBSET (1..N)
  BY <1>2 DEF OfPred
<1>8. A[0] = None /\ W[0] = None /\ O[0] = <<>>
  <2>1. r[0] = JoinStart /\ 0 \in 0..N
    BY <1>1, <1>2 DEF JoinRun
  <2>2. r[0].starringmp = None /\ r[0].r2 = None /\ r[0].out = <<>>
    BY <2>1 DEF JoinStart
  <2> QED
    BY <1>4, <2>1, <2>2
<1>9. Joined(lines) = r[N] /\ N \in 0..N
  BY <1>1, <1>2 DEF JoinRun
<1>10. line = <<a, "actors", c>>
  BY DEF JoinEdges
<1> HIDE DEF N, sub, obj, A, W, O, P1, P2, a, c
<1>11. Writes(A, P1, obj, sub, N)
  <2>1. ASSUME NEW k \in 1..N
        PROVE  A[k] = IF k \in P1 THEN Put(A[k - 1], obj[k], sub[k]) ELSE A[k - 1]
    <3>1. r[k].starringmp = IF lines[k].pred = "starring"
                      THEN Put(r[k - 1].starringmp, lines[k].obj, lines[k].sub)
                      ELSE r[k - 1].starringmp
      BY <1>3, <2>1 DEF JoinSteps
    <3> QED
      BY <1>3, <1>4, <1>5, <1>6, <2>1, <3>1
  <2> QED
    BY <1>8, <2>1 DEF Writes
<1>12. Writes(W, Waits(A, P2, sub), sub, obj, N)
  <2> DEFINE V == Waits(A, P2, sub)
  <2>1. ASSUME NEW k \in 1..N
        PROVE  W[k] = IF k \in V THEN Put(W[k - 1], sub[k], obj[k]) ELSE W[k - 1]
    <3>1. r[k].r2 = IF /\ lines[k].pred = "performance.actor"
                        /\ lines[k].sub \notin DOMAIN r[k - 1].starringmp
                     THEN Put(r[k - 1].r2, lines[k].sub, lines[k].obj)
                     ELSE r[k - 1].r2
      BY <1>3, <2>1 DEF JoinSteps
    <3>2. k \in V <=> /\ lines[k].pred = "performance.actor"
                      /\ lines[k].sub \notin DOMAIN r[k - 1].starringmp
      BY <1>3, <1>4, <1>5, <1>6, <2>1 DEF Waits
    <3> HIDE DEF V
    <3> QED
      BY <1>3, <1>4, <1>5, <2>1, <3>1, <3>2
  <2> HIDE DEF V
  <2>2. Writes(W, V, sub, obj, N)
    BY <1>8, <2>1 DEF Writes
  <2> QED
    BY <2>2 DEF V
<1>13. /\ Cardinality(told) \in Nat /\ Cardinality(MeetLate(A[N], W[N], a, c)) \in Nat
       /\ Cardinality(Met(P1, P2, sub, obj, a, c)) \in Nat
       /\ Cardinality(told) + Cardinality(MeetLate(A[N], W[N], a, c))
            <= Cardinality(Met(P1, P2, sub, obj, a, c))
       /\ Unique(P1, obj) /\ Unique(P2, sub) =>
            Cardinality(told) + Cardinality(MeetLate(A[N], W[N], a, c))
              = Cardinality(Met(P1, P2, sub, obj, a, c))
  <2>1. TwoHalves(N, P1, P2, sub, obj, A, W)
    BY <1>2, <1>7, <1>11, <1>12 DEF TwoHalves
  <2>2. AllMet(N, P1, P2, sub, obj, A, W, a, c)
    BY <2>1, MetOnce
  <2> QED
    BY <2>2 DEF AllMet
<1>14. \A k \in 1..N :
         k \in told <=> /\ lines[k].pred = "performance.actor"
                        /\ lines[k].sub \in DOMAIN r[k - 1].starringmp
                        /\ r[k - 1].starringmp[lines[k].sub] = a /\ lines[k].obj = c
  BY <1>3, <1>4, <1>5, <1>6 DEF Told
<1>15. told \in SUBSET (1..N)
  BY <1>7 DEF Told
<1> HIDE DEF told
<1>16. Appends(O, told, JoinEdges, line, N)
  <2> SUFFICES ASSUME NEW k \in 1..N
               PROVE  /\ O[k - 1] \in Seq(JoinEdges)
                      /\ k \in told => line \in JoinEdges /\ O[k] = Append(O[k - 1], line)
                      /\ k \notin told => \/ O[k] = O[k - 1]
                                          \/ \E x \in JoinEdges \ {line} :
                                               O[k] = Append(O[k - 1], x)
    BY <1>8 DEF Appends
  <2> DEFINE nq == lines[k]
             s == r[k - 1]
             e1 == <<s.actormp[nq.sub], "acted_in", nq.obj>>
             e2 == <<s.starringmp[nq.sub], "actors", nq.obj>>
             e3 == <<nq.sub, "name", nq.obj>>
  <2>1. O[k - 1] = s.out /\ s \in JoinStates /\ nq \in NQuad
    BY <1>3, <1>4
  <2>2. O[k] = IF nq.pred = "performance.film" /\ nq.sub \in DOMAIN s.actormp
               THEN Append(s.out, e1)
               ELSE IF nq.pred = "performance.actor" /\ nq.sub \in DOMAIN s.starringmp
               THEN Append(s.out, e2)
               ELSE IF nq.pred = "name" THEN Append(s.out, e3)
               ELSE s.out
    BY <1>3, <1>4 DEF JoinSteps
  <2>3. k \in told <=> /\ nq.pred = "performance.actor" /\ nq.sub \in DOMAIN s.starringmp
                       /\ s.starringmp[nq.sub] = a /\ nq.obj = c
    BY <1>14
  <2> HIDE DEF nq, s
  <2>4. /\ s.out \in Seq(JoinEdges) /\ s.actormp \in JoinMaps /\ s.starringmp \in JoinMaps
        /\ nq.sub \in STRING /\ nq.obj \in STRING
    BY <2>1 DEF JoinStates, NQuad
  <2>5. nq.sub \in DOMAIN s.actormp => e1 \in JoinEdges
    BY <2>4, JoinMapsHold, JoinEdgesHold
  <2>6. nq.sub \in DOMAIN s.starringmp => e2 \in JoinEdges
    BY <2>4, JoinMapsHold, JoinEdgesHold
  <2>7. e3 \in JoinEdges
    BY <2>4, JoinEdgesHold
  <2>8. /\ e1[1] = s.actormp[nq.sub] /\ e1[2] = "acted_in" /\ e1[3] = nq.obj
        /\ e2[1] = s.starringmp[nq.sub] /\ e2[2] = "actors" /\ e2[3] = nq.obj
        /\ e3[2] = "name"
    OBVIOUS
  <2>9. line[1] = a /\ line[3] = c
    BY DEF a, c
  <2>10. e2 = line <=> s.starringmp[nq.sub] = a /\ nq.obj = c
    BY <1>10
  <2>11. e1 # line /\ e3 # line
    BY <1>10
  <2> HIDE DEF e1, e2, e3
  <2>12. CASE k \in told
    <3>1. nq.pred = "performance.actor" /\ nq.sub \in DOMAIN s.starringmp /\ e2 = line
      BY <2>3, <2>10, <2>12
    <3>2. O[k] = Append(s.out, e2)
      BY <2>2, <3>1
    <3> QED
      BY <2>1, <2>4, <2>12, <3>1, <3>2
  <2>13. CASE k \notin told
    <3>1. \/ O[k] = s.out
          \/ nq.sub \in DOMAIN s.starringmp /\ O[k] = Append(s.out, e2) /\ e2 # line
          \/ nq.sub \in DOMAIN s.actormp /\ O[k] = Append(s.out, e1)
          \/ O[k] = Append(s.out, e3)
      BY <2>2, <2>3, <2>10, <2>13
    <3> QED
      BY <2>1, <2>4, <2>5, <2>6, <2>7, <2>11, <2>13, <3>1
  <2> QED
    BY <2>12, <2>13
<1>17. Count(O[N], line) = Cardinality(told)
  BY <1>2, <1>15, <1>16, CountAppends
<1>18. Output(lines, line) = Cardinality(told) + Cardinality(MeetLate(A[N], W[N], a, c))
  <2> DEFINE s == r[N]
  <2>1. s = Joined(lines) /\ A[N] = s.starringmp /\ W[N] = s.r2 /\ O[N] = s.out
    BY <1>4, <1>9
  <2> HIDE DEF s
  <2>2. Output(lines, line) = Count(s.out, line)
                              + Cardinality(Late(s.r1, s.actormp, "acted_in", line))
                              + Cardinality(Late(s.r2, s.starringmp, "actors", line))
    BY <2>1, OutputIs
  <2>3. Cardinality(Late(s.r1, s.actormp, "acted_in", line)) = 0
    BY <1>10, NoneLate
  <2>4. Late(s.r2, s.starringmp, "actors", line) = MeetLate(A[N], W[N], a, c)
    <3>1. \A k : line = <<s.starringmp[k], "actors", s.r2[k]>>
                   <=> s.starringmp[k] = a /\ s.r2[k] = c
      BY <1>10
    <3> QED
      BY <2>1, <3>1 DEF Late, MeetLate
  <2> QED
    BY <1>13, <1>17, <2>1, <2>2, <2>3, <2>4
<1>19. Met2(lines, "starring", "performance.actor", line) = Met(P1, P2, sub, obj, a, c)
  <2>1. \A i \in P1 : i \in 1..N
    BY <1>7
  <2>2. \A i \in P2 : i \in 1..N
    BY <1>7
  <2> QED
    BY <1>5, <2>1, <2>2 DEF Met2, Met, P1, P2, a, c
<1>20. /\ ObjOnce(lines, "starring") => Unique(P1, obj)
       /\ SubOnce(lines, "performance.actor") => Unique(P2, sub)
  <2>1. \A i \in P1 : obj[i] = lines[i].obj
    BY <1>5, <1>7
  <2>2. \A i \in P2 : sub[i] = lines[i].sub
    BY <1>5, <1>7
  <2> QED
    BY <2>1, <2>2 DEF ObjOnce, SubOnce, Unique, P1, P2
<1> QED
  BY <1>13, <1>18, <1>19, <1>20
(* A line with a name is copied.                                           *)
LEMMA NamesCounted ==
  ASSUME NEW lines \in Seq(NQuad), NEW line \in JoinEdges, line[2] = "name"
  PROVE  LET named == {i \in OfPred(lines, "name") :
                         <<lines[i].sub, "name", lines[i].obj>> = line}
         IN  Output(lines, line) = Cardinality(named) /\ Cardinality(named) \in Nat
<1>1. PICK r : JoinRun(r, lines)
  BY JoinRuns
<1> DEFINE N == Len(lines)
           O == [k \in 0..N |-> r[k].out]
           named == {i \in OfPred(lines, "name") :
                       <<lines[i].sub, "name", lines[i].obj>> = line}
<1>2. N \in Nat /\ DOMAIN lines = 1..N
  BY LenProperties
<1>3. \A k \in 1..N : /\ k - 1 \in 0..N /\ k \in 0..N /\ lines[k] \in NQuad
                      /\ r[k - 1] \in JoinStates /\ JoinSteps(r[k - 1], lines[k], r[k])
  BY <1>1, <1>2 DEF JoinRun
<1>4. \A k \in 0..N : O[k] = r[k].out
  OBVIOUS
<1>5. O[0] = <<>> /\ Joined(lines) = r[N] /\ N \in 0..N
  BY <1>1, <1>2 DEF JoinRun, JoinStart
<1>6. named \in SUBSET (1..N)
  BY <1>2 DEF OfPred
<1>7. \A k \in 1..N : k \in named <=> /\ lines[k].pred = "name"
                                      /\ <<lines[k].sub, "name", lines[k].obj>> = line
  BY <1>2 DEF OfPred
<1> HIDE DEF N, O, named
<1>8. Appends(O, named, JoinEdges, line, N)
  <2> SUFFICES ASSUME NEW k \in 1..N
               PROVE  /\ O[k - 1] \in Seq(JoinEdges)
                      /\ k \in named => line \in JoinEdges /\ O[k] = Append(O[k - 1], line)
                      /\ k \notin named => \/ O[k] = O[k - 1]
                                           \/ \E x \in JoinEdges \ {line} :
                                                O[k] = Append(O[k - 1], x)
    BY <1>5 DEF Appends
  <2> DEFINE nq == lines[k]
             s == r[k - 1]
             e1 == <<s.actormp[nq.sub], "acted_in", nq.obj>>
             e2 == <<s.starringmp[nq.sub], "actors", nq.obj>>
             e3 == <<nq.sub, "name", nq.obj>>
  <2>1. O[k - 1] = s.out /\ s \in JoinStates /\ nq \in NQuad
    BY <1>3, <1>4
  <2>2. O[k] = IF nq.pred = "performance.film" /\ nq.sub \in DOMAIN s.actormp
               THEN Append(s.out, e1)
               ELSE IF nq.pred = "performance.actor" /\ nq.sub \in DOMAIN s.starringmp
               THEN Append(s.out, e2)
               ELSE IF nq.pred = "name" THEN Append(s.out, e3)
               ELSE s.out
    BY <1>3, <1>4 DEF JoinSteps
  <2>3. k \in named <=> nq.pred = "name" /\ e3 = line
    BY <1>7
  <2> HIDE DEF nq, s
  <2>4. /\ s.out \in Seq(JoinEdges) /\ s.actormp \in JoinMaps /\ s.starringmp \in JoinMaps
        /\ nq.sub \in STRING /\ nq.obj \in STRING
    BY <2>1 DEF JoinStates, NQuad
  <2>5. nq.sub \in DOMAIN s.actormp => e1 \in JoinEdges
    BY <2>4, JoinMapsHold, JoinEdgesHold
  <2>6. nq.sub \in DOMAIN s.starringmp => e2 \in JoinEdges
    BY <2>4, JoinMapsHold, JoinEdgesHold
  <2>7. e3 \in JoinEdges
    BY <2>4, JoinEdgesHold
  <2>8. e1 # line /\ e2 # line
    <3>1. e1[2] = "acted_in" /\ e2[2] = "actors"
      OBVIOUS
    <3> QED
      BY <3>1
  <2> HIDE DEF e1, e2, e3
  <2>9. CASE k \in named
    <3>1. O[k] = Append(s.out, e3)
      BY <2>2, <2>3, <2>9
    <3> QED
      BY <2>1, <2>3, <2>4, <2>7, <2>9, <3>1
  <2>10. CASE k \notin named
    <3>1. \/ O[k] = s.out
          \/ nq.sub \in DOMAIN s.actormp /\ O[k] = Append(s.out, e1)
          \/ nq.sub \in DOMAIN s.starringmp /\ O[k] = Append(s.out, e2)
          \/ O[k] = Append(s.out, e3) /\ e3 # line
      BY <2>2, <2>3, <2>10
    <3> QED
      BY <2>1, <2>4, <2>5, <2>6, <2>7, <2>8, <2>10, <3>1
  <2> QED
    BY <2>9, <2>10
<1>9. Count(O[N], line) = Cardinality(named)
  BY <1>2, <1>6, <1>8, CountAppends
<1>10. Cardinality(named) \in Nat
  BY <1>2, <1>6, FirstNumbers, FS_Subset, FS_CardinalityType
<1>11. Output(lines, line) = Cardinality(named)
  <2> DEFINE s == r[N]
  <2>1. s = Joined(lines) /\ O[N] = s.out
    BY <1>4, <1>5
  <2> HIDE DEF s
  <2>2. Output(lines, line) = Count(s.out, line)
                              + Cardinality(Late(s.r1, s.actormp, "acted_in", line))
                              + Cardinality(Late(s.r2, s.starringmp, "actors", line))
    BY <2>1, OutputIs
  <2>3. /\ Cardinality(Late(s.r1, s.actormp, "acted_in", line)) = 0
        /\ Cardinality(Late(s.r2, s.starringmp, "actors", line)) = 0
    <3>1. line[2] # "acted_in" /\ line[2] # "actors"
      OBVIOUS
    <3> QED
      BY <3>1, NoneLate
  <2> QED
    BY <1>9, <1>10, <2>1, <2>2, <2>3
<1> QED
  BY <1>10, <1>11 DEF named

(* What is read of a file is some of its lines.                            *)
LEMMA ReadFileType ==
  ASSUME NEW lines \in Seq(NQuad), NEW terminated \in BOOLEAN
  PROVE  ReadFile(lines, terminated) \in Seq(NQuad)
<1>1. CASE terminated \/ lines = <<>>
  BY <1>1 DEF ReadFile
<1>2. CASE ~terminated /\ lines # <<>>
  <2>1. Len(lines) \in Nat /\ \A i \in 1..Len(lines) - 1 : lines[i] \in NQuad
    BY ElementOfSeq, LenProperties
  <2>2. Front(lines) = SubSeq(lines, 1, Len(lines) - 1)
    BY DEF Front
  <2>3. SubSeq(lines, 1, Len(lines) - 1) \in Seq(NQuad)
    BY <2>1, SubSeqProperties
  <2> QED
    BY <1>2, <2>2, <2>3 DEF ReadFile
<1> QED
  BY <1>1, <1>2

(* The pairs as the property counts them.                                  *)
LEMMA ExpectedIs ==
  ASSUME NEW line
  PROVE  /\ line[2] = "acted_in" =>
              ExpectedEdges(line)
                = Cardinality(Met2(FilmLines, "actor.film", "performance.film", line))
         /\ line[2] = "actors" =>
              ExpectedEdges(line)
                = Cardinality(Met2(FilmLines, "starring", "performance.actor", line))
         /\ line[2] = "name" =>
              ExpectedEdges(line)
                = Cardinality({i \in OfPred(FilmLines, "name") :
                                 <<FilmLines[i].sub, "name", FilmLines[i].obj>> = line})
<1> DEFINE Those(first, second) ==
             {p \in Meetings(first, second) :
                FilmLines[p[1]].sub = line[1] /\ FilmLines[p[2]].obj = line[3]}
<1>1. \A first, second : Those(first, second) = Met2(FilmLines, first, second, line)
  BY DEF Meetings, Having, Met2, OfPred
<1>2. line[2] = "acted_in" =>
        ExpectedEdges(line) = Cardinality(Those("actor.film", "performance.film"))
  BY DEF ExpectedEdges
<1>3. line[2] = "actors" =>
        ExpectedEdges(line) = Cardinality(Those("starring", "performance.actor"))
  BY DEF ExpectedEdges
<1>4. line[2] = "name" =>
        ExpectedEdges(line) = Cardinality({i \in OfPred(FilmLines, "name") :
                                        <<FilmLines[i].sub, "name", FilmLines[i].obj>> = line})
  BY DEF ExpectedEdges, Having, OfPred
<1> HIDE DEF Those
<1> QED
  BY <1>1, <1>2, <1>3, <1>4

(* For any film data, in any order, no edge is made up, and none is lost   *)
(* where every performance has one actor and one film.                     *)
THEOREM EveryJoinedEdgeIsWritten == InputSpec => []JoinExact
<1> DEFINE OfFilm == algorithm = "join" => input \in Films
<1>1. InputInit => OfFilm
  BY DEF InputInit
<1>2. OfFilm /\ [InputNext]_inputVars => OfFilm'
  BY DEF InputNext, inputVars
<1>3. OfFilm => JoinExact
  <2> DEFINE unique == /\ OneOfObj("actor.film") /\ OneOfSub("performance.film")
                       /\ OneOfObj("starring") /\ OneOfSub("performance.actor")
  <2> SUFFICES ASSUME OfFilm, algorithm = "join", NEW line \in OutputLines
               PROVE  /\ Output(FilmLines, line) <= ExpectedEdges(line)
                      /\ unique => Output(FilmLines, line) = ExpectedEdges(line)
    BY DEF JoinExact
  <2>1. FilmLines \in Seq(NQuad)
    <3>1. input.lines \in Seq(NQuad) /\ input.terminated \in BOOLEAN
      BY AlgorithmsAssumption
    <3> QED
      BY <3>1, ReadFileType DEF FilmLines
  <2>2. line \in JoinEdges
    <3> DEFINE nodes == UNION {{FilmLines[i].sub, FilmLines[i].obj} : i \in DOMAIN FilmLines}
    <3>1. line \in nodes \X {"acted_in", "actors", "name"} \X nodes
      BY DEF OutputLines
    <3>2. \A i \in DOMAIN FilmLines : FilmLines[i] \in NQuad
      BY <2>1, ElementOfSeq, LenProperties
    <3>3. nodes \subseteq STRING
      BY <3>2 DEF NQuad
    <3> HIDE DEF nodes
    <3> QED
      BY <3>1, <3>3 DEF JoinEdges
  <2>3. unique =>
          /\ ObjOnce(FilmLines, "actor.film") /\ SubOnce(FilmLines, "performance.film")
          /\ ObjOnce(FilmLines, "starring") /\ SubOnce(FilmLines, "performance.actor")
    BY DEF OneOfObj, OneOfSub, Having, OfPred, ObjOnce, SubOnce
  <2>4. line[2] = "acted_in" \/ line[2] = "actors" \/ line[2] = "name"
    BY <2>2 DEF JoinEdges
  <2> HIDE DEF unique
  <2>5. CASE line[2] = "acted_in"
    BY <2>1, <2>2, <2>3, <2>5, FilmsCounted, ExpectedIs
  <2>6. CASE line[2] = "actors"
    BY <2>1, <2>2, <2>3, <2>6, ActorsCounted, ExpectedIs
  <2>7. CASE line[2] = "name"
    <3> DEFINE named == {i \in OfPred(FilmLines, "name") :
                           <<FilmLines[i].sub, "name", FilmLines[i].obj>> = line}
    <3>1. Output(FilmLines, line) = Cardinality(named) /\ Cardinality(named) \in Nat
      BY <2>1, <2>2, <2>7, NamesCounted
    <3>2. ExpectedEdges(line) = Cardinality(named)
      BY <2>7, ExpectedIs
    <3> HIDE DEF named
    <3> QED
      BY <3>1, <3>2
  <2> QED
    BY <2>4, <2>5, <2>6, <2>7
<1> QED
  BY <1>1, <1>2, <1>3, PTL DEF InputSpec
-----------------------------------------------------------------------------
(* Seven bits more make the width 128 times as much.                       *)
LEMMA SeptetsAre ==
  /\ Septets[0] = 1
  /\ \A k \in 1..Groups : Septets[k] = 128 * Septets[k - 1]
  /\ \A k \in 0..Groups : Septets[k] \in Nat /\ Septets[k] > 0
<1> DEFINE R == [k \in 1..Groups |-> [x \in Nat \ {0} |-> 128 * x]]
           Def(g) == [k \in 0..Groups |-> IF k = 0 THEN 1 ELSE 128 * g[k - 1]]
<1>1. Groups \in Nat
  BY WireAssumption
<1>2. PICK r \in [0..Groups -> Nat \ {0}] : Iterates(r, 1, R, Groups)
  <2>1. R \in [1..Groups -> [Nat \ {0} -> Nat \ {0}]] /\ 1 \in Nat \ {0}
    OBVIOUS
  <2> HIDE DEF R
  <2> QED
    BY <1>1, <2>1, IterationExists
<1>3. r[0] = 1 /\ \A k \in 1..Groups : r[k] = 128 * r[k - 1]
  <2>1. \A k \in 1..Groups : k - 1 \in 0..Groups
    BY <1>1
  <2>2. \A k \in 1..Groups, x \in Nat \ {0} : R[k][x] = 128 * x
    OBVIOUS
  <2> QED
    BY <1>2, <2>1, <2>2 DEF Iterates
<1>4. r = Def(r)
  <2>1. \A k \in 0..Groups : r[k] = IF k = 0 THEN 1 ELSE 128 * r[k - 1]
    BY <1>1, <1>3
  <2> QED
    BY <2>1
<1>5. Septets = CHOOSE g : g = Def(g)
  BY DEF Septets
<1>6. Septets = Def(Septets)
  BY <1>4, <1>5
<1> HIDE DEF R
<1>7. Septets[0] = 1 /\ \A k \in 1..Groups : Septets[k] = 128 * Septets[k - 1]
  <2>1. \A k \in 0..Groups : Septets[k] = IF k = 0 THEN 1 ELSE 128 * Septets[k - 1]
    BY <1>6
  <2>2. 0 \in 0..Groups /\ \A k \in 1..Groups : k \in 0..Groups /\ k # 0
    BY <1>1
  <2> QED
    BY <2>1, <2>2
<1>8. \A k \in 0..Groups : Septets[k] = r[k]
  <2>1. GoAlike(r, Septets, Groups)
    BY <1>3, <1>7 DEF GoAlike
  <2>2. Alike(r, Septets, Groups)
    BY <1>1, <2>1, SameIterations
  <2> QED
    BY <2>2 DEF Alike
<1> QED
  BY <1>7, <1>8

(* What seven bits take from a number.                                     *)
LEMMA SeptetOf ==
  \A a \in Nat : /\ a \div 128 \in Nat /\ a % 128 \in 0..127
                 /\ a = 128 * (a \div 128) + (a % 128)
                 /\ a < 128 => a \div 128 = 0 /\ a % 128 = a
                 /\ ((a % 128) + 128) % 128 = a % 128
<1> SUFFICES ASSUME NEW a \in Nat
             PROVE  /\ a \div 128 \in Nat /\ a % 128 \in 0..127
                    /\ a = 128 * (a \div 128) + (a % 128)
                    /\ a < 128 => a \div 128 = 0 /\ a % 128 = a
                    /\ ((a % 128) + 128) % 128 = a % 128
  OBVIOUS
<1>1. a \div 128 \in Nat
  BY SMTT(30)
<1>2. a % 128 \in 0..127
  BY SMTT(30)
<1>3. a = 128 * (a \div 128) + (a % 128)
  BY SMTT(30)
<1>4. a < 128 => a \div 128 = 0 /\ a % 128 = a
  BY SMTT(30)
<1>5. \A d \in 0..127 : (d + 128) % 128 = d
  BY SMTT(30)
<1> QED
  BY <1>1, <1>2, <1>3, <1>4, <1>5

(* What is left after k shifts stands s = 2^(7k) times for what it is; with*)
(* one more shift the seven bits taken join what was taken.                *)
LEMMA TakeSeptet ==
  ASSUME NEW x \in Nat, NEW a \in Nat, NEW b \in Nat, NEW d \in 0..127, NEW s \in Nat,
         a = 128 * b + d
  PROVE  /\ x - b * (128 * s) = (x - a * s) + d * s
         /\ d * s \in Nat /\ d * s <= 127 * s
<1>1. b * s \in Nat /\ d * s \in Nat
  BY SMTT(30)
<1>2. b * (128 * s) = 128 * (b * s)
  BY SMTT(30)
<1>3. (128 * b + d) * s = 128 * (b * s) + d * s
  BY SMTT(30)
<1>4. d * s <= 127 * s
  BY SMTT(30)
<1>5. a * s = 128 * (b * s) + d * s
  BY <1>3
<1> QED
  BY <1>1, <1>2, <1>4, <1>5

(* The bytes encodeVarintPb makes of the shifts v.                         *)
PutBytes(v) ==
  [i \in 1..Min({k \in 0..Groups - 1 : v[k] < 128}) + 1 |->
     IF i <= Min({k \in 0..Groups - 1 : v[k] < 128})
     THEN (v[i - 1] % 128) + 128 ELSE v[Min({k \in 0..Groups - 1 : v[k] < 128})]]

(* The loop of encodeVarintPb shifts the number to the right.              *)
LEMMA VarintShifts ==
  ASSUME NEW y \in Nat
  PROVE  \E r \in [0..Groups -> Nat] :
           /\ r[0] = y
           /\ \A k \in 1..Groups : r[k] = r[k - 1] \div 128
           /\ PutVarint(y) = PutBytes(r)
<1> DEFINE n == Groups
           start == y
           Steps == [k \in 1..n |-> [x \in Nat |-> x \div 128]]
           Def(g) == [k \in 0..n |-> IF k = 0 THEN start ELSE g[k - 1] \div 128]
<1>1. n \in Nat
  BY WireAssumption
<1>2. start \in Nat
  OBVIOUS
<1>3. Steps \in [1..n -> [Nat -> Nat]]
  BY <1>1, SeptetOf
<1> HIDE DEF n, start, Steps
<1>4. PICK r \in [0..n -> Nat] : Iterates(r, start, Steps, n)
  BY <1>1, <1>2, <1>3, IterationExists
<1>5. r[0] = start /\ \A k \in 1..n : r[k] = r[k - 1] \div 128
  <2>1. \A k \in 1..n : k - 1 \in 0..n
    BY <1>1
  <2>2. \A k \in 1..n, x \in Nat : Steps[k][x] = x \div 128
    BY DEF Steps
  <2>3. r[0] = start /\ \A k \in 1..n : r[k] = Steps[k][r[k - 1]]
    BY <1>4 DEF Iterates
  <2>4. \A k \in 1..n : r[k - 1] \in Nat
    BY <1>4, <2>1
  <2> QED
    BY <2>2, <2>3, <2>4, ZenonT(30)
<1>6. r = Def(r)
  <2> SUFFICES ASSUME NEW k \in 0..n, k # 0 PROVE r[k] = r[k - 1] \div 128
    BY <1>5
  <2>1. k \in 1..n
    BY <1>1
  <2> QED
    BY <1>5, <2>1
<1> DEFINE f == CHOOSE g : g = Def(g)
<1>7. f = Def(f)
  BY <1>6
<1>8. PutVarint(y) = PutBytes(f)
  BY DEF PutVarint, PutBytes, n, start
<1> HIDE DEF f
<1>9. f[0] = start /\ \A k \in 1..n : f[k] = f[k - 1] \div 128
  <2>1. \A k \in 0..n : f[k] = IF k = 0 THEN start ELSE f[k - 1] \div 128
    BY <1>7
  <2>2. 0 \in 0..n /\ \A k \in 1..n : k \in 0..n /\ k # 0
    BY <1>1
  <2> QED
    BY <2>1, <2>2
<1>10. f = r
  <2>1. GoAlike(r, f, n)
    BY <1>5, <1>9 DEF GoAlike
  <2>2. Alike(r, f, n)
    BY <1>1, <2>1, SameIterations
  <2>3. \A k \in 0..n : r[k] = f[k]
    BY <2>2 DEF Alike
  <2>4. f = [k \in 0..n |-> f[k]] /\ r = [k \in 0..n |-> r[k]]
    BY <1>6, <1>7
  <2> QED
    BY <2>3, <2>4
<1> QED
  BY <1>4, <1>5, <1>8, <1>10 DEF n, start

(* Bytes that spell a number: w[k] is what the first k of them stand for.  *)
Bytes == 0..255
Spelled(x, bytes, w) ==
  /\ bytes \in Seq(Bytes) /\ Len(bytes) \in 1..Groups
  /\ w[0] = 0 /\ w[Len(bytes)] = x
  /\ \A k \in 1..Len(bytes) : /\ w[k] = w[k - 1] + (bytes[k] % 128) * Septets[k - 1]
                              /\ w[k] \in 0..Wide - 1
                              /\ bytes[k] < 128 <=> k = Len(bytes)

(* The least of natural numbers is one of them.                            *)
LEMMA MinIs ==
  ASSUME NEW T, T \subseteq Nat, T # {}
  PROVE  Min(T) \in T /\ \A y \in T : Min(T) <= y
<1>1. \E x \in T : \A y \in T : x <= y
  BY LeastNatural
<1>2. Min(T) = CHOOSE x \in T : \A y \in T : x <= y
  BY DEF Min
<1> QED
  BY <1>1, <1>2

(* A number as wide as n bytes and no less is n bytes wide: sovPb.         *)
LEMMA SovPbIs ==
  ASSUME NEW x \in Nat, NEW n \in 1..Groups, x < Septets[n], n = 1 \/ x >= Septets[n - 1]
  PROVE  SovPb(x) = n
<1> DEFINE IsWidth(k) == x < Septets[k] /\ (k = 1 \/ x >= Septets[k - 1])
<1>1. Groups \in Nat
  BY WireAssumption
<1>2. \A j \in 0..Groups : \A k \in 0..Groups : j <= k => Septets[j] <= Septets[k]
  <2> SUFFICES ASSUME NEW j \in 0..Groups
               PROVE  \A k \in 0..Groups : j <= k => Septets[j] <= Septets[k]
    OBVIOUS
  <2> DEFINE T == {k \in Nat : k <= Groups /\ j <= k => Septets[j] <= Septets[k]}
  <2>1. 0 \in T
    BY <1>1, SeptetsAre
  <2>2. ASSUME NEW k \in Nat, k \in T PROVE k + 1 \in T
    <3> SUFFICES ASSUME k + 1 <= Groups, j <= k + 1 PROVE Septets[j] <= Septets[k + 1]
      OBVIOUS
    <3>1. CASE j = k + 1
      BY <3>1, SeptetsAre
    <3>2. CASE j # k + 1
      <4>1. j <= k /\ k \in 0..Groups /\ k + 1 \in 1..Groups /\ (k + 1) - 1 = k
        BY <1>1, <3>2
      <4>2. Septets[j] <= Septets[k]
        BY <2>2, <4>1
      <4>3. Septets[k + 1] = 128 * Septets[k]
        <5>1. Septets[k + 1] = 128 * Septets[(k + 1) - 1]
          BY <4>1, SeptetsAre
        <5> QED
          BY <4>1, <5>1
      <4>4. Septets[k] \in Nat /\ Septets[j] \in Nat
        BY <4>1, SeptetsAre
      <4> QED
        BY <4>2, <4>3, <4>4
    <3> QED
      BY <3>1, <3>2
  <2>3. \A k \in Nat : k \in T
    <3> HIDE DEF T
    <3> QED
      BY <2>1, <2>2, EveryNatural
  <2> QED
    BY <2>3
<1>3. IsWidth(n)
  OBVIOUS
<1>4. SovPb(x) = CHOOSE k \in 1..Groups : IsWidth(k)
  BY DEF SovPb
<1>5. ASSUME NEW k \in 1..Groups, IsWidth(k) PROVE k = n
  <2>1. /\ k \in 0..Groups /\ n \in 0..Groups /\ k - 1 \in 0..Groups /\ n - 1 \in 0..Groups
    BY <1>1
  <2>2. /\ Septets[k] \in Nat /\ Septets[n] \in Nat
        /\ Septets[k - 1] \in Nat /\ Septets[n - 1] \in Nat
    BY <2>1, SeptetsAre
  <2>3. k <= n - 1 => Septets[k] <= Septets[n - 1]
    BY <1>2, <2>1
  <2>4. n <= k - 1 => Septets[n] <= Septets[k - 1]
    BY <1>2, <2>1
  <2> QED
    BY <1>5, <2>1, <2>2, <2>3, <2>4
<1> HIDE DEF IsWidth
<1> QED
  BY <1>3, <1>4, <1>5

(* encodeVarintPb spells every number, in as many bytes as sovPb says.     *)
LEMMA PutVarintSpells ==
  ASSUME NEW x \in 0..Wide - 1
  PROVE  /\ \E w : Spelled(x, PutVarint(x), w)
         /\ Len(PutVarint(x)) = SovPb(x)
<1>1. Groups \in Nat /\ Wide \in Nat /\ Wide <= Septets[Groups] /\ x \in Nat /\ x < Wide
  BY WireAssumption
<1>2. PICK v \in [0..Groups -> Nat] :
        /\ v[0] = x /\ \A k \in 1..Groups : v[k] = v[k - 1] \div 128
        /\ PutVarint(x) = PutBytes(v)
  BY <1>1, VarintShifts
<1> DEFINE S == Septets
           w == [k \in 0..Groups |-> x - v[k] * S[k]]
           d == [k \in 1..Groups |-> v[k - 1] % 128]
<1>3. \A k \in 1..Groups : /\ k - 1 \in 0..Groups /\ k \in 0..Groups
                           /\ v[k - 1] \in Nat /\ v[k] \in Nat
  BY <1>1
<1>4. \A k \in 1..Groups : /\ v[k - 1] = 128 * v[k] + d[k] /\ d[k] \in 0..127
                           /\ v[k - 1] < 128 => v[k] = 0 /\ d[k] = v[k - 1]
                           /\ (d[k] + 128) % 128 = d[k] /\ d[k] % 128 = d[k]
  <2> SUFFICES ASSUME NEW k \in 1..Groups
               PROVE  /\ v[k - 1] = 128 * v[k] + d[k] /\ d[k] \in 0..127
                      /\ v[k - 1] < 128 => v[k] = 0 /\ d[k] = v[k - 1]
                      /\ (d[k] + 128) % 128 = d[k] /\ d[k] % 128 = d[k]
    OBVIOUS
  <2>1. d[k] = v[k - 1] % 128 /\ v[k] = v[k - 1] \div 128 /\ v[k - 1] \in Nat
    BY <1>2, <1>3
  <2> HIDE DEF d
  <2>2. /\ v[k - 1] % 128 \in 0..127
        /\ v[k - 1] = 128 * (v[k - 1] \div 128) + (v[k - 1] % 128)
        /\ v[k - 1] < 128 => v[k - 1] \div 128 = 0 /\ v[k - 1] % 128 = v[k - 1]
        /\ ((v[k - 1] % 128) + 128) % 128 = v[k - 1] % 128
    BY <2>1, SeptetOf, ZenonT(30)
  <2>3. d[k] \in Nat /\ d[k] < 128
    <3>1. d[k] \in 0..127
      BY <2>1, <2>2, Zenon
    <3>2. \A e \in 0..127 : e \in Nat /\ e < 128
      OBVIOUS
    <3> QED
      BY <3>1, <3>2, Zenon
  <2>4. d[k] % 128 = d[k]
    BY <2>3, SeptetOf
  <2> QED
    BY <2>1, <2>2, <2>4
<1>5. \A k \in 0..Groups : w[k] = x - v[k] * S[k]
  OBVIOUS
<1>6. \A k \in 0..Groups : S[k] \in Nat /\ S[k] > 0
  BY SeptetsAre
<1>7. \A k \in 1..Groups : S[k] = 128 * S[k - 1]
  BY SeptetsAre
<1>8. S[0] = 1
  BY SeptetsAre
<1>9. d = [k \in 1..Groups |-> v[k - 1] % 128]
  OBVIOUS
<1> HIDE DEF S, w, d
<1>10. \A k \in 1..Groups : /\ w[k] = w[k - 1] + d[k] * S[k - 1]
                            /\ d[k] * S[k - 1] \in Nat
                            /\ d[k] * S[k - 1] <= 127 * S[k - 1]
  <2> SUFFICES ASSUME NEW k \in 1..Groups
               PROVE  /\ w[k] = w[k - 1] + d[k] * S[k - 1]
                      /\ d[k] * S[k - 1] \in Nat
                      /\ d[k] * S[k - 1] <= 127 * S[k - 1]
    OBVIOUS
  <2>1. /\ v[k - 1] \in Nat /\ v[k] \in Nat /\ d[k] \in 0..127 /\ S[k - 1] \in Nat
        /\ v[k - 1] = 128 * v[k] + d[k]
    BY <1>3, <1>4, <1>6
  <2>2. /\ x - v[k] * (128 * S[k - 1]) = (x - v[k - 1] * S[k - 1]) + d[k] * S[k - 1]
        /\ d[k] * S[k - 1] \in Nat /\ d[k] * S[k - 1] <= 127 * S[k - 1]
    <3>1. \A a \in Nat, b \in Nat, e \in 0..127, s \in Nat :
            a = 128 * b + e => /\ x - b * (128 * s) = (x - a * s) + e * s
                               /\ e * s \in Nat /\ e * s <= 127 * s
      BY <1>1, TakeSeptet
    <3> DEFINE a == v[k - 1]
               b == v[k]
               e == d[k]
               s == S[k - 1]
    <3>2. a \in Nat /\ b \in Nat /\ e \in 0..127 /\ s \in Nat /\ a = 128 * b + e
      BY <2>1
    <3> HIDE DEF a, b, e, s
    <3>3. /\ x - b * (128 * s) = (x - a * s) + e * s
          /\ e * s \in Nat /\ e * s <= 127 * s
      BY <3>1, <3>2
    <3> QED
      BY <3>3 DEF a, b, e, s
  <2>3. w[k] = x - v[k] * (128 * S[k - 1]) /\ w[k - 1] = x - v[k - 1] * S[k - 1]
    BY <1>3, <1>5, <1>7
  <2> QED
    BY <2>2, <2>3
<1>11. \A k \in 0..Groups : w[k] \in Nat /\ w[k] < S[k]
  <2> DEFINE T == {k \in Nat : k <= Groups => w[k] \in Nat /\ w[k] < S[k]}
  <2>1. 0 \in T
    <3>1. 0 \in 0..Groups
      BY <1>1
    <3>2. w[0] = x - x * 1
      BY <1>2, <1>5, <1>8, <3>1
    <3> QED
      BY <1>1, <1>8, <3>2
  <2>2. ASSUME NEW k \in Nat, k \in T PROVE k + 1 \in T
    <3> SUFFICES ASSUME k + 1 <= Groups PROVE w[k + 1] \in Nat /\ w[k + 1] < S[k + 1]
      OBVIOUS
    <3> DEFINE j == k + 1
    <3>1. j \in 1..Groups /\ k = j - 1 /\ k \in 0..Groups
      BY <1>1
    <3> HIDE DEF j
    <3>2. w[k] \in Nat /\ w[k] < S[k] /\ S[k] \in Nat
      BY <1>6, <2>2, <3>1
    <3>3. w[j] = w[k] + d[j] * S[k] /\ d[j] * S[k] \in Nat /\ d[j] * S[k] <= 127 * S[k]
      BY <1>10, <3>1
    <3>4. S[j] = 128 * S[k]
      BY <1>7, <3>1
    <3>5. w[j] \in Nat /\ w[j] < S[j]
      BY <3>2, <3>3, <3>4
    <3> QED
      BY <3>5 DEF j
  <2>3. \A k \in Nat : k \in T
    <3> HIDE DEF T
    <3> QED
      BY <2>1, <2>2, EveryNatural
  <2> QED
    BY <2>3
<1>12. \A k \in 0..Groups : w[k] <= x /\ v[k] * S[k] \in Nat /\ x = w[k] + v[k] * S[k]
  <2> SUFFICES ASSUME NEW k \in 0..Groups
               PROVE  w[k] <= x /\ v[k] * S[k] \in Nat /\ x = w[k] + v[k] * S[k]
    OBVIOUS
  <2>1. v[k] \in Nat /\ S[k] \in Nat
    BY <1>6
  <2>2. v[k] * S[k] \in Nat
    BY <2>1, SMTT(30)
  <2>3. w[k] = x - v[k] * S[k] /\ w[k] \in Nat
    BY <1>5, <1>11
  <2> DEFINE y == v[k] * S[k]
             z == w[k]
  <2>4. y \in Nat /\ z = x - y /\ z \in Nat
    BY <2>2, <2>3
  <2> HIDE DEF y, z
  <2>5. z <= x /\ y \in Nat /\ x = z + y
    BY <1>1, <2>4
  <2> QED
    BY <2>5 DEF y, z
<1> DEFINE Small == {k \in 0..Groups - 1 : v[k] < 128}
           n == Min(Small)
<1>13. Groups > 0 /\ Small # {}
  <2>1. Groups # 0
    BY WireAssumption
  <2> DEFINE g == Groups
  <2>2. g \in 1..g /\ g \in 0..g /\ g - 1 \in 0..g /\ g - 1 \in 0..g - 1
    BY <1>1, <2>1
  <2>3. v[g - 1] * S[g - 1] <= x /\ v[g - 1] \in Nat /\ S[g - 1] \in Nat
    <3>1. w[g - 1] \in Nat /\ x = w[g - 1] + v[g - 1] * S[g - 1] /\ v[g - 1] * S[g - 1] \in Nat
      BY <1>11, <1>12, <2>2
    <3> QED
      BY <1>3, <1>6, <2>2, <3>1
  <2>4. x < 128 * S[g - 1]
    <3>1. S[g] = 128 * S[g - 1]
      BY <1>7, <2>2
    <3>2. S[g] \in Nat /\ 128 * S[g - 1] \in Nat
      BY <1>6, <2>2
    <3>3. Wide <= S[g]
      BY <1>1 DEF S
    <3> QED
      BY <1>1, <3>1, <3>2, <3>3
  <2>5. v[g - 1] < 128
    <3> SUFFICES ASSUME v[g - 1] >= 128 PROVE FALSE
      BY <2>3
    <3>1. 128 * S[g - 1] <= v[g - 1] * S[g - 1]
      BY <2>3, SMTT(30)
    <3>2. v[g - 1] * S[g - 1] \in Int /\ 128 * S[g - 1] \in Int
      BY <2>3
    <3> QED
      BY <1>1, <2>3, <2>4, <3>1, <3>2
  <2> QED
    BY <1>1, <2>1, <2>2, <2>5
<1>14. /\ n \in 0..Groups - 1 /\ v[n] < 128 /\ n \in Nat
       /\ \A k \in 0..Groups - 1 : v[k] < 128 => n <= k
  <2>1. Small \subseteq Nat
    OBVIOUS
  <2>2. \A k \in 0..Groups - 1 : v[k] < 128 => k \in Small
    OBVIOUS
  <2>3. \A k \in Small : k \in 0..Groups - 1 /\ v[k] < 128
    OBVIOUS
  <2> HIDE DEF Small
  <2> QED
    BY <1>13, <2>1, <2>2, <2>3, MinIs
<1> DEFINE bytes == PutVarint(x)
<1>15. bytes = [i \in 1..n + 1 |-> IF i <= n THEN (v[i - 1] % 128) + 128 ELSE v[n]]
  BY <1>2 DEF PutBytes
<1> HIDE DEF Small, n, bytes
<1>16. \A i \in 1..n + 1 : bytes[i] = IF i <= n THEN (v[i - 1] % 128) + 128 ELSE v[n]
  BY <1>15
<1>17. \A i \in 1..n + 1 : i \in 1..Groups /\ i - 1 \in 0..Groups - 1 /\ (i <= n \/ i = n + 1)
  BY <1>1, <1>14
<1>18. \A i \in 1..n + 1 : /\ bytes[i] \in Bytes /\ bytes[i] % 128 = d[i]
                           /\ bytes[i] < 128 <=> i = n + 1
  <2>0. \A e \in 0..127 : /\ e \in Bytes /\ e < 128
                          /\ e + 128 \in Bytes /\ ~(e + 128 < 128)
    BY DEF Bytes
  <2> SUFFICES ASSUME NEW i \in 1..n + 1
               PROVE  /\ bytes[i] \in Bytes /\ bytes[i] % 128 = d[i]
                      /\ bytes[i] < 128 <=> i = n + 1
    OBVIOUS
  <2>1. i \in 1..Groups /\ d[i] \in 0..127
    BY <1>4, <1>17
  <2>2. CASE i <= n
    <3>1. bytes[i] = (v[i - 1] % 128) + 128
      BY <1>16, <2>2
    <3>2. v[i - 1] % 128 = d[i]
      BY <1>9, <2>1
    <3>3. bytes[i] = d[i] + 128
      BY <3>1, <3>2
    <3>4. bytes[i] \in Bytes /\ ~(bytes[i] < 128)
      BY <2>0, <2>1, <3>3
    <3>5. bytes[i] % 128 = d[i]
      BY <1>4, <2>1, <3>3
    <3> QED
      BY <1>14, <2>2, <3>4, <3>5
  <2>3. CASE i = n + 1
    <3>1. bytes[i] = v[n] /\ n = i - 1
      BY <1>14, <1>16, <2>3
    <3>2. v[i - 1] < 128 /\ v[i - 1] \in Nat
      BY <1>3, <1>14, <2>1, <3>1
    <3>3. bytes[i] = d[i]
      BY <1>4, <2>1, <3>1, <3>2
    <3>4. bytes[i] % 128 = d[i]
      BY <1>4, <2>1, <3>3
    <3>5. bytes[i] \in Bytes /\ bytes[i] < 128
      BY <2>0, <2>1, <3>3
    <3> QED
      BY <2>3, <3>4, <3>5
  <2> QED
    BY <1>17, <2>2, <2>3
<1>19. bytes \in Seq(Bytes) /\ Len(bytes) = n + 1
  <2>1. DOMAIN bytes = 1..n + 1
    BY <1>15
  <2>2. bytes = [i \in 1..n + 1 |-> bytes[i]]
    BY <1>15, <2>1
  <2>3. bytes \in [1..n + 1 -> Bytes]
    BY <1>18, <2>2
  <2>4. n + 1 \in Nat
    BY <1>14
  <2> QED
    BY <2>3, <2>4, SeqDef, LenProperties
<1>20. n + 1 \in 1..Groups /\ n + 1 \in 0..Groups
  BY <1>1, <1>14
<1>21. w[0] = 0 /\ w[n + 1] = x
  <2>1. v[n + 1] = 0
    <3>1. (n + 1) - 1 = n
      BY <1>14
    <3>2. v[(n + 1) - 1] < 128
      BY <1>14, <3>1
    <3> QED
      BY <1>4, <1>20, <3>2
  <2>2. w[n + 1] = x - 0 * S[n + 1] /\ S[n + 1] \in Nat
    BY <1>5, <1>6, <1>20, <2>1
  <2>3. 0 \in 0..Groups /\ w[0] \in Nat /\ w[0] < 1
    BY <1>1, <1>8, <1>11
  <2> QED
    BY <1>1, <2>2, <2>3
<1>22. Spelled(x, bytes, w)
  <2> SUFFICES ASSUME NEW k \in 1..n + 1
               PROVE  /\ w[k] = w[k - 1] + (bytes[k] % 128) * Septets[k - 1]
                      /\ w[k] \in 0..Wide - 1
                      /\ bytes[k] < 128 <=> k = n + 1
    BY <1>19, <1>20, <1>21 DEF Spelled
  <2>1. k \in 1..Groups /\ k \in 0..Groups
    BY <1>17
  <2>2. w[k] \in 0..Wide - 1
    BY <1>1, <1>11, <1>12, <2>1
  <2>3. w[k] = w[k - 1] + d[k] * S[k - 1]
    BY <1>10, <2>1
  <2> QED
    BY <1>18, <2>2, <2>3 DEF S
<1>23. SovPb(x) = n + 1
  <2>1. x < S[n + 1]
    BY <1>11, <1>20, <1>21
  <2>2. n + 1 = 1 \/ x >= S[(n + 1) - 1]
    <3> SUFFICES ASSUME n # 0 PROVE x >= S[n]
      BY <1>14
    <3>1. n \in 1..Groups /\ n \in 0..Groups /\ n - 1 \in 0..Groups - 1
      BY <1>1, <1>14
    <3>2. v[n - 1] >= 128
      <4>1. ~(v[n - 1] < 128)
        BY <1>14, <3>1
      <4> QED
        BY <1>3, <3>1, <4>1
    <3>3. v[n] \in Nat /\ v[n] >= 1
      <4>1. v[n - 1] \in Nat /\ v[n] \in Nat
        BY <1>3, <3>1
      <4>2. v[n - 1] = 128 * v[n] + d[n] /\ d[n] \in 0..127
        BY <1>4, <3>1
      <4> DEFINE a == v[n - 1]
                 b == v[n]
                 e == d[n]
      <4>3. a \in Nat /\ b \in Nat /\ e \in 0..127 /\ a = 128 * b + e /\ a >= 128
        BY <3>2, <4>1, <4>2
      <4> HIDE DEF a, b, e
      <4>4. b \in Nat /\ b >= 1
        BY <4>3
      <4> QED
        BY <4>4 DEF b
    <3>4. S[n] \in Nat /\ v[n] * S[n] >= S[n]
      BY <1>6, <3>1, <3>3, SMTT(30)
    <3>5. x = w[n] + v[n] * S[n] /\ w[n] \in Nat /\ v[n] * S[n] \in Nat
      BY <1>11, <1>12, <3>1
    <3> QED
      BY <3>4, <3>5
  <2> QED
    BY <1>1, <1>20, <2>1, <2>2, SovPbIs DEF S
<1> QED
  BY <1>19, <1>22, <1>23 DEF bytes

-----------------------------------------------------------------------------
(* What is left of a number by a divisor.                                  *)
LEMMA RemainderIs ==
  ASSUME NEW b \in Nat \ {0}
  PROVE  /\ \A a \in Nat : a % b \in 0..b - 1
         /\ \A a \in 0..b - 1 : a % b = a
         /\ \A a \in Int : a < 0 /\ -b <= a => a % b = a + b
         /\ \A p \in Nat, c \in 0..b - 1 : (p * b + c) % b = c
<1>1. \A a \in Nat : a % b \in 0..b - 1
  BY SMTT(30)
<1>2. \A a \in 0..b - 1 : a % b = a
  BY SMTT(30)
<1>3. \A a \in Int : a < 0 /\ -b <= a => a % b = a + b
  BY SMTT(30)
<1>4. ASSUME NEW p \in Nat, NEW c \in 0..b - 1 PROVE (p * b + c) % b = c
  <2> DEFINE x == p * b + c
             q == x \div b
             e == x % b
  <2>1. p * b \in Nat
    BY SMTT(30)
  <2>2. x \in Nat
    BY <2>1
  <2>3. q \in Nat /\ e \in 0..b - 1 /\ x = b * q + e
    <3> HIDE DEF x
    <3>1. \A y \in Nat : y \div b \in Nat /\ y % b \in 0..b - 1 /\ y = b * (y \div b) + (y % b)
      BY SMTT(30)
    <3> QED
      BY <2>2, <3>1
  <2>4. p * b + c = b * q + e
    BY <2>3
  <2> HIDE DEF x, q, e
  <2>5. q * b \in Nat /\ b * q = q * b
    BY <2>3, SMTT(30)
  <2>6. CASE p = q
    <3>1. e = c
      BY <2>1, <2>3, <2>4, <2>5, <2>6
    <3> QED
      BY <3>1 DEF e, x
  <2>7. CASE p < q
    <3>1. (p + 1) * b <= q * b
      BY <2>3, <2>7, SMTT(30)
    <3>2. (p + 1) * b = p * b + b
      BY SMTT(30)
    <3> QED
      BY <2>1, <2>3, <2>4, <2>5, <3>1, <3>2
  <2>8. CASE q < p
    <3>1. (q + 1) * b <= p * b
      BY <2>3, <2>8, SMTT(30)
    <3>2. (q + 1) * b = q * b + b
      BY <2>3, SMTT(30)
    <3> QED
      BY <2>1, <2>3, <2>4, <2>5, <3>1, <3>2
  <2> QED
    BY <2>3, <2>6, <2>7, <2>8
<1> QED
  BY <1>1, <1>2, <1>3, <1>4

(* The index of the last byte of a varint.                                 *)
LEMMA FinalsAre ==
  ASSUME NEW buf \in Seq(Bytes), NEW at \in Nat \ {0}, Finals(buf, at) # {}
  PROVE  /\ Min(Finals(buf, at)) \in 0..Groups - 1
         /\ at + Min(Finals(buf, at)) <= Len(buf)
         /\ \A k \in 1..Min(Finals(buf, at)) + 1 :
              k \in 1..Groups /\ at + k - 1 \in 1..Len(buf)
<1> DEFINE m == Min(Finals(buf, at))
<1>1. Groups \in Nat /\ Finals(buf, at) \subseteq Nat
  BY WireAssumption DEF Finals
<1>2. m \in Finals(buf, at)
  BY <1>1, MinIs
<1> HIDE DEF m
<1>3. m \in 0..Groups - 1 /\ at + m <= Len(buf)
  BY <1>2 DEF Finals
<1>4. Len(buf) \in Nat
  BY LenProperties
<1>5. \A k \in 1..m + 1 : k \in 1..Groups /\ at + k - 1 \in 1..Len(buf)
  BY <1>1, <1>3, <1>4
<1> QED
  BY <1>3, <1>5 DEF m

(* What the loop that reads a varint has when it has read the k-th byte.   *)
TakeIn(buf, at, k, x) == (x + (buf[at + k - 1] % 128) * Septets[k - 1]) % Wide

(* The loop that reads a varint.                                           *)
LEMMA VarintReads ==
  ASSUME NEW buf \in Seq(Bytes), NEW at \in Nat \ {0}, Finals(buf, at) # {}
  PROVE  \E r \in [0..Min(Finals(buf, at)) + 1 -> Nat] :
           /\ r[0] = 0
           /\ \A k \in 1..Min(Finals(buf, at)) + 1 : r[k] = TakeIn(buf, at, k, r[k - 1])
           /\ Varint(buf, at) = Got(r[Min(Finals(buf, at)) + 1], at + Min(Finals(buf, at)) + 1)
<1> DEFINE n == Min(Finals(buf, at)) + 1
           start == 0
           Steps == [k \in 1..n |-> [x \in Nat |-> TakeIn(buf, at, k, x)]]
           Def(g) == [k \in 0..n |-> IF k = 0 THEN start ELSE TakeIn(buf, at, k, g[k - 1])]
<1>1. n \in Nat
  BY FinalsAre
<1>2. start \in Nat
  OBVIOUS
<1>3. Steps \in [1..n -> [Nat -> Nat]]
  <2> SUFFICES ASSUME NEW k \in 1..n, NEW x \in Nat
               PROVE  TakeIn(buf, at, k, x) \in Nat
    BY DEF Steps
  <2>1. k \in 1..Groups /\ at + k - 1 \in 1..Len(buf)
    BY FinalsAre DEF n
  <2> DEFINE d == buf[at + k - 1] % 128
             s == Septets[k - 1]
  <2>2. d \in Nat
    <3>1. buf[at + k - 1] \in Bytes
      BY <2>1, ElementOfSeq
    <3>2. \A b \in Bytes : b % 128 \in Nat
      BY DEF Bytes
    <3> QED
      BY <3>1, <3>2
  <2>3. s \in Nat
    <3>1. k - 1 \in 0..Groups
      BY <2>1, WireAssumption
    <3> QED
      BY <3>1, SeptetsAre
  <2> HIDE DEF d, s
  <2>4. x + d * s \in Nat
    BY <2>2, <2>3, SMTT(30)
  <2>5. Wide \in Nat \ {0}
    BY WireAssumption
  <2>6. (x + d * s) % Wide \in 0..Wide - 1
    BY <2>4, <2>5, RemainderIs
  <2>7. (x + d * s) % Wide \in Nat
    BY <2>5, <2>6
  <2> QED
    BY <2>7 DEF d, s, TakeIn
<1> HIDE DEF n, start, Steps
<1>4. PICK r \in [0..n -> Nat] : Iterates(r, start, Steps, n)
  BY <1>1, <1>2, <1>3, IterationExists
<1>5. r[0] = start /\ \A k \in 1..n : r[k] = TakeIn(buf, at, k, r[k - 1])
  <2>1. \A k \in 1..n : k - 1 \in 0..n
    BY <1>1
  <2>2. \A k \in 1..n, x \in Nat : Steps[k][x] = TakeIn(buf, at, k, x)
    BY DEF Steps
  <2> QED
    BY <1>4, <2>1, <2>2 DEF Iterates
<1>6. r = Def(r)
  <2> SUFFICES ASSUME NEW k \in 0..n, k # 0 PROVE r[k] = TakeIn(buf, at, k, r[k - 1])
    BY <1>5
  <2>1. k \in 1..n
    BY <1>1
  <2> QED
    BY <1>5, <2>1
<1> DEFINE f == CHOOSE g : g = Def(g)
<1>7. f = Def(f)
  BY <1>6
<1>8. Varint(buf, at) = Got(f[n], at + Min(Finals(buf, at)) + 1)
  BY DEF Varint, TakeIn, n, start
<1> HIDE DEF f
<1>9. f[0] = start /\ \A k \in 1..n : f[k] = TakeIn(buf, at, k, f[k - 1])
  <2>1. \A k \in 0..n : f[k] = IF k = 0 THEN start ELSE TakeIn(buf, at, k, f[k - 1])
    BY <1>7
  <2>2. 0 \in 0..n /\ \A k \in 1..n : k \in 0..n /\ k # 0
    BY <1>1
  <2> QED
    BY <2>1, <2>2
<1>10. f[n] = r[n]
  <2>1. GoAlike(r, f, n)
    BY <1>5, <1>9 DEF GoAlike
  <2>2. Alike(r, f, n)
    BY <1>1, <2>1, SameIterations
  <2>3. n \in 0..n
    BY <1>1
  <2> QED
    BY <2>2, <2>3 DEF Alike
<1> QED
  BY <1>4, <1>5, <1>8, <1>10 DEF n, start

(* Bytes that spell a number stand in a buffer, as far as it goes.         *)
StandsAt(bytes, buf, at) ==
  /\ buf \in Seq(Bytes) /\ at \in Nat \ {0}
  /\ \A i \in 1..Len(bytes) : at + i - 1 <= Len(buf) => buf[at + i - 1] = bytes[i]

(* Bytes that spell a number are read as that number.                      *)
LEMMA SpelledIsRead ==
  ASSUME NEW x \in 0..Wide - 1, NEW bytes, NEW w, Spelled(x, bytes, w),
         NEW buf, NEW at, StandsAt(bytes, buf, at), at + Len(bytes) - 1 <= Len(buf)
  PROVE  Varint(buf, at) = Got(x, at + Len(bytes))
<1> DEFINE l == Len(bytes)
<1>1. /\ l \in 1..Groups /\ l \in Nat /\ l > 0 /\ Groups \in Nat
      /\ Len(buf) \in Nat /\ at \in Nat /\ at > 0 /\ at + l - 1 <= Len(buf)
      /\ buf \in Seq(Bytes) /\ at \in Nat \ {0}
  BY WireAssumption, LenProperties DEF Spelled, StandsAt
<1>2. \A i \in 1..l : bytes[i] \in Bytes
  BY ElementOfSeq DEF Spelled
<1>3. \A k \in 1..l : buf[at + k - 1] = bytes[k]
  BY <1>1 DEF StandsAt
<1>4. \A k \in 1..l : /\ w[k] = w[k - 1] + (bytes[k] % 128) * Septets[k - 1]
                      /\ w[k] \in 0..Wide - 1
                      /\ bytes[k] < 128 <=> k = l
  BY DEF Spelled
<1>5. w[0] = 0 /\ w[l] = x
  BY DEF Spelled
<1> HIDE DEF l
<1>6. Finals(buf, at) # {} /\ Min(Finals(buf, at)) = l - 1
  <2>1. l - 1 \in Finals(buf, at)
    <3>1. l \in 1..l /\ l - 1 \in 0..Groups - 1 /\ at + (l - 1) = at + l - 1
      BY <1>1
    <3>2. buf[at + (l - 1)] < 128
      BY <1>3, <1>4, <3>1
    <3> QED
      BY <1>1, <3>1, <3>2 DEF Finals
  <2>2. \A k \in Finals(buf, at) : k \in Nat /\ l - 1 <= k
    <3> SUFFICES ASSUME NEW k \in Finals(buf, at), k < l - 1 PROVE FALSE
      BY <1>1 DEF Finals
    <3>1. k + 1 \in 1..l /\ k + 1 # l /\ at + k = at + (k + 1) - 1
      BY <1>1 DEF Finals
    <3>2. buf[at + k] < 128
      BY DEF Finals
    <3> QED
      BY <1>3, <1>4, <3>1, <3>2
  <2>3. Finals(buf, at) \subseteq Nat
    BY <2>2
  <2>4. Min(Finals(buf, at)) \in Finals(buf, at) /\ Min(Finals(buf, at)) <= l - 1
    BY <2>1, <2>3, MinIs
  <2>5. l - 1 <= Min(Finals(buf, at)) /\ Min(Finals(buf, at)) \in Nat
    BY <2>2, <2>4
  <2> QED
    BY <1>1, <2>1, <2>4, <2>5
<1>7. Min(Finals(buf, at)) + 1 = l /\ at + Min(Finals(buf, at)) + 1 = at + l
  BY <1>1, <1>6
<1>8. PICK r \in [0..l -> Nat] :
        /\ r[0] = 0
        /\ \A k \in 1..l : r[k] = TakeIn(buf, at, k, r[k - 1])
        /\ Varint(buf, at) = Got(r[l], at + l)
  <2>1. \E r \in [0..Min(Finals(buf, at)) + 1 -> Nat] :
          /\ r[0] = 0
          /\ \A k \in 1..Min(Finals(buf, at)) + 1 : r[k] = TakeIn(buf, at, k, r[k - 1])
          /\ Varint(buf, at) = Got(r[Min(Finals(buf, at)) + 1], at + Min(Finals(buf, at)) + 1)
    BY <1>1, <1>6, VarintReads
  <2> QED
    BY <1>7, <2>1, ZenonT(30)
<1>9. \A k \in 1..l : w[k] % Wide = w[k]
  <2>1. Wide \in Nat \ {0}
    BY WireAssumption
  <2> QED
    BY <1>4, <2>1, RemainderIs
<1>10. \A k \in Nat : k <= l => r[k] = w[k]
  <2> DEFINE T == {k \in Nat : k <= l => r[k] = w[k]}
  <2>1. 0 \in T
    BY <1>5, <1>8
  <2>2. ASSUME NEW k \in Nat, k \in T PROVE k + 1 \in T
    <3> SUFFICES ASSUME k + 1 <= l PROVE r[k + 1] = w[k + 1]
      OBVIOUS
    <3> DEFINE j == k + 1
    <3>1. j \in 1..l /\ j - 1 = k /\ r[j - 1] = w[j - 1]
      BY <1>1, <2>2
    <3> HIDE DEF j
    <3>2. r[j] = (w[j - 1] + (bytes[j] % 128) * Septets[j - 1]) % Wide
      BY <1>3, <1>8, <3>1 DEF TakeIn
    <3>3. w[j - 1] + (bytes[j] % 128) * Septets[j - 1] = w[j]
      BY <1>4, <3>1
    <3>4. r[j] = w[j]
      BY <1>9, <3>1, <3>2, <3>3
    <3> QED
      BY <3>4 DEF j
  <2>3. \A k \in Nat : k \in T
    <3> HIDE DEF T
    <3> QED
      BY <2>1, <2>2, EveryNatural
  <2> QED
    BY <2>3
<1>11. r[l] = x
  BY <1>1, <1>5, <1>10
<1> QED
  BY <1>8, <1>11 DEF l

(* A buffer that ends within them ends unexpectedly.                       *)
LEMMA SpelledCutShort ==
  ASSUME NEW x \in 0..Wide - 1, NEW bytes, NEW w, Spelled(x, bytes, w),
         NEW buf, NEW at, StandsAt(bytes, buf, at), Len(buf) < at + Len(bytes) - 1
  PROVE  Varint(buf, at) = Bad("EOF")
<1> DEFINE l == Len(bytes)
<1>1. /\ l \in 1..Groups /\ l \in Nat /\ l > 0 /\ Groups \in Nat
      /\ Len(buf) \in Nat /\ at \in Nat /\ at > 0 /\ Len(buf) < at + l - 1
  BY WireAssumption, LenProperties DEF Spelled, StandsAt
<1>2. \A k \in 1..l : bytes[k] < 128 <=> k = l
  BY DEF Spelled
<1>3. \A k \in 1..l : at + k - 1 <= Len(buf) => buf[at + k - 1] = bytes[k]
  BY DEF StandsAt
<1> HIDE DEF l
<1>4. Finals(buf, at) = {}
  <2> SUFFICES ASSUME NEW k \in Finals(buf, at) PROVE FALSE
    OBVIOUS
  <2>1. k \in 0..Groups - 1 /\ at + k <= Len(buf) /\ buf[at + k] < 128
    BY DEF Finals
  <2>2. k + 1 \in 1..l /\ k + 1 # l /\ at + k = at + (k + 1) - 1
    BY <1>1, <2>1
  <2> QED
    BY <1>2, <1>3, <2>1, <2>2
<1>5. ~(at + Groups - 1 <= Len(buf))
  BY <1>1
<1> QED
  BY <1>4, <1>5 DEF Varint

(* What stands in the middle of a buffer, and what does if it is cut short.*)
LEMMA InTheMiddle ==
  ASSUME NEW pre \in Seq(Bytes), NEW bytes \in Seq(Bytes), NEW post \in Seq(Bytes)
  PROVE  /\ StandsAt(bytes, pre \o bytes \o post, Len(pre) + 1)
         /\ Len(pre) + 1 + Len(bytes) - 1 <= Len(pre \o bytes \o post)
         /\ \A n \in 0..Len(bytes) - 1 :
              /\ StandsAt(bytes, pre \o SubSeq(bytes, 1, n), Len(pre) + 1)
              /\ Len(pre \o SubSeq(bytes, 1, n)) < Len(pre) + 1 + Len(bytes) - 1
<1> DEFINE P == Len(pre)
           L == Len(bytes)
           B == pre \o bytes
           buf == B \o post
<1>1. P \in Nat /\ L \in Nat /\ Len(post) \in Nat
  BY LenProperties
<1>2. /\ B \in Seq(Bytes) /\ Len(B) = P + L
      /\ \A i \in 1..P + L : B[i] = IF i <= P THEN pre[i] ELSE bytes[i - P]
  BY ConcatProperties
<1> HIDE DEF B
<1>3. /\ buf \in Seq(Bytes) /\ Len(buf) = Len(B) + Len(post)
      /\ \A i \in 1..Len(B) + Len(post) :
           buf[i] = IF i <= Len(B) THEN B[i] ELSE post[i - Len(B)]
  <2>1. B \in Seq(Bytes)
    BY <1>2
  <2> QED
    BY <2>1, ConcatProperties
<1> HIDE DEF buf, P, L
<1>4. StandsAt(bytes, buf, P + 1)
  <2> SUFFICES ASSUME NEW i \in 1..L PROVE buf[(P + 1) + i - 1] = bytes[i]
    BY <1>1, <1>3 DEF StandsAt, L
  <2> DEFINE j == P + i
  <2>1. /\ j = (P + 1) + i - 1 /\ j \in 1..P + L /\ j <= Len(B) /\ ~(j <= P) /\ j - P = i
        /\ j \in 1..Len(B) + Len(post)
    BY <1>1, <1>2
  <2> HIDE DEF j
  <2>2. buf[j] = B[j] /\ B[j] = bytes[i]
    BY <1>2, <1>3, <2>1
  <2> QED
    BY <2>1, <2>2
<1>5. P + 1 + L - 1 <= Len(buf)
  BY <1>1, <1>2, <1>3
<1>6. ASSUME NEW n \in 0..L - 1
      PROVE  /\ StandsAt(bytes, pre \o SubSeq(bytes, 1, n), P + 1)
             /\ Len(pre \o SubSeq(bytes, 1, n)) < P + 1 + L - 1
  <2> DEFINE s == SubSeq(bytes, 1, n)
             C == pre \o s
  <2>1. s \in Seq(Bytes) /\ Len(s) = n /\ \A i \in 1..n : s[i] = bytes[i]
    <3>1. 1 \in 1..Len(bytes) + 1 /\ n \in 0..Len(bytes)
      BY <1>1 DEF L
    <3> QED
      BY <3>1, SubSeqProperties
  <2> HIDE DEF s
  <2>2. /\ C \in Seq(Bytes) /\ Len(C) = P + n
        /\ \A i \in 1..P + n : C[i] = IF i <= P THEN pre[i] ELSE s[i - P]
    BY <2>1, ConcatProperties DEF P
  <2> HIDE DEF C
  <2>3. ASSUME NEW i \in 1..L, (P + 1) + i - 1 <= Len(C) PROVE C[(P + 1) + i - 1] = bytes[i]
    <3> DEFINE j == P + i
    <3>1. /\ j = (P + 1) + i - 1 /\ j \in 1..P + n /\ ~(j <= P) /\ j - P = i /\ i \in 1..n
      BY <1>1, <2>2, <2>3
    <3> HIDE DEF j
    <3>2. C[j] = s[i] /\ s[i] = bytes[i]
      BY <2>1, <2>2, <3>1
    <3> QED
      BY <3>1, <3>2
  <2>4. StandsAt(bytes, C, P + 1)
    BY <1>1, <2>2, <2>3 DEF StandsAt, L
  <2>5. Len(C) < P + 1 + L - 1
    BY <1>1, <2>2
  <2> QED
    BY <2>4, <2>5 DEF C, s
<1> QED
  BY <1>4, <1>5, <1>6 DEF buf, B, P, L

(* encodeVarintPb writes every number in the bytes that Size says, and the *)
(* loop of every Unmarshal reads it back from them, wherever they stand, to*)
(* their end; a buffer that ends within them ends unexpectedly.            *)
THEOREM VarintsAreReadBack ==
  ASSUME NEW x \in 0..Wide - 1, NEW pre \in Seq(Bytes), NEW post \in Seq(Bytes)
  PROVE  /\ PutVarint(x) \in Seq(Bytes) /\ Len(PutVarint(x)) = SovPb(x)
         /\ Varint(pre \o PutVarint(x) \o post, Len(pre) + 1)
              = Got(x, Len(pre) + 1 + SovPb(x))
         /\ \A n \in 0..SovPb(x) - 1 :
              Varint(pre \o SubSeq(PutVarint(x), 1, n), Len(pre) + 1) = Bad("EOF")
<1> DEFINE bytes == PutVarint(x)
           l == SovPb(x)
<1>1. Len(bytes) = l
  BY PutVarintSpells
<1>2. PICK w : Spelled(x, bytes, w)
  BY PutVarintSpells
<1>3. bytes \in Seq(Bytes)
  BY <1>2 DEF Spelled
<1> HIDE DEF bytes, l
<1>4. Varint(pre \o bytes \o post, Len(pre) + 1) = Got(x, Len(pre) + 1 + Len(bytes))
  <2> DEFINE buf == pre \o bytes \o post
             at == Len(pre) + 1
  <2>1. StandsAt(bytes, buf, at) /\ at + Len(bytes) - 1 <= Len(buf)
    BY <1>3, InTheMiddle
  <2> HIDE DEF buf, at
  <2>2. Varint(buf, at) = Got(x, at + Len(bytes))
    BY <1>2, <2>1, SpelledIsRead
  <2> QED
    BY <2>2 DEF buf, at
<1>5. ASSUME NEW n \in 0..Len(bytes) - 1
      PROVE  Varint(pre \o SubSeq(bytes, 1, n), Len(pre) + 1) = Bad("EOF")
  <2> DEFINE buf == pre \o SubSeq(bytes, 1, n)
             at == Len(pre) + 1
  <2>1. StandsAt(bytes, buf, at) /\ Len(buf) < at + Len(bytes) - 1
    BY <1>3, InTheMiddle
  <2> HIDE DEF buf, at
  <2>2. Varint(buf, at) = Bad("EOF")
    BY <1>2, <2>1, SpelledCutShort
  <2> QED
    BY <2>2 DEF buf, at
<1> QED
  BY <1>1, <1>3, <1>4, <1>5 DEF bytes, l

(* Strings of bytes are joined in any order of the joins.                  *)
LEMMA BytesJoin ==
  \A a \in Seq(Bytes), b \in Seq(Bytes), c \in Seq(Bytes) : (a \o b) \o c = a \o (b \o c)
<1> SUFFICES ASSUME NEW a \in Seq(Bytes), NEW b \in Seq(Bytes), NEW c \in Seq(Bytes)
             PROVE  (a \o b) \o c = a \o (b \o c)
  OBVIOUS
<1> QED
  BY ConcatAssociative, SMTT(30)

(* The fronts of two strings of bytes, one behind the other.               *)
LEMMA Fronts ==
  ASSUME NEW a \in Seq(Bytes), NEW b \in Seq(Bytes), NEW n \in 0..Len(a) + Len(b)
  PROVE  /\ SubSeq(a \o b, 1, n) \in Seq(Bytes) /\ Len(SubSeq(a \o b, 1, n)) = n
         /\ n <= Len(a) => SubSeq(a \o b, 1, n) = SubSeq(a, 1, n)
         /\ Len(a) <= n => /\ SubSeq(a \o b, 1, n) = a \o SubSeq(b, 1, n - Len(a))
                           /\ SubSeq(b, 1, n - Len(a)) \in Seq(Bytes)
<1> DEFINE A == Len(a)
           B == Len(b)
           c == a \o b
           front == SubSeq(c, 1, n)
<1>1. A \in Nat /\ B \in Nat /\ n \in Nat /\ n <= A + B
  BY LenProperties
<1>2. /\ c \in Seq(Bytes) /\ Len(c) = A + B
      /\ \A i \in 1..A + B : c[i] = IF i <= A THEN a[i] ELSE b[i - A]
  BY ConcatProperties
<1>3. (\A i \in 1..A : a[i] \in Bytes) /\ (\A i \in 1..B : b[i] \in Bytes)
  BY ElementOfSeq
<1> HIDE DEF A, B, c
<1>4. \A s \in Seq(Bytes), k \in Nat : k <= Len(s) =>
        /\ SubSeq(s, 1, k) \in Seq(Bytes) /\ Len(SubSeq(s, 1, k)) = k
        /\ \A i \in 1..k : SubSeq(s, 1, k)[i] = s[i]
  <2> SUFFICES ASSUME NEW s \in Seq(Bytes), NEW k \in Nat, k <= Len(s)
               PROVE  /\ SubSeq(s, 1, k) \in Seq(Bytes) /\ Len(SubSeq(s, 1, k)) = k
                      /\ \A i \in 1..k : SubSeq(s, 1, k)[i] = s[i]
    OBVIOUS
  <2>1. \A i \in 1..k : s[i] \in Bytes
    <3>1. \A i \in 1..k : i \in 1..Len(s)
      BY LenProperties
    <3> QED
      BY <3>1, ElementOfSeq
  <2>2. /\ SubSeq(s, 1, k) \in Seq(Bytes)
        /\ Len(SubSeq(s, 1, k)) = IF 1 <= k THEN k - 1 + 1 ELSE 0
        /\ \A i \in 1..k - 1 + 1 : SubSeq(s, 1, k)[i] = s[1 + i - 1]
    BY <2>1, SubSeqProperties
  <2>3. (IF 1 <= k THEN k - 1 + 1 ELSE 0) = k /\ k - 1 + 1 = k /\ \A i \in 1..k : 1 + i - 1 = i
    OBVIOUS
  <2> QED
    BY <2>2, <2>3
<1>5. /\ front \in Seq(Bytes) /\ Len(front) = n
      /\ \A i \in 1..n : front[i] = c[i]
  BY <1>1, <1>2, <1>4
<1> HIDE DEF front
<1>6. ASSUME n <= A PROVE front = SubSeq(a, 1, n)
  <2>1. /\ SubSeq(a, 1, n) \in Seq(Bytes) /\ Len(SubSeq(a, 1, n)) = n
        /\ \A i \in 1..n : SubSeq(a, 1, n)[i] = a[i]
    BY <1>1, <1>4, <1>6 DEF A
  <2>2. \A i \in 1..n : i \in 1..A + B /\ i <= A
    BY <1>1, <1>6
  <2>3. \A i \in 1..n : front[i] = SubSeq(a, 1, n)[i]
    BY <1>2, <1>5, <2>1, <2>2
  <2> QED
    BY <1>5, <2>1, <2>3, SeqEqual
<1>7. ASSUME A <= n
      PROVE  front = a \o SubSeq(b, 1, n - A) /\ SubSeq(b, 1, n - A) \in Seq(Bytes)
  <2> DEFINE m == n - A
             rest == SubSeq(b, 1, m)
  <2>1. m \in Nat /\ m <= B /\ A + m = n
    BY <1>1, <1>7
  <2> HIDE DEF m
  <2>2. rest \in Seq(Bytes) /\ Len(rest) = m /\ \A i \in 1..m : rest[i] = b[i]
    BY <1>4, <2>1 DEF B
  <2> HIDE DEF rest
  <2>3. /\ a \o rest \in Seq(Bytes) /\ Len(a \o rest) = A + m
        /\ \A i \in 1..A + m : (a \o rest)[i] = IF i <= A THEN a[i] ELSE rest[i - A]
    BY <2>2, ConcatProperties DEF A
  <2>4. \A i \in 1..n : i \in 1..A + B /\ i \in 1..A + m /\ (i <= A \/ i - A \in 1..m)
    BY <1>1, <2>1
  <2>5. \A i \in 1..n : front[i] = (a \o rest)[i]
    BY <1>2, <1>5, <2>2, <2>3, <2>4
  <2>6. front = a \o rest
    BY <1>5, <2>1, <2>3, <2>5, SeqEqual
  <2> QED
    BY <2>2, <2>6 DEF rest, m
<1> QED
  BY <1>5, <1>6, <1>7 DEF front, c, A

(* What is read of a string of bytes of which the length is read.          *)
LEMMA ChunkBehindLength ==
  \A buf, at, from, to : Length(buf, at) = Got(from, to) =>
    Chunk(buf, at) = IF to > Len(buf) + 1 THEN Bad("EOF")
                     ELSE Got(SubSeq(buf, from, to - 1), to)
  BY DEF Chunk, Then, Got, OK

(* A string of bytes is written behind its length and read back; a buffer  *)
(* that ends within them ends unexpectedly.  A buffer of which the length  *)
(* is no int there is not.                                                 *)
THEOREM ChunksAreReadBack ==
  ASSUME NEW bytes \in Seq(Bytes), NEW pre \in Seq(Bytes), NEW post \in Seq(Bytes),
         2 * (Len(pre) + 1 + Groups + Len(bytes)) <= Wide
  PROVE  /\ PutChunk(bytes) \in Seq(Bytes)
         /\ Len(PutChunk(bytes)) = SovPb(Len(bytes)) + Len(bytes)
         /\ Chunk(pre \o PutChunk(bytes) \o post, Len(pre) + 1)
              = Got(bytes, Len(pre) + 1 + Len(PutChunk(bytes)))
         /\ \A n \in 0..Len(PutChunk(bytes)) - 1 :
              Chunk(pre \o SubSeq(PutChunk(bytes), 1, n), Len(pre) + 1) = Bad("EOF")
<1> DEFINE c == Len(bytes)
           size == PutVarint(c)
           s == SovPb(c)
           P == Len(pre)
           all == PutChunk(bytes)
<1>1. c \in Nat /\ P \in Nat /\ Groups \in Nat /\ Wide \in Nat
  BY WireAssumption, LenProperties
<1>2. c \in 0..Wide - 1 /\ Signed(c, Wide) = c
  <2>1. c \in 0..Wide - 1 /\ 2 * c < Wide
    <3> HIDE DEF c, P
    <3>1. 2 * (P + 1 + Groups + c) <= Wide
      BY DEF c, P
    <3>2. Groups >= 1
      BY WireAssumption
    <3> QED
      BY <1>1, <3>1, <3>2
  <2> QED
    BY <2>1 DEF Signed
<1>3. /\ size \in Seq(Bytes) /\ Len(size) = s
      /\ s \in 1..Groups
  <2>1. PICK w : Spelled(c, size, w)
    BY <1>2, PutVarintSpells
  <2>2. Len(size) = s
    BY <1>2, PutVarintSpells
  <2> QED
    BY <2>1, <2>2 DEF Spelled
<1>4. all = size \o bytes
  BY DEF PutChunk
<1> HIDE DEF size, s, all
<1>5. /\ all \in Seq(Bytes) /\ Len(all) = s + c
      /\ \A i \in 1..s + c : all[i] = IF i <= s THEN size[i] ELSE bytes[i - s]
  BY <1>3, <1>4, ConcatProperties
<1>6. \A rest \in Seq(Bytes) : Varint(pre \o size \o rest, P + 1) = Got(c, P + 1 + s)
  BY <1>2, VarintsAreReadBack DEF size, s
<1>7. \A n \in 0..s - 1 : Varint(pre \o SubSeq(size, 1, n), P + 1) = Bad("EOF")
  BY <1>2, VarintsAreReadBack DEF size, s
<1> HIDE DEF c, P
<1>8. \A buf : Varint(buf, P + 1) = Got(c, P + 1 + s)
        => Length(buf, P + 1) = Got(P + 1 + s, P + 1 + s + c)
  <2> SUFFICES ASSUME NEW buf, Varint(buf, P + 1) = Got(c, P + 1 + s)
               PROVE  Length(buf, P + 1) = Got(P + 1 + s, P + 1 + s + c)
    OBVIOUS
  <2>1. 2 * (P + 1 + Groups + c) <= Wide
    BY DEF c, P
  <2>2. ~(c < 0) /\ ~(2 * (P + 1 + s + c) > Wide)
    BY <1>1, <1>3, <2>1
  <2> QED
    BY <1>2, <2>2 DEF Length, Then, Got, OK
<1>9. /\ StandsAt(all, pre \o all \o post, P + 1)
      /\ P + 1 + Len(all) - 1 <= Len(pre \o all \o post)
  <2>1. all \in Seq(Bytes)
    BY <1>5
  <2> QED
    BY <2>1, InTheMiddle, ZenonT(30) DEF P
<1>10. pre \o all \o post = pre \o size \o (bytes \o post) /\ bytes \o post \in Seq(Bytes)
  <2>1. pre \o all = (pre \o size) \o bytes
    <3>1. size \in Seq(Bytes)
      BY <1>3
    <3>2. (pre \o size) \o bytes = pre \o (size \o bytes)
      BY <3>1, BytesJoin, ZenonT(30)
    <3> QED
      BY <1>4, <3>2
  <2>2. pre \o size \in Seq(Bytes) /\ bytes \o post \in Seq(Bytes)
    BY <1>3, ConcatProperties
  <2>3. ((pre \o size) \o bytes) \o post = (pre \o size) \o (bytes \o post)
    BY <2>2, BytesJoin, ZenonT(30)
  <2> QED
    BY <2>1, <2>2, <2>3
<1>11. Chunk(pre \o all \o post, P + 1) = Got(bytes, P + 1 + s + c)
  <2> DEFINE buf == pre \o all \o post
  <2>1. Length(buf, P + 1) = Got(P + 1 + s, P + 1 + s + c)
    BY <1>6, <1>8, <1>10
  <2>2. /\ buf \in Seq(Bytes) /\ Len(buf) \in Nat /\ P + 1 + (s + c) - 1 <= Len(buf)
        /\ \A i \in 1..s + c : P + 1 + i - 1 <= Len(buf) => buf[P + 1 + i - 1] = all[i]
    BY <1>5, <1>9, LenProperties DEF StandsAt
  <2> HIDE DEF buf
  <2>3. SubSeq(buf, P + 1 + s, (P + 1 + s + c) - 1) = bytes
    <3> DEFINE from == P + 1 + s
               to == (P + 1 + s + c) - 1
               cut == SubSeq(buf, from, to)
    <3>1. from \in Int /\ to \in Int /\ to - from + 1 = c /\ (IF from <= to THEN c ELSE 0) = c
      BY <1>1, <1>3
    <3>2. \A i \in 1..c : buf[from + i - 1] = bytes[i]
      <4> SUFFICES ASSUME NEW i \in 1..c PROVE buf[from + i - 1] = bytes[i]
        OBVIOUS
      <4> DEFINE j == s + i
      <4>1. /\ j \in 1..s + c /\ ~(j <= s) /\ j - s = i /\ P + 1 + j - 1 = from + i - 1
            /\ P + 1 + j - 1 <= Len(buf)
        BY <1>1, <1>3, <2>2
      <4> HIDE DEF j, from
      <4>2. buf[P + 1 + j - 1] = all[j] /\ all[j] = bytes[i]
        BY <1>5, <2>2, <4>1
      <4> QED
        BY <4>1, <4>2
    <3>3. \A i \in 1..c : bytes[i] \in Bytes
      BY ElementOfSeq DEF c
    <3>4. \A i \in from..to : buf[i] \in Bytes
      <4> SUFFICES ASSUME NEW i \in from..to PROVE buf[i] \in Bytes
        OBVIOUS
      <4>1. i \in 1..Len(buf)
        BY <1>1, <1>3, <2>2
      <4> QED
        BY <2>2, <4>1, ElementOfSeq
    <3> HIDE DEF from, to
    <3>5. /\ cut \in Seq(Bytes) /\ Len(cut) = IF from <= to THEN to - from + 1 ELSE 0
          /\ \A i \in 1..to - from + 1 : cut[i] = buf[from + i - 1]
      BY <3>1, <3>4, SubSeqProperties
    <3> HIDE DEF cut
    <3>6. Len(cut) = c /\ \A i \in 1..c : cut[i] = bytes[i]
      BY <3>1, <3>2, <3>5
    <3>7. cut = bytes
      BY <3>5, <3>6, SeqEqual DEF c
    <3> QED
      BY <3>7 DEF cut, from, to
  <2>4. ~(P + 1 + s + c > Len(buf) + 1)
    BY <1>1, <1>3, <2>2
  <2>5. Chunk(buf, P + 1) = Got(bytes, P + 1 + s + c)
    BY <2>1, <2>3, <2>4, ChunkBehindLength
  <2> QED
    BY <2>5 DEF buf
<1>12. ASSUME NEW n \in 0..s + c - 1
       PROVE  Chunk(pre \o SubSeq(all, 1, n), P + 1) = Bad("EOF")
  <2> DEFINE buf == pre \o SubSeq(all, 1, n)
  <2>1. CASE n < s
    <3>1. SubSeq(all, 1, n) = SubSeq(size, 1, n)
      <4>1. n \in 0..Len(size) + Len(bytes) /\ n <= Len(size)
        BY <1>1, <1>3, <2>1 DEF c
      <4> QED
        BY <1>3, <1>4, <4>1, Fronts
    <3>2. Varint(buf, P + 1) = Bad("EOF")
      <4>1. n \in 0..s - 1
        BY <1>3, <2>1
      <4> QED
        BY <1>7, <3>1, <4>1
    <3> HIDE DEF buf
    <3>3. Chunk(buf, P + 1) = Bad("EOF")
      BY <3>2 DEF Chunk, Length, Then, Bad, OK
    <3> QED
      BY <3>3 DEF buf
  <2>2. CASE s <= n
    <3> DEFINE rest == SubSeq(bytes, 1, n - s)
    <3>1. SubSeq(all, 1, n) = size \o rest /\ rest \in Seq(Bytes)
      <4>1. n \in 0..Len(size) + Len(bytes) /\ Len(size) <= n
        BY <1>1, <1>3, <2>2 DEF c
      <4> QED
        BY <1>3, <1>4, <4>1, Fronts
    <3>2. Len(buf) = P + n
      <4>1. n \in 0..Len(size) + Len(bytes)
        BY <1>1, <1>3 DEF c
      <4>2. SubSeq(all, 1, n) \in Seq(Bytes) /\ Len(SubSeq(all, 1, n)) = n
        BY <1>3, <1>4, <4>1, Fronts
      <4> DEFINE front == SubSeq(all, 1, n)
      <4>3. front \in Seq(Bytes) /\ Len(front) = n
        BY <4>2
      <4> HIDE DEF front
      <4>4. Len(pre \o front) = Len(pre) + Len(front)
        BY <4>3, ConcatProperties
      <4> QED
        BY <4>3, <4>4 DEF front, P
    <3>3. buf = pre \o size \o rest
      <4> HIDE DEF rest
      <4>1. rest \in Seq(Bytes) /\ size \in Seq(Bytes)
        BY <1>3, <3>1
      <4>2. (pre \o size) \o rest = pre \o (size \o rest)
        BY <4>1, BytesJoin, ZenonT(30)
      <4> QED
        BY <3>1, <4>2
    <3>4. Length(buf, P + 1) = Got(P + 1 + s, P + 1 + s + c)
      BY <1>6, <1>8, <3>1, <3>3
    <3> HIDE DEF buf
    <3>5. P + 1 + s + c > Len(buf) + 1
      BY <1>1, <1>3, <3>2
    <3>6. Chunk(buf, P + 1) = Bad("EOF")
      BY <3>4, <3>5, ChunkBehindLength
    <3> QED
      BY <3>6 DEF buf
  <2> QED
    BY <1>1, <1>3, <2>1, <2>2
<1>13. Len(all) = s + c /\ Len(all) - 1 = s + c - 1 /\ P + 1 + Len(all) = P + 1 + s + c
  <2>1. Len(all) = s + c
    BY <1>5
  <2> QED
    BY <1>1, <1>3, <2>1
<1>14. /\ Chunk(pre \o all \o post, P + 1) = Got(bytes, P + 1 + Len(all))
       /\ \A n \in 0..Len(all) - 1 : Chunk(pre \o SubSeq(all, 1, n), P + 1) = Bad("EOF")
  <2>1. Len(all) - 1 = s + c - 1
    BY <1>13
  <2>2. \A n \in 0..Len(all) - 1 : Chunk(pre \o SubSeq(all, 1, n), P + 1) = Bad("EOF")
    BY <1>12, <2>1
  <2>3. Chunk(pre \o all \o post, P + 1) = Got(bytes, P + 1 + Len(all))
    BY <1>11, <1>13
  <2> QED
    BY <2>2, <2>3
<1> QED
  BY <1>5, <1>14 DEF all, s, c, P

(* A number of seven bits is one byte.                                     *)
LEMMA OneByte ==
  ASSUME NEW x \in 0..Wide - 1, x < 128
  PROVE  PutVarint(x) = <<x>> /\ SovPb(x) = 1
<1> DEFINE bytes == PutVarint(x)
<1>1. Groups \in Nat /\ Groups > 0
  BY WireAssumption
<1>2. SovPb(x) = 1
  <2>1. 1 \in 1..Groups /\ 1 \in 0..Groups
    BY <1>1
  <2>2. Septets[1] = 128 * Septets[0] /\ Septets[0] = 1
    <3>1. Septets[1] = 128 * Septets[1 - 1]
      BY <2>1, SeptetsAre
    <3> QED
      BY <3>1, SeptetsAre
  <2>3. x \in Nat /\ x < Septets[1]
    BY <2>2
  <2> QED
    BY <2>1, <2>3, SovPbIs
<1>3. PICK w : Spelled(x, bytes, w)
  BY PutVarintSpells
<1>4. Len(bytes) = 1
  BY <1>2, PutVarintSpells
<1> HIDE DEF bytes
<1>5. bytes \in Seq(Bytes) /\ w[0] = 0 /\ w[1] = x
  BY <1>3, <1>4 DEF Spelled
<1>6. w[1] = w[1 - 1] + (bytes[1] % 128) * Septets[1 - 1] /\ bytes[1] < 128
  <2>1. 1 \in 1..Len(bytes)
    BY <1>4
  <2> QED
    BY <1>3, <1>4, <2>1 DEF Spelled
<1>7. bytes[1] \in Bytes
  <2>1. 1 \in 1..Len(bytes)
    BY <1>4
  <2> QED
    BY <1>5, <2>1, ElementOfSeq
<1>8. bytes[1] = x
  <2> DEFINE b == bytes[1]
  <2>1. b \in Nat /\ b < 128 /\ w[1 - 1] = 0 /\ Septets[1 - 1] = 1
    <3>1. b \in Nat /\ b < 128
      BY <1>6, <1>7 DEF Bytes
    <3>2. 1 - 1 = 0
      OBVIOUS
    <3>3. w[1 - 1] = w[0] /\ Septets[1 - 1] = Septets[0]
      BY <3>2, Zenon
    <3> QED
      BY <1>5, <3>1, <3>3, SeptetsAre
  <2>2. x = 0 + (b % 128) * 1
    BY <1>5, <1>6, <2>1
  <2> HIDE DEF b
  <2>3. b % 128 = b
    BY <2>1, SeptetOf
  <2>4. x = b
    BY <2>1, <2>2, <2>3
  <2> QED
    BY <2>4 DEF b
<1>9. bytes = <<x>>
  <2>1. bytes = [i \in 1..1 |-> bytes[i]]
    BY <1>4, <1>5, LenProperties
  <2>2. \A i \in 1..1 : bytes[i] = x
    BY <1>8
  <2> QED
    BY <2>1, <2>2
<1> QED
  BY <1>2, <1>9 DEF bytes

(* The types of the numbers a field can have, and the values of each.      *)
ScalarKinds == {"uint64", "int64", "uint32", "int32", "bool", "fixed64"}
ScalarValues(kind) ==
  CASE kind = "uint64" -> 0..Wide - 1
    [] kind = "int64"  -> {v \in Int : -Wide <= 2 * v /\ 2 * v < Wide}
    [] kind = "uint32" -> 0..Narrow - 1
    [] kind = "int32"  -> {v \in Int : -Narrow <= 2 * v /\ 2 * v < Narrow}
    [] kind = "bool"   -> BOOLEAN
    [] kind = "fixed64" -> {v \in Seq(Bytes) : Len(v) = 8}

(* What is written of a value that is not eight bytes is a varint, and what*)
(* is read from it is the value.                                           *)
LEMMA WrittenAsVarint ==
  ASSUME NEW kind \in ScalarKinds \ {"fixed64"}, NEW v \in ScalarValues(kind)
  PROVE  \E x \in 0..Wide - 1 :
           /\ PutScalar(kind, v) = PutVarint(x) /\ SizeScalar(kind, v) = SovPb(x)
           /\ Converted(kind, x) = v
<1>1. /\ Wide \in Nat \ {0} /\ Narrow \in Nat \ {0} /\ Narrow > 1 /\ Narrow <= Wide
      /\ Wide % Narrow = 0
  BY WireAssumption
<1>2. CASE kind = "uint64"
  <2>1. v \in 0..Wide - 1
    BY <1>2 DEF ScalarValues
  <2>2. v % Wide = v
    BY <1>1, <2>1, RemainderIs
  <2>3. /\ PutScalar(kind, v) = PutVarint(v) /\ SizeScalar(kind, v) = SovPb(v)
        /\ Converted(kind, v) = v
    BY <1>2, <2>2 DEF PutScalar, SizeScalar, Converted
  <2> QED
    BY <2>1, <2>3
<1>3. CASE kind = "int64"
  <2> DEFINE x == v % Wide
  <2>1. v \in Int /\ -Wide <= 2 * v /\ 2 * v < Wide
    BY <1>3 DEF ScalarValues
  <2>2. x = IF v < 0 THEN v + Wide ELSE v
    <3>1. CASE v < 0
      <4>1. -Wide <= v
        BY <1>1, <2>1
      <4> QED
        BY <1>1, <2>1, <3>1, <4>1, RemainderIs
    <3>2. CASE ~(v < 0)
      <4>1. v \in 0..Wide - 1
        BY <1>1, <2>1, <3>2
      <4> QED
        BY <1>1, <3>2, <4>1, RemainderIs
    <3> QED
      BY <3>1, <3>2
  <2>3. /\ PutScalar(kind, v) = PutVarint(x) /\ SizeScalar(kind, v) = SovPb(x)
        /\ Converted(kind, x) = Signed(x, Wide)
    BY <1>3 DEF PutScalar, SizeScalar, Converted
  <2> HIDE DEF x
  <2>4. x \in 0..Wide - 1 /\ Signed(x, Wide) = v
    BY <1>1, <2>1, <2>2 DEF Signed
  <2> QED
    BY <2>3, <2>4
<1>4. CASE kind = "uint32"
  <2>1. v \in 0..Narrow - 1 /\ v \in 0..Wide - 1
    BY <1>1, <1>4 DEF ScalarValues
  <2>2. v % Wide = v /\ v % Narrow = v
    BY <1>1, <2>1, RemainderIs
  <2>3. /\ PutScalar(kind, v) = PutVarint(v) /\ SizeScalar(kind, v) = SovPb(v)
        /\ Converted(kind, v) = v
    BY <1>4, <2>2 DEF PutScalar, SizeScalar, Converted
  <2> QED
    BY <2>1, <2>3
<1>5. CASE kind = "int32"
  <2> DEFINE x == v % Wide
             y == x % Narrow
  <2>1. v \in Int /\ -Narrow <= 2 * v /\ 2 * v < Narrow
    BY <1>5 DEF ScalarValues
  <2>2. /\ PutScalar(kind, v) = PutVarint(x) /\ SizeScalar(kind, v) = SovPb(x)
        /\ Converted(kind, x) = Signed(y, Narrow)
    BY <1>5 DEF PutScalar, SizeScalar, Converted
  <2>3. CASE v < 0
    <3>1. x = v + Wide /\ v + Wide \in 0..Wide - 1
      <4>1. -Wide <= v
        BY <1>1, <2>1
      <4>2. x = v + Wide
        BY <1>1, <2>1, <2>3, <4>1, RemainderIs
      <4> QED
        BY <1>1, <2>1, <2>3, <4>1, <4>2
    <3>2. y = v + Narrow
      <4> DEFINE q == Wide \div Narrow
      <4>1. q \in Nat /\ Wide = q * Narrow
        BY <1>1, SMTT(30)
      <4> HIDE DEF q, x
      <4>2. q >= 1 /\ q - 1 \in Nat
        BY <1>1, <4>1, SMTT(30)
      <4>3. (q - 1) * Narrow \in Nat /\ q * Narrow = (q - 1) * Narrow + Narrow
        BY <1>1, <4>1, <4>2, SMTT(30)
      <4> DEFINE u == (q - 1) * Narrow
                 c == v + Narrow
      <4>4. x = u + c
        <5>1. u \in Nat /\ Wide = u + Narrow
          BY <4>1, <4>3
        <5> HIDE DEF u
        <5> QED
          BY <1>1, <2>1, <3>1, <5>1
      <4>5. c \in 0..Narrow - 1
        BY <1>1, <2>1, <2>3
      <4>6. ((q - 1) * Narrow + c) % Narrow = c
        <5> HIDE DEF c
        <5>1. \A p \in Nat : (p * Narrow + c) % Narrow = c
          BY <1>1, <4>5, RemainderIs
        <5> QED
          BY <4>2, <5>1
      <4> QED
        BY <4>4, <4>6
    <3> HIDE DEF x, y
    <3>3. Signed(y, Narrow) = v
      BY <1>1, <2>1, <2>3, <3>2 DEF Signed
    <3> QED
      BY <2>2, <3>1, <3>3
  <2>4. CASE ~(v < 0)
    <3>1. v \in 0..Narrow - 1 /\ v \in 0..Wide - 1
      BY <1>1, <2>1, <2>4
    <3>2. x = v
      BY <1>1, <3>1, RemainderIs
    <3>3. y = v
      <4>1. v % Narrow = v
        BY <1>1, <3>1, RemainderIs
      <4> QED
        BY <3>2, <4>1
    <3> HIDE DEF x, y
    <3>4. Signed(y, Narrow) = v
      BY <2>1, <3>3 DEF Signed
    <3> QED
      BY <2>2, <3>1, <3>2, <3>4
  <2> QED
    BY <2>3, <2>4
<1>6. CASE kind = "bool"
  <2>1. v \in BOOLEAN
    BY <1>6 DEF ScalarValues
  <2>2. 0 \in 0..Wide - 1 /\ 1 \in 0..Wide - 1
    BY <1>1
  <2>3. PutVarint(0) = <<0>> /\ PutVarint(1) = <<1>> /\ SovPb(0) = 1 /\ SovPb(1) = 1
    BY <2>2, OneByte
  <2>4. /\ PutScalar(kind, TRUE) = <<1>> /\ PutScalar(kind, FALSE) = <<0>>
        /\ SizeScalar(kind, v) = 1
    BY <1>6 DEF PutScalar, SizeScalar
  <2>5. Converted(kind, 1) = TRUE /\ Converted(kind, 0) = FALSE
    <3>1. (1 # 0) = TRUE /\ (0 # 0) = FALSE
      OBVIOUS
    <3>2. \A x : Converted(kind, x) = (x # 0)
      BY <1>6, Zenon DEF Converted
    <3> QED
      BY <3>1, <3>2, Zenon
  <2> QED
    BY <2>1, <2>2, <2>3, <2>4, <2>5
<1> QED
  BY <1>2, <1>3, <1>4, <1>5, <1>6 DEF ScalarKinds

(* A value of every type is written in the bytes that Size says, for which *)
(* MarshalToSizedBuffer has room, and read back from them, a negative one  *)
(* of 32 bits from its ten bytes, too.                                     *)
THEOREM ScalarsAreReadBack ==
  ASSUME NEW kind \in ScalarKinds, NEW v \in ScalarValues(kind),
         NEW pre \in Seq(Bytes), NEW post \in Seq(Bytes)
  PROVE  /\ PutScalar(kind, v) \in Seq(Bytes)
         /\ Len(PutScalar(kind, v)) = SizeScalar(kind, v)
         /\ Scalar(kind, pre \o PutScalar(kind, v) \o post, Len(pre) + 1)
              = Got(v, Len(pre) + 1 + Len(PutScalar(kind, v)))
         /\ \A n \in 0..Len(PutScalar(kind, v)) - 1 :
              Scalar(kind, pre \o SubSeq(PutScalar(kind, v), 1, n), Len(pre) + 1) = Bad("EOF")
<1> DEFINE bytes == PutScalar(kind, v)
           at == Len(pre) + 1
           Back(buf) == Scalar(kind, buf, at) = Got(v, at + Len(bytes))
           Short(buf) == Scalar(kind, buf, at) = Bad("EOF")
<1>1. CASE kind # "fixed64"
  <2>1. PICK x \in 0..Wide - 1 :
          /\ bytes = PutVarint(x) /\ SizeScalar(kind, v) = SovPb(x)
          /\ Converted(kind, x) = v
    BY <1>1, WrittenAsVarint
  <2> HIDE DEF bytes
  <2>2. /\ bytes \in Seq(Bytes) /\ Len(bytes) = SovPb(x)
        /\ Varint(pre \o bytes \o post, at) = Got(x, at + SovPb(x))
        /\ \A n \in 0..SovPb(x) - 1 : Varint(pre \o SubSeq(bytes, 1, n), at) = Bad("EOF")
    BY <2>1, VarintsAreReadBack
  <2> HIDE DEF at
  <2>3. \A buf : Varint(buf, at) = Got(x, at + Len(bytes)) => Back(buf)
    BY <1>1, <2>1 DEF Scalar, Then, Got, OK
  <2>4. \A buf : Varint(buf, at) = Bad("EOF") => Short(buf)
    BY <1>1 DEF Scalar, Then, Bad, OK
  <2>5. Back(pre \o bytes \o post)
    BY <2>2, <2>3
  <2>6. \A n \in 0..Len(bytes) - 1 : Short(pre \o SubSeq(bytes, 1, n))
    <3> HIDE DEF Short
    <3> QED
      BY <2>2, <2>4
  <2> QED
    BY <2>1, <2>2, <2>5, <2>6 DEF bytes, at
<1>2. CASE kind = "fixed64"
  <2>1. bytes = v /\ v \in Seq(Bytes) /\ Len(v) = 8 /\ SizeScalar(kind, v) = 8
    BY <1>2 DEF PutScalar, SizeScalar, ScalarValues
  <2>2. Len(pre) \in Nat /\ at \in Nat /\ at > 0
    BY LenProperties
  <2> HIDE DEF bytes, at
  <2>3. \A buf : Scalar(kind, buf, at) = IF at + 7 > Len(buf) THEN Bad("EOF")
                                         ELSE Got(SubSeq(buf, at, at + 7), at + 8)
    BY <1>2 DEF Scalar
  <2>4. /\ StandsAt(v, pre \o v \o post, at) /\ at + 8 - 1 <= Len(pre \o v \o post)
        /\ \A n \in 0..8 - 1 : Len(pre \o SubSeq(v, 1, n)) < at + 8 - 1
                               /\ StandsAt(v, pre \o SubSeq(v, 1, n), at)
    BY <2>1, InTheMiddle DEF at
  <2>5. Back(pre \o v \o post)
    <3> DEFINE buf == pre \o v \o post
    <3>1. /\ buf \in Seq(Bytes) /\ Len(buf) \in Nat /\ at + 8 - 1 <= Len(buf)
          /\ \A i \in 1..8 : at + i - 1 <= Len(buf) => buf[at + i - 1] = v[i]
      BY <2>1, <2>4, LenProperties DEF StandsAt
    <3> HIDE DEF buf
    <3> DEFINE cut == SubSeq(buf, at, at + 7)
    <3>2. \A i \in at..at + 7 : buf[i] \in Bytes
      <4> SUFFICES ASSUME NEW i \in at..at + 7 PROVE buf[i] \in Bytes
        OBVIOUS
      <4>1. i \in 1..Len(buf)
        BY <2>2, <3>1
      <4> QED
        BY <3>1, <4>1, ElementOfSeq
    <3>3. /\ cut \in Seq(Bytes) /\ Len(cut) = IF at <= at + 7 THEN at + 7 - at + 1 ELSE 0
          /\ \A i \in 1..at + 7 - at + 1 : cut[i] = buf[at + i - 1]
      <4>1. at \in Int /\ at + 7 \in Int
        BY <2>2
      <4> QED
        BY <3>2, <4>1, SubSeqProperties
    <3> HIDE DEF cut
    <3>4. Len(cut) = 8 /\ \A i \in 1..8 : cut[i] = v[i]
      <4>1. at + 7 - at + 1 = 8 /\ at <= at + 7
        BY <2>2
      <4>2. \A i \in 1..8 : at + i - 1 <= Len(buf)
        BY <2>2, <3>1
      <4> QED
        BY <3>1, <3>3, <4>1, <4>2
    <3>5. cut = v
      BY <2>1, <3>3, <3>4, SeqEqual
    <3>6. ~(at + 7 > Len(buf))
      BY <2>2, <3>1
    <3>7. Scalar(kind, buf, at) = Got(v, at + 8)
      BY <2>3, <3>5, <3>6 DEF cut
    <3> QED
      BY <2>1, <3>7 DEF buf
  <2>6. \A n \in 0..8 - 1 : Short(pre \o SubSeq(v, 1, n))
    <3> SUFFICES ASSUME NEW n \in 0..8 - 1 PROVE Short(pre \o SubSeq(v, 1, n))
      OBVIOUS
    <3> DEFINE buf == pre \o SubSeq(v, 1, n)
    <3>1. Len(buf) \in Nat /\ Len(buf) < at + 8 - 1
      BY <2>4, LenProperties DEF StandsAt
    <3> HIDE DEF buf
    <3>2. at + 7 > Len(buf)
      BY <2>2, <3>1
    <3>3. Short(buf)
      BY <2>3, <3>2
    <3> QED
      BY <3>3 DEF buf
  <2>7. v \in Seq(Bytes) /\ Back(pre \o v \o post)
        /\ \A n \in 0..Len(v) - 1 : Short(pre \o SubSeq(v, 1, n))
    BY <2>1, <2>5, <2>6
  <2> QED
    BY <2>1, <2>7 DEF bytes, at
<1> QED
  BY <1>1, <1>2
=============================================================================
