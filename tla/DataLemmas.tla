----------------------------- MODULE DataLemmas -----------------------------
(***************************************************************************)
(* Induction over the naturals, stated of a set so that it can be cited,   *)
(* and what it gives: sums of sequences, and sums over finite sets.        *)
(***************************************************************************)
EXTENDS Sums, Integers, FiniteSets, FiniteSetTheorems, SequenceTheorems,
        WellFoundedInduction, TLAPS

(* A set of naturals with an element has a least one.                      *)
LEMMA LeastNatural ==
  ASSUME NEW T, T \subseteq Nat, T # {}
  PROVE  \E x \in T : \A y \in T : x <= y
<1> DEFINE R == OpToRel(<, Nat)
<1>1. IsWellFoundedOn(R, Nat)
  BY NatLessThanWellFounded
<1>2. \A x, y \in Nat : <<y, x>> \in R <=> y < x
  BY DEF OpToRel
<1> HIDE DEF R
<1>3. PICK x \in T : \A y \in T : ~(<<y, x>> \in R)
  BY <1>1, WFMin
<1>4. ASSUME NEW y \in T PROVE x <= y
  <2>1. ~(y < x) /\ x \in Nat /\ y \in Nat
    BY <1>2, <1>3
  <2> QED
    BY <2>1
<1> QED
  BY <1>4

(* A set with zero and, with each natural, the next has all of them.       *)
LEMMA EveryNatural ==
  ASSUME NEW T, 0 \in T, \A n \in Nat : n \in T => n + 1 \in T
  PROVE  \A n \in Nat : n \in T
<1> DEFINE Rest == Nat \ T
<1> SUFFICES ASSUME Rest # {} PROVE FALSE
  OBVIOUS
<1>1. Rest \subseteq Nat
  OBVIOUS
<1>2. PICK x \in Rest : \A y \in Rest : x <= y
  <2> HIDE DEF Rest
  <2> QED
    BY <1>1, LeastNatural
<1>3. x \in Nat /\ x # 0
  OBVIOUS
<1>4. x - 1 \in Nat /\ x - 1 \in T
  BY <1>2, <1>3
<1> QED
  BY <1>3, <1>4

-----------------------------------------------------------------------------
(* What is computed from left to right, from z by the N functions of R, is *)
(* a function of how far it has come.                                      *)
Iterates(f, z, R, n) == f[0] = z /\ \A k \in 1..n : f[k] = R[k][f[k - 1]]

(* Any number of given steps from a given start can be iterated.           *)
LEMMA IterationExists ==
  ASSUME NEW S, NEW z \in S, NEW N \in Nat, NEW R \in [1..N -> [S -> S]]
  PROVE  \E f \in [0..N -> S] : Iterates(f, z, R, N)
<1> DEFINE T == {n \in Nat : n <= N => \E f \in [0..n -> S] : Iterates(f, z, R, n)}
<1>1. 0 \in T
  <2>1. Iterates([k \in 0..0 |-> z], z, R, 0)
    BY DEF Iterates
  <2> QED
    BY <2>1
<1>2. ASSUME NEW n \in Nat, n \in T PROVE n + 1 \in T
  <2>0. SUFFICES ASSUME n + 1 <= N
               PROVE  \E f \in [0..n + 1 -> S] : Iterates(f, z, R, n + 1)
    OBVIOUS
  <2>a. n <= N
    BY <2>0
  <2>1. PICK f \in [0..n -> S] : Iterates(f, z, R, n)
    BY <1>2, <2>a
  <2> DEFINE g == [k \in 0..n + 1 |-> IF k = n + 1 THEN R[n + 1][f[n]] ELSE f[k]]
  <2>2. n + 1 \in 1..N /\ f[n] \in S /\ R[n + 1][f[n]] \in S
    BY <2>0
  <2>3. g \in [0..n + 1 -> S]
    BY <2>1, <2>2
  <2>4. /\ g[0] = f[0] /\ g[n + 1] = R[n + 1][f[n]]
        /\ \A k \in 0..n : g[k] = f[k]
    OBVIOUS
  <2> HIDE DEF g
  <2>5. \A k \in 1..n + 1 : g[k] = R[k][g[k - 1]]
    <3> TAKE k \in 1..n + 1
    <3>1. CASE k = n + 1
      BY <2>4, <3>1
    <3>2. CASE k # n + 1
      <4>1. k \in 1..n /\ k \in 0..n /\ k - 1 \in 0..n
        BY <3>2
      <4> QED
        BY <2>1, <2>4, <4>1 DEF Iterates
    <3> QED
      BY <3>1, <3>2
  <2> QED
    BY <2>1, <2>3, <2>4, <2>5 DEF Iterates
<1>3. N \in T
  <2> HIDE DEF T
  <2> QED
    BY <1>1, <1>2, EveryNatural
<1> QED
  BY <1>3

(* Two functions that begin alike and go on alike are alike.               *)
GoAlike(f, g, n) == f[0] = g[0] /\ \A k \in 1..n : f[k - 1] = g[k - 1] => f[k] = g[k]
Alike(f, g, n) == \A k \in 0..n : f[k] = g[k]

(* Two functions that begin and go on alike are alike.                     *)
LEMMA SameIterations == \A N \in Nat : \A f, g : GoAlike(f, g, N) => Alike(f, g, N)
<1> SUFFICES ASSUME NEW N \in Nat, NEW f, NEW g, f[0] = g[0],
                    \A k \in 1..N : f[k - 1] = g[k - 1] => f[k] = g[k]
             PROVE  \A k \in 0..N : f[k] = g[k]
  BY DEF GoAlike, Alike
<1> DEFINE T == {n \in Nat : n <= N => f[n] = g[n]}
<1>1. 0 \in T
  OBVIOUS
<1>2. ASSUME NEW n \in Nat, n \in T PROVE n + 1 \in T
  <2>1. SUFFICES ASSUME n + 1 <= N PROVE f[n + 1] = g[n + 1]
    OBVIOUS
  <2>2. n + 1 \in 1..N /\ (n + 1) - 1 = n /\ n <= N
    BY <2>1
  <2> QED
    BY <1>2, <2>2
<1>3. \A n \in Nat : n \in T
  <2> HIDE DEF T
  <2> QED
    BY <1>1, <1>2, EveryNatural
<1> QED
  BY <1>3

-----------------------------------------------------------------------------
(* f holds the sums of the beginnings of s, up to the first n elements.    *)
SumsUpTo(f, s, n) == f[0] = 0 /\ \A k \in 1..n : f[k] = f[k - 1] + s[k]

(* There are such sums, they are naturals, and Total is the last of them.  *)
LEMMA TotalIsLast ==
  ASSUME NEW s \in Seq(Nat)
  PROVE  \E f \in [0..Len(s) -> Nat] : SumsUpTo(f, s, Len(s)) /\ Total(s) = f[Len(s)]
<1> DEFINE R == [k \in 1..Len(s) |-> [x \in Nat |-> x + s[k]]]
           Def(g) == [n \in 0..Len(s) |-> IF n = 0 THEN 0 ELSE g[n - 1] + s[n]]
<1>1. Len(s) \in Nat /\ \A k \in 1..Len(s) : s[k] \in Nat
  BY LenProperties, ElementOfSeq
<1>2. PICK f \in [0..Len(s) -> Nat] : Iterates(f, 0, R, Len(s))
  <2>1. R \in [1..Len(s) -> [Nat -> Nat]]
    BY <1>1
  <2> HIDE DEF R
  <2> QED
    BY <1>1, <2>1, IterationExists
<1>3. SumsUpTo(f, s, Len(s))
  <2> SUFFICES ASSUME NEW k \in 1..Len(s) PROVE f[k] = f[k - 1] + s[k]
    BY <1>2 DEF Iterates, SumsUpTo
  <2>1. k - 1 \in 0..Len(s)
    BY <1>1
  <2>2. f[k - 1] \in Nat
    BY <2>1
  <2>3. R[k][f[k - 1]] = f[k - 1] + s[k]
    BY <2>2
  <2> QED
    BY <1>2, <2>3 DEF Iterates
<1>4. f = Def(f)
  <2>1. \A n \in 0..Len(s) : f[n] = IF n = 0 THEN 0 ELSE f[n - 1] + s[n]
    BY <1>1, <1>3 DEF SumsUpTo
  <2> QED
    BY <2>1
<1> DEFINE upto == CHOOSE g : g = Def(g)
<1>5. upto = Def(upto)
  BY <1>4
<1>6. Total(s) = upto[Len(s)]
  BY DEF Total
<1> HIDE DEF upto
<1>7. upto[0] = 0 /\ \A k \in 1..Len(s) : upto[k] = upto[k - 1] + s[k]
  BY <1>1, <1>5
<1>8. \A k \in 0..Len(s) : f[k] = upto[k]
  <2>1. GoAlike(f, upto, Len(s))
    BY <1>3, <1>7 DEF SumsUpTo, GoAlike
  <2>2. Alike(f, upto, Len(s))
    BY <1>1, <2>1, SameIterations
  <2> QED
    BY <2>2 DEF Alike
<1> QED
  BY <1>1, <1>3, <1>6, <1>8

(* Whatever holds the sums of s has the total at its end.                  *)
LEMMA TotalOf ==
  ASSUME NEW s \in Seq(Nat), NEW g, g[0] = 0,
         \A k \in 1..Len(s) : g[k] = g[k - 1] + s[k]
  PROVE  Total(s) = g[Len(s)] /\ Total(s) \in Nat
<1>1. PICK f \in [0..Len(s) -> Nat] : SumsUpTo(f, s, Len(s)) /\ Total(s) = f[Len(s)]
  BY TotalIsLast
<1>2. Len(s) \in Nat
  BY LenProperties
<1>3. \A k \in 0..Len(s) : f[k] = g[k]
  <2>1. GoAlike(f, g, Len(s))
    BY <1>1 DEF SumsUpTo, GoAlike
  <2>2. Alike(f, g, Len(s))
    BY <1>2, <2>1, SameIterations
  <2> QED
    BY <2>2 DEF Alike
<1> QED
  BY <1>1, <1>2, <1>3

(* What is sent down a channel adds to its total, what is taken from its   *)
(* head is taken off.                                                      *)
LEMMA Totals ==
  /\ Total(<<>>) = 0
  /\ \A s \in Seq(Nat) : Total(s) \in Nat
  /\ \A s \in Seq(Nat), x \in Nat : Total(Append(s, x)) = Total(s) + x
  /\ \A s \in Seq(Nat) : s # <<>> => Total(s) = Head(s) + Total(Tail(s))
<1>1. Total(<<>>) = 0
  <2>1. /\ <<>> \in Seq(Nat) /\ Len(<<>>) = 0
        /\ [k \in 0..0 |-> 0][0] = 0
    BY EmptySeq
  <2>2. \A k \in 1..Len(<<>>) : [j \in 0..0 |-> 0][k] = [j \in 0..0 |-> 0][k - 1] + <<>>[k]
    BY <2>1
  <2> QED
    BY <2>1, <2>2, TotalOf
<1>2. ASSUME NEW s \in Seq(Nat) PROVE Total(s) \in Nat
  BY TotalIsLast
<1>3. ASSUME NEW s \in Seq(Nat), NEW x \in Nat PROVE Total(Append(s, x)) = Total(s) + x
  <2>1. PICK f \in [0..Len(s) -> Nat] : SumsUpTo(f, s, Len(s)) /\ Total(s) = f[Len(s)]
    BY TotalIsLast
  <2> DEFINE t == Append(s, x)
             g == [k \in 0..Len(s) + 1 |-> IF k <= Len(s) THEN f[k] ELSE f[Len(s)] + x]
  <2>2. /\ t \in Seq(Nat) /\ Len(t) = Len(s) + 1 /\ Len(s) \in Nat
        /\ t[Len(s) + 1] = x /\ \A k \in 1..Len(s) : t[k] = s[k]
    BY AppendProperties, LenProperties
  <2>3. /\ g[0] = f[0] /\ g[Len(s) + 1] = f[Len(s)] + x
        /\ \A k \in 0..Len(s) : g[k] = f[k]
    BY <2>2
  <2> HIDE DEF t, g
  <2>4. \A k \in 1..Len(t) : g[k] = g[k - 1] + t[k]
    <3> TAKE k \in 1..Len(t)
    <3>1. CASE k = Len(s) + 1
      BY <2>2, <2>3, <3>1
    <3>2. CASE k # Len(s) + 1
      <4>1. k \in 1..Len(s) /\ k \in 0..Len(s) /\ k - 1 \in 0..Len(s)
        BY <2>2, <3>2
      <4> QED
        BY <2>1, <2>2, <2>3, <4>1 DEF SumsUpTo
    <3> QED
      BY <3>1, <3>2
  <2>5. Total(t) = g[Len(t)]
    BY <2>1, <2>2, <2>3, <2>4, TotalOf DEF SumsUpTo
  <2> QED
    BY <2>1, <2>2, <2>3, <2>5 DEF t
<1>4. ASSUME NEW s \in Seq(Nat), s # <<>> PROVE Total(s) = Head(s) + Total(Tail(s))
  <2>1. PICK f \in [0..Len(s) -> Nat] : SumsUpTo(f, s, Len(s)) /\ Total(s) = f[Len(s)]
    BY TotalIsLast
  <2> DEFINE t == Tail(s)
             g == [k \in 0..Len(s) - 1 |-> f[k + 1] - s[1]]
  <2>2. /\ t \in Seq(Nat) /\ Len(t) = Len(s) - 1 /\ Len(s) \in Nat /\ Len(s) >= 1
        /\ Head(s) = s[1] /\ s[1] \in Nat
        /\ \A k \in 1..Len(t) : t[k] = s[k + 1]
    <3>1. Len(s) \in Nat /\ Len(s) >= 1
      BY <1>4, LenProperties, EmptySeq
    <3> QED
      BY <1>4, <3>1, HeadTailProperties, ElementOfSeq
  <2>3. \A k \in 0..Len(s) - 1 : g[k] = f[k + 1] - s[1]
    OBVIOUS
  <2> HIDE DEF t, g
  <2>4. g[0] = 0
    BY <2>1, <2>2, <2>3 DEF SumsUpTo
  <2>5. \A k \in 1..Len(t) : g[k] = g[k - 1] + t[k]
    <3> TAKE k \in 1..Len(t)
    <3>1. /\ k + 1 \in 1..Len(s) /\ k \in 0..Len(s) - 1 /\ k - 1 \in 0..Len(s) - 1
          /\ k + 1 \in 0..Len(s) /\ k \in 0..Len(s)
      BY <2>2
    <3>2. f[k + 1] = f[k] + s[k + 1]
      <4>1. f[k + 1] = f[(k + 1) - 1] + s[k + 1]
        BY <2>1, <3>1 DEF SumsUpTo
      <4> QED
        BY <4>1
    <3>3. g[k] = f[k + 1] - s[1]
      BY <2>3, <3>1
    <3>4. g[k - 1] = f[k] - s[1]
      <4>1. g[k - 1] = f[(k - 1) + 1] - s[1]
        BY <2>3, <3>1
      <4> QED
        BY <4>1
    <3>5. f[k + 1] \in Nat /\ f[k] \in Nat /\ t[k] = s[k + 1] /\ t[k] \in Nat
      BY <2>1, <2>2, <3>1, ElementOfSeq
    <3>6. s[1] \in Nat
      BY <2>2
    <3>7. g[k] = f[k] + t[k] - s[1]
      BY <3>2, <3>3, <3>5, <3>6, SMTT(30)
    <3>8. g[k - 1] + t[k] = f[k] - s[1] + t[k]
      BY <3>4, <3>5, <3>6
    <3> QED
      BY <3>5, <3>6, <3>7, <3>8
  <2>6. Total(t) = g[Len(t)]
    BY <2>2, <2>4, <2>5, TotalOf
  <2>7. g[Len(t)] = f[Len(s)] - s[1]
    <3>1. Len(t) \in 0..Len(s) - 1 /\ Len(t) + 1 = Len(s)
      BY <2>2
    <3> QED
      BY <2>3, <3>1
  <2>8. f[Len(s)] \in Nat
    BY <2>1, <2>2
  <2> QED
    BY <2>1, <2>2, <2>6, <2>7, <2>8 DEF t
<1> QED
  BY <1>1, <1>2, <1>3, <1>4

-----------------------------------------------------------------------------
(* The sum of a function over a finite set, counted in units.              *)
Units(f) == UNION {{u} \X (1..f[u]) : u \in DOMAIN f}
SumOf(f) == Cardinality(Units(f))

(* The first n numbers.                                                    *)
LEMMA FirstNumbers == \A n \in Nat : IsFiniteSet(1..n) /\ Cardinality(1..n) = n
<1> DEFINE T == {n \in Nat : IsFiniteSet(1..n) /\ Cardinality(1..n) = n}
<1>1. 0 \in T
  <2>1. 1..0 = {}
    OBVIOUS
  <2> QED
    BY <2>1, FS_EmptySet
<1>2. ASSUME NEW n \in Nat, n \in T PROVE n + 1 \in T
  <2> DEFINE S == 1..n
  <2>1. 1..n + 1 = S \cup {n + 1} /\ n + 1 \notin S
    OBVIOUS
  <2>2. IsFiniteSet(S) /\ Cardinality(S) = n
    BY <1>2
  <2> HIDE DEF S
  <2>3. IsFiniteSet(S \cup {n + 1}) /\ Cardinality(S \cup {n + 1}) = n + 1
    <3>1. PICK x : x = n + 1
      OBVIOUS
    <3>2. IsFiniteSet(S) /\ x \notin S
      BY <2>1, <2>2, <3>1
    <3>3. /\ IsFiniteSet(S \cup {x})
          /\ x \notin S => Cardinality(S \cup {x}) = Cardinality(S) + 1
      BY <3>2, FS_AddElement
    <3> QED
      BY <2>2, <3>1, <3>2, <3>3
  <2>4. IsFiniteSet(1..n + 1) /\ Cardinality(1..n + 1) = n + 1
    BY <2>1, <2>3, Zenon
  <2> QED
    BY <2>4
<1>3. \A n \in Nat : n \in T
  <2> HIDE DEF T
  <2> QED
    BY <1>1, <1>2, EveryNatural
<1> QED
  BY <1>3

(* A function that is nowhere more than zero has no units.                 *)
LEMMA SumOfZero ==
  ASSUME NEW f, \A u \in DOMAIN f : f[u] = 0
  PROVE  SumOf(f) = 0
<1>1. Units(f) = {}
  BY DEF Units
<1> QED
  BY <1>1, FS_EmptySet DEF SumOf

(* The units of naturals over a finite set are finitely many.              *)
LEMMA SumOfType ==
  ASSUME NEW S, IsFiniteSet(S), NEW f \in [S -> Nat]
  PROVE  IsFiniteSet(Units(f)) /\ SumOf(f) \in Nat
<1> DEFINE Of == [u \in S |-> {u} \X (1..f[u])]
           Img == {Of[u] : u \in S}
<1>1. IsFiniteSet(Img)
  <2>1. Of \in Surjection(S, Img)
    BY DEF Surjection
  <2> QED
    BY <2>1, FS_Surjection
<1>2. \A T \in Img : IsFiniteSet(T)
  <2> SUFFICES ASSUME NEW u \in S PROVE IsFiniteSet({u} \X (1..f[u]))
    OBVIOUS
  <2>1. IsFiniteSet({u})
    BY FS_Singleton
  <2>2. IsFiniteSet(1..f[u])
    <3>1. f[u] \in Nat
      OBVIOUS
    <3> QED
      BY <3>1, FirstNumbers, Zenon
  <2> QED
    BY <2>1, <2>2, FS_Product
<1>3. Units(f) = UNION Img
  BY DEF Units
<1>4. IsFiniteSet(Units(f))
  <2> HIDE DEF Img
  <2> QED
    BY <1>1, <1>2, <1>3, FS_UNION
<1> QED
  BY <1>4, FS_CardinalityType DEF SumOf

(* Where two functions differ in one place, so do their sums.              *)
LEMMA SumOfChange ==
  ASSUME NEW S, IsFiniteSet(S), NEW f \in [S -> Nat], NEW g \in [S -> Nat],
         NEW u \in S, \A v \in S : v # u => g[v] = f[v]
  PROVE  SumOf(g) + f[u] = SumOf(f) + g[u]
<1> DEFINE Rest == UNION {{v} \X (1..f[v]) : v \in S \ {u}}
<1>1. /\ Units(f) = Rest \cup ({u} \X (1..f[u])) /\ Rest \cap ({u} \X (1..f[u])) = {}
      /\ Units(g) = Rest \cup ({u} \X (1..g[u])) /\ Rest \cap ({u} \X (1..g[u])) = {}
  BY DEF Units
<1>2. IsFiniteSet(Rest)
  BY <1>1, SumOfType, FS_Subset
<1>3. ASSUME NEW n \in Nat
      PROVE  IsFiniteSet({u} \X (1..n)) /\ Cardinality({u} \X (1..n)) = n
  <2>1. IsFiniteSet({u}) /\ Cardinality({u}) = 1
    BY FS_Singleton
  <2>2. IsFiniteSet(1..n) /\ Cardinality(1..n) = n
    BY FirstNumbers, Zenon
  <2> DEFINE One == {u}
             Many == 1..n
  <2> HIDE DEF One, Many
  <2>3. /\ IsFiniteSet(One \X Many)
        /\ Cardinality(One \X Many) = Cardinality(One) * Cardinality(Many)
    <3>1. IsFiniteSet(One) /\ IsFiniteSet(Many)
      BY <2>1, <2>2 DEF One, Many
    <3> QED
      BY <3>1, FS_Product
  <2>4. Cardinality(One) = 1 /\ Cardinality(Many) = n
    BY <2>1, <2>2 DEF One, Many
  <2>5. Cardinality(One \X Many) = n
    BY <2>3, <2>4
  <2> QED
    BY <2>3, <2>5 DEF One, Many
<1> HIDE DEF Rest
<1>4. Cardinality(Rest) \in Nat /\ Cardinality({}) = 0
  BY <1>2, FS_CardinalityType, FS_EmptySet
<1>5. ASSUME NEW n \in Nat, Rest \cap ({u} \X (1..n)) = {}
      PROVE  Cardinality(Rest \cup ({u} \X (1..n))) = Cardinality(Rest) + n
  <2> DEFINE Mine == {u} \X (1..n)
  <2> HIDE DEF Mine
  <2>1. IsFiniteSet(Mine) /\ Cardinality(Mine) = n /\ Rest \cap Mine = {}
    BY <1>3, <1>5 DEF Mine
  <2>2. Cardinality(Rest \cup Mine)
          = Cardinality(Rest) + Cardinality(Mine) - Cardinality(Rest \cap Mine)
    BY <1>2, <2>1, FS_Union
  <2>3. Cardinality(Rest \cap Mine) = 0
    BY <1>4, <2>1, Zenon
  <2>4. Cardinality(Rest \cup Mine) = Cardinality(Rest) + n
    BY <1>4, <2>1, <2>2, <2>3
  <2> QED
    BY <2>4 DEF Mine
<1>6. SumOf(f) = Cardinality(Rest) + f[u] /\ SumOf(g) = Cardinality(Rest) + g[u]
  <2>1. f[u] \in Nat /\ g[u] \in Nat
    OBVIOUS
  <2> QED
    BY <1>1, <1>5, <2>1 DEF SumOf
<1> QED
  BY <1>4, <1>6
=============================================================================
