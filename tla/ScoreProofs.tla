---------------------------- MODULE ScoreProofs -----------------------------
(***************************************************************************)
(* Theorems about a score that is read from any document, and corrected    *)
(* by any edits; and about a cursor that moves through its revisions.      *)
(*                                                                         *)
(* A score is read, and its voices are scanned, by folds over sequences.   *)
(* Their steps are made explicit first: a fold over a sequence is the      *)
(* last of a chain of values, each of which is the step taken from the     *)
(* one before; what one step keeps, the fold keeps.                        *)
(*                                                                         *)
(* The argument for the chords: the reader numbers events as it comes to   *)
(* them, and an event joins the chord of the one before it, with the next  *)
(* index; so the events of a chord stand together and their indices grow,  *)
(* and edits, which remove events and never move them, keep it so.         *)
(*                                                                         *)
(* The argument for the overlaps: the scan remembers the event that ends   *)
(* last. Of two events that overlap, the later is at fault with that one,  *)
(* unless they are of one chord; then the chord stands between the two,    *)
(* and another pair is at fault.                                           *)
(*                                                                         *)
(* The argument for the cursor: the points of a plan are ordered by their  *)
(* beginnings, each as far along as there are beginnings before it; a      *)
(* state is made of the points of one plan, and keeps its revision.        *)
(***************************************************************************)
EXTENDS ReviewNavigation, FiniteSetTheorems, FunctionTheorems, SequenceTheorems,
        WellFoundedInduction, TLAPS

-----------------------------------------------------------------------------
(* Counting, ranking and folding.                                          *)

\* What holds of 0, and of each number after one it holds of, holds up to n.
LEMMA CountsUpTo ==
  ASSUME NEW n \in Nat, NEW T, 0 \in T, \A i \in 0 .. n - 1 : i \in T => i + 1 \in T
  PROVE  \A i \in 0 .. n : i \in T
<1> DEFINE R == {ss \in Nat \X Nat : ss[1] < ss[2]}
           B == {i \in 0 .. n : i \notin T}
<1>1. IsWellFoundedOn(R, Nat)
  BY NatLessThanWellFounded DEF OpToRel
<1>2. ASSUME B # {} PROVE FALSE
  <2>1. B \subseteq Nat
    OBVIOUS
  <2>2. PICK m \in B : \A k \in B : ~ (<<k, m>> \in R)
    <3> HIDE DEF R, B
    <3> QED BY <1>1, <1>2, <2>1, WFMin
  <2>3. m # 0 /\ m \in Nat /\ m <= n
    OBVIOUS
  <2>4. m - 1 \in 0 .. n - 1 /\ m - 1 \notin T
    BY <2>3
  <2>5. m - 1 \in B /\ m - 1 \in Nat /\ m - 1 < m
    BY <2>3, <2>4
  <2>6. <<m - 1, m>> \in R
    BY <2>3, <2>5
  <2> QED BY <2>2, <2>5, <2>6
<1> QED BY <1>2

\* The greatest of some numbers is one of them; of those up to i it is i.
LEMMA MaxOfNumbers ==
  ASSUME NEW n \in Nat, NEW s \in SUBSET (1 .. n), s # {}
  PROVE  Max(s) \in s /\ \A k \in s : k <= Max(s)
<1> DEFINE T == {i \in 0 .. n : s \cap (1 .. i) = {} \/ \E x \in s : \A y \in s \cap (1 .. i) : x >= y}
<1>1. 0 \in T
  OBVIOUS
<1>2. ASSUME NEW i \in 0 .. n - 1, i \in T PROVE i + 1 \in T
  <2>1. CASE i + 1 \in s
    BY <2>1
  <2>2. CASE i + 1 \notin s
    <3>1. s \cap (1 .. i + 1) = s \cap (1 .. i)
      BY <2>2
    <3> QED BY <1>2, <3>1
  <2> QED BY <2>1, <2>2
<1>3. n \in T
  <2> HIDE DEF T
  <2> QED BY <1>1, <1>2, CountsUpTo
<1>4. \E x \in s : \A y \in s : x >= y
  BY <1>3
<1>5. Max(s) \in s /\ \A y \in s : Max(s) >= y
  BY <1>4 DEF Max
<1> QED BY <1>5

\* The greatest of the numbers up to i is i, and the others are those up to i - 1.
LEMMA MaxOfInterval ==
  ASSUME NEW i \in Nat, i > 0
  PROVE  Max(1 .. i) = i /\ (1 .. i) \ {i} = 1 .. i - 1
<1>1. 1 .. i \in SUBSET (1 .. i) /\ 1 .. i # {} /\ i \in 1 .. i
  OBVIOUS
<1>2. Max(1 .. i) \in 1 .. i /\ \A k \in 1 .. i : k <= Max(1 .. i)
  BY <1>1, MaxOfNumbers
<1>3. Max(1 .. i) <= i /\ i <= Max(1 .. i) /\ Max(1 .. i) \in Nat
  BY <1>1, <1>2
<1>4. Max(1 .. i) = i
  BY <1>3
<1> QED BY <1>4

\* What a fold over the numbers up to n, from the least, is for each set of them.
IsFold(f, n, R, base, step) ==
  /\ f \in [SUBSET (1 .. n) -> R]
  /\ \A s \in SUBSET (1 .. n) :
       f[s] = IF s = {} THEN base ELSE step[<<f[s \ {Max(s)}], Max(s)>>]

\* There is a fold of any step that stays within a set.
LEMMA FoldExists ==
  ASSUME NEW n \in Nat, NEW R, NEW base \in R, NEW step \in [R \X (1 .. n) -> R]
  PROVE  \E f : IsFold(f, n, R, base, step)
<1> DEFINE Good(k, f) == \A s \in SUBSET (1 .. k) :
             f[s] = IF s = {} THEN base ELSE step[<<f[s \ {Max(s)}], Max(s)>>]
           T == {k \in 0 .. n : \E f \in [SUBSET (1 .. k) -> R] : Good(k, f)}
<1>1. 0 \in T
  <2>1. 1 .. 0 = {}
    OBVIOUS
  <2>2. [s \in {{}} |-> base] \in [SUBSET (1 .. 0) -> R]
    BY <2>1
  <2>3. Good(0, [s \in {{}} |-> base])
    BY <2>1
  <2>4. \E f \in [SUBSET (1 .. 0) -> R] : Good(0, f)
    <3> HIDE DEF Good
    <3> QED BY <2>2, <2>3
  <2>5. 0 \in 0 .. n
    OBVIOUS
  <2> HIDE DEF Good
  <2> QED BY <2>4, <2>5
<1>2. ASSUME NEW k \in 0 .. n - 1, k \in T PROVE k + 1 \in T
  <2>1. PICK f \in [SUBSET (1 .. k) -> R] : Good(k, f)
    BY <1>2
  <2> DEFINE g == [s \in SUBSET (1 .. k + 1) |->
                     IF k + 1 \in s THEN step[<<f[s \ {k + 1}], k + 1>>] ELSE f[s]]
  <2>2. \A s \in SUBSET (1 .. k + 1) : s \ {k + 1} \in SUBSET (1 .. k)
    OBVIOUS
  <2>3. \A s \in SUBSET (1 .. k + 1) : k + 1 \notin s => s \in SUBSET (1 .. k)
    OBVIOUS
  <2>4. k + 1 \in 1 .. n
    OBVIOUS
  <2>5. g \in [SUBSET (1 .. k + 1) -> R]
    <3>1. ASSUME NEW s \in SUBSET (1 .. k + 1) PROVE g[s] \in R
      <4>1. CASE k + 1 \in s
        <5>1. f[s \ {k + 1}] \in R
          BY <2>2
        <5>2. <<f[s \ {k + 1}], k + 1>> \in R \X (1 .. n)
          BY <2>4, <5>1
        <5> QED BY <4>1, <5>2
      <4>2. CASE k + 1 \notin s
        BY <2>3, <4>2
      <4> QED BY <4>1, <4>2
    <3> QED BY <3>1
  <2>6. ASSUME NEW s \in SUBSET (1 .. k + 1)
        PROVE  g[s] = IF s = {} THEN base ELSE step[<<g[s \ {Max(s)}], Max(s)>>]
    <3>1. CASE k + 1 \in s
      <4>1. Max(s) = k + 1
        <5>1. \A y \in s : k + 1 >= y
          OBVIOUS
        <5>2. \A x \in s : (\A y \in s : x >= y) => x = k + 1
          BY <3>1
        <5> QED BY <3>1, <5>1, <5>2 DEF Max
      <4>2. g[s \ {k + 1}] = f[s \ {k + 1}]
        BY <2>2
      <4> QED BY <3>1, <4>1, <4>2
    <3>2. CASE k + 1 \notin s
      <4>1. s \in SUBSET (1 .. k) /\ g[s] = f[s]
        BY <2>3, <3>2
      <4>2. g[s \ {Max(s)}] = f[s \ {Max(s)}]
        BY <2>3, <3>2
      <4> QED BY <2>1, <4>1, <4>2
    <3> QED BY <3>1, <3>2
  <2>7. k + 1 \in 0 .. n
    OBVIOUS
  <2>8. Good(k + 1, g)
    BY <2>6
  <2> HIDE DEF g, Good
  <2> QED BY <2>5, <2>7, <2>8
<1>3. n \in T
  <2> HIDE DEF T
  <2> QED BY <1>1, <1>2, CountsUpTo
<1> QED BY <1>3 DEF IsFold

\* Some numbers have a least.
LEMMA LeastOf ==
  ASSUME NEW B \in SUBSET Nat, B # {}
  PROVE  \E m \in B : \A k \in B : m <= k
<1> DEFINE R == {ss \in Nat \X Nat : ss[1] < ss[2]}
<1>1. IsWellFoundedOn(R, Nat)
  BY NatLessThanWellFounded DEF OpToRel
<1>2. PICK m \in B : \A k \in B : ~ (<<k, m>> \in R)
  <2> HIDE DEF R
  <2> QED BY <1>1, WFMin
<1>3. \A k \in B : ~(k < m)
  BY <1>2
<1> QED BY <1>3

\* What is left of a sequence when one of its elements is removed.
LEMMA RemovedAt ==
  ASSUME NEW X, NEW es \in Seq(X), NEW i \in 1 .. Len(es)
  PROVE  /\ RemoveAt(es, i) \in Seq(X) /\ Len(RemoveAt(es, i)) = Len(es) - 1
         /\ \A j \in 1 .. Len(es) - 1 : RemoveAt(es, i)[j] = es[IF j < i THEN j ELSE j + 1]
<1> DEFINE left  == SubSeq(es, 1, i - 1)
           right == SubSeq(es, i + 1, Len(es))
<1>1. left \in Seq(X) /\ Len(left) = i - 1 /\ \A j \in 1 .. i - 1 : left[j] = es[j]
  OBVIOUS
<1>2. /\ right \in Seq(X) /\ Len(right) = Len(es) - i
      /\ \A j \in 1 .. Len(es) - i : right[j] = es[i + j]
  OBVIOUS
<1>3. RemoveAt(es, i) = left \o right
  BY DEF RemoveAt
<1>4. /\ left \o right \in Seq(X) /\ Len(left \o right) = Len(left) + Len(right)
      /\ \A j \in 1 .. Len(left) + Len(right) :
           (left \o right)[j] = IF j <= Len(left) THEN left[j] ELSE right[j - Len(left)]
  <2> HIDE DEF left, right
  <2> QED BY <1>1, <1>2, ConcatProperties
<1>5. \A j \in i .. Len(es) - 1 : j - (i - 1) \in 1 .. Len(es) - i /\ i + (j - (i - 1)) = j + 1
  OBVIOUS
<1>6. ASSUME NEW j \in 1 .. Len(es) - 1
      PROVE  RemoveAt(es, i)[j] = es[IF j < i THEN j ELSE j + 1]
  <2>1. CASE j < i
    <3> HIDE DEF left, right
    <3> QED BY <1>1, <1>2, <1>3, <1>4, <2>1
  <2>2. CASE j >= i
    <3>1. j \in i .. Len(es) - 1 /\ ~(j <= i - 1)
      BY <2>2
    <3>2. right[j - (i - 1)] = es[j + 1]
      <4> HIDE DEF right
      <4> QED BY <1>2, <1>5, <3>1
    <3>3. (left \o right)[j] = right[j - (i - 1)]
      <4>1. j \in 1 .. Len(left) + Len(right)
        <5> HIDE DEF left, right
        <5> QED BY <1>1, <1>2
      <4> HIDE DEF left, right
      <4> QED BY <1>1, <1>4, <3>1, <4>1
    <3>4. ~(j < i)
      BY <2>2
    <3> HIDE DEF left, right
    <3> QED BY <1>3, <3>2, <3>3, <3>4
  <2> QED BY <2>1, <2>2
<1> HIDE DEF left, right
<1> QED BY <1>1, <1>2, <1>3, <1>4, <1>6

\* How many members of a set come before each, in a strict total order of it.
Ranks(S, L) == [x \in S |-> Cardinality({y \in S : <<y, x>> \in L})]

StrictOrder(S, L) ==
  /\ \A x \in S : <<x, x>> \notin L
  /\ \A x, y, z \in S : <<x, y>> \in L /\ <<y, z>> \in L => <<x, z>> \in L
  /\ \A x, y \in S : x # y => <<x, y>> \in L \/ <<y, x>> \in L

\* The ranks of a set are the numbers from 0, and grow with the order.
LEMMA Ranked ==
  ASSUME NEW S, IsFiniteSet(S), NEW L, StrictOrder(S, L)
  PROVE  /\ Cardinality(S) \in Nat
         /\ \A x \in S : Ranks(S, L)[x] \in 0 .. Cardinality(S) - 1
         /\ \A x, y \in S : <<x, y>> \in L => Ranks(S, L)[x] < Ranks(S, L)[y]
         /\ \A i \in 1 .. Cardinality(S) : \E x \in S : Ranks(S, L)[x] = i - 1
<1> DEFINE rank == Ranks(S, L)
<1>0. \A x \in S : rank[x] = Cardinality({y \in S : <<y, x>> \in L})
  BY DEF Ranks
<1> HIDE DEF rank
<1> DEFINE Preds(x) == {y \in S : <<y, x>> \in L}
           n == Cardinality(S)
<1>1. n \in Nat
  BY FS_CardinalityType
<1>2. ASSUME NEW x \in S
      PROVE  IsFiniteSet(Preds(x)) /\ rank[x] = Cardinality(Preds(x)) /\ rank[x] \in 0 .. n - 1
  <2>1. Preds(x) \subseteq S /\ Preds(x) # S
    BY DEF StrictOrder
  <2>2. /\ IsFiniteSet(Preds(x)) /\ Cardinality(Preds(x)) <= n
        /\ (Cardinality(S) = Cardinality(Preds(x)) => S = Preds(x))
    <3> HIDE DEF Preds
    <3> QED BY <2>1, FS_Subset
  <2>3. Cardinality(Preds(x)) \in Nat
    <3> HIDE DEF Preds
    <3> QED BY <2>2, FS_CardinalityType
  <2>4. rank[x] = Cardinality(Preds(x))
    BY <1>0
  <2> HIDE DEF Preds
  <2> QED BY <1>1, <2>1, <2>2, <2>3, <2>4
<1>3. ASSUME NEW x \in S, NEW y \in S, <<x, y>> \in L PROVE rank[x] < rank[y]
  <2>1. Preds(x) \subseteq Preds(y) /\ x \in Preds(y) /\ x \notin Preds(x)
    BY <1>3 DEF StrictOrder
  <2>2. Cardinality(Preds(x)) <= Cardinality(Preds(y))
        /\ (Cardinality(Preds(y)) = Cardinality(Preds(x)) => Preds(y) = Preds(x))
    <3> HIDE DEF Preds
    <3> QED BY <1>2, <2>1, FS_Subset
  <2> HIDE DEF Preds
  <2> QED BY <1>2, <2>1, <2>2
<1>4. \A i \in 1 .. n : \E x \in S : rank[x] = i - 1
  <2> DEFINE r == [x \in S |-> rank[x] + 1]
  <2>1. r \in [S -> 1 .. n]
    <3>1. \A x \in S : rank[x] \in 0 .. n - 1
      BY <1>2
    <3> HIDE DEF n
    <3> QED BY <1>1, <3>1
  <2>2. \A x, y \in S : r[x] = r[y] => x = y
    <3> SUFFICES ASSUME NEW x \in S, NEW y \in S, rank[x] + 1 = rank[y] + 1, x # y PROVE FALSE
      OBVIOUS
    <3>1. rank[x] < rank[y] \/ rank[y] < rank[x]
      BY <1>3 DEF StrictOrder
    <3>2. rank[x] \in 0 .. n - 1 /\ rank[y] \in 0 .. n - 1
      BY <1>2
    <3> HIDE DEF n
    <3> QED BY <1>1, <3>1, <3>2
  <2>3. r \in Injection(S, 1 .. n)
    <3> HIDE DEF r, n
    <3> QED BY <2>1, <2>2, Fun_IsInj
  <2>4. IsFiniteSet(1 .. n) /\ Cardinality(1 .. n) = n
    <3> HIDE DEF n
    <3> QED BY <1>1, FS_Interval
  <2>5. r \in Surjection(S, 1 .. n)
    <3> HIDE DEF r
    <3> QED BY <2>3, <2>4, FS_Injection
  <2>6. \A i \in 1 .. n : \E x \in S : r[x] = i
    <3> HIDE DEF r, n
    <3> QED BY <2>5, Fun_SurjectionProperties
  <2>7. ASSUME NEW i \in 1 .. n PROVE \E x \in S : rank[x] = i - 1
    <3>1. PICK x \in S : rank[x] + 1 = i
      BY <2>6
    <3>2. rank[x] \in 0 .. n - 1
      BY <1>2
    <3> HIDE DEF n
    <3> QED BY <1>1, <3>1, <3>2
  <2> QED BY <2>7
<1> QED BY <1>1, <1>2, <1>3, <1>4 DEF rank

-----------------------------------------------------------------------------
(* The steps of the reader.                                                *)

ElementsRead(base, m) == FoldLeft(ReadElement, base, m)

\* The states of a reader, element by element.
ReaderOf(h, R, base, m) ==
  /\ h \in [0 .. Len(m) -> R]
  /\ h[0] = base /\ h[Len(m)] = ElementsRead(base, m)
  /\ \A i \in 1 .. Len(m) : h[i] = ReadElement(h[i - 1], m[i])

\* What a reader has read so far, element by element.
LEMMA ReadSteps ==
  ASSUME NEW R, NEW base \in R, NEW X, NEW m \in Seq(X),
         \A r \in R, x \in X : ReadElement(r, x) \in R
  PROVE  /\ ElementsRead(base, m) \in R
         /\ \E h : ReaderOf(h, R, base, m)
<1> DEFINE n == Len(m)
           step == [z \in R \X (1 .. n) |-> ReadElement(z[1], m[z[2]])]
           Fits(f) == f = [s \in SUBSET (DOMAIN m) |->
                             IF s = {} THEN base ELSE ReadElement(f[s \ {Max(s)}], m[Max(s)])]
           iter == CHOOSE f : Fits(f)
<1>1. n \in Nat /\ DOMAIN m = 1 .. n /\ \A i \in 1 .. n : m[i] \in X
  OBVIOUS
<1>2. step \in [R \X (1 .. n) -> R]
  BY <1>1
<1>3. ElementsRead(base, m) = iter[DOMAIN m]
  BY DEF ElementsRead, FoldLeft, MapThenFoldSet
<1>4. ASSUME NEW s \in SUBSET (1 .. n), s # {}
      PROVE  Max(s) \in 1 .. n /\ s \ {Max(s)} \in SUBSET (1 .. n)
  <2> HIDE DEF n
  <2>1. Max(s) \in s
    BY <1>1, <1>4, MaxOfNumbers
  <2> QED BY <2>1
<1>5. \E f : Fits(f)
  <2>1. PICK f : IsFold(f, n, R, base, step)
    <3>1. n \in Nat
      BY <1>1
    <3>2. step \in [R \X (1 .. n) -> R]
      BY <1>2
    <3> HIDE DEF step, n, Fits, iter
    <3> QED BY <3>1, <3>2, FoldExists
  <2>2. ASSUME NEW s \in SUBSET (1 .. n), s # {}
        PROVE  step[<<f[s \ {Max(s)}], Max(s)>>] = ReadElement(f[s \ {Max(s)}], m[Max(s)])
    <3>1. <<f[s \ {Max(s)}], Max(s)>> \in R \X (1 .. n)
      BY <1>4, <2>1, <2>2 DEF IsFold
    <3> QED BY <3>1
  <2>3. Fits(f)
    <3> HIDE DEF step, n
    <3> QED BY <1>1, <2>1, <2>2 DEF IsFold
  <2> QED BY <2>3
<1>6. Fits(iter)
  <2> HIDE DEF Fits
  <2> QED BY <1>5
<1> DEFINE h == [i \in 0 .. n |-> iter[1 .. i]]
<1>7. h[0] = base
  <2>1. 1 .. 0 = {} /\ 0 \in 0 .. n
    BY <1>1
  <2> HIDE DEF iter, n
  <2> QED BY <1>1, <1>6, <2>1
<1>8. ASSUME NEW i \in 1 .. n PROVE h[i] = ReadElement(h[i - 1], m[i])
  <2>1. /\ Max(1 .. i) = i /\ (1 .. i) \ {i} = 1 .. i - 1 /\ i \in 1 .. i
        /\ i \in 0 .. n /\ i - 1 \in 0 .. n /\ 1 .. i \in SUBSET (1 .. n)
    BY <1>1, MaxOfInterval
  <2>2. iter[1 .. i] = IF 1 .. i = {} THEN base
                       ELSE ReadElement(iter[(1 .. i) \ {Max(1 .. i)}], m[Max(1 .. i)])
    <3> HIDE DEF iter, n
    <3> QED BY <1>1, <1>6, <2>1
  <2> HIDE DEF iter, n
  <2> QED BY <2>1, <2>2
<1> DEFINE T == {i \in 0 .. n : h[i] \in R}
<1>9. \A i \in 0 .. n : i \in T
  <2>1. 0 \in T
    BY <1>1, <1>7
  <2>2. ASSUME NEW i \in 0 .. n - 1, i \in T PROVE i + 1 \in T
    <3>1. i + 1 \in 1 .. n /\ i + 1 \in 0 .. n /\ (i + 1) - 1 = i
      BY <1>1
    <3>2. h[i + 1] = ReadElement(h[i], m[i + 1]) /\ h[i] \in R /\ m[i + 1] \in X
      <4> HIDE DEF h, n
      <4> QED BY <1>1, <1>8, <2>2, <3>1
    <3> HIDE DEF h
    <3> QED BY <3>1, <3>2
  <2> HIDE DEF T
  <2> QED BY <1>1, <2>1, <2>2, CountsUpTo
<1>10. h \in [0 .. n -> R] /\ h[n] = iter[1 .. n]
  <2>1. n \in 0 .. n
    BY <1>1
  <2> HIDE DEF iter, n
  <2> QED BY <1>9, <2>1
<1>11. ElementsRead(base, m) \in R
  <2>1. n \in 0 .. n
    BY <1>1
  <2> HIDE DEF h, n
  <2> QED BY <1>1, <1>3, <1>10, <2>1
<1> HIDE DEF h, iter
<1> QED BY <1>1, <1>3, <1>7, <1>8, <1>10, <1>11 DEF ReaderOf

MeasuresRead(base, ms) == FoldLeft(ReadMeasure, base, ms)

\* The measures that were read, measure by measure.
PartOf(h, R, base, ms) ==
  /\ h \in [0 .. Len(ms) -> R]
  /\ h[0] = base /\ h[Len(ms)] = MeasuresRead(base, ms)
  /\ \A i \in 1 .. Len(ms) : h[i] = ReadMeasure(h[i - 1], ms[i])

\* What a reader has read so far, measure by measure.
LEMMA PartSteps ==
  ASSUME NEW R, NEW base \in R, NEW X, NEW ms \in Seq(X),
         \A r \in R, x \in X : ReadMeasure(r, x) \in R
  PROVE  /\ MeasuresRead(base, ms) \in R
         /\ \E h : PartOf(h, R, base, ms)
<1> DEFINE n == Len(ms)
           step == [z \in R \X (1 .. n) |-> ReadMeasure(z[1], ms[z[2]])]
           Fits(f) == f = [s \in SUBSET (DOMAIN ms) |->
                             IF s = {} THEN base ELSE ReadMeasure(f[s \ {Max(s)}], ms[Max(s)])]
           iter == CHOOSE f : Fits(f)
<1>1. n \in Nat /\ DOMAIN ms = 1 .. n /\ \A i \in 1 .. n : ms[i] \in X
  OBVIOUS
<1>2. step \in [R \X (1 .. n) -> R]
  BY <1>1
<1>3. MeasuresRead(base, ms) = iter[DOMAIN ms]
  BY DEF MeasuresRead, FoldLeft, MapThenFoldSet
<1>4. ASSUME NEW s \in SUBSET (1 .. n), s # {}
      PROVE  Max(s) \in 1 .. n /\ s \ {Max(s)} \in SUBSET (1 .. n)
  <2> HIDE DEF n
  <2>1. Max(s) \in s
    BY <1>1, <1>4, MaxOfNumbers
  <2> QED BY <2>1
<1>5. \E f : Fits(f)
  <2>1. PICK f : IsFold(f, n, R, base, step)
    <3>1. n \in Nat
      BY <1>1
    <3>2. step \in [R \X (1 .. n) -> R]
      BY <1>2
    <3> HIDE DEF step, n, Fits, iter
    <3> QED BY <3>1, <3>2, FoldExists
  <2>2. ASSUME NEW s \in SUBSET (1 .. n), s # {}
        PROVE  step[<<f[s \ {Max(s)}], Max(s)>>] = ReadMeasure(f[s \ {Max(s)}], ms[Max(s)])
    <3>1. <<f[s \ {Max(s)}], Max(s)>> \in R \X (1 .. n)
      BY <1>4, <2>1, <2>2 DEF IsFold
    <3> QED BY <3>1
  <2>3. Fits(f)
    <3> HIDE DEF step, n
    <3> QED BY <1>1, <2>1, <2>2 DEF IsFold
  <2> QED BY <2>3
<1>6. Fits(iter)
  <2> HIDE DEF Fits
  <2> QED BY <1>5
<1> DEFINE h == [i \in 0 .. n |-> iter[1 .. i]]
<1>7. h[0] = base
  <2>1. 1 .. 0 = {} /\ 0 \in 0 .. n
    BY <1>1
  <2> HIDE DEF iter, n
  <2> QED BY <1>1, <1>6, <2>1
<1>8. ASSUME NEW i \in 1 .. n PROVE h[i] = ReadMeasure(h[i - 1], ms[i])
  <2>1. /\ Max(1 .. i) = i /\ (1 .. i) \ {i} = 1 .. i - 1 /\ i \in 1 .. i
        /\ i \in 0 .. n /\ i - 1 \in 0 .. n /\ 1 .. i \in SUBSET (1 .. n)
    BY <1>1, MaxOfInterval
  <2>2. iter[1 .. i] = IF 1 .. i = {} THEN base
                       ELSE ReadMeasure(iter[(1 .. i) \ {Max(1 .. i)}], ms[Max(1 .. i)])
    <3> HIDE DEF iter, n
    <3> QED BY <1>1, <1>6, <2>1
  <2> HIDE DEF iter, n
  <2> QED BY <2>1, <2>2
<1> DEFINE T == {i \in 0 .. n : h[i] \in R}
<1>9. \A i \in 0 .. n : i \in T
  <2>1. 0 \in T
    BY <1>1, <1>7
  <2>2. ASSUME NEW i \in 0 .. n - 1, i \in T PROVE i + 1 \in T
    <3>1. i + 1 \in 1 .. n /\ i + 1 \in 0 .. n /\ (i + 1) - 1 = i
      BY <1>1
    <3>2. h[i + 1] = ReadMeasure(h[i], ms[i + 1]) /\ h[i] \in R /\ ms[i + 1] \in X
      <4> HIDE DEF h, n
      <4> QED BY <1>1, <1>8, <2>2, <3>1
    <3> HIDE DEF h
    <3> QED BY <3>1, <3>2
  <2> HIDE DEF T
  <2> QED BY <1>1, <2>1, <2>2, CountsUpTo
<1>10. h \in [0 .. n -> R] /\ h[n] = iter[1 .. n]
  <2>1. n \in 0 .. n
    BY <1>1
  <2> HIDE DEF iter, n
  <2> QED BY <1>9, <2>1
<1>11. MeasuresRead(base, ms) \in R
  <2>1. n \in 0 .. n
    BY <1>1
  <2> HIDE DEF h, n
  <2> QED BY <1>1, <1>3, <1>10, <2>1
<1> HIDE DEF h, iter
<1> QED BY <1>1, <1>3, <1>7, <1>8, <1>10, <1>11 DEF PartOf

-----------------------------------------------------------------------------
(* The chords.                                                             *)

ScoreEvent ==
  [id : Nat, kind : {"note", "rest", "unpitched"}, onset : Nat, length : Nat, voice : Voice,
   look : Look, grace : BOOLEAN, group : Nat, index : Nat]

\* The events of a measure that is being read are numbered as they come.
Numbered(es) == \A i \in DOMAIN es : es[i].id = i /\ es[i].group <= i

\* The members of a chord stand next to each other.
Together(es) ==
  \A i, j, k \in DOMAIN es :
    i < j /\ j < k /\ es[i].group # 0 /\ es[i].group = es[k].group => es[j].group = es[k].group

\* An event of no chord has no index; in a chord they grow.
Indexed(es) ==
  /\ \A i \in DOMAIN es : es[i].group = 0 => es[i].index = 0
  /\ \A i, j \in DOMAIN es :
       i < j /\ es[i].group # 0 /\ es[i].group = es[j].group => es[i].index < es[j].index

Reader ==
  [at : Nat, time : Nat, start : Nat, changes : SUBSET Nat, moved : BOOLEAN,
   events : Seq(ScoreEvent), last : Nat, fits : BOOLEAN]

ReaderInv(r) ==
  /\ Numbered(r.events) /\ Together(r.events) /\ Indexed(r.events)
  /\ r.last # 0 => r.last = Len(r.events)

SoundReader == {r \in Reader : ReaderInv(r)}

\* A reader at the start of a measure has its events numbered and its chords together.
LEMMA StartsSound ==
  ASSUME NEW t \in Nat
  PROVE  Reading(t) \in SoundReader
BY DEF Reading, SoundReader, Reader, ReaderInv, Numbered, Together, Indexed

\* What a text is read as, if it can be read, is a text.
LEMMA TextsAreRead ==
  ASSUME NEW x, Legible(x)
  PROVE  LookRead[x.look] \in Look /\ VoiceRead[x.voice] \in Voice
<1>1. PICK S \in SUBSET Look : LookRead \in [S -> Look]
  BY TextAssumption
<1>2. PICK V \in SUBSET Voice : VoiceRead \in [V -> Voice]
  BY TextAssumption
<1> QED BY <1>1, <1>2 DEF Legible

\* Reading an element keeps the events numbered and the chords together.
LEMMA ElementKeepsSound ==
  ASSUME NEW r \in SoundReader, NEW x \in DocElement
  PROVE  ReadElement(r, x) \in SoundReader
<1>1. r \in Reader /\ ReaderInv(r)
  BY DEF SoundReader
<1>2. x.length \in Nat /\ x.tag \in {"time", "forward", "backup", "note"}
  BY DEF DocElement
<1>3. ASSUME x.tag = "note"
      PROVE  x.chord \in BOOLEAN /\ x.grace \in BOOLEAN /\ x.kind \in {"note", "rest", "unpitched"}
  BY <1>3 DEF DocElement
<1>4. CASE x.tag = "time"
  <2>1. ReadElement(r, x) = ReadTime(r, x)
    BY <1>4 DEF ReadElement
  <2>2. ReadTime(r, x) \in Reader
    BY <1>1, <1>2 DEF ReadTime, Reader
  <2>3. ReaderInv(ReadTime(r, x))
    BY <1>1 DEF ReadTime, Reader, ReaderInv
  <2> QED BY <2>1, <2>2, <2>3 DEF SoundReader
<1>5. ASSUME NEW at \in Nat PROVE Moved(r, at) \in SoundReader
  BY <1>1 DEF Moved, Reader, ReaderInv, SoundReader
<1>6. CASE x.tag = "note" /\ Legible(x) /\ ~x.chord
  <2>1. ReadElement(r, x) = ReadNote(r, x)
    BY <1>6 DEF ReadElement
  <2> DEFINE e == EventAt(r, x, r.at, 0, 0)
  <2>2. e \in ScoreEvent /\ e.id = Len(r.events) + 1 /\ e.group = 0 /\ e.index = 0
    BY <1>1, <1>2, <1>3, <1>6, TextsAreRead DEF EventAt, ScoreEvent, Reader
  <2> DEFINE n == Len(r.events)
             es == Append(r.events, e)
  <2>3. ReadNote(r, x) = [r EXCEPT !.events = es, !.last = n + 1, !.at = r.at + x.length]
    BY DEF ReadNote
  <2>4. r.events \in Seq(ScoreEvent) /\ n \in Nat /\ r.at + x.length \in Nat
    BY <1>1, <1>2 DEF Reader
  <2>5. /\ es \in Seq(ScoreEvent) /\ Len(es) = n + 1 /\ DOMAIN es = 1 .. n + 1
        /\ \A i \in 1 .. n : es[i] = r.events[i]
        /\ es[n + 1] = e
    <3> HIDE DEF e
    <3> QED BY <2>2, <2>4
  <2>6. ReadNote(r, x) \in Reader
    <3>1. n + 1 \in Nat
      BY <2>4
    <3> HIDE DEF es, n, e
    <3>2. [r EXCEPT !.events = es, !.last = n + 1, !.at = r.at + x.length] \in Reader
      BY <1>1, <2>4, <2>5, <3>1 DEF Reader
    <3> QED BY <2>3, <3>2
  <2>7. Numbered(es)
    <3>1. \A i \in 1 .. n : r.events[i].id = i /\ r.events[i].group <= i
      BY <1>1, <2>4 DEF ReaderInv, Numbered
    <3>2. e.id = n + 1 /\ e.group = 0
      BY <2>2
    <3> HIDE DEF es, n, e
    <3> QED BY <2>4, <2>5, <3>1, <3>2 DEF Numbered
  <2>8. Together(es)
    <3>1. \A i, j, k \in 1 .. n :
            i < j /\ j < k /\ r.events[i].group # 0 /\ r.events[i].group = r.events[k].group
              => r.events[j].group = r.events[k].group
      BY <1>1, <2>4 DEF ReaderInv, Together
    <3> HIDE DEF es, n, e
    <3>2. ASSUME NEW i \in 1 .. n + 1, NEW j \in 1 .. n + 1, NEW k \in 1 .. n + 1,
                 i < j, j < k, es[i].group # 0, es[i].group = es[k].group
          PROVE  es[j].group = es[k].group
      <4>1. i \in 1 .. n /\ j \in 1 .. n
        BY <2>4, <3>2
      <4>2. k # n + 1
        BY <2>2, <2>5, <3>2
      <4>3. k \in 1 .. n
        BY <2>4, <4>2
      <4>4. es[i] = r.events[i] /\ es[j] = r.events[j] /\ es[k] = r.events[k]
        BY <2>5, <4>1, <4>3
      <4> QED BY <3>1, <3>2, <4>1, <4>3, <4>4
    <3> QED BY <2>5, <3>2 DEF Together
  <2>9. Indexed(es)
    <3>1. Indexed(r.events) /\ DOMAIN r.events = 1 .. n
      BY <1>1, <2>4 DEF ReaderInv
    <3>2. \A i \in 1 .. n + 1 : i = n + 1 \/ i \in 1 .. n
      BY <2>4
    <3> HIDE DEF es, n, e
    <3>3. \A i \in 1 .. n + 1 : es[i].group = 0 => es[i].index = 0
      BY <2>2, <2>5, <3>1, <3>2 DEF Indexed
    <3>4. ASSUME NEW i \in 1 .. n + 1, NEW j \in 1 .. n + 1, i < j,
                 es[i].group # 0, es[i].group = es[j].group
          PROVE  es[i].index < es[j].index
      <4>1. i \in 1 .. n /\ j \in 1 .. n
        BY <2>2, <2>4, <2>5, <3>2, <3>4
      <4> QED BY <2>5, <3>1, <3>4, <4>1 DEF Indexed
    <3> QED BY <2>5, <3>3, <3>4 DEF Indexed
  <2>10. ReaderInv(ReadNote(r, x))
    <3> HIDE DEF es, n
    <3> QED BY <1>1, <2>3, <2>4, <2>5, <2>7, <2>8, <2>9 DEF Reader, ReaderInv
  <2> QED BY <2>1, <2>6, <2>10 DEF SoundReader
<1>7. CASE x.tag = "note" /\ Legible(x) /\ x.chord /\ JoinsChord(r, x)
  <2>1. ReadElement(r, x) = ReadChord(r, x)
    BY <1>7 DEF ReadElement
  <2> DEFINE n == Len(r.events)
             p == r.events[n]
             group == IF p.group = 0 THEN p.id ELSE p.group
             first == [r.events EXCEPT ![n].group = group]
             e == EventAt(r, x, p.onset, group, p.index + 1)
             es == Append(first, e)
  <2>2. n \in Nat /\ n > 0 /\ r.last = n /\ p \in ScoreEvent
    BY <1>1, <1>7 DEF JoinsChord, Reader, ReaderInv
  <2>3. group \in Nat /\ group # 0 /\ group <= n /\ p.id = n /\ p.group <= n
    <3>1. p.id = n /\ p.group <= n
      BY <1>1, <2>2 DEF ReaderInv, Numbered, Reader
    <3> QED BY <2>2, <3>1 DEF ScoreEvent
  <2>4. e \in ScoreEvent /\ e.id = n + 1 /\ e.group = group /\ e.index = p.index + 1
    <3> HIDE DEF p, group, n
    <3> USE DEF n
    <3> QED BY <1>1, <1>2, <1>3, <1>7, <2>2, <2>3, TextsAreRead DEF EventAt, ScoreEvent
  <2>5. ReadChord(r, x) = [r EXCEPT !.events = es, !.last = n + 1]
    BY <2>2 DEF ReadChord
  <2>6. /\ first \in Seq(ScoreEvent) /\ Len(first) = n
        /\ \A i \in 1 .. n : /\ first[i].id = r.events[i].id /\ first[i].index = r.events[i].index
                             /\ first[i].group = IF i = n THEN group ELSE r.events[i].group
    <3>1. [p EXCEPT !.group = group] \in ScoreEvent
      <4> HIDE DEF p, group
      <4> QED BY <2>2, <2>3 DEF ScoreEvent
    <3>2. first = [r.events EXCEPT ![n] = [p EXCEPT !.group = group]]
      OBVIOUS
    <3>3. r.events \in Seq(ScoreEvent)
      BY <1>1 DEF Reader
    <3>4. /\ p.id = [p EXCEPT !.group = group].id /\ [p EXCEPT !.group = group].group = group
          /\ p.index = [p EXCEPT !.group = group].index
      <4> HIDE DEF p, group
      <4> QED BY <2>2 DEF ScoreEvent
    <3>5. first \in Seq(ScoreEvent) /\ Len(first) = n
      <4> HIDE DEF group
      <4> QED BY <2>2, <3>1, <3>2, <3>3
    <3>6. \A i \in 1 .. n : first[i] = IF i = n THEN [p EXCEPT !.group = group] ELSE r.events[i]
      <4> HIDE DEF group
      <4> QED BY <2>2, <3>2, <3>3
    <3>7. \A i \in 1 .. n : i = n => r.events[i] = p
      OBVIOUS
    <3> HIDE DEF group, first, n, p
    <3> QED BY <3>4, <3>5, <3>6, <3>7
  <2>7. /\ es \in Seq(ScoreEvent) /\ Len(es) = n + 1
        /\ \A i \in 1 .. n : es[i] = first[i]
        /\ es[n + 1] = e
    <3> HIDE DEF first, e, n
    <3> QED BY <2>2, <2>4, <2>6
  <2>8. ReadChord(r, x) \in Reader
    <3>1. n + 1 \in Nat
      BY <2>2
    <3> HIDE DEF es, n, first, p, group, e
    <3>2. [r EXCEPT !.events = es, !.last = n + 1] \in Reader
      BY <1>1, <2>7, <3>1 DEF Reader
    <3> QED BY <2>5, <3>2
  <2>9. Numbered(es)
    <3>1. \A i \in 1 .. n : r.events[i].id = i /\ r.events[i].group <= i
      BY <1>1 DEF ReaderInv, Numbered, Reader
    <3> HIDE DEF es, n, group, first, e
    <3> QED BY <2>2, <2>3, <2>4, <2>6, <2>7, <3>1 DEF Numbered
  <2>10. Together(es)
    <3>1. \A i \in 1 .. n : r.events[i].group <= i /\ r.events[i].group \in Nat
      <4>1. \A i \in 1 .. n : r.events[i] \in ScoreEvent /\ r.events[i].group <= i
        BY <1>1 DEF ReaderInv, Numbered, Reader
      <4> QED BY <4>1 DEF ScoreEvent
    <3>2. \A i, j, k \in 1 .. n :
            i < j /\ j < k /\ r.events[i].group # 0 /\ r.events[i].group = r.events[k].group
              => r.events[j].group = r.events[k].group
      <4>1. Together(r.events) /\ DOMAIN r.events = 1 .. n
        BY <1>1 DEF ReaderInv, Reader
      <4> HIDE DEF n
      <4> QED BY <4>1 DEF Together
    <3>3. \A i \in 1 .. n - 1 : r.events[i].group = group => p.group = group
      <4>1. \A i \in 1 .. n - 1 : r.events[i].group <= n - 1
        BY <2>2, <3>1
      <4> QED BY <2>2, <2>3, <4>1
    <3>4. \A i \in 1 .. n : es[i].group = IF i = n THEN group ELSE r.events[i].group
      <4> HIDE DEF es, n, group, first, e, p
      <4> QED BY <2>6, <2>7
    <3>5. es[n + 1].group = group
      <4> HIDE DEF es, n, group, first, e, p
      <4> QED BY <2>4, <2>7
    <3>6. ASSUME NEW i \in 1 .. n + 1, NEW j \in 1 .. n + 1, NEW k \in 1 .. n + 1,
                 i < j, j < k, es[i].group # 0, es[i].group = es[k].group
          PROVE  es[j].group = es[k].group
      <4>1. i \in 1 .. n - 1 /\ j \in 1 .. n
        BY <2>2, <3>6
      <4>2. es[i].group = r.events[i].group
        BY <3>4, <4>1
      <4>3. CASE k >= n
        <5>1. es[k].group = group
          BY <2>2, <3>4, <3>5, <4>3
        <5>2. p.group = group
          BY <3>3, <3>6, <4>1, <4>2, <5>1
        <5>3. CASE j = n
          BY <3>4, <4>1, <5>1, <5>3
        <5>4. CASE j # n
          <6>1. r.events[j].group = p.group
            BY <2>2, <2>3, <3>2, <3>6, <4>1, <4>2, <5>1, <5>2, <5>4
          <6> QED BY <3>4, <4>1, <5>1, <5>2, <5>4, <6>1
        <5> QED BY <5>3, <5>4
      <4>4. CASE k < n
        <5>1. k \in 1 .. n /\ j # n /\ k # n
          BY <2>2, <3>6, <4>4
        <5>2. es[k].group = r.events[k].group /\ es[j].group = r.events[j].group
          BY <3>4, <4>1, <5>1
        <5> QED BY <3>2, <3>6, <4>1, <4>2, <5>1, <5>2
      <4> QED BY <2>2, <4>3, <4>4
    <3>7. DOMAIN es = 1 .. n + 1
      <4> HIDE DEF es, n
      <4> QED BY <2>2, <2>7
    <3> HIDE DEF es, n
    <3> QED BY <3>6, <3>7 DEF Together
  <2>11. Indexed(es)
    <3>1. \A i \in 1 .. n : r.events[i].group <= i /\ r.events[i].group \in Nat
                            /\ r.events[i].index \in Nat
      <4>1. \A i \in 1 .. n : r.events[i] \in ScoreEvent /\ r.events[i].group <= i
        BY <1>1 DEF ReaderInv, Numbered, Reader
      <4> QED BY <4>1 DEF ScoreEvent
    <3>2. Indexed(r.events) /\ DOMAIN r.events = 1 .. n
      BY <1>1 DEF ReaderInv, Reader
    <3>3. \A i \in 1 .. n - 1 : r.events[i].group = group => p.group = group
      <4>1. \A i \in 1 .. n - 1 : r.events[i].group <= n - 1
        BY <2>2, <3>1
      <4> QED BY <2>2, <2>3, <4>1
    <3>4. r.events[n] = p
      OBVIOUS
    <3>5. DOMAIN es = 1 .. n + 1
      <4> HIDE DEF es, n
      <4> QED BY <2>2, <2>7
    <3> HIDE DEF es, n, group, first, e, p
    <3>6. \A i \in 1 .. n : /\ es[i].group = IF i = n THEN group ELSE r.events[i].group
                            /\ es[i].index = r.events[i].index
      BY <2>6, <2>7
    <3>7. es[n + 1].group = group /\ es[n + 1].index = p.index + 1
      BY <2>4, <2>7
    <3>8. \A i \in 1 .. n + 1 : i = n + 1 \/ i \in 1 .. n
      BY <2>2
    <3>9. \A i \in 1 .. n + 1 : es[i].group = 0 => es[i].index = 0
      BY <2>3, <3>2, <3>6, <3>7, <3>8 DEF Indexed
    <3>10. \A i \in 1 .. n - 1 : r.events[i].group = group => r.events[i].index < p.index
      BY <2>2, <2>3, <3>2, <3>3, <3>4 DEF Indexed
    <3>11. ASSUME NEW i \in 1 .. n + 1, NEW j \in 1 .. n + 1, i < j,
                  es[i].group # 0, es[i].group = es[j].group
           PROVE  es[i].index < es[j].index
      <4>1. i \in 1 .. n
        BY <2>2, <3>11
      <4>2. CASE i = n
        <5>1. j = n + 1
          BY <2>2, <3>11, <4>2
        <5> QED BY <2>2, <3>1, <3>4, <3>6, <3>7, <4>1, <4>2, <5>1
      <4>3. CASE i # n /\ j \in 1 .. n - 1
        <5>1. j \in 1 .. n /\ j # n
          BY <2>2, <4>3
        <5> QED BY <3>2, <3>6, <3>11, <4>1, <4>3, <5>1 DEF Indexed
      <4>4. CASE i # n /\ (j = n \/ j = n + 1)
        <5>1. i \in 1 .. n - 1 /\ n \in 1 .. n
          BY <2>2, <4>1, <4>4
        <5>2. es[j].group = group
          BY <3>6, <3>7, <4>4, <5>1
        <5>3. r.events[i].group = group
          BY <3>6, <3>11, <4>1, <4>4, <5>2
        <5>4. es[i].index < p.index /\ es[i].index \in Nat /\ p.index \in Nat
          BY <3>1, <3>4, <3>6, <3>10, <4>1, <5>1, <5>3
        <5>5. es[j].index = p.index \/ es[j].index = p.index + 1
          BY <3>4, <3>6, <3>7, <4>4, <5>1
        <5> QED BY <5>4, <5>5
      <4>5. j = n + 1 \/ j = n \/ j \in 1 .. n - 1
        BY <2>2
      <4> QED BY <4>2, <4>3, <4>4, <4>5
    <3> QED BY <3>5, <3>9, <3>11 DEF Indexed
  <2>12. ReaderInv(ReadChord(r, x))
    <3> HIDE DEF es, n
    <3> QED BY <1>1, <2>2, <2>5, <2>7, <2>9, <2>10, <2>11 DEF Reader, ReaderInv
  <2> QED BY <2>1, <2>8, <2>12 DEF SoundReader
<1>8. CASE x.tag = "forward"
  <2>1. ReadElement(r, x) = Moved(r, r.at + x.length)
    BY <1>8 DEF ReadElement
  <2>2. r.at + x.length \in Nat
    BY <1>1, <1>2 DEF Reader
  <2> QED BY <1>5, <2>1, <2>2
<1>9. CASE x.tag = "backup" /\ x.length <= r.at
  <2>1. ReadElement(r, x) = Moved(r, r.at - x.length)
    BY <1>9 DEF ReadElement
  <2>2. r.at - x.length \in Nat
    BY <1>1, <1>2, <1>9 DEF Reader
  <2> QED BY <1>5, <2>1, <2>2
<1>10. ASSUME ReadElement(r, x) = [r EXCEPT !.fits = FALSE] PROVE ReadElement(r, x) \in SoundReader
  BY <1>1, <1>10 DEF Reader, ReaderInv, SoundReader
<1>11. CASE \/ x.tag = "note" /\ ~Legible(x)
            \/ x.tag = "note" /\ x.chord /\ ~JoinsChord(r, x)
            \/ x.tag = "backup" /\ ~(x.length <= r.at)
  <2>1. ReadElement(r, x) = [r EXCEPT !.fits = FALSE]
    BY <1>11 DEF ReadElement
  <2> QED BY <1>10, <2>1
<1> QED BY <1>2, <1>4, <1>6, <1>7, <1>8, <1>9, <1>11

-----------------------------------------------------------------------------
\* The events of a measure are in the order of their identities.
Rising(es) == \A i, j \in DOMAIN es : i < j => es[i].id < es[j].id

ScoreMeasure ==
  [start : Nat, changes : SUBSET Nat, events : Seq(ScoreEvent), expected : Nat]

SoundMeasure ==
  {m \in ScoreMeasure : Rising(m.events) /\ Together(m.events) /\ Indexed(m.events)}

SoundScore == Seq(Seq(SoundMeasure))

\* Whatever a measure is made of, its reader ends so.
LEMMA NextIsSound ==
  ASSUME NEW read \in Seq(SoundReader), NEW m \in Seq(DocElement)
  PROVE  ReadMeasure(read, m) \in Seq(SoundReader)
<1>1. ASSUME NEW t \in Nat PROVE FoldLeft(ReadElement, Reading(t), m) \in SoundReader
  <2>1. Reading(t) \in SoundReader
    BY StartsSound
  <2>2. \A r \in SoundReader, x \in DocElement : ReadElement(r, x) \in SoundReader
    BY ElementKeepsSound
  <2>3. ElementsRead(Reading(t), m) \in SoundReader
    BY <2>1, <2>2, ReadSteps
  <2> QED BY <2>3 DEF ElementsRead
<1>2. ASSUME read # <<>> PROVE Last(read).time \in Nat
  <2>1. Last(read) \in SoundReader
    BY <1>2 DEF Last
  <2> QED BY <2>1 DEF SoundReader, Reader
<1>3. (IF read = <<>> THEN 0 ELSE Last(read).time) \in Nat
  BY <1>2
<1>4. FoldLeft(ReadElement, Reading(IF read = <<>> THEN 0 ELSE Last(read).time), m) \in SoundReader
  BY <1>1, <1>3
<1> QED BY <1>4 DEF ReadMeasure

\* Whatever a part is made of, its readers end so.
LEMMA PartIsSound ==
  ASSUME NEW ms \in Seq(Seq(DocElement))
  PROVE  /\ ReadPart(ms) \in Seq(SoundReader)
         /\ \E h : PartOf(h, Seq(SoundReader), <<>>, ms)
<1> DEFINE R == Seq(SoundReader)
           X == Seq(DocElement)
<1>1. <<>> \in R /\ \A read \in R, m \in X : ReadMeasure(read, m) \in R
  BY NextIsSound
<1> HIDE DEF R, X
<1>2. MeasuresRead(<<>>, ms) \in R /\ \E h : PartOf(h, R, <<>>, ms)
  BY <1>1, PartSteps DEF X
<1> QED BY <1>2 DEF ReadPart, MeasuresRead, R

\* A measure is what its reader ended with.
LEMMA MeasureIsSound ==
  ASSUME NEW r \in SoundReader
  PROVE  Measure(r) \in SoundMeasure
<1>1. r \in Reader /\ Numbered(r.events) /\ Together(r.events) /\ Indexed(r.events)
  BY DEF SoundReader, ReaderInv
<1>2. Measure(r) \in ScoreMeasure
  BY <1>1 DEF Measure, ScoreMeasure, Reader
<1>3. Rising(r.events)
  BY <1>1 DEF Numbered, Rising, Reader
<1>4. Measure(r).events = r.events
  BY DEF Measure
<1> QED BY <1>1, <1>2, <1>3, <1>4 DEF SoundMeasure

\* A score that was read has its events in order and its chords together.
LEMMA ReadIsSound ==
  ASSUME NEW d \in Document
  PROVE  ReadScore(d) \in SoundScore
<1>1. d \in Seq(Seq(Seq(DocElement)))
  BY ScoreAssumption
<1>2. ASSUME NEW p \in DOMAIN d
      PROVE  [n \in DOMAIN ReadPart(d[p]) |-> Measure(ReadPart(d[p])[n])] \in Seq(SoundMeasure)
  <2> DEFINE read == ReadPart(d[p])
  <2>1. read \in Seq(SoundReader)
    BY <1>1, PartIsSound
  <2>2. \A n \in DOMAIN read : Measure(read[n]) \in SoundMeasure
    <3> HIDE DEF read
    <3> QED BY <2>1, MeasureIsSound
  <2>3. DOMAIN read = 1 .. Len(read) /\ Len(read) \in Nat
    <3> HIDE DEF read
    <3> QED BY <2>1
  <2>4. [n \in DOMAIN read |-> Measure(read[n])] \in Seq(SoundMeasure)
    <3> HIDE DEF read
    <3> QED BY <2>2, <2>3
  <2> QED BY <2>4
<1>3. ReadScore(d) = [p \in DOMAIN d |-> [n \in DOMAIN ReadPart(d[p]) |-> Measure(ReadPart(d[p])[n])]]
  BY DEF ReadScore
<1>4. DOMAIN d = 1 .. Len(d) /\ Len(d) \in Nat
  BY <1>1
<1> QED BY <1>2, <1>3, <1>4 DEF SoundScore

\* The score is at first one that was read.
LEMMA StartsAsRead ==
  ASSUME ScoreInit
  PROVE  score \in SoundScore
BY ReadIsSound DEF ScoreInit

\* A score keeps its order when a measure is replaced by one that has it.
LEMMA PutKeepsSound ==
  ASSUME NEW s \in SoundScore, NEW p \in DOMAIN s, NEW n \in DOMAIN s[p], NEW m \in SoundMeasure
  PROVE  [s EXCEPT ![p][n] = m] \in SoundScore
<1>1. [s[p] EXCEPT ![n] = m] \in Seq(SoundMeasure)
  BY DEF SoundScore
<1>2. [s EXCEPT ![p] = [s[p] EXCEPT ![n] = m]] \in SoundScore
  BY <1>1 DEF SoundScore
<1>3. [s EXCEPT ![p][n] = m] = [s EXCEPT ![p] = [s[p] EXCEPT ![n] = m]]
  OBVIOUS
<1> QED BY <1>2, <1>3

\* An event that changes its look, length or voice stays where it is.
LEMMA ChangedKeepsSound ==
  ASSUME NEW m \in SoundMeasure, NEW i \in DOMAIN m.events, NEW e \in ScoreEvent,
         e.id = m.events[i].id, e.group = m.events[i].group, e.index = m.events[i].index
  PROVE  [m EXCEPT !.events[i] = e] \in SoundMeasure
<1> DEFINE es == m.events
           fs == [es EXCEPT ![i] = e]
<1>1. /\ m \in ScoreMeasure /\ es \in Seq(ScoreEvent) /\ Rising(es) /\ Together(es)
      /\ Indexed(es)
  BY DEF SoundMeasure, ScoreMeasure
<1>2. /\ fs \in Seq(ScoreEvent) /\ DOMAIN fs = DOMAIN es
      /\ \A j \in DOMAIN es : /\ fs[j].id = es[j].id /\ fs[j].group = es[j].group
                              /\ fs[j].index = es[j].index
  BY <1>1
<1>3. Rising(fs) /\ Together(fs) /\ Indexed(fs)
  <2> HIDE DEF fs, es
  <2> QED BY <1>1, <1>2 DEF Rising, Together, Indexed
<1>4. [m EXCEPT !.events[i] = e] = [m EXCEPT !.events = fs]
  OBVIOUS
<1>5. [m EXCEPT !.events = fs] \in ScoreMeasure /\ [m EXCEPT !.events = fs].events = fs
  <2> HIDE DEF fs
  <2> QED BY <1>1, <1>2 DEF ScoreMeasure
<1> QED BY <1>3, <1>4, <1>5 DEF SoundMeasure

\* The events that stay when one is removed keep their order.
LEMMA RemovedKeepsSound ==
  ASSUME NEW m \in SoundMeasure, NEW i \in DOMAIN m.events
  PROVE  [m EXCEPT !.events = RemoveAt(@, i)] \in SoundMeasure
<1> DEFINE es == m.events
           fs == RemoveAt(es, i)
           At(j) == IF j < i THEN j ELSE j + 1
<1>1. /\ m \in ScoreMeasure /\ es \in Seq(ScoreEvent) /\ Rising(es) /\ Together(es)
      /\ Indexed(es)
  BY DEF SoundMeasure, ScoreMeasure
<1>2. Len(es) \in Nat /\ DOMAIN es = 1 .. Len(es) /\ i \in 1 .. Len(es)
  BY <1>1
<1>3. /\ fs \in Seq(ScoreEvent) /\ Len(fs) = Len(es) - 1
      /\ \A j \in 1 .. Len(es) - 1 : fs[j] = es[At(j)]
  <2> HIDE DEF es
  <2> QED BY <1>1, <1>2, RemovedAt
<1>4. DOMAIN fs = 1 .. Len(es) - 1
  <2> HIDE DEF fs, es
  <2> QED BY <1>2, <1>3
<1>5. /\ \A j \in 1 .. Len(es) - 1 : At(j) \in 1 .. Len(es)
      /\ \A j, k \in 1 .. Len(es) - 1 : j < k => At(j) < At(k)
  <2> HIDE DEF es
  <2> QED BY <1>2
<1>6. Rising(fs)
  <2> HIDE DEF fs, es, At
  <2> QED BY <1>1, <1>2, <1>3, <1>4, <1>5 DEF Rising
<1>7. Together(fs)
  <2> HIDE DEF fs, es, At
  <2> SUFFICES ASSUME NEW j \in 1 .. Len(es) - 1, NEW k \in 1 .. Len(es) - 1,
                      NEW l \in 1 .. Len(es) - 1, j < k, k < l,
                      fs[j].group # 0, fs[j].group = fs[l].group
               PROVE  fs[k].group = fs[l].group
    BY <1>4 DEF Together
  <2>1. At(j) \in DOMAIN es /\ At(k) \in DOMAIN es /\ At(l) \in DOMAIN es
    BY <1>2, <1>5
  <2>2. At(j) < At(k) /\ At(k) < At(l)
    BY <1>5
  <2>3. fs[j] = es[At(j)] /\ fs[k] = es[At(k)] /\ fs[l] = es[At(l)]
    BY <1>3
  <2> QED BY <1>1, <2>1, <2>2, <2>3 DEF Together
<1>8. Indexed(fs)
  <2> HIDE DEF fs, es, At
  <2>1. \A j \in 1 .. Len(es) - 1 : fs[j].group = 0 => fs[j].index = 0
    BY <1>1, <1>2, <1>3, <1>5 DEF Indexed
  <2>2. \A j, k \in 1 .. Len(es) - 1 :
          j < k /\ fs[j].group # 0 /\ fs[j].group = fs[k].group => fs[j].index < fs[k].index
    BY <1>1, <1>2, <1>3, <1>5 DEF Indexed
  <2> QED BY <1>4, <2>1, <2>2 DEF Indexed
<1>9. [m EXCEPT !.events = fs] \in ScoreMeasure /\ [m EXCEPT !.events = fs].events = fs
  <2> HIDE DEF fs
  <2> QED BY <1>1, <1>3 DEF ScoreMeasure
<1> QED BY <1>6, <1>7, <1>8, <1>9 DEF SoundMeasure

\* An edit keeps the events in order and the chords together.
LEMMA EditKeepsSound ==
  ASSUME score \in SoundScore, EditScore
  PROVE  score' \in SoundScore
<1>1. PICK p, n, i :
        /\ p \in DOMAIN score /\ n \in DOMAIN score[p] /\ i \in DOMAIN score[p][n].events
        /\ \/ SetLook(p, n, i) \/ SetLength(p, n, i) \/ SetVoice(p, n, i)
           \/ RemoveEvent(p, n, i) \/ SetTimeSignature(p, n, i)
  BY DEF EditScore
<1> DEFINE m == score[p][n]
           e == m.events[i]
<1>2. m \in SoundMeasure /\ m \in ScoreMeasure /\ i \in DOMAIN m.events
  BY <1>1 DEF SoundScore, SoundMeasure
<1>3. e \in ScoreEvent
  BY <1>2 DEF ScoreMeasure
<1>4. ASSUME NEW f \in ScoreEvent, f.id = e.id, f.group = e.group, f.index = e.index,
             Put(p, n, i, f)
      PROVE  score' \in SoundScore
  <2>1. [m EXCEPT !.events[i] = f] \in SoundMeasure
    <3> HIDE DEF m
    <3> QED BY <1>2, <1>4, ChangedKeepsSound
  <2>2. score' = [score EXCEPT ![p][n] = [m EXCEPT !.events[i] = f]]
    BY <1>4 DEF Put
  <2> QED BY <1>1, <2>1, <2>2, PutKeepsSound
<1>5. CASE SetLook(p, n, i)
  <2>1. PICK look \in Look : Put(p, n, i, [e EXCEPT !.look = look])
    BY <1>5 DEF SetLook
  <2>2. /\ [e EXCEPT !.look = look] \in ScoreEvent /\ [e EXCEPT !.look = look].id = e.id
        /\ [e EXCEPT !.look = look].group = e.group /\ [e EXCEPT !.look = look].index = e.index
    <3> HIDE DEF e
    <3> QED BY <1>3 DEF ScoreEvent
  <2> HIDE DEF e
  <2> QED BY <1>4, <2>1, <2>2
<1>6. CASE SetLength(p, n, i)
  <2>1. PICK length \in Length : Put(p, n, i, [e EXCEPT !.length = length])
    BY <1>6 DEF SetLength
  <2>2. /\ [e EXCEPT !.length = length] \in ScoreEvent /\ [e EXCEPT !.length = length].id = e.id
        /\ [e EXCEPT !.length = length].group = e.group /\ [e EXCEPT !.length = length].index = e.index
    <3>1. length \in Nat
      BY ScoreAssumption
    <3> HIDE DEF e
    <3> QED BY <1>3, <3>1 DEF ScoreEvent
  <2> HIDE DEF e
  <2> QED BY <1>4, <2>1, <2>2
<1>7. CASE SetVoice(p, n, i)
  <2>1. PICK v \in Voice : Put(p, n, i, [e EXCEPT !.voice = v])
    BY <1>7 DEF SetVoice
  <2>2. /\ [e EXCEPT !.voice = v] \in ScoreEvent /\ [e EXCEPT !.voice = v].id = e.id
        /\ [e EXCEPT !.voice = v].group = e.group /\ [e EXCEPT !.voice = v].index = e.index
    <3> HIDE DEF e
    <3> QED BY <1>3 DEF ScoreEvent
  <2> HIDE DEF e
  <2> QED BY <1>4, <2>1, <2>2
<1>8. CASE RemoveEvent(p, n, i)
  <2>1. [m EXCEPT !.events = RemoveAt(@, i)] \in SoundMeasure
    <3> HIDE DEF m
    <3> QED BY <1>2, RemovedKeepsSound
  <2>2. score' = [score EXCEPT ![p][n] = [m EXCEPT !.events = RemoveAt(@, i)]]
    BY <1>8 DEF RemoveEvent
  <2> QED BY <1>1, <2>1, <2>2, PutKeepsSound
<1>9. CASE SetTimeSignature(p, n, i)
  <2>1. PICK t \in Signature : score' = [score EXCEPT ![p][n].start = t, ![p][n].expected = t]
    BY <1>9 DEF SetTimeSignature
  <2>2. t \in Nat
    BY ScoreAssumption
  <2> DEFINE k == [m EXCEPT !.start = t, !.expected = t]
  <2>3. k \in ScoreMeasure /\ k.events = m.events
    <3> HIDE DEF m
    <3> QED BY <1>2, <2>2 DEF ScoreMeasure
  <2>4. k \in SoundMeasure
    <3> HIDE DEF k, m
    <3> QED BY <1>2, <2>3 DEF SoundMeasure
  <2>5. score' = [score EXCEPT ![p][n] = k]
    BY <1>1, <2>1 DEF SoundScore
  <2> HIDE DEF k
  <2> QED BY <1>1, <2>4, <2>5, PutKeepsSound
<1> QED BY <1>1, <1>5, <1>6, <1>7, <1>8, <1>9

\* Reading and editing keep the events of a measure in the order of their
\* identities, and the members of a chord next to each other.
\* (musicxml _parse_measure, musical_state _apply_operation.)
ChordsStandTogether == score \in SoundScore

\* Whatever is read and edited, the events of a measure stay in order and those of
\* a chord next to each other.  (musicxml _parse_measure, musical_state.)
THEOREM EditsKeepChords == ScoreSpec => []ChordsStandTogether
<1>1. ScoreInit => ChordsStandTogether
  BY StartsAsRead DEF ChordsStandTogether
<1>2. ChordsStandTogether /\ [EditScore]_score => ChordsStandTogether'
  BY EditKeepsSound DEF ChordsStandTogether
<1> QED BY <1>1, <1>2, PTL DEF ScoreSpec

-----------------------------------------------------------------------------
(* The scan of a voice.                                                    *)

\* The events of a measure, as a set.
LEMMA EventsOfMeasure ==
  ASSUME NEW m \in SoundMeasure
  PROVE  /\ IsFiniteSet(Range(m.events)) /\ Range(m.events) \subseteq ScoreEvent
         /\ \A e, f \in Range(m.events) : e.id = f.id => e = f
         /\ \A e, f, g \in Range(m.events) :
              e.id < f.id /\ f.id < g.id /\ e.group # 0 /\ e.group = g.group => f.group = g.group
<1> DEFINE es == m.events
           n == Len(es)
<1>1. es \in Seq(ScoreEvent) /\ n \in Nat /\ DOMAIN es = 1 .. n /\ Rising(es) /\ Together(es)
  BY DEF SoundMeasure, ScoreMeasure
<1>2. IsFiniteSet(Range(es)) /\ Range(es) \subseteq ScoreEvent
  <2>1. es \in [1 .. n -> Range(es)] /\ \A x \in Range(es) : \E i \in 1 .. n : es[i] = x
    BY <1>1 DEF Range
  <2>2. es \in Surjection(1 .. n, Range(es))
    <3> HIDE DEF es, n
    <3> QED BY <2>1, Fun_IsSurj
  <2>3. IsFiniteSet(1 .. n)
    <3> HIDE DEF n
    <3> QED BY <1>1, FS_Interval
  <2>4. IsFiniteSet(Range(es))
    <3> HIDE DEF es, n
    <3> QED BY <2>2, <2>3, FS_Surjection
  <2>5. Range(es) \subseteq ScoreEvent
    <3> HIDE DEF es
    <3> QED BY <1>1 DEF Range
  <2> QED BY <2>4, <2>5
<1>3. \A i, j \in 1 .. n : /\ es[i].id \in Nat
                           /\ es[i].id = es[j].id => i = j
                           /\ es[i].id < es[j].id => i < j
  <2>1. \A i \in 1 .. n : es[i].id \in Nat
    <3> HIDE DEF es, n
    <3>1. \A i \in 1 .. n : es[i] \in ScoreEvent
      BY <1>1
    <3> QED BY <3>1 DEF ScoreEvent
  <2> HIDE DEF es, n
  <2> QED BY <1>1, <2>1 DEF Rising
<1>4. ASSUME NEW e \in Range(es), NEW f \in Range(es), e.id = f.id PROVE e = f
  <2> HIDE DEF es, n
  <2>1. PICK i \in 1 .. n, j \in 1 .. n : e = es[i] /\ f = es[j]
    BY <1>1 DEF Range
  <2> QED BY <1>3, <1>4, <2>1
<1>5. ASSUME NEW e \in Range(es), NEW f \in Range(es), NEW g \in Range(es),
             e.id < f.id, f.id < g.id, e.group # 0, e.group = g.group
      PROVE  f.group = g.group
  <2> HIDE DEF es, n
  <2>1. PICK i \in 1 .. n, j \in 1 .. n, k \in 1 .. n : e = es[i] /\ f = es[j] /\ g = es[k]
    BY <1>1 DEF Range
  <2>2. i < j /\ j < k
    BY <1>3, <1>5, <2>1
  <2> QED BY <1>1, <1>5, <2>1, <2>2 DEF Together
<1> QED BY <1>2, <1>4, <1>5

\* The events of a voice in order: each of them once, the earlier first.
LEMMA VoiceIsOrdered ==
  ASSUME NEW m \in SoundMeasure, NEW v \in Voice
  PROVE  LET S == {e \in Range(m.events) : e.voice = v}
             q == VoiceOrder(m, v)
         IN  /\ q \in Seq(S)
             /\ \A x \in S : \E i \in DOMAIN q : q[i] = x
             /\ \A i, j \in DOMAIN q : i < j => Earlier(q[i], q[j])
<1> DEFINE S == {e \in Range(m.events) : e.voice = v}
           L == {z \in S \X S : Earlier(z[1], z[2])}
           rank == Ranks(S, L)
           n == Cardinality(S)
           q == VoiceOrder(m, v)
<1>1. /\ IsFiniteSet(S) /\ \A x \in S : x.id \in Nat /\ x.onset \in Nat
      /\ \A x, y \in S : x.id = y.id => x = y
  <2>1. S \subseteq Range(m.events)
    OBVIOUS
  <2>2. IsFiniteSet(S)
    <3> HIDE DEF S
    <3> QED BY <2>1, EventsOfMeasure, FS_Subset
  <2>3. \A x \in S : x \in ScoreEvent
    BY EventsOfMeasure
  <2>4. \A x \in S : x.id \in Nat /\ x.onset \in Nat
    <3> HIDE DEF S
    <3> QED BY <2>3 DEF ScoreEvent
  <2> QED BY <2>2, <2>4, EventsOfMeasure
<1>2. \A x, y \in S : <<x, y>> \in L <=> Earlier(x, y)
  <2> HIDE DEF S
  <2> QED OBVIOUS
<1>3. StrictOrder(S, L)
  <2> HIDE DEF S, L
  <2> QED BY <1>1, <1>2 DEF Earlier, StrictOrder
<1>4. /\ n \in Nat
      /\ \A x \in S : rank[x] \in 0 .. n - 1
      /\ \A x, y \in S : <<x, y>> \in L => rank[x] < rank[y]
      /\ \A i \in 1 .. n : \E x \in S : rank[x] = i - 1
  <2> HIDE DEF S, L
  <2> QED BY <1>1, <1>3, Ranked
<1>5. ASSUME NEW x \in S, NEW y \in S, rank[x] = rank[y] PROVE x = y
  <2> HIDE DEF S, L, rank, n
  <2>1. rank[x] \in Int /\ ~(<<x, y>> \in L) /\ ~(<<y, x>> \in L)
    BY <1>4, <1>5
  <2> QED BY <1>3, <2>1 DEF StrictOrder
<1>6. ASSUME NEW x \in S PROVE rank[x] = Cardinality({y \in S : Earlier(y, x)})
  <2>1. {y \in S : <<y, x>> \in L} = {y \in S : Earlier(y, x)}
    <3> HIDE DEF S, L
    <3> QED BY <1>2
  <2> HIDE DEF S, L
  <2> QED BY <2>1 DEF Ranks
<1>7. q = [i \in 1 .. n |-> CHOOSE x \in S : Cardinality({y \in S : Earlier(y, x)}) = i - 1]
  BY DEF VoiceOrder, InOrder
<1>8. ASSUME NEW i \in 1 .. n PROVE q[i] \in S /\ rank[q[i]] = i - 1
  <2>1. PICK x \in S : rank[x] = i - 1
    BY <1>4
  <2>2. Cardinality({y \in S : Earlier(y, x)}) = i - 1
    <3> HIDE DEF S, rank
    <3> QED BY <1>6, <2>1
  <2>3. q[i] = CHOOSE xx \in S : Cardinality({y \in S : Earlier(y, xx)}) = i - 1
    <3> HIDE DEF S, q, n
    <3> QED BY <1>7
  <2>4. q[i] \in S /\ Cardinality({y \in S : Earlier(y, q[i])}) = i - 1
    <3> HIDE DEF S, q, n
    <3> QED BY <2>2, <2>3
  <2> HIDE DEF S, q, rank, n
  <2> QED BY <1>6, <2>4
<1>9. q \in Seq(S) /\ DOMAIN q = 1 .. n
  <2>1. \A i \in 1 .. n : q[i] \in S
    <3> HIDE DEF S, q, n, rank
    <3> QED BY <1>8
  <2>2. q \in [1 .. n -> S]
    <3> HIDE DEF S, q, n
    <3> QED BY <1>7, <2>1
  <2> HIDE DEF S, q, n
  <2> QED BY <1>4, <2>2
<1>10. ASSUME NEW x \in S PROVE \E i \in DOMAIN q : q[i] = x
  <2>1. rank[x] + 1 \in 1 .. n /\ (rank[x] + 1) - 1 = rank[x]
    <3> HIDE DEF S, rank, n
    <3> QED BY <1>4
  <2> HIDE DEF S, q, rank, n
  <2> QED BY <1>5, <1>8, <1>9, <2>1
<1>11. ASSUME NEW i \in DOMAIN q, NEW j \in DOMAIN q, i < j PROVE Earlier(q[i], q[j])
  <2>1. /\ q[i] \in S /\ q[j] \in S /\ rank[q[i]] = i - 1 /\ rank[q[j]] = j - 1
        /\ i \in Int /\ j \in Int
    <3> HIDE DEF S, q, rank, n
    <3> QED BY <1>8, <1>9
  <2>2. q[i] # q[j] /\ <<q[j], q[i]>> \notin L
    <3> HIDE DEF S, q, rank, n, L
    <3> QED BY <1>4, <1>11, <2>1
  <2> HIDE DEF S, q, rank, n, L
  <2> QED BY <1>2, <1>3, <2>1, <2>2 DEF StrictOrder
<1> HIDE DEF q, S
<1>12. QED BY <1>9, <1>10, <1>11 DEF q, S

-----------------------------------------------------------------------------
\* Two events of a voice sound together and are no chord.
Overlapped(e, f) ==
  /\ e.voice = f.voice /\ ~SameChord(e, f) /\ ~f.grace
  /\ Earlier(e, f) /\ f.onset < End(e)

Scan == [longest : {<<>>} \union {<<e>> : e \in ScoreEvent}, found : SUBSET ({"overlap"} \X Nat)]

Unscanned == [longest |-> <<>>, found |-> {}]

\* A scan step remembers an event and adds to what was found.
LEMMA ScanHolds ==
  ASSUME NEW s \in Scan, NEW e \in ScoreEvent
  PROVE  ScanEvent(s, e) \in Scan
<1>1. <<e>> \in {<<f>> : f \in ScoreEvent} /\ <<"overlap", e.id>> \in {"overlap"} \X Nat
  BY DEF ScoreEvent
<1> DEFINE longest == IF s.longest = <<>> \/ End(e) > End(s.longest[1]) THEN <<e>> ELSE s.longest
           found == s.found \union
             IF s.longest # <<>> /\ e.onset < End(s.longest[1]) /\ ~SameChord(s.longest[1], e) /\ ~e.grace
             THEN {<<"overlap", e.id>>} ELSE {}
<1>2. ScanEvent(s, e) = [longest |-> longest, found |-> found]
  BY DEF ScanEvent
<1>3. longest \in {<<>>} \union {<<f>> : f \in ScoreEvent}
  BY <1>1 DEF Scan
<1>4. found \in SUBSET ({"overlap"} \X Nat)
  BY <1>1 DEF Scan
<1> HIDE DEF longest, found
<1> QED BY <1>2, <1>3, <1>4 DEF Scan

EventsScanned(q) == FoldLeft(ScanEvent, Unscanned, q)

\* What the scan of a voice has found so far, event by event.
LEMMA ScanSteps ==
  ASSUME NEW q \in Seq(ScoreEvent)
  PROVE  \E h \in [0 .. Len(q) -> Scan] :
           /\ h[0] = Unscanned /\ h[Len(q)] = EventsScanned(q)
           /\ \A i \in 1 .. Len(q) : h[i] = ScanEvent(h[i - 1], q[i])
<1> DEFINE n == Len(q)
           step == [z \in Scan \X (1 .. n) |-> ScanEvent(z[1], q[z[2]])]
           Fits(f) == f = [s \in SUBSET (DOMAIN q) |->
                             IF s = {} THEN Unscanned ELSE ScanEvent(f[s \ {Max(s)}], q[Max(s)])]
           iter == CHOOSE f : Fits(f)
<1>0. Unscanned \in Scan /\ \A r \in Scan, x \in ScoreEvent : ScanEvent(r, x) \in Scan
  BY ScanHolds DEF Unscanned, Scan
<1>1. n \in Nat /\ DOMAIN q = 1 .. n /\ \A i \in 1 .. n : q[i] \in ScoreEvent
  OBVIOUS
<1>2. step \in [Scan \X (1 .. n) -> Scan]
  BY <1>0, <1>1
<1>3. EventsScanned(q) = iter[DOMAIN q]
  BY DEF EventsScanned, FoldLeft, MapThenFoldSet
<1>4. ASSUME NEW s \in SUBSET (1 .. n), s # {}
      PROVE  Max(s) \in 1 .. n /\ s \ {Max(s)} \in SUBSET (1 .. n)
  <2> HIDE DEF n
  <2>1. Max(s) \in s
    BY <1>1, <1>4, MaxOfNumbers
  <2> QED BY <2>1
<1>5. \E f : Fits(f)
  <2>1. PICK f : IsFold(f, n, Scan, Unscanned, step)
    <3>1. n \in Nat
      BY <1>1
    <3>2. step \in [Scan \X (1 .. n) -> Scan]
      BY <1>2
    <3> HIDE DEF step, n, Fits, iter
    <3> QED BY <1>0, <3>1, <3>2, FoldExists
  <2>2. ASSUME NEW s \in SUBSET (1 .. n), s # {}
        PROVE  step[<<f[s \ {Max(s)}], Max(s)>>] = ScanEvent(f[s \ {Max(s)}], q[Max(s)])
    <3>1. <<f[s \ {Max(s)}], Max(s)>> \in Scan \X (1 .. n)
      BY <1>4, <2>1, <2>2 DEF IsFold
    <3> QED BY <3>1
  <2>3. Fits(f)
    <3> HIDE DEF step, n
    <3> QED BY <1>1, <2>1, <2>2 DEF IsFold
  <2> QED BY <2>3
<1>6. Fits(iter)
  <2> HIDE DEF Fits
  <2> QED BY <1>5
<1> DEFINE h == [i \in 0 .. n |-> iter[1 .. i]]
<1>7. h[0] = Unscanned
  <2>1. 1 .. 0 = {} /\ 0 \in 0 .. n
    BY <1>1
  <2> HIDE DEF iter, n
  <2> QED BY <1>1, <1>6, <2>1
<1>8. ASSUME NEW i \in 1 .. n PROVE h[i] = ScanEvent(h[i - 1], q[i])
  <2>1. /\ Max(1 .. i) = i /\ (1 .. i) \ {i} = 1 .. i - 1 /\ i \in 1 .. i
        /\ i \in 0 .. n /\ i - 1 \in 0 .. n /\ 1 .. i \in SUBSET (1 .. n)
    BY <1>1, MaxOfInterval
  <2>2. iter[1 .. i] = IF 1 .. i = {} THEN Unscanned
                       ELSE ScanEvent(iter[(1 .. i) \ {Max(1 .. i)}], q[Max(1 .. i)])
    <3> HIDE DEF iter, n
    <3> QED BY <1>1, <1>6, <2>1
  <2> HIDE DEF iter, n
  <2> QED BY <2>1, <2>2
<1> DEFINE T == {i \in 0 .. n : h[i] \in Scan}
<1>9. \A i \in 0 .. n : i \in T
  <2>1. 0 \in T
    BY <1>0, <1>1, <1>7
  <2>2. ASSUME NEW i \in 0 .. n - 1, i \in T PROVE i + 1 \in T
    <3>1. i + 1 \in 1 .. n /\ i + 1 \in 0 .. n /\ (i + 1) - 1 = i
      BY <1>1
    <3>2. h[i + 1] = ScanEvent(h[i], q[i + 1]) /\ h[i] \in Scan /\ q[i + 1] \in ScoreEvent
      <4> HIDE DEF h, n
      <4> QED BY <1>1, <1>8, <2>2, <3>1
    <3> HIDE DEF h
    <3> QED BY <1>0, <3>1, <3>2
  <2> HIDE DEF T
  <2> QED BY <1>1, <2>1, <2>2, CountsUpTo
<1>10. h \in [0 .. n -> Scan] /\ h[n] = iter[1 .. n]
  <2>1. n \in 0 .. n
    BY <1>1
  <2> HIDE DEF iter, n
  <2> QED BY <1>9, <2>1
<1> HIDE DEF h, iter
<1> QED BY <1>1, <1>3, <1>7, <1>8, <1>10

\* The scan of a voice remembers an event that ends last so far, and says
\* nothing unless two events overlap.
LEMMA ScanRemembers ==
  ASSUME NEW m \in SoundMeasure, NEW v \in Voice,
         NEW q \in Seq({e \in Range(m.events) : e.voice = v}),
         \A i, j \in DOMAIN q : i < j => Earlier(q[i], q[j]),
         NEW h \in [0 .. Len(q) -> Scan], h[0] = Unscanned,
         \A i \in 1 .. Len(q) : h[i] = ScanEvent(h[i - 1], q[i])
  PROVE  \A i \in 0 .. Len(q) :
           /\ h[i].found # {} => Overlaps(m)
           /\ i > 0 => \E k \in 1 .. i : /\ h[i].longest = <<q[k]>>
                                         /\ \A j \in 1 .. i : End(q[j]) <= End(q[k])
<1> DEFINE n == Len(q)
           P(i) == /\ h[i].found # {} => Overlaps(m)
                   /\ i > 0 => \E k \in 1 .. i : /\ h[i].longest = <<q[k]>>
                                                 /\ \A j \in 1 .. i : End(q[j]) <= End(q[k])
           T == {i \in 0 .. n : P(i)}
<1>1. n \in Nat /\ DOMAIN q = 1 .. n
  OBVIOUS
<1>2. \A i \in 1 .. n : q[i] \in ScoreEvent /\ q[i] \in Range(m.events) /\ q[i].voice = v
  BY EventsOfMeasure
<1>3. \A i \in 1 .. n : End(q[i]) \in Nat
  <2> HIDE DEF n
  <2> QED BY <1>2 DEF End, ScoreEvent
<1>4. 0 \in T
  BY DEF Unscanned
<1>5. ASSUME NEW i \in 0 .. n - 1, i \in T PROVE i + 1 \in T
  <2>1. P(i) /\ i + 1 \in 1 .. n /\ i + 1 \in 0 .. n
    <3>1. P(i)
      <4> HIDE DEF P
      <4> QED BY <1>5
    <3>2. i + 1 \in 1 .. n /\ i + 1 \in 0 .. n
      <4> HIDE DEF n
      <4> QED BY <1>1
    <3> HIDE DEF P, n
    <3> QED BY <3>1, <3>2
  <2>2. h[i + 1] = ScanEvent(h[i], q[i + 1])
    BY <1>1
  <2>3. CASE i = 0
    <3>1. h[i].longest = <<>> /\ h[i].found = {}
      BY <2>3 DEF Unscanned
    <3>2. h[i + 1].longest = <<q[i + 1]>> /\ h[i + 1].found = {}
      <4>1. h[i + 1] = ScanEvent(h[i], q[i + 1]) /\ h[i].longest = <<>> /\ h[i].found = {}
        BY <2>2, <3>1
      <4> QED BY <4>1 DEF ScanEvent
    <3>3. 1 \in 1 .. i + 1 /\ \A j \in 1 .. i + 1 : j = 1
      BY <2>3
    <3>4. End(q[1]) <= End(q[1]) /\ i + 1 = 1
      <4> HIDE DEF n
      <4> QED BY <1>3, <2>1, <2>3
    <3>5. P(i + 1)
      <4> HIDE DEF n
      <4> QED BY <3>2, <3>3, <3>4
    <3> HIDE DEF P, n
    <3> QED BY <2>1, <3>5
  <2>4. CASE i > 0
    <3>1. PICK k \in 1 .. i : h[i].longest = <<q[k]>> /\ \A j \in 1 .. i : End(q[j]) <= End(q[k])
      BY <2>1, <2>4
    <3>2. /\ h[i + 1].longest = IF End(q[i + 1]) > End(q[k]) THEN <<q[i + 1]>> ELSE <<q[k]>>
          /\ h[i + 1].found =
               IF q[i + 1].onset < End(q[k]) /\ ~SameChord(q[k], q[i + 1]) /\ ~q[i + 1].grace
               THEN h[i].found \union {<<"overlap", q[i + 1].id>>} ELSE h[i].found
      <4>1. h[i].longest # <<>> /\ h[i].longest[1] = q[k] /\ h[i].longest = <<q[k]>>
        BY <3>1
      <4> HIDE DEF n, P, T
      <4> QED BY <2>2, <4>1 DEF ScanEvent
    <3>3. k \in 1 .. n /\ k < i + 1
      BY <1>1
    <3>4. Earlier(q[k], q[i + 1])
      <4> HIDE DEF n
      <4> QED BY <1>1, <2>1, <3>3
    <3>5. ASSUME h[i + 1].found # {} PROVE Overlaps(m)
      <4>1. CASE h[i + 1].found = h[i].found
        BY <2>1, <3>5, <4>1
      <4>2. CASE q[i + 1].onset < End(q[k]) /\ ~SameChord(q[k], q[i + 1]) /\ ~q[i + 1].grace
        <5> HIDE DEF n
        <5> QED BY <1>2, <2>1, <3>3, <3>4, <4>2 DEF Overlaps
      <4> HIDE DEF P, n
      <4> QED BY <3>2, <4>1, <4>2
    <3>6. \E l \in 1 .. i + 1 : /\ h[i + 1].longest = <<q[l]>>
                                /\ \A j \in 1 .. i + 1 : End(q[j]) <= End(q[l])
      <4>1. \A j \in 1 .. i + 1 : j \in 1 .. i \/ j = i + 1
        OBVIOUS
      <4>2. \A j \in 1 .. i : End(q[j]) \in Nat
        <5> HIDE DEF n
        <5> QED BY <1>1, <1>3
      <4>3. End(q[i + 1]) \in Nat /\ k \in 1 .. i + 1 /\ i + 1 \in 1 .. i + 1
        <5> HIDE DEF n
        <5> QED BY <1>3, <2>1
      <4>4. CASE End(q[i + 1]) > End(q[k])
        <5>1. \A j \in 1 .. i + 1 : End(q[j]) <= End(q[i + 1])
          <6> SUFFICES ASSUME NEW j \in 1 .. i + 1 PROVE End(q[j]) <= End(q[i + 1])
            OBVIOUS
          <6>1. CASE j \in 1 .. i
            <7>1. End(q[j]) <= End(q[k]) /\ End(q[j]) \in Nat /\ End(q[k]) \in Nat
              BY <3>1, <4>2, <6>1
            <7> QED BY <4>3, <4>4, <7>1
          <6>2. CASE j = i + 1
            BY <4>3, <6>2
          <6> QED BY <4>1, <6>1, <6>2
        <5>2. h[i + 1].longest = <<q[i + 1]>>
          BY <3>2, <4>4
        <5> HIDE DEF n, P
        <5> QED BY <4>3, <5>1, <5>2
      <4>5. CASE ~(End(q[i + 1]) > End(q[k]))
        <5>1. \A j \in 1 .. i + 1 : End(q[j]) <= End(q[k])
          <6> SUFFICES ASSUME NEW j \in 1 .. i + 1 PROVE End(q[j]) <= End(q[k])
            OBVIOUS
          <6>1. CASE j \in 1 .. i
            BY <3>1, <6>1
          <6>2. CASE j = i + 1
            <7>1. End(q[k]) \in Nat
              BY <4>2
            <7> QED BY <4>3, <4>5, <6>2, <7>1
          <6> QED BY <4>1, <6>1, <6>2
        <5>2. h[i + 1].longest = <<q[k]>>
          BY <3>2, <4>5
        <5> HIDE DEF n, P
        <5> QED BY <4>3, <5>1, <5>2
      <4> QED BY <4>4, <4>5
    <3>7. P(i + 1)
      <4> HIDE DEF n
      <4> QED BY <3>5, <3>6
    <3> HIDE DEF P, n
    <3> QED BY <2>1, <3>7
  <2> HIDE DEF T, n
  <2> QED BY <1>1, <2>3, <2>4
<1>6. \A i \in 0 .. n : i \in T
  <2> HIDE DEF T, n
  <2> QED BY <1>1, <1>4, <1>5, CountsUpTo
<1> QED BY <1>6

\* Once an overlap is found it stays found.
LEMMA ScanKeepsFinding ==
  ASSUME NEW q \in Seq(ScoreEvent), NEW h \in [0 .. Len(q) -> Scan], NEW j \in 0 .. Len(q),
         \A i \in 1 .. Len(q) : h[i] = ScanEvent(h[i - 1], q[i]), h[j].found # {}
  PROVE  h[Len(q)].found # {}
<1> DEFINE n == Len(q)
           T == {i \in 0 .. n : i >= j => h[i].found # {}}
<1>1. n \in Nat /\ j \in 0 .. n
  OBVIOUS
<1>2. 0 \in T
  <2> HIDE DEF n
  <2> QED BY <1>1
<1>3. ASSUME NEW i \in 0 .. n - 1, i \in T PROVE i + 1 \in T
  <2>1. i + 1 \in 1 .. n /\ i + 1 \in 0 .. n /\ (i + 1) - 1 = i
    <3> HIDE DEF n
    <3> QED BY <1>1
  <2>2. h[i + 1] = ScanEvent(h[i], q[i + 1])
    BY <2>1
  <2>3. h[i].found \subseteq h[i + 1].found
    <3> HIDE DEF n
    <3> QED BY <2>2 DEF ScanEvent
  <2>4. i >= j => h[i].found # {}
    BY <1>3
  <2>5. i + 1 >= j => h[i + 1].found # {}
    <3>1. CASE i >= j
      BY <2>3, <2>4, <3>1
    <3>2. CASE i + 1 = j
      BY <3>2
    <3> HIDE DEF n
    <3> QED BY <1>1, <3>1, <3>2
  <2> HIDE DEF n
  <2> QED BY <2>1, <2>5
<1>4. n \in T
  <2>1. n \in 0 .. n
    <3> HIDE DEF n
    <3> QED BY <1>1
  <2> HIDE DEF T, n
  <2> QED BY <1>1, <1>2, <1>3, <2>1, CountsUpTo
<1> QED BY <1>4

\* The scan of a voice finds something exactly if two of its events overlap.
LEMMA ScanFinds ==
  ASSUME NEW m \in SoundMeasure, NEW v \in Voice, NEW found,
         found = EventsScanned(VoiceOrder(m, v)).found
  PROVE  /\ found # {} => Overlaps(m)
         /\ \A e, f \in Range(m.events) :
              e.voice = v /\ Overlapped(e, f) /\ ~GraceInChord(m) => found # {}
<1> DEFINE S == {e \in Range(m.events) : e.voice = v}
           q == VoiceOrder(m, v)
           n == Len(q)
<1>1. /\ q \in Seq(S) /\ \A x \in S : \E i \in DOMAIN q : q[i] = x
      /\ \A i, j \in DOMAIN q : i < j => Earlier(q[i], q[j])
  BY VoiceIsOrdered
<1>2. n \in Nat /\ DOMAIN q = 1 .. n /\ q \in Seq(ScoreEvent)
  <2>1. S \subseteq ScoreEvent
    BY EventsOfMeasure
  <2> HIDE DEF S, q
  <2> QED BY <1>1, <2>1
<1>4. PICK h \in [0 .. n -> Scan] :
        /\ h[0] = Unscanned /\ h[n] = EventsScanned(q)
        /\ \A i \in 1 .. n : h[i] = ScanEvent(h[i - 1], q[i])
  <2> HIDE DEF S, q
  <2> QED BY <1>2, ScanSteps
<1>5. \A i \in 0 .. n :
        /\ h[i].found # {} => Overlaps(m)
        /\ i > 0 => \E k \in 1 .. i : /\ h[i].longest = <<q[k]>>
                                      /\ \A j \in 1 .. i : End(q[j]) <= End(q[k])
  <2>1. q \in Seq({e \in Range(m.events) : e.voice = v})
    BY <1>1
  <2> HIDE DEF q
  <2> QED BY <1>1, <1>4, <2>1, ScanRemembers
<1>6. found # {} => Overlaps(m)
  <2>1. n \in 0 .. n /\ found = h[n].found
    <3>1. n \in 0 .. n
      <4> HIDE DEF n
      <4> QED BY <1>2
    <3> QED BY <1>4, <3>1
  <2> HIDE DEF n
  <2> QED BY <1>5, <2>1
<1>7. ASSUME NEW e0 \in Range(m.events), NEW f0 \in Range(m.events), e0.voice = v,
             Overlapped(e0, f0), ~GraceInChord(m)
      PROVE  found # {}
  <2> DEFINE B == {j \in 1 .. n : \E k \in 1 .. n : k < j /\ Overlapped(q[k], q[j])}
  <2>1. \A i \in 1 .. n : /\ q[i] \in Range(m.events) /\ q[i].voice = v
                          /\ q[i].onset \in Nat /\ q[i].id \in Nat /\ q[i].length \in Nat
    <3>1. \A i \in 1 .. n : q[i] \in S
      <4> HIDE DEF S, q
      <4> QED BY <1>1, <1>2
    <3>2. \A i \in 1 .. n : q[i] \in Range(m.events) /\ q[i].voice = v /\ q[i] \in ScoreEvent
      <4> HIDE DEF q
      <4> QED BY <3>1, EventsOfMeasure
    <3> HIDE DEF q, n
    <3> QED BY <3>2 DEF ScoreEvent
  <2>2. \A i, j \in 1 .. n : i < j => Earlier(q[i], q[j])
    BY <1>1, <1>2
  <2>3. B # {}
    <3>1. e0 \in S /\ f0 \in S
      BY <1>7 DEF Overlapped
    <3>2. PICK k \in 1 .. n, j \in 1 .. n : q[k] = e0 /\ q[j] = f0
      <4> HIDE DEF S, q
      <4> QED BY <1>1, <1>2, <3>1
    <3>3. k < j
      <4>1. Earlier(q[k], q[j])
        BY <1>7, <3>2 DEF Overlapped
      <4> HIDE DEF q, n
      <4>2. k # j
        BY <2>1, <4>1 DEF Earlier
      <4>3. ~(j < k)
        BY <2>1, <2>2, <4>1 DEF Earlier
      <4> QED BY <4>2, <4>3
    <3> HIDE DEF q, n
    <3> QED BY <1>7, <3>2, <3>3
  <2>4. PICK j \in B : \A i \in B : j <= i
    <3>1. B \in SUBSET Nat
      <4> HIDE DEF n
      <4> QED BY <1>2
    <3> HIDE DEF B
    <3> QED BY <2>3, <3>1, LeastOf
  <2>5. PICK l \in 1 .. n : l < j /\ Overlapped(q[l], q[j])
    BY <2>4
  <2>6. j \in 1 .. n /\ j - 1 \in 0 .. n /\ j - 1 > 0 /\ l \in 1 .. j - 1
    <3>1. j \in 1 .. n
      BY <2>4
    <3> HIDE DEF n, B
    <3> QED BY <1>2, <2>5, <3>1
  <2>7. PICK k \in 1 .. j - 1 : /\ h[j - 1].longest = <<q[k]>>
                               /\ \A i \in 1 .. j - 1 : End(q[i]) <= End(q[k])
    <3> HIDE DEF n, q, B
    <3> QED BY <1>5, <2>6
  <2> DEFINE p == q[k]
             f == q[j]
             e == q[l]
  <2>8. k \in 1 .. n /\ k < j /\ k \in Nat /\ l \in Nat /\ j \in Nat
    <3> HIDE DEF n, q, B
    <3> QED BY <1>2, <2>6
  <2>9. /\ f.onset < End(e) /\ ~f.grace /\ ~SameChord(e, f) /\ Earlier(e, f)
        /\ End(e) <= End(p)
    <3> HIDE DEF n, q, B
    <3> QED BY <2>5, <2>6, <2>7 DEF Overlapped
  <2>10. f.onset < End(p)
    <3>1. f.onset \in Nat /\ End(e) \in Nat /\ End(p) \in Nat
      <4>1. /\ f.onset \in Nat /\ e.onset \in Nat /\ e.length \in Nat
            /\ p.onset \in Nat /\ p.length \in Nat
        <5>1. j \in 1 .. n /\ l \in 1 .. n /\ k \in 1 .. n
          BY <2>5, <2>6, <2>8
        <5> HIDE DEF n, q, B
        <5> QED BY <2>1, <5>1
      <4> HIDE DEF e, f, p
      <4> QED BY <4>1 DEF End
    <3> HIDE DEF e, f, p
    <3> QED BY <2>9, <3>1
  <2>11. CASE ~SameChord(p, f)
    <3>1. /\ h[j] = ScanEvent(h[j - 1], f)
          /\ h[j - 1].longest # <<>> /\ h[j - 1].longest[1] = p
      BY <1>4, <2>6, <2>7
    <3>2. <<"overlap", f.id>> \in h[j].found
      <4> HIDE DEF f, p, n, q, B
      <4> QED BY <2>9, <2>10, <2>11, <3>1 DEF ScanEvent
    <3>3. h[j].found # {} /\ j \in 0 .. n
      <4> HIDE DEF f, p, n, q, B
      <4> QED BY <1>2, <2>6, <3>2
    <3>4. h[n].found # {}
      <4> HIDE DEF f, p, q, B
      <4> QED BY <1>2, <1>4, <3>3, ScanKeepsFinding
    <3> QED BY <1>4, <3>4
  <2>12. CASE SameChord(p, f)
    <3>1. p.onset = f.onset /\ p.group = f.group /\ p.group # 0
      BY <2>12 DEF SameChord
    <3>2. k # l
      BY <2>9, <2>12
    <3>3. CASE l < k
      <4>1. ~SameChord(e, p)
        BY <2>9, <3>1 DEF SameChord
      <4>2. p.onset < End(e)
        BY <2>9, <3>1
      <4>3. Earlier(e, p) /\ e.voice = p.voice
        <5> HIDE DEF n, q, B
        <5> QED BY <2>1, <2>2, <2>8, <3>3
      <4>4. ~p.grace => k \in B
        BY <2>8, <3>3, <4>1, <4>2, <4>3 DEF Overlapped
      <4>5. k \notin B
        <5> HIDE DEF n, q, B
        <5> QED BY <2>4, <2>8
      <4>6. p.grace
        <5> HIDE DEF n, q, B
        <5> QED BY <4>4, <4>5
      <4>7. p.length > 0
        <5> HIDE DEF n, q, B
        <5> QED BY <2>1, <2>8, <2>10, <3>1 DEF End
      <4>8. GraceInChord(m)
        <5> HIDE DEF n, q, B
        <5> QED BY <2>1, <2>6, <2>8, <2>9, <2>12, <4>6, <4>7 DEF GraceInChord
      <4> QED BY <1>7, <4>8
    <3>4. CASE k < l
      <4>1. Earlier(p, e)
        <5> HIDE DEF n, q, B
        <5> QED BY <2>2, <2>8, <3>4
      <4>2. e.onset = p.onset /\ p.id < e.id /\ e.id < f.id
        <5> HIDE DEF n, q, B
        <5> QED BY <2>1, <2>6, <2>8, <2>9, <3>1, <4>1 DEF Earlier
      <4>3. e.group = f.group
        <5>1. p \in Range(m.events) /\ e \in Range(m.events) /\ f \in Range(m.events)
          <6> HIDE DEF n, q, B
          <6> QED BY <2>1, <2>6, <2>8
        <5> HIDE DEF e, f, p
        <5> QED BY <3>1, <4>2, <5>1, EventsOfMeasure
      <4>4. SameChord(e, f)
        <5> HIDE DEF e, f, p
        <5> QED BY <3>1, <4>2, <4>3 DEF SameChord
      <4> QED BY <2>9, <4>4
    <3> HIDE DEF n, q, B
    <3> QED BY <2>8, <3>2, <3>3, <3>4
  <2> QED BY <2>11, <2>12
<1> QED BY <1>6, <1>7

\* A measure is found at fault exactly if two events of a voice overlap, unless
\* a chord in it is in part grace notes with a length.
LEMMA OverlapIsFound ==
  ASSUME NEW m \in SoundMeasure
  PROVE  /\ OverlapIssues(m) # {} => Overlaps(m)
         /\ Overlaps(m) /\ ~GraceInChord(m) => OverlapIssues(m) # {}
<1> DEFINE Found(v) == EventsScanned(VoiceOrder(m, v)).found
<1>1. OverlapIssues(m) = UNION {Found(v) : v \in Voice}
  BY DEF OverlapIssues, EventsScanned, Unscanned
<1>2. ASSUME NEW v \in Voice
      PROVE  /\ Found(v) # {} => Overlaps(m)
             /\ \A e, f \in Range(m.events) :
                  e.voice = v /\ Overlapped(e, f) /\ ~GraceInChord(m) => Found(v) # {}
  BY ScanFinds
<1>3. ASSUME OverlapIssues(m) # {} PROVE Overlaps(m)
  <2>1. PICK v \in Voice : Found(v) # {}
    <3> HIDE DEF Found
    <3> QED BY <1>1, <1>3
  <2> HIDE DEF Found
  <2> QED BY <1>2, <2>1
<1>4. ASSUME Overlaps(m), ~GraceInChord(m) PROVE OverlapIssues(m) # {}
  <2>1. PICK e \in Range(m.events), f \in Range(m.events) : Overlapped(e, f)
    BY <1>4 DEF Overlaps, Overlapped
  <2>2. e.voice \in Voice
    <3>1. e \in ScoreEvent
      BY EventsOfMeasure
    <3> QED BY <3>1 DEF ScoreEvent
  <2>3. Found(e.voice) # {}
    <3> HIDE DEF Found
    <3> QED BY <1>2, <1>4, <2>1, <2>2
  <2> HIDE DEF Found
  <2> QED BY <1>1, <2>2, <2>3
<1> QED BY <1>3, <1>4

\* The measures of a score that keeps its order keep it.
LEMMA MeasuresAreSound ==
  ASSUME score \in SoundScore
  PROVE  AllMeasures \subseteq SoundMeasure
<1>1. ASSUME NEW p \in DOMAIN score PROVE Range(score[p]) \subseteq SoundMeasure
  <2>1. score[p] \in Seq(SoundMeasure)
    BY DEF SoundScore
  <2> QED BY <2>1 DEF Range
<1> QED BY <1>1 DEF AllMeasures

\* In a score that keeps its order the scan says of each measure what is so.
LEMMA SoundScoreSaysOverlaps ==
  ASSUME score \in SoundScore
  PROVE  OverlapIsSaid
<1>1. \A m \in AllMeasures : m \in SoundMeasure
  BY MeasuresAreSound
<1> QED BY <1>1, OverlapIsFound DEF OverlapIsSaid

\* Whatever document is read and however it is edited, the validator finds a
\* measure at fault exactly if two events of a voice overlap, unless a chord of
\* the measure is in part grace notes that were given a length.
\* (musical_state validate_musical_state, VOICE_OVERLAP.)
THEOREM OverlapsAreSaid == ScoreSpec => []OverlapIsSaid
<1>1. ChordsStandTogether => OverlapIsSaid
  BY SoundScoreSaysOverlaps DEF ChordsStandTogether
<1> QED BY <1>1, EditsKeepChords, PTL

-----------------------------------------------------------------------------
(* The points of a plan, and the cursor.                                   *)

\* The image of a finite set is finite.
LEMMA ImageIsFinite ==
  ASSUME NEW S, IsFiniteSet(S), NEW f, DOMAIN f = S
  PROVE  IsFiniteSet({f[x] : x \in S})
<1> DEFINE g == [x \in S |-> f[x]]
           T == {f[x] : x \in S}
<1>1. g \in [S -> T] /\ \A t \in T : \E x \in S : g[x] = t
  OBVIOUS
<1>2. g \in Surjection(S, T)
  <2> HIDE DEF g, T
  <2> QED BY <1>1, Fun_IsSurj
<1>3. IsFiniteSet(T)
  <2> HIDE DEF g, T
  <2> QED BY <1>2, FS_Surjection
<1> QED BY <1>3

\* A score has finitely many places.
LEMMA PlacesAreFinite ==
  ASSUME NEW s \in SoundScore
  PROVE  /\ IsFiniteSet(Places(s))
         /\ \A x \in Places(s) : x.measure \in Nat /\ x.onset \in Nat
<1>1. /\ DOMAIN s = 1 .. Len(s) /\ Len(s) \in Nat
      /\ \A p \in DOMAIN s : /\ s[p] \in Seq(SoundMeasure) /\ DOMAIN s[p] = 1 .. Len(s[p])
                             /\ Len(s[p]) \in Nat /\ \A n \in DOMAIN s[p] : s[p][n] \in SoundMeasure
  BY DEF SoundScore
<1> DEFINE PlacesIn(p, n) == {Place(p, n, e) : e \in Range(s[p][n].events)}
           PartPlaces(p) == UNION {PlacesIn(p, n) : n \in DOMAIN s[p]}
<1>2. ASSUME NEW p \in DOMAIN s, NEW n \in DOMAIN s[p] PROVE IsFiniteSet(PlacesIn(p, n))
  <2> DEFINE R == Range(s[p][n].events)
             f == [e \in R |-> Place(p, n, e)]
  <2>1. IsFiniteSet(R)
    BY <1>1, EventsOfMeasure
  <2>2. DOMAIN f = R /\ PlacesIn(p, n) = {f[e] : e \in R}
    OBVIOUS
  <2> HIDE DEF R, f, PlacesIn
  <2> QED BY <2>1, <2>2, ImageIsFinite
<1>3. ASSUME NEW p \in DOMAIN s PROVE IsFiniteSet(PartPlaces(p))
  <2> DEFINE D == DOMAIN s[p]
             f == [n \in D |-> PlacesIn(p, n)]
             A == {f[n] : n \in D}
  <2>1. IsFiniteSet(D)
    <3>1. D = 1 .. Len(s[p]) /\ Len(s[p]) \in Nat
      BY <1>1
    <3> HIDE DEF D
    <3> QED BY <3>1, FS_Interval
  <2>2. DOMAIN f = D
    OBVIOUS
  <2>3. IsFiniteSet(A)
    <3> HIDE DEF D, f, PlacesIn
    <3> QED BY <2>1, <2>2, ImageIsFinite
  <2>4. \A a \in A : IsFiniteSet(a)
    <3> HIDE DEF PlacesIn
    <3> QED BY <1>2
  <2>5. PartPlaces(p) = UNION A
    <3> HIDE DEF PlacesIn
    <3> QED OBVIOUS
  <2> HIDE DEF A, PartPlaces
  <2> QED BY <2>3, <2>4, <2>5, FS_UNION
<1>4. IsFiniteSet(Places(s))
  <2> DEFINE D == DOMAIN s
             f == [p \in D |-> PartPlaces(p)]
             A == {f[p] : p \in D}
  <2>1. IsFiniteSet(D)
    <3> HIDE DEF D
    <3>1. D = 1 .. Len(s) /\ Len(s) \in Nat
      BY <1>1 DEF D
    <3> QED BY <3>1, FS_Interval
  <2>2. DOMAIN f = D
    OBVIOUS
  <2>3. IsFiniteSet(A)
    <3> HIDE DEF D, f, PartPlaces
    <3> QED BY <2>1, <2>2, ImageIsFinite
  <2>4. \A a \in A : IsFiniteSet(a)
    <3> HIDE DEF PartPlaces
    <3> QED BY <1>3
  <2>5. Places(s) = UNION A
    <3>1. Places(s) = UNION {PartPlaces(p) : p \in D}
      BY DEF Places
    <3> HIDE DEF PartPlaces, D
    <3> QED BY <3>1
  <2> HIDE DEF A
  <2> QED BY <2>3, <2>4, <2>5, FS_UNION
<1>5. ASSUME NEW x \in Places(s) PROVE x.measure \in Nat /\ x.onset \in Nat
  <2>1. PICK p, n, e : /\ p \in DOMAIN s /\ n \in DOMAIN s[p] /\ e \in Range(s[p][n].events)
                       /\ x = Place(p, n, e)
    BY DEF Places
  <2>2. s[p][n] \in SoundMeasure /\ n \in Nat
    BY <1>1, <2>1
  <2>3. e \in ScoreEvent
    BY <2>1, <2>2, EventsOfMeasure
  <2>4. e.onset \in Nat
    BY <2>3 DEF ScoreEvent
  <2> QED BY <2>1, <2>2, <2>4 DEF Place
<1> QED BY <1>4, <1>5

\* The points of a score: each with the places that begin where it does.
PointsAt(s) ==
  {[measure |-> x.measure, onset |-> x.onset,
    refs |-> {y \in Places(s) : PointOf(y) = PointOf(x)}] : x \in Places(s)}

\* A point stands at the measure and onset of a place, and has all of them there.
LEMMA PointIsOfPlace ==
  ASSUME NEW s, NEW y \in PointsAt(s)
  PROVE  \E x \in Places(s) :
           /\ y = [measure |-> x.measure, onset |-> x.onset,
                   refs |-> {z \in Places(s) : PointOf(z) = PointOf(x)}]
           /\ y.measure = x.measure /\ y.onset = x.onset /\ PointOf(y) = PointOf(x)
           /\ y.refs = {z \in Places(s) : PointOf(z) = PointOf(x)}
<1>1. PICK x \in Places(s) :
        y = [measure |-> x.measure, onset |-> x.onset,
             refs |-> {z \in Places(s) : PointOf(z) = PointOf(x)}]
  BY DEF PointsAt
<1>2. /\ y.measure = x.measure /\ y.onset = x.onset
      /\ y.refs = {z \in Places(s) : PointOf(z) = PointOf(x)}
  BY <1>1
<1>3. PointOf(y) = PointOf(x)
  BY <1>2 DEF PointOf
<1> QED BY <1>1, <1>2, <1>3

\* The points of a score in order: each has as many before it as its index says.
LEMMA PointsAreOrdered ==
  ASSUME NEW s \in SoundScore
  PROVE  /\ Points(s) \in Seq(PointsAt(s))
         /\ \A i \in DOMAIN Points(s) :
              Cardinality({y \in PointsAt(s) : Before(y, Points(s)[i])}) = i - 1
         /\ Points(s) = <<>> => Places(s) = {}
<1> DEFINE S == PointsAt(s)
           L == {z \in S \X S : Before(z[1], z[2])}
           rank == Ranks(S, L)
           n == Cardinality(S)
           q == Points(s)
<1>1. IsFiniteSet(S)
  <2> DEFINE f == [x \in Places(s) |-> [measure |-> x.measure, onset |-> x.onset,
                     refs |-> {y \in Places(s) : PointOf(y) = PointOf(x)}]]
  <2>1. DOMAIN f = Places(s) /\ S = {f[x] : x \in Places(s)}
    BY DEF PointsAt
  <2> HIDE DEF f, S
  <2> QED BY <2>1, PlacesAreFinite, ImageIsFinite
<1>2. /\ \A x \in S : x.measure \in Nat /\ x.onset \in Nat
      /\ \A x, y \in S : x.measure = y.measure /\ x.onset = y.onset => x = y
  <2>1. ASSUME NEW x \in S PROVE x.measure \in Nat /\ x.onset \in Nat
    BY PlacesAreFinite, PointIsOfPlace
  <2>2. ASSUME NEW x \in S, NEW y \in S, x.measure = y.measure, x.onset = y.onset PROVE x = y
    <3>1. PICK a \in Places(s) :
            /\ x = [measure |-> a.measure, onset |-> a.onset,
                    refs |-> {z \in Places(s) : PointOf(z) = PointOf(a)}]
            /\ x.measure = a.measure /\ x.onset = a.onset
      BY PointIsOfPlace
    <3>2. PICK b \in Places(s) :
            /\ y = [measure |-> b.measure, onset |-> b.onset,
                    refs |-> {z \in Places(s) : PointOf(z) = PointOf(b)}]
            /\ y.measure = b.measure /\ y.onset = b.onset
      BY PointIsOfPlace
    <3>3. a.measure = b.measure /\ a.onset = b.onset
      BY <2>2, <3>1, <3>2
    <3>4. PointOf(a) = PointOf(b)
      BY <3>3 DEF PointOf
    <3> QED BY <3>1, <3>2, <3>3, <3>4
  <2> HIDE DEF S
  <2> QED BY <2>1, <2>2
<1>3. \A x, y \in S : <<x, y>> \in L <=> Before(x, y)
  <2> HIDE DEF S
  <2> QED OBVIOUS
<1>4. StrictOrder(S, L)
  <2> HIDE DEF S, L
  <2> QED BY <1>2, <1>3 DEF Before, StrictOrder
<1>5. n \in Nat /\ \A i \in 1 .. n : \E x \in S : rank[x] = i - 1
  <2> HIDE DEF S, L
  <2> QED BY <1>1, <1>4, Ranked
<1>6. ASSUME NEW x \in S PROVE rank[x] = Cardinality({y \in S : Before(y, x)})
  <2>1. {y \in S : <<y, x>> \in L} = {y \in S : Before(y, x)}
    <3> HIDE DEF S, L
    <3> QED BY <1>3
  <2> HIDE DEF S, L
  <2> QED BY <2>1 DEF Ranks
<1>7. q = [i \in 1 .. n |-> CHOOSE x \in S : Cardinality({y \in S : Before(y, x)}) = i - 1]
  BY DEF Points, PointsAt, InOrder
<1>8. ASSUME NEW i \in 1 .. n PROVE q[i] \in S /\ Cardinality({y \in S : Before(y, q[i])}) = i - 1
  <2>1. PICK x \in S : rank[x] = i - 1
    BY <1>5
  <2>2. Cardinality({y \in S : Before(y, x)}) = i - 1
    <3> HIDE DEF S, rank
    <3> QED BY <1>6, <2>1
  <2>3. q[i] = CHOOSE xx \in S : Cardinality({y \in S : Before(y, xx)}) = i - 1
    <3> HIDE DEF S, q, n
    <3> QED BY <1>7
  <2> HIDE DEF S, q, n
  <2> QED BY <2>2, <2>3
<1>9. q \in Seq(S) /\ DOMAIN q = 1 .. n
  <2>1. \A i \in 1 .. n : q[i] \in S
    <3> HIDE DEF S, q, n
    <3> QED BY <1>8
  <2>2. q \in [1 .. n -> S]
    <3> HIDE DEF S, q, n
    <3> QED BY <1>7, <2>1
  <2> HIDE DEF S, q, n
  <2> QED BY <1>5, <2>2
<1>10. ASSUME q = <<>> PROVE Places(s) = {}
  <2>1. n = 0
    <3> HIDE DEF S, q, n
    <3> QED BY <1>5, <1>9, <1>10
  <2>2. S = {}
    <3> HIDE DEF S
    <3> QED BY <1>1, <2>1, FS_EmptySet
  <2> QED BY <2>2 DEF PointsAt
<1> HIDE DEF q, S
<1>11. QED BY <1>8, <1>9, <1>10 DEF q, S

\* As many steps lie behind a point as the score has earlier beginnings.
LEMMA PointsCountBeginnings ==
  ASSUME NEW s \in SoundScore, NEW c \in PointsAt(s)
  PROVE  Cardinality({y \in PointsAt(s) : Before(y, c)}) =
           Cardinality({PointOf(x) : x \in {x \in Places(s) : Before(x, c)}})
<1> DEFINE S == {y \in PointsAt(s) : Before(y, c)}
           T == {PointOf(x) : x \in {x \in Places(s) : Before(x, c)}}
           f == [y \in S |-> PointOf(y)]
<1>1. IsFiniteSet(T)
  <2> DEFINE P == {x \in Places(s) : Before(x, c)}
             g == [x \in P |-> PointOf(x)]
  <2>1. P \subseteq Places(s)
    OBVIOUS
  <2>2. IsFiniteSet(P)
    <3> HIDE DEF P
    <3> QED BY <2>1, PlacesAreFinite, FS_Subset
  <2>3. DOMAIN g = P /\ T = {g[x] : x \in P}
    OBVIOUS
  <2> HIDE DEF P, g, T
  <2> QED BY <2>2, <2>3, ImageIsFinite
<1>2. ASSUME NEW y \in S
      PROVE  \E x \in Places(s) : /\ Before(x, c) /\ PointOf(x) = PointOf(y)
                                  /\ y = [measure |-> x.measure, onset |-> x.onset,
                                          refs |-> {z \in Places(s) : PointOf(z) = PointOf(x)}]
  <2>1. y \in PointsAt(s) /\ Before(y, c)
    OBVIOUS
  <2>2. PICK x \in Places(s) :
           /\ y = [measure |-> x.measure, onset |-> x.onset,
                   refs |-> {z \in Places(s) : PointOf(z) = PointOf(x)}]
           /\ y.measure = x.measure /\ y.onset = x.onset /\ PointOf(y) = PointOf(x)
    BY <2>1, PointIsOfPlace
  <2>3. Before(x, c)
    BY <2>1, <2>2 DEF Before
  <2> QED BY <2>2, <2>3
<1>3. f \in [S -> T]
  <2>1. ASSUME NEW y \in S PROVE PointOf(y) \in T
    <3>1. PICK x \in Places(s) : Before(x, c) /\ PointOf(x) = PointOf(y)
      BY <1>2
    <3> QED BY <3>1
  <2> HIDE DEF S, T
  <2> QED BY <2>1
<1>4. ASSUME NEW y \in S, NEW z \in S, PointOf(y) = PointOf(z) PROVE y = z
  <2> HIDE DEF S
  <2> QED BY <1>2, <1>4 DEF PointOf
<1>5. ASSUME NEW t \in T PROVE \E y \in S : PointOf(y) = t
  <2>1. PICK x \in Places(s) : Before(x, c) /\ t = PointOf(x)
    OBVIOUS
  <2> DEFINE y == [measure |-> x.measure, onset |-> x.onset,
                   refs |-> {z \in Places(s) : PointOf(z) = PointOf(x)}]
  <2>2. y \in PointsAt(s)
    BY DEF PointsAt
  <2>3. PointOf(y) = t /\ Before(y, c)
    BY <2>1 DEF PointOf, Before
  <2> HIDE DEF y
  <2> QED BY <2>2, <2>3
<1>6. f \in Bijection(S, T)
  <2>1. /\ \A a, b \in S : f[a] = f[b] => a = b
        /\ \A t \in T : \E a \in S : f[a] = t
    <3> HIDE DEF S, T
    <3> QED BY <1>4, <1>5
  <2> HIDE DEF f, S, T
  <2> QED BY <1>3, <2>1, Fun_IsBij
<1>7. f \in Injection(S, T) /\ f \in Surjection(S, T)
  <2> HIDE DEF f, S, T
  <2> QED BY <1>6, Fun_BijectionProperties
<1>8. Cardinality(S) = Cardinality(T)
  <2> HIDE DEF f, S, T
  <2> QED BY <1>1, <1>7, FS_Injection
<1> QED BY <1>8

-----------------------------------------------------------------------------
\* A state stands at a point of the plan of its revision, or that plan is empty.
AtItsPoint(x) ==
  LET points == Points(past[x.revision]) IN
  /\ x.revision \in DOMAIN past
  /\ IF x.index = 0 THEN points = <<>> /\ x.cursor = <<>>
     ELSE x.index \in DOMAIN points /\ x.cursor = <<points[x.index]>>

PlanHolds(plan) ==
  plan.revision \in DOMAIN past /\ plan.points = Points(past[plan.revision])

\* The revisions are kept as they were; a plan is of one of them, and so is the
\* state a client has got to.
NavInv ==
  /\ past \in Seq(SoundScore) /\ past # <<>> /\ score = past[Len(past)]
  /\ \A plan \in plans : PlanHolds(plan)
  /\ nav = <<>> \/ (\E x : nav = <<x>> /\ AtItsPoint(x))

\* Nothing has been planned at first.
LEMMA NavStarts ==
  ASSUME NavInit
  PROVE  NavInv
<1>1. score \in SoundScore /\ past = <<score>> /\ plans = {} /\ nav = <<>>
  BY StartsAsRead DEF NavInit
<1>2. past \in Seq(SoundScore) /\ past # <<>> /\ Len(past) = 1 /\ past[1] = score
  BY <1>1
<1> QED BY <1>1, <1>2 DEF NavInv

\* A state made of a plan stands at one of its points.
LEMMA StateOfPlan ==
  ASSUME NEW plan, PlanHolds(plan), NEW mode, NEW index,
         index \in DOMAIN plan.points \/ (index = 0 /\ plan.points = <<>>),
         0 \notin DOMAIN plan.points
  PROVE  AtItsPoint(StateAt(plan, mode, index))
<1> DEFINE x == StateAt(plan, mode, index)
<1>1. /\ x.revision = plan.revision /\ x.index = index
      /\ x.cursor = IF index = 0 THEN <<>> ELSE <<plan.points[index]>>
  BY DEF StateAt
<1>2. ASSUME index \in DOMAIN plan.points PROVE AtItsPoint(x)
  <2>1. index # 0
    BY <1>2
  <2> HIDE DEF x
  <2> QED BY <1>1, <1>2, <2>1 DEF AtItsPoint, PlanHolds
<1>3. ASSUME index = 0, plan.points = <<>> PROVE AtItsPoint(x)
  <2> HIDE DEF x
  <2> QED BY <1>1, <1>3 DEF AtItsPoint, PlanHolds
<1> QED BY <1>2, <1>3

\* The points of a plan are a sequence.
LEMMA PlanIsSequence ==
  ASSUME past \in Seq(SoundScore), NEW plan, PlanHolds(plan)
  PROVE  /\ Len(plan.points) \in Nat /\ DOMAIN plan.points = 1 .. Len(plan.points)
         /\ plan.points # <<>> => 1 \in DOMAIN plan.points
         /\ 0 \notin DOMAIN plan.points
<1>1. past[plan.revision] \in SoundScore
  BY DEF PlanHolds
<1>2. plan.points \in Seq(PointsAt(past[plan.revision]))
  BY <1>1, PointsAreOrdered DEF PlanHolds
<1> QED BY <1>2

\* A state that a call makes of a plan keeps everything as it should be.
LEMMA NavStateKept ==
  ASSUME NavInv, NavNext, UNCHANGED <<score, past, plans>>,
         NEW plan \in plans, NEW mode, NEW index,
         nav' = <<StateAt(plan, mode, index)>>,
         index \in DOMAIN plan.points \/ (index = 0 /\ plan.points = <<>>)
  PROVE  NavInv'
<1>1. PlanHolds(plan)
  BY DEF NavInv
<1>2. AtItsPoint(StateAt(plan, mode, index))
  BY <1>1, PlanIsSequence, StateOfPlan DEF NavInv
<1> DEFINE x == StateAt(plan, mode, index)
<1>3. nav' = <<x>> /\ AtItsPoint(x)'
  <2>1. past' = past
    OBVIOUS
  <2> HIDE DEF x
  <2> QED BY <1>2, <2>1 DEF AtItsPoint, x, StateAt
<1>4. (\A plan_1 \in plans : PlanHolds(plan_1))'
  BY DEF NavInv, PlanHolds
<1> HIDE DEF x
<1> QED BY <1>3, <1>4 DEF NavInv

\* No call takes the plans or the state from their revisions.
LEMMA NavStepKeeps ==
  ASSUME NavInv, [NavNext]_navVars
  PROVE  NavInv'
<1>1. CASE UNCHANGED navVars
  BY <1>1 DEF navVars, NavInv, PlanHolds, AtItsPoint
<1>2. CASE Revise
  <2>1. /\ score' \in SoundScore /\ past' = Append(past, score') /\ plans' = plans /\ nav' = nav
    <3>1. score \in SoundScore
      BY DEF NavInv
    <3> QED BY <1>2, <3>1, EditKeepsSound DEF Revise
  <2>2. /\ past' \in Seq(SoundScore) /\ past' # <<>> /\ score' = past'[Len(past')]
        /\ \A r \in DOMAIN past : r \in DOMAIN past' /\ past'[r] = past[r]
    BY <2>1 DEF NavInv
  <2>3. ASSUME NEW plan \in plans PROVE PlanHolds(plan)'
    BY <2>2 DEF NavInv, PlanHolds
  <2>4. ASSUME NEW x, AtItsPoint(x) PROVE AtItsPoint(x)'
    <3>1. x.revision \in DOMAIN past /\ past'[x.revision] = past[x.revision] /\ x.revision \in DOMAIN past'
      BY <2>2, <2>4 DEF AtItsPoint
    <3> QED BY <2>4, <3>1 DEF AtItsPoint
  <2> QED BY <2>1, <2>2, <2>3, <2>4 DEF NavInv
<1>3. CASE BuildPlan
  <2> DEFINE plan == [revision |-> Len(past), points |-> Points(score)]
  <2>1. plans' = plans \union {plan} /\ UNCHANGED <<score, past, nav>>
    BY <1>3 DEF BuildPlan
  <2>2. Len(past) \in DOMAIN past
    BY DEF NavInv
  <2>3. PlanHolds(plan)
    BY <2>2 DEF PlanHolds, NavInv
  <2>4. ASSUME NEW l \in plans' PROVE PlanHolds(l)'
    <3>1. PlanHolds(l)
      <4> HIDE DEF plan
      <4> QED BY <2>1, <2>3 DEF NavInv
    <3> QED BY <2>1, <3>1 DEF PlanHolds
  <2> HIDE DEF plan
  <2> QED BY <2>1, <2>4 DEF NavInv, AtItsPoint
<1>4. CASE Initialize
  <2>1. PICK plan \in plans : nav' = <<StateAt(plan, "stopped", First(plan))>>
    BY <1>4 DEF Initialize
  <2>2. UNCHANGED <<score, past, plans>> /\ NavNext
    BY <1>4 DEF Initialize, NavNext
  <2>3. PlanHolds(plan)
    BY DEF NavInv
  <2>4. First(plan) \in DOMAIN plan.points \/ (First(plan) = 0 /\ plan.points = <<>>)
    BY <2>3, PlanIsSequence DEF First, NavInv
  <2> QED BY <2>1, <2>2, <2>4, NavStateKept
<1>5. CASE Navigate
  <2>1. PICK plan \in plans :
          /\ StateHolds(plan)
          /\ \/ StartNavigation(plan) \/ PauseNavigation(plan) \/ StopNavigation(plan)
             \/ SeekCursor(plan) \/ AdvanceCursor(plan)
    BY <1>5 DEF Navigate
  <2>2. UNCHANGED <<score, past, plans>> /\ NavNext
    BY <1>5 DEF Navigate, NavNext
  <2>3. PlanHolds(plan)
    BY DEF NavInv
  <2>4. /\ Len(plan.points) \in Nat /\ DOMAIN plan.points = 1 .. Len(plan.points)
        /\ plan.points # <<>> => 1 \in DOMAIN plan.points
        /\ 0 \notin DOMAIN plan.points
    BY <2>3, PlanIsSequence DEF NavInv
  <2>5. \/ nav[1].index \in DOMAIN plan.points
        \/ (nav[1].index = 0 /\ plan.points = <<>>)
    BY <2>1 DEF StateHolds
  <2>6. \E mode, index : /\ nav' = <<StateAt(plan, mode, index)>>
                         /\ index \in DOMAIN plan.points \/ (index = 0 /\ plan.points = <<>>)
    <3>1. CASE StartNavigation(plan)
      BY <2>5, <3>1 DEF StartNavigation, Becomes
    <3>2. CASE PauseNavigation(plan)
      BY <2>5, <3>2 DEF PauseNavigation, Becomes
    <3>3. CASE StopNavigation(plan)
      BY <2>4, <3>3 DEF StopNavigation, Becomes, First
    <3>4. CASE SeekCursor(plan)
      BY <3>4 DEF SeekCursor, Becomes
    <3>5. CASE AdvanceCursor(plan)
      <4>1. CASE nav[1].index < Len(plan.points)
        <5>1. nav' = <<StateAt(plan, "navigating", nav[1].index + 1)>>
          BY <3>5, <4>1 DEF AdvanceCursor, Becomes
        <5>2. nav[1].index + 1 \in DOMAIN plan.points
          BY <2>4, <2>5, <3>5, <4>1 DEF AdvanceCursor
        <5> QED BY <5>1, <5>2
      <4>2. CASE ~(nav[1].index < Len(plan.points))
        BY <2>5, <3>5, <4>2 DEF AdvanceCursor, Becomes
      <4> QED BY <4>1, <4>2
    <3> QED BY <2>1, <3>1, <3>2, <3>3, <3>4, <3>5
  <2> QED BY <2>2, <2>6, NavStateKept
<1> QED BY <1>1, <1>2, <1>3, <1>4, <1>5 DEF NavNext

\* A state that is of a plan stands where its revision says.
LEMMA CursorStandsInItsScore ==
  ASSUME NavInv
  PROVE  CursorIsInItsScore
<1> SUFFICES ASSUME NEW x \in Range(nav)
             PROVE  LET places == Places(past[x.revision]) IN
                    IF x.index = 0 THEN places = {}
                    ELSE \A c \in Range(x.cursor) :
                      /\ c.refs # {}
                      /\ c.refs = {y \in places : PointOf(y) = PointOf(c)}
                      /\ x.index = 1 + Cardinality({PointOf(y) : y \in {y \in places : Before(y, c)}})
  BY DEF CursorIsInItsScore
<1>1. AtItsPoint(x)
  <2>1. nav # <<>>
    BY DEF Range
  <2>2. PICK y : nav = <<y>> /\ AtItsPoint(y)
    BY <2>1 DEF NavInv
  <2>3. x = y
    BY <2>2 DEF Range
  <2> QED BY <2>2, <2>3
<1> DEFINE s == past[x.revision]
           points == Points(s)
<1>2. s \in SoundScore
  BY <1>1 DEF AtItsPoint, NavInv
<1>3. /\ points \in Seq(PointsAt(s))
      /\ \A i \in DOMAIN points : Cardinality({y \in PointsAt(s) : Before(y, points[i])}) = i - 1
      /\ points = <<>> => Places(s) = {}
  <2> HIDE DEF s
  <2> QED BY <1>2, PointsAreOrdered
<1>4. CASE x.index = 0
  BY <1>1, <1>3, <1>4 DEF AtItsPoint
<1>5. CASE x.index # 0
  <2> DEFINE c == points[x.index]
  <2>1. x.index \in DOMAIN points /\ x.cursor = <<c>>
    BY <1>1, <1>5 DEF AtItsPoint
  <2>2. c \in PointsAt(s) /\ x.index \in Nat
    <3> HIDE DEF points, s
    <3> QED BY <1>3, <2>1
  <2>3. PICK y \in Places(s) : /\ PointOf(c) = PointOf(y)
                               /\ c.refs = {z \in Places(s) : PointOf(z) = PointOf(y)}
    <3> HIDE DEF c, s
    <3> QED BY <2>2, PointIsOfPlace
  <2>4. c.refs # {} /\ c.refs = {z \in Places(s) : PointOf(z) = PointOf(c)}
    <3> HIDE DEF c, s
    <3> QED BY <2>3
  <2>5. Cardinality({PointOf(z) : z \in {z \in Places(s) : Before(z, c)}}) = x.index - 1
    <3>1. Cardinality({z \in PointsAt(s) : Before(z, c)}) = x.index - 1
      <4> HIDE DEF s, points
      <4> QED BY <1>3, <2>1
    <3> HIDE DEF c, s
    <3> QED BY <1>2, <2>2, <3>1, PointsCountBeginnings
  <2>6. x.index = 1 + Cardinality({PointOf(z) : z \in {z \in Places(s) : Before(z, c)}})
    <3> HIDE DEF c, s
    <3> QED BY <2>2, <2>5
  <2>7. \A d \in Range(x.cursor) : d = c
    <3> HIDE DEF c, s
    <3> QED BY <2>1 DEF Range
  <2> HIDE DEF c
  <2> QED BY <1>5, <2>4, <2>6, <2>7
<1> QED BY <1>4, <1>5

\* Whatever is edited while plans are made, kept and mixed, a cursor stands at
\* the events that begin together in the revision it navigates, at the place in
\* the order its index says.  (review_transport _validate_state_for_plan.)
THEOREM CursorStaysInItsScore == NavSpec => []CursorIsInItsScore
<1>1. NavInit => NavInv
  BY NavStarts
<1>2. NavInv /\ [NavNext]_navVars => NavInv'
  BY NavStepKeeps
<1>3. NavInv => CursorIsInItsScore
  BY CursorStandsInItsScore
<1> QED BY <1>1, <1>2, <1>3, PTL DEF NavSpec

=============================================================================
