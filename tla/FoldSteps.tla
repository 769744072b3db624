------------------------------ MODULE FoldSteps ------------------------------
(***************************************************************************)
(* What a fold over a sequence computes, for any operator Op.              *)
(***************************************************************************)
EXTENDS Integers, Sequences, SequencesExt, WellFoundedInduction, TLAPS

CONSTANT Op(_, _)

Fold(base, s) == FoldLeft(Op, base, s)

-----------------------------------------------------------------------------
\* A set of naturals that is not empty has a least one, whatever is folded.
LEMMA LeastNatural ==
  ASSUME NEW T \in SUBSET Nat, T # {}
  PROVE  \E x \in T : \A y \in T : x <= y
<1> DEFINE R == {p \in Nat \X Nat : p[1] < p[2]}
<1>1. IsWellFoundedOn(R, Nat)
  BY NatLessThanWellFounded DEF OpToRel
<1>2. \E x \in T : \A y \in T : <<y, x>> \notin R
  <2> HIDE DEF R
  <2> QED
    BY <1>1, WFMin
<1>3. \A x, y \in Nat : <<y, x>> \in R <=> y < x
  OBVIOUS
<1>4. PICK x \in T : \A y \in T : <<y, x>> \notin R
  BY <1>2
<1>5. \A y \in T : ~(y < x)
  <2> HIDE DEF R
  <2> QED
    BY <1>3, <1>4
<1> QED
  BY <1>5

\* The natural numbers have no set closed under successors but themselves.
LEMMA Induction ==
  ASSUME NEW S, 0 \in S, \A n \in Nat : n \in S => n + 1 \in S
  PROVE  Nat \subseteq S
<1> SUFFICES ASSUME NEW m \in Nat, m \notin S PROVE FALSE
  OBVIOUS
<1> DEFINE T == {n \in Nat : n \notin S}
<1>1. PICK x \in T : \A y \in T : x <= y
  BY LeastNatural
<1>2. x # 0 /\ x - 1 \in Nat /\ x - 1 \notin T
  BY <1>1
<1> QED
  BY <1>1, <1>2

\* The greatest of some of the first n + 1 positions is the last, if it is one of them.
LEMMA MaxIs ==
  ASSUME NEW n \in Nat, NEW S \in SUBSET (1..(n + 1)), n + 1 \in S
  PROVE  Max(S) = n + 1
<1>1. \A y \in S : n + 1 >= y
  OBVIOUS
<1>2. Max(S) \in S /\ \A y \in S : Max(S) >= y
  BY <1>1 DEF Max
<1>3. Max(S) \in Int
  <2>1. \A y \in S : y \in Int
    OBVIOUS
  <2> QED
    BY <1>2, <2>1
<1> QED
  BY <1>1, <1>2, <1>3

LEMMA MaxIn ==
  ASSUME NEW n \in Nat, NEW S \in SUBSET (1..n), S # {}
  PROVE  Max(S) \in S /\ \A y \in S : y <= Max(S)
<1> DEFINE T == {n - y : y \in S}
<1>1. T \in SUBSET Nat /\ T # {}
  <2>1. \A y \in S : n - y \in Nat
    OBVIOUS
  <2> QED
    BY <2>1
<1>2. PICK x \in T : \A y \in T : x <= y
  BY <1>1, LeastNatural
<1>3. PICK m \in S : x = n - m
  BY <1>2
<1>4. \A y \in S : m >= y
  BY <1>2, <1>3
<1> QED
  BY <1>4 DEF Max

\* What FoldLeft computes is a function on the subsets of DOMAIN s.
Segments(n) == SUBSET (1..n)

\* Each value of v is one step from that of the segment without its last element.
Stepwise(v, base, s, n) ==
  \A S \in Segments(n) : v[S] = IF S = {} THEN base ELSE Op(v[S \ {Max(S)}], s[Max(S)])

\* Two sequences alike up to n have the same values on every segment up to n.
LEMMA SegmentsAgree ==
  ASSUME NEW n \in Nat, NEW base, NEW s, NEW r, NEW g, NEW h, \A k \in 1..n : s[k] = r[k],
         Stepwise(g, base, s, n), Stepwise(h, base, r, n)
  PROVE  \A S \in Segments(n) : g[S] = h[S]
<1> DEFINE K == {k \in Nat : k <= n => \A S \in SUBSET (1..k) : g[S] = h[S]}
<1>1. 0 \in K
  <2>1. \A S \in SUBSET (1..0) : S = {} /\ S \in Segments(n)
    BY DEF Segments
  <2> QED
    BY <2>1 DEF Stepwise
<1>2. ASSUME NEW k \in Nat, k \in K PROVE k + 1 \in K
  <2> SUFFICES ASSUME k + 1 <= n, NEW S \in SUBSET (1..(k + 1)) PROVE g[S] = h[S]
    OBVIOUS
  <2>1. \A T \in SUBSET (1..k) : g[T] = h[T]
    BY <1>2
  <2>2. CASE k + 1 \in S
    <3>1. Max(S) = k + 1
      BY <2>2, MaxIs
    <3>2. S \ {k + 1} \in SUBSET (1..k) /\ S \in Segments(n) /\ S # {}
      BY <2>2 DEF Segments
    <3>3. g[S] = Op(g[S \ {k + 1}], s[k + 1]) /\ h[S] = Op(h[S \ {k + 1}], r[k + 1])
      BY <3>1, <3>2 DEF Stepwise
    <3>4. g[S \ {k + 1}] = h[S \ {k + 1}] /\ s[k + 1] = r[k + 1]
      BY <2>1, <3>2
    <3> QED
      BY <3>3, <3>4
  <2>3. CASE k + 1 \notin S
    <3>1. S \in SUBSET (1..k)
      BY <2>3
    <3> QED
      BY <2>1, <3>1
  <2> QED
    BY <2>2, <2>3
<1>3. n \in K
  <2> HIDE DEF K
  <2> QED
    BY <1>1, <1>2, Induction
<1> QED
  BY <1>3 DEF Segments

\* FoldLeft's own function.
IsFold(g, base, s) ==
  g = [S \in Segments(Len(s)) |-> IF S = {} THEN base ELSE Op(g[S \ {Max(S)}], s[Max(S)])]

Values(base, s) == CHOOSE g : IsFold(g, base, s)

\* The values of a fold along s give one for each segment, folding its elements in order.
LEMMA SegmentsExist ==
  ASSUME NEW base, NEW s, Len(s) \in Nat
  PROVE  IsFold(Values(base, s), base, s)
<1> DEFINE Good(k, h) ==
      /\ h = [S \in Segments(k) |-> h[S]] /\ h[{}] = base
      /\ \A S \in Segments(k) \ {{}} : h[S] = Op(h[S \ {Max(S)}], s[Max(S)])
           K == {k \in Nat : \E h : Good(k, h)}
<1>1. 0 \in K
  <2> DEFINE h == [S \in Segments(0) |-> base]
  <2>1. Segments(0) = {{}}
    BY DEF Segments
  <2>2. h = [S \in Segments(0) |-> h[S]] /\ h[{}] = base
    BY <2>1
  <2> HIDE DEF h
  <2>3. Good(0, h)
    BY <2>1, <2>2
  <2> QED
    BY <2>3
<1>2. ASSUME NEW k \in Nat, k \in K PROVE k + 1 \in K
  <2>1. PICK h : Good(k, h)
    BY <1>2
  <2> DEFINE on(S) == Op(h[S \ {k + 1}], s[k + 1])
             u == [S \in Segments(k + 1) |-> IF k + 1 \in S THEN on(S) ELSE h[S]]
  <2>2. u = [S \in Segments(k + 1) |-> u[S]]
    <3> HIDE DEF on
    <3> QED
      OBVIOUS
  <2>3. \A S \in Segments(k + 1) : k + 1 \in S => u[S] = on(S)
    OBVIOUS
  <2>4. \A S \in Segments(k) : S \in Segments(k + 1) /\ k + 1 \notin S /\ u[S] = h[S]
    <3>1. \A S \in Segments(k) : S \in Segments(k + 1) /\ k + 1 \notin S
      BY DEF Segments
    <3> HIDE DEF on
    <3> QED
      BY <3>1
  <2> HIDE DEF u
  <2>5. u[{}] = base
    <3>1. {} \in Segments(k)
      BY DEF Segments
    <3> QED
      BY <2>1, <2>4, <3>1
  <2>6. ASSUME NEW S \in Segments(k + 1) \ {{}}
        PROVE  u[S] = Op(u[S \ {Max(S)}], s[Max(S)])
    <3>1. CASE k + 1 \in S
      <4>1. Max(S) = k + 1 /\ S \ {k + 1} \in Segments(k)
        BY <3>1, MaxIs DEF Segments
      <4>2. u[S] = on(S) /\ u[S \ {k + 1}] = h[S \ {k + 1}]
        BY <2>3, <2>4, <3>1, <4>1
      <4> QED
        BY <4>1, <4>2
    <3>2. CASE k + 1 \notin S
      <4>1. S \in Segments(k) \ {{}}
        BY <3>2 DEF Segments
      <4>2. S \ {Max(S)} \in Segments(k)
        BY <4>1 DEF Segments
      <4>3. h[S] = Op(h[S \ {Max(S)}], s[Max(S)])
        BY <2>1, <4>1
      <4> QED
        BY <2>4, <4>1, <4>2, <4>3
    <3> QED
      BY <3>1, <3>2
  <2>7. Good(k + 1, u)
    BY <2>2, <2>5, <2>6
  <2> HIDE DEF Good
  <2>8. k + 1 \in Nat
    OBVIOUS
  <2> QED
    BY <2>7, <2>8, Zenon
<1>3. PICK h : Good(Len(s), h)
  <2>1. Len(s) \in K
    <3> HIDE DEF K
    <3> QED
      BY <1>1, <1>2, Induction
  <2> QED
    BY <2>1
<1>4. \A S \in Segments(Len(s)) : h[S] = IF S = {} THEN base ELSE Op(h[S \ {Max(S)}], s[Max(S)])
  BY <1>3
<1>5. h = [S \in Segments(Len(s)) |-> h[S]]
  BY <1>3
<1>6. IsFold(h, base, s)
  <2> HIDE DEF Good
  <2> QED
    BY <1>4, <1>5, Zenon DEF IsFold
<1> QED
  BY <1>6, Zenon DEF Values

\* The fold of a sequence is its value on all of it.
LEMMA FoldIsValue ==
  ASSUME NEW E, NEW s \in Seq(E), NEW base
  PROVE  Fold(base, s) = Values(base, s)[1..Len(s)]
<1>1. DOMAIN s = 1..Len(s)
  OBVIOUS
<1> QED
  BY <1>1 DEF Fold, FoldLeft, MapThenFoldSet, Values, IsFold, Segments

\* The values of a fold are stepwise: this is what its definition promises and its existence gives.
LEMMA ValuesAre ==
  ASSUME NEW base, NEW s, Len(s) \in Nat
  PROVE  Stepwise(Values(base, s), base, s, Len(s))
<1> DEFINE g == Values(base, s)
<1>1. g = [T \in Segments(Len(s)) |-> IF T = {} THEN base ELSE Op(g[T \ {Max(T)}], s[Max(T)])]
  BY SegmentsExist, Zenon DEF IsFold
<1> HIDE DEF g
<1>2. \A S \in Segments(Len(s)) : g[S] = IF S = {} THEN base ELSE Op(g[S \ {Max(S)}], s[Max(S)])
  BY <1>1
<1> QED
  BY <1>2 DEF g, Stepwise

-----------------------------------------------------------------------------
\* No element, no step
LEMMA FoldEmpty == \A base : Fold(base, <<>>) = base
<1> TAKE base
<1> DEFINE none == <<>>
<1>1. none \in Seq({}) /\ Len(none) = 0
  OBVIOUS
<1>2. Fold(base, none) = Values(base, none)[1..0]
  <2> HIDE DEF none
  <2> QED
    BY <1>1, FoldIsValue
<1>3. 1..0 = {} /\ {} \in Segments(Len(none))
  BY <1>1 DEF Segments
<1>4. Values(base, none)[{}] = base
  <2> HIDE DEF none
  <2> QED
    BY <1>1, <1>3, ValuesAre DEF Stepwise
<1> QED
  BY <1>2, <1>3, <1>4

\* One more element is one more step, taken last.
LEMMA FoldAppend == \A E, base, e : \A s \in Seq(E) : Fold(base, Append(s, e)) = Op(Fold(base, s), e)
<1> TAKE E, base, e
<1> TAKE s \in Seq(E)
<1> DEFINE a == Append(s, e)
           n == Len(s)
           A == Values(base, a)
           V == Values(base, s)
<1>1. n \in Nat /\ Len(a) = n + 1 /\ a[n + 1] = e /\ a \in Seq(E \cup {e}) /\ \A k \in 1..n : a[k] = s[k]
  OBVIOUS
<1>2. Fold(base, s) = V[1..n] /\ Fold(base, a) = A[1..(n + 1)]
  <2> HIDE DEF a
  <2> QED
    BY <1>1, FoldIsValue
<1>3. \A S \in Segments(n) : S \in Segments(n + 1)
  BY DEF Segments
<1>4. A[1..(n + 1)] = Op(A[1..n], e)
  <2> DEFINE S == 1..(n + 1)
  <2>1. n + 1 \in S /\ S \in SUBSET (1..(n + 1)) /\ S # {} /\ S \ {n + 1} = 1..n
    <3> HIDE DEF n
    <3>1. n \in Nat
      BY <1>1
    <3> QED
      BY <3>1
  <2>2. Max(S) = n + 1
    <3> HIDE DEF n
    <3> QED
      BY <1>1, <2>1, MaxIs
  <2>3. S \in Segments(n + 1)
    BY DEF Segments
  <2>4. A[S] = Op(A[S \ {Max(S)}], a[Max(S)])
    <3>1. Stepwise(A, base, a, n + 1)
      <4> HIDE DEF a, n
      <4> QED
        BY <1>1, ValuesAre
    <3> HIDE DEF S, a, n, A
    <3> QED
      BY <2>1, <2>3, <3>1 DEF Stepwise
  <2> QED
    <3> HIDE DEF A, a
    <3> QED
      BY <1>1, <2>1, <2>2, <2>4
<1>5. A[1..n] = V[1..n]
  <2>1. Stepwise(A, base, a, n + 1)
    <3> HIDE DEF a, n
    <3> QED
      BY <1>1, ValuesAre
  <2>2. Stepwise(V, base, s, n)
    BY <1>1, ValuesAre
  <2> HIDE DEF A, V, a, n
  <2>3. Stepwise(A, base, a, n)
    BY <1>3, <2>1 DEF Stepwise
  <2>4. 1..n \in Segments(n)
    BY DEF Segments
  <2>5. \A S \in Segments(n) : A[S] = V[S]
    BY <1>1, <2>2, <2>3, SegmentsAgree
  <2> QED
    BY <2>4, <2>5
<1> QED
  <2> HIDE DEF A, V, a
  <2> QED
    BY <1>2, <1>4, <1>5 DEF a

\* A sequence of one or two is appended to one shorter.
LEMMA Pairs == \A x, y : <<x>> = Append(<<>>, x) /\ <<x, y>> = Append(<<x>>, y)
OBVIOUS

\* One step, two steps
LEMMA FoldFew ==
  /\ \A base, e : Fold(base, <<e>>) = Op(base, e)
  /\ \A base, e, f : Fold(base, <<e, f>>) = Op(Op(base, e), f)
<1>1. \A base, e : Fold(base, <<e>>) = Op(base, e)
  <2> TAKE base, e
  <2> DEFINE none == <<>>
             E == {e}
  <2>1. none \in Seq(E) /\ Append(none, e) = <<e>>
    OBVIOUS
  <2>2. Fold(base, none) = base
    BY FoldEmpty
  <2> HIDE DEF none, E
  <2>3. Fold(base, Append(none, e)) = Op(Fold(base, none), e)
    BY <2>1, FoldAppend
  <2>4. Fold(base, <<e>>) = Fold(base, Append(none, e))
    BY <2>1
  <2> QED
    BY <2>2, <2>3, <2>4
<1>2. \A base, e, f : Fold(base, <<e, f>>) = Op(Op(base, e), f)
  <2> TAKE base, e, f
  <2> DEFINE one == <<e>>
             E == {e}
  <2>1. one \in Seq(E)
    OBVIOUS
  <2>2. Fold(base, one) = Op(base, e)
    BY <1>1
  <2>4. Append(one, f) = <<e, f>>
    BY Pairs
  <2> HIDE DEF one, E
  <2>3. Fold(base, Append(one, f)) = Op(Fold(base, one), f)
    BY <2>1, FoldAppend
  <2> QED
    BY <2>2, <2>3, <2>4
<1> QED
  BY <1>1, <1>2

\* A set with the empty sequence, closed under appending, has every sequence.
LEMMA SequenceInduction ==
  ASSUME NEW E, NEW S, <<>> \in S, \A s \in Seq(E), e \in E : s \in S => Append(s, e) \in S
  PROVE  Seq(E) \subseteq S
<1> DEFINE K == {k \in Nat : \A s \in Seq(E) : Len(s) = k => s \in S}
<1>1. 0 \in K
  <2>1. \A s \in Seq(E) : Len(s) = 0 => s = <<>>
    OBVIOUS
  <2> QED
    BY <2>1
<1>2. ASSUME NEW k \in Nat, k \in K PROVE k + 1 \in K
  <2> SUFFICES ASSUME NEW s \in Seq(E), Len(s) = k + 1 PROVE s \in S
    OBVIOUS
  <2> DEFINE front == SubSeq(s, 1, k)
  <2>1. front \in Seq(E) /\ Len(front) = k /\ s[k + 1] \in E /\ s = Append(front, s[k + 1])
    OBVIOUS
  <2>2. front \in S
    BY <1>2, <2>1
  <2> HIDE DEF front
  <2> QED
    BY <2>1, <2>2
<1>3. Nat \subseteq K
  <2> HIDE DEF K
  <2> QED
    BY <1>1, <1>2, Induction
<1> QED
  BY <1>3

\* What every step keeps in V stays in V.
LEMMA FoldType ==
  ASSUME NEW E, NEW V, NEW base \in V, \A v \in V, e \in E : Op(v, e) \in V
  PROVE  \A s \in Seq(E) : Fold(base, s) \in V
<1> DEFINE S == {s \in Seq(E) : Fold(base, s) \in V}
<1>1. <<>> \in S
  BY FoldEmpty
<1>2. ASSUME NEW s \in Seq(E), NEW e \in E, s \in S PROVE Append(s, e) \in S
  BY <1>2, FoldAppend
<1>3. Seq(E) \subseteq S
  <2> HIDE DEF S
  <2> QED
    BY <1>1, <1>2, SequenceInduction
<1> QED
  BY <1>3

\* To fold over s and then r is to go on over r from what s gave.
LEMMA FoldConcat ==
  \A E, base : \A s, r \in Seq(E) : Fold(base, s \o r) = Fold(Fold(base, s), r)
<1> TAKE E, base
<1> TAKE s \in Seq(E)
<1> DEFINE S == {r \in Seq(E) : Fold(base, s \o r) = Fold(Fold(base, s), r)}
<1>1. <<>> \in S
  BY FoldEmpty
<1>2. ASSUME NEW r \in Seq(E), NEW e \in E, r \in S PROVE Append(r, e) \in S
  <2>1. s \o Append(r, e) = Append(s \o r, e) /\ s \o r \in Seq(E) /\ Append(r, e) \in Seq(E)
    OBVIOUS
  <2>2. Fold(base, s \o Append(r, e)) = Op(Fold(base, s \o r), e)
    <3> DEFINE t == s \o r
    <3>1. t \in Seq(E)
      BY <2>1
    <3> HIDE DEF t
    <3>2. Fold(base, Append(t, e)) = Op(Fold(base, t), e)
      BY <3>1, FoldAppend
    <3> QED
      BY <2>1, <3>2 DEF t
  <2>3. Fold(Fold(base, s), Append(r, e)) = Op(Fold(Fold(base, s), r), e)
    BY FoldAppend
  <2> QED
    BY <1>2, <2>1, <2>2, <2>3
<1>3. Seq(E) \subseteq S
  <2> HIDE DEF S
  <2> QED
    BY <1>1, <1>2, SequenceInduction
<1> QED
  BY <1>3

\* The fold of a longer prefix is one more step, and the fold of all of it the last.
ByPrefixes(base, s) ==
  /\ Fold(base, SubSeq(s, 1, 0)) = base
  /\ Fold(base, SubSeq(s, 1, Len(s))) = Fold(base, s)
  /\ \A k \in 1..Len(s) : Fold(base, SubSeq(s, 1, k)) = Op(Fold(base, SubSeq(s, 1, k - 1)), s[k])

LEMMA FoldBy == \A E, base : \A s \in Seq(E) : ByPrefixes(base, s)
<1> TAKE E, base
<1> TAKE s \in Seq(E)
<1>1. SubSeq(s, 1, 0) = <<>>
  OBVIOUS
<1>2. SubSeq(s, 1, Len(s)) = s
  OBVIOUS
<1>3. ASSUME NEW k \in 1..Len(s)
      PROVE  Fold(base, SubSeq(s, 1, k)) = Op(Fold(base, SubSeq(s, 1, k - 1)), s[k])
  <2> DEFINE p == SubSeq(s, 1, k - 1)
  <2>1. p \in Seq(E)
    OBVIOUS
  <2>2. SubSeq(s, 1, k) = Append(p, s[k])
    OBVIOUS
  <2> HIDE DEF p
  <2>3. Fold(base, Append(p, s[k])) = Op(Fold(base, p), s[k])
    BY <2>1, FoldAppend
  <2> QED
    BY <2>2, <2>3 DEF p
<1> QED
  BY <1>1, <1>2, <1>3, FoldEmpty DEF ByPrefixes

\* Sequences whose elements do the same to any value have the same fold.
LEMMA FoldAlike ==
  ASSUME NEW E, NEW base, NEW s \in Seq(E), NEW r \in Seq(E), Len(s) = Len(r),
         \A k \in 1..Len(s) : \A v : Op(v, s[k]) = Op(v, r[k])
  PROVE  Fold(base, s) = Fold(base, r)
<1> DEFINE S(k) == Fold(base, SubSeq(s, 1, k))
           R(k) == Fold(base, SubSeq(r, 1, k))
           K == {k \in Nat : k <= Len(s) => S(k) = R(k)}
<1>1. ByPrefixes(base, s) /\ ByPrefixes(base, r)
  BY FoldBy
<1>2. /\ S(0) = base /\ S(Len(s)) = Fold(base, s)
      /\ \A k \in 1..Len(s) : S(k) = Op(S(k - 1), s[k])
      /\ R(0) = base /\ R(Len(r)) = Fold(base, r)
      /\ \A k \in 1..Len(r) : R(k) = Op(R(k - 1), r[k])
  BY <1>1, Zenon DEF ByPrefixes
<1> HIDE DEF S, R
<1>3. 0 \in K
  BY <1>2
<1>4. ASSUME NEW k \in Nat, k \in K PROVE k + 1 \in K
  <2> SUFFICES ASSUME k + 1 <= Len(s) PROVE S(k + 1) = R(k + 1)
    OBVIOUS
  <2>1. k + 1 \in 1..Len(s) /\ k + 1 \in 1..Len(r) /\ (k + 1) - 1 = k /\ k <= Len(s)
    OBVIOUS
  <2>2. S(k + 1) = Op(S(k), s[k + 1]) /\ R(k + 1) = Op(R(k), r[k + 1])
    BY <1>2, <2>1
  <2>3. S(k) = R(k) /\ Op(R(k), s[k + 1]) = Op(R(k), r[k + 1])
    BY <1>4, <2>1
  <2> QED
    BY <2>2, <2>3
<1>5. Len(s) \in K
  <2> HIDE DEF K
  <2> QED
    BY <1>3, <1>4, Induction
<1> QED
  BY <1>2, <1>5
=============================================================================
