----------------------------- MODULE FoldFacts -----------------------------
(***************************************************************************)
(* What FoldLeft does with one operator, for sequences of every length.     *)
(* FoldLeft recurs over the sets of indices; the proofs show that the       *)
(* recursion has exactly one solution, by least counterexamples.           *)
(***************************************************************************)
EXTENDS Naturals, Sequences, SequencesExt, WellFoundedInduction, TLAPS

CONSTANTS Op(_, _), Base

Fold(s) == FoldLeft(Op, Base, s)

(* A set of numbers that is not empty has a least one. *)
LEMMA LeastNumber ==
  ASSUME NEW T, T \subseteq Nat, T # {}
  PROVE  \E m \in T : \A j \in T : m <= j
<1>1. \E m \in T : \A j \in T : ~ (<<j, m>> \in OpToRel(<, Nat))
  BY WFMin, NatLessThanWellFounded
<1>2. \A j, m \in Nat : j < m => <<j, m>> \in OpToRel(<, Nat)
  BY Zenon DEF OpToRel
<1>3. \E m \in T : \A j \in T : ~ (j < m)
  BY <1>1, <1>2, Zenon
<1>. QED BY <1>3

LEMMA MaxIs ==
  ASSUME NEW n \in Nat, NEW S \in SUBSET (1..n), S # {}
  PROVE  Max(S) \in S /\ Max(S) \in 1..n /\ \A j \in S : j <= Max(S)
<1>. DEFINE T == {n - j : j \in S}
<1>1. T \subseteq Nat /\ T # {}
  <2>1. \A j \in S : n - j \in Nat
    OBVIOUS
  <2>. QED BY <2>1
<1>2. \E m \in T : \A j \in T : m <= j
  <2>. HIDE DEF T
  <2>. QED BY <1>1, LeastNumber
<1>3. \E x \in S : \A y \in S : x >= y
  <2>1. PICK x \in S : \A j \in T : n - x <= j
    BY <1>2
  <2>2. \A y \in S : n - x <= n - y
    BY <2>1
  <2>. QED BY <2>2
<1>. QED BY <1>3 DEF Max

(* What FoldLeft's recursion over the first n indices asks of its solution. *)
Solves(g, s, n) ==
  g = [S \in SUBSET (1..n) |-> IF S = {} THEN Base ELSE Op(g[S \ {Max(S)}], s[Max(S)])]

(* The solution for one index more agrees where the sequences do. *)
LEMMA SolutionsAgree ==
  ASSUME NEW g, NEW h, NEW s, NEW t, NEW k \in Nat,
         Solves(g, s, k), Solves(h, t, k + 1),
         \A i \in 1..k : s[i] = t[i]
  PROVE  \A S \in SUBSET (1..k) : g[S] = h[S]
<1>. DEFINE Bad == {i \in 0..k : \E S \in SUBSET (1..i) : g[S] # h[S]}
<1>. SUFFICES ASSUME Bad # {} PROVE FALSE
  <2>1. k \in 0..k
    OBVIOUS
  <2>. QED BY <2>1
<1>1. PICK i \in Bad : \A j \in Bad : i <= j
  <2>1. Bad \subseteq Nat
    OBVIOUS
  <2>. HIDE DEF Bad
  <2>. QED BY <2>1, LeastNumber
<1>2. i \in 0..k
  OBVIOUS
<1>3. PICK S \in SUBSET (1..i) : g[S] # h[S]
  OBVIOUS
<1>4. S \in SUBSET (1..k) /\ S \in SUBSET (1..k + 1)
  BY <1>2
<1>5. g[S] = IF S = {} THEN Base ELSE Op(g[S \ {Max(S)}], s[Max(S)])
  <2>1. \A R \in SUBSET (1..k) : g[R] = IF R = {} THEN Base ELSE Op(g[R \ {Max(R)}], s[Max(R)])
    BY DEF Solves
  <2>. QED BY <1>4, <2>1
<1>6. h[S] = IF S = {} THEN Base ELSE Op(h[S \ {Max(S)}], t[Max(S)])
  <2>1. \A R \in SUBSET (1..k + 1) : h[R] = IF R = {} THEN Base ELSE Op(h[R \ {Max(R)}], t[Max(R)])
    BY DEF Solves
  <2>. QED BY <1>4, <2>1
<1>7. S # {}
  BY <1>3, <1>5, <1>6
<1>. DEFINE x == Max(S)
<1>8. x \in S /\ x \in 1..k /\ \A j \in S : j <= x
  BY <1>4, <1>7, MaxIs
<1>9. x \in 1..i
  BY <1>3, <1>8
<1>10. S \ {x} \in SUBSET (1..x - 1) /\ x - 1 \in 0..k /\ x - 1 < i
  <2>. HIDE DEF x
  <2>. QED BY <1>2, <1>3, <1>8, <1>9
<1>11. g[S \ {x}] = h[S \ {x}]
  <2>1. x - 1 \notin Bad
    <3>1. ~ (i <= x - 1)
      <4>. HIDE DEF x
      <4>. QED BY <1>2, <1>9, <1>10
    <3>. HIDE DEF Bad
    <3>. QED BY <1>1, <3>1
  <2>. QED BY <1>10, <2>1
<1>12. s[x] = t[x]
  BY <1>8
<1>. QED BY <1>3, <1>5, <1>6, <1>7, <1>11, <1>12

LEMMA SolutionExtends ==
  ASSUME NEW s, NEW n \in Nat, NEW g, Solves(g, s, n)
  PROVE  \E h : Solves(h, s, n + 1)
<1>. DEFINE h == [S \in SUBSET (1..n + 1) |->
                    IF n + 1 \in S THEN Op(g[S \ {n + 1}], s[n + 1]) ELSE g[S]]
<1>1. \A S \in SUBSET (1..n) : g[S] = IF S = {} THEN Base ELSE Op(g[S \ {Max(S)}], s[Max(S)])
  BY DEF Solves
<1>2. ASSUME NEW S \in SUBSET (1..n + 1)
      PROVE  h[S] = IF S = {} THEN Base ELSE Op(h[S \ {Max(S)}], s[Max(S)])
  <2>1. CASE S = {}
    BY <1>1, <2>1
  <2>2. CASE n + 1 \in S
    <3>1. Max(S) = n + 1
      <4>1. Max(S) \in 1..n + 1 /\ n + 1 <= Max(S)
        BY <2>2, MaxIs
      <4>. QED BY <4>1
    <3>2. S \ {n + 1} \in SUBSET (1..n + 1) /\ n + 1 \notin S \ {n + 1}
      OBVIOUS
    <3>3. h[S \ {n + 1}] = g[S \ {n + 1}]
      BY <3>2
    <3>4. h[S] = Op(g[S \ {n + 1}], s[n + 1])
      BY <2>2
    <3>. QED
      <4>. HIDE DEF h
      <4>. QED BY <2>2, <3>1, <3>3, <3>4
  <2>3. CASE S # {} /\ n + 1 \notin S
    <3>1. S \in SUBSET (1..n)
      BY <2>3
    <3>2. S \ {Max(S)} \in SUBSET (1..n + 1) /\ n + 1 \notin S \ {Max(S)}
      <4>1. 1..n \subseteq 1..n + 1 /\ n + 1 \notin 1..n
        OBVIOUS
      <4>2. \A x \in S : x \in 1..n + 1 /\ x # n + 1
        BY <3>1, <4>1
      <4>. QED BY <4>2
    <3>3. h[S \ {Max(S)}] = g[S \ {Max(S)}] /\ h[S] = g[S]
      BY <2>3, <3>2
    <3>. QED
      <4>. HIDE DEF h
      <4>. QED BY <1>1, <2>3, <3>1, <3>3
  <2>. QED BY <2>1, <2>2, <2>3
<1>3. h = [S \in SUBSET (1..n + 1) |-> h[S]]
  OBVIOUS
<1>4. h = [S \in SUBSET (1..n + 1) |-> IF S = {} THEN Base ELSE Op(h[S \ {Max(S)}], s[Max(S)])]
  <2>. HIDE DEF h
  <2>. QED BY <1>2, <1>3
<1>. QED
  <2>. HIDE DEF h
  <2>. QED BY <1>4 DEF Solves

LEMMA SolutionExists ==
  ASSUME NEW s, NEW n \in Nat
  PROVE  \E g : Solves(g, s, n)
<1>. DEFINE Bad == {m \in Nat : ~ \E g : Solves(g, s, m)}
<1>. SUFFICES ASSUME Bad # {} PROVE FALSE
  OBVIOUS
<1>1. PICK m \in Bad : \A j \in Bad : m <= j
  <2>1. Bad \subseteq Nat
    OBVIOUS
  <2>. HIDE DEF Bad
  <2>. QED BY <2>1, LeastNumber
<1>2. CASE m = 0
  <2>. DEFINE g == [S \in SUBSET (1..0) |-> Base]
  <2>1. SUBSET (1..0) = {{}}
    OBVIOUS
  <2>2. Solves(g, s, 0)
    BY <2>1 DEF Solves
  <2>3. m \in Nat /\ ~ \E f : Solves(f, s, m)
    OBVIOUS
  <2>. HIDE DEF g
  <2>. QED BY <1>2, <2>2, <2>3
<1>3. CASE m # 0
  <2>1. m - 1 \in Nat /\ (m - 1) + 1 = m /\ ~ (m <= m - 1)
    BY <1>3
  <2>2. m - 1 \notin Bad
    <3>. HIDE DEF Bad
    <3>. QED BY <1>1, <2>1
  <2>3. PICK g : Solves(g, s, m - 1)
    BY <2>1, <2>2
  <2>4. \E h : Solves(h, s, (m - 1) + 1)
    BY <2>1, <2>3, SolutionExtends
  <2>. QED BY <2>1, <2>4
<1>. QED BY <1>2, <1>3

LEMMA FoldSolves ==
  ASSUME NEW s, NEW n \in Nat, DOMAIN s = 1..n
  PROVE  \E g : Solves(g, s, n) /\ Fold(s) = g[1..n]
<1>1. \E g : Solves(g, s, n)
  BY SolutionExists
<1>. DEFINE g == CHOOSE g : Solves(g, s, n)
<1>2. Solves(g, s, n)
  BY <1>1
<1>3. Fold(s) = g[1..n]
  BY Zenon DEF Fold, FoldLeft, MapThenFoldSet, Solves
<1>. QED BY <1>2, <1>3

(* FoldLeft starts with its base... *)
LEMMA FoldEmpty == Fold(<<>>) = Base
<1>1. PICK g : Solves(g, <<>>, 0) /\ Fold(<<>>) = g[1..0]
  <2>1. DOMAIN <<>> = 1..0
    OBVIOUS
  <2>. QED BY <2>1, FoldSolves
<1>2. {} \in SUBSET (1..0) /\ 1..0 = {}
  OBVIOUS
<1>. QED BY <1>1, <1>2 DEF Solves

(* ...and takes the elements in their order. *)
LEMMA FoldAppend ==
  ASSUME NEW E, NEW s \in Seq(E), NEW e \in E
  PROVE  Fold(Append(s, e)) = Op(Fold(s), e)
<1>. DEFINE n == Len(s)
            t == Append(s, e)
<1>1. /\ n \in Nat /\ DOMAIN s = 1..n /\ DOMAIN t = 1..n + 1
      /\ \A i \in 1..n : t[i] = s[i]
      /\ t[n + 1] = e
  OBVIOUS
<1>. HIDE DEF n, t
<1>2. PICK g : Solves(g, s, n) /\ Fold(s) = g[1..n]
  BY <1>1, FoldSolves
<1>3. PICK h : Solves(h, t, n + 1) /\ Fold(t) = h[1..n + 1]
  <2>1. n + 1 \in Nat
    BY <1>1
  <2>. QED BY <1>1, <2>1, FoldSolves
<1>4. Max(1..n + 1) = n + 1
  <2>1. Max(1..n + 1) \in 1..n + 1 /\ n + 1 <= Max(1..n + 1)
    <3>1. n + 1 \in Nat /\ n + 1 \in 1..n + 1
      BY <1>1
    <3>2. 1..n + 1 # {} /\ 1..n + 1 \in SUBSET (1..n + 1)
      BY <3>1
    <3>. QED BY <3>1, <3>2, MaxIs
  <2>. QED BY <1>1, <2>1
<1>5. (1..n + 1) \ {n + 1} = 1..n /\ 1..n + 1 # {} /\ 1..n + 1 \in SUBSET (1..n + 1)
  <2>1. \A i : i \in (1..n + 1) \ {n + 1} <=> i \in 1..n
    BY <1>1
  <2>2. n + 1 \in 1..n + 1
    BY <1>1
  <2>. QED BY <2>1, <2>2
<1>6. h[1..n + 1] = Op(h[1..n], e)
  <2>1. \A S \in SUBSET (1..n + 1) : h[S] = IF S = {} THEN Base ELSE Op(h[S \ {Max(S)}], t[Max(S)])
    BY <1>3 DEF Solves
  <2>. QED BY <1>1, <1>4, <1>5, <2>1
<1>7. h[1..n] = g[1..n]
  <2>1. n \in Nat /\ \A i \in 1..n : s[i] = t[i]
    BY <1>1
  <2>2. \A S \in SUBSET (1..n) : g[S] = h[S]
    BY <1>2, <1>3, <2>1, SolutionsAgree
  <2>3. 1..n \in SUBSET (1..n)
    OBVIOUS
  <2>. QED BY <2>2, <2>3
<1>. QED BY <1>2, <1>3, <1>6, <1>7 DEF t

=============================================================================
