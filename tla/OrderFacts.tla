----------------------------- MODULE OrderFacts -----------------------------
(***************************************************************************)
(* The least element of a set of naturals, which is how the modules state  *)
(* "the first position such that": Min of FiniteSetsExt is a CHOOSE, and   *)
(* these lemmas say that it chooses something.  And the elements of a      *)
(* sequence made of two, or cut in two.                                    *)
(***************************************************************************)
EXTENDS Integers, Sequences, FiniteSetsExt, WellFoundedInduction, TLAPS

\* Every nonempty set of naturals has a least element.
LEMMA LeastExists ==
    ASSUME NEW S \in SUBSET Nat, S # {}
    PROVE  \E i \in S : \A j \in S : i =< j
<1>1. PICK x \in S : \A y \in S : ~(<<y, x>> \in OpToRel(<, Nat))
  BY NatLessThanWellFounded, WFMin, Zenon
<1>2. \A y \in S : <<y, x>> \notin {ss \in Nat \X Nat : ss[1] < ss[2]}
  BY <1>1 DEF OpToRel
<1>3. \A y \in S : x =< y
  <2> SUFFICES ASSUME NEW y \in S PROVE x =< y
    OBVIOUS
  <2>1. <<y, x>> \in Nat \X Nat
    OBVIOUS
  <2>2. ~(y < x)
    BY <1>2, <2>1
  <2> QED
    BY <2>2
<1> QED
  BY <1>3

\* Min of a nonempty set of naturals is its least element.
LEMMA MinIsLeast ==
    ASSUME NEW S \in SUBSET Nat, S # {}
    PROVE  Min(S) \in S /\ \A j \in S : Min(S) =< j
BY LeastExists DEF Min

\* The parts of a concatenation.
LEMMA ConcatFacts ==
    ASSUME NEW T, NEW p \in Seq(T), NEW c \in Seq(T)
    PROVE  /\ p \o c \in Seq(T)
           /\ Len(p \o c) = Len(p) + Len(c)
           /\ \A i \in 1..Len(p) : (p \o c)[i] = p[i]
           /\ \A i \in 1..Len(c) : (p \o c)[i + Len(p)] = c[i]
  OBVIOUS

\* What is left of a sequence without its first n elements.
LEMMA SuffixFacts ==
    ASSUME NEW T, NEW s \in Seq(T), NEW n \in 0..Len(s)
    PROVE  /\ SubSeq(s, n + 1, Len(s)) \in Seq(T)
           /\ Len(SubSeq(s, n + 1, Len(s))) = Len(s) - n
           /\ \A i \in 1..(Len(s) - n) : SubSeq(s, n + 1, Len(s))[i] = s[i + n]
  OBVIOUS

\* The first n elements of a sequence.
LEMMA PrefixFacts ==
    ASSUME NEW T, NEW s \in Seq(T), NEW n \in 0..Len(s)
    PROVE  /\ SubSeq(s, 1, n) \in Seq(T)
           /\ Len(SubSeq(s, 1, n)) = n
           /\ \A i \in 1..n : SubSeq(s, 1, n)[i] = s[i]
  OBVIOUS

\* Running sums exist: a recursive definition of them defines something.
LEMMA SumsExist ==
    ASSUME NEW n \in Nat, NEW W \in [1..n -> Nat]
    PROVE  \E g \in [0..n -> Nat] : g[0] = 0 /\ \A i \in 1..n : g[i] = g[i - 1] + W[i]
<1> DEFINE Sums(m) == {g \in [0..m -> Nat] : g[0] = 0 /\ \A i \in 1..m : g[i] = g[i - 1] + W[i]}
           Bad == {m \in 0..n : Sums(m) = {}}
<1>1. Bad = {}
  <2> SUFFICES ASSUME Bad # {} PROVE FALSE
    OBVIOUS
  <2>1. Bad \in SUBSET Nat
    OBVIOUS
  <2>2. PICK m \in Bad : \A j \in Bad : m =< j
    BY <2>1, LeastExists
  <2>3. m # 0
    <3>1. [i \in 0..0 |-> 0] \in Sums(0)
      OBVIOUS
    <3> QED
      BY <3>1
  <2>4. m \in 1..n /\ m - 1 \in 0..n
    BY <2>3
  <2>10. m - 1 \notin Bad
    <3> HIDE DEF Bad
    <3> QED
      BY <2>2, <2>4
  <2>5. PICK g \in [0..(m - 1) -> Nat] :
               g[0] = 0 /\ \A i \in 1..(m - 1) : g[i] = g[i - 1] + W[i]
    BY <2>4, <2>10
  <2> DEFINE h == [i \in 0..m |-> IF i = m THEN g[m - 1] + W[m] ELSE g[i]]
  <2>6. h \in [0..m -> Nat] /\ h[0] = 0
    BY <2>4, <2>5
  <2>7. \A i \in 1..m : h[i] = h[i - 1] + W[i]
    BY <2>4, <2>5
  <2> HIDE DEF h
  <2>8. h \in Sums(m)
    BY <2>6, <2>7
  <2>9. Sums(m) = {}
    OBVIOUS
  <2> QED
    BY <2>8, <2>9
<1>2. Sums(n) # {}
  <2> HIDE DEF Sums
  <2> QED
    BY <1>1
<1> QED
  BY <1>2

\* And whatever satisfies their equations is a natural number everywhere.
LEMMA SumsTyped ==
    ASSUME NEW n \in Nat, NEW W \in [1..n -> Nat], NEW f, DOMAIN f = 0..n,
           f = [i \in 0..n |-> f[i]],
           f[0] = 0, \A i \in 1..n : f[i] = f[i - 1] + W[i]
    PROVE  f \in [0..n -> Nat]
<1> DEFINE Bad == {i \in 0..n : f[i] \notin Nat}
<1>1. Bad = {}
  <2> SUFFICES ASSUME Bad # {} PROVE FALSE
    OBVIOUS
  <2>1. Bad \in SUBSET Nat
    OBVIOUS
  <2>2. PICK m \in Bad : \A j \in Bad : m =< j
    BY <2>1, LeastExists
  <2>3. m # 0
    OBVIOUS
  <2>4. m - 1 \in 0..n /\ m \in 1..n /\ f[m - 1] \in Nat
    BY <2>2, <2>3
  <2>5. f[m] = f[m - 1] + W[m] /\ W[m] \in Nat
    BY <2>4
  <2> QED
    BY <2>4, <2>5
<1> QED
  BY <1>1
=============================================================================
