----------------------------- MODULE FoldProofs -----------------------------
(***************************************************************************)
(* Facts about the folds by which the loops of the code are modelled, for  *)
(* any operation.  They are instantiated with the operation of a loop and  *)
(* what is claimed of it: FoldInduction is the rule of loop invariants.    *)
(***************************************************************************)
EXTENDS Naturals, Sequences, SequencesExt, SequenceTheorems, WellFoundedInduction, TLAPS

CONSTANTS
  Op(_, _, _),  \* what a loop makes of its state and one more element, given
                \* a parameter that it does not change
  Base,         \* the state in which it begins
  Inv(_, _, _)  \* what is claimed of its state after some elements

Loop(p, s) == FoldLeft(LAMBDA a, x : Op(p, a, x), Base, s)

\* A set of numbers that is not empty has a least member.
LEMMA LeastNumber ==
  ASSUME NEW S \in SUBSET Nat, S # {}
  PROVE  \E n \in S : \A m \in S : n <= m
<1>1. PICK n \in S : \A m \in S : ~ (<<m, n>> \in OpToRel(<, Nat))
  BY NatLessThanWellFounded, WFMin
<1>2. \A m \in S : ~ (m < n)
  BY <1>1 DEF OpToRel
<1> QED BY <1>2

\* A set of numbers that has 0, and with every number the next, has them all.
LEMMA AllNumbers ==
  ASSUME NEW S \in SUBSET Nat, 0 \in S, \A n \in S : n + 1 \in S
  PROVE  S = Nat
<1> SUFFICES ASSUME Nat \ S # {} PROVE FALSE
  OBVIOUS
<1>1. PICK n \in Nat \ S : \A m \in Nat \ S : n <= m
  BY LeastNumber
<1>2. n - 1 \in Nat /\ n - 1 \in S
  BY <1>1
<1> QED BY <1>1, <1>2

\* The greatest of the numbers up to n, and of those among them.
LEMMA MaxUpTo ==
  ASSUME NEW n \in Nat \ {0}, NEW T \in SUBSET (1 .. n), n \in T
  PROVE  Max(T) = n
<1>1. \A x \in T : (\A y \in T : x >= y) <=> x = n
  OBVIOUS
<1> QED BY <1>1 DEF Max

\* The equation of the recursive function that a fold is made of.
Solves(p, h, s, n) ==
  h = [T \in SUBSET (1 .. n) |->
         IF T = {} THEN Base ELSE Op(p, h[T \ {Max(T)}], s[Max(T)])]

LEMMA Solvable ==
  ASSUME NEW p, NEW s, NEW n \in Nat
  PROVE  \E h : Solves(p, h, s, n)
<1> DEFINE G == {k \in Nat : \E h : Solves(p, h, s, k)}
<1>1. 0 \in G
  <2>1. Solves(p, [T \in SUBSET (1 .. 0) |-> Base], s, 0)
    BY DEF Solves
  <2> QED BY <2>1
<1>2. ASSUME NEW k \in G PROVE k + 1 \in G
  <2>1. PICK h : Solves(p, h, s, k)
    OBVIOUS
  <2> DEFINE g == [T \in SUBSET (1 .. k + 1) |->
                     IF k + 1 \in T THEN Op(p, h[T \ {k + 1}], s[k + 1]) ELSE h[T]]
  <2>2. ASSUME NEW T \in SUBSET (1 .. k + 1)
        PROVE  g[T] = IF T = {} THEN Base ELSE Op(p, g[T \ {Max(T)}], s[Max(T)])
    <3>1. CASE k + 1 \in T
      <4>1. Max(T) = k + 1
        BY <3>1, MaxUpTo
      <4>2. T \ {k + 1} \in SUBSET (1 .. k + 1) /\ k + 1 \notin T \ {k + 1}
        OBVIOUS
      <4>3. g[T \ {k + 1}] = h[T \ {k + 1}]
        BY <4>2
      <4> QED BY <3>1, <4>1, <4>3
    <3>2. CASE k + 1 \notin T
      <4>1. T \in SUBSET (1 .. k)
        BY <3>2
      <4>2. g[T] = h[T]
        BY <3>2
      <4>3. h[T] = IF T = {} THEN Base ELSE Op(p, h[T \ {Max(T)}], s[Max(T)])
        BY <2>1, <4>1 DEF Solves
      <4>4. T \ {Max(T)} \in SUBSET (1 .. k + 1) /\ k + 1 \notin T \ {Max(T)}
        BY <3>2
      <4>5. g[T \ {Max(T)}] = h[T \ {Max(T)}]
        BY <4>4
      <4> QED BY <4>2, <4>3, <4>5
    <3> QED BY <3>1, <3>2
  <2>3. Solves(p, g, s, k + 1)
    BY <2>2 DEF Solves
  <2> QED BY <2>3
<1> HIDE DEF G
<1>3. G = Nat
  <2>1. G \in SUBSET Nat
    BY DEF G
  <2> QED BY <1>1, <1>2, <2>1, AllNumbers
<1> QED BY <1>3 DEF G

\* A fold is the last value of such a function.
LEMMA FoldSolves ==
  ASSUME NEW p, NEW S, NEW s \in Seq(S)
  PROVE  \E h : Solves(p, h, s, Len(s)) /\ Loop(p, s) = h[1 .. Len(s)]
<1> DEFINE h == CHOOSE h : Solves(p, h, s, Len(s))
<1>1. Solves(p, h, s, Len(s))
  BY Solvable, LenProperties
<1>2. DOMAIN s = 1 .. Len(s)
  BY LenProperties
<1>3. Loop(p, s) = h[1 .. Len(s)]
  BY <1>2 DEF Loop, FoldLeft, MapThenFoldSet, Solves
<1> QED BY <1>1, <1>3

\* The equation for the first numbers.
LEMMA SolutionStep ==
  ASSUME NEW p, NEW s, NEW n \in Nat, NEW h, Solves(p, h, s, n), NEW i \in Nat, i + 1 <= n
  PROVE  h[1 .. i + 1] = Op(p, h[1 .. i], s[i + 1])
<1> DEFINE T == 1 .. i + 1
<1>1. T \in SUBSET (1 .. n) /\ T \in SUBSET (1 .. i + 1) /\ i + 1 \in T
  OBVIOUS
<1>2. i + 1 \in Nat \ {0}
  OBVIOUS
<1>3. T # {} /\ Max(T) = i + 1
  BY <1>1, <1>2, MaxUpTo
<1>4. T \ {i + 1} = 1 .. i
  OBVIOUS
<1> HIDE DEF T
<1>5. h[T] = Op(p, h[T \ {Max(T)}], s[Max(T)])
  BY <1>1, <1>3 DEF Solves
<1>6. h[T] = Op(p, h[1 .. i], s[i + 1])
  BY <1>3, <1>4, <1>5
<1> QED BY <1>6 DEF T

\* A further element changes nothing of what is made of those before it.
LEMMA SolutionsAgree ==
  ASSUME NEW p, NEW s, NEW t, NEW n \in Nat, NEW h, NEW g,
         Solves(p, h, s, n), Solves(p, g, t, n + 1), \A i \in 1 .. n : s[i] = t[i]
  PROVE  h[1 .. n] = g[1 .. n]
<1> DEFINE G == {i \in Nat : i <= n => h[1 .. i] = g[1 .. i]}
<1>1. 0 \in G
  BY DEF Solves
<1>2. ASSUME NEW i \in G PROVE i + 1 \in G
  <2> SUFFICES ASSUME i + 1 <= n PROVE h[1 .. i + 1] = g[1 .. i + 1]
    OBVIOUS
  <2>1. i \in Nat /\ n + 1 \in Nat /\ i + 1 <= n + 1 /\ i + 1 \in 1 .. n
    OBVIOUS
  <2>2. h[1 .. i + 1] = Op(p, h[1 .. i], s[i + 1])
    BY <2>1, SolutionStep
  <2>3. g[1 .. i + 1] = Op(p, g[1 .. i], t[i + 1])
    BY <2>1, SolutionStep
  <2>4. h[1 .. i] = g[1 .. i] /\ s[i + 1] = t[i + 1]
    BY <2>1
  <2> QED BY <2>2, <2>3, <2>4
<1> HIDE DEF G
<1>3. G = Nat
  <2>1. G \in SUBSET Nat
    BY DEF G
  <2> QED BY <1>1, <1>2, <2>1, AllNumbers
<1> QED BY <1>3 DEF G

\* A loop over nothing ends as it begins.
LEMMA FoldEmpty == \A p : Loop(p, <<>>) = Base
<1> TAKE p
<1>1. PICK h : Solves(p, h, <<>>, 0) /\ Loop(p, <<>>) = h[1 .. 0]
  BY FoldSolves, EmptySeq
<1> QED BY <1>1 DEF Solves

\* A loop over one more element makes one more step.
LEMMA FoldAppend ==
  ASSUME NEW p, NEW S, NEW s \in Seq(S), NEW x \in S
  PROVE  Loop(p, Append(s, x)) = Op(p, Loop(p, s), x)
<1> DEFINE n == Len(s)
           t == Append(s, x)
<1>1. /\ n \in Nat /\ t \in Seq(S) /\ Len(t) = n + 1
      /\ t[n + 1] = x /\ \A i \in 1 .. n : t[i] = s[i]
  BY LenProperties, AppendProperties
<1>2. PICK h : Solves(p, h, s, n) /\ Loop(p, s) = h[1 .. n]
  BY FoldSolves
<1>3. PICK g : Solves(p, g, t, n + 1) /\ Loop(p, t) = g[1 .. n + 1]
  BY <1>1, FoldSolves
<1>4. h[1 .. n] = g[1 .. n]
  <2>1. n \in Nat /\ \A i \in 1 .. n : s[i] = t[i]
    BY <1>1
  <2> HIDE DEF n, t
  <2> QED BY <1>2, <1>3, <2>1, SolutionsAgree
<1>5. g[1 .. n + 1] = Op(p, g[1 .. n], t[n + 1])
  <2>1. n \in Nat /\ n + 1 \in Nat /\ n + 1 <= n + 1
    BY <1>1
  <2> HIDE DEF n, t
  <2> QED BY <1>3, <2>1, SolutionStep
<1> QED BY <1>1, <1>2, <1>3, <1>4, <1>5

\* What holds at the beginning of a loop, and is kept by its steps, holds of
\* its result.
LEMMA FoldInduction ==
  ASSUME NEW p, NEW S, NEW s \in Seq(S),
         Inv(p, Base, <<>>),
         \A t \in Seq(S), x \in S : \A a : Inv(p, a, t) => Inv(p, Op(p, a, x), Append(t, x))
  PROVE  Inv(p, Loop(p, s), s)
<1> DEFINE Upto(i) == SubSeq(s, 1, i)
           G == {i \in Nat : i <= Len(s) => Inv(p, Loop(p, Upto(i)), Upto(i))}
<1>0. Len(s) \in Nat /\ \A i \in 1 .. Len(s) : s[i] \in S
  BY LenProperties, ElementOfSeq
<1>1. 0 \in G
  <2>1. Upto(0) = <<>>
    BY SubSeqEmpty
  <2> QED BY <2>1, FoldEmpty
<1>2. ASSUME NEW i \in G PROVE i + 1 \in G
  <2> SUFFICES ASSUME i + 1 <= Len(s)
               PROVE  Inv(p, Loop(p, Upto(i + 1)), Upto(i + 1))
    OBVIOUS
  <2>1. Inv(p, Loop(p, Upto(i)), Upto(i))
    BY <1>0
  <2>2. Upto(i) \in Seq(S) /\ s[i + 1] \in S
    BY <1>0, SubSeqProperties
  <2>3. Upto(i + 1) = Append(Upto(i), s[i + 1])
    <3>1. Upto(i + 1) = Upto(i) \o <<s[i + 1]>>
      BY <1>0, SubSeqRecursiveSecond
    <3> QED BY <2>2, <3>1, AppendIsConcat
  <2> DEFINE t == Upto(i)
  <2> HIDE DEF t
  <2>4. t \in Seq(S) /\ Loop(p, Append(t, s[i + 1])) = Op(p, Loop(p, t), s[i + 1])
    <3>1. t \in Seq(S)
      BY <2>2 DEF t
    <3> QED BY <2>2, <3>1, FoldAppend
  <2>5. Inv(p, Loop(p, Append(t, s[i + 1])), Append(t, s[i + 1]))
    BY <2>1, <2>2, <2>4 DEF t
  <2> QED BY <2>3, <2>5 DEF t
<1> HIDE DEF G
<1>3. G = Nat
  <2>1. G \in SUBSET Nat
    BY DEF G
  <2> QED BY <1>1, <1>2, <2>1, AllNumbers
<1>4. Inv(p, Loop(p, Upto(Len(s))), Upto(Len(s)))
  BY <1>0, <1>3 DEF G
<1> QED BY <1>4, SubSeqFull
=============================================================================
