-------------------------- MODULE FoldLeftTheorems --------------------------
(***************************************************************************)
(* FoldLeft of the community modules, taken apart: what it returns for the *)
(* empty sequence and for a sequence with one more element at its end.     *)
(* The operator that is folded is a constant of this module, so that an    *)
(* INSTANCE gives the theorems for an operator of its own.  Induction is   *)
(* over sets of numbers and of sequences, as theorems about a set need no  *)
(* predicate for a parameter.                                              *)
(***************************************************************************)
EXTENDS SequencesExt, Integers, FiniteSetTheorems, WellFoundedInduction,
        SequenceTheorems, TLAPS

CONSTANT op(_, _)

-----------------------------------------------------------------------------
(* Induction.                                                              *)

\* A set that holds 0 and the successor of each of its numbers holds every number:
\* of the intervals 0..k to the others one would be the smallest.
LEMMA NatSetInduction ==
    ASSUME NEW T, 0 \in T, \A n \in T \cap Nat : n + 1 \in T
    PROVE  Nat \subseteq T
  <1> SUFFICES ASSUME NEW m \in Nat, m \notin T  PROVE FALSE
    OBVIOUS
  <1> DEFINE Rest == {k \in Nat : k \notin T}
             Intervals == {0..k : k \in Rest}
  <1>1. \A k \in Nat : 0..k \in FiniteSubsetsOf(Nat)
    <2> TAKE k \in Nat
    <2>1. IsFiniteSet(0..k)
      BY FS_Interval
    <2> QED BY <2>1 DEF FiniteSubsetsOf
  <1>2. Intervals \subseteq FiniteSubsetsOf(Nat) /\ Intervals # {}
    BY <1>1
  <1>3. PICK x \in Intervals :
            \A y \in Intervals : ~ (<<y, x>> \in StrictSubsetOrdering(Nat))
    <2> HIDE DEF Intervals
    <2> QED BY <1>2, FS_StrictSubsetOrderingWellFounded, WFMin
  <1>4. PICK k \in Rest : x = 0..k
    OBVIOUS
  <1>5. k - 1 \in Rest
    <2>1. k # 0 /\ k \in Nat /\ k \notin T
      OBVIOUS
    <2>2. k - 1 \in Nat /\ (k - 1) + 1 = k
      BY <2>1
    <2> QED BY <2>1, <2>2
  <1>6. <<0..(k - 1), 0..k>> \in StrictSubsetOrdering(Nat)
    <2>1. k \in 0..k /\ k \notin 0..(k - 1) /\ 0..(k - 1) \subseteq 0..k /\ 0..k \subseteq Nat
      OBVIOUS
    <2> QED BY <2>1 DEF StrictSubsetOrdering
  <1> QED BY <1>3, <1>4, <1>5, <1>6

\* A set that holds the empty sequence, and with a sequence each that is longer by one
\* element, holds every sequence.
LEMMA SeqSetInduction ==
    ASSUME NEW S, NEW T, <<>> \in T,
           \A s \in Seq(S) : s \in T => \A e \in S : Append(s, e) \in T
    PROVE  Seq(S) \subseteq T
  <1> DEFINE Lengths == {n \in Nat : \A s \in Seq(S) : Len(s) = n => s \in T}
  <1>1. 0 \in Lengths
    BY EmptySeq
  <1>2. \A n \in Lengths \cap Nat : n + 1 \in Lengths
    <2> SUFFICES ASSUME NEW n \in Lengths, NEW s \in Seq(S), Len(s) = n + 1
                 PROVE  s \in T
      OBVIOUS
    <2>1. PICK r \in Seq(S), e \in S : s = Append(r, e)
      BY EmptySeq, SequenceEmptyOrAppend
    <2>2. Len(r) = n
      BY <2>1, AppendProperties, LenProperties
    <2> QED BY <2>1, <2>2
  <1>3. Nat \subseteq Lengths
    <2> HIDE DEF Lengths
    <2> QED BY <1>1, <1>2, NatSetInduction
  <1> QED BY <1>3, LenProperties

-----------------------------------------------------------------------------
(* The fold.                                                               *)

Fold(base, seq) == FoldLeft(op, base, seq)

\* FoldLeft is a function on sets of indices that takes the greatest one off.
Steps(g, base, seq, S) ==
    [s \in SUBSET S |-> IF s = {} THEN base ELSE op(g[s \ {Max(s)}], seq[Max(s)])]
IsFold(g, base, seq, n) == g = Steps(g, base, seq, 1..n)
Agree(seq, other, n) == \A i \in 1..n : seq[i] = other[i]

\* The greatest number of an interval, and of a set that holds its end.
LEMMA MaxOfInterval ==
    ASSUME NEW n \in Nat, NEW s \in SUBSET (1..(n + 1)), n + 1 \in s
    PROVE  Max(s) = n + 1
  <1>1. \A x \in s : x \in Int /\ x <= n + 1
    OBVIOUS
  <1>2. \A x \in s : (\A y \in s : x >= y) => x = n + 1
    BY <1>1
  <1>3. \A y \in s : n + 1 >= y
    BY <1>1
  <1> QED BY <1>2, <1>3 DEF Max

\* There is such a function for each interval: that of the interval before, extended.
LEMMA FoldExists ==
    ASSUME NEW base, NEW seq, NEW n \in Nat
    PROVE  \E g : IsFold(g, base, seq, n)
  <1> DEFINE T == {k \in Nat : \E g : IsFold(g, base, seq, k)}
  <1>1. 0 \in T
    <2> DEFINE g == [s \in SUBSET (1..0) |-> base]
    <2>1. \A s \in SUBSET (1..0) : s = {}
      OBVIOUS
    <2>2. IsFold(g, base, seq, 0)
      BY <2>1 DEF IsFold, Steps
    <2> QED BY <2>2
  <1>2. ASSUME NEW k \in T \cap Nat  PROVE k + 1 \in T
    <2>1. PICK g : IsFold(g, base, seq, k)
      OBVIOUS
    <2> DEFINE h == [s \in SUBSET (1..(k + 1)) |->
                        IF s \subseteq 1..k THEN g[s] ELSE op(g[s \ {k + 1}], seq[k + 1])]
    <2>2. ASSUME NEW s \in SUBSET (1..(k + 1))
          PROVE  h[s] = IF s = {} THEN base ELSE op(h[s \ {Max(s)}], seq[Max(s)])
      <3>1. CASE s \subseteq 1..k
        <4>1. h[s] = g[s] /\ h[s \ {Max(s)}] = g[s \ {Max(s)}]
          BY <3>1
        <4>2. g[s] = IF s = {} THEN base ELSE op(g[s \ {Max(s)}], seq[Max(s)])
          BY <2>1, <3>1 DEF IsFold, Steps
        <4> QED BY <4>1, <4>2
      <3>2. CASE ~ (s \subseteq 1..k)
        <4>1. k + 1 \in s /\ s \ {k + 1} \subseteq 1..k
          BY <3>2
        <4>2. Max(s) = k + 1
          BY <4>1, MaxOfInterval
        <4>3. h[s] = op(g[s \ {k + 1}], seq[k + 1]) /\ h[s \ {k + 1}] = g[s \ {k + 1}]
          BY <3>2, <4>1
        <4> QED BY <4>1, <4>2, <4>3
      <3> QED BY <3>1, <3>2
    <2>3. h = Steps(h, base, seq, 1..(k + 1))
      BY <2>2 DEF Steps
    <2> QED BY <2>3 DEF IsFold
  <1>3. Nat \subseteq T
    <2> HIDE DEF T
    <2> QED BY <1>1, <1>2, NatSetInduction
  <1> QED BY <1>3

\* Two such functions, for sequences that agree up to n, agree on the intervals up to n.
LEMMA FoldUnique ==
    ASSUME NEW base, NEW seq, NEW other, NEW g, NEW h, NEW n \in Nat,
           IsFold(g, base, seq, n), IsFold(h, base, other, n + 1),
           Agree(seq, other, n)
    PROVE  g[1..n] = h[1..n]
  <1> DEFINE T == {k \in Nat : k <= n => g[1..k] = h[1..k]}
  <1>1. 0 \in T
    <2>1. 1..0 = {} /\ {} \in SUBSET (1..n) /\ {} \in SUBSET (1..(n + 1))
      OBVIOUS
    <2>2. g[{}] = base /\ h[{}] = base
      BY <2>1 DEF IsFold, Steps
    <2> QED BY <2>1, <2>2
  <1>2. ASSUME NEW k \in T \cap Nat  PROVE k + 1 \in T
    <2> SUFFICES ASSUME k + 1 <= n  PROVE g[1..(k + 1)] = h[1..(k + 1)]
      OBVIOUS
    <2> k \in Nat
      OBVIOUS
    <2>1. /\ 1..(k + 1) \subseteq 1..n /\ 1..(k + 1) \subseteq 1..(n + 1)
          /\ k + 1 \in 1..(k + 1) /\ (1..(k + 1)) \ {k + 1} = 1..k
      OBVIOUS
    <2>2. Max(1..(k + 1)) = k + 1
      BY <2>1, MaxOfInterval
    <2>3. g[1..(k + 1)] = op(g[1..k], seq[k + 1])
      <3>1. g[1..(k + 1)] = op(g[(1..(k + 1)) \ {Max(1..(k + 1))}], seq[Max(1..(k + 1))])
        BY <2>1 DEF IsFold, Steps
      <3> QED BY <2>1, <2>2, <3>1
    <2>4. h[1..(k + 1)] = op(h[1..k], other[k + 1])
      <3>1. h[1..(k + 1)] = op(h[(1..(k + 1)) \ {Max(1..(k + 1))}], other[Max(1..(k + 1))])
        BY <2>1 DEF IsFold, Steps
      <3> QED BY <2>1, <2>2, <3>1
    <2>5. g[1..k] = h[1..k] /\ seq[k + 1] = other[k + 1]
      BY DEF Agree
    <2> QED BY <2>3, <2>4, <2>5
  <1>3. Nat \subseteq T
    <2> HIDE DEF T
    <2> QED BY <1>1, <1>2, NatSetInduction
  <1> QED BY <1>3

\* FoldLeft is what such a function says of all indices.
LEMMA FoldIsSteps ==
    ASSUME NEW base, NEW seq, NEW n \in Nat, DOMAIN seq = 1..n
    PROVE  \E g : IsFold(g, base, seq, n) /\ Fold(base, seq) = g[1..n]
  <1> DEFINE g == CHOOSE g : g = Steps(g, base, seq, DOMAIN seq)
  <1>1. Fold(base, seq) = g[1..n]
    BY DEF Fold, FoldLeft, MapThenFoldSet, Steps
  <1>2. IsFold(g, base, seq, n)
    <2>1. \E f : f = Steps(f, base, seq, 1..n)
      BY FoldExists DEF IsFold
    <2> QED BY <2>1 DEF IsFold
  <1> QED BY <1>1, <1>2

\* The fold of the empty sequence is the base.
LEMMA FoldOfEmpty == \A base : Fold(base, <<>>) = base
  <1> TAKE base
  <1>1. DOMAIN <<>> = 1..0 /\ 1..0 = {}
    OBVIOUS
  <1>2. PICK g : IsFold(g, base, <<>>, 0) /\ Fold(base, <<>>) = g[1..0]
    BY <1>1, FoldIsSteps
  <1>3. g[{}] = base
    BY <1>1, <1>2 DEF IsFold, Steps
  <1> QED BY <1>1, <1>2, <1>3

\* The fold of a sequence with one more element is one step from that of the sequence.
LEMMA FoldOfAppend ==
    ASSUME NEW S
    PROVE  \A base : \A s \in Seq(S), e \in S :
               Fold(base, Append(s, e)) = op(Fold(base, s), e)
  <1> TAKE base
  <1> TAKE s \in Seq(S), e \in S
  <1>1. PICK n \in Nat : n = Len(s)
    BY LenProperties
  <1>2. PICK t : t = Append(s, e)
    OBVIOUS
  <1>3. /\ DOMAIN s = 1..n /\ DOMAIN t = 1..(n + 1)
        /\ t[n + 1] = e /\ \A i \in 1..n : s[i] = t[i]
    BY <1>1, <1>2, LenProperties, AppendProperties
  <1>4. PICK g : IsFold(g, base, s, n) /\ Fold(base, s) = g[1..n]
    BY <1>3, FoldIsSteps
  <1>5. PICK h : IsFold(h, base, t, n + 1) /\ Fold(base, t) = h[1..(n + 1)]
    BY <1>3, FoldIsSteps
  <1>6. g[1..n] = h[1..n]
    <2>1. IsFold(g, base, s, n) /\ IsFold(h, base, t, n + 1)
      BY <1>4, <1>5
    <2>2. Agree(s, t, n)
      BY <1>3 DEF Agree
    <2> QED BY <2>1, <2>2, FoldUnique
  <1>7. h[1..(n + 1)] = op(h[1..n], t[n + 1])
    <2>1. n + 1 \in 1..(n + 1) /\ (1..(n + 1)) \ {n + 1} = 1..n
      OBVIOUS
    <2>2. Max(1..(n + 1)) = n + 1
      BY <2>1, MaxOfInterval
    <2>3. 1..(n + 1) # {}
      BY <2>1
    <2>4. h[1..(n + 1)] = op(h[(1..(n + 1)) \ {Max(1..(n + 1))}], t[Max(1..(n + 1))])
      BY <1>5, <2>3 DEF IsFold, Steps
    <2> QED BY <2>1, <2>2, <2>4
  <1> QED BY <1>2, <1>3, <1>4, <1>5, <1>6, <1>7
=============================================================================
