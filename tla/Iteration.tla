------------------------------- MODULE Iteration -------------------------------
(***************************************************************************)
(* Numbers and repetition, for the proofs about definitions that recur:    *)
(* following the links of a path, adding up the bytes of a header.  The    *)
(* facts are stated for sets and functions, so that no prover has to find  *)
(* an operator to put into them.                                           *)
(***************************************************************************)
EXTENDS Integers, FiniteSetTheorems, WellFoundedInduction, TLAPS

\* Every set of numbers has a least one: of the intervals 1 .. n that its
\* elements make, one contains no other.
LEMMA LeastNumber ==
  ASSUME NEW S \in SUBSET Nat, S # {}
  PROVE  \E m \in S : \A k \in S : m <= k
<1> DEFINE Intervals == {1 .. n : n \in S}
<1>1. IsWellFoundedOn(StrictSubsetOrdering(Nat), FiniteSubsetsOf(Nat))
  BY FS_StrictSubsetOrderingWellFounded
<1>2. Intervals \subseteq FiniteSubsetsOf(Nat) /\ Intervals # {}
  <2>1. ASSUME NEW n \in S PROVE 1 .. n \in FiniteSubsetsOf(Nat)
    <3>1. IsFiniteSet(1 .. n)
      BY FS_Interval
    <3>2. 1 .. n \in SUBSET Nat
      OBVIOUS
    <3>3. QED BY <3>1, <3>2 DEF FiniteSubsetsOf
  <2>2. QED BY <2>1
<1>3. PICK b \in Intervals : \A c \in Intervals : <<c, b>> \notin StrictSubsetOrdering(Nat)
  <2> HIDE DEF Intervals
  <2>1. QED BY <1>1, <1>2, WFMin
<1>4. PICK m \in S : b = 1 .. m
  OBVIOUS
<1>5. ASSUME NEW k \in S, k < m PROVE FALSE
  <2>1. 1 .. k \in Intervals /\ 1 .. k \subseteq 1 .. m /\ 1 .. k # 1 .. m
    <3>1. m \in 1 .. m /\ m \notin 1 .. k
      BY <1>5
    <3>2. QED BY <1>5, <3>1
  <2>2. <<1 .. k, 1 .. m>> \in StrictSubsetOrdering(Nat)
    <3>1. 1 .. k \in SUBSET Nat /\ 1 .. m \in SUBSET Nat
      OBVIOUS
    <3>2. QED BY <2>1, <3>1 DEF StrictSubsetOrdering
  <2>3. QED BY <1>3, <1>4, <2>1, <2>2
<1>6. QED BY <1>5

\* A set that has 0, and with each number below N its successor, has all up to N.
LEMMA Induction ==
  ASSUME NEW N \in Nat, NEW S, 0 \in S,
         \A n \in 0 .. N - 1 : n \in S => n + 1 \in S
  PROVE  \A n \in 0 .. N : n \in S
<1> DEFINE Missing == {n \in 0 .. N : n \notin S}
<1> SUFFICES ASSUME Missing # {} PROVE FALSE
  OBVIOUS
<1>1. Missing \in SUBSET Nat
  OBVIOUS
<1>2. PICK m \in Missing : \A k \in Missing : m <= k
  <2> HIDE DEF Missing
  <2>1. QED BY <1>1, LeastNumber
<1>3. m \in 1 .. N
  OBVIOUS
<1>4. m - 1 \in S
  BY <1>2, <1>3
<1>5. QED BY <1>3, <1>4

\* N steps within S; the n-th is taken with the number n.
Steps(N, S) == [(1 .. N) \X S -> S]

\* g lists what the steps make of s.
Lists(g, N, s, step) == g[0] = s /\ \A n \in 1 .. N : g[n] = step[<<n, g[n - 1]>>]

LEMMA Repeated ==
  ASSUME NEW N \in Nat, NEW S, NEW s \in S, NEW step \in Steps(N, S)
  PROVE  \E g \in [0 .. N -> S] : Lists(g, N, s, step)
<1> DEFINE Upto(n, g) == g[0] = s /\ \A k \in 1 .. n : g[k] = step[<<k, g[k - 1]>>]
           Reached == {n \in 0 .. N : \E g \in [0 .. n -> S] : Upto(n, g)}
<1>1. 0 \in Reached
  <2>1. [k \in 0 .. 0 |-> s] \in [0 .. 0 -> S]
    OBVIOUS
  <2>2. Upto(0, [k \in 0 .. 0 |-> s])
    OBVIOUS
  <2> HIDE DEF Upto
  <2>3. \E g \in [0 .. 0 -> S] : Upto(0, g)
    BY <2>1, <2>2
  <2>4. QED BY <2>3
<1>2. ASSUME NEW n \in 0 .. N - 1, n \in Reached PROVE n + 1 \in Reached
  <2>1. PICK g \in [0 .. n -> S] : Upto(n, g)
    BY <1>2
  <2> DEFINE x == step[<<n + 1, g[n]>>]
             h == [k \in 0 .. n + 1 |-> IF k = n + 1 THEN x ELSE g[k]]
  <2>2. x \in S
    <3>1. <<n + 1, g[n]>> \in (1 .. N) \X S
      OBVIOUS
    <3>2. QED BY <3>1 DEF Steps
  <2>3. h \in [0 .. n + 1 -> S]
    BY <2>2
  <2>4. Upto(n + 1, h)
    <3>1. h[0] = s
      BY <2>1
    <3>2. ASSUME NEW k \in 1 .. n + 1 PROVE h[k] = step[<<k, h[k - 1]>>]
      <4>1. CASE k = n + 1
        BY <4>1
      <4>2. CASE k # n + 1
        BY <2>1, <4>2
      <4>3. QED BY <4>1, <4>2
    <3>3. QED BY <3>1, <3>2
  <2> HIDE DEF Upto, h
  <2>5. \E f \in [0 .. n + 1 -> S] : Upto(n + 1, f)
    BY <2>3, <2>4
  <2>6. QED BY <2>5
<1>3. N \in Reached
  <2> HIDE DEF Reached
  <2>1. QED BY <1>1, <1>2, Induction
<1>4. QED BY <1>3 DEF Lists
=============================================================================
