----------------------------- MODULE NaturalSets -----------------------------
(***************************************************************************)
(* Facts about numbers that the proofs of several components use.          *)
(***************************************************************************)
EXTENDS Integers, FiniteSetTheorems, WellFoundedInduction, TLAPS

\* A set of natural numbers has a least element: the initial intervals up to its
\* elements are finite sets, which strict inclusion orders well.
LEMMA LeastExists ==
    ASSUME NEW T, T \subseteq Nat, T # {}
    PROVE  \E x \in T : \A y \in T : x <= y
  <1> DEFINE Below == {1 .. x : x \in T}
  <1>1. Below \subseteq FiniteSubsetsOf(Int) /\ Below # {}
    <2>1. \A x \in T : IsFiniteSet(1 .. x) /\ 1 .. x \subseteq Int
      BY FS_Interval
    <2> QED BY <2>1 DEF FiniteSubsetsOf
  <1>2. PICK B \in Below : \A C \in Below : <<C, B>> \notin StrictSubsetOrdering(Int)
    <2> HIDE DEF Below
    <2>1. IsWellFoundedOn(StrictSubsetOrdering(Int), FiniteSubsetsOf(Int))
      BY FS_StrictSubsetOrderingWellFounded
    <2>2. \E B \in Below : \A C \in Below : ~ (<<C, B>> \in StrictSubsetOrdering(Int))
      BY <1>1, <2>1, WFMin
    <2> QED BY <2>2
  <1>3. PICK x \in T : B = 1 .. x
    OBVIOUS
  <1>4. ASSUME NEW y \in T PROVE x <= y
    <2> SUFFICES ASSUME y < x PROVE FALSE
      OBVIOUS
    <2>1. 1 .. y \in Below
      OBVIOUS
    <2>2. 1 .. y \subseteq 1 .. x /\ x \in 1 .. x /\ x \notin 1 .. y
      OBVIOUS
    <2>3. <<1 .. y, B>> \in StrictSubsetOrdering(Int)
      BY <1>3, <2>2 DEF StrictSubsetOrdering
    <2> QED BY <1>2, <2>1, <2>3
  <1> QED BY <1>4

\* A set of records numbered from 1 to n by their seq, each number once, has n
\* elements.
LEMMA NumberedCounts ==
    ASSUME NEW T, NEW n \in Nat,
           \A r \in T : r.seq \in 1 .. n,
           \A s \in 1 .. n : \E r \in T : r.seq = s,
           \A r, q \in T : r.seq = q.seq => r = q
    PROVE  IsFiniteSet(T) /\ Cardinality(T) = n
  <1> DEFINE f == [s \in 1 .. n |-> CHOOSE r \in T : r.seq = s]
  <1>1. \A s \in 1 .. n : f[s] \in T /\ f[s].seq = s
    OBVIOUS
  <1>2. f \in Bijection(1 .. n, T)
    <2>1. f \in Injection(1 .. n, T)
      BY <1>1 DEF Injection, IsInjective
    <2>2. \A r \in T : \E s \in 1 .. n : f[s] = r
      BY <1>1
    <2>3. f \in Surjection(1 .. n, T)
      BY <1>1, <2>2 DEF Surjection
    <2> QED BY <2>1, <2>3 DEF Bijection
  <1>3. IsFiniteSet(1 .. n) /\ Cardinality(1 .. n) = n
    BY FS_Interval
  <1>4. ExistsBijection(1 .. n, T)
    BY <1>2 DEF ExistsBijection
  <1> HIDE DEF f
  <1> QED BY <1>3, <1>4, FS_Bijection

=============================================================================
