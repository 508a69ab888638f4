---------------------------- MODULE NumberLemmas ----------------------------
(***************************************************************************)
(* Least and greatest numbers, and induction over the natural numbers in   *)
(* terms of sets, for proofs about what folds and versions come to.        *)
(***************************************************************************)
EXTENDS Integers, FiniteSetsExt, WellFoundedInduction, TLAPS

(* A set of natural numbers has a least element, and a bounded one has the  *)
(* greatest that Max chooses.                                               *)
LEMMA LeastNat ==
    ASSUME NEW S \in SUBSET Nat, S # {}
    PROVE  \E m \in S : \A k \in S : m <= k
<1> DEFINE R == {ss \in Nat \X Nat : ss[1] < ss[2]}
<1>1. IsWellFoundedOn(R, Nat)
    BY NatLessThanWellFounded DEF OpToRel
<1>2. PICK m \in S : \A k \in S : ~ (<<k, m>> \in R)
  <2> HIDE DEF R
  <2> QED
      BY <1>1, WFMin
<1>3. ASSUME NEW k \in S
      PROVE  m <= k
  <2>1. k \in Nat /\ m \in Nat
      OBVIOUS
  <2>2. ~ (<<k, m>> \in R)
      BY <1>2
  <2>3. ~ (k < m)
      BY <2>1, <2>2
  <2> QED
      BY <2>1, <2>3
<1> QED
    BY <1>3

LEMMA GreatestIsMax ==
    ASSUME NEW N \in Nat, NEW S \in SUBSET (0..N), S # {}
    PROVE  Max(S) \in S /\ \A k \in S : Max(S) >= k
<1> DEFINE T == {k \in 0..N : N - k \in S}
<1>1. T \in SUBSET Nat /\ T # {}
  <2>1. PICK s \in S : TRUE
      OBVIOUS
  <2>2. N - s \in T
      OBVIOUS
  <2> QED
      BY <2>2
<1>2. PICK m \in T : \A k \in T : m <= k
  <2> HIDE DEF T
  <2> QED
      BY <1>1, LeastNat
<1>3. ASSUME NEW k \in S
      PROVE  N - m >= k
  <2>1. N - k \in T
      OBVIOUS
  <2>2. k \in 0..N /\ m \in 0..N /\ m <= N - k
      BY <2>1, <1>2
  <2> QED
      BY <2>2
<1>4. N - m \in S
    BY <1>2
<1> QED
    BY <1>3, <1>4 DEF Max

(* The greatest of some of the numbers up to n, and the rest of them, which  *)
(* is how FoldLeft goes through the indices of a sequence.                  *)
LEMMA MaxUpTo ==
    ASSUME NEW n \in Nat, NEW s \in SUBSET (1..n), s # {}
    PROVE  /\ Max(s) \in s
           /\ n \in s => Max(s) = n
           /\ s \ {Max(s)} \in SUBSET (1..n)
           /\ n \in s => s \ {Max(s)} \in SUBSET (1..(n - 1))
<1>1. s \in SUBSET (0..n)
    OBVIOUS
<1>2. Max(s) \in s /\ \A k \in s : Max(s) >= k
    BY <1>1, GreatestIsMax
<1>3. n \in s => Max(s) = n
  <2> DEFINE max == Max(s)
  <2>1. max \in 1..n /\ (n \in s => max >= n)
      BY <1>2
  <2> HIDE DEF max
  <2>2. n \in s => max = n
      BY <2>1
  <2> QED
      BY <2>2 DEF max
<1>4. ASSUME n \in s
      PROVE  s \ {Max(s)} \in SUBSET (1..(n - 1))
  <2>1. Max(s) = n
      BY <1>3, <1>4
  <2>2. s \ {n} \in SUBSET (1..(n - 1))
      OBVIOUS
  <2> QED
      BY <2>1, <2>2
<1> QED
    BY <1>2, <1>3, <1>4

(* Induction: a set of numbers with 0 and every successor has all of them.  *)
LEMMA NatInductionSet ==
    ASSUME NEW S, 0 \in S, \A n \in Nat : n \in S => n + 1 \in S
    PROVE  \A n \in Nat : n \in S
<1> DEFINE T == Nat \ S
<1>1. SUFFICES ASSUME T # {}
               PROVE  FALSE
    OBVIOUS
<1>2. PICK m \in T : \A k \in T : m <= k
  <2> HIDE DEF T
  <2> QED
      BY <1>1, LeastNat DEF T
<1>3. m \in Nat /\ m # 0 /\ m - 1 \in Nat /\ ~ (m <= m - 1)
    BY <1>2
<1>4. m - 1 \in S
    BY <1>2, <1>3
<1>5. (m - 1) + 1 \in S
    BY <1>3, <1>4
<1> QED
    BY <1>2, <1>3, <1>5
=============================================================================
