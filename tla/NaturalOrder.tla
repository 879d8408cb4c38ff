----------------------------- MODULE NaturalOrder -----------------------------
(***************************************************************************)
(* Sets of naturals have a least element, and a greatest one if they are   *)
(* bounded: how the proofs reason about positions of ledgers and           *)
(* projections of any length.                                              *)
(***************************************************************************)
EXTENDS Naturals, FiniteSetTheorems, TLAPS

(* From the well-foundedness of strict inclusion between finite sets, applied
   to the intervals 1..n. *)
LEMMA LeastNat ==
  ASSUME NEW T \in SUBSET Nat, T # {}
  PROVE  \E n \in T : \A m \in T : n <= m
<1> DEFINE below == {1..n : n \in T}
<1>1. IsWellFoundedOn(StrictSubsetOrdering(Nat), FiniteSubsetsOf(Nat))
  BY FS_StrictSubsetOrderingWellFounded
<1>2. below \subseteq FiniteSubsetsOf(Nat)
  <2>1. ASSUME NEW n \in T PROVE 1..n \in FiniteSubsetsOf(Nat)
    BY FS_Interval DEF FiniteSubsetsOf
  <2> QED BY <2>1
<1>3. below # {}
  OBVIOUS
<1>4. PICK b \in below : \A c \in below : ~ (<<c, b>> \in StrictSubsetOrdering(Nat))
  <2> HIDE DEF below
  <2> QED BY <1>1, <1>2, <1>3, WFMin, Zenon
<1>5. PICK n \in T : b = 1..n
  OBVIOUS
<1>6. ASSUME NEW m \in T, m < n PROVE FALSE
  <2>1. 1..m \subseteq 1..n /\ n \in 1..n /\ n \notin 1..m /\ 1..m \subseteq Nat /\ 1..n \subseteq Nat
    BY <1>6
  <2>2. <<1..m, 1..n>> \in (SUBSET Nat) \X (SUBSET Nat) /\ 1..m # 1..n
    BY <2>1
  <2>3. <<1..m, b>> \in StrictSubsetOrdering(Nat)
    <3> DEFINE pair == <<1..m, 1..n>>
    <3>1. pair[1] = 1..m /\ pair[2] = 1..n
      OBVIOUS
    <3> HIDE DEF pair
    <3> QED BY <1>5, <2>1, <2>2, <3>1 DEF StrictSubsetOrdering, pair
  <2>4. 1..m \in below
    OBVIOUS
  <2> QED BY <1>4, <2>3, <2>4
<1> QED
  BY <1>6

(* The distance to the bound has a least value. *)
LEMMA GreatestNat ==
  ASSUME NEW T \in SUBSET Nat, T # {}, NEW bound \in Nat, \A n \in T : n <= bound
  PROVE  \E n \in T : \A m \in T : n >= m
<1> DEFINE left == {bound - n : n \in T}
<1>1. left \in SUBSET Nat /\ left # {}
  <2>1. \A n \in T : bound - n \in Nat
    OBVIOUS
  <2>2. left \in SUBSET Nat
    BY <2>1
  <2>3. left # {}
    OBVIOUS
  <2> QED
    BY <2>2, <2>3
<1>2. PICK d \in left : \A e \in left : d <= e
  <2> HIDE DEF left
  <2> QED
    BY <1>1, LeastNat
<1>3. PICK n \in T : d = bound - n
  OBVIOUS
<1>4. ASSUME NEW m \in T PROVE n >= m
  <2>1. bound - m \in left
    OBVIOUS
  <2>2. bound - n <= bound - m
    BY <1>2, <1>3, <2>1
  <2> QED
    BY <2>2
<1> QED
  BY <1>4

=============================================================================
