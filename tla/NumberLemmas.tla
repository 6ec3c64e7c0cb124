------------------------------ MODULE NumberLemmas ------------------------------
(***************************************************************************)
(* Sets of numbers with a bound: what the proofs of several components     *)
(* need, and the provers do not know without induction.                    *)
(***************************************************************************)
EXTENDS Naturals, FiniteSetsExt, FiniteSetTheorems, WellFoundedInduction, TLAPS

\* A bounded set of numbers has a greatest one: the intervals from its members
\* to the bound are subsets of a finite set, which are well-founded.
LEMMA GreatestNumber ==
    ASSUME NEW T \in SUBSET Nat, T # {}, NEW b \in Nat, \A x \in T : x <= b
    PROVE  \E x \in T : \A y \in T : y <= x
<1> DEFINE W == {x..b : x \in T}
<1>1. IsWellFoundedOn(StrictSubsetOrdering(0..b), FiniteSubsetsOf(0..b))
  BY FS_StrictSubsetOrderingWellFounded
<1>2. FiniteSubsetsOf(0..b) = SUBSET (0..b)
  <2>1. IsFiniteSet(0..b)
    BY FS_Interval
  <2>2. QED
    BY <2>1, FS_FiniteSubsetsOfFinite
<1>3. W \subseteq SUBSET (0..b) /\ W # {}
  <2>1. ASSUME NEW x \in T
        PROVE  x..b \in SUBSET (0..b)
    BY x \in Nat
  <2>2. PICK x : x \in T
    OBVIOUS
  <2>3. x..b \in W
    BY <2>2
  <2>4. QED
    BY <2>1, <2>3
<1>4. \E w \in W : \A v \in W : ~(<<v, w>> \in StrictSubsetOrdering(0..b))
  <2> DEFINE R == StrictSubsetOrdering(0..b)
  <2> DEFINE S == SUBSET (0..b)
  <2>1. IsWellFoundedOn(R, S) /\ W \subseteq S /\ W # {}
    BY <1>1, <1>2, <1>3
  <2> HIDE DEF W, R, S
  <2>2. \E w \in W : \A v \in W : ~(<<v, w>> \in R)
    BY <2>1, WFMin
  <2>3. QED
    BY <2>2 DEF R
<1>5. PICK x \in T : \A v \in W : ~(<<v, x..b>> \in StrictSubsetOrdering(0..b))
  BY <1>4
<1>6. ASSUME NEW y \in T, x < y
      PROVE  FALSE
  <2>1. y..b \in SUBSET (0..b) /\ x..b \in SUBSET (0..b)
    OBVIOUS
  <2>2. y..b \subseteq x..b /\ y..b # x..b
    BY <1>6
  <2>3. <<y..b, x..b>> \in StrictSubsetOrdering(0..b)
    BY <2>1, <2>2 DEF StrictSubsetOrdering
  <2>4. QED
    BY <1>5, <2>3
<1>7. \A y \in T : y <= x
  BY <1>6
<1>8. QED
  BY <1>7

\* What the code computes as the maximum is it.
LEMMA MaxIsGreatest ==
    ASSUME NEW T \in SUBSET Nat, T # {}, NEW b \in Nat, \A x \in T : x <= b
    PROVE  Max(T) \in T /\ \A y \in T : y <= Max(T)
<1>1. PICK x \in T : \A y \in T : y <= x
  BY GreatestNumber
<1>2. \A y \in T : x >= y
  BY <1>1
<1>3. Max(T) \in T /\ \A y \in T : Max(T) >= y
  BY <1>1, <1>2 DEF Max
<1>4. QED
  BY <1>3

\* And a set of numbers has a least one.
LEMMA LeastNumber ==
    ASSUME NEW T \in SUBSET Nat, T # {}
    PROVE  \E x \in T : \A y \in T : x <= y
<1>1. PICK c : c \in T
  OBVIOUS
<1> DEFINE U == {c - y : y \in T \cap (0..c)}
<1>2. U \in SUBSET Nat /\ U # {} /\ \A u \in U : u <= c
  <2>1. c - c \in U
    BY <1>1
  <2>2. QED
    BY <1>1, <2>1
<1>3. PICK u \in U : \A v \in U : v <= u
  BY <1>1, <1>2, GreatestNumber
<1>4. PICK x \in T \cap (0..c) : u = c - x
  BY <1>3
<1>5. ASSUME NEW y \in T
      PROVE  x <= y
  <2>1. CASE y <= c
    <3>1. c - y \in U
        BY <1>1, <2>1
    <3>2. QED
      BY <1>1, <1>3, <1>4, <3>1
  <2>2. CASE ~(y <= c)
    BY <1>1, <1>4, <2>2
  <2>3. QED
    BY <2>1, <2>2
<1>6. QED
  BY <1>4, <1>5
=============================================================================
