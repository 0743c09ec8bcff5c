------------------------------- MODULE NatLemmas -------------------------------
(***************************************************************************)
(* Facts about natural numbers that the proofs share: the wrapping of a    *)
(* cursor, and the least element of a set, which stands in for induction.  *)
(***************************************************************************)
EXTENDS Integers, WellFoundedInduction, TLAPS

\* A cursor at most one lap ahead wraps by one subtraction.
LEMMA WrapsOnce ==
    ASSUME NEW n \in Nat \ {0}, NEW x \in 0 .. 2 * n - 1
    PROVE  x % n = IF x < n THEN x ELSE x - n
<1>1. CASE x < n
  BY <1>1
<1>2. CASE x >= n
  BY <1>2
<1> QED
  BY <1>1, <1>2

\* A counter and its remainder advance together.
LEMMA WrapsAgain ==
    ASSUME NEW n \in Nat \ {0}, NEW x \in Nat
    PROVE  /\ x % n \in 0 .. n - 1
           /\ (x + 1) % n = IF (x % n) + 1 = n THEN 0 ELSE (x % n) + 1
<1>1. x % n \in 0 .. n - 1 /\ (x + 1) % n \in 0 .. n - 1
  OBVIOUS
<1>2. x = n * (x \div n) + (x % n) /\ x \div n \in Nat
  OBVIOUS
<1>3. x + 1 = n * ((x + 1) \div n) + ((x + 1) % n) /\ (x + 1) \div n \in Nat
  OBVIOUS
<1> DEFINE a == x \div n
           b == (x + 1) \div n
           r == x % n
           s == (x + 1) % n
<1>4. a \in Int /\ b \in Int /\ r \in 0 .. n - 1 /\ s \in 0 .. n - 1
      /\ n * b + s = n * a + r + 1
  BY <1>1, <1>2, <1>3
<1> HIDE DEF a, b, r, s
<1>5. n * (b - a) = r + 1 - s
  BY <1>4
<1>6. b - a \in Int /\ n * (b - a) < 2 * n /\ n * (b - a) > -n
  BY <1>4, <1>5
<1>7. b - a \in {0, 1}
  BY <1>4, <1>6
<1>8. s = IF r + 1 = n THEN 0 ELSE r + 1
  BY <1>4, <1>5, <1>7
<1> QED
  BY <1>1, <1>8 DEF r, s

\* A set of natural numbers that is not empty has a least member.
LEMMA LeastExists ==
    ASSUME NEW T \in SUBSET Nat, T # {}
    PROVE  \E x \in T : \A y \in T : x <= y
<1> DEFINE Less == {ss \in Nat \X Nat : ss[1] < ss[2]}
<1>1. IsWellFoundedOn(Less, Nat)
  BY NatLessThanWellFounded, Zenon DEF OpToRel
<1> PICK x \in T : \A y \in T : <<y, x>> \notin Less
  BY <1>1, WFMin, Zenon
<1>2. ASSUME NEW y \in T PROVE x <= y
  <2>1. <<y, x>>[1] = y /\ <<y, x>>[2] = x /\ <<y, x>> \in Nat \X Nat
    OBVIOUS
  <2>2. ~(y < x)
    BY <2>1, Zenon
  <2> QED
    BY <2>2
<1> QED
  BY <1>2
=============================================================================
