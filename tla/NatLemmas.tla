------------------------------ MODULE NatLemmas ------------------------------
(* Facts about natural numbers that the proofs share.                      *)
EXTENDS Integers, WellFoundedInduction, NaturalsInduction, TLAPS

(* A non-empty set of naturals has a least element: searches that take the *)
(* first match (pmm_first_free, the walk of get_proc_by_id) are defined.   *)
LEMMA LeastNat ==
    ASSUME NEW T, T \subseteq Nat, T # {}
    PROVE  \E x \in T : \A y \in T : x <= y
<1>1. IsWellFoundedOn(OpToRel(<, Nat), Nat)
  BY NatLessThanWellFounded
<1>2. \E x \in T : \A y \in T : ~ (<<y, x>> \in OpToRel(<, Nat))
  BY <1>1, WFMin, Zenon
<1>3. PICK x \in T : \A y \in T : ~ (<<y, x>> \in OpToRel(<, Nat))
  BY <1>2
<1>4. \A y \in T : ~(y < x)
  BY <1>3 DEF OpToRel
<1>5. QED BY <1>4

(* Rounding down to a multiple does not make a number larger.              *)
LEMMA DivTimes ==
    ASSUME NEW a \in Nat, NEW b \in Nat \ {0}
    PROVE  a \div b \in Nat /\ (a \div b) * b <= a
  BY SMT

(* Quotients, and what they are rounded to, are integers.                  *)
LEMMA DivInt ==
    ASSUME NEW a \in Int, NEW b \in Nat \ {0}
    PROVE  a \div b \in Int /\ (a \div b) * b \in Int
  BY SMT

(* Multiplication by a natural is monotonic.                               *)
LEMMA TimesMonotonic ==
    ASSUME NEW a \in Nat, NEW b \in Nat, NEW c \in Nat, a <= b
    PROVE  c * a \in Nat /\ c * b \in Nat /\ c * a <= c * b
<1>1. PICK d \in Nat : b = a + d
  <2>1. b - a \in Nat /\ b = a + (b - a)
    OBVIOUS
  <2>2. QED BY <2>1
<1>2. c * b = c * a + c * d /\ c * d \in Nat /\ c * a \in Nat
  BY <1>1, SMT
<1>3. QED BY <1>2

(* A multiple of s is not strictly between 0 and s.                        *)
LEMMA NoMultipleBetween ==
    ASSUME NEW s \in Nat, NEW x \in Int, NEW r \in Int, s * x = r, 0 < r
    PROVE  r >= s
<1>1. CASE x <= 0
  BY <1>1, SMT
<1>2. CASE x >= 1
  BY <1>2, SMT
<1>3. QED BY <1>1, <1>2

(* A number has one quotient.                                              *)
LEMMA QuotientUnique ==
    ASSUME NEW b \in Nat \ {0}, NEW x \in Int, NEW y \in Int, NEW r \in 0..(b - 1),
           NEW t \in 0..(b - 1), b * x + r = b * y + t
    PROVE  x = y
<1>1. b * (x - y) = t - r /\ b * (y - x) = r - t
  BY SMT
<1>2. ~(t - r > 0)
  BY <1>1, NoMultipleBetween
<1>3. ~(r - t > 0)
  BY <1>1, NoMultipleBetween
<1>4. b * (x - y) = 0
  BY <1>1, <1>2, <1>3
<1>5. QED BY <1>4, SMT

(* Adding a multiple of the divisor.                                       *)
LEMMA DivPlus ==
    ASSUME NEW a \in Nat, NEW b \in Nat \ {0}, NEW c \in Nat
    PROVE  (a + c * b) \div b = a \div b + c /\ (c * b) \div b = c
<1>1. ASSUME NEW x \in Nat
      PROVE  /\ x \div b \in Int /\ x - b * (x \div b) \in 0..(b - 1)
             /\ x = b * (x \div b) + (x - b * (x \div b))
  <2>1. b * (x \div b) <= x /\ x < b * (x \div b) + b /\ x \div b \in Int
    BY SMT
  <2>2. b * (x \div b) \in Int
    BY <2>1, SMT
  <2>3. QED BY <2>1, <2>2
<1>2. a + c * b \in Nat /\ c * b \in Nat
  BY SMT
<1>3. a + c * b = b * (a \div b + c) + (a - b * (a \div b))
  BY <1>1, SMT
<1>4. c * b = b * c + 0 /\ 0 \in 0..(b - 1)
  BY SMT
<1>5. (a + c * b) \div b = a \div b + c
  <2>1. (a + c * b) \div b \in Int /\ a \div b + c \in Int
    BY <1>1, <1>2
  <2> DEFINE y == a + c * b
             x1 == y \div b  y1 == a \div b + c  r1 == y - b * (y \div b)  t1 == a - b * (a \div b)
  <2>2. y = b * x1 + r1 /\ r1 \in 0..(b - 1)
    BY <1>1, <1>2
  <2>3. y = b * y1 + t1
    BY <1>3
  <2>4. t1 \in 0..(b - 1) /\ x1 \in Int /\ y1 \in Int
    BY <1>1, <2>1
  <2> HIDE DEF x1, y1, r1, t1, y
  <2>5. x1 = y1
    BY <2>2, <2>3, <2>4, QuotientUnique
  <2>6. QED BY <2>5 DEF x1, y1, y
<1>6. (c * b) \div b = c
  BY <1>1, <1>2, <1>4, QuotientUnique
<1>7. QED BY <1>5, <1>6

(* Division with remainder.                                                *)
LEMMA DivMod ==
    ASSUME NEW a \in Int, NEW b \in Nat \ {0}
    PROVE  /\ a \div b \in Int /\ a % b \in 0..(b - 1)
           /\ a = b * (a \div b) + (a % b)
  BY SMT

(* Reducing a summand first changes nothing: counters that wrap.           *)
LEMMA ModPlus ==
    ASSUME NEW a \in Int, NEW c \in Int, NEW b \in Nat \ {0}
    PROVE  ((a % b) + c) % b = (a + c) % b
<1> DEFINE q == a \div b  r == a % b  x == (r + c) \div b  s == (r + c) % b
           y == (a + c) \div b  t == (a + c) % b
<1>1. q \in Int /\ r \in 0..(b - 1) /\ a = b * q + r
  BY DivMod
<1>2. r + c \in Int /\ a + c \in Int
  BY <1>1
<1>3. x \in Int /\ s \in 0..(b - 1) /\ r + c = b * x + s
  BY <1>2, DivMod
<1>4. y \in Int /\ t \in 0..(b - 1) /\ a + c = b * y + t
  BY <1>2, DivMod
<1> HIDE DEF q, r, x, s, y, t
<1>5. b * (q + x) + s = b * y + t
  <2>1. b * (q + x) = b * q + b * x /\ b * q \in Int /\ b * x \in Int
    BY <1>1, <1>3, SMT
  <2>2. QED BY <2>1, <1>1, <1>3, <1>4
<1>6. q + x = y
  BY <1>1, <1>3, <1>4, <1>5, QuotientUnique
<1>7. s = t
  <2>1. b * y + s = b * y + t /\ b * y \in Int
    BY <1>4, <1>5, <1>6
  <2>2. QED BY <2>1, <1>3, <1>4
<1>8. QED BY <1>7 DEF s, t, r
=============================================================================
