---------------------------- MODULE NumberLemmas ----------------------------
(***************************************************************************)
(* Facts about numbers that the proofs about the hash vector, the meter,   *)
(* the P4Runtime ids and the change tracker share: least elements,         *)
(* remainders, and probing that goes round a table.                        *)
(***************************************************************************)
EXTENDS Integers, WellFoundedInduction, TLAPS

\* A set of naturals that is not empty has a least element.
LEMMA LeastOf ==
  ASSUME NEW S \in SUBSET Nat, S # {}
  PROVE  \E c \in S : \A d \in S : c <= d
  <1>1. PICK c \in S : \A d \in S : ~ (<<d, c>> \in OpToRel(<, Nat))
    BY NatLessThanWellFounded, WFMin, Zenon
  <1>2. ASSUME NEW d \in S PROVE c <= d
    <2>1. ~ (<<d, c>> \in OpToRel(<, Nat)) BY <1>1, Zenon
    <2>2. <<d, c>> \in Nat \X Nat OBVIOUS
    <2>3. ~ (d < c) BY <2>1, <2>2 DEF OpToRel
    <2> QED BY <2>3
  <1> QED BY <1>2

\* And one that is bounded has a greatest.
LEMMA GreatestOf ==
  ASSUME NEW n \in Nat, NEW S \in SUBSET (0..n), S # {}
  PROVE  \E c \in S : \A d \in S : c >= d
  <1> DEFINE T == {x \in 0..n : n - x \in S}
  <1>1. T # {}
    <2>1. PICK c \in S : TRUE OBVIOUS
    <2>2. n - c \in T /\ c \in 0..n BY <2>1
    <2> QED BY <2>2
  <1>2. T \in SUBSET Nat OBVIOUS
  <1>3. PICK x \in T : \A y \in T : x <= y
    <2> HIDE DEF T
    <2> QED BY <1>1, <1>2, LeastOf
  <1>4. n - x \in S /\ x \in 0..n OBVIOUS
  <1>5. ASSUME NEW d \in S PROVE n - x >= d
    <2>1. d \in 0..n /\ n - (n - d) = d /\ n - d \in 0..n OBVIOUS
    <2>2. n - d \in T BY <2>1
    <2>3. x <= n - d BY <1>3, <2>2
    <2> QED BY <1>4, <2>1, <2>3
  <1> QED BY <1>4, <1>5

\* Two remainders that differ by a multiple of n are the same.
LEMMA SameRemainder ==
  ASSUME NEW n \in Nat \ {0}, NEW q \in Int,
         NEW s \in 0..(n - 1), NEW t \in 0..(n - 1), s = n * q + t
  PROVE  s = t
  <1>1. CASE q >= 1
    <2>1. n * q >= n BY <1>1
    <2> QED BY <2>1
  <1>2. CASE q <= -1
    <2>1. n * q <= -n BY <1>2
    <2> QED BY <2>1
  <1>3. CASE q = 0 BY <1>3
  <1> QED BY <1>1, <1>2, <1>3

\* Division with remainder.
LEMMA DivMod ==
  ASSUME NEW a \in Int, NEW n \in Nat \ {0}
  PROVE  \E q \in Int, r \in 0..(n - 1) : r = a % n /\ a = n * q + r
  <1>1. a \div n \in Int /\ a % n \in 0..(n - 1) OBVIOUS
  <1>2. a = n * (a \div n) + (a % n) OBVIOUS
  <1> QED BY <1>1, <1>2

\* Linear probing from any home slot h tries every slot s.
LEMMA ProbeReaches ==
  ASSUME NEW n \in Nat \ {0}, NEW h \in Nat, NEW s \in 0..(n - 1)
  PROVE  \E c \in 0..(n - 1) : (h + c) % n = s
  <1>1. s - h \in Int /\ \A c \in 0..(n - 1) : h + c \in Int OBVIOUS
  <1>2. PICK p \in Int, c \in 0..(n - 1) :
          c = (s - h) % n /\ s - h = n * p + c
    BY <1>1, DivMod, Zenon
  <1>3. PICK q \in Int, t \in 0..(n - 1) :
          t = (h + c) % n /\ h + c = n * q + t
    BY <1>1, DivMod, Zenon
  <1>4. s = n * (p + q) + t
    <2>1. n * (p + q) = n * p + n * q OBVIOUS
    <2>2. n * p \in Int /\ n * q \in Int OBVIOUS
    <2>3. s - h = n * p + c /\ h + c = n * q + t BY <1>2, <1>3
    <2> DEFINE np == n * p
               nq == n * q
    <2>4. np \in Int /\ nq \in Int /\ s - h = np + c /\ h + c = nq + t
      BY <2>2, <2>3
    <2>5. s = np + nq + t
      <3> HIDE DEF np, nq
      <3> QED BY <2>4
    <2> QED BY <2>1, <2>5
  <1>5. s = t BY <1>4, SameRemainder
  <1> QED BY <1>3, <1>5

\* Remainders: their range, the identity on it, and that they never grow.
LEMMA Remainder ==
  ASSUME NEW b \in Nat \ {0}, NEW a \in Int
  PROVE  /\ a % b \in 0..(b - 1)
         /\ a \in 0..(b - 1) => a % b = a
         /\ a \in Nat => a % b <= a
  <1>1. a % b \in 0..(b - 1) OBVIOUS
  <1>2. a \in 0..(b - 1) => a % b = a OBVIOUS
  <1>3. a \in Nat => a % b <= a
    <2> SUFFICES ASSUME a \in Nat PROVE a % b <= a OBVIOUS
    <2>1. CASE a < b BY <1>2, <2>1
    <2>2. CASE ~ (a < b) BY <1>1, <2>2
    <2> QED BY <2>1, <2>2
  <1> QED BY <1>1, <1>2, <1>3
=============================================================================
