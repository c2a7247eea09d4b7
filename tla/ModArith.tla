------------------------------ MODULE ModArith ------------------------------
(***************************************************************************)
(* Remainders, as the save points of the sequence number and the ring of   *)
(* the duplicate filter use them.                                          *)
(***************************************************************************)
EXTENDS Integers, TLAPS

\* What a counter of n values holds (uint32_t times, slots of the ring).
LEMMA ModRange ==
    ASSUME NEW a \in Nat, NEW n \in Nat \ {0}
    PROVE  a % n \in 0 .. n - 1 /\ (a < n => a % n = a)
OBVIOUS

\* A multiple of the save interval has remainder 0 (genie_storage_write_seq).
LEMMA MultipleOf ==
    ASSUME NEW q \in Nat, NEW n \in Nat \ {0}
    PROVE  (n * q) % n = 0
<1> DEFINE d == (n * q) \div n
           r == (n * q) % n
<1>1. d \in Int /\ r \in 0 .. n - 1 /\ n * q = n * d + r
  OBVIOUS
<1>2. n * (q - d) = r
  BY <1>1
<1>3. CASE q - d >= 1
  <2>1. n * (q - d) >= n
    BY <1>3, <1>1
  <2> QED BY <2>1, <1>2, <1>1
<1>4. CASE q - d <= -1
  <2>1. n * (q - d) <= -n
    BY <1>4, <1>1
  <2> QED BY <2>1, <1>2, <1>1
<1>5. CASE q - d = 0
  BY <1>5, <1>2
<1> QED BY <1>1, <1>3, <1>4, <1>5

\* The save points: two numbers an interval or more apart have a multiple of
\* the interval between them.
LEMMA SavePointInGap ==
    ASSUME NEW a \in Nat, NEW b \in Nat, NEW n \in Nat \ {0}, a + n <= b
    PROVE  \E m \in (a + 1) .. b : m % n = 0
<1> DEFINE q == a \div n
<1>1. q \in Nat /\ a = n * q + (a % n) /\ a % n \in 0 .. n - 1
  OBVIOUS
<1>2. n * (q + 1) = n * q + n
  BY <1>1
<1>3. n * (q + 1) \in (a + 1) .. b
  BY <1>1, <1>2
<1>4. (n * (q + 1)) % n = 0
  <2>1. q + 1 \in Nat
    BY <1>1
  <2> HIDE DEF q
  <2> QED BY <2>1, MultipleOf
<1> QED BY <1>3, <1>4

\* The last number of an interval, apart from the others (the numbers since
\* the record, when one more is used).
LEMMA LastOrBefore ==
    ASSUME NEW a \in Nat, NEW b \in Nat, NEW m \in (a + 1) .. b
    PROVE  m \in (a + 1) .. (b - 1) \/ m = b
OBVIOUS

\* Two numbers less than a ring apart have different slots
\* (genie_transport_check_tid).
LEMMA ModDistinct ==
    ASSUME NEW a \in Nat, NEW b \in Nat, NEW n \in Nat \ {0}, a < b, b < a + n
    PROVE  a % n # b % n
<1> DEFINE p == a \div n
           q == b \div n
<1>1. /\ p \in Nat /\ q \in Nat /\ a = n * p + (a % n) /\ b = n * q + (b % n)
      /\ a % n \in 0 .. n - 1 /\ b % n \in 0 .. n - 1
  OBVIOUS
<1> SUFFICES ASSUME a % n = b % n PROVE FALSE
  OBVIOUS
<1>2. b - a = n * (q - p)
  BY <1>1
<1>3. CASE q - p >= 1
  <2>1. n * (q - p) >= n
    BY <1>3, <1>1
  <2> QED BY <2>1, <1>2
<1>4. CASE q - p <= 0
  <2>1. n * (q - p) <= 0
    BY <1>4, <1>1
  <2> QED BY <2>1, <1>2
<1> QED BY <1>1, <1>3, <1>4

\* The next number has the next slot, cyclically (cur_index of tid_queue).
LEMMA ModNext ==
    ASSUME NEW a \in Nat, NEW n \in Nat \ {0}
    PROVE  (a + 1) % n = ((a % n) + 1) % n
<1> DEFINE q == a \div n
           r == a % n
<1>1. q \in Nat /\ r \in 0 .. n - 1 /\ a = n * q + r
  OBVIOUS
<1>2. CASE r + 1 < n
  <2> DEFINE d == (a + 1) \div n
             s == (a + 1) % n
  <2>1. d \in Int /\ s \in 0 .. n - 1 /\ a + 1 = n * d + s
    OBVIOUS
  <2>2. n * (d - q) = r + 1 - s
    BY <1>1, <2>1
  <2>3. CASE d - q >= 1
    <3>1. n * (d - q) >= n
      BY <2>3, <2>1, <1>1
    <3> QED BY <3>1, <2>2, <2>1, <1>1, <1>2
  <2>4. CASE d - q <= -1
    <3>1. n * (d - q) <= -n
      BY <2>4, <2>1, <1>1
    <3> QED BY <3>1, <2>2, <2>1, <1>1
  <2>5. CASE d - q = 0
    <3>1. s = r + 1
      BY <2>5, <2>2, <2>1, <1>1
    <3>2. (r + 1) % n = r + 1
      BY <1>1, <1>2
    <3> QED BY <3>1, <3>2
  <2> QED BY <2>1, <2>3, <2>4, <2>5, <1>1
<1>3. CASE r + 1 = n
  <2>1. a + 1 = n * (q + 1)
    BY <1>1, <1>3
  <2>2. (n * (q + 1)) % n = 0
    <3>1. q + 1 \in Nat
      BY <1>1
    <3> HIDE DEF q
    <3> QED BY <3>1, MultipleOf
  <2>3. n % n = 0
    OBVIOUS
  <2> QED BY <2>1, <2>2, <2>3, <1>3
<1> QED BY <1>1, <1>2, <1>3
=============================================================================
