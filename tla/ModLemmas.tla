----------------------------- MODULE ModLemmas -----------------------------
(* Facts about numbers: division and remainder, on which the proofs about   *)
(* ids (slot = id modulo the number of slots) and buffer positions rest,    *)
(* and induction up to a bound with what it gives of recursive functions.   *)
EXTENDS Integers, WellFoundedInduction, TLAPS

(* Quotient and remainder determine a number. *)
LEMMA DivMod ==
  ASSUME NEW n \in Nat \ {0}, NEW i \in Nat
  PROVE  /\ i = (n * (i \div n)) + (i % n)
         /\ i \div n \in Nat
         /\ i % n \in 0..(n - 1)
  OBVIOUS

(* A number below the modulus is its own remainder. *)
LEMMA ModSmall ==
  ASSUME NEW n \in Nat \ {0}, NEW i \in 0..(n - 1)
  PROVE  i % n = i /\ i \div n = 0
  OBVIOUS

(* Adding the modulus moves to the next quotient ... *)
LEMMA DivStep ==
  ASSUME NEW n \in Nat \ {0}, NEW i \in Nat
  PROVE  (i + n) \div n = (i \div n) + 1
  OBVIOUS

(* ... and keeps the remainder. *)
LEMMA ModStep ==
  ASSUME NEW n \in Nat \ {0}, NEW i \in Nat
  PROVE  (i + n) % n = i % n
<1> DEFINE q == i \div n
           r == i % n
           p == (i + n) \div n
           s == (i + n) % n
<1>1. i = (n * q) + r /\ r \in Nat /\ q \in Nat
  BY DivMod
<1>2. i + n \in Nat
  OBVIOUS
<1>3. i + n = (n * p) + s /\ s \in Int
  <2> HIDE DEF q, r, p, s
  <2> QED BY <1>2, DivMod DEF p, s
<1>4. p = q + 1
  BY DivStep
<1> HIDE DEF q, r, p, s
<1>5. n * p = (n * q) + n /\ n * q \in Int
  BY <1>1, <1>4, Z3
<1> QED
  BY <1>1, <1>3, <1>5 DEF r, s

(* Two numbers with one remainder are at least a modulus apart. *)
LEMMA ModApart ==
  ASSUME NEW n \in Nat \ {0}, NEW i \in Nat, NEW j \in Nat,
         i < j, i % n = j % n
  PROVE  i + n <= j
<1> DEFINE q == i \div n
           r == i % n
           p == j \div n
<1>1. i = (n * q) + r /\ q \in Nat
  BY DivMod
<1>2. r \in Int
  OBVIOUS
<1>3. j = (n * p) + r /\ p \in Nat
  BY DivMod
<1> HIDE DEF q, r, p
<1>4. q < p
  BY <1>1, <1>2, <1>3, Z3
<1>5. n * p >= n * (q + 1)
  BY <1>1, <1>3, <1>4, Z3
<1>6. n * (q + 1) = (n * q) + n /\ n * q \in Int /\ n * p \in Int
  BY <1>1, <1>3, Z3
<1> QED
  BY <1>1, <1>2, <1>3, <1>5, <1>6

(* Division is the only way to write a number as quotient and remainder,   *)
(* below zero too.                                                         *)
LEMMA DivModUnique ==
  ASSUME NEW n \in Nat \ {0}, NEW x \in Int, NEW q \in Int,
         NEW r \in 0..(n - 1), x = (n * q) + r
  PROVE  x \div n = q /\ x % n = r
<1> DEFINE p == x \div n
           s == x % n
<1>1. p \in Int /\ s \in 0..(n - 1) /\ x = (n * p) + s
  OBVIOUS
<1> HIDE DEF p, s
<1>2. r \in Int /\ s \in Int /\ 0 <= r /\ r < n /\ 0 <= s /\ s < n
  BY <1>1
<1>3. (n * p) + s = (n * q) + r /\ n \in Int
  BY <1>1
<1>4. ~(p < q)
  <2> SUFFICES ASSUME p < q PROVE FALSE
    OBVIOUS
  <2>1. n * (p + 1) <= n * q
    BY <1>1, Z3
  <2>2. n * (p + 1) = (n * p) + n /\ n * p \in Int /\ n * q \in Int
    BY <1>1, Z3
  <2> QED BY ONLY <2>1, <2>2, <1>2, <1>3
<1>5. ~(q < p)
  <2> SUFFICES ASSUME q < p PROVE FALSE
    OBVIOUS
  <2>1. n * (q + 1) <= n * p
    BY <1>1, Z3
  <2>2. n * (q + 1) = (n * q) + n /\ n * p \in Int /\ n * q \in Int
    BY <1>1, Z3
  <2> QED BY ONLY <2>1, <2>2, <1>2, <1>3
<1>6. p = q
  BY <1>1, <1>4, <1>5
<1>7. n * q \in Int
  BY Z3
<1> QED BY <1>2, <1>3, <1>6, <1>7 DEF p, s

(* Counting on from a remainder is counting on and taking the remainder. *)
LEMMA ModPlus ==
  ASSUME NEW n \in Nat \ {0}, NEW x \in Nat, NEW k \in Nat
  PROVE  ((x % n) + k) % n = (x + k) % n
<1> DEFINE q == x \div n
           r == x % n
           p == (r + k) \div n
           s == (r + k) % n
<1>1. x = (n * q) + r /\ q \in Nat /\ r \in 0..(n - 1)
  BY DivMod
<1>2. r + k \in Nat /\ r \in Nat
  BY <1>1
<1>3. r + k = (n * p) + s /\ p \in Nat /\ s \in 0..(n - 1)
  <2> HIDE DEF r, p, s
  <2> QED BY <1>2, DivMod DEF p, s
<1> HIDE DEF q, r, p, s
<1>4. n * (q + p) = (n * q) + (n * p) /\ n * q \in Int /\ n * p \in Int
  BY <1>1, <1>3, Z3
<1>5. x + k = (n * (q + p)) + s
  BY <1>1, <1>2, <1>3, <1>4
<1>6. q + p \in Int /\ x + k \in Int
  BY <1>1, <1>3
<1>7. (x + k) % n = s
  BY <1>3, <1>5, <1>6, DivModUnique
<1> QED BY <1>7 DEF s, r

(* The distance of two numbers less than a modulus apart is known from     *)
(* their remainders.                                                       *)
LEMMA ModMinus ==
  ASSUME NEW n \in Nat \ {0}, NEW a \in Nat, NEW b \in Nat, b <= a, a < b + n
  PROVE  ((a % n) - (b % n)) % n = a - b
<1> DEFINE p == a \div n
           q == b \div n
           r == a % n
           s == b % n
<1>1. a = (n * p) + r /\ p \in Nat /\ r \in 0..(n - 1)
  BY DivMod
<1>2. b = (n * q) + s /\ q \in Nat /\ s \in 0..(n - 1)
  BY DivMod
<1> HIDE DEF p, q, r, s
<1>3. n * (q - p) = (n * q) - (n * p) /\ n * q \in Int /\ n * p \in Int
  BY <1>1, <1>2, Z3
<1>4. r - s = (n * (q - p)) + (a - b) /\ r - s \in Int /\ q - p \in Int
  BY <1>1, <1>2, <1>3
<1>5. a - b \in 0..(n - 1)
  OBVIOUS
<1>6. (r - s) % n = a - b
  BY <1>4, <1>5, DivModUnique
<1> QED BY <1>6 DEF r, s

(* Numbers less than a modulus apart that share a remainder are equal. *)
LEMMA ModNear ==
  ASSUME NEW n \in Nat \ {0}, NEW a \in Nat, NEW b \in Nat, b <= a, a < b + n
  PROVE  a % n = b % n <=> a = b
<1>1. a % n = b % n /\ b < a => FALSE
  <2> SUFFICES ASSUME a % n = b % n, b < a PROVE FALSE
    OBVIOUS
  <2>1. b + n <= a
    BY ModApart
  <2> QED BY ONLY <2>1, a < b + n, a \in Nat, b \in Nat, n \in Nat
<1> QED BY <1>1

(* Division respects the order ... *)
LEMMA DivMonotone ==
  ASSUME NEW n \in Nat \ {0}, NEW a \in Nat, NEW b \in Nat, a <= b
  PROVE  a \div n <= b \div n
<1> DEFINE p == a \div n
           q == b \div n
           r == a % n
           s == b % n
<1>1. a = (n * p) + r /\ p \in Nat /\ r \in 0..(n - 1)
  BY DivMod
<1>2. b = (n * q) + s /\ q \in Nat /\ s \in 0..(n - 1)
  BY DivMod
<1> HIDE DEF p, q, r, s
<1> SUFFICES ASSUME q < p PROVE FALSE
  BY <1>1, <1>2 DEF p, q
<1>3. n * (q + 1) <= n * p
  BY <1>1, <1>2, Z3
<1>4. n * (q + 1) = (n * q) + n /\ n * p \in Int /\ n * q \in Int
  BY <1>1, <1>2, Z3
<1>5. r \in Int /\ s \in Int /\ 0 <= r /\ s < n
  BY <1>1, <1>2
<1> QED BY ONLY <1>1, <1>2, <1>3, <1>4, <1>5, a <= b, n \in Nat

(* ... and k moduli more are k quotients more and the same remainder. *)
LEMMA DivPlus ==
  ASSUME NEW n \in Nat \ {0}, NEW a \in Nat, NEW k \in Nat
  PROVE  (a + (k * n)) \div n = (a \div n) + k /\ (a + (k * n)) % n = a % n
<1> DEFINE p == a \div n
           r == a % n
<1>1. a = (n * p) + r /\ p \in Nat /\ r \in 0..(n - 1)
  BY DivMod
<1> HIDE DEF p, r
<1>2. n * (p + k) = (n * p) + (k * n) /\ n * p \in Int /\ k * n \in Int
  BY <1>1, Z3
<1>3. a + (k * n) = (n * (p + k)) + r /\ p + k \in Int /\ a + (k * n) \in Int
  BY <1>1, <1>2
<1>4. (a + (k * n)) \div n = p + k /\ (a + (k * n)) % n = r
  BY <1>1, <1>3, DivModUnique
<1> QED BY <1>4 DEF p, r

(* A product of positive numbers is positive. *)
LEMMA ProductPositive ==
  ASSUME NEW n \in Nat \ {0}, NEW m \in Nat \ {0}
  PROVE  m * n \in Nat \ {0}
  BY Z3

(* Remainder and quotient of a remainder of a multiple. *)
LEMMA ProductSplit ==
  ASSUME NEW n \in Nat \ {0}, NEW m \in Nat \ {0}, NEW x \in Nat
  PROVE  /\ x % n = (x % (m * n)) % n
         /\ (x \div n) % m = (x % (m * n)) \div n
<1>0. m * n \in Nat \ {0}
  BY ProductPositive
<1> DEFINE q == x \div (m * n)
           r == x % (m * n)
           a == r \div n
           b == r % n
<1>1. x = ((m * n) * q) + r /\ q \in Nat /\ r \in Nat /\ r < m * n
  <2>1. x = ((m * n) * q) + r /\ q \in Nat /\ r \in 0..((m * n) - 1)
    BY <1>0, DivMod
  <2> HIDE DEF q, r
  <2> QED BY <1>0, <2>1
<1> HIDE DEF q, r
<1>2. r = (n * a) + b /\ a \in Nat /\ b \in 0..(n - 1)
  BY <1>1, DivMod
<1> HIDE DEF a, b
<1>3. a \in 0..(m - 1)
  <2> SUFFICES ASSUME a >= m PROVE FALSE
    BY <1>2
  <2>1. n * a >= m * n /\ n * a \in Int /\ m * n \in Int
    BY <1>2, Z3
  <2>2. b \in Int /\ 0 <= b
    BY <1>2
  <2> QED BY ONLY <1>1, <1>2, <2>1, <2>2
<1> DEFINE t == (m * q) + a
<1>4. x = (n * t) + b /\ t \in Int
  <2>1. n * ((m * q) + a) = ((m * n) * q) + (n * a)
    BY <1>1, <1>2, Z3
  <2>2. (m * n) * q \in Int /\ n * a \in Int /\ b \in Int
    BY <1>1, <1>2, Z3
  <2>3. m * q \in Int
    BY <1>1, Z3
  <2> QED BY ONLY <1>1, <1>2, <2>1, <2>2, <2>3
<1>5. t % m = a
  <2>1. t = (m * q) + a /\ q \in Int
    BY <1>1
  <2> HIDE DEF t
  <2> QED BY <1>3, <1>4, <2>1, DivModUnique
<1> HIDE DEF t
<1>6. x \div n = t /\ x % n = b
  BY <1>2, <1>4, DivModUnique
<1> QED BY <1>5, <1>6 DEF a, b, r

(* The same as equations to rewrite with: the remainder ... *)
LEMMA ModOfMod ==
  ASSUME NEW n \in Nat \ {0}, NEW m \in Nat \ {0}, NEW x \in Nat
  PROVE  (x % (m * n)) % n = x % n
<1>1. x % n = (x % (m * n)) % n
  BY ProductSplit, Zenon
<1> QED BY ONLY <1>1, Zenon

(* ... and the quotient. *)
LEMMA DivOfMod ==
  ASSUME NEW n \in Nat \ {0}, NEW m \in Nat \ {0}, NEW x \in Nat
  PROVE  (x % (m * n)) \div n = (x \div n) % m
  BY ProductSplit, Zenon

(* Numbers up to a bound are reached one by one. *)
LEMMA UpTo ==
  ASSUME NEW m \in Nat, NEW S, 0 \in S, \A i \in 0..m : i \in S /\ i < m => i + 1 \in S
  PROVE  0..m \subseteq S
<1> DEFINE Less == {p \in Nat \X Nat : p[1] < p[2]}
<1>1. IsWellFoundedOn(Less, Nat)
  BY NatLessThanWellFounded DEF OpToRel
<1> HIDE DEF Less
<1>2. SUFFICES ASSUME (0..m) \ S # {} PROVE FALSE
  OBVIOUS
<1>3. PICK x \in (0..m) \ S : \A y \in (0..m) \ S : ~(<<y, x>> \in Less)
  <2>1. (0..m) \ S \subseteq Nat
    OBVIOUS
  <2> QED BY <1>1, <1>2, <2>1, WFMin, Zenon
<1>4. x # 0 /\ x - 1 \in 0..m /\ x - 1 < x /\ x - 1 < m /\ x \in Nat /\ x = (x - 1) + 1
  BY <1>3
<1>5. <<x - 1, x>> \in Less
  BY <1>4 DEF Less
<1>6. x - 1 \in S
  BY <1>3, <1>4, <1>5
<1> QED BY <1>3, <1>4, <1>6

(* f starts at x, and each of its values up to m is G's of the one before. *)
Recurs(f, m, S, x, G) == /\ f \in [0..m -> S] /\ f[0] = x
                         /\ \A k \in 1..m : f[k] = G[<<k, f[k - 1]>>]

(* A recursion up to a bound whose steps stay in a set defines a function. *)
LEMMA Recursion ==
  ASSUME NEW m \in Nat, NEW S, NEW x \in S, NEW G \in [(1..m) \X S -> S]
  PROVE  \E f : Recurs(f, m, S, x, G)
<1> DEFINE Follows(f, n) == /\ f \in [0..n -> S] /\ f[0] = x
                            /\ \A k \in 1..n : f[k] = G[<<k, f[k - 1]>>]
           Reached == {n \in Nat : \E f : Follows(f, n)}
<1>1. 0 \in Reached
  <2>1. PICK f : f = [n \in 0..0 |-> x]
    OBVIOUS
  <2>2. f \in [0..0 -> S] /\ f[0] = x /\ \A k \in 1..0 : FALSE
    BY <2>1
  <2> QED BY <2>2
<1>2. ASSUME NEW n \in 0..m, n \in Reached, n < m PROVE n + 1 \in Reached
  <2>1. PICK f : Follows(f, n)
    BY <1>2
  <2>2. n \in Nat /\ n \in 0..n /\ 0 \in 0..n /\ n + 1 \in 1..m /\ n + 1 \in Nat
    BY n < m
  <2>3. f \in [0..n -> S] /\ f[0] = x /\ \A k \in 1..n : f[k] = G[<<k, f[k - 1]>>]
    BY <2>1
  <2> HIDE DEF Follows, Reached
  <2>4. f[n] \in S
    BY <2>2, <2>3
  <2>5. PICK v \in S : v = G[<<n + 1, f[n]>>]
    <3>1. <<n + 1, f[n]>> \in (1..m) \X S
      BY <2>2, <2>4
    <3>2. G[<<n + 1, f[n]>>] \in S
      BY ONLY <3>1, G \in [(1..m) \X S -> S]
    <3> QED BY <3>2
  <2>6. PICK h : h = [k \in 0..(n + 1) |-> IF k = n + 1 THEN v ELSE f[k]]
    OBVIOUS
  <2>7. \A k \in 0..(n + 1) : k # n + 1 => k \in 0..n
    BY ONLY <2>2
  <2>8. \A k \in 0..n : k \in 0..(n + 1) /\ k # n + 1
    BY ONLY <2>2
  <2>9. h \in [0..(n + 1) -> S] /\ h[n + 1] = v /\ \A k \in 0..n : h[k] = f[k]
    <3>1. n + 1 \in 0..(n + 1)
      BY ONLY <2>2
    <3>2. h[n + 1] = v /\ \A k \in 0..n : h[k] = f[k]
      BY ONLY <2>6, <2>8, <3>1
    <3>3. \A k \in 0..(n + 1) : (IF k = n + 1 THEN v ELSE f[k]) \in S
      BY ONLY <2>3, <2>5, <2>7
    <3> QED BY ONLY <2>6, <3>2, <3>3
  <2>10. ASSUME NEW k \in 1..(n + 1) PROVE h[k] = G[<<k, h[k - 1]>>]
    <3>1. CASE k = n + 1
      <4>1. k - 1 = n
        BY ONLY <2>2, <3>1
      <4> QED BY ONLY <2>2, <2>5, <2>9, <3>1, <4>1
    <3>2. CASE k # n + 1
      <4>1. k \in 1..n /\ k \in 0..n /\ k - 1 \in 0..n
        BY ONLY <2>2, <3>2, k \in 1..(n + 1)
      <4> QED BY ONLY <2>3, <2>9, <4>1
    <3> QED BY <3>1, <3>2
  <2>11. Follows(h, n + 1)
    BY <2>2, <2>3, <2>9, <2>10 DEF Follows
  <2> QED BY <2>2, <2>11 DEF Reached
<1>3. m \in Reached
  <2> HIDE DEF Reached
  <2>1. 0..m \subseteq Reached
    BY <1>1, <1>2, UpTo
  <2>2. m \in 0..m
    OBVIOUS
  <2> QED BY <2>1, <2>2
<1> QED BY <1>3 DEF Recurs
=============================================================================
