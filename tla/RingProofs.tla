----------------------------- MODULE RingProofs -----------------------------
(***************************************************************************)
(* What the operators on the byte ring and on headers do, for every size   *)
(* of the ring: a write appends its bytes to the contents and a read takes *)
(* them from the front, wherever the array wraps and whichever parts are   *)
(* released.                                                               *)
(***************************************************************************)
EXTENDS SendBuff, RecvBuff, ModLemmas, SequenceTheorems

(* What the proofs need to know of the constants. *)
Sizes == /\ PoolCnt \in Nat \ {0} /\ BufferSize \in Nat \ {0} /\ Radix \in Nat \ {0, 1}
         /\ NULL \notin [Offset -> Byte \cup {Junk}]

-----------------------------------------------------------------------------
(* One sequence behind another. *)
LEMMA BehindIs ==
  ASSUME NEW S, NEW s \in Seq(S), NEW t \in Seq(S)
  PROVE  /\ s \o t \in Seq(S) /\ Len(s \o t) = Len(s) + Len(t)
         /\ \A i \in 1..Len(s) : (s \o t)[i] = s[i]
         /\ \A i \in 1..Len(t) : (s \o t)[Len(s) + i] = t[i]
  OBVIOUS

(* Power is computed by its recursion. *)
LEMMA PowerIs ==
  ASSUME Sizes, NEW m \in Nat
  PROVE  \E p \in [0..m -> Nat \ {0}] :
           p[0] = 1 /\ (\A k \in 1..m : p[k] = Radix * p[k - 1]) /\ Power(m) = p[m]
<1> DEFINE S == Nat \ {0}
           G == [a \in (1..m) \X S |-> Radix * a[2]]
           Step(p, k) == IF k = 0 THEN 1 ELSE Radix * p[k - 1]
           Follows(p) == p = [k \in 0..m |-> Step(p, k)]
<1>1. \A x \in S : Radix * x \in S
  BY ProductPositive DEF Sizes
<1>2. \A k \in 1..m, x \in S : G[<<k, x>>] = Radix * x
  <2>1. \A k \in 1..m, x \in S : <<k, x>> \in (1..m) \X S /\ <<k, x>>[2] = x
    OBVIOUS
  <2> QED BY <2>1
<1>3. G \in [(1..m) \X S -> S]
  <2>1. \A a \in (1..m) \X S : a[2] \in S
    OBVIOUS
  <2> HIDE DEF S
  <2> QED BY <1>1, <2>1
<1>4. PICK f : Recurs(f, m, S, 1, G)
  <2> HIDE DEF G
  <2>1. 1 \in S
    OBVIOUS
  <2> HIDE DEF S
  <2> QED BY <1>3, <2>1, Recursion
<1> HIDE DEF S, G
<1>5. \A k \in 1..m : k - 1 \in 0..m /\ k \in 0..m /\ k # 0
  OBVIOUS
<1>6. f \in [0..m -> S] /\ f[0] = 1 /\ \A k \in 1..m : f[k] = Radix * f[k - 1]
  BY <1>2, <1>4, <1>5 DEF Recurs
<1>7. Follows(f)
  <2>1. \A k \in 0..m : k = 0 \/ k \in 1..m
    OBVIOUS
  <2>2. \A k \in 0..m : f[k] = Step(f, k)
    BY <1>5, <1>6, <2>1
  <2> DEFINE A(k) == Step(f, k)
  <2> HIDE DEF Step
  <2>3. \A k \in 0..m : f[k] = A(k)
    BY <2>2
  <2> HIDE DEF A
  <2>4. f = [k \in 0..m |-> A(k)]
    BY ONLY <1>6, <2>3
  <2> QED BY <2>4 DEF A
<1>8. PICK p : p = CHOOSE q : Follows(q)
  OBVIOUS
<1>9. Follows(p)
  <2> HIDE DEF Follows
  <2> QED BY <1>7, <1>8
<1>10. Power(m) = p[m]
  BY <1>8 DEF Power
<1>11. \A k \in 0..m : p[k] = Step(p, k)
  BY <1>9
<1>12. p[0] = 1 /\ \A k \in 1..m : p[k] = Radix * p[k - 1]
  BY <1>5, <1>11
<1>13. \A k \in 0..m : p[k] = f[k]
  <2> DEFINE Same == {k \in Nat : p[k] = f[k]}
  <2>1. 0 \in Same
    BY <1>6, <1>12
  <2>2. ASSUME NEW k \in 0..m, k \in Same, k < m PROVE k + 1 \in Same
    <3>1. k + 1 \in 1..m /\ (k + 1) - 1 = k /\ k + 1 \in Nat /\ p[k] = f[k]
      BY <2>2
    <3> QED BY <1>6, <1>12, <3>1
  <2>3. 0..m \subseteq Same
    <3> HIDE DEF Same
    <3> QED BY <2>1, <2>2, UpTo
  <2> QED BY <2>3
<1>14. p \in [0..m -> S]
  <2> DEFINE A(k) == Step(p, k)
  <2>1. p = [k \in 0..m |-> A(k)]
    BY <1>9
  <2>2. \A k \in 0..m : A(k) = f[k]
    BY <1>11, <1>13
  <2> HIDE DEF A
  <2> QED BY ONLY <1>6, <2>1, <2>2
<1> QED BY <1>10, <1>12, <1>14 DEF S

(* The values of bytes: each counts Radix times what the one before does. *)
LEMMA PowerFacts ==
  ASSUME Sizes
  PROVE  /\ Power(0) = 1
         /\ \A i \in Nat : Power(i) \in Nat \ {0} /\ Power(i + 1) = Radix * Power(i)
<1>1. Power(0) = 1
  <2>1. PICK p \in [0..0 -> Nat \ {0}] : p[0] = 1 /\ Power(0) = p[0]
    BY PowerIs
  <2> QED BY <2>1
<1>2. ASSUME NEW i \in Nat PROVE Power(i) \in Nat \ {0} /\ Power(i + 1) = Radix * Power(i)
  <2>1. i + 1 \in Nat /\ i \in 0..i /\ i \in 0..(i + 1) /\ i + 1 \in 1..(i + 1)
        /\ (i + 1) - 1 = i /\ i \in 0..i
    OBVIOUS
  <2>2. PICK p \in [0..i -> Nat \ {0}] :
          p[0] = 1 /\ (\A k \in 1..i : p[k] = Radix * p[k - 1]) /\ Power(i) = p[i]
    BY PowerIs
  <2>3. PICK q \in [0..(i + 1) -> Nat \ {0}] :
          q[0] = 1 /\ (\A k \in 1..(i + 1) : q[k] = Radix * q[k - 1]) /\ Power(i + 1) = q[i + 1]
    BY <2>1, PowerIs
  <2> DEFINE Same == {k \in Nat : p[k] = q[k]}
  <2>4. 0 \in Same
    BY <2>2, <2>3
  <2>5. ASSUME NEW k \in 0..i, k \in Same, k < i PROVE k + 1 \in Same
    <3>1. k + 1 \in 1..i /\ k + 1 \in 1..(i + 1) /\ (k + 1) - 1 = k /\ k + 1 \in Nat
          /\ p[k] = q[k]
      BY <2>5
    <3> QED BY <2>2, <2>3, <3>1
  <2>6. 0..i \subseteq Same
    <3> HIDE DEF Same
    <3> QED BY <2>4, <2>5, UpTo
  <2>7. p[i] = q[i]
    BY <2>1, <2>6
  <2>8. q[i + 1] = Radix * q[i]
    BY <2>1, <2>3
  <2>9. p[i] \in Nat \ {0}
    BY <2>1, <2>2
  <2> QED BY ONLY <2>2, <2>3, <2>7, <2>8, <2>9
<1> QED BY <1>1, <1>2

(* Decoded is computed by its recursion. *)
LEMMA DecodedIs ==
  ASSUME Sizes, NEW bytes \in Seq(Byte)
  PROVE  \E f \in [0..Len(bytes) -> Nat] :
           /\ f[0] = 0 /\ Decoded(bytes) = f[Len(bytes)]
           /\ \A k \in 1..Len(bytes) : f[k] = f[k - 1] + bytes[k] * Power(k - 1)
<1>1. PICK m \in Nat : m = Len(bytes)
  OBVIOUS
<1> DEFINE G == [a \in (1..m) \X Nat |-> a[2] + bytes[a[1]] * Power(a[1] - 1)]
           Step(q, k) == IF k = 0 THEN 0 ELSE q[k - 1] + bytes[k] * Power(k - 1)
           Follows(q) == q = [k \in 0..m |-> Step(q, k)]
<1>2. \A k \in 1..m : /\ bytes[k] \in Nat /\ bytes[k] < Radix
                      /\ bytes[k] * Power(k - 1) \in Nat
  <2> SUFFICES ASSUME NEW k \in 1..m
               PROVE  bytes[k] \in Nat /\ bytes[k] < Radix /\ bytes[k] * Power(k - 1) \in Nat
    OBVIOUS
  <2>1. bytes[k] \in Nat /\ bytes[k] < Radix
    BY <1>1, ElementOfSeq DEF Byte, Sizes
  <2>2. k - 1 \in Nat
    OBVIOUS
  <2>3. Power(k - 1) \in Nat
    BY <2>2, PowerFacts
  <2>4. bytes[k] * Power(k - 1) \in Nat
    <3> HIDE DEF Byte
    <3>1. \A a, b \in Nat : a * b \in Nat
      BY Z3
    <3> QED BY ONLY <2>1, <2>3, <3>1, Zenon
  <2> QED BY <2>1, <2>4
<1>3. \A k \in 1..m, x \in Nat : G[<<k, x>>] = x + bytes[k] * Power(k - 1)
  <2>1. \A k \in 1..m, x \in Nat : <<k, x>> \in (1..m) \X Nat /\ <<k, x>>[2] = x /\ <<k, x>>[1] = k
    OBVIOUS
  <2> QED BY <2>1
<1>4. G \in [(1..m) \X Nat -> Nat]
  <2>1. \A a \in (1..m) \X Nat : a[1] \in 1..m /\ a[2] \in Nat
    OBVIOUS
  <2>2. \A a \in (1..m) \X Nat : a[2] + bytes[a[1]] * Power(a[1] - 1) \in Nat
    BY <1>2, <2>1
  <2> QED BY <2>2
<1>5. PICK f : Recurs(f, m, Nat, 0, G)
  <2> HIDE DEF G
  <2> QED BY <1>4, Recursion
<1> HIDE DEF G
<1>6. \A k \in 1..m : k - 1 \in 0..m /\ k \in 0..m /\ k # 0
  OBVIOUS
<1>7. /\ f \in [0..m -> Nat] /\ f[0] = 0
      /\ \A k \in 1..m : f[k] = f[k - 1] + bytes[k] * Power(k - 1)
  BY <1>3, <1>5, <1>6 DEF Recurs
<1>8. Follows(f)
  <2>1. \A k \in 0..m : k = 0 \/ k \in 1..m
    OBVIOUS
  <2>2. \A k \in 0..m : f[k] = Step(f, k)
    BY <1>6, <1>7, <2>1
  <2> DEFINE A(k) == Step(f, k)
  <2> HIDE DEF Step
  <2>3. \A k \in 0..m : f[k] = A(k)
    BY <2>2
  <2> HIDE DEF A
  <2>4. f = [k \in 0..m |-> A(k)]
    BY ONLY <1>7, <2>3
  <2> QED BY <2>4 DEF A
<1>9. PICK p : p = CHOOSE q : Follows(q)
  OBVIOUS
<1>10. Follows(p)
  <2> HIDE DEF Follows
  <2> QED BY <1>8, <1>9
<1>11. Decoded(bytes) = p[m]
  BY <1>1, <1>9 DEF Decoded
<1>12. \A k \in 0..m : p[k] = Step(p, k)
  BY <1>10
<1>13. p[0] = 0 /\ \A k \in 1..m : p[k] = p[k - 1] + bytes[k] * Power(k - 1)
  BY <1>6, <1>12
<1>14. \A k \in 0..m : p[k] = f[k]
  <2> DEFINE Same == {k \in Nat : p[k] = f[k]}
  <2>1. 0 \in Same
    BY <1>7, <1>13
  <2>2. ASSUME NEW k \in 0..m, k \in Same, k < m PROVE k + 1 \in Same
    <3>1. k + 1 \in 1..m /\ (k + 1) - 1 = k /\ k + 1 \in Nat /\ p[k] = f[k]
      BY <2>2
    <3> QED BY <1>7, <1>13, <3>1
  <2>3. 0..m \subseteq Same
    <3> HIDE DEF Same
    <3> QED BY <2>1, <2>2, UpTo
  <2> QED BY <2>3
<1>15. Decoded(bytes) = f[m]
  <2>1. m \in 0..m
    OBVIOUS
  <2> QED BY ONLY <1>11, <1>14, <2>1
<1> QED BY ONLY <1>1, <1>7, <1>15

(* A header has en bytes ... *)
LEMMA HeaderFacts ==
  ASSUME Sizes, NEW size \in Nat, NEW en \in Nat
  PROVE  /\ Header(size, en) \in Seq(Byte) /\ Len(Header(size, en)) = en
         /\ \A i \in 1..en : Header(size, en)[i] = (size \div Power(i - 1)) % Radix
<1>1. ASSUME NEW i \in 1..en PROVE (size \div Power(i - 1)) % Radix \in Byte
  <2>1. i - 1 \in Nat
    OBVIOUS
  <2>2. Power(i - 1) \in Nat \ {0}
    BY <2>1, PowerFacts
  <2>3. size \div Power(i - 1) \in Nat
    BY <2>2, DivMod
  <2>4. (size \div Power(i - 1)) % Radix \in 0..(Radix - 1)
    BY <2>3, DivMod DEF Sizes
  <2> QED BY <2>4 DEF Byte
<1> DEFINE e(i) == (size \div Power(i - 1)) % Radix
<1>2. Header(size, en) = [i \in 1..en |-> e(i)]
  BY DEF Header
<1>3. \A i \in 1..en : e(i) \in Byte
  BY <1>1
<1> HIDE DEF e
<1>4. [i \in 1..en |-> e(i)] \in [1..en -> Byte]
  BY ONLY <1>3
<1>5. Header(size, en) \in Seq(Byte) /\ Len(Header(size, en)) = en
  BY ONLY <1>2, <1>4, en \in Nat
<1>6. \A i \in 1..en : Header(size, en)[i] = e(i)
  BY ONLY <1>2
<1> QED BY <1>5, <1>6 DEF e

(* ... and contains the size, if it fits. *)
LEMMA DecodedHeader ==
  ASSUME Sizes, NEW size \in Nat, NEW en \in Nat, size < Power(en)
  PROVE  Decoded(Header(size, en)) = size
<1>1. PICK h \in Seq(Byte) : /\ h = Header(size, en) /\ Len(h) = en
                             /\ \A i \in 1..en : h[i] = (size \div Power(i - 1)) % Radix
  BY HeaderFacts
<1>2. PICK f \in [0..en -> Nat] :
        /\ f[0] = 0 /\ Decoded(h) = f[en]
        /\ \A k \in 1..en : f[k] = f[k - 1] + h[k] * Power(k - 1)
  BY <1>1, DecodedIs
<1> DEFINE Upto == {k \in Nat : f[k] = size % Power(k)}
<1>3. 0 \in Upto
  BY <1>2, PowerFacts
<1>4. ASSUME NEW k \in 0..en, k \in Upto, k < en PROVE k + 1 \in Upto
  <2>1. k + 1 \in 1..en /\ (k + 1) - 1 = k /\ k + 1 \in Nat /\ k \in Nat /\ f[k] = size % Power(k)
    BY <1>4
  <2>2. PICK n \in Nat \ {0} : n = Power(k) /\ Power(k + 1) = Radix * n
    BY <2>1, PowerFacts
  <2>3. f[k + 1] = f[k] + h[k + 1] * n /\ h[k + 1] = (size \div n) % Radix
    BY <1>1, <1>2, <2>1, <2>2
  <2>4. Radix * n \in Nat \ {0} /\ Radix \in Nat \ {0}
    BY ProductPositive DEF Sizes
  <2>5. PICK y \in Nat : y = size % (Radix * n)
    <3>1. PICK w \in Nat \ {0} : w = Radix * n
      BY <2>4
    <3>2. size % w \in 0..(w - 1)
      BY ONLY size \in Nat, w \in Nat \ {0}, DivMod, Zenon
    <3> QED BY <3>1, <3>2
  <2>6. size % n = y % n /\ (size \div n) % Radix = y \div n
    BY <2>4, <2>5, ProductSplit
  <2>7. y = (n * (y \div n)) + (y % n) /\ y \div n \in Nat /\ y % n \in Nat
    <3>1. y = (n * (y \div n)) + (y % n) /\ y \div n \in Nat /\ y % n \in 0..(n - 1)
      BY ONLY y \in Nat, n \in Nat \ {0}, DivMod, Zenon
    <3> QED BY <3>1
  <2>8. \A a, b \in Nat : a * b = b * a
    BY Z3
  <2>9. f[k + 1] = (y % n) + (y \div n) * n
    BY ONLY <2>1, <2>2, <2>3, <2>6
  <2>10. (y \div n) * n = n * (y \div n) /\ n * (y \div n) \in Nat
    <3>1. \A a, b \in Nat : a * b \in Nat
      BY Z3
    <3> QED BY ONLY <2>7, <2>8, <3>1, n \in Nat
  <2>11. f[k + 1] = y
    BY ONLY <2>7, <2>9, <2>10
  <2> QED BY <2>1, <2>2, <2>5, <2>11
<1>5. f[en] = size % Power(en)
  <2>1. 0..en \subseteq Upto
    <3> HIDE DEF Upto
    <3> QED BY <1>3, <1>4, UpTo
  <2>2. en \in 0..en
    OBVIOUS
  <2> QED BY <2>1, <2>2
<1>6. size % Power(en) = size
  <2>1. PICK n \in Nat \ {0} : n = Power(en)
    BY PowerFacts
  <2>2. size \in 0..(n - 1)
    BY <2>1
  <2> QED BY <2>1, <2>2, ModSmall
<1> QED BY <1>1, <1>2, <1>5, <1>6

-----------------------------------------------------------------------------
(* The sizes of the array and of a lap. *)
LEMMA CapacityIs ==
  ASSUME Sizes
  PROVE  /\ Capacity \in Nat \ {0} /\ Lap \in Nat \ {0} /\ Lap = 2 * Capacity
         /\ BufferSize <= Capacity
<1>1. Capacity \in Nat \ {0}
  BY ProductPositive DEF Capacity, Sizes
<1>2. BufferSize <= PoolCnt * BufferSize
  <2>1. \A a, b \in Nat \ {0} : b <= a * b
    BY Z3
  <2> QED BY <2>1 DEF Sizes
<1> QED BY <1>1, <1>2 DEF Lap, Capacity, Sizes

(* A position is in one cell of the array: part and offset give it back,    *)
(* and it depends only on the position modulo the capacity.                *)
LEMMA CellIs ==
  ASSUME Sizes, NEW x \in Nat
  PROVE  /\ Index(x) \in PartIndex /\ x % BufferSize \in Offset
         /\ (Index(x) * BufferSize) + (x % BufferSize) = x % Capacity
         /\ Index(x) = (x % Capacity) \div BufferSize
         /\ x % BufferSize = (x % Capacity) % BufferSize
         /\ Part(x) \in Nat
<1> DEFINE n == BufferSize
           m == PoolCnt
<1>1. n \in Nat \ {0} /\ m \in Nat \ {0} /\ m * n \in Nat \ {0}
  BY ProductPositive DEF Sizes
<1>2. x \div n \in Nat /\ x % n \in 0..(n - 1)
  BY <1>1, DivMod
<1>3. (x \div n) % m \in 0..(m - 1)
  BY <1>1, <1>2, DivMod
<1>4. (x % (m * n)) % n = x % n /\ (x % (m * n)) \div n = (x \div n) % m
  BY <1>1, ModOfMod, DivOfMod
<1>5. PICK y \in Nat : y = x % (m * n)
  <2>1. PICK w \in Nat \ {0} : w = m * n
    BY <1>1
  <2>2. x % w \in 0..(w - 1)
    BY ONLY x \in Nat, w \in Nat \ {0}, DivMod, Zenon
  <2> QED BY <2>1, <2>2
<1>6. y = (n * (y \div n)) + (y % n)
  BY ONLY <1>1, y \in Nat, DivMod, Zenon
<1>7. \A a, b \in Nat : a * b = b * a
  BY Z3
<1>8. ((x \div n) % m) * n = n * ((x \div n) % m)
  BY ONLY <1>1, <1>3, <1>7
<1>9. (((x \div n) % m) * n) + (x % n) = y
  BY ONLY <1>4, <1>5, <1>6, <1>8
<1> QED BY <1>2, <1>3, <1>4, <1>5, <1>9 DEF Index, Part, PartIndex, Offset, Capacity

(* Positions a lap or half a lap apart are the same cell. *)
LEMMA SameCell ==
  ASSUME Sizes, NEW x \in Nat, NEW y \in Nat, x % Capacity = y % Capacity
  PROVE  /\ Index(x) = Index(y) /\ x % BufferSize = y % BufferSize
         /\ \A r : ByteAt(r, x) = ByteAt(r, y)
<1>1. Index(x) = Index(y) /\ x % BufferSize = y % BufferSize
  BY CellIs, Zenon
<1> QED BY <1>1 DEF ByteAt

(* The same for a position that is taken modulo the lap, or one further.   *)
LEMMA LapCell ==
  ASSUME Sizes, NEW x \in Nat
  PROVE  /\ x % Lap \in Position /\ (x % Lap) % Capacity = x % Capacity
         /\ (x + Capacity) % Capacity = x % Capacity
<1>1. Capacity \in Nat \ {0} /\ Lap \in Nat \ {0} /\ Lap = 2 * Capacity /\ 2 \in Nat \ {0}
  BY CapacityIs
<1>2. x % Lap \in 0..(Lap - 1)
  BY <1>1, DivMod
<1>3. (x % (2 * Capacity)) % Capacity = x % Capacity
  BY ONLY <1>1, x \in Nat, ModOfMod, Zenon
<1>4. (x + Capacity) % Capacity = x % Capacity
  BY ONLY <1>1, x \in Nat, ModStep, Zenon
<1> QED BY <1>1, <1>2, <1>3, <1>4 DEF Position

(* The way between two positions, without the remainder. *)
LEMMA SpaceIs ==
  ASSUME Sizes, NEW read \in Position, NEW write \in Position
  PROVE  /\ Space(read, write) \in 0..(Lap - 1)
         /\ Space(read, write) = IF write <= read THEN read - write ELSE (read - write) + Lap
<1>1. Lap \in Nat \ {0} /\ read \in Nat /\ write \in Nat /\ read < Lap /\ write < Lap
  BY CapacityIs DEF Position
<1>2. CASE write <= read
  <2>1. read - write \in 0..(Lap - 1) /\ read - write \in Int
    BY <1>1, <1>2
  <2>2. read - write = (Lap * 0) + (read - write)
    BY <1>1
  <2>3. PICK d \in Int : d = read - write
    BY <2>1
  <2>4. d % Lap = d
    BY ONLY <1>1, <2>1, <2>2, <2>3, 0 \in Int, DivModUnique
  <2> QED BY <1>2, <2>1, <2>3, <2>4 DEF Space
<1>3. CASE ~(write <= read)
  <2>1. (read - write) + Lap \in 0..(Lap - 1) /\ read - write \in Int
    BY <1>1, <1>3
  <2>2. read - write = (Lap * (-1)) + ((read - write) + Lap)
    BY <1>1
  <2>3. PICK d \in Int : d = read - write
    BY <2>1
  <2>4. d % Lap = d + Lap
    BY ONLY <1>1, <2>1, <2>2, <2>3, -1 \in Int, DivModUnique
  <2> QED BY <1>3, <2>1, <2>3, <2>4 DEF Space
<1> QED BY <1>2, <1>3

(* The distance of a cell from a position, in positions that count on.     *)
LEMMA DistanceIs ==
  ASSUME Sizes, NEW pos \in Position, NEW b \in Nat, NEW x \in Nat,
         pos % Capacity = b % Capacity, b <= x, x < b + Capacity
  PROVE  Distance(pos, Index(x), x % BufferSize) = x - b
<1> DEFINE c == Capacity
<1>1. c \in Nat \ {0} /\ Lap = 2 * c /\ pos \in Nat /\ pos < 2 * c
  BY CapacityIs DEF Position
<1>2. Distance(pos, Index(x), x % BufferSize) = ((x % c) - pos) % c
  <2>1. PICK i \in Nat, o \in Nat :
          i = Index(x) * BufferSize /\ o = x % BufferSize /\ i + o = x % c
    <3>1. Index(x) \in Nat /\ BufferSize \in Nat /\ x % BufferSize \in Nat
      BY CellIs DEF PartIndex, Offset, Sizes
    <3>2. \A u, v \in Nat : u * v \in Nat
      BY Z3
    <3> QED BY <3>1, <3>2, CellIs
  <2>2. Distance(pos, Index(x), x % BufferSize) = (i + (o - pos)) % c
    BY <2>1 DEF Distance
  <2>3. i + (o - pos) = (x % c) - pos
    BY <1>1, <2>1
  <2> QED BY ONLY <2>2, <2>3
<1> HIDE DEF c
<1>3. ((x % c) - (b % c)) % c = x - b
  BY <1>1, ModMinus DEF c
<1>4. x % c \in 0..(c - 1) /\ b % c \in 0..(c - 1) /\ pos % c = b % c
  <2>1. x % c \in 0..(c - 1) /\ b % c \in 0..(c - 1)
    BY <1>1, DivMod
  <2> QED BY <2>1 DEF c
<1>5. PICK q \in Int : pos = (b % c) + (q * c)
  <2>1. CASE pos < c
    <3>1. pos % c = pos
      BY <1>1, <2>1, ModSmall
    <3>2. pos = (b % c) + (0 * c)
      BY <1>1, <1>4, <3>1
    <3> QED BY <3>2
  <2>2. CASE ~(pos < c)
    <3>1. pos - c \in 0..(c - 1) /\ pos = (pos - c) + c /\ pos - c \in Nat
      BY <1>1, <2>2
    <3>2. pos % c = (pos - c) % c /\ (pos - c) % c = pos - c
      BY <1>1, <3>1, ModSmall, ModStep
    <3>3. pos = (b % c) + (1 * c)
      BY <1>1, <1>4, <3>1, <3>2
    <3> QED BY <3>3
  <2> QED BY <2>1, <2>2
<1>6. PICK y \in Int : y = (x % c) - (b % c)
  BY <1>4
<1>7. PICK p \in Int : y = (c * p) + (x - b) /\ x - b \in 0..(c - 1)
  <2>1. x - b \in 0..(c - 1)
    BY <1>1, b <= x, x < b + Capacity DEF c
  <2>2. y % c = x - b
    BY <1>3, <1>6
  <2>3. y = (c * (y \div c)) + (y % c) /\ y \div c \in Int
    BY ONLY <1>1, y \in Int
  <2> QED BY <2>1, <2>2, <2>3
<1>8. PICK t \in Int : t = p - q
  OBVIOUS
<1>9. (x % c) - pos = (c * t) + (x - b)
  <2>1. (x % c) - pos = (y - (q * c))
    BY <1>4, <1>5, <1>6, <1>1
  <2>2. c * (p - q) = (c * p) - (q * c) /\ c * p \in Int /\ q * c \in Int
    BY <1>1, Z3
  <2> QED BY <1>1, <1>7, <1>8, <2>1, <2>2
<1>10. (x % c) - pos \in Int
  BY <1>1, <1>4
<1>11. ((x % c) - pos) % c = x - b
  BY ONLY <1>1, <1>7, <1>9, <1>10, t \in Int, DivModUnique
<1> QED BY <1>2, <1>11

(* A cell is at a distance within the array from any position. *)
LEMMA DistanceInArray ==
  ASSUME Sizes, NEW pos \in Position, NEW i \in PartIndex, NEW o \in Offset
  PROVE  Distance(pos, i, o) \in 0..(Capacity - 1)
<1>1. Capacity \in Nat \ {0} /\ pos \in Nat /\ i \in Nat /\ o \in Nat /\ BufferSize \in Nat
  BY CapacityIs DEF Position, PartIndex, Offset, Sizes
<1>2. i * BufferSize \in Nat
  <2>1. \A a, b \in Nat : a * b \in Nat
    BY Z3
  <2> QED BY <1>1, <2>1
<1>3. PICK y \in Int : y = (i * BufferSize) + (o - pos)
  BY <1>1, <1>2
<1>4. y % Capacity \in 0..(Capacity - 1)
  BY ONLY <1>1, y \in Int
<1> QED BY <1>3, <1>4 DEF Distance

-----------------------------------------------------------------------------
(***************************************************************************)
(* What is true of a ring between two calls: it is never more than full,   *)
(* releasing has come as far as reading, and every cell between the two    *)
(* positions contains a byte, in a part that exists.                       *)
(***************************************************************************)
Sound(r) == /\ r \in Ring
            /\ Space(r.read, r.write) <= Capacity
            /\ r.freeH = Part(r.read)
            /\ \A j \in 0..(Used(r) - 1) : ByteAt(r, r.read + j) \in Byte

(* Where the positions are, counting on from the read position. *)
LEMMA SoundFacts ==
  ASSUME Sizes, NEW r, Sound(r)
  PROVE  /\ r.read \in Position /\ r.write \in Position /\ r.read \in Nat /\ r.write \in Nat
         /\ Used(r) \in 0..Capacity /\ Used(r) \in Nat
         /\ Space(r.read, r.write) = Capacity - Used(r)
         /\ r.write % Capacity = (r.read + Used(r)) % Capacity
         /\ r.write = (r.read + Capacity + Used(r)) % Lap
<1>1. r.read \in Position /\ r.write \in Position
  BY DEF Sound, Ring
<1>2. Capacity \in Nat \ {0} /\ Lap \in Nat \ {0} /\ Lap = 2 * Capacity
  BY CapacityIs
<1>3. r.read \in 0..(Lap - 1) /\ r.write \in 0..(Lap - 1) /\ r.read \in Nat /\ r.write \in Nat
  BY <1>1, <1>2 DEF Position
<1>4. Space(r.read, r.write) \in 0..Capacity
  BY <1>1, <1>2, SpaceIs DEF Sound
<1>5. Used(r) \in 0..Capacity /\ Used(r) \in Nat /\ Space(r.read, r.write) = Capacity - Used(r)
  BY <1>2, <1>4 DEF Used
<1>6. PICK u \in Nat, s \in Nat : u = Used(r) /\ s = r.read + Capacity + u
  BY <1>2, <1>3, <1>5
<1>7. s = r.write + Lap \/ s = r.write
  BY <1>1, <1>2, <1>3, <1>5, <1>6, SpaceIs
<1>8. s % Lap = r.write
  <2>1. r.write % Lap = r.write
    BY ONLY <1>2, <1>3, ModSmall
  <2>2. (r.write + Lap) % Lap = r.write % Lap
    BY ONLY <1>2, <1>3, ModStep
  <2> QED BY ONLY <1>7, <2>1, <2>2
<1>9. r.write % Capacity = (r.read + u) % Capacity
  <2>1. PICK v \in Nat : v = r.read + u /\ s = v + Capacity
    BY <1>2, <1>3, <1>6
  <2>2. s % Capacity = v % Capacity
    BY ONLY <2>1, <1>2, v \in Nat, ModStep
  <2>3. (s % Lap) % Capacity = s % Capacity
    BY ONLY LapCell, Sizes, s \in Nat, Zenon
  <2> QED BY ONLY <1>8, <2>1, <2>2, <2>3
<1> QED BY <1>1, <1>3, <1>5, <1>6, <1>8, <1>9

(* The bytes in k cells, by positions that count on. *)
Cells(r, pos, k) == [i \in 1..k |-> ByteAt(r, pos + (i - 1))]

(* Bytes are read from position to position. *)
LEMMA BytesIs ==
  ASSUME Sizes, NEW r, NEW pos \in Nat, NEW k \in Nat
  PROVE  BytesFrom(r, pos, k) = Cells(r, pos, k)
<1>1. ASSUME NEW i \in 1..k PROVE ByteAt(r, Forward(pos, i - 1)) = ByteAt(r, pos + (i - 1))
  <2>1. PICK x \in Nat : x = pos + (i - 1)
    OBVIOUS
  <2>2. x % Lap \in Position /\ (x % Lap) % Capacity = x % Capacity
    BY LapCell
  <2>3. Position \subseteq Nat
    BY CapacityIs DEF Position
  <2>4. ByteAt(r, x % Lap) = ByteAt(r, x)
    BY <2>2, <2>3, SameCell
  <2> QED BY <2>1, <2>4 DEF Forward
<1> QED BY <1>1 DEF BytesFrom, Cells

(* Two rings that agree on the cells between the positions: the contents.  *)
LEMMA ContentsIs ==
  ASSUME Sizes, NEW r, Sound(r)
  PROVE  /\ Contents(r) \in Seq(Byte) /\ Len(Contents(r)) = Used(r)
         /\ \A i \in 1..Used(r) : Contents(r)[i] = ByteAt(r, r.read + (i - 1))
<1>1. PICK u \in Nat, pos \in Nat : u = Used(r) /\ pos = r.read
  BY SoundFacts
<1> DEFINE e(i) == ByteAt(r, pos + (i - 1))
<1>2. Contents(r) = [i \in 1..u |-> e(i)]
  <2>1. Contents(r) = BytesFrom(r, pos, u)
    BY <1>1 DEF Contents
  <2>2. BytesFrom(r, pos, u) = Cells(r, pos, u)
    BY BytesIs
  <2> QED BY <2>1, <2>2 DEF Cells
<1>3. \A i \in 1..u : e(i) \in Byte
  <2>1. \A i \in 1..u : i - 1 \in 0..(u - 1)
    OBVIOUS
  <2> QED BY <1>1, <2>1 DEF Sound
<1> HIDE DEF e
<1>4. [i \in 1..u |-> e(i)] \in [1..u -> Byte]
  BY ONLY <1>3
<1>5. Contents(r) \in Seq(Byte) /\ Len(Contents(r)) = u
  BY ONLY <1>2, <1>4, u \in Nat
<1>6. \A i \in 1..u : Contents(r)[i] = e(i)
  BY ONLY <1>2
<1> QED BY <1>1, <1>5, <1>6 DEF e

(* A new ring is sound and has no contents. *)
LEMMA EmptySound ==
  ASSUME Sizes
  PROVE  Sound(Empty) /\ Contents(Empty) = <<>> /\ Used(Empty) = 0
<1>1. Capacity \in Nat \ {0} /\ Lap \in Nat \ {0} /\ Lap = 2 * Capacity /\ Capacity \in Position
      /\ 0 \in Position
  BY CapacityIs DEF Position
<1>2. Space(Capacity, 0) = Capacity
  BY <1>1, SpaceIs
<1>3. Capacity \div BufferSize = PoolCnt
  <2>1. Capacity = (BufferSize * PoolCnt) + 0 /\ 0 \in 0..(BufferSize - 1)
    <3>1. \A a, b \in Nat : a * b = b * a
      BY Z3
    <3>2. Capacity = BufferSize * PoolCnt
      BY <3>1 DEF Capacity, Sizes
    <3> QED BY <1>1, <3>2 DEF Sizes
  <2>2. PICK y \in Int : y = Capacity
    BY <1>1
  <2> QED BY <2>1, <2>2, DivModUnique DEF Sizes
<1>4. Empty.read = Capacity /\ Empty.write = 0 /\ Empty.freeH = PoolCnt /\ Used(Empty) = 0
  BY <1>1, <1>2 DEF Empty, Used
<1>5. Empty \in Ring
  BY <1>1 DEF Empty, Ring, Sizes
<1>6. Sound(Empty)
  BY <1>1, <1>2, <1>3, <1>4, <1>5 DEF Sound, Part
<1>7. Contents(Empty) \in Seq(Byte) /\ Len(Contents(Empty)) = 0
  BY <1>4, <1>6, ContentsIs
<1> QED BY <1>4, <1>6, <1>7, EmptySeq

(* Allocation changes no byte. *)
LEMMA AllocatedSound ==
  ASSUME Sizes, NEW r, Sound(r), NEW indices
  PROVE  LET s == Allocated(r, indices)
         IN  /\ Sound(s) /\ Contents(s) = Contents(r)
             /\ s.read = r.read /\ s.write = r.write /\ s.freeH = r.freeH /\ Used(s) = Used(r)
             /\ \A i \in PartIndex : i \in indices \/ r.parts[i] # NULL => s.parts[i] # NULL
<1>1. PICK s : s = Allocated(r, indices)
  OBVIOUS
<1> DEFINE fresh == [o \in Offset |-> Junk]
<1>2. fresh # NULL /\ fresh \in [Offset -> Byte \cup {Junk}]
  BY DEF Sizes
<1>3. /\ r.parts \in [PartIndex -> {NULL} \cup [Offset -> Byte \cup {Junk}]]
      /\ r.write \in Position /\ r.read \in Position /\ r.freeH \in 0..(2 * PoolCnt - 1)
  BY DEF Sound, Ring
<1>4. s = [parts |-> [i \in PartIndex |->
                        IF i \in indices /\ r.parts[i] = NULL THEN fresh ELSE r.parts[i]],
           write |-> r.write, read |-> r.read, freeH |-> r.freeH]
  BY <1>1 DEF Allocated, Sound, Ring
<1>5. s.read = r.read /\ s.write = r.write /\ s.freeH = r.freeH /\ Used(s) = Used(r)
  BY <1>4 DEF Used
<1>6. \A i \in PartIndex :
        s.parts[i] = IF i \in indices /\ r.parts[i] = NULL THEN fresh ELSE r.parts[i]
  BY <1>4
<1>7. \A i \in PartIndex : i \in indices \/ r.parts[i] # NULL => s.parts[i] # NULL
  BY <1>2, <1>6
<1>8. s \in Ring
  <2> HIDE DEF fresh
  <2>1. [i \in PartIndex |-> IF i \in indices /\ r.parts[i] = NULL THEN fresh ELSE r.parts[i]]
          \in [PartIndex -> {NULL} \cup [Offset -> Byte \cup {Junk}]]
    BY <1>2, <1>3
  <2> QED BY <1>3, <1>4, <2>1 DEF Ring
<1>9. ASSUME NEW x \in Nat PROVE ByteAt(s, x) = ByteAt(r, x)
  <2>1. Index(x) \in PartIndex /\ x % BufferSize \in Offset
    BY CellIs
  <2> QED BY <1>2, <1>6, <2>1 DEF ByteAt
<1>10. PICK pos \in Nat, u \in Nat : pos = r.read /\ u = Used(r)
  BY SoundFacts
<1>11. Sound(s)
  <2>1. \A j \in 0..(u - 1) : pos + j \in Nat
    OBVIOUS
  <2> QED BY <1>5, <1>8, <1>9, <1>10, <2>1 DEF Sound
<1>12. Contents(s) = Contents(r)
  <2>1. Len(Contents(s)) = u /\ \A i \in 1..u : Contents(s)[i] = ByteAt(s, pos + (i - 1))
    BY <1>5, <1>10, <1>11, ContentsIs
  <2>2. Len(Contents(r)) = u /\ \A i \in 1..u : Contents(r)[i] = ByteAt(r, pos + (i - 1))
    BY <1>10, ContentsIs
  <2>3. \A i \in 1..u : pos + (i - 1) \in Nat
    OBVIOUS
  <2>4. \A i \in 1..u : Contents(s)[i] = Contents(r)[i]
    BY <1>9, <2>1, <2>2, <2>3
  <2>5. Contents(s) \in Seq(Byte) /\ Contents(r) \in Seq(Byte)
    BY <1>11, ContentsIs
  <2> QED BY ONLY <2>1, <2>2, <2>4, <2>5, SeqEqual
<1> QED BY <1>1, <1>5, <1>7, <1>11, <1>12

-----------------------------------------------------------------------------
(* A write position that moves on by what there is space for. *)
LEMMA SpaceTaken ==
  ASSUME Sizes, NEW read \in Position, NEW write \in Position, NEW n \in Nat,
         n <= Space(read, write)
  PROVE  /\ Forward(write, n) \in Position
         /\ Space(read, Forward(write, n)) = Space(read, write) - n
<1>1. /\ Capacity \in Nat \ {0} /\ Lap \in Nat \ {0} /\ read \in 0..(Lap - 1)
      /\ write \in 0..(Lap - 1) /\ read \in Nat /\ write \in Nat
  BY CapacityIs DEF Position
<1>2. Space(read, write) = IF write <= read THEN read - write ELSE (read - write) + Lap
  BY SpaceIs
<1>3. Forward(write, n) = IF write + n < Lap THEN write + n ELSE (write + n) - Lap
  <2>1. CASE write + n < Lap
    <3>1. (write + n) % Lap = write + n
      BY <1>1, <2>1, ModSmall
    <3> QED BY <2>1, <3>1 DEF Forward
  <2>2. CASE ~(write + n < Lap)
    <3>1. PICK y \in 0..(Lap - 1) : write + n = y + Lap /\ y \in Nat
      <4>1. (write + n) - Lap \in 0..(Lap - 1)
        BY <1>1, <1>2, <2>2
      <4> QED BY <1>1, <4>1
    <3>2. (y + Lap) % Lap = y
      BY <1>1, <3>1, ModSmall, ModStep
    <3> QED BY <1>1, <2>2, <3>1, <3>2 DEF Forward
  <2> QED BY <2>1, <2>2
<1>4. Forward(write, n) \in Position
  BY <1>1, <1>2, <1>3 DEF Position
<1>5. Space(read, Forward(write, n)) =
        IF Forward(write, n) <= read THEN read - Forward(write, n)
                                     ELSE (read - Forward(write, n)) + Lap
  BY <1>4, SpaceIs
<1> QED BY <1>1, <1>2, <1>3, <1>4, <1>5

(* Bytes stored into parts that exist come behind the contents. *)
LEMMA StoredSound ==
  ASSUME Sizes, NEW r, Sound(r), NEW bytes \in Seq(Byte),
         Len(bytes) <= Space(r.read, r.write),
         \A j \in 0..(Len(bytes) - 1) : r.parts[Index(r.write + j)] # NULL
  PROVE  LET s == Stored(r, bytes)
         IN  /\ Sound(s) /\ Contents(s) = Contents(r) \o bytes
             /\ s.read = r.read /\ Used(s) = Used(r) + Len(bytes)
<1>1. PICK s : s = Stored(r, bytes)
  OBVIOUS
<1>2. PICK n \in Nat, u \in Nat, rd \in Nat, w \in Nat :
        n = Len(bytes) /\ u = Used(r) /\ rd = r.read /\ w = r.write
  BY SoundFacts
<1>3. /\ Capacity \in Nat \ {0} /\ rd \in Position /\ w \in Position
      /\ u <= Capacity /\ Space(rd, w) = Capacity - u /\ n <= Capacity - u
      /\ w % Capacity = (rd + u) % Capacity
  BY <1>2, CapacityIs, SoundFacts
<1> DEFINE Cell(i, o) == IF Distance(w, i, o) < n THEN bytes[Distance(w, i, o) + 1] ELSE r.parts[i][o]
           NewPart(i) == IF r.parts[i] = NULL THEN NULL ELSE [o \in Offset |-> Cell(i, o)]
<1>4. /\ r.parts \in [PartIndex -> {NULL} \cup [Offset -> Byte \cup {Junk}]]
      /\ r.freeH \in 0..(2 * PoolCnt - 1)
      /\ r = [parts |-> r.parts, write |-> w, read |-> rd, freeH |-> r.freeH]
  BY <1>2 DEF Sound, Ring
<1>5. s = [parts |-> [i \in PartIndex |-> NewPart(i)], write |-> Forward(w, n),
           read |-> rd, freeH |-> r.freeH]
  BY <1>1, <1>2, <1>4 DEF Stored
<1>6. s.read = rd /\ s.write = Forward(w, n) /\ s.freeH = r.freeH
      /\ \A i \in PartIndex : s.parts[i] = NewPart(i)
  BY <1>5
<1>7. Forward(w, n) \in Position /\ Space(rd, Forward(w, n)) = (Capacity - u) - n
  BY <1>3, SpaceTaken
<1>8. Used(s) = u + n
  BY <1>3, <1>6, <1>7 DEF Used
<1>9. s \in Ring
  <2>1. ASSUME NEW i \in PartIndex PROVE NewPart(i) \in {NULL} \cup [Offset -> Byte \cup {Junk}]
    <3>1. CASE r.parts[i] = NULL
      BY <3>1
    <3>2. CASE r.parts[i] # NULL
      <4>1. ASSUME NEW o \in Offset PROVE Cell(i, o) \in Byte \cup {Junk}
        <5>1. Distance(w, i, o) \in Nat
          BY <1>3, DistanceInArray
        <5>2. Distance(w, i, o) < n => bytes[Distance(w, i, o) + 1] \in Byte
          <6>1. Distance(w, i, o) < n => Distance(w, i, o) + 1 \in 1..n
            BY <5>1
          <6> QED BY <1>2, <6>1, ElementOfSeq
        <5>3. r.parts[i][o] \in Byte \cup {Junk}
          BY <1>4, <3>2
        <5> QED BY <5>2, <5>3
      <4> HIDE DEF Cell
      <4> QED BY <3>2, <4>1
    <3> QED BY <3>1, <3>2
  <2> HIDE DEF NewPart
  <2>2. [i \in PartIndex |-> NewPart(i)] \in [PartIndex -> {NULL} \cup [Offset -> Byte \cup {Junk}]]
    BY ONLY <2>1
  <2> QED BY ONLY <1>3, <1>4, <1>5, <1>7, <2>2 DEF Ring
(* every byte that exists is read from a cell of the part it is in *)
<1>10. ASSUME NEW x \in Nat, r.parts[Index(x)] # NULL
       PROVE  ByteAt(s, x) = Cell(Index(x), x % BufferSize)
              /\ s.parts[Index(x)] # NULL
  <2>1. Index(x) \in PartIndex /\ x % BufferSize \in Offset
    BY CellIs
  <2>2. s.parts[Index(x)] = [o \in Offset |-> Cell(Index(x), o)]
    BY <1>6, <1>10, <2>1
  <2>3. s.parts[Index(x)] # NULL
    <3>1. s.parts[Index(x)] \in [Offset -> Byte \cup {Junk}]
      <4>1. ASSUME NEW o \in Offset PROVE Cell(Index(x), o) \in Byte \cup {Junk}
        <5>1. Distance(w, Index(x), o) \in Nat
          BY <1>3, <2>1, DistanceInArray
        <5>2. Distance(w, Index(x), o) < n => bytes[Distance(w, Index(x), o) + 1] \in Byte
          <6>1. Distance(w, Index(x), o) < n => Distance(w, Index(x), o) + 1 \in 1..n
            BY <5>1
          <6> QED BY <1>2, <6>1, ElementOfSeq
        <5>3. r.parts[Index(x)][o] \in Byte \cup {Junk}
          BY <1>4, <1>10, <2>1
        <5> QED BY <5>2, <5>3
      <4> HIDE DEF Cell
      <4> QED BY <2>2, <4>1
    <3> QED BY <3>1 DEF Sizes
  <2> QED BY <2>1, <2>2, <2>3 DEF ByteAt
(* the bytes that were there *)
<1>11. ASSUME NEW j \in 0..(u - 1) PROVE ByteAt(s, rd + j) = ByteAt(r, rd + j)
  <2>1. PICK x \in Nat, y \in Nat, b \in Nat : x = rd + j /\ y = x + Capacity /\ b = rd + u
    BY <1>3
  <2>2. ByteAt(r, x) \in Byte
    BY <1>2, <2>1 DEF Sound
  <2>3. r.parts[Index(x)] # NULL
    BY <2>2 DEF ByteAt, Junk, Byte, Sizes
  <2>4. Index(y) = Index(x) /\ y % BufferSize = x % BufferSize
    BY <2>1, LapCell, SameCell
  <2>5. b <= y /\ y < b + Capacity /\ n <= y - b
    BY <1>3, <2>1
  <2>6. Distance(w, Index(x), x % BufferSize) = y - b
    <3>1. w % Capacity = b % Capacity
      BY <1>3, <2>1
    <3>2. Distance(w, Index(y), y % BufferSize) = y - b
      BY ONLY Sizes, <1>3, <2>5, <3>1, b \in Nat, y \in Nat, DistanceIs
    <3> QED BY <2>4, <3>2
  <2>7. ~(Distance(w, Index(x), x % BufferSize) < n)
    BY <2>5, <2>6
  <2> QED BY <1>10, <2>1, <2>3, <2>7 DEF ByteAt
(* the bytes that are new *)
<1>12. ASSUME NEW j \in 0..(n - 1) PROVE ByteAt(s, rd + (u + j)) = bytes[j + 1]
  <2>1. PICK x \in Nat, y \in Nat, b \in Nat : x = rd + (u + j) /\ b = rd + u /\ y = w + j /\ x = b + j
    BY <1>3
  <2>2. y % Capacity = x % Capacity
    <3>1. j \in Nat
      OBVIOUS
    <3>2. ((w % Capacity) + j) % Capacity = (w + j) % Capacity
      BY ONLY <1>3, <3>1, w \in Nat, ModPlus, Zenon
    <3>3. ((b % Capacity) + j) % Capacity = (b + j) % Capacity
      BY ONLY <1>3, <3>1, b \in Nat, ModPlus, Zenon
    <3> QED BY <1>3, <2>1, <3>2, <3>3
  <2>3. Index(y) = Index(x)
    BY <2>2, SameCell
  <2>4. r.parts[Index(x)] # NULL
    BY <1>2, <2>1, <2>3
  <2>5. b <= x /\ x < b + Capacity /\ x - b = j
    BY <1>3, <2>1
  <2>6. Distance(w, Index(x), x % BufferSize) = j
    BY <1>3, <2>1, <2>5, DistanceIs
  <2> QED BY <1>10, <2>1, <2>4, <2>6
<1>13. ASSUME NEW j \in 0..((u + n) - 1) PROVE ByteAt(s, rd + j) \in Byte
  <2>1. CASE j < u
    <3>1. j \in 0..(u - 1)
      BY <2>1
    <3> QED BY <1>2, <1>11, <3>1 DEF Sound
  <2>2. CASE ~(j < u)
    <3>1. j - u \in 0..(n - 1) /\ j = u + (j - u) /\ (j - u) + 1 \in 1..n
      BY <2>2
    <3>2. ByteAt(s, rd + j) = bytes[(j - u) + 1]
      BY <1>12, <3>1
    <3> QED BY <1>2, <3>1, <3>2, ElementOfSeq
  <2> QED BY <2>1, <2>2
<1>14. Sound(s)
  <2>1. Space(s.read, s.write) <= Capacity
    BY <1>3, <1>6, <1>7
  <2>2. s.freeH = Part(s.read)
    BY <1>2, <1>6 DEF Sound
  <2>3. \A j \in 0..(Used(s) - 1) : ByteAt(s, s.read + j) \in Byte
    BY <1>6, <1>8, <1>13
  <2> QED BY <1>9, <2>1, <2>2, <2>3 DEF Sound
<1>15. Contents(s) = Contents(r) \o bytes
  <2>1. PICK c, d : c = Contents(r) /\ d = Contents(s)
    OBVIOUS
  <2>2. c \in Seq(Byte) /\ Len(c) = u /\ \A i \in 1..u : c[i] = ByteAt(r, rd + (i - 1))
    BY <1>2, <2>1, ContentsIs
  <2>3. d \in Seq(Byte) /\ Len(d) = u + n /\ \A i \in 1..(u + n) : d[i] = ByteAt(s, rd + (i - 1))
    BY <1>6, <1>8, <1>14, <2>1, ContentsIs
  <2>4. PICK e \in Seq(Byte) :
          /\ e = c \o bytes /\ Len(e) = u + n
          /\ \A i \in 1..u : e[i] = c[i]
          /\ \A i \in 1..n : e[u + i] = bytes[i]
    <3>1. /\ c \o bytes \in Seq(Byte) /\ Len(c \o bytes) = Len(c) + Len(bytes)
          /\ \A i \in 1..Len(c) : (c \o bytes)[i] = c[i]
          /\ \A i \in 1..Len(bytes) : (c \o bytes)[Len(c) + i] = bytes[i]
      <4>1. c \in Seq(Byte)
        BY <2>2
      <4> QED BY ONLY <4>1, bytes \in Seq(Byte), BehindIs
    <3> QED BY ONLY <1>2, <2>2, <3>1
  <2>5. ASSUME NEW i \in 1..(u + n) PROVE d[i] = e[i]
    <3>1. CASE i <= u
      <4>1. i - 1 \in 0..(u - 1) /\ i \in 1..u
        BY <3>1
      <4> QED BY <1>11, <2>2, <2>3, <2>4, <3>1, <4>1
    <3>2. CASE ~(i <= u)
      <4>1. PICK j \in 0..(n - 1) : i - 1 = u + j /\ i = u + (j + 1) /\ j + 1 \in 1..n
        <5>1. (i - 1) - u \in 0..(n - 1)
          BY <3>2
        <5> QED BY <5>1
      <4> QED BY <1>12, <2>3, <2>4, <4>1
    <3> QED BY <3>1, <3>2
  <2>6. d = e
    BY ONLY <2>3, <2>4, <2>5, e \in Seq(Byte), SeqEqual
  <2> QED BY <2>1, <2>4, <2>6
<1> QED BY <1>1, <1>2, <1>6, <1>8, <1>14, <1>15

-----------------------------------------------------------------------------
(* A read position that moves on by no more than what is used. *)
LEMMA SpaceFreed ==
  ASSUME Sizes, NEW read \in Position, NEW write \in Position, NEW k \in Nat,
         Space(read, write) + k <= Capacity
  PROVE  /\ Forward(read, k) \in Position
         /\ Space(Forward(read, k), write) = Space(read, write) + k
<1>1. /\ Capacity \in Nat \ {0} /\ Lap \in Nat \ {0} /\ read \in 0..(Lap - 1)
      /\ write \in 0..(Lap - 1) /\ read \in Nat /\ write \in Nat /\ Lap = 2 * Capacity
  BY CapacityIs DEF Position
<1>2. /\ Space(read, write) = IF write <= read THEN read - write ELSE (read - write) + Lap
      /\ Space(read, write) \in 0..(Lap - 1)
  BY SpaceIs
<1>3. Forward(read, k) = IF read + k < Lap THEN read + k ELSE (read + k) - Lap
  <2>1. CASE read + k < Lap
    <3>1. (read + k) % Lap = read + k
      <4>1. PICK y \in 0..(Lap - 1) : y = read + k
        BY <1>1, <2>1
      <4>2. y % Lap = y
        BY ONLY <1>1, y \in 0..(Lap - 1), ModSmall
      <4> QED BY <4>1, <4>2
    <3> QED BY <2>1, <3>1 DEF Forward
  <2>2. CASE ~(read + k < Lap)
    <3>1. PICK y \in 0..(Lap - 1) : read + k = y + Lap /\ y \in Nat
      <4>1. (read + k) - Lap \in 0..(Lap - 1)
        BY <1>1, <1>2, <2>2
      <4> QED BY <1>1, <4>1
    <3>2. (y + Lap) % Lap = y
      <4>1. y % Lap = y
        BY ONLY <1>1, y \in 0..(Lap - 1), ModSmall
      <4>2. (y + Lap) % Lap = y % Lap
        BY ONLY <1>1, <3>1, ModStep
      <4> QED BY <4>1, <4>2
    <3> QED BY <1>1, <2>2, <3>1, <3>2 DEF Forward
  <2> QED BY <2>1, <2>2
<1>4. Forward(read, k) \in Position
  BY <1>1, <1>2, <1>3 DEF Position
<1>5. Space(Forward(read, k), write) =
        IF write <= Forward(read, k) THEN Forward(read, k) - write
                                     ELSE (Forward(read, k) - write) + Lap
  BY <1>4, SpaceIs
<1> QED BY <1>1, <1>2, <1>3, <1>4, <1>5

(* Parts are counted modulo two laps of the array of parts. *)
LEMMA PartIs ==
  ASSUME Sizes, NEW x \in Nat
  PROVE  /\ Part(x) \in Nat /\ Part(x % Lap) = Part(x) % (2 * PoolCnt)
         /\ Part(x + Capacity) = Part(x) + PoolCnt
         /\ \A y \in Nat : x <= y => Part(x) <= Part(y)
<1>1. 2 * PoolCnt \in Nat \ {0} /\ BufferSize \in Nat \ {0} /\ PoolCnt \in Nat
  BY DEF Sizes
<1>2. Lap = (2 * PoolCnt) * BufferSize
  <2>1. \A a, b \in Nat : 2 * (a * b) = (2 * a) * b
    BY Z3
  <2> QED BY <1>1, <2>1 DEF Lap, Capacity
<1>3. (x % ((2 * PoolCnt) * BufferSize)) \div BufferSize = (x \div BufferSize) % (2 * PoolCnt)
  BY ONLY <1>1, x \in Nat, DivOfMod, Zenon
<1>4. (x + (PoolCnt * BufferSize)) \div BufferSize = (x \div BufferSize) + PoolCnt
  BY ONLY <1>1, x \in Nat, DivPlus, Zenon
<1>5. \A y \in Nat : x <= y => x \div BufferSize <= y \div BufferSize
  BY ONLY <1>1, x \in Nat, DivMonotone, Zenon
<1>6. x \div BufferSize \in Nat
  BY <1>1, DivMod
<1> QED BY <1>2, <1>3, <1>4, <1>5, <1>6 DEF Part, Capacity

(* The parts released are not those of a byte that is still to be read.    *)
LEMMA PassedBehind ==
  ASSUME Sizes, NEW r, Sound(r), NEW k \in 0..Used(r), NEW x \in Nat,
         r.read + k <= x, x < r.read + Used(r)
  PROVE  Index(x) \notin Passed(r, Forward(r.read, k)) \ {Index(r.write)}
<1>1. PICK u \in Nat, rd \in Nat, a \in Nat, e \in Nat, b \in Nat :
        /\ u = Used(r) /\ rd = r.read /\ a = Part(rd) /\ e = Part(rd + k) /\ b = rd + u
  <2>1. r.read \in Nat /\ Used(r) \in Nat /\ k \in Nat
    BY SoundFacts
  <2>2. r.read + k \in Nat /\ r.read + Used(r) \in Nat
    BY <2>1
  <2> QED BY <2>1, <2>2, PartIs
<1>2. /\ Capacity \in Nat \ {0} /\ PoolCnt \in Nat \ {0} /\ 2 * PoolCnt \in Nat \ {0}
      /\ u <= Capacity /\ k \in Nat /\ k <= u /\ rd \in Position /\ r.freeH = a
  BY <1>1, CapacityIs, SoundFacts DEF Sizes, Sound
<1>3. PICK X \in Nat, B \in Nat : X = Part(x) /\ B = Part(b)
  BY <1>1, PartIs
<1>4. a <= e /\ e <= X /\ X <= B /\ B <= a + PoolCnt /\ e <= a + PoolCnt
  <2>1. rd + k \in Nat /\ rd + Capacity \in Nat /\ rd <= rd + k /\ rd + k <= x /\ x <= b
        /\ b <= rd + Capacity
    BY <1>1, <1>2
  <2>2. a <= e
    BY ONLY <1>1, <2>1, Sizes, rd \in Nat, PartIs
  <2>3. e <= X
    BY ONLY <1>1, <1>3, <2>1, Sizes, x \in Nat, PartIs
  <2>4. X <= B
    BY ONLY <1>1, <1>3, <2>1, Sizes, x \in Nat, b \in Nat, PartIs
  <2>5. B <= a + PoolCnt
    <3>1. Part(rd + Capacity) = a + PoolCnt
      BY ONLY <1>1, Sizes, rd \in Nat, PartIs
    <3> QED BY ONLY <1>1, <1>3, <2>1, <3>1, Sizes, b \in Nat, PartIs
  <2> QED BY <1>2, <2>2, <2>3, <2>4, <2>5
<1>5. a < 2 * PoolCnt /\ a % (2 * PoolCnt) = a
  <2>1. a \in 0..(2 * PoolCnt - 1)
    BY <1>2 DEF Sound, Ring
  <2> QED BY <1>2, <2>1, ModSmall
<1>6. (Part(Forward(rd, k)) - a) % (2 * PoolCnt) = e - a
  <2>1. PICK y \in Nat : y = rd + k
    BY <1>2
  <2>2. Part(Forward(rd, k)) = e % (2 * PoolCnt)
    <3>1. Part(y % Lap) = Part(y) % (2 * PoolCnt)
      BY PartIs
    <3> QED BY <1>1, <2>1, <3>1 DEF Forward
  <2>3. PICK m \in Nat \ {0} : m = 2 * PoolCnt
    BY <1>2
  <2>4. ((e % m) - (a % m)) % m = e - a
    <3>1. a <= e /\ e < a + m
      BY <1>2, <1>4, <2>3
    <3> QED BY ONLY <3>1, e \in Nat, a \in Nat, m \in Nat \ {0}, ModMinus
  <2> QED BY <1>5, <2>2, <2>3, <2>4
<1>7. Passed(r, Forward(rd, k)) = {(a + j) % PoolCnt : j \in 0..((e - a) - 1)}
  BY <1>2, <1>6 DEF Passed
<1>8. SUFFICES ASSUME NEW j \in 0..((e - a) - 1), Index(x) = (a + j) % PoolCnt
               PROVE  Index(x) = Index(r.write)
  BY <1>1, <1>7
<1>9. a + j \in Nat /\ a + j < X /\ (a + j) % PoolCnt = X % PoolCnt
  BY <1>3, <1>4, <1>8 DEF Index
<1>10. a + j + PoolCnt <= X
  BY ONLY <1>2, <1>9, X \in Nat, ModApart
<1>11. X = B
  BY <1>2, <1>4, <1>10
<1>12. Index(x) = Index(b)
  BY <1>3, <1>11 DEF Index
<1>13. Index(r.write) = Index(b)
  <2>1. r.write \in Nat /\ r.write % Capacity = b % Capacity
    BY <1>1, SoundFacts
  <2> QED BY <2>1, SameCell
<1> QED BY <1>12, <1>13

(* Bytes taken from the front: the others are still there. *)
LEMMA SkippedSound ==
  ASSUME Sizes, NEW r, Sound(r), NEW k \in 0..Used(r)
  PROVE  LET s == Skipped(r, k)
         IN  /\ Sound(s) /\ Contents(s) = SubSeq(Contents(r), k + 1, Used(r))
             /\ s.read = Forward(r.read, k) /\ s.write = r.write /\ Used(s) = Used(r) - k
<1>1. PICK s : s = Skipped(r, k)
  OBVIOUS
<1>2. PICK u \in Nat, rd \in Nat, to \in Nat :
        u = Used(r) /\ rd = r.read /\ to = Forward(rd, k) /\ k \in Nat
  <2>1. r.read \in Nat /\ Used(r) \in Nat /\ k \in Nat /\ r.read + k \in Nat
    BY SoundFacts
  <2>2. (r.read + k) % Lap \in Nat
    <3>1. (r.read + k) % Lap \in 0..(Lap - 1)
      BY <2>1, CapacityIs, DivMod
    <3> QED BY <3>1
  <2> QED BY <2>1, <2>2 DEF Forward
<1>3. /\ Capacity \in Nat \ {0} /\ rd \in Position /\ r.write \in Position
      /\ u <= Capacity /\ Space(rd, r.write) = Capacity - u /\ k <= u
  BY <1>2, CapacityIs, SoundFacts
<1>4. to \in Position /\ Space(to, r.write) = (Capacity - u) + k
  <2>1. Space(rd, r.write) + k <= Capacity
    BY <1>2, <1>3
  <2>2. /\ Forward(rd, k) \in Position
        /\ Space(Forward(rd, k), r.write) = Space(rd, r.write) + k
    BY ONLY Sizes, <1>3, <2>1, k \in Nat, <1>2, SpaceFreed
  <2> QED BY <1>2, <1>3, <2>2
<1> DEFINE gone == Passed(r, to) \ {Index(r.write)}
           Cell(i, o) == IF Distance(rd, i, o) < k THEN Junk ELSE r.parts[i][o]
           NewPart(i) == IF i \in gone \/ r.parts[i] = NULL THEN NULL ELSE [o \in Offset |-> Cell(i, o)]
<1>5. /\ r.parts \in [PartIndex -> {NULL} \cup [Offset -> Byte \cup {Junk}]]
      /\ r = [parts |-> r.parts, write |-> r.write, read |-> rd, freeH |-> r.freeH]
  BY <1>2 DEF Sound, Ring
<1>6. s = [parts |-> [i \in PartIndex |-> NewPart(i)], write |-> r.write,
           read |-> to, freeH |-> Part(to)]
  BY <1>1, <1>2, <1>5 DEF Skipped
<1>7. s.read = to /\ s.write = r.write /\ s.freeH = Part(to)
      /\ \A i \in PartIndex : s.parts[i] = NewPart(i)
  BY <1>6
<1>8. Used(s) = u - k
  BY <1>3, <1>4, <1>7 DEF Used
<1>9. Part(to) \in 0..(2 * PoolCnt - 1)
  <2>1. PICK y \in Nat : y = rd + k
    BY <1>2
  <2>2. Part(to) = Part(y) % (2 * PoolCnt) /\ Part(y) \in Nat
    BY <1>2, <2>1, PartIs DEF Forward
  <2>3. PICK m \in Nat \ {0}, z \in Nat : m = 2 * PoolCnt /\ z = Part(y)
    BY <2>2 DEF Sizes
  <2>4. z % m \in 0..(m - 1)
    BY DivMod
  <2> QED BY <2>2, <2>3, <2>4
<1>10. s \in Ring
  <2>1. ASSUME NEW i \in PartIndex PROVE NewPart(i) \in {NULL} \cup [Offset -> Byte \cup {Junk}]
    <3>1. CASE r.parts[i] = NULL \/ i \in gone
      BY <3>1
    <3>2. CASE r.parts[i] # NULL /\ i \notin gone
      <4>1. \A o \in Offset : Cell(i, o) \in Byte \cup {Junk}
        BY <1>5, <3>2
      <4> HIDE DEF Cell, gone
      <4> QED BY <3>2, <4>1
    <3> QED BY <3>1, <3>2
  <2> HIDE DEF NewPart
  <2>2. [i \in PartIndex |-> NewPart(i)] \in [PartIndex -> {NULL} \cup [Offset -> Byte \cup {Junk}]]
    BY ONLY <2>1
  <2> QED BY ONLY <1>3, <1>4, <1>6, <1>9, <2>2 DEF Ring
<1>11. ASSUME NEW x \in Nat, rd + k <= x, x < rd + u PROVE ByteAt(s, x) = ByteAt(r, x)
  <2>1. Index(x) \in PartIndex /\ x % BufferSize \in Offset
    BY CellIs
  <2>2. Index(x) \notin gone
    BY <1>2, <1>11, PassedBehind
  <2>3. PICK j \in 0..(u - 1) : x = rd + j
    <3>1. x - rd \in 0..(u - 1) /\ x = rd + (x - rd)
      BY <1>2, <1>11
    <3> QED BY <3>1
  <2>4. ByteAt(r, x) \in Byte
    BY <1>2, <2>3 DEF Sound
  <2>5. r.parts[Index(x)] # NULL
    BY <2>4 DEF ByteAt, Junk, Byte, Sizes
  <2>6. Distance(rd, Index(x), x % BufferSize) = x - rd
    <3>1. rd <= x /\ x < rd + Capacity
      BY <1>2, <1>3, <1>11
    <3> QED BY <1>3, <3>1, DistanceIs
  <2>7. ~(Distance(rd, Index(x), x % BufferSize) < k)
    BY <1>2, <1>11, <2>6
  <2>8. s.parts[Index(x)] = [o \in Offset |-> Cell(Index(x), o)]
    BY <1>7, <2>1, <2>2, <2>5
  <2>9. s.parts[Index(x)] # NULL
    <3>1. \A o \in Offset : Cell(Index(x), o) \in Byte \cup {Junk}
      BY <1>5, <2>1, <2>5
    <3> HIDE DEF Cell
    <3>2. s.parts[Index(x)] \in [Offset -> Byte \cup {Junk}]
      BY <2>8, <3>1
    <3> QED BY <3>2 DEF Sizes
  <2>10. s.parts[Index(x)][x % BufferSize] = Cell(Index(x), x % BufferSize)
    <3> HIDE DEF Cell
    <3> QED BY <2>1, <2>8
  <2>11. Cell(Index(x), x % BufferSize) = r.parts[Index(x)][x % BufferSize]
    BY <2>7
  <2> QED BY ONLY <2>5, <2>9, <2>10, <2>11 DEF ByteAt
<1>12. ASSUME NEW j \in 0..((u - k) - 1) PROVE ByteAt(s, to + j) = ByteAt(r, rd + (k + j))
  <2>1. PICK x \in Nat, y \in Nat : x = rd + (k + j) /\ y = to + j /\ x < rd + u /\ rd + k <= x
    BY <1>2, <1>3
  <2>2. y % Capacity = x % Capacity
    <3>1. PICK z \in Nat : z = rd + k /\ x = z + j /\ to = z % Lap /\ j \in Nat
      BY <1>2, <2>1 DEF Forward
    <3>2. to % Capacity = z % Capacity
      BY <3>1, LapCell
    <3>3. ((to % Capacity) + j) % Capacity = (to + j) % Capacity
      BY ONLY <1>3, <3>1, to \in Nat, ModPlus, Zenon
    <3>4. ((z % Capacity) + j) % Capacity = (z + j) % Capacity
      BY ONLY <1>3, <3>1, z \in Nat, ModPlus, Zenon
    <3> QED BY <2>1, <3>1, <3>2, <3>3, <3>4
  <2>3. ByteAt(s, y) = ByteAt(s, x)
    BY <2>2, SameCell
  <2> QED BY <1>11, <2>1, <2>3
<1>13. Sound(s)
  <2>1. Space(s.read, s.write) <= Capacity
    BY <1>2, <1>3, <1>4, <1>7
  <2>2. ASSUME NEW j \in 0..((u - k) - 1) PROVE ByteAt(s, to + j) \in Byte
    <3>1. k + j \in 0..(u - 1)
      BY <1>2, <1>3
    <3> QED BY <1>2, <1>12, <3>1 DEF Sound
  <2> QED BY <1>7, <1>8, <1>10, <2>1, <2>2 DEF Sound
<1>14. Contents(s) = SubSeq(Contents(r), k + 1, u)
  <2>1. PICK c, d : c = Contents(r) /\ d = Contents(s)
    OBVIOUS
  <2>2. c \in Seq(Byte) /\ Len(c) = u /\ \A i \in 1..u : c[i] = ByteAt(r, rd + (i - 1))
    BY <1>2, <2>1, ContentsIs
  <2>3. d \in Seq(Byte) /\ Len(d) = u - k /\ \A i \in 1..(u - k) : d[i] = ByteAt(s, to + (i - 1))
    BY <1>7, <1>8, <1>13, <2>1, ContentsIs
  <2>4. PICK e \in Seq(Byte) : /\ e = SubSeq(c, k + 1, u) /\ Len(e) = u - k
                               /\ \A i \in 1..(u - k) : e[i] = c[k + i]
    <3>1. \A i \in (k + 1)..u : i \in 1..u
      BY <1>2
    <3>2. \A i \in 1..u : c[i] \in Byte
      BY <2>2, ElementOfSeq
    <3>3. \A i \in (k + 1)..u : c[i] \in Byte
      BY ONLY <3>1, <3>2
    <3>4. k + 1 \in Int /\ u \in Int
      BY <1>2
    <3>5. /\ SubSeq(c, k + 1, u) \in Seq(Byte)
          /\ Len(SubSeq(c, k + 1, u)) = IF k + 1 <= u THEN u - (k + 1) + 1 ELSE 0
          /\ \A i \in 1..(u - (k + 1) + 1) : SubSeq(c, k + 1, u)[i] = c[(k + 1) + i - 1]
      BY ONLY <3>3, <3>4, SubSeqProperties
    <3>6. Len(SubSeq(c, k + 1, u)) = u - k
      BY ONLY <1>2, <1>3, <3>5
    <3>7. ASSUME NEW i \in 1..(u - k) PROVE SubSeq(c, k + 1, u)[i] = c[k + i]
      <4>1. i \in 1..(u - (k + 1) + 1) /\ (k + 1) + i - 1 = k + i
        BY ONLY <1>2, <1>3, i \in 1..(u - k)
      <4> QED BY <3>5, <4>1
    <3> QED BY ONLY <3>5, <3>6, <3>7
  <2>5. ASSUME NEW i \in 1..(u - k) PROVE d[i] = e[i]
    <3>1. i - 1 \in 0..((u - k) - 1) /\ k + i \in 1..u /\ (k + i) - 1 = k + (i - 1)
      BY <1>2, <1>3
    <3> QED BY <1>12, <2>2, <2>3, <2>4, <3>1
  <2>6. d = e
    BY ONLY <2>3, <2>4, <2>5, e \in Seq(Byte), SeqEqual
  <2> QED BY <2>1, <2>4, <2>6
<1> QED BY <1>1, <1>2, <1>7, <1>8, <1>13, <1>14

-----------------------------------------------------------------------------
(* Where parts begin and end. *)
LEMMA PartEnds ==
  ASSUME Sizes, NEW x \in Nat, NEW y \in Nat
  PROVE  /\ x % BufferSize \in 0..(BufferSize - 1)
         /\ Part(x) < Part(y) => x + (BufferSize - (x % BufferSize)) <= y
         /\ Part(x) = Part(y) => x - (x % BufferSize) = y - (y % BufferSize)
         /\ x <= y /\ y < x + (BufferSize - (x % BufferSize)) => Part(y) = Part(x)
<1>1. PICK n \in Nat \ {0} : n = BufferSize
  BY DEF Sizes
<1>2. PICK p \in Nat, a \in 0..(n - 1) : p = Part(x) /\ a = x % n /\ x = (n * p) + a
  BY ONLY <1>1, x \in Nat, DivMod DEF Part
<1>3. PICK q \in Nat, b \in 0..(n - 1) : q = Part(y) /\ b = y % n /\ y = (n * q) + b
  BY ONLY <1>1, y \in Nat, DivMod DEF Part
<1>4. \A i, j \in Nat : i < j => (n * i) + n <= n * j
  <2>1. ASSUME NEW i \in Nat, NEW j \in Nat, i < j PROVE (n * i) + n <= n * j
    <3>1. PICK d \in Nat : j = i + 1 + d
      <4>1. j - i - 1 \in Nat
        BY <2>1
      <4> QED BY <4>1
    <3>2. n * (i + 1 + d) = (n * i) + n + (n * d) /\ n * d \in Nat /\ n * i \in Nat
      BY Z3
    <3> QED BY <3>1, <3>2
  <2> QED BY <2>1
<1>5. PICK P \in Nat, Q \in Nat : /\ x = P + a /\ y = Q + b
                                  /\ p < q => P + n <= Q
                                  /\ q < p => Q + n <= P
                                  /\ p = q => P = Q
  <2>1. \A i, j \in Nat : i * j \in Nat
    BY Z3
  <2>2. n * p \in Nat /\ n * q \in Nat
    BY ONLY <2>1, n \in Nat \ {0}, p \in Nat, q \in Nat
  <2>3. (p < q => (n * p) + n <= n * q) /\ (q < p => (n * q) + n <= n * p)
    BY ONLY <1>4, p \in Nat, q \in Nat
  <2> QED BY ONLY <1>2, <1>3, <2>2, <2>3
<1>6. a \in Nat /\ b \in Nat /\ a < n /\ b < n
  OBVIOUS
<1>7. p < q => x + (n - a) <= y
  BY <1>5, <1>6
<1>8. p = q => x - a = y - b
  BY <1>5, <1>6
<1>9. x <= y /\ y < x + (n - a) => q = p
  BY <1>5, <1>6
<1> QED BY <1>1, <1>2, <1>3, <1>7, <1>8, <1>9

(* The bytes prepared for sending are there. *)
LEMMA PreparedThere ==
  ASSUME Sizes, NEW r, Sound(r)
  PROVE  Prepared(r) \in Int /\ Prepared(r) <= Used(r)
<1>1. PICK u \in Nat, rd \in Nat, b \in Nat, a \in Nat, B \in Nat :
        u = Used(r) /\ rd = r.read /\ b = rd + u /\ a = Part(rd) /\ B = Part(b)
  <2>1. r.read \in Nat /\ Used(r) \in Nat /\ r.read + Used(r) \in Nat
    BY SoundFacts
  <2> QED BY <2>1, PartIs
<1>2. /\ Capacity \in Nat \ {0} /\ PoolCnt \in Nat \ {0} /\ 2 * PoolCnt \in Nat \ {0}
      /\ u <= Capacity /\ BufferSize <= Capacity /\ BufferSize \in Nat
      /\ r.write \in Nat /\ r.write % Capacity = b % Capacity
      /\ a < 2 * PoolCnt /\ r.write = (rd + Capacity + u) % Lap
  <2>1. a \in 0..(2 * PoolCnt - 1)
    BY <1>1 DEF Sound, Ring
  <2> QED BY <1>1, <2>1, CapacityIs, SoundFacts DEF Sizes
<1>3. a <= B /\ B <= a + PoolCnt
  <2>1. rd <= b /\ b <= rd + Capacity /\ rd + Capacity \in Nat
    BY <1>1, <1>2
  <2>2. a <= B
    BY ONLY <1>1, <2>1, Sizes, rd \in Nat, b \in Nat, PartIs
  <2>3. Part(rd + Capacity) = a + PoolCnt
    BY ONLY <1>1, Sizes, rd \in Nat, PartIs
  <2>4. B <= Part(rd + Capacity)
    BY ONLY <1>1, <2>1, Sizes, b \in Nat, PartIs
  <2> QED BY <2>2, <2>3, <2>4
<1>4. Part(r.write) = (B + PoolCnt) % (2 * PoolCnt)
  <2>1. PICK y \in Nat : y = b + Capacity /\ y = rd + Capacity + u
    BY <1>1, <1>2
  <2>2. Part(y) = B + PoolCnt
    BY <1>1, <2>1, PartIs
  <2>3. Part(y % Lap) = Part(y) % (2 * PoolCnt)
    BY PartIs
  <2> QED BY <1>2, <2>1, <2>2, <2>3
<1>5. Index(r.write) = B % PoolCnt /\ r.write % BufferSize = b % BufferSize
      /\ Index(rd) = a % PoolCnt
  <2>1. Index(r.write) = Index(b) /\ r.write % BufferSize = b % BufferSize
    BY <1>2, SameCell
  <2> QED BY <1>1, <2>1 DEF Index
<1>6. /\ rd % BufferSize \in 0..(BufferSize - 1) /\ b % BufferSize \in 0..(BufferSize - 1)
      /\ a < B => rd + (BufferSize - (rd % BufferSize)) <= b
      /\ a = B => rd - (rd % BufferSize) = b - (b % BufferSize)
  <2>1. b % BufferSize \in 0..(BufferSize - 1)
    BY PartEnds
  <2> QED BY <1>1, <2>1, PartEnds
<1>7. CASE a = B
  <2>1. Part(r.write) # a
    <3>1. PICK n \in Nat \ {0} : n = 2 * PoolCnt
      BY <1>2
    <3>2. a % n = a
      <4>1. a \in 0..(n - 1)
        BY <1>2, <3>1
      <4> QED BY ONLY <4>1, n \in Nat \ {0}, ModSmall
    <3>3. (a + PoolCnt) % n = a % n <=> a + PoolCnt = a
      <4>1. PICK e \in Nat : e = a + PoolCnt /\ a <= e /\ e < a + n
        BY <1>2, <3>1
      <4>2. e % n = a % n <=> e = a
        BY ONLY <4>1, e \in Nat, a \in Nat, n \in Nat \ {0}, ModNear
      <4> QED BY <4>1, <4>2
    <3> QED BY <1>2, <1>4, <1>7, <3>1, <3>2, <3>3
  <2>2. Prepared(r) = (b % BufferSize) - (rd % BufferSize)
    BY <1>1, <1>5, <1>7, <2>1 DEF Prepared
  <2> QED BY <1>1, <1>6, <1>7, <2>2
<1>8. CASE a # B
  <2>1. ~(Part(r.read) # Part(r.write) /\ Index(r.read) = Index(r.write))
    <3>1. CASE B = a + PoolCnt
      <4>1. PICK n \in Nat \ {0} : n = 2 * PoolCnt
        BY <1>2
      <4>2. a % n = a /\ (a + n) % n = a % n
        <5>1. a \in 0..(n - 1)
          BY <1>2, <4>1
        <5> QED BY ONLY <5>1, a \in Nat, n \in Nat \ {0}, ModSmall, ModStep
      <4>3. B + PoolCnt = a + n
        BY <1>2, <3>1, <4>1
      <4> QED BY <1>1, <1>4, <4>1, <4>2, <4>3
    <3>2. CASE B # a + PoolCnt
      <4>1. PICK m \in Nat \ {0} : m = PoolCnt /\ a <= B /\ B < a + m
        BY <1>2, <1>3, <3>2
      <4>2. B % m = a % m <=> B = a
        <5>1. a <= B /\ B < a + m
          BY <4>1
        <5> QED BY ONLY <5>1, a \in Nat, B \in Nat, m \in Nat \ {0}, ModNear, Zenon
      <4> QED BY <1>1, <1>5, <1>8, <4>1, <4>2
    <3> QED BY <3>1, <3>2
  <2>2. Prepared(r) = BufferSize - (rd % BufferSize)
    BY <1>1, <2>1 DEF Prepared
  <2>3. a < B
    BY <1>3, <1>8
  <2> QED BY <1>1, <1>2, <1>6, <2>2, <2>3
<1> QED BY <1>7, <1>8

(* So is the room prepared for receiving, and it is in one part. *)
LEMMA PreparedRoom ==
  ASSUME Sizes, NEW b, Sound(b.ring), NEW k \in Nat \ {0}, k <= PreparedA(b)
  PROVE  /\ k <= Space(b.ring.read, b.ring.write)
         /\ \A j \in 0..(k - 1) : Index(b.ring.write + j) = Index(b.ring.write)
<1>1. PICK r : r = b.ring
  OBVIOUS
<1>2. PICK rd \in Nat, w \in Nat, s \in Nat :
        rd = r.read /\ w = r.write /\ s = Space(rd, w)
  <2>1. r.read \in Nat /\ r.write \in Nat /\ r.read \in Position /\ r.write \in Position
    BY <1>1, SoundFacts
  <2>2. Space(r.read, r.write) \in Nat
    <3>1. Space(r.read, r.write) \in 0..(Lap - 1)
      BY <2>1, SpaceIs
    <3> QED BY <3>1, CapacityIs
  <2> QED BY <2>1, <2>2
<1>3. /\ s <= Capacity /\ Capacity \in Nat \ {0} /\ Lap = 2 * Capacity /\ w < Lap /\ rd < Lap
      /\ BufferSize \in Nat \ {0} /\ BufferSize <= Capacity
      /\ s = IF w <= rd THEN rd - w ELSE (rd - w) + Lap
  <2>1. rd \in Position /\ w \in Position /\ s <= Capacity
    BY <1>1, <1>2, SoundFacts DEF Sound
  <2>2. s = IF w <= rd THEN rd - w ELSE (rd - w) + Lap
    BY <1>2, <2>1, SpaceIs
  <2> QED BY <2>1, <2>2, CapacityIs DEF Position, Sizes
<1>4. PICK n \in Nat \ {0} : n = BufferSize
  BY <1>3
<1>5. PICK a \in 0..(n - 1) : a = w % n
  <2>1. w % BufferSize \in 0..(BufferSize - 1)
    BY PartEnds
  <2> QED BY <1>4, <2>1
<1>6. n = BufferSize /\ a = w % n
  BY <1>4, <1>5
<1>7. rd # w
  BY <1>1, <1>2 DEF PreparedA
<1>8. CASE Part(rd) = Part(w)
  <2>1. k <= s
    BY <1>1, <1>2, <1>7, <1>8 DEF PreparedA
  <2>2. w <= rd
    <3>1. PICK c \in 0..(n - 1) : c = rd % n /\ w - a = rd - c
      <4>1. rd % BufferSize \in 0..(BufferSize - 1)
        BY PartEnds
      <4>2. w - (w % BufferSize) = rd - (rd % BufferSize)
        BY <1>8, PartEnds
      <4> QED BY <1>6, <4>1, <4>2
    <3> QED BY <1>3, <1>6, <3>1
  <2>3. rd < w + (n - a)
    <3>1. PICK c \in 0..(n - 1) : c = rd % n /\ w - a = rd - c
      <4>1. rd % BufferSize \in 0..(BufferSize - 1)
        BY PartEnds
      <4>2. w - (w % BufferSize) = rd - (rd % BufferSize)
        BY <1>8, PartEnds
      <4> QED BY <1>6, <4>1, <4>2
    <3> QED BY <1>6, <3>1
  <2>4. ASSUME NEW j \in 0..(k - 1) PROVE Index(w + j) = Index(w)
    <3>1. w + j \in Nat /\ w <= w + j /\ w + j < w + (n - a)
      BY <1>3, <1>6, <2>1, <2>2, <2>3
    <3>2. PICK y \in Nat : y = w + j
      BY <3>1
    <3>3. Part(y) = Part(w)
      BY <1>6, <3>1, <3>2, PartEnds
    <3> QED BY <3>2, <3>3 DEF Index
  <2> QED BY <1>1, <1>2, <2>1, <2>4
<1>9. CASE Part(rd) # Part(w)
  <2>1. k <= n - a
    BY <1>1, <1>2, <1>6, <1>7, <1>9 DEF PreparedA
  <2>2. n - a <= s
    <3>1. CASE w <= rd
      <4>1. Part(w) <= Part(rd)
        BY <3>1, PartIs
      <4>2. Part(w) \in Nat /\ Part(rd) \in Nat
        BY PartIs
      <4>3. Part(w) < Part(rd)
        BY <1>9, <4>1, <4>2
      <4>4. w + (n - a) <= rd
        BY <1>6, <4>3, PartEnds
      <4> QED BY <1>3, <1>6, <3>1, <4>4
    <3>2. CASE ~(w <= rd)
      <4>1. PICK l \in Nat : l = Lap
        BY <1>3
      <4>2. Part(w) < Part(l)
        <5>1. Part(w) \in Nat /\ Part(w) <= Part(l)
          <6>1. w <= l
            BY <1>3, <4>1
          <6> QED BY ONLY <6>1, Sizes, w \in Nat, l \in Nat, PartIs
        <5>2. Part(l) = 2 * PoolCnt
          <6>1. l = (BufferSize * (2 * PoolCnt)) + 0
            <7>1. \A i, j \in Nat : 2 * (i * j) = j * (2 * i)
              BY Z3
            <7>2. PoolCnt \in Nat /\ BufferSize \in Nat
              BY DEF Sizes
            <7>3. l = BufferSize * (2 * PoolCnt) /\ l \in Nat
              BY <4>1, <7>1, <7>2 DEF Lap, Capacity
            <7> QED BY <7>3
          <6>2. 2 * PoolCnt \in Int /\ 0 \in 0..(BufferSize - 1) /\ BufferSize \in Nat \ {0}
            BY DEF Sizes
          <6>3. l \div BufferSize = 2 * PoolCnt
            BY ONLY <6>1, <6>2, l \in Int, DivModUnique
          <6> QED BY <6>3 DEF Part
        <5>3. Part(w) # 2 * PoolCnt
          <6>1. Part(w) = Part(w) % (2 * PoolCnt)
            <7>1. w % Lap = w
              <8>1. w \in 0..(Lap - 1) /\ Lap \in Nat \ {0}
                BY <1>3
              <8> QED BY ONLY <8>1, ModSmall
            <7>2. Part(w % Lap) = Part(w) % (2 * PoolCnt)
              BY PartIs
            <7> QED BY <7>1, <7>2
          <6>2. PICK m \in Nat \ {0}, p \in Nat : m = 2 * PoolCnt /\ p = Part(w)
            <7>1. 2 * PoolCnt \in Nat \ {0}
              BY DEF Sizes
            <7>2. Part(w) \in Nat
              BY PartIs
            <7> QED BY <7>1, <7>2
          <6>3. p % m \in 0..(m - 1)
            BY DivMod
          <6> QED BY <6>1, <6>2, <6>3
        <5> QED BY <5>1, <5>2, <5>3 DEF Sizes
      <4>3. w + (n - a) <= l
        BY <1>6, <4>2, PartEnds
      <4> QED BY <1>3, <1>6, <3>2, <4>1, <4>3
    <3> QED BY <3>1, <3>2
  <2>3. ASSUME NEW j \in 0..(k - 1) PROVE Index(w + j) = Index(w)
    <3>1. PICK y \in Nat : y = w + j /\ w <= y /\ y < w + (n - a)
      BY <1>6, <2>1
    <3>2. Part(y) = Part(w)
      BY <1>6, <3>1, PartEnds
    <3> QED BY <3>1, <3>2 DEF Index
  <2>4. k <= s
    BY <1>6, <2>1, <2>2
  <2> QED BY <1>1, <1>2, <2>3, <2>4
<1> QED BY <1>8, <1>9

(* What recv() puts there comes behind the contents. *)
LEMMA ReceivedSound ==
  ASSUME Sizes, NEW b, Sound(b.ring), NEW bytes \in Seq(Byte), bytes # <<>>,
         Len(bytes) <= PreparedA(b)
  PROVE  LET s == ReceivedA(b, bytes)
         IN  /\ Sound(s) /\ Contents(s) = Contents(b.ring) \o bytes
             /\ s.read = b.ring.read /\ Used(s) = Used(b.ring) + Len(bytes)
<1>1. PICK r : r = b.ring
  OBVIOUS
<1>2. PICK k \in Nat \ {0}, w \in Nat :
        r = b.ring /\ Sound(r) /\ k = Len(bytes) /\ w = r.write
  <2>1. Len(bytes) \in Nat \ {0}
    BY EmptySeq
  <2>2. b.ring.write \in Nat
    BY SoundFacts
  <2> QED BY <1>1, <2>1, <2>2
<1>3. PICK s : s = Allocated(r, {Index(w)})
  OBVIOUS
<1>4. /\ Sound(s) /\ Contents(s) = Contents(r) /\ s.read = r.read /\ s.write = w
      /\ Used(s) = Used(r) /\ s.parts[Index(w)] # NULL
  <2>1. Index(w) \in PartIndex
    BY CellIs
  <2>2. /\ Sound(s) /\ Contents(s) = Contents(r) /\ s.read = r.read /\ s.write = r.write
        /\ Used(s) = Used(r)
        /\ \A i \in PartIndex : i \in {Index(w)} \/ r.parts[i] # NULL => s.parts[i] # NULL
    BY <1>2, <1>3, AllocatedSound
  <2> QED BY <1>2, <2>1, <2>2
<1>5. k <= Space(r.read, w) /\ \A j \in 0..(k - 1) : Index(w + j) = Index(w)
  BY <1>2, PreparedRoom
<1>6. /\ Sound(Stored(s, bytes)) /\ Contents(Stored(s, bytes)) = Contents(s) \o bytes
      /\ Stored(s, bytes).read = s.read /\ Used(Stored(s, bytes)) = Used(s) + Len(bytes)
  <2>1. Len(bytes) <= Space(s.read, s.write)
    BY <1>2, <1>4, <1>5
  <2>2. \A j \in 0..(Len(bytes) - 1) : s.parts[Index(s.write + j)] # NULL
    BY <1>2, <1>4, <1>5
  <2> QED BY <1>4, <2>1, <2>2, StoredSound
<1> QED BY <1>2, <1>3, <1>4, <1>6 DEF ReceivedA

(* A message and its header come behind the contents. *)
LEMMA WrittenSound ==
  ASSUME Sizes, NEW r, Sound(r), NEW m \in Seq(Byte), NEW en \in Nat,
         Accepts(r, m, en)
  PROVE  LET s == Written(r, m, en)
         IN  Encoded(m, en) \in Seq(Byte) /\ Sound(s) /\ Contents(s) = Contents(r) \o Encoded(m, en)
<1>1. PICK e \in Seq(Byte), n \in Nat, w \in Nat :
        e = Encoded(m, en) /\ n = Len(e) /\ n = Len(m) + en /\ w = r.write
  <2>1. Len(m) + en \in Nat
    OBVIOUS
  <2>2. PICK h \in Seq(Byte) : h = Header(Len(m) + en, en) /\ Len(h) = en
    BY <2>1, HeaderFacts
  <2>3. h \o m \in Seq(Byte) /\ Len(h \o m) = Len(h) + Len(m)
    BY BehindIs
  <2>4. Len(m) + en = en + Len(m)
    OBVIOUS
  <2>5. r.write \in Nat
    BY SoundFacts
  <2> QED BY <2>1, <2>2, <2>3, <2>4, <2>5 DEF Encoded
<1>2. PICK s : s = Allocated(r, Needed(r, Len(m), en))
  OBVIOUS
<1>3. /\ Sound(s) /\ Contents(s) = Contents(r) /\ s.read = r.read /\ s.write = w
      /\ \A i \in PartIndex : i \in Needed(r, Len(m), en) => s.parts[i] # NULL
  BY <1>1, <1>2, AllocatedSound
<1>4. ASSUME NEW j \in 0..(n - 1) PROVE s.parts[Index(w + j)] # NULL
  <2>1. PICK y \in Nat : y = w + j
    OBVIOUS
  <2>2. Index(y % Lap) = Index(y)
    <3>1. y % Lap \in Position /\ (y % Lap) % Capacity = y % Capacity
      BY LapCell
    <3>2. y % Lap \in Nat
      BY <3>1, CapacityIs DEF Position
    <3> QED BY <3>1, <3>2, SameCell
  <2>3. Index(Forward(r.write, j)) = Index(y)
    BY <1>1, <2>1, <2>2 DEF Forward
  <2>4. Index(y) \in Parts(r, Len(m) + en)
    <3>1. j \in 0..((Len(m) + en) - 1)
      BY <1>1
    <3> QED BY <2>3, <3>1 DEF Parts
  <2>5. Index(y) \in Needed(r, Len(m), en)
    BY <2>4 DEF Needed
  <2>6. Index(y) \in PartIndex
    BY CellIs
  <2> QED BY <1>3, <2>1, <2>5, <2>6
<1>5. Sound(Stored(s, e)) /\ Contents(Stored(s, e)) = Contents(s) \o e
  <2>1. Len(e) <= Space(s.read, s.write)
    BY <1>1, <1>3 DEF Accepts
  <2>2. \A j \in 0..(Len(e) - 1) : s.parts[Index(s.write + j)] # NULL
    BY <1>1, <1>3, <1>4
  <2> QED BY <1>3, <2>1, <2>2, StoredSound
<1> QED BY <1>1, <1>2, <1>3, <1>5 DEF Written

(* A write that fails changes no byte. *)
LEMMA WriteFailuresSound ==
  ASSUME Sizes, NEW r, Sound(r), NEW m \in Seq(Byte), NEW en \in Nat,
         NEW s \in WriteFailures(r, m, en)
  PROVE  Sound(s) /\ Contents(s) = Contents(r)
<1>1. PICK k : s = Allocated(r, Parts(r, k))
  BY DEF WriteFailures
<1> QED BY <1>1, AllocatedSound

-----------------------------------------------------------------------------
(* The bytes from some byte of the contents on. *)
LEMMA BytesAt ==
  ASSUME Sizes, NEW r, Sound(r), NEW s \in Nat, NEW k \in Nat, s + k <= Used(r)
  PROVE  /\ BytesFrom(r, Forward(r.read, s), k) = SubSeq(Contents(r), s + 1, s + k)
         /\ SubSeq(Contents(r), s + 1, s + k) \in Seq(Byte)
         /\ Forward(r.read, s) \in Position
<1>1. PICK u \in Nat, rd \in Nat, z \in Nat : u = Used(r) /\ rd = r.read /\ z = rd + s
  BY SoundFacts
<1>2. Capacity \in Nat \ {0} /\ s + k <= u
  BY <1>1, CapacityIs
<1>3. PICK to \in Nat : to = Forward(rd, s) /\ to \in Position /\ to % Capacity = z % Capacity
  <2>1. z % Lap \in Position /\ (z % Lap) % Capacity = z % Capacity
    BY LapCell
  <2>2. Position \subseteq Nat
    BY CapacityIs DEF Position
  <2> QED BY <1>1, <2>1, <2>2 DEF Forward
<1>4. PICK c : c = Contents(r)
  OBVIOUS
<1>5. c \in Seq(Byte) /\ Len(c) = u /\ \A i \in 1..u : c[i] = ByteAt(r, rd + (i - 1))
  BY <1>1, <1>4, ContentsIs
<1>6. ASSUME NEW i \in 1..k PROVE ByteAt(r, to + (i - 1)) = c[s + i] /\ c[s + i] \in Byte
  <2>1. PICK j \in Nat : j = i - 1
    OBVIOUS
  <2>2. PICK x \in Nat, y \in Nat : x = to + j /\ y = z + j
    OBVIOUS
  <2>3. x % Capacity = y % Capacity
    <3>1. ((to % Capacity) + j) % Capacity = (to + j) % Capacity
      BY ONLY <1>2, to \in Nat, j \in Nat, ModPlus, Zenon
    <3>2. ((z % Capacity) + j) % Capacity = (z + j) % Capacity
      BY ONLY <1>2, z \in Nat, j \in Nat, ModPlus, Zenon
    <3> QED BY <1>3, <2>2, <3>1, <3>2
  <2>4. ByteAt(r, x) = ByteAt(r, y)
    BY <2>3, SameCell
  <2>5. s + i \in 1..u /\ rd + ((s + i) - 1) = y
    BY <1>1, <1>2, <2>1, <2>2
  <2>6. c[s + i] = ByteAt(r, y) /\ c[s + i] \in Byte
    BY <1>5, <2>5, ElementOfSeq
  <2> QED BY <2>1, <2>2, <2>4, <2>6
<1>7. PICK t \in Seq(Byte) : /\ t = SubSeq(c, s + 1, s + k) /\ Len(t) = k
                             /\ \A i \in 1..k : t[i] = c[s + i]
  <2>1. \A i \in (s + 1)..(s + k) : i \in 1..u
    BY <1>2
  <2>2. \A i \in 1..u : c[i] \in Byte
    BY <1>5, ElementOfSeq
  <2>3. \A i \in (s + 1)..(s + k) : c[i] \in Byte
    BY ONLY <2>1, <2>2
  <2>4. s + 1 \in Int /\ s + k \in Int
    OBVIOUS
  <2>5. /\ SubSeq(c, s + 1, s + k) \in Seq(Byte)
        /\ Len(SubSeq(c, s + 1, s + k)) = IF s + 1 <= s + k THEN (s + k) - (s + 1) + 1 ELSE 0
        /\ \A i \in 1..((s + k) - (s + 1) + 1) : SubSeq(c, s + 1, s + k)[i] = c[(s + 1) + i - 1]
    BY ONLY <2>3, <2>4, SubSeqProperties
  <2>6. Len(SubSeq(c, s + 1, s + k)) = k
    BY ONLY <2>5, s \in Nat, k \in Nat
  <2>7. ASSUME NEW i \in 1..k PROVE SubSeq(c, s + 1, s + k)[i] = c[s + i]
    <3>1. i \in 1..((s + k) - (s + 1) + 1) /\ (s + 1) + i - 1 = s + i
      OBVIOUS
    <3> QED BY <2>5, <3>1
  <2> QED BY ONLY <2>5, <2>6, <2>7
<1>8. BytesFrom(r, to, k) = t
  <2>1. BytesFrom(r, to, k) = [i \in 1..k |-> ByteAt(r, to + (i - 1))]
    BY BytesIs DEF Cells
  <2>2. t = [i \in 1..k |-> t[i]]
    <3>1. t \in [1..k -> Byte]
      BY ONLY <1>7, t \in Seq(Byte), LenProperties
    <3> QED BY ONLY <3>1
  <2>3. \A i \in 1..k : ByteAt(r, to + (i - 1)) = t[i]
    BY <1>6, <1>7
  <2> QED BY ONLY <2>1, <2>2, <2>3
<1> QED BY <1>1, <1>3, <1>4, <1>7, <1>8

(* Going on from a position is adding up. *)
LEMMA ForwardTwice ==
  ASSUME Sizes, NEW pos \in Position, NEW i \in Nat, NEW j \in Nat
  PROVE  Forward(Forward(pos, i), j) = Forward(pos, i + j) /\ Forward(pos, 0) = pos
<1>1. PICK l \in Nat \ {0}, x \in Nat, y \in Nat : l = Lap /\ x = pos /\ y = x + i /\ x \in 0..(l - 1)
  <2>1. Lap \in Nat \ {0}
    BY CapacityIs
  <2>2. pos \in Nat /\ pos + i \in Nat
    BY <2>1 DEF Position
  <2> QED BY <2>1, <2>2 DEF Position
<1>2. ((y % l) + j) % l = (y + j) % l
  BY ModPlus
<1>3. x % l = x /\ x + 0 = x
  BY <1>1, ModSmall
<1>4. y + j = x + (i + j)
  BY <1>1
<1> QED BY <1>1, <1>2, <1>3, <1>4 DEF Forward

(* The size of a message whose header is in the contents. *)
LEMMA MsgSizeAt ==
  ASSUME Sizes, NEW r, Sound(r), NEW en \in Nat, NEW s \in 0..Used(r)
  PROVE  /\ Used(r) - s < en => MsgSize(r, Forward(r.read, s), en) = 0
         /\ \A size \in en..Capacity :
              /\ en <= Used(r) - s /\ size < Power(en)
              /\ SubSeq(Contents(r), s + 1, s + en) = Header(size, en)
              => MsgSize(r, Forward(r.read, s), en) = IF size > Used(r) - s THEN 0 ELSE size
<1>1. PICK u \in Nat, v \in Nat, to \in Position : u = Used(r) /\ v = u - s /\ to = Forward(r.read, s)
  <2>1. Used(r) \in Nat /\ Used(r) - s \in Nat
    BY SoundFacts
  <2>2. r.read \in Position /\ r.write \in Position /\ Space(r.read, r.write) = Capacity - Used(r)
    BY SoundFacts
  <2>3. Space(r.read, r.write) + s <= Capacity /\ s \in Nat
    BY <2>1, <2>2, CapacityIs
  <2>4. Forward(r.read, s) \in Position
    BY <2>2, <2>3, SpaceFreed
  <2> QED BY <2>1, <2>4
<1>2. Capacity - Space(to, r.write) = v
  <2>1. /\ r.read \in Position /\ r.write \in Position /\ Space(r.read, r.write) = Capacity - u
        /\ Capacity \in Nat
    BY <1>1, SoundFacts, CapacityIs
  <2>2. Space(r.read, r.write) + s <= Capacity /\ s \in Nat
    BY <1>1, <2>1
  <2>3. Space(Forward(r.read, s), r.write) = Space(r.read, r.write) + s
    BY ONLY Sizes, <2>1, <2>2, SpaceFreed
  <2> QED BY <1>1, <2>1, <2>3
<1>3. ASSUME v < en PROVE MsgSize(r, to, en) = 0
  BY <1>2, <1>3 DEF MsgSize
<1>4. ASSUME NEW size \in en..Capacity, en <= v, size < Power(en),
             SubSeq(Contents(r), s + 1, s + en) = Header(size, en)
      PROVE  MsgSize(r, to, en) = IF size > v THEN 0 ELSE size
  <2>1. BytesFrom(r, to, en) = Header(size, en)
    <3>1. s \in Nat /\ s + en <= Used(r)
      BY <1>1, <1>4
    <3>2. BytesFrom(r, Forward(r.read, s), en) = SubSeq(Contents(r), s + 1, s + en)
      BY <3>1, BytesAt
    <3> QED BY <1>1, <1>4, <3>2
  <2>2. Decoded(Header(size, en)) = size
    <3>1. size \in Nat
      BY <1>4
    <3> QED BY <1>4, <3>1, DecodedHeader
  <2>3. Capacity \in Nat /\ size \in Nat /\ en <= size /\ size <= Capacity
    BY <1>4, CapacityIs
  <2>4. /\ ~(v < en) /\ ~(v >= en /\ size < en) /\ ~(v >= en /\ size > Capacity)
        /\ v >= en /\ size \in en..Capacity
    BY <1>4, <2>3
  <2> QED BY <1>2, <2>1, <2>2, <2>4 DEF MsgSize
<1> QED BY <1>1, <1>3, <1>4

(* Recognising messages goes from boundary to boundary, and stops where no *)
(* message is complete.                                                    *)
LEMMA RecognisedStops ==
  ASSUME Sizes, NEW r, Sound(r), NEW en, NEW B \in SUBSET (0..Used(r)), NEW s0 \in B,
         \A s \in B : /\ MsgSize(r, Forward(r.read, s), en) \in Nat
                      /\ s + MsgSize(r, Forward(r.read, s), en) \in B
  PROVE  \E s \in B : /\ Recognised(r, Forward(r.read, s0), en) = Forward(r.read, s)
                      /\ MsgSize(r, Forward(r.read, s), en) = 0
<1>1. PICK m \in Nat, rd \in Position : m = Capacity /\ rd = r.read /\ B \subseteq 0..m
  <2>1. Capacity \in Nat /\ r.read \in Position /\ Used(r) \in 0..Capacity /\ Used(r) \in Nat
    BY CapacityIs, SoundFacts
  <2>2. 0..Used(r) \subseteq 0..Capacity
    BY <2>1
  <2> QED BY <2>1, <2>2
<1>2. PICK x0 : x0 = Forward(rd, s0)
  OBVIOUS
<1> DEFINE X == {Forward(rd, s) : s \in B}
           Go(pos) == IF MsgSize(r, pos, en) > 0 THEN Forward(pos, MsgSize(r, pos, en)) ELSE pos
           following == [pos \in Position |-> Go(pos)]
           G == [a \in (1..m) \X X |-> following[a[2]]]
           Step(p, k) == IF k = 0 THEN x0 ELSE following[p[k - 1]]
           Follows(p) == p = [k \in 0..m |-> Step(p, k)]
<1>3. ASSUME NEW s \in B
      PROVE  /\ Forward(rd, s) \in Position
             /\ MsgSize(r, Forward(rd, s), en) \in Nat
             /\ s + MsgSize(r, Forward(rd, s), en) \in B
             /\ following[Forward(rd, s)] = Forward(rd, s + MsgSize(r, Forward(rd, s), en))
  <2>1. PICK d \in Nat : d = MsgSize(r, Forward(rd, s), en) /\ s + d \in B
    BY <1>1
  <2>2. s \in Nat
    BY <1>1
  <2>3. Forward(rd, s) \in Position
    <3>1. rd \in Nat /\ Lap \in Nat \ {0}
      BY CapacityIs DEF Position
    <3>2. PICK y \in Nat : y = rd + s
      BY <2>2, <3>1
    <3>3. y % Lap \in Position
      BY LapCell
    <3> QED BY <3>2, <3>3 DEF Forward
  <2>4. Go(Forward(rd, s)) = Forward(rd, s + d)
    <3>1. Forward(Forward(rd, s), d) = Forward(rd, s + d)
      BY <2>2, ForwardTwice
    <3>2. d = 0 => s + d = s
      BY <2>2
    <3> QED BY <2>1, <3>1, <3>2
  <2> QED BY <2>1, <2>3, <2>4
<1> HIDE DEF following
<1>4. \A x \in X : following[x] \in X
  BY <1>3
<1>5. \A k \in 1..m, x \in X : G[<<k, x>>] = following[x]
  <2>1. \A k \in 1..m, x \in X : <<k, x>> \in (1..m) \X X /\ <<k, x>>[2] = x
    OBVIOUS
  <2> QED BY <2>1
<1>6. G \in [(1..m) \X X -> X]
  <2>1. \A a \in (1..m) \X X : a[2] \in X
    OBVIOUS
  <2> HIDE DEF X
  <2> QED BY <1>4, <2>1
<1>7. PICK f : Recurs(f, m, X, x0, G)
  <2>1. x0 \in X
    BY <1>2
  <2> HIDE DEF G, X
  <2> QED BY <1>6, <2>1, Recursion
<1> HIDE DEF G
<1>8. \A k \in 1..m : k - 1 \in 0..m /\ k \in 0..m /\ k # 0
  OBVIOUS
<1>9. f \in [0..m -> X] /\ f[0] = x0 /\ \A k \in 1..m : f[k] = following[f[k - 1]]
  <2> HIDE DEF X
  <2> QED BY <1>5, <1>7, <1>8 DEF Recurs
<1>10. Follows(f)
  <2>1. \A k \in 0..m : k = 0 \/ k \in 1..m
    OBVIOUS
  <2>2. \A k \in 0..m : f[k] = Step(f, k)
    <3> HIDE DEF X
    <3> QED BY <1>8, <1>9, <2>1
  <2> DEFINE A(k) == Step(f, k)
  <2> HIDE DEF Step
  <2>3. \A k \in 0..m : f[k] = A(k)
    BY <2>2
  <2> HIDE DEF A, X
  <2>4. f = [k \in 0..m |-> A(k)]
    BY ONLY <1>9, <2>3
  <2> QED BY <2>4 DEF A
<1>11. PICK p : p = CHOOSE q : Follows(q)
  OBVIOUS
<1>12. Follows(p)
  <2> HIDE DEF Follows
  <2> QED BY <1>10, <1>11
<1>13. Recognised(r, x0, en) = p[m]
  BY <1>1, <1>11 DEF Recognised, following
<1>14. \A k \in 0..m : p[k] = Step(p, k)
  BY <1>12
<1>15. p[0] = x0 /\ \A k \in 1..m : p[k] = following[p[k - 1]]
  BY <1>8, <1>14
<1> DEFINE At(k, s) == /\ s \in B /\ p[k] = Forward(rd, s)
                       /\ k <= s \/ MsgSize(r, Forward(rd, s), en) = 0
           Kept == {k \in Nat : \E s : At(k, s)}
<1>16. 0 \in Kept
  <2>1. 0 <= s0
    BY <1>1
  <2>2. At(0, s0)
    BY <1>2, <1>15, <2>1
  <2> QED BY <2>2
<1>17. ASSUME NEW k \in 0..m, k \in Kept, k < m PROVE k + 1 \in Kept
  <2>1. PICK s : At(k, s)
    BY <1>17
  <2>2. s \in B /\ p[k] = Forward(rd, s) /\ (k <= s \/ MsgSize(r, Forward(rd, s), en) = 0)
    BY <2>1
  <2>3. PICK d \in Nat : /\ d = MsgSize(r, Forward(rd, s), en) /\ s + d \in B
                         /\ following[Forward(rd, s)] = Forward(rd, s + d)
    BY <1>3, <2>2
  <2>4. k + 1 \in 1..m /\ (k + 1) - 1 = k /\ k + 1 \in Nat /\ s \in Nat
    BY <1>1, <1>17, <2>2
  <2>5. p[k + 1] = Forward(rd, s + d)
    BY <1>15, <2>2, <2>3, <2>4
  <2>6. CASE d = 0
    <3>1. s + d = s
      BY <2>4, <2>6
    <3>2. At(k + 1, s)
      BY <2>2, <2>3, <2>5, <2>6, <3>1
    <3> QED BY <2>4, <3>2
  <2>7. CASE d # 0
    <3>1. k <= s
      BY <2>2, <2>3, <2>7
    <3>2. k + 1 <= s + d
      BY <2>3, <2>4, <2>7, <3>1
    <3>3. At(k + 1, s + d)
      BY <2>3, <2>5, <3>2
    <3> QED BY <2>4, <3>3
  <2> QED BY <2>6, <2>7
<1>18. m \in Kept
  <2>1. 0..m \subseteq Kept
    <3> HIDE DEF Kept
    <3> QED BY <1>16, <1>17, UpTo
  <2>2. m \in 0..m
    OBVIOUS
  <2> QED BY <2>1, <2>2
<1>19. PICK s : At(m, s)
  BY <1>18
<1>20. s \in B /\ p[m] = Forward(rd, s) /\ (m <= s \/ MsgSize(r, Forward(rd, s), en) = 0)
  BY <1>19
<1>21. MsgSize(r, Forward(rd, s), en) = 0
  <2>1. PICK d \in Nat : d = MsgSize(r, Forward(rd, s), en) /\ s + d \in 0..m
    BY <1>1, <1>3, <1>20
  <2>2. s \in Nat /\ s <= m
    BY <1>1, <1>20
  <2> QED BY <1>20, <2>1, <2>2
<1> QED BY <1>1, <1>2, <1>13, <1>20, <1>21
=============================================================================
