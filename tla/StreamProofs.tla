---------------------------- MODULE StreamProofs ----------------------------
(***************************************************************************)
(* Nothing is lost or invented on the way from send_buff to recv_buff, for *)
(* all sizes of the buffers and of messages, and however the stream is cut *)
(* on its way.                                                             *)
(***************************************************************************)
EXTENDS Stream, ModLemmas, SequenceTheorems

(* What RingProofs proves, for the buffer of either side. *)
SP == INSTANCE RingProofs WITH PoolCnt <- SendPoolCnt, BufferSize <- SendSize
RP == INSTANCE RingProofs WITH PoolCnt <- RecvPoolCnt, BufferSize <- RecvSize

(* The assumption covers what those proofs need. *)
LEMMA BothSizes ==
  /\ SP!Sizes /\ RP!Sizes
  /\ S!Byte = 0..(Radix - 1) /\ SP!Byte = S!Byte /\ RP!Byte = S!Byte /\ R!Byte = S!Byte
  /\ \A en \in EnBytes : en \in Nat \ {0}
<1>1. Radix \in Nat \ {0, 1} /\ (0..(Radix - 1)) \cup {Radix} = 0..Radix
  BY StreamAssumption
<1>2. NULL \notin [0..(SendSize - 1) -> 0..Radix] /\ NULL \notin [0..(RecvSize - 1) -> 0..Radix]
  BY StreamAssumption
<1>3. SP!Sizes
  BY <1>1, <1>2, StreamAssumption DEF SP!Sizes, SP!Offset, SP!Byte, SP!Junk
<1>4. RP!Sizes
  BY <1>1, <1>2, StreamAssumption DEF RP!Sizes, RP!Offset, RP!Byte, RP!Junk
<1> QED BY <1>3, <1>4, StreamAssumption DEF S!Byte, SP!Byte, RP!Byte, R!Byte

(* The send buffer of the model is the one that RingProofs is about. *)
LEMMA SendSame ==
  /\ S!Empty = SP!Empty /\ S!Ring = SP!Ring
  /\ \A i : S!Power(i) = SP!Power(i)
  /\ \A size, en : S!Header(size, en) = SP!Header(size, en)
  /\ \A m, en : S!Encoded(m, en) = SP!Encoded(m, en)
  /\ \A r : /\ S!Contents(r) = SP!Contents(r) /\ S!Prepared(r) = SP!Prepared(r)
            /\ S!Used(r) = SP!Used(r)
  /\ \A r, p, k : S!BytesFrom(r, p, k) = SP!BytesFrom(r, p, k)
  /\ \A r, k : S!Consumed(r, k) = SP!Consumed(r, k)
  /\ \A r, m, en : /\ S!Accepts(r, m, en) = SP!Accepts(r, m, en)
                   /\ S!Written(r, m, en) = SP!Written(r, m, en)
                   /\ S!WriteFailures(r, m, en) = SP!WriteFailures(r, m, en)
<1>1. /\ S!Empty = SP!Empty /\ S!Ring = SP!Ring
  BY DEF S!Empty, SP!Empty, S!Ring, SP!Ring, S!PartIndex, SP!PartIndex, S!Offset, SP!Offset,
    S!Byte, SP!Byte, S!Junk, SP!Junk, S!Position, SP!Position, S!Lap, SP!Lap, S!Capacity, SP!Capacity
<1>2. \A i : S!Power(i) = SP!Power(i)
  BY DEF S!Power, SP!Power
<1>3. \A size, en : S!Header(size, en) = SP!Header(size, en)
  BY <1>2 DEF S!Header, SP!Header
<1>4. \A m, en : S!Encoded(m, en) = SP!Encoded(m, en)
  BY <1>3 DEF S!Encoded, SP!Encoded
<1>5. /\ \A x : S!Part(x) = SP!Part(x) /\ S!Index(x) = SP!Index(x)
      /\ \A x, k : S!Forward(x, k) = SP!Forward(x, k) /\ S!Space(x, k) = SP!Space(x, k)
      /\ \A r, x : S!ByteAt(r, x) = SP!ByteAt(r, x)
      /\ \A r : S!Used(r) = SP!Used(r)
      /\ S!PartIndex = SP!PartIndex /\ S!Offset = SP!Offset /\ S!Junk = SP!Junk
  BY DEF S!Part, SP!Part, S!Index, SP!Index, S!Forward, SP!Forward, S!Space, SP!Space,
    S!ByteAt, SP!ByteAt, S!Used, SP!Used, S!PartIndex, SP!PartIndex, S!Offset, SP!Offset,
    S!Junk, SP!Junk, S!Lap, SP!Lap, S!Capacity, SP!Capacity
<1>6. \A r, p, k : S!BytesFrom(r, p, k) = SP!BytesFrom(r, p, k)
  BY <1>5 DEF S!BytesFrom, SP!BytesFrom
<1>7. \A r : S!Contents(r) = SP!Contents(r) /\ S!Prepared(r) = SP!Prepared(r)
  BY <1>5, <1>6 DEF S!Contents, SP!Contents, S!Prepared, SP!Prepared
<1>8. \A p, i, o : S!Distance(p, i, o) = SP!Distance(p, i, o)
  BY DEF S!Distance, SP!Distance, S!Capacity, SP!Capacity
<1>9. \A r, indices : S!Allocated(r, indices) = SP!Allocated(r, indices)
  BY DEF S!Allocated, SP!Allocated, S!PartIndex, SP!PartIndex, S!Offset, SP!Offset, S!Junk,
    SP!Junk
<1>10. \A r, bytes : S!Stored(r, bytes) = SP!Stored(r, bytes)
  BY DEF S!Stored, SP!Stored, S!PartIndex, SP!PartIndex, S!Offset, SP!Offset, S!Distance,
    SP!Distance, S!Capacity, SP!Capacity, S!Forward, SP!Forward, S!Lap, SP!Lap
<1>11. \A r, k : S!Consumed(r, k) = SP!Consumed(r, k)
  BY DEF S!Consumed, SP!Consumed, S!Skipped, SP!Skipped, S!Forward, SP!Forward, S!Passed,
    SP!Passed, S!Index, SP!Index, S!Part, SP!Part, S!Lap, SP!Lap, S!Capacity, SP!Capacity,
    S!PartIndex, SP!PartIndex, S!Offset, SP!Offset, S!Distance, SP!Distance, S!Junk, SP!Junk
<1>12. /\ \A r, k : S!Parts(r, k) = SP!Parts(r, k)
       /\ \A r, m, en : S!Accepts(r, m, en) = SP!Accepts(r, m, en)
  BY <1>2, <1>5 DEF S!Parts, SP!Parts, S!Accepts, SP!Accepts
<1>13. \A r, n, en : S!Needed(r, n, en) = SP!Needed(r, n, en)
  BY <1>5, <1>12 DEF S!Needed, SP!Needed
<1>14. \A r, m, en : S!Written(r, m, en) = SP!Written(r, m, en)
  BY <1>4, <1>9, <1>13, <1>10 DEF S!Written, SP!Written
<1>15. \A r, m, en : S!WriteFailures(r, m, en) = SP!WriteFailures(r, m, en)
  BY <1>5, <1>9, <1>12, <1>13 DEF S!WriteFailures, SP!WriteFailures
<1> QED BY <1>1, <1>2, <1>3, <1>4, <1>5, <1>6, <1>7, <1>11, <1>12, <1>14, <1>15

(* So is the ring in the receive buffer. *)
LEMMA ReceiveSame ==
  /\ R!EmptyA = RP!EmptyA /\ R!Empty = RP!Empty /\ R!Ring = RP!Ring
  /\ R!Position = RP!Position /\ R!Capacity = RP!Capacity
  /\ \A i : S!Power(i) = RP!Power(i)
  /\ \A size, en : S!Header(size, en) = RP!Header(size, en)
  /\ \A bytes : R!Decoded(bytes) = RP!Decoded(bytes)
  /\ \A r : R!Contents(r) = RP!Contents(r) /\ R!Used(r) = RP!Used(r)
  /\ \A r, p, k : R!BytesFrom(r, p, k) = RP!BytesFrom(r, p, k)
  /\ \A p, k : R!Forward(p, k) = RP!Forward(p, k)
  /\ \A r, p, en : /\ R!MsgSize(r, p, en) = RP!MsgSize(r, p, en)
                   /\ R!Recognised(r, p, en) = RP!Recognised(r, p, en)
  /\ \A b : R!PreparedA(b) = RP!PreparedA(b)
  /\ \A b, bytes : R!ReceivedA(b, bytes) = RP!ReceivedA(b, bytes)
  /\ \A r, indices : R!Allocated(r, indices) = RP!Allocated(r, indices)
  /\ \A r, k : R!Skipped(r, k) = RP!Skipped(r, k)
<1>1. /\ R!Empty = RP!Empty /\ R!Ring = RP!Ring /\ R!EmptyA = RP!EmptyA
      /\ R!Position = RP!Position /\ R!Capacity = RP!Capacity
  BY DEF R!Empty, RP!Empty, R!EmptyA, RP!EmptyA, R!Ring, RP!Ring, R!PartIndex, RP!PartIndex,
    R!Offset, RP!Offset, R!Byte, RP!Byte, R!Junk, RP!Junk, R!Position, RP!Position,
    R!Lap, RP!Lap, R!Capacity, RP!Capacity
<1>2. \A i : S!Power(i) = RP!Power(i) /\ R!Power(i) = RP!Power(i)
  BY DEF S!Power, RP!Power, R!Power
<1>3. /\ \A size, en : S!Header(size, en) = RP!Header(size, en)
      /\ \A bytes : R!Decoded(bytes) = RP!Decoded(bytes)
  BY <1>2 DEF S!Header, RP!Header, R!Decoded, RP!Decoded
<1>4. /\ \A x : R!Part(x) = RP!Part(x) /\ R!Index(x) = RP!Index(x)
      /\ \A x, k : R!Forward(x, k) = RP!Forward(x, k) /\ R!Space(x, k) = RP!Space(x, k)
      /\ \A r, x : R!ByteAt(r, x) = RP!ByteAt(r, x)
      /\ \A r : R!Used(r) = RP!Used(r)
      /\ R!PartIndex = RP!PartIndex /\ R!Offset = RP!Offset /\ R!Junk = RP!Junk
  BY DEF R!Part, RP!Part, R!Index, RP!Index, R!Forward, RP!Forward, R!Space, RP!Space,
    R!ByteAt, RP!ByteAt, R!Used, RP!Used, R!PartIndex, RP!PartIndex, R!Offset, RP!Offset,
    R!Junk, RP!Junk, R!Lap, RP!Lap, R!Capacity, RP!Capacity
<1>5. \A r, p, k : R!BytesFrom(r, p, k) = RP!BytesFrom(r, p, k)
  BY <1>4 DEF R!BytesFrom, RP!BytesFrom
<1>6. \A r : R!Contents(r) = RP!Contents(r)
  BY <1>4, <1>5 DEF R!Contents, RP!Contents
<1>7. \A p, i, o : R!Distance(p, i, o) = RP!Distance(p, i, o)
  BY DEF R!Distance, RP!Distance, R!Capacity, RP!Capacity
<1>8. \A r, indices : R!Allocated(r, indices) = RP!Allocated(r, indices)
  BY DEF R!Allocated, RP!Allocated, R!PartIndex, RP!PartIndex, R!Offset, RP!Offset, R!Junk,
    RP!Junk
<1>9. \A r, bytes : R!Stored(r, bytes) = RP!Stored(r, bytes)
  BY DEF R!Stored, RP!Stored, R!PartIndex, RP!PartIndex, R!Offset, RP!Offset, R!Distance,
    RP!Distance, R!Capacity, RP!Capacity, R!Forward, RP!Forward, R!Lap, RP!Lap
<1>10. \A r, k : R!Skipped(r, k) = RP!Skipped(r, k)
  BY DEF R!Skipped, RP!Skipped, R!Forward, RP!Forward, R!Passed, RP!Passed, R!Index, RP!Index,
    R!Part, RP!Part, R!Lap, RP!Lap, R!Capacity, RP!Capacity, R!PartIndex, RP!PartIndex,
    R!Offset, RP!Offset, R!Distance, RP!Distance, R!Junk, RP!Junk
<1>11. \A r, p, en : R!MsgSize(r, p, en) = RP!MsgSize(r, p, en)
  BY DEF R!MsgSize, RP!MsgSize, R!Capacity, RP!Capacity, R!Space, RP!Space, R!Lap, RP!Lap, R!Decoded,
    RP!Decoded, R!Power, RP!Power, R!BytesFrom, RP!BytesFrom, R!ByteAt, RP!ByteAt, R!Index,
    RP!Index, R!Part, RP!Part, R!Forward, RP!Forward
<1>12. \A r, p, en : R!Recognised(r, p, en) = RP!Recognised(r, p, en)
  BY DEF R!Recognised, RP!Recognised, R!Position, RP!Position, R!MsgSize, RP!MsgSize, R!Capacity,
    RP!Capacity, R!Space, RP!Space, R!Lap, RP!Lap, R!Decoded, RP!Decoded, R!Power, RP!Power,
    R!BytesFrom, RP!BytesFrom, R!ByteAt, RP!ByteAt, R!Index, RP!Index, R!Part, RP!Part,
    R!Forward, RP!Forward
<1>13. \A b : R!PreparedA(b) = RP!PreparedA(b)
  BY <1>4 DEF R!PreparedA, RP!PreparedA
<1>14. \A b, bytes : R!ReceivedA(b, bytes) = RP!ReceivedA(b, bytes)
  BY <1>4, <1>8, <1>9 DEF R!ReceivedA, RP!ReceivedA
<1> QED BY <1>1, <1>2, <1>3, <1>4, <1>5, <1>6, <1>8, <1>10, <1>11, <1>12, <1>13, <1>14

-----------------------------------------------------------------------------
(* Bytes and messages, and one sequence of them behind another. *)
Bytes == Seq(S!Byte)
Messages == Seq(Bytes)
Cat(x, y) == x \o y

(* Where the elements of two sequences are. *)
IsBehind(c, x, y, m, n) == /\ Len(c) = m + n
                           /\ \A i \in 1..m : c[i] = x[i]
                           /\ \A i \in 1..n : c[m + i] = y[i]

(* They are where they should be. *)
LEMMA Behind ==
  ASSUME NEW T, NEW x \in Seq(T), NEW y \in Seq(T)
  PROVE  Cat(x, y) \in Seq(T) /\ IsBehind(Cat(x, y), x, y, Len(x), Len(y))
  BY DEF Cat, IsBehind

(* Three sequences, and nothing before or behind a sequence. *)
LEMMA CatSeq ==
  ASSUME NEW T, NEW x \in Seq(T), NEW y \in Seq(T), NEW z \in Seq(T)
  PROVE  /\ Cat(Cat(x, y), z) = Cat(x, Cat(y, z))
         /\ Cat(x, <<>>) = x /\ Cat(<<>>, x) = x /\ <<>> \in Seq(T)
<1>1. (x \o y) \o z = x \o (y \o z)
  BY ConcatAssociative
<1>2. x \o <<>> = x /\ <<>> \o x = x /\ <<>> \in Seq(T)
  OBVIOUS
<1> QED BY ONLY <1>1, <1>2 DEF Cat

(* A sequence that is cut in two. *)
LEMMA Cut ==
  ASSUME NEW T, NEW x \in Seq(T), NEW k \in 0..Len(x)
  PROVE  /\ SubSeq(x, 1, k) \in Seq(T) /\ Len(SubSeq(x, 1, k)) = k
         /\ SubSeq(x, k + 1, Len(x)) \in Seq(T) /\ Len(SubSeq(x, k + 1, Len(x))) = Len(x) - k
         /\ Cat(SubSeq(x, 1, k), SubSeq(x, k + 1, Len(x))) = x
<1>1. PICK n \in Nat : n = Len(x) /\ k \in Nat /\ k <= n
  OBVIOUS
<1>2. \A i \in 1..n : x[i] \in T
  BY <1>1, ElementOfSeq
<1>3. PICK a \in Seq(T) : a = SubSeq(x, 1, k) /\ Len(a) = k /\ \A i \in 1..k : a[i] = x[i]
  <2>1. \A i \in 1..k : x[i] \in T
    BY ONLY <1>1, <1>2
  <2>2. 1 \in Int /\ k \in Int
    BY <1>1
  <2>3. /\ SubSeq(x, 1, k) \in Seq(T)
        /\ Len(SubSeq(x, 1, k)) = IF 1 <= k THEN k - 1 + 1 ELSE 0
        /\ \A i \in 1..(k - 1 + 1) : SubSeq(x, 1, k)[i] = x[1 + i - 1]
    BY ONLY <2>1, <2>2, SubSeqProperties
  <2>4. Len(SubSeq(x, 1, k)) = k
    BY ONLY <1>1, <2>3
  <2>5. ASSUME NEW i \in 1..k PROVE SubSeq(x, 1, k)[i] = x[i]
    <3>1. i \in 1..(k - 1 + 1) /\ 1 + i - 1 = i
      BY ONLY <1>1, i \in 1..k
    <3> QED BY ONLY <2>3, <3>1
  <2> QED BY ONLY <2>3, <2>4, <2>5
<1>4. PICK b \in Seq(T) : b = SubSeq(x, k + 1, n) /\ Len(b) = n - k /\ \A i \in 1..(n - k) : b[i] = x[k + i]
  <2>1. \A i \in (k + 1)..n : x[i] \in T
    <3>1. \A i \in (k + 1)..n : i \in 1..n
      BY ONLY <1>1
    <3> QED BY ONLY <1>2, <3>1
  <2>2. k + 1 \in Int /\ n \in Int
    BY <1>1
  <2>3. /\ SubSeq(x, k + 1, n) \in Seq(T)
        /\ Len(SubSeq(x, k + 1, n)) = IF k + 1 <= n THEN n - (k + 1) + 1 ELSE 0
        /\ \A i \in 1..(n - (k + 1) + 1) : SubSeq(x, k + 1, n)[i] = x[(k + 1) + i - 1]
    BY ONLY <2>1, <2>2, SubSeqProperties
  <2>4. Len(SubSeq(x, k + 1, n)) = n - k
    BY ONLY <1>1, <2>3
  <2>5. ASSUME NEW i \in 1..(n - k) PROVE SubSeq(x, k + 1, n)[i] = x[k + i]
    <3>1. i \in 1..(n - (k + 1) + 1) /\ (k + 1) + i - 1 = k + i
      BY ONLY <1>1, i \in 1..(n - k)
    <3> QED BY ONLY <2>3, <3>1
  <2> QED BY ONLY <2>3, <2>4, <2>5
<1>5. PICK c : c = Cat(a, b)
  OBVIOUS
<1>6. /\ c \in Seq(T) /\ Len(c) = n /\ \A i \in 1..k : c[i] = a[i]
      /\ \A i \in 1..(n - k) : c[k + i] = b[i]
  <2>1. PICK j \in Nat : j = n - k
    <3>1. n - k \in Nat
      BY ONLY <1>1
    <3> QED BY ONLY <3>1
  <2>2. Cat(a, b) \in Seq(T) /\ IsBehind(Cat(a, b), a, b, Len(a), Len(b))
    BY ONLY Behind
  <2>3. /\ Cat(a, b) \in Seq(T) /\ Len(Cat(a, b)) = k + j
        /\ \A i \in 1..k : Cat(a, b)[i] = a[i]
        /\ \A i \in 1..j : Cat(a, b)[k + i] = b[i]
    BY ONLY <1>3, <1>4, <2>1, <2>2 DEF IsBehind
  <2>4. k + j = n
    BY ONLY <1>1, <2>1
  <2> QED BY ONLY <1>5, <2>1, <2>3, <2>4
<1>7. ASSUME NEW i \in 1..n PROVE c[i] = x[i]
  <2>1. CASE i <= k
    <3>1. i \in 1..k
      BY ONLY <1>1, <2>1, i \in 1..n
    <3> QED BY ONLY <1>3, <1>6, <3>1
  <2>2. CASE ~(i <= k)
    <3>1. i - k \in 1..(n - k) /\ i = k + (i - k)
      BY ONLY <1>1, <2>2, i \in 1..n
    <3> QED BY ONLY <1>4, <1>6, <3>1
  <2> QED BY <2>1, <2>2
<1>8. c = x
  BY ONLY <1>1, <1>6, <1>7, SeqEqual
<1> QED BY ONLY <1>1, <1>3, <1>4, <1>5, <1>8

(* The same for bytes ... *)
LEMMA CatBytes ==
  /\ <<>> \in Bytes /\ Len(<<>>) = 0
  /\ \A x \in Bytes : /\ Len(x) \in Nat /\ (Len(x) = 0 => x = <<>>)
                      /\ Cat(x, <<>>) = x /\ Cat(<<>>, x) = x
  /\ \A x, y \in Bytes : Cat(x, y) \in Bytes /\ Len(Cat(x, y)) = Len(x) + Len(y)
  /\ \A x, y, z \in Bytes : Cat(Cat(x, y), z) = Cat(x, Cat(y, z))
<1>1. <<>> \in Seq(S!Byte) /\ Len(<<>>) = 0
  OBVIOUS
<1>2. ASSUME NEW x \in Seq(S!Byte)
      PROVE  Len(x) \in Nat /\ (Len(x) = 0 => x = <<>>) /\ Cat(x, <<>>) = x /\ Cat(<<>>, x) = x
  <2>1. Len(x) \in Nat /\ (Len(x) = 0 => x = <<>>)
    BY EmptySeq
  <2> QED BY <2>1, CatSeq
<1>3. ASSUME NEW x \in Seq(S!Byte), NEW y \in Seq(S!Byte)
      PROVE  Cat(x, y) \in Seq(S!Byte) /\ Len(Cat(x, y)) = Len(x) + Len(y)
  BY Behind DEF IsBehind
<1>4. ASSUME NEW x \in Seq(S!Byte), NEW y \in Seq(S!Byte), NEW z \in Seq(S!Byte)
      PROVE  Cat(Cat(x, y), z) = Cat(x, Cat(y, z))
  BY CatSeq
<1> QED BY ONLY <1>1, <1>2, <1>3, <1>4 DEF Bytes

(* ... and for messages. *)
LEMMA CatMessages ==
  /\ <<>> \in Messages
  /\ \A x \in Messages : /\ Len(x) \in Nat /\ (Len(x) = 0 => x = <<>>)
                         /\ Cat(x, <<>>) = x /\ Cat(<<>>, x) = x
                         /\ \A i \in 1..Len(x) : x[i] \in Bytes
  /\ \A x, y \in Messages : Cat(x, y) \in Messages /\ Len(Cat(x, y)) = Len(x) + Len(y)
  /\ \A x, y, z \in Messages : Cat(Cat(x, y), z) = Cat(x, Cat(y, z))
<1>1. <<>> \in Seq(Bytes)
  OBVIOUS
<1>2. ASSUME NEW x \in Seq(Bytes)
      PROVE  /\ Len(x) \in Nat /\ (Len(x) = 0 => x = <<>>) /\ Cat(x, <<>>) = x /\ Cat(<<>>, x) = x
             /\ \A i \in 1..Len(x) : x[i] \in Bytes
  <2>1. Len(x) \in Nat /\ (Len(x) = 0 => x = <<>>)
    BY EmptySeq
  <2>2. \A i \in 1..Len(x) : x[i] \in Bytes
    BY ElementOfSeq
  <2> QED BY <2>1, <2>2, CatSeq
<1>3. ASSUME NEW x \in Seq(Bytes), NEW y \in Seq(Bytes)
      PROVE  Cat(x, y) \in Seq(Bytes) /\ Len(Cat(x, y)) = Len(x) + Len(y)
  BY Behind DEF IsBehind
<1>4. ASSUME NEW x \in Seq(Bytes), NEW y \in Seq(Bytes), NEW z \in Seq(Bytes)
      PROVE  Cat(Cat(x, y), z) = Cat(x, Cat(y, z))
  BY CatSeq
<1> QED BY ONLY <1>1, <1>2, <1>3, <1>4 DEF Messages

(* Where the elements of two sequences of bytes are. *)
LEMMA BytesBehind ==
  ASSUME NEW x \in Bytes, NEW y \in Bytes
  PROVE  Cat(x, y) \in Bytes /\ IsBehind(Cat(x, y), x, y, Len(x), Len(y))
  BY Behind DEF Bytes

(* Sequences of bytes with the same elements are the same. *)
LEMMA BytesSame ==
  ASSUME NEW x \in Bytes, NEW y \in Bytes, NEW n, n = Len(x), n = Len(y),
         \A i \in 1..n : x[i] = y[i]
  PROVE  x = y
<1>1. x \in Seq(S!Byte) /\ y \in Seq(S!Byte)
  BY DEF Bytes
<1> QED BY ONLY <1>1, n = Len(x), n = Len(y), \A i \in 1..n : x[i] = y[i], SeqEqual

(* Bytes that are cut in two. *)
LEMMA BytesCut ==
  ASSUME NEW x \in Bytes, NEW k \in 0..Len(x)
  PROVE  /\ SubSeq(x, 1, k) \in Bytes /\ Len(SubSeq(x, 1, k)) = k
         /\ SubSeq(x, k + 1, Len(x)) \in Bytes /\ Len(SubSeq(x, k + 1, Len(x))) = Len(x) - k
         /\ Cat(SubSeq(x, 1, k), SubSeq(x, k + 1, Len(x))) = x
  BY Cut DEF Bytes

(* If two pairs of sequences are the same bytes, the longer front ends with *)
(* where the other rest begins.                                            *)
LEMMA Overlap ==
  ASSUME NEW x \in Bytes, NEW y \in Bytes, NEW a \in Bytes, NEW b \in Bytes,
         Cat(x, y) = Cat(a, b), Len(a) <= Len(x)
  PROVE  \E z \in Bytes : x = Cat(a, z) /\ b = Cat(z, y) /\ Len(x) = Len(a) + Len(z)
<1>1. PICK n \in Nat, k \in Nat : n = Len(x) /\ k = Len(a) /\ k <= n
  BY CatBytes
<1>2. PICK p \in Bytes, z \in Bytes : Len(p) = k /\ Len(z) = n - k /\ x = Cat(p, z)
  <2>1. k \in 0..Len(x)
    BY <1>1
  <2> QED BY <1>1, <2>1, BytesCut
<1>3. Cat(p, Cat(z, y)) = Cat(a, b)
  BY <1>2, CatBytes
<1>4. PICK q \in Bytes, m \in Nat, l \in Nat : q = Cat(z, y) /\ m = Len(q) /\ l = Len(b)
  BY CatBytes
<1>5. PICK c : c = Cat(p, q) /\ c = Cat(a, b)
  BY <1>3, <1>4
<1>6. /\ Len(c) = k + m /\ (\A i \in 1..k : c[i] = p[i]) /\ \A i \in 1..m : c[k + i] = q[i]
  <2>1. IsBehind(Cat(p, q), p, q, k, m)
    BY <1>2, <1>4, BytesBehind
  <2> QED BY ONLY <1>5, <2>1 DEF IsBehind
<1>7. /\ Len(c) = k + l /\ (\A i \in 1..k : c[i] = a[i]) /\ \A i \in 1..l : c[k + i] = b[i]
  <2>1. IsBehind(Cat(a, b), a, b, k, l)
    BY <1>1, <1>4, BytesBehind
  <2> QED BY ONLY <1>5, <2>1 DEF IsBehind
<1>8. p = a
  <2>1. \A i \in 1..k : p[i] = a[i]
    BY <1>6, <1>7
  <2> QED BY <1>1, <1>2, <2>1, BytesSame
<1>9. q = b
  <2>1. m = l
    BY <1>6, <1>7
  <2>2. \A i \in 1..m : q[i] = b[i]
    BY <1>6, <1>7, <2>1
  <2> QED BY <1>4, <2>1, <2>2, BytesSame
<1>10. Len(x) = Len(a) + Len(z)
  BY ONLY <1>1, <1>2
<1> QED BY ONLY <1>2, <1>4, <1>8, <1>9, <1>10

(* The same when the fronts are of one length. *)
LEMMA SameFront ==
  ASSUME NEW x \in Bytes, NEW y \in Bytes, NEW a \in Bytes, NEW b \in Bytes,
         Cat(x, y) = Cat(a, b), Len(a) = Len(x)
  PROVE  x = a /\ y = b
<1>1. Len(a) <= Len(x)
  BY CatBytes
<1>2. PICK z \in Bytes : x = Cat(a, z) /\ b = Cat(z, y) /\ Len(x) = Len(a) + Len(z)
  BY ONLY <1>1, Cat(x, y) = Cat(a, b), Overlap
<1>3. z = <<>>
  BY <1>2, CatBytes
<1> QED BY <1>2, <1>3, CatBytes

(* A piece of a sequence that has something before and behind it. *)
LEMMA Middle ==
  ASSUME NEW a \in Bytes, NEW h \in Bytes, NEW z \in Bytes
  PROVE  SubSeq(Cat(a, Cat(h, z)), Len(a) + 1, Len(a) + Len(h)) = h
<1>1. PICK k \in Nat, n \in Nat, m \in Nat : k = Len(a) /\ n = Len(h) /\ m = Len(z)
  BY CatBytes
<1>2. PICK q \in Bytes : q = Cat(h, z) /\ Len(q) = n + m /\ \A i \in 1..n : q[i] = h[i]
  BY <1>1, BytesBehind DEF IsBehind
<1>3. PICK x \in Bytes : /\ x = Cat(a, q) /\ Len(x) = k + (n + m)
                         /\ \A i \in 1..(n + m) : x[k + i] = q[i]
  <2>1. PICK l : l = n + m /\ l = Len(q)
    BY <1>2
  <2>2. Cat(a, q) \in Bytes /\ IsBehind(Cat(a, q), a, q, k, l)
    BY <1>1, <2>1, BytesBehind
  <2> QED BY <2>1, <2>2 DEF IsBehind
<1>4. \A i \in (k + 1)..(k + n) : x[i] \in S!Byte
  <2>1. \A i \in (k + 1)..(k + n) : i \in 1..Len(x)
    BY <1>3
  <2>2. x \in Seq(S!Byte)
    BY DEF Bytes
  <2>3. \A i \in 1..Len(x) : x[i] \in S!Byte
    BY ONLY <2>2, ElementOfSeq
  <2> QED BY <2>1, <2>3
<1>5. /\ SubSeq(x, k + 1, k + n) \in Seq(S!Byte)
      /\ Len(SubSeq(x, k + 1, k + n)) = IF k + 1 <= k + n THEN (k + n) - (k + 1) + 1 ELSE 0
      /\ \A i \in 1..((k + n) - (k + 1) + 1) : SubSeq(x, k + 1, k + n)[i] = x[(k + 1) + i - 1]
  <2>1. k + 1 \in Int /\ k + n \in Int
    OBVIOUS
  <2> QED BY ONLY <1>4, <2>1, SubSeqProperties
<1>6. PICK t \in Bytes : t = SubSeq(x, k + 1, k + n)
  BY <1>5 DEF Bytes
<1>7. Len(t) = n
  BY <1>5, <1>6
<1>8. ASSUME NEW i \in 1..n PROVE t[i] = h[i]
  <2>1. i \in 1..((k + n) - (k + 1) + 1) /\ (k + 1) + i - 1 = k + i /\ i \in 1..(n + m)
    OBVIOUS
  <2>2. t[i] = x[k + i]
    BY <1>5, <1>6, <2>1
  <2> QED BY <1>2, <1>3, <2>1, <2>2
<1>9. t = h
  BY <1>1, <1>7, <1>8, BytesSame
<1> QED BY <1>1, <1>2, <1>3, <1>6, <1>9

-----------------------------------------------------------------------------
(* Sequences joined one by one. *)
JoinsUp(f, seqs) ==
  /\ f \in [0..Len(seqs) -> Bytes] /\ f[0] = <<>> /\ Joined(seqs) = f[Len(seqs)]
  /\ \A k \in 1..Len(seqs) : f[k] = Cat(f[k - 1], seqs[k])

(* Joined is computed by its recursion. *)
LEMMA JoinedIs ==
  ASSUME NEW seqs \in Messages
  PROVE  \E f : JoinsUp(f, seqs)
<1>1. PICK m \in Nat : m = Len(seqs)
  BY CatMessages
<1> DEFINE G == [a \in (1..m) \X Bytes |-> Cat(a[2], seqs[a[1]])]
           Step(q, k) == IF k = 0 THEN <<>> ELSE Cat(q[k - 1], seqs[k])
           Follows(q) == q = [k \in 0..m |-> Step(q, k)]
<1>2. \A k \in 1..m : seqs[k] \in Bytes
  BY <1>1, CatMessages
<1>3. \A k \in 1..m, x \in Bytes : G[<<k, x>>] = Cat(x, seqs[k])
  <2>1. \A k \in 1..m, x \in Bytes : <<k, x>> \in (1..m) \X Bytes /\ <<k, x>>[2] = x /\ <<k, x>>[1] = k
    OBVIOUS
  <2> QED BY <2>1
<1>4. G \in [(1..m) \X Bytes -> Bytes]
  <2>1. \A a \in (1..m) \X Bytes : a[1] \in 1..m /\ a[2] \in Bytes
    OBVIOUS
  <2>2. \A a \in (1..m) \X Bytes : Cat(a[2], seqs[a[1]]) \in Bytes
    BY <1>2, <2>1, CatBytes
  <2> QED BY <2>2
<1>5. PICK f : Recurs(f, m, Bytes, <<>>, G)
  <2>1. <<>> \in Bytes
    BY CatBytes
  <2> HIDE DEF G
  <2> QED BY <1>4, <2>1, Recursion
<1> HIDE DEF G
<1>6. \A k \in 1..m : k - 1 \in 0..m /\ k \in 0..m /\ k # 0
  OBVIOUS
<1>7. f \in [0..m -> Bytes] /\ f[0] = <<>> /\ \A k \in 1..m : f[k] = Cat(f[k - 1], seqs[k])
  BY <1>3, <1>5, <1>6 DEF Recurs
<1>8. Follows(f)
  <2>1. \A k \in 0..m : k = 0 \/ k \in 1..m
    OBVIOUS
  <2>2. \A k \in 0..m : f[k] = Step(f, k)
    BY <1>6, <1>7, <2>1
  <2> DEFINE A(k) == Step(f, k)
  <2> HIDE DEF Step
  <2>3. \A k \in 0..m : f[k] = A(k)
    BY <2>2
  <2> HIDE DEF A
  <2>4. f = [k \in 0..m |-> A(k)]
    BY ONLY <1>7, <2>3
  <2> QED BY <2>4 DEF A
<1>9. PICK p : p = CHOOSE q : Follows(q)
  OBVIOUS
<1>10. Follows(p)
  <2> HIDE DEF Follows
  <2> QED BY <1>8, <1>9
<1>11. Joined(seqs) = p[m]
  BY <1>1, <1>9 DEF Joined, Cat
<1>12. \A k \in 0..m : p[k] = Step(p, k)
  BY <1>10
<1>13. p[0] = <<>> /\ \A k \in 1..m : p[k] = Cat(p[k - 1], seqs[k])
  BY <1>6, <1>12
<1>14. \A k \in 0..m : p[k] = f[k]
  <2> DEFINE Same == {k \in Nat : p[k] = f[k]}
  <2>1. 0 \in Same
    BY <1>7, <1>13
  <2>2. ASSUME NEW k \in 0..m, k \in Same, k < m PROVE k + 1 \in Same
    <3>1. k + 1 \in 1..m /\ (k + 1) - 1 = k /\ k + 1 \in Nat /\ p[k] = f[k]
      BY <2>2
    <3> QED BY <1>7, <1>13, <3>1
  <2>3. 0..m \subseteq Same
    <3> HIDE DEF Same
    <3> QED BY <2>1, <2>2, UpTo
  <2> QED BY <2>3
<1>15. Joined(seqs) = f[m]
  <2>1. m \in 0..m
    OBVIOUS
  <2> QED BY ONLY <1>11, <1>14, <2>1
<1> QED BY <1>1, <1>7, <1>15 DEF JoinsUp

(* Nothing joined is nothing, and one sequence is itself. *)
LEMMA JoinedSmall ==
  ASSUME NEW x \in Bytes
  PROVE  Joined(<<>>) = <<>> /\ Joined(<<x>>) = x /\ <<x>> \in Messages
<1>1. Joined(<<>>) = <<>>
  <2>1. PICK e \in Messages : e = <<>> /\ Len(e) = 0
    BY CatMessages, CatBytes
  <2>2. PICK f : JoinsUp(f, e)
    BY JoinedIs
  <2> QED BY <2>1, <2>2 DEF JoinsUp
<1>2. <<x>> \in Messages /\ Len(<<x>>) = 1 /\ <<x>>[1] = x
  BY DEF Messages
<1>3. Joined(<<x>>) = x
  <2>1. PICK e \in Messages : e = <<x>> /\ Len(e) = 1 /\ e[1] = x
    BY <1>2
  <2>2. PICK f : JoinsUp(f, e)
    BY JoinedIs
  <2>3. 1 \in 1..Len(e) /\ 1 - 1 = 0
    BY <2>1
  <2>4. f[1] = Cat(f[0], x) /\ f[0] = <<>> /\ Joined(e) = f[1]
    BY <2>1, <2>2, <2>3 DEF JoinsUp
  <2> QED BY <2>1, <2>4, CatBytes
<1> QED BY <1>1, <1>2, <1>3

(* Joining is done piece by piece. *)
LEMMA JoinedBoth ==
  ASSUME NEW a \in Messages, NEW b \in Messages
  PROVE  /\ Joined(a) \in Bytes /\ Joined(b) \in Bytes
         /\ Joined(Cat(a, b)) = Cat(Joined(a), Joined(b))
<1>1. PICK m \in Nat, n \in Nat : m = Len(a) /\ n = Len(b)
  BY CatMessages
<1>2. PICK c \in Messages : /\ c = Cat(a, b) /\ Len(c) = m + n
                            /\ \A i \in 1..m : c[i] = a[i]
                            /\ \A i \in 1..n : c[m + i] = b[i]
  <2>1. a \in Seq(Bytes) /\ b \in Seq(Bytes)
    BY DEF Messages
  <2>2. /\ Cat(a, b) \in Seq(Bytes) /\ Len(Cat(a, b)) = m + n
        /\ \A i \in 1..m : Cat(a, b)[i] = a[i]
        /\ \A i \in 1..n : Cat(a, b)[m + i] = b[i]
    <3>1. Cat(a, b) \in Seq(Bytes) /\ IsBehind(Cat(a, b), a, b, m, n)
      BY <1>1, <2>1, Behind
    <3> QED BY ONLY <3>1 DEF IsBehind
  <2> QED BY <2>2 DEF Messages
<1>3. PICK f : /\ f \in [0..m -> Bytes] /\ f[0] = <<>> /\ Joined(a) = f[m]
               /\ \A k \in 1..m : f[k] = Cat(f[k - 1], a[k])
  BY <1>1, JoinedIs DEF JoinsUp
<1>4. PICK g : /\ g \in [0..n -> Bytes] /\ g[0] = <<>> /\ Joined(b) = g[n]
               /\ \A k \in 1..n : g[k] = Cat(g[k - 1], b[k])
  BY <1>1, JoinedIs DEF JoinsUp
<1>5. PICK h : /\ h \in [0..(m + n) -> Bytes] /\ h[0] = <<>> /\ Joined(c) = h[m + n]
               /\ \A k \in 1..(m + n) : h[k] = Cat(h[k - 1], c[k])
  BY <1>2, JoinedIs DEF JoinsUp
<1>6. h[m] = f[m]
  <2> DEFINE Same == {k \in Nat : h[k] = f[k]}
  <2>1. 0 \in Same
    BY <1>3, <1>5
  <2>2. ASSUME NEW k \in 0..m, k \in Same, k < m PROVE k + 1 \in Same
    <3>1. k + 1 \in 1..m /\ k + 1 \in 1..(m + n) /\ (k + 1) - 1 = k /\ k + 1 \in Nat /\ h[k] = f[k]
      BY <2>2
    <3>2. h[k + 1] = Cat(h[k], c[k + 1]) /\ c[k + 1] = a[k + 1]
      BY <1>2, <1>5, <3>1
    <3>3. f[k + 1] = Cat(f[k], a[k + 1])
      BY <1>3, <3>1
    <3> QED BY <3>1, <3>2, <3>3
  <2>3. 0..m \subseteq Same
    <3> HIDE DEF Same
    <3> QED BY <2>1, <2>2, UpTo
  <2>4. m \in 0..m
    OBVIOUS
  <2> QED BY <2>3, <2>4
<1>7. \A k \in 0..m : f[k] \in Bytes
  BY <1>3
<1>8. \A k \in 0..n : g[k] \in Bytes
  BY <1>4
<1>9. PICK J \in Bytes : J = f[m]
  BY <1>7
<1>10. h[m + n] = Cat(J, g[n])
  <2> DEFINE Same == {k \in Nat : h[m + k] = Cat(J, g[k])}
  <2>1. 0 \in Same
    <3>1. m + 0 = m
      OBVIOUS
    <3> QED BY <1>4, <1>6, <1>9, <3>1, CatBytes
  <2>2. ASSUME NEW k \in 0..n, k \in Same, k < n PROVE k + 1 \in Same
    <3>1. /\ k + 1 \in 1..n /\ m + (k + 1) \in 1..(m + n) /\ (k + 1) - 1 = k /\ k + 1 \in Nat
          /\ (m + (k + 1)) - 1 = m + k
      BY <2>2
    <3>2. h[m + k] = Cat(J, g[k])
      BY <2>2
    <3>3. PICK x \in Bytes, y \in Bytes : x = g[k] /\ y = b[k + 1]
      <4>1. b[k + 1] \in Bytes
        BY <1>1, <3>1, CatMessages
      <4> QED BY <1>8, <4>1
    <3>4. h[m + (k + 1)] = Cat(Cat(J, x), y)
      BY <1>2, <1>5, <3>1, <3>2, <3>3
    <3>5. g[k + 1] = Cat(x, y)
      BY <1>4, <3>1, <3>3
    <3>6. h[m + (k + 1)] = Cat(J, g[k + 1])
      BY <3>4, <3>5, CatBytes
    <3> QED BY <3>1, <3>6
  <2>3. 0..n \subseteq Same
    <3> HIDE DEF Same
    <3> QED BY <2>1, <2>2, UpTo
  <2>4. n \in 0..n
    OBVIOUS
  <2> QED BY <2>3, <2>4
<1>11. g[n] \in Bytes
  BY <1>8
<1> QED BY <1>2, <1>3, <1>4, <1>5, <1>9, <1>10, <1>11

-----------------------------------------------------------------------------
(* Messages with their headers, and their bytes one behind the other. *)
EncodedAll(msgs, en) == [i \in 1..Len(msgs) |-> S!Encoded(msgs[i], en)]
BytesOf(msgs, en) == Joined(EncodedAll(msgs, en))

(* A header and a message. *)
LEMMA EncodedIs ==
  ASSUME NEW en \in Nat, NEW m \in Bytes
  PROVE  /\ Len(m) \in Nat /\ S!Encoded(m, en) \in Bytes
         /\ S!Encoded(m, en) = Cat(S!Header(Len(m) + en, en), m)
         /\ S!Header(Len(m) + en, en) \in Bytes /\ Len(S!Header(Len(m) + en, en)) = en
         /\ Len(S!Encoded(m, en)) = Len(m) + en
<1>1. PICK n \in Nat, l \in Nat : n = Len(m) /\ l = n + en
  BY CatBytes
<1>2. SP!Header(l, en) \in Seq(SP!Byte) /\ Len(SP!Header(l, en)) = en
  BY BothSizes, SP!HeaderFacts
<1>3. PICK h \in Bytes : h = S!Header(l, en) /\ Len(h) = en
  BY <1>2, SendSame, BothSizes DEF Bytes
<1>4. S!Encoded(m, en) = Cat(h, m)
  BY <1>1, <1>3 DEF S!Encoded, Cat
<1>5. Cat(h, m) \in Bytes /\ Len(Cat(h, m)) = n + en
  <2>1. Cat(h, m) \in Bytes /\ Len(Cat(h, m)) = Len(h) + Len(m)
    BY CatBytes
  <2> QED BY ONLY <1>1, <1>3, <2>1
<1> QED BY <1>1, <1>3, <1>4, <1>5

(* Where the elements of two sequences of messages are. *)
LEMMA MessagesBehind ==
  ASSUME NEW x \in Messages, NEW y \in Messages
  PROVE  Cat(x, y) \in Messages /\ IsBehind(Cat(x, y), x, y, Len(x), Len(y))
  BY Behind DEF Messages

(* Sequences of messages with the same elements are the same. *)
LEMMA MessagesSame ==
  ASSUME NEW x \in Messages, NEW y \in Messages, NEW n, n = Len(x), n = Len(y),
         \A i \in 1..n : x[i] = y[i]
  PROVE  x = y
<1>1. x \in Seq(Bytes) /\ y \in Seq(Bytes)
  BY DEF Messages
<1> QED BY ONLY <1>1, n = Len(x), n = Len(y), \A i \in 1..n : x[i] = y[i], SeqEqual

(* A sequence of messages is what it is at each place. *)
LEMMA EncodedAllIs ==
  ASSUME NEW en \in Nat, NEW msgs \in Messages
  PROVE  /\ EncodedAll(msgs, en) \in Messages /\ Len(EncodedAll(msgs, en)) = Len(msgs)
         /\ \A i \in 1..Len(msgs) : EncodedAll(msgs, en)[i] = S!Encoded(msgs[i], en)
<1>1. PICK n \in Nat : n = Len(msgs) /\ \A i \in 1..n : msgs[i] \in Bytes
  BY CatMessages
<1> DEFINE e(i) == S!Encoded(msgs[i], en)
<1>2. \A i \in 1..n : e(i) \in Bytes
  BY <1>1, EncodedIs
<1>3. EncodedAll(msgs, en) = [i \in 1..n |-> e(i)]
  BY <1>1 DEF EncodedAll
<1> HIDE DEF e
<1>4. [i \in 1..n |-> e(i)] \in [1..n -> Bytes]
  BY ONLY <1>2
<1>5. EncodedAll(msgs, en) \in Seq(Bytes) /\ Len(EncodedAll(msgs, en)) = n
  BY ONLY <1>3, <1>4, n \in Nat
<1>6. \A i \in 1..n : EncodedAll(msgs, en)[i] = e(i)
  BY ONLY <1>3
<1> QED BY <1>1, <1>5, <1>6 DEF e, Messages

(* The bytes of messages behind messages. *)
LEMMA BytesOfBoth ==
  ASSUME NEW en \in Nat, NEW a \in Messages, NEW b \in Messages
  PROVE  /\ BytesOf(a, en) \in Bytes /\ BytesOf(b, en) \in Bytes
         /\ BytesOf(Cat(a, b), en) = Cat(BytesOf(a, en), BytesOf(b, en))
<1>1. PICK m \in Nat, n \in Nat, l \in Nat : m = Len(a) /\ n = Len(b) /\ l = m + n
  BY CatMessages
<1>2. PICK c \in Messages : c = Cat(a, b) /\ IsBehind(c, a, b, m, n)
  BY <1>1, MessagesBehind
<1>3. PICK x \in Messages : /\ x = EncodedAll(a, en) /\ Len(x) = m
                            /\ \A i \in 1..m : x[i] = S!Encoded(a[i], en)
  BY <1>1, EncodedAllIs
<1>4. PICK y \in Messages : /\ y = EncodedAll(b, en) /\ Len(y) = n
                            /\ \A i \in 1..n : y[i] = S!Encoded(b[i], en)
  BY <1>1, EncodedAllIs
<1>5. PICK z \in Messages : /\ z = EncodedAll(c, en) /\ Len(z) = l
                            /\ \A i \in 1..l : z[i] = S!Encoded(c[i], en)
  <2>1. Len(c) = l
    BY <1>1, <1>2 DEF IsBehind
  <2> QED BY <2>1, EncodedAllIs
<1>6. PICK w \in Messages : w = Cat(x, y) /\ IsBehind(w, x, y, m, n)
  BY <1>3, <1>4, MessagesBehind
<1>7. ASSUME NEW i \in 1..l PROVE z[i] = w[i]
  <2>1. CASE i <= m
    <3>1. i \in 1..m
      BY <2>1
    <3> QED BY <1>2, <1>3, <1>5, <1>6, <3>1 DEF IsBehind
  <2>2. CASE ~(i <= m)
    <3>1. PICK j \in 1..n : i = m + j
      <4>1. i - m \in 1..n /\ i = m + (i - m)
        BY <1>1, <2>2
      <4> QED BY <4>1
    <3>2. c[i] = b[j] /\ w[i] = y[j]
      BY <1>2, <1>6, <3>1 DEF IsBehind
    <3> QED BY <1>4, <1>5, <3>2
  <2> QED BY <2>1, <2>2
<1>8. z = w
  <2>1. Len(w) = l
    BY <1>1, <1>6 DEF IsBehind
  <2> QED BY <1>5, <1>7, <2>1, MessagesSame
<1>9. /\ Joined(x) \in Bytes /\ Joined(y) \in Bytes
      /\ Joined(Cat(x, y)) = Cat(Joined(x), Joined(y))
  BY JoinedBoth
<1> QED BY <1>2, <1>3, <1>4, <1>5, <1>6, <1>8, <1>9 DEF BytesOf

(* A sequence of one message. *)
LEMMA OneMessage ==
  ASSUME NEW m \in Bytes
  PROVE  <<m>> \in Messages /\ Len(<<m>>) = 1 /\ <<m>>[1] = m
<1>1. <<m>> \in Seq(Bytes)
  OBVIOUS
<1>2. Len(<<m>>) = 1 /\ <<m>>[1] = m
  OBVIOUS
<1> QED BY ONLY <1>1, <1>2 DEF Messages

(* The bytes of no message, and of one. *)
LEMMA BytesOfSmall ==
  ASSUME NEW en \in Nat, NEW m \in Bytes
  PROVE  BytesOf(<<>>, en) = <<>> /\ BytesOf(<<m>>, en) = S!Encoded(m, en) /\ <<m>> \in Messages
<1>1. EncodedAll(<<>>, en) = <<>>
  <2>1. PICK e \in Messages : e = <<>> /\ Len(e) = 0
    BY CatMessages, CatBytes
  <2>2. EncodedAll(e, en) \in Messages /\ Len(EncodedAll(e, en)) = 0
    BY <2>1, EncodedAllIs
  <2> QED BY <2>1, <2>2, CatMessages
<1>2. PICK x \in Bytes : x = S!Encoded(m, en)
  BY EncodedIs
<1>3. PICK e \in Messages : e = <<m>> /\ Len(e) = 1 /\ e[1] = m
  BY OneMessage
<1>4. PICK f \in Messages : f = <<x>> /\ Len(f) = 1 /\ f[1] = x
  BY OneMessage
<1>5. EncodedAll(e, en) = f
  <2>1. /\ EncodedAll(e, en) \in Messages /\ Len(EncodedAll(e, en)) = 1
        /\ \A i \in 1..1 : EncodedAll(e, en)[i] = S!Encoded(e[i], en)
    BY <1>3, EncodedAllIs
  <2>2. \A i \in 1..1 : EncodedAll(e, en)[i] = f[i]
    BY <1>2, <1>3, <1>4, <2>1
  <2> QED BY <1>4, <2>1, <2>2, MessagesSame
<1> QED BY <1>1, <1>2, <1>3, <1>4, <1>5, JoinedSmall DEF BytesOf

(* The first message and the others. *)
LEMMA FirstMessage ==
  ASSUME NEW msgs \in Messages, msgs # <<>>
  PROVE  /\ Head(msgs) \in Bytes /\ Tail(msgs) \in Messages /\ Len(Tail(msgs)) = Len(msgs) - 1
         /\ msgs = Cat(<<Head(msgs)>>, Tail(msgs)) /\ Head(msgs) = msgs[1]
         /\ \A i \in 1..(Len(msgs) - 1) : Tail(msgs)[i] = msgs[i + 1]
<1>1. msgs \in Seq(Bytes) /\ msgs # <<>>
  BY DEF Messages
<1>2. /\ Head(msgs) \in Bytes /\ Tail(msgs) \in Seq(Bytes) /\ Len(Tail(msgs)) = Len(msgs) - 1
      /\ Head(msgs) = msgs[1] /\ Len(msgs) \in Nat \ {0}
      /\ \A i \in 1..(Len(msgs) - 1) : Tail(msgs)[i] = msgs[i + 1]
  <2>1. Head(msgs) \in Bytes /\ Tail(msgs) \in Seq(Bytes)
    BY ONLY <1>1, HeadTailProperties
  <2>2. Len(Tail(msgs)) = Len(msgs) - 1
    BY ONLY <1>1, HeadTailProperties
  <2>3. \A i \in 1..(Len(msgs) - 1) : Tail(msgs)[i] = msgs[i + 1]
    BY ONLY <1>1, HeadTailProperties
  <2>4. Head(msgs) = msgs[1]
    BY ONLY <1>1
  <2>5. Len(msgs) \in Nat \ {0}
    BY ONLY <1>1, EmptySeq
  <2> QED BY ONLY <2>1, <2>2, <2>3, <2>4, <2>5
<1>3. PICK n \in Nat, h \in Bytes, t \in Messages :
        /\ Len(msgs) = n + 1 /\ h = msgs[1] /\ h = Head(msgs) /\ t = Tail(msgs) /\ Len(t) = n
        /\ \A i \in 1..n : t[i] = msgs[i + 1]
  <2>1. PICK n \in Nat : Len(msgs) = n + 1
    <3>1. Len(msgs) - 1 \in Nat /\ Len(msgs) = (Len(msgs) - 1) + 1
      BY ONLY <1>2
    <3> QED BY ONLY <3>1
  <2>2. Len(msgs) - 1 = n
    BY ONLY <2>1, n \in Nat
  <2> QED BY ONLY <1>2, <2>1, <2>2 DEF Messages
<1>4. PICK e \in Messages : e = <<h>> /\ Len(e) = 1 /\ e[1] = h
  BY OneMessage
<1>5. PICK c \in Messages : c = Cat(e, t) /\ IsBehind(c, e, t, 1, n)
  BY <1>3, <1>4, MessagesBehind
<1>6. ASSUME NEW i \in 1..(n + 1) PROVE msgs[i] = c[i]
  <2>1. CASE i = 1
    BY <1>3, <1>4, <1>5, <2>1 DEF IsBehind
  <2>2. CASE i # 1
    <3>1. PICK j \in 1..n : i = 1 + j /\ i = j + 1
      <4>1. i - 1 \in 1..n /\ i = 1 + (i - 1) /\ i = (i - 1) + 1
        BY <2>2
      <4> QED BY <4>1
    <3> QED BY <1>3, <1>5, <3>1 DEF IsBehind
  <2> QED BY <2>1, <2>2
<1>7. msgs = c
  <2>1. PICK l : l = n + 1
    OBVIOUS
  <2>2. Len(c) = l /\ Len(msgs) = l
    BY <1>3, <1>5, <2>1 DEF IsBehind
  <2>3. \A i \in 1..l : msgs[i] = c[i]
    BY <1>6, <2>1
  <2> QED BY <2>2, <2>3, MessagesSame
<1> QED BY <1>2, <1>3, <1>4, <1>5, <1>7 DEF Messages

(* A sequence that begins with a message. *)
LEMMA FirstThen ==
  ASSUME NEW m \in Bytes, NEW z \in Messages
  PROVE  /\ Cat(<<m>>, z) # <<>> /\ Head(Cat(<<m>>, z)) = m /\ Tail(Cat(<<m>>, z)) = z
<1>1. PICK n \in Nat : n = Len(z)
  BY CatMessages
<1>2. PICK e \in Messages : e = <<m>> /\ Len(e) = 1 /\ e[1] = m
  BY OneMessage
<1>3. PICK c \in Messages : c = Cat(e, z) /\ IsBehind(c, e, z, 1, n)
  BY <1>1, <1>2, MessagesBehind
<1>4. Len(c) = 1 + n /\ c[1] = m /\ \A i \in 1..n : c[1 + i] = z[i]
  BY <1>2, <1>3 DEF IsBehind
<1>5. c # <<>>
  BY <1>4
<1>6. Head(c) = m /\ Tail(c) \in Messages /\ Len(Tail(c)) = n /\ \A i \in 1..n : Tail(c)[i] = z[i]
  <2>1. /\ Tail(c) \in Messages /\ Len(Tail(c)) = Len(c) - 1 /\ Head(c) = c[1]
        /\ \A i \in 1..(Len(c) - 1) : Tail(c)[i] = c[i + 1]
    BY <1>5, FirstMessage
  <2>2. Len(c) - 1 = n /\ \A i \in 1..n : i + 1 = 1 + i
    BY <1>4
  <2> QED BY <1>4, <2>1, <2>2
<1>7. Tail(c) = z
  BY <1>1, <1>6, MessagesSame
<1> QED BY <1>2, <1>3, <1>5, <1>6, <1>7

(* A message that is appended. *)
LEMMA AppendIs ==
  ASSUME NEW msgs \in Messages, NEW m \in Bytes
  PROVE  /\ Append(msgs, m) \in Messages /\ Append(msgs, m) = Cat(msgs, <<m>>)
         /\ Len(Append(msgs, m)) = Len(msgs) + 1
         /\ \A i \in 1..Len(msgs) : Append(msgs, m)[i] = msgs[i]
         /\ Append(msgs, m)[Len(msgs) + 1] = m
<1>1. msgs \in Seq(Bytes)
  BY DEF Messages
<1>2. /\ Append(msgs, m) \in Seq(Bytes) /\ Append(msgs, m) = msgs \o <<m>>
      /\ Len(Append(msgs, m)) = Len(msgs) + 1
      /\ \A i \in 1..Len(msgs) : Append(msgs, m)[i] = msgs[i]
      /\ Append(msgs, m)[Len(msgs) + 1] = m
  BY <1>1, AppendProperties
<1> QED BY <1>2 DEF Messages, Cat

-----------------------------------------------------------------------------
(* What the operations of the send buffer do to the bytes in it. *)
LEMMA SendBuffer ==
  /\ SP!Sound(S!Empty) /\ S!Contents(S!Empty) = <<>>
  /\ \A r : SP!Sound(r) => r \in S!Ring /\ S!Contents(r) \in Bytes
<1>1. SP!Sound(SP!Empty) /\ SP!Contents(SP!Empty) = <<>>
  BY BothSizes, SP!EmptySound
<1>2. ASSUME NEW r, SP!Sound(r) PROVE SP!Contents(r) \in Seq(SP!Byte) /\ r \in SP!Ring
  <2>1. SP!Contents(r) \in Seq(SP!Byte)
    BY <1>2, BothSizes, SP!ContentsIs
  <2>2. r \in SP!Ring
    BY <1>2 DEF SP!Sound
  <2> QED BY <2>1, <2>2
<1> QED BY <1>1, <1>2, SendSame, BothSizes DEF Bytes

(* A message that is written is behind what was there. *)
LEMMA Writes ==
  ASSUME NEW r, SP!Sound(r), NEW m \in Bytes, NEW en \in Nat, S!Accepts(r, m, en)
  PROVE  /\ SP!Sound(S!Written(r, m, en))
         /\ S!Contents(S!Written(r, m, en)) = Cat(S!Contents(r), S!Encoded(m, en))
<1>1. SP!Accepts(r, m, en) /\ m \in Seq(SP!Byte)
  BY SendSame, BothSizes DEF Bytes
<1>2. PICK s : s = SP!Written(r, m, en)
  OBVIOUS
<1>3. SP!Sound(s) /\ SP!Contents(s) = SP!Contents(r) \o SP!Encoded(m, en)
  BY ONLY <1>1, <1>2, SP!Sound(r), en \in Nat, BothSizes, SP!WrittenSound
<1> QED BY <1>2, <1>3, SendSame DEF Cat

(* One that is not written changes nothing. *)
LEMMA WritesNot ==
  ASSUME NEW r, SP!Sound(r), NEW m \in Bytes, NEW en \in Nat,
         NEW s \in S!WriteFailures(r, m, en)
  PROVE  SP!Sound(s) /\ S!Contents(s) = S!Contents(r)
<1>1. s \in SP!WriteFailures(r, m, en) /\ m \in Seq(SP!Byte)
  BY SendSame, BothSizes DEF Bytes
<1>2. SP!Sound(s) /\ SP!Contents(s) = SP!Contents(r)
  BY ONLY <1>1, SP!Sound(r), en \in Nat, BothSizes, SP!WriteFailuresSound
<1> QED BY <1>2, SendSame

(* What is sent is the front of what was there. *)
LEMMA Sends ==
  ASSUME NEW r, SP!Sound(r), NEW k \in Nat, k <= S!Prepared(r)
  PROVE  /\ SP!Sound(S!Consumed(r, k)) /\ S!BytesFrom(r, r.read, k) \in Bytes
         /\ S!Contents(r) = Cat(S!BytesFrom(r, r.read, k), S!Contents(S!Consumed(r, k)))
<1>1. PICK u \in Nat, rd \in SP!Position : u = SP!Used(r) /\ rd = r.read /\ k <= u
  <2>1. SP!Used(r) \in Nat /\ r.read \in SP!Position
    BY BothSizes, SP!SoundFacts
  <2>2. SP!Prepared(r) \in Int /\ SP!Prepared(r) <= SP!Used(r) /\ k <= SP!Prepared(r)
    BY BothSizes, SP!PreparedThere, SendSame
  <2>3. k <= SP!Used(r)
    BY ONLY <2>1, <2>2, k \in Nat
  <2> QED BY <2>1, <2>3
<1>2. PICK c \in Bytes : c = SP!Contents(r) /\ Len(c) = u /\ c = S!Contents(r)
  BY <1>1, BothSizes, SP!ContentsIs, SendSame DEF Bytes
<1>3. k \in 0..SP!Used(r) /\ k \in 0..Len(c)
  BY ONLY <1>1, <1>2, k \in Nat
<1>4. PICK s : s = SP!Skipped(r, k) /\ SP!Sound(s) /\ SP!Contents(s) = SubSeq(c, k + 1, u)
  BY ONLY <1>1, <1>2, <1>3, SP!Sound(r), BothSizes, SP!SkippedSound
<1>5. SP!BytesFrom(r, rd, k) = SubSeq(c, 1, k)
  <2>1. 0 + k <= SP!Used(r) /\ 0 + 1 = 1 /\ 0 + k = k /\ 0 \in Nat
    BY ONLY <1>1, k \in Nat
  <2>2. SP!BytesFrom(r, SP!Forward(r.read, 0), k) = SubSeq(SP!Contents(r), 0 + 1, 0 + k)
    BY ONLY <2>1, SP!Sound(r), k \in Nat, BothSizes, SP!BytesAt
  <2>3. SP!BytesFrom(r, SP!Forward(rd, 0), k) = SubSeq(c, 1, k)
    BY ONLY <1>1, <1>2, <2>1, <2>2
  <2>4. SP!Forward(rd, 0) = rd
    BY <2>1, BothSizes, SP!ForwardTwice
  <2> QED BY ONLY <2>3, <2>4
<1>6. /\ SubSeq(c, 1, k) \in Bytes /\ Cat(SubSeq(c, 1, k), SubSeq(c, k + 1, Len(c))) = c
  BY <1>3, BytesCut
<1>7. S!Consumed(r, k) = s
  BY <1>4, SendSame DEF SP!Consumed
<1>8. S!BytesFrom(r, r.read, k) = SubSeq(c, 1, k)
  BY <1>1, <1>5, SendSame
<1> QED BY ONLY <1>2, <1>4, <1>6, <1>7, <1>8, SendSame

-----------------------------------------------------------------------------
(* The ring of the receive buffer: what it is and what it is at first. *)
LEMMA ReceiveRing ==
  /\ RP!Sound(R!Empty) /\ R!Contents(R!Empty) = <<>> /\ R!Used(R!Empty) = 0
  /\ R!Empty.read = R!Forward(R!Empty.read, 0) /\ R!Empty.read = R!Capacity
  /\ \A r : RP!Sound(r) =>
       /\ r \in R!Ring /\ R!Contents(r) \in Bytes /\ Len(R!Contents(r)) = R!Used(r)
       /\ R!Used(r) \in Nat /\ r.read \in R!Position /\ r.read = R!Forward(r.read, 0)
       /\ \A s \in Nat : s <= R!Used(r) => R!Forward(r.read, s) \in R!Position
<1>1. RP!Sound(RP!Empty) /\ RP!Contents(RP!Empty) = <<>> /\ RP!Used(RP!Empty) = 0
  BY BothSizes, RP!EmptySound
<1>2. ASSUME NEW r, RP!Sound(r)
      PROVE  /\ RP!Contents(r) \in Seq(RP!Byte) /\ r \in RP!Ring
             /\ Len(RP!Contents(r)) = RP!Used(r)
             /\ RP!Used(r) \in Nat /\ r.read \in RP!Position /\ r.read = RP!Forward(r.read, 0)
             /\ \A s \in Nat : s <= RP!Used(r) => RP!Forward(r.read, s) \in RP!Position
  <2>1. RP!Contents(r) \in Seq(RP!Byte) /\ Len(RP!Contents(r)) = RP!Used(r)
    BY <1>2, BothSizes, RP!ContentsIs
  <2>2. r \in RP!Ring
    BY <1>2 DEF RP!Sound
  <2>3. RP!Used(r) \in Nat /\ r.read \in RP!Position
    BY <1>2, BothSizes, RP!SoundFacts
  <2>4. r.read = RP!Forward(r.read, 0)
    <3>1. 0 \in Nat
      OBVIOUS
    <3>2. RP!Forward(r.read, 0) = r.read
      BY ONLY <2>3, <3>1, BothSizes, RP!ForwardTwice
    <3> QED BY <3>2
  <2>5. ASSUME NEW s \in Nat, s <= RP!Used(r) PROVE RP!Forward(r.read, s) \in RP!Position
    <3>1. s + 0 <= RP!Used(r) /\ 0 \in Nat
      BY ONLY <2>5, s \in Nat
    <3> QED BY ONLY <3>1, s \in Nat, RP!Sound(r), BothSizes, RP!BytesAt
  <2> QED BY <2>1, <2>2, <2>3, <2>4, <2>5
<1>3. R!Empty.read = R!Capacity
  BY DEF R!Empty
<1>4. R!Empty.read = R!Forward(R!Empty.read, 0)
  BY <1>1, <1>2, ReceiveSame
<1>5. Seq(RP!Byte) = Bytes
  BY BothSizes DEF Bytes
<1> QED BY <1>1, <1>2, <1>3, <1>4, <1>5, ReceiveSame

(* Bytes that are received are behind what was there. *)
LEMMA Receives ==
  ASSUME NEW b, RP!Sound(b.ring), NEW bytes \in Bytes, bytes # <<>>,
         Len(bytes) <= R!PreparedA(b)
  PROVE  LET s == R!ReceivedA(b, bytes)
         IN  /\ RP!Sound(s) /\ R!Contents(s) = Cat(R!Contents(b.ring), bytes)
             /\ s.read = b.ring.read /\ R!Used(s) = R!Used(b.ring) + Len(bytes)
<1>1. bytes \in Seq(RP!Byte) /\ Len(bytes) <= RP!PreparedA(b)
  BY ReceiveSame, BothSizes DEF Bytes
<1>2. PICK s : s = RP!ReceivedA(b, bytes)
  OBVIOUS
<1>3. /\ RP!Sound(s) /\ RP!Contents(s) = RP!Contents(b.ring) \o bytes
      /\ s.read = b.ring.read /\ RP!Used(s) = RP!Used(b.ring) + Len(bytes)
  BY ONLY <1>1, <1>2, RP!Sound(b.ring), bytes # <<>>, BothSizes, RP!ReceivedSound
<1> QED BY <1>2, <1>3, ReceiveSame DEF Cat

(* A part that is allocated changes nothing. *)
LEMMA Allocates ==
  ASSUME NEW r, RP!Sound(r), NEW indices
  PROVE  LET s == R!Allocated(r, indices)
         IN  /\ RP!Sound(s) /\ R!Contents(s) = R!Contents(r)
             /\ s.read = r.read /\ R!Used(s) = R!Used(r)
<1>1. PICK s : s = RP!Allocated(r, indices)
  OBVIOUS
<1>2. /\ RP!Sound(s) /\ RP!Contents(s) = RP!Contents(r)
      /\ s.read = r.read /\ RP!Used(s) = RP!Used(r)
  BY ONLY <1>1, RP!Sound(r), BothSizes, RP!AllocatedSound
<1> QED BY <1>1, <1>2, ReceiveSame

(* What is read is the front of what was there. *)
LEMMA Reads ==
  ASSUME NEW r, RP!Sound(r), NEW k \in Nat, k <= R!Used(r)
  PROVE  LET s == R!Skipped(r, k)
         IN  /\ RP!Sound(s) /\ s.read = R!Forward(r.read, k) /\ R!Used(s) = R!Used(r) - k
             /\ \E x \in Bytes : Len(x) = k /\ R!Contents(r) = Cat(x, R!Contents(s))
<1>1. PICK u \in Nat : u = RP!Used(r) /\ k <= u
  BY BothSizes, RP!SoundFacts, ReceiveSame
<1>2. PICK c \in Bytes : c = RP!Contents(r) /\ Len(c) = u /\ c = R!Contents(r)
  BY <1>1, ReceiveRing, ReceiveSame
<1>3. k \in 0..RP!Used(r) /\ k \in 0..Len(c)
  BY ONLY <1>1, <1>2, k \in Nat
<1>4. PICK s : /\ s = RP!Skipped(r, k) /\ RP!Sound(s) /\ RP!Contents(s) = SubSeq(c, k + 1, u)
               /\ s.read = RP!Forward(r.read, k) /\ RP!Used(s) = RP!Used(r) - k
  BY ONLY <1>1, <1>2, <1>3, RP!Sound(r), BothSizes, RP!SkippedSound
<1>5. PICK x \in Bytes : Len(x) = k /\ Cat(x, SubSeq(c, k + 1, Len(c))) = c
  BY <1>3, BytesCut
<1>6. Len(x) = k /\ R!Contents(r) = Cat(x, R!Contents(s))
  BY ONLY <1>2, <1>4, <1>5, ReceiveSame
<1>7. s = R!Skipped(r, k) /\ s.read = R!Forward(r.read, k) /\ R!Used(s) = R!Used(r) - k
  BY ONLY <1>4, ReceiveSame
<1> QED BY <1>4, <1>6, <1>7

-----------------------------------------------------------------------------
(* Messages that a receive buffer of version A can recognise. *)
AllFit(msgs, en) ==
  \A i \in 1..Len(msgs) : /\ msgs[i] # <<>> /\ Len(msgs[i]) + en < S!Power(en)
                          /\ Len(msgs[i]) + en <= R!Capacity

(* The bytes of the message behind some messages: as far as they are in the *)
(* buffer, what is read as the next header is its header.                  *)
LEMMA AtBoundary ==
  ASSUME NEW en \in Nat, NEW r, RP!Sound(r), NEW rest \in Bytes,
         NEW a \in Messages, NEW m \in Bytes, NEW z \in Messages,
         Cat(R!Contents(r), rest) = Cat(BytesOf(a, en), Cat(S!Encoded(m, en), BytesOf(z, en))),
         Len(m) + en < S!Power(en), Len(m) + en <= R!Capacity,
         Len(BytesOf(a, en)) + en <= R!Used(r)
  PROVE  LET s == Len(BytesOf(a, en))
         IN  /\ SubSeq(R!Contents(r), s + 1, s + en) = S!Header(Len(m) + en, en)
             /\ s + (Len(m) + en) <= R!Used(r) =>
                  \E y \in Bytes : R!Contents(r) = Cat(BytesOf(a, en), Cat(S!Encoded(m, en), y))
<1>1. PICK c \in Bytes, u \in Nat, p \in Bytes, s \in Nat, t \in Bytes :
        /\ c = R!Contents(r) /\ u = R!Used(r) /\ Len(c) = u
        /\ p = BytesOf(a, en) /\ s = Len(p) /\ t = BytesOf(z, en)
  <2>1. R!Contents(r) \in Bytes /\ R!Used(r) \in Nat /\ Len(R!Contents(r)) = R!Used(r)
    BY ReceiveRing
  <2>2. BytesOf(a, en) \in Bytes /\ BytesOf(z, en) \in Bytes
    BY BytesOfBoth
  <2> QED BY <2>1, <2>2, CatBytes
<1>2. PICK h \in Bytes, e \in Bytes, l \in Nat :
        /\ h = S!Header(Len(m) + en, en) /\ Len(h) = en /\ e = S!Encoded(m, en)
        /\ e = Cat(h, m) /\ l = Len(e) /\ l = Len(m) + en
  <2>1. /\ Len(m) \in Nat /\ S!Encoded(m, en) \in Bytes
        /\ S!Encoded(m, en) = Cat(S!Header(Len(m) + en, en), m)
        /\ S!Header(Len(m) + en, en) \in Bytes /\ Len(S!Header(Len(m) + en, en)) = en
        /\ Len(S!Encoded(m, en)) = Len(m) + en
    BY EncodedIs
  <2>2. Len(m) + en \in Nat
    BY ONLY <2>1, en \in Nat
  <2> QED BY ONLY <2>1, <2>2
<1>3. PICK q \in Bytes : c = Cat(p, q) /\ Cat(e, t) = Cat(q, rest) /\ u = s + Len(q)
  <2>1. Cat(c, rest) = Cat(p, Cat(e, t)) /\ Cat(e, t) \in Bytes
    BY <1>1, <1>2, CatBytes
  <2>2. Len(p) <= Len(c)
    BY <1>1
  <2> QED BY <1>1, <2>1, <2>2, Overlap
<1>4. SubSeq(c, s + 1, s + en) = h
  <2>1. Cat(q, rest) = Cat(h, Cat(m, t)) /\ Cat(m, t) \in Bytes
    BY <1>2, <1>3, CatBytes
  <2>2. Len(h) <= Len(q)
    <3>1. s + en <= u /\ Len(q) \in Nat
      BY <1>1, CatBytes
    <3> QED BY ONLY <1>2, <1>3, <3>1, en \in Nat, s \in Nat
  <2>3. PICK w \in Bytes : q = Cat(h, w)
    BY <2>1, <2>2, Overlap
  <2>4. SubSeq(Cat(p, Cat(h, w)), Len(p) + 1, Len(p) + Len(h)) = h
    BY Middle
  <2> QED BY ONLY <1>1, <1>2, <1>3, <2>3, <2>4
<1>5. ASSUME s + l <= u PROVE \E y \in Bytes : c = Cat(p, Cat(e, y))
  <2>1. Len(e) <= Len(q)
    <3>1. Len(q) \in Nat
      BY CatBytes
    <3> QED BY ONLY <1>2, <1>3, <1>5, <3>1, s \in Nat
  <2>2. PICK y \in Bytes : q = Cat(e, y)
    BY <1>3, <2>1, Overlap
  <2> QED BY <1>3, <2>2
<1> QED BY ONLY <1>1, <1>2, <1>4, <1>5

(* So the size of the message there is 0 until all of it has arrived. *)
LEMMA SizeAtBoundary ==
  ASSUME NEW en \in Nat \ {0}, NEW r, RP!Sound(r), NEW rest \in Bytes,
         NEW a \in Messages, NEW m \in Bytes, NEW z \in Messages,
         Cat(R!Contents(r), rest) = Cat(BytesOf(a, en), Cat(S!Encoded(m, en), BytesOf(z, en))),
         Len(m) + en < S!Power(en), Len(m) + en <= R!Capacity,
         Len(BytesOf(a, en)) <= R!Used(r)
  PROVE  R!MsgSize(r, R!Forward(r.read, Len(BytesOf(a, en))), en) =
           IF Len(BytesOf(a, en)) + (Len(m) + en) > R!Used(r) THEN 0 ELSE Len(m) + en
<1>1. PICK u \in Nat, s \in Nat, l \in Nat :
        /\ u = R!Used(r) /\ u = RP!Used(r) /\ s = Len(BytesOf(a, en)) /\ l = Len(m) + en
        /\ s <= u /\ en <= l
  <2>1. R!Used(r) \in Nat /\ R!Used(r) = RP!Used(r)
    BY ReceiveRing, ReceiveSame
  <2>2. Len(BytesOf(a, en)) \in Nat /\ Len(m) \in Nat
    BY BytesOfBoth, CatBytes
  <2>3. Len(m) + en \in Nat /\ en <= Len(m) + en
    BY <2>2
  <2> QED BY <2>1, <2>2, <2>3
<1>2. PICK mc : mc = RP!MsgSize(r, RP!Forward(r.read, s), en)
  OBVIOUS
<1>3. s \in 0..RP!Used(r) /\ en \in Nat
  BY <1>1
<1>4. CASE u - s < en
  <2>1. mc = 0
    BY ONLY <1>1, <1>2, <1>3, <1>4, RP!Sound(r), BothSizes, RP!MsgSizeAt
  <2>2. s + l > u
    BY ONLY <1>1, <1>4, en \in Nat \ {0}
  <2> QED BY <1>1, <1>2, <2>1, <2>2, ReceiveSame
<1>5. CASE ~(u - s < en)
  <2>1. s + en <= u /\ en <= u - s
    BY ONLY <1>1, <1>5, en \in Nat \ {0}
  <2>2. SubSeq(R!Contents(r), s + 1, s + en) = S!Header(l, en)
    <3>1. Len(BytesOf(a, en)) + en <= R!Used(r)
      BY <1>1, <2>1
    <3>2. en \in Nat
      OBVIOUS
    <3>3. SubSeq(R!Contents(r), Len(BytesOf(a, en)) + 1, Len(BytesOf(a, en)) + en) =
            S!Header(Len(m) + en, en)
      BY <3>1, <3>2, AtBoundary
    <3> QED BY ONLY <1>1, <3>3
  <2>3. l \in en..RP!Capacity /\ l < RP!Power(en) /\ en <= RP!Used(r) - s
        /\ SubSeq(RP!Contents(r), s + 1, s + en) = RP!Header(l, en)
    <3>1. RP!Capacity \in Nat
      BY BothSizes, RP!CapacityIs
    <3>2. l <= RP!Capacity
      BY <1>1, ReceiveSame
    <3>3. l \in en..RP!Capacity
      BY ONLY <1>1, <3>1, <3>2, en \in Nat \ {0}
    <3> QED BY <1>1, <2>1, <2>2, <3>3, ReceiveSame
  <2>4. mc = IF l > RP!Used(r) - s THEN 0 ELSE l
    BY ONLY <1>2, <1>3, <2>3, RP!Sound(r), BothSizes, RP!MsgSizeAt
  <2>5. l > u - s <=> s + l > u
    BY ONLY <1>1
  <2> QED BY <1>1, <1>2, <2>4, <2>5, ReceiveSame
<1> QED BY <1>4, <1>5

(* The buffer contains bytes of the messages, beginning with the first. *)
Begins(bytes, msgs, en) == \E rest \in Bytes : Cat(bytes, rest) = BytesOf(msgs, en)

(* What the messages of a are recognised, and the first of b has not        *)
(* arrived.                                                                *)
IsCut(r, check, a, b, en) ==
  /\ Len(BytesOf(a, en)) <= R!Used(r)
  /\ check = R!Forward(r.read, Len(BytesOf(a, en)))
  /\ b # <<>> => Len(BytesOf(a, en)) + (Len(Head(b)) + en) > R!Used(r)
Recognises(r, check, msgs, en) ==
  \E a, b \in Messages : msgs = Cat(a, b) /\ IsCut(r, check, a, b, en)

(* A first message behind others is one of all of them. *)
LEMMA NextFits ==
  ASSUME NEW en \in Nat, NEW a \in Messages, NEW b \in Messages, b # <<>>,
         AllFit(Cat(a, b), en)
  PROVE  /\ Head(b) \in Bytes /\ Head(b) # <<>> /\ Len(Head(b)) + en < S!Power(en)
         /\ Len(Head(b)) + en <= R!Capacity
<1>1. PICK k \in Nat, n \in Nat : k = Len(a) /\ n = Len(b)
  BY CatMessages
<1>2. IsBehind(Cat(a, b), a, b, k, n)
  BY <1>1, MessagesBehind
<1>3. Head(b) \in Bytes /\ Head(b) = b[1]
  BY FirstMessage
<1>4. n # 0
  BY <1>1, CatMessages
<1>5. k + 1 \in 1..Len(Cat(a, b)) /\ Cat(a, b)[k + 1] = Head(b)
  <2>1. 1 \in 1..n /\ k + 1 \in 1..(k + n)
    BY <1>4
  <2> QED BY ONLY <1>2, <1>3, <2>1 DEF IsBehind
<1> QED BY ONLY <1>3, <1>5, AllFit(Cat(a, b), en) DEF AllFit

(* One message more in front, and one less behind. *)
LEMMA NextMessage ==
  ASSUME NEW en \in Nat, NEW a \in Messages, NEW b \in Messages, b # <<>>
  PROVE  /\ Head(b) \in Bytes /\ Tail(b) \in Messages
         /\ Cat(a, <<Head(b)>>) \in Messages /\ Cat(a, b) = Cat(Cat(a, <<Head(b)>>), Tail(b))
         /\ BytesOf(Cat(a, <<Head(b)>>), en) = Cat(BytesOf(a, en), S!Encoded(Head(b), en))
         /\ Len(BytesOf(Cat(a, <<Head(b)>>), en)) = Len(BytesOf(a, en)) + (Len(Head(b)) + en)
         /\ BytesOf(b, en) = Cat(S!Encoded(Head(b), en), BytesOf(Tail(b), en))
         /\ BytesOf(Cat(a, b), en) =
              Cat(BytesOf(a, en), Cat(S!Encoded(Head(b), en), BytesOf(Tail(b), en)))
<1>1. PICK m \in Bytes, t \in Messages : m = Head(b) /\ t = Tail(b) /\ b = Cat(<<m>>, t)
  BY FirstMessage
<1>2. PICK e \in Messages : e = <<m>> /\ BytesOf(e, en) = S!Encoded(m, en)
  BY BytesOfSmall
<1>3. PICK p \in Bytes, q \in Bytes, x \in Bytes :
        p = BytesOf(a, en) /\ q = BytesOf(t, en) /\ x = S!Encoded(m, en) /\ Len(x) = Len(m) + en
  <2>1. BytesOf(a, en) \in Bytes /\ BytesOf(t, en) \in Bytes
    BY BytesOfBoth
  <2>2. S!Encoded(m, en) \in Bytes /\ Len(S!Encoded(m, en)) = Len(m) + en
    BY EncodedIs
  <2> QED BY <2>1, <2>2
<1>4. Cat(a, e) \in Messages /\ Cat(a, b) = Cat(Cat(a, e), t)
  <2>1. Cat(a, e) \in Messages /\ Cat(Cat(a, e), t) = Cat(a, Cat(e, t))
    BY CatMessages
  <2> QED BY ONLY <1>1, <1>2, <2>1
<1>5. BytesOf(Cat(a, e), en) = Cat(p, x) /\ Len(Cat(p, x)) = Len(p) + (Len(m) + en)
  <2>1. BytesOf(Cat(a, e), en) = Cat(p, x)
    BY <1>2, <1>3, BytesOfBoth
  <2>2. Len(Cat(p, x)) = Len(p) + Len(x)
    BY CatBytes
  <2> QED BY ONLY <1>3, <2>1, <2>2
<1>6. BytesOf(b, en) = Cat(x, q)
  <2>1. BytesOf(Cat(e, t), en) = Cat(BytesOf(e, en), BytesOf(t, en))
    BY BytesOfBoth
  <2> QED BY ONLY <1>1, <1>2, <1>3, <2>1
<1>7. BytesOf(Cat(a, b), en) = Cat(p, Cat(x, q))
  BY <1>3, <1>6, BytesOfBoth
<1> QED BY ONLY <1>1, <1>2, <1>3, <1>4, <1>5, <1>6, <1>7

(* What is read as the size of a message where one begins. *)
LEMMA SizeThere ==
  ASSUME NEW en \in Nat \ {0}, NEW r, RP!Sound(r),
         NEW a \in Messages, NEW b \in Messages, AllFit(Cat(a, b), en),
         Begins(R!Contents(r), Cat(a, b), en), Len(BytesOf(a, en)) <= R!Used(r)
  PROVE  R!MsgSize(r, R!Forward(r.read, Len(BytesOf(a, en))), en) =
           IF b = <<>> \/ Len(BytesOf(a, en)) + (Len(Head(b)) + en) > R!Used(r)
           THEN 0 ELSE Len(Head(b)) + en
<1>1. en \in Nat
  OBVIOUS
<1>2. PICK rest \in Bytes : Cat(R!Contents(r), rest) = BytesOf(Cat(a, b), en)
  BY DEF Begins
<1>3. CASE b = <<>>
  <2>1. PICK s \in Nat, u \in Nat : s = Len(BytesOf(a, en)) /\ u = R!Used(r) /\ s <= u /\ u = RP!Used(r)
    <3>1. BytesOf(a, en) \in Bytes /\ R!Used(r) \in Nat /\ R!Used(r) = RP!Used(r)
      BY <1>1, BytesOfBoth, ReceiveRing, ReceiveSame
    <3> QED BY <3>1, CatBytes
  <2>2. u <= s
    <3>1. Cat(a, b) = a
      BY <1>3, CatMessages
    <3>2. R!Contents(r) \in Bytes /\ Len(R!Contents(r)) = u
      BY <2>1, ReceiveRing
    <3>3. Len(Cat(R!Contents(r), rest)) = u + Len(rest) /\ Len(rest) \in Nat
      BY <3>2, CatBytes
    <3>4. s = u + Len(rest)
      BY ONLY <1>2, <2>1, <3>1, <3>3
    <3> QED BY ONLY <3>3, <3>4, u \in Nat
  <2>3. s \in 0..RP!Used(r) /\ RP!Used(r) - s < en
    BY ONLY <2>1, <2>2, en \in Nat \ {0}
  <2>4. RP!MsgSize(r, RP!Forward(r.read, s), en) = 0
    BY ONLY <1>1, <2>3, RP!Sound(r), BothSizes, RP!MsgSizeAt
  <2> QED BY <1>3, <2>1, <2>4, ReceiveSame
<1>4. CASE b # <<>>
  <2>1. PICK m \in Bytes, z \in Messages : m = Head(b) /\ z = Tail(b)
    BY <1>4, FirstMessage
  <2>2. Cat(R!Contents(r), rest) = Cat(BytesOf(a, en), Cat(S!Encoded(m, en), BytesOf(z, en)))
    BY <1>1, <1>2, <1>4, <2>1, NextMessage
  <2>3. Len(m) + en < S!Power(en) /\ Len(m) + en <= R!Capacity
    BY <1>1, <1>4, <2>1, NextFits
  <2>4. R!MsgSize(r, R!Forward(r.read, Len(BytesOf(a, en))), en) =
           IF Len(BytesOf(a, en)) + (Len(m) + en) > R!Used(r) THEN 0 ELSE Len(m) + en
    BY <2>2, <2>3, SizeAtBoundary
  <2> QED BY ONLY <1>4, <2>1, <2>4
<1> QED BY <1>3, <1>4

(* Recognising goes on to the first message that is not there. *)
LEMMA Recognising ==
  ASSUME NEW en \in Nat \ {0}, NEW r, RP!Sound(r), NEW msgs \in Messages, AllFit(msgs, en),
         Begins(R!Contents(r), msgs, en),
         NEW a0 \in Messages, NEW b0 \in Messages, msgs = Cat(a0, b0),
         Len(BytesOf(a0, en)) <= R!Used(r)
  PROVE  LET c == R!Recognised(r, R!Forward(r.read, Len(BytesOf(a0, en))), en)
         IN  Recognises(r, c, msgs, en) /\ R!MsgSize(r, c, en) = 0
<1> DEFINE Splits(a, b, s) == msgs = Cat(a, b) /\ s = Len(BytesOf(a, en))
           B == {s \in 0..RP!Used(r) : \E a, b \in Messages : Splits(a, b, s)}
<1>1. en \in Nat
  OBVIOUS
<1>2. PICK u \in Nat : u = R!Used(r) /\ u = RP!Used(r)
  BY ReceiveRing, ReceiveSame
<1>3. ASSUME NEW s \in 0..u, NEW a \in Messages, NEW b \in Messages, Splits(a, b, s)
      PROVE  RP!MsgSize(r, RP!Forward(r.read, s), en) =
               IF b = <<>> \/ s + (Len(Head(b)) + en) > u THEN 0 ELSE Len(Head(b)) + en
  <2>1. AllFit(Cat(a, b), en) /\ Begins(R!Contents(r), Cat(a, b), en)
    BY <1>3
  <2>2. Len(BytesOf(a, en)) <= R!Used(r)
    BY <1>2, <1>3
  <2>3. R!MsgSize(r, R!Forward(r.read, Len(BytesOf(a, en))), en) =
           IF b = <<>> \/ Len(BytesOf(a, en)) + (Len(Head(b)) + en) > R!Used(r)
           THEN 0 ELSE Len(Head(b)) + en
    BY ONLY <2>1, <2>2, en \in Nat \ {0}, RP!Sound(r), a \in Messages, b \in Messages, SizeThere
  <2> QED BY <1>2, <1>3, <2>3, ReceiveSame
<1>4. ASSUME NEW s \in B
      PROVE  /\ RP!MsgSize(r, RP!Forward(r.read, s), en) \in Nat
             /\ s + RP!MsgSize(r, RP!Forward(r.read, s), en) \in B
  <2>1. PICK a \in Messages, b \in Messages : s \in 0..u /\ Splits(a, b, s)
    BY <1>2, <1>4
  <2>2. PICK size : size = RP!MsgSize(r, RP!Forward(r.read, s), en)
    OBVIOUS
  <2>3. size = IF b = <<>> \/ s + (Len(Head(b)) + en) > u THEN 0 ELSE Len(Head(b)) + en
    BY <1>3, <2>1, <2>2
  <2>4. CASE size = 0
    <3>1. s + 0 = s
      BY <2>1
    <3> HIDE DEF B
    <3> QED BY <1>4, <2>2, <2>4, <3>1
  <2>5. CASE size # 0
    <3>1. b # <<>> /\ ~(s + (Len(Head(b)) + en) > u) /\ size = Len(Head(b)) + en
      BY <2>3, <2>5
    <3>2. PICK m \in Bytes, z \in Messages, e \in Messages, n \in Nat :
            /\ m = Head(b) /\ z = Tail(b) /\ n = Len(m) /\ e = Cat(a, <<m>>) /\ Cat(a, b) = Cat(e, z)
            /\ Len(BytesOf(e, en)) = Len(BytesOf(a, en)) + (n + en)
      <4>1. Len(Head(b)) \in Nat
        BY <3>1, FirstMessage, CatBytes
      <4>2. /\ Head(b) \in Bytes /\ Tail(b) \in Messages /\ Cat(a, <<Head(b)>>) \in Messages
            /\ Cat(a, b) = Cat(Cat(a, <<Head(b)>>), Tail(b))
            /\ Len(BytesOf(Cat(a, <<Head(b)>>), en)) = Len(BytesOf(a, en)) + (Len(Head(b)) + en)
        <5>1. b # <<>>
          BY <3>1
        <5>2. Head(b) \in Bytes /\ Tail(b) \in Messages
          BY <5>1, FirstMessage
        <5>3. Cat(a, <<Head(b)>>) \in Messages
          BY <1>1, <5>1, NextMessage
        <5>4. Cat(a, b) = Cat(Cat(a, <<Head(b)>>), Tail(b))
          BY <1>1, <5>1, NextMessage
        <5>5. Len(BytesOf(Cat(a, <<Head(b)>>), en)) = Len(BytesOf(a, en)) + (Len(Head(b)) + en)
          <6>1. BytesOf(Cat(a, <<Head(b)>>), en) = Cat(BytesOf(a, en), S!Encoded(Head(b), en))
            BY <1>1, <5>1, NextMessage
          <6>2. BytesOf(a, en) \in Bytes
            BY <1>1, BytesOfBoth
          <6>3. S!Encoded(Head(b), en) \in Bytes /\ Len(S!Encoded(Head(b), en)) = Len(Head(b)) + en
            BY <1>1, <5>2, EncodedIs
          <6>4. PICK p \in Bytes, x \in Bytes : p = BytesOf(a, en) /\ x = S!Encoded(Head(b), en)
            BY ONLY <6>2, <6>3
          <6>5. Len(Cat(p, x)) = Len(p) + Len(x)
            BY CatBytes
          <6> QED BY ONLY <6>1, <6>3, <6>4, <6>5
        <5> QED BY ONLY <5>2, <5>3, <5>4, <5>5
      <4> QED BY ONLY <4>1, <4>2
    <3>3. size \in Nat /\ s + size \in 0..u
      BY <1>1, <2>1, <3>1, <3>2
    <3>4. Splits(e, z, s + size)
      BY <2>1, <3>1, <3>2
    <3>5. s + size \in B
      BY <1>2, <3>3, <3>4
    <3> QED BY <2>2, <3>3, <3>5
  <2> QED BY <2>4, <2>5
<1>5. PICK s0 \in B : s0 = Len(BytesOf(a0, en))
  <2>1. Len(BytesOf(a0, en)) \in 0..u
    <3>1. Len(BytesOf(a0, en)) \in Nat /\ Len(BytesOf(a0, en)) <= u
      BY <1>1, <1>2, BytesOfBoth, CatBytes
    <3> QED BY ONLY <3>1, u \in Nat
  <2>2. Splits(a0, b0, Len(BytesOf(a0, en)))
    OBVIOUS
  <2> QED BY <1>2, <2>1, <2>2
<1>6. B \in SUBSET (0..RP!Used(r))
  OBVIOUS
<1>7. PICK s \in B : /\ RP!Recognised(r, RP!Forward(r.read, s0), en) = RP!Forward(r.read, s)
                     /\ RP!MsgSize(r, RP!Forward(r.read, s), en) = 0
  <2> HIDE DEF B
  <2>1. PICK at \in SUBSET (0..RP!Used(r)) : at = B
    BY ONLY <1>6
  <2>2. \A s \in at : /\ RP!MsgSize(r, RP!Forward(r.read, s), en) \in Nat
                      /\ s + RP!MsgSize(r, RP!Forward(r.read, s), en) \in at
    BY ONLY <1>4, <2>1
  <2>3. s0 \in at
    BY ONLY <1>5, <2>1
  <2>4. RP!Sizes
    BY BothSizes
  <2>5. \E s \in at : /\ RP!Recognised(r, RP!Forward(r.read, s0), en) = RP!Forward(r.read, s)
                      /\ RP!MsgSize(r, RP!Forward(r.read, s), en) = 0
    BY ONLY <2>2, <2>3, <2>4, RP!Sound(r), RP!RecognisedStops
  <2> QED BY ONLY <2>1, <2>5
<1>8. PICK a \in Messages, b \in Messages : s \in 0..u /\ Splits(a, b, s)
  BY <1>2, <1>7
<1>9. b = <<>> \/ s + (Len(Head(b)) + en) > u
  <2> SUFFICES ASSUME b # <<>>, ~(s + (Len(Head(b)) + en) > u) PROVE FALSE
    OBVIOUS
  <2>1. Len(Head(b)) + en = 0
    BY <1>3, <1>7, <1>8
  <2>2. Len(Head(b)) \in Nat
    BY FirstMessage, CatBytes
  <2> QED BY ONLY <2>1, <2>2, en \in Nat \ {0}
<1> HIDE DEF B
<1>10. PICK c : c = R!Recognised(r, R!Forward(r.read, Len(BytesOf(a0, en))), en)
  OBVIOUS
<1>11. c = R!Forward(r.read, s) /\ R!MsgSize(r, c, en) = 0
  BY <1>5, <1>7, <1>10, ReceiveSame
<1>12. IsCut(r, c, a, b, en)
  BY <1>2, <1>8, <1>9, <1>11 DEF IsCut
<1> QED BY <1>8, <1>10, <1>11, <1>12 DEF Recognises

(* A message that is read from version A is the first one, and what remains *)
(* of buffer, messages and recognised messages is the same without it.     *)
LEMMA ReadingA ==
  ASSUME NEW en \in Nat \ {0}, NEW r, RP!Sound(r), NEW msgs \in Messages, AllFit(msgs, en),
         Begins(R!Contents(r), msgs, en), NEW check, Recognises(r, check, msgs, en),
         NEW size, size = R!MsgSize(r, r.read, en), size > 0
  PROVE  LET s == R!Skipped(r, size)
         IN  /\ msgs # <<>> /\ R!BytesFrom(r, R!Forward(r.read, en), size - en) = Head(msgs)
             /\ RP!Sound(s) /\ Recognises(s, check, Tail(msgs), en)
             /\ \A rest \in Bytes : Cat(R!Contents(r), rest) = BytesOf(msgs, en)
                                    => Cat(R!Contents(s), rest) = BytesOf(Tail(msgs), en)
<1>1. en \in Nat
  OBVIOUS
<1>2. PICK u \in Nat : u = R!Used(r)
  BY ReceiveRing
<1>3. /\ <<>> \in Messages /\ <<>> \in Bytes /\ Cat(<<>>, msgs) = msgs
      /\ BytesOf(<<>>, en) = <<>> /\ Len(<<>>) = 0
  BY <1>1, CatMessages, CatBytes, BytesOfSmall
<1>4. size = IF msgs = <<>> \/ 0 + (Len(Head(msgs)) + en) > u THEN 0 ELSE Len(Head(msgs)) + en
  <2>1. PICK a \in Messages : a = <<>> /\ Cat(a, msgs) = msgs /\ Len(BytesOf(a, en)) = 0
    BY <1>3
  <2>2. AllFit(Cat(a, msgs), en) /\ Begins(R!Contents(r), Cat(a, msgs), en)
        /\ Len(BytesOf(a, en)) <= R!Used(r)
    BY <1>2, <2>1
  <2>3. R!MsgSize(r, R!Forward(r.read, Len(BytesOf(a, en))), en) =
           IF msgs = <<>> \/ Len(BytesOf(a, en)) + (Len(Head(msgs)) + en) > R!Used(r)
           THEN 0 ELSE Len(Head(msgs)) + en
    BY ONLY <2>2, en \in Nat \ {0}, RP!Sound(r), a \in Messages, msgs \in Messages, SizeThere
  <2>4. r.read = R!Forward(r.read, 0)
    BY ReceiveRing
  <2> QED BY ONLY <1>2, <2>1, <2>3, <2>4, size = R!MsgSize(r, r.read, en)
<1>5. PICK m \in Bytes, t \in Messages, n \in Nat :
        /\ msgs # <<>> /\ m = Head(msgs) /\ t = Tail(msgs) /\ n = Len(m) /\ size = n + en
        /\ size \in Nat /\ size <= u
  <2>1. msgs # <<>> /\ ~(0 + (Len(Head(msgs)) + en) > u) /\ size = Len(Head(msgs)) + en
    BY <1>4
  <2>2. Head(msgs) \in Bytes /\ Tail(msgs) \in Messages
    BY <2>1, FirstMessage
  <2>3. Len(Head(msgs)) \in Nat
    BY <2>2, CatBytes
  <2>4. size \in Nat /\ size <= u
    BY ONLY <1>1, <1>2, <2>1, <2>3
  <2> QED BY ONLY <2>1, <2>2, <2>3, <2>4
<1>6. PICK a \in Messages, b \in Messages : msgs = Cat(a, b) /\ IsCut(r, check, a, b, en)
  BY DEF Recognises
<1>7. a # <<>>
  <2> SUFFICES ASSUME a = <<>> PROVE FALSE
    OBVIOUS
  <2>1. b = msgs
    BY <1>6, CatMessages
  <2>2. Len(BytesOf(a, en)) + (Len(Head(b)) + en) > R!Used(r) /\ Len(BytesOf(a, en)) = 0
    BY <1>3, <1>5, <1>6, <2>1 DEF IsCut
  <2>3. 0 + (n + en) > u
    BY <1>2, <1>5, <2>1, <2>2
  <2> QED BY ONLY <1>1, <1>5, <2>3, u \in Nat
<1>8. PICK a1 \in Messages, e \in Messages : e = <<m>> /\ a = Cat(e, a1) /\ t = Cat(a1, b)
  <2>1. PICK h \in Bytes, a1 \in Messages : a = Cat(<<h>>, a1)
    BY <1>7, FirstMessage
  <2>2. PICK e \in Messages : e = <<h>>
    BY OneMessage
  <2>3. Cat(Cat(e, a1), b) = Cat(e, Cat(a1, b)) /\ Cat(a1, b) \in Messages
    BY CatMessages
  <2>4. msgs = Cat(<<h>>, Cat(a1, b))
    BY ONLY <1>6, <2>1, <2>2, <2>3
  <2>5. Head(Cat(<<h>>, Cat(a1, b))) = h /\ Tail(Cat(<<h>>, Cat(a1, b))) = Cat(a1, b)
    BY <2>3, FirstThen
  <2> QED BY ONLY <1>5, <2>1, <2>2, <2>4, <2>5
<1>9. PICK x \in Bytes, p \in Bytes, q \in Bytes, h \in Bytes, k \in Nat :
        /\ x = S!Encoded(m, en) /\ Len(x) = size /\ p = BytesOf(a1, en) /\ q = BytesOf(t, en)
        /\ x = Cat(h, m) /\ Len(h) = en /\ k = Len(p)
        /\ BytesOf(msgs, en) = Cat(x, q) /\ Len(BytesOf(a, en)) = size + k
  <2>1. BytesOf(a1, en) \in Bytes /\ BytesOf(t, en) \in Bytes
    BY <1>1, BytesOfBoth
  <2>2. /\ S!Encoded(m, en) \in Bytes
        /\ S!Encoded(m, en) = Cat(S!Header(Len(m) + en, en), m)
        /\ S!Header(Len(m) + en, en) \in Bytes /\ Len(S!Header(Len(m) + en, en)) = en
        /\ Len(S!Encoded(m, en)) = Len(m) + en
    BY <1>1, EncodedIs
  <2>3. BytesOf(msgs, en) = Cat(S!Encoded(m, en), BytesOf(t, en))
    BY <1>1, <1>5, NextMessage
  <2>4. BytesOf(a, en) = Cat(S!Encoded(m, en), BytesOf(a1, en))
    <3>1. BytesOf(Cat(e, a1), en) = Cat(BytesOf(e, en), BytesOf(a1, en))
      BY <1>1, BytesOfBoth
    <3>2. BytesOf(e, en) = S!Encoded(m, en)
      BY <1>1, <1>8, BytesOfSmall
    <3> QED BY ONLY <1>8, <3>1, <3>2
  <2>5. PICK x \in Bytes, p \in Bytes : x = S!Encoded(m, en) /\ p = BytesOf(a1, en)
    BY <2>1, <2>2
  <2>6. Len(Cat(x, p)) = Len(x) + Len(p) /\ Len(p) \in Nat
    BY CatBytes
  <2>7. Len(BytesOf(a, en)) = size + Len(p) /\ Len(x) = size
    BY ONLY <1>5, <2>2, <2>4, <2>5, <2>6
  <2> QED BY ONLY <2>1, <2>2, <2>3, <2>5, <2>6, <2>7
<1>10. PICK s : /\ s = R!Skipped(r, size) /\ RP!Sound(s) /\ s.read = R!Forward(r.read, size)
               /\ R!Used(s) = u - size
               /\ \E y \in Bytes : Len(y) = size /\ R!Contents(r) = Cat(y, R!Contents(s))
  BY <1>2, <1>5, Reads
<1>11. PICK y \in Bytes, c \in Bytes :
         Len(y) = size /\ c = R!Contents(s) /\ R!Contents(r) = Cat(y, c)
  BY <1>10, ReceiveRing
<1>12. ASSUME NEW rest \in Bytes, Cat(R!Contents(r), rest) = BytesOf(msgs, en)
       PROVE  y = x /\ Cat(c, rest) = q
  <2>1. Cat(Cat(y, c), rest) = Cat(y, Cat(c, rest)) /\ Cat(c, rest) \in Bytes
    BY CatBytes
  <2>2. Cat(y, Cat(c, rest)) = Cat(x, q) /\ Len(x) = Len(y)
    BY ONLY <1>9, <1>11, <1>12, <2>1
  <2> QED BY ONLY <2>1, <2>2, x \in Bytes, y \in Bytes, q \in Bytes, SameFront
<1>13. y = x
  BY <1>12 DEF Begins
<1>14. IsCut(s, check, a1, b, en)
  <2>1. size + k <= u /\ check = R!Forward(r.read, size + k)
        /\ (b # <<>> => (size + k) + (Len(Head(b)) + en) > u)
    BY <1>2, <1>6, <1>9 DEF IsCut
  <2>2. size \in Nat /\ size + k <= u
    BY ONLY <1>5, <2>1
  <2>3. k <= u - size
    BY ONLY <2>2, k \in Nat, u \in Nat
  <2>4. R!Forward(r.read, size + k) = R!Forward(s.read, k)
    <3>1. r.read \in RP!Position
      BY BothSizes, RP!SoundFacts
    <3>2. RP!Forward(RP!Forward(r.read, size), k) = RP!Forward(r.read, size + k)
      BY ONLY <2>2, <3>1, k \in Nat, BothSizes, RP!ForwardTwice
    <3> QED BY ONLY <1>10, <3>2, ReceiveSame
  <2>5. b # <<>> => k + (Len(Head(b)) + en) > u - size
    <3> SUFFICES ASSUME b # <<>> PROVE k + (Len(Head(b)) + en) > u - size
      OBVIOUS
    <3>1. PICK l \in Nat : l = Len(Head(b))
      BY FirstMessage, CatBytes
    <3>2. (size + k) + (l + en) > u
      BY ONLY <2>1, <3>1, b # <<>>
    <3>3. k + (l + en) > u - size
      BY ONLY <1>1, <2>2, <3>2, k \in Nat, u \in Nat
    <3> QED BY ONLY <3>1, <3>3
  <2> QED BY <1>9, <1>10, <2>1, <2>3, <2>4, <2>5 DEF IsCut
<1>15. R!BytesFrom(r, R!Forward(r.read, en), size - en) = m
  <2>1. size - en = n /\ en + n <= u /\ u = RP!Used(r)
    <3>1. u = RP!Used(r)
      BY <1>2, ReceiveSame
    <3> QED BY ONLY <1>1, <1>5, <3>1
  <2>2. RP!BytesFrom(r, RP!Forward(r.read, en), n) = SubSeq(RP!Contents(r), en + 1, en + n)
    BY ONLY <1>1, <2>1, n \in Nat, RP!Sound(r), BothSizes, RP!BytesAt
  <2>3. R!Contents(r) = Cat(h, Cat(m, c))
    <3>1. Cat(Cat(h, m), c) = Cat(h, Cat(m, c))
      BY CatBytes
    <3> QED BY ONLY <1>9, <1>11, <1>13, <3>1
  <2>4. SubSeq(Cat(h, Cat(m, c)), Len(h) + 1, Len(h) + Len(m)) = m
    BY Middle
  <2>5. SubSeq(R!Contents(r), en + 1, en + n) = m
    BY ONLY <1>5, <1>9, <2>3, <2>4
  <2> QED BY ONLY <2>1, <2>2, <2>5, ReceiveSame
<1>16. Recognises(s, check, t, en)
  BY ONLY <1>8, <1>14, b \in Messages, a1 \in Messages DEF Recognises
<1> QED BY ONLY <1>5, <1>9, <1>10, <1>11, <1>12, <1>15, <1>16

-----------------------------------------------------------------------------
(* How many there are in a queue of n. *)
IsCount(n, w, r, c) == c = (w + n - r) % (2 * n)

(* The places of a queue of n: positions run to 2 * n, the read position is *)
(* n ahead of the write position when there is nothing.                    *)
LEMMA QueueCount ==
  ASSUME NEW n \in Nat \ {0}, NEW w \in 0..(2 * n - 1), NEW r \in 0..(2 * n - 1),
         NEW c, IsCount(n, w, r, c)
  PROVE  /\ c \in 0..(2 * n - 1) /\ w % n = (r + c) % n
         /\ w = r <=> c = n
         /\ (w + n) % (2 * n) = r <=> c = 0
<1>1. PICK l \in Nat \ {0} : l = 2 * n
  OBVIOUS
<1>2. w \in Nat /\ r \in Nat /\ w < l /\ r < l /\ w \in 0..(l - 1) /\ r \in 0..(l - 1)
  BY <1>1
<1>3. PICK x \in Int : x = w + n - r
  BY <1>2
<1>4. PICK q \in Int : x = (l * q) + c /\ c \in 0..(l - 1)
  <2>1. x \div l \in Int /\ x % l \in 0..(l - 1) /\ x = (l * (x \div l)) + (x % l)
    BY ONLY x \in Int, l \in Nat \ {0}
  <2>2. c = x % l
    BY <1>1, <1>3 DEF IsCount
  <2> QED BY ONLY <2>1, <2>2
<1>5. PICK d \in Nat, e \in 0..(n - 1) : w = (n * d) + e /\ e = w % n
  BY <1>2, DivMod
<1>6. w % n = (r + c) % n
  <2>1. PICK p \in Int : p = (d - 2 * q) + 1
    BY ONLY d \in Nat, q \in Int
  <2>2. n * p = ((n * d) - (l * q)) + n /\ n * d \in Int /\ l * q \in Int /\ n * p \in Int
    BY ONLY <1>1, <2>1, n \in Nat \ {0}, d \in Nat, q \in Int, Z3
  <2>3. r + c = (n * p) + e /\ r + c \in Int
    BY ONLY <1>2, <1>3, <1>4, <1>5, <2>2, n \in Nat \ {0}, e \in 0..(n - 1)
  <2>4. (r + c) % n = e
    BY ONLY <2>3, p \in Int, e \in 0..(n - 1), n \in Nat \ {0}, DivModUnique
  <2> QED BY ONLY <1>5, <2>4
<1>7. w = r <=> c = n
  <2>1. ASSUME w = r PROVE c = n
    <3>1. x = (l * 0) + n /\ n \in 0..(l - 1)
      BY ONLY <1>1, <1>2, <1>3, <2>1, n \in Nat \ {0}
    <3>2. x % l = n
      BY ONLY <3>1, x \in Int, l \in Nat \ {0}, 0 \in Int, DivModUnique
    <3> QED BY <1>1, <1>3, <3>2 DEF IsCount
  <2>2. ASSUME c = n PROVE w = r
    <3>1. w - r = l * q /\ l * q \in Int
      <4>1. l * q \in Int
        BY ONLY l \in Nat \ {0}, q \in Int, Z3
      <4> QED BY ONLY <1>2, <1>3, <1>4, <2>2, <4>1, n \in Nat \ {0}
    <3>2. q = 0
      <4>1. q >= 1 => l * q >= l
        BY ONLY l \in Nat \ {0}, q \in Int, Z3
      <4>2. q <= -1 => l * q <= 0 - l
        BY ONLY l \in Nat \ {0}, q \in Int, Z3
      <4>3. w - r < l /\ w - r > 0 - l
        BY ONLY <1>2, l \in Nat \ {0}
      <4> QED BY ONLY <3>1, <4>1, <4>2, <4>3, q \in Int, l \in Nat \ {0}
    <3>3. l * q = 0
      BY ONLY <3>2, l \in Nat \ {0}
    <3> QED BY ONLY <1>2, <3>1, <3>3
  <2> QED BY ONLY <2>1, <2>2
<1>8. (w + n) % l = r <=> c = 0
  <2>1. PICK g \in Int, f \in 0..(l - 1) : w + n = (l * g) + f /\ f = (w + n) % l
    <3>1. w + n \in Nat
      BY <1>2
    <3>2. /\ w + n = (l * ((w + n) \div l)) + ((w + n) % l)
          /\ (w + n) \div l \in Nat /\ (w + n) % l \in 0..(l - 1)
      BY ONLY <3>1, l \in Nat \ {0}, DivMod
    <3> QED BY ONLY <3>2
  <2>2. ASSUME f = r PROVE c = 0
    <3>1. x = (l * g) + 0 /\ 0 \in 0..(l - 1)
      <4>1. l * g \in Int
        BY ONLY l \in Nat \ {0}, g \in Int, Z3
      <4> QED BY ONLY <1>2, <1>3, <2>1, <2>2, <4>1, n \in Nat \ {0}, l \in Nat \ {0}
    <3>2. x % l = 0
      BY ONLY <3>1, x \in Int, l \in Nat \ {0}, g \in Int, DivModUnique
    <3> QED BY <1>1, <1>3, <3>2 DEF IsCount
  <2>3. ASSUME c = 0 PROVE f = r
    <3>1. w + n = (l * q) + r /\ w + n \in Int
      <4>1. l * q \in Int
        BY ONLY l \in Nat \ {0}, q \in Int, Z3
      <4> QED BY ONLY <1>2, <1>3, <1>4, <2>3, <4>1, n \in Nat \ {0}
    <3>2. (w + n) % l = r
      BY ONLY <1>2, <3>1, l \in Nat \ {0}, q \in Int, DivModUnique
    <3> QED BY <2>1, <3>2
  <2> QED BY ONLY <2>1, <2>2, <2>3
<1> QED BY <1>1, <1>4, <1>6, <1>7, <1>8

(* One position further: the count changes by one, and the places behind    *)
(* the read position are those behind the next.                            *)
LEMMA QueueMoves ==
  ASSUME NEW n \in Nat \ {0}, NEW w \in 0..(2 * n - 1), NEW r \in 0..(2 * n - 1),
         NEW c, IsCount(n, w, r, c)
  PROVE  /\ (w + 1) % (2 * n) \in 0..(2 * n - 1) /\ (r + 1) % (2 * n) \in 0..(2 * n - 1)
         /\ c < n => (((w + 1) % (2 * n)) + n - r) % (2 * n) = c + 1
         /\ c > 0 => (w + n - ((r + 1) % (2 * n))) % (2 * n) = c - 1
         /\ \A i \in Nat \ {0} : (((r + 1) % (2 * n)) + i - 1) % n = (r + (i + 1) - 1) % n
<1>1. PICK l \in Nat \ {0} : l = 2 * n
  OBVIOUS
<1>2. w \in Nat /\ r \in Nat /\ w < l /\ r < l /\ w \in 0..(l - 1) /\ r \in 0..(l - 1)
      /\ w + 1 \in Nat /\ r + 1 \in Nat
  BY <1>1
<1>3. PICK q \in Int : w + n - r = (l * q) + c /\ c \in 0..(l - 1) /\ l * q \in Int
  <2>1. PICK x \in Int : x = w + n - r
    BY <1>2
  <2>2. x \div l \in Int /\ x % l \in 0..(l - 1) /\ x = (l * (x \div l)) + (x % l)
    BY ONLY x \in Int, l \in Nat \ {0}
  <2>3. c = x % l
    BY <1>1, <2>1 DEF IsCount
  <2>4. \A a \in Int : l * a \in Int
    BY ONLY l \in Nat \ {0}, Z3
  <2> QED BY ONLY <2>1, <2>2, <2>3, <2>4
<1>4. PICK d \in Nat, v \in 0..(l - 1) : w + 1 = (l * d) + v /\ v = (w + 1) % l
  BY ONLY <1>2, l \in Nat \ {0}, DivMod
<1>5. PICK g \in Nat, s \in 0..(l - 1) : r + 1 = (l * g) + s /\ s = (r + 1) % l
  BY ONLY <1>2, l \in Nat \ {0}, DivMod
<1>6. ASSUME c < n PROVE (v + n - r) % l = c + 1
  <2>1. PICK p \in Int : p = q - d
    OBVIOUS
  <2>2. l * p = (l * q) - (l * d) /\ l * d \in Int /\ l * p \in Int
    BY ONLY <2>1, l \in Nat \ {0}, d \in Nat, q \in Int, Z3
  <2>3. v + n - r = (l * p) + (c + 1) /\ v + n - r \in Int
    BY ONLY <1>2, <1>3, <1>4, <2>2, n \in Nat \ {0}, v \in 0..(l - 1)
  <2>4. c + 1 \in 0..(l - 1)
    BY ONLY <1>1, <1>3, <1>6, n \in Nat \ {0}
  <2>5. PICK x \in Int, e \in 0..(l - 1) : x = v + n - r /\ e = c + 1
    BY ONLY <2>3, <2>4
  <2>6. x % l = e
    BY ONLY <2>3, <2>5, p \in Int, l \in Nat \ {0}, DivModUnique
  <2> QED BY ONLY <2>5, <2>6
<1>7. ASSUME c > 0 PROVE (w + n - s) % l = c - 1
  <2>1. PICK p \in Int : p = q + g
    OBVIOUS
  <2>2. l * p = (l * q) + (l * g) /\ l * g \in Int /\ l * p \in Int
    BY ONLY <2>1, l \in Nat \ {0}, g \in Nat, q \in Int, Z3
  <2>3. w + n - s = (l * p) + (c - 1) /\ w + n - s \in Int
    BY ONLY <1>2, <1>3, <1>5, <2>2, n \in Nat \ {0}, s \in 0..(l - 1)
  <2>4. c - 1 \in 0..(l - 1)
    BY ONLY <1>1, <1>3, <1>7, n \in Nat \ {0}
  <2>5. PICK x \in Int, e \in 0..(l - 1) : x = w + n - s /\ e = c - 1 /\ x = (l * p) + e
    BY ONLY <2>3, <2>4
  <2>6. x % l = e
    BY ONLY <2>5, p \in Int, l \in Nat \ {0}, DivModUnique
  <2> QED BY ONLY <2>5, <2>6
<1>8. ASSUME NEW i \in Nat \ {0} PROVE (s + i - 1) % n = (r + (i + 1) - 1) % n
  <2>1. PICK a \in Nat, k \in Nat : a = s + i - 1 /\ k = 2 * g
    BY ONLY s \in 0..(l - 1), i \in Nat \ {0}, g \in Nat
  <2>2. l * g = k * n /\ k * n \in Int
    BY ONLY <1>1, <2>1, n \in Nat \ {0}, g \in Nat, Z3
  <2>3. r + (i + 1) - 1 = a + (k * n)
    BY ONLY <1>2, <1>5, <2>1, <2>2, i \in Nat \ {0}, s \in 0..(l - 1)
  <2>4. (a + (k * n)) % n = a % n
    BY DivPlus
  <2> QED BY ONLY <2>1, <2>3, <2>4
<1>9. /\ (w + 1) % (2 * n) \in 0..(2 * n - 1) /\ (r + 1) % (2 * n) \in 0..(2 * n - 1)
      /\ c < n => (((w + 1) % (2 * n)) + n - r) % (2 * n) = c + 1
  BY ONLY <1>1, <1>4, <1>5, <1>6
<1>10. c > 0 => (w + n - ((r + 1) % (2 * n))) % (2 * n) = c - 1
  BY ONLY <1>1, <1>5, <1>7
<1>11. \A i \in Nat \ {0} : (((r + 1) % (2 * n)) + i - 1) % n = (r + (i + 1) - 1) % n
  BY ONLY <1>1, <1>5, <1>8
<1> QED BY ONLY <1>9, <1>10, <1>11

-----------------------------------------------------------------------------
(* The first of messages that others follow. *)
LEMMA HeadOfCat ==
  ASSUME NEW z \in Messages, NEW y \in Messages, z # <<>>
  PROVE  Cat(z, y) # <<>> /\ Head(Cat(z, y)) = Head(z)
<1>1. PICK m \in Bytes, t \in Messages : m = Head(z) /\ z = Cat(<<m>>, t)
  BY FirstMessage
<1>2. PICK e \in Messages : e = <<m>>
  BY OneMessage
<1>3. Cat(Cat(e, t), y) = Cat(e, Cat(t, y)) /\ Cat(t, y) \in Messages
  BY CatMessages
<1>4. Cat(<<m>>, Cat(t, y)) # <<>> /\ Head(Cat(<<m>>, Cat(t, y))) = m
  BY <1>3, FirstThen
<1> QED BY ONLY <1>1, <1>2, <1>3, <1>4

(* Version A: ring and rest make up the messages on their way, and those    *)
(* that have arrived are recognised.                                       *)
FlowA(b, rest, msgs, en) ==
  /\ b = [ring |-> b.ring, check |-> b.check] /\ RP!Sound(b.ring)
  /\ Cat(R!Contents(b.ring), rest) = BytesOf(msgs, en)
  /\ Recognises(b.ring, b.check, msgs, en)

(* It is so at first, *)
LEMMA EmptyFlowA ==
  ASSUME NEW en \in Nat
  PROVE  FlowA(R!EmptyA, <<>>, <<>>, en)
<1>1. R!EmptyA.ring = R!Empty /\ R!EmptyA.check = R!Capacity
      /\ R!EmptyA = [ring |-> R!EmptyA.ring, check |-> R!EmptyA.check]
  BY DEF R!EmptyA
<1>2. /\ <<>> \in Messages /\ <<>> \in Bytes /\ Cat(<<>>, <<>>) = <<>>
      /\ BytesOf(<<>>, en) = <<>> /\ Len(<<>>) = 0
  BY CatMessages, CatBytes, BytesOfSmall
<1>3. IsCut(R!Empty, R!Capacity, <<>>, <<>>, en)
  <2>1. Len(BytesOf(<<>>, en)) <= R!Used(R!Empty)
    BY <1>2, ReceiveRing
  <2>2. R!Capacity = R!Forward(R!Empty.read, Len(BytesOf(<<>>, en)))
    BY <1>2, ReceiveRing
  <2> QED BY <2>1, <2>2 DEF IsCut
<1>4. Recognises(R!Empty, R!Capacity, <<>>, en)
  BY ONLY <1>2, <1>3 DEF Recognises
<1>5. RP!Sound(R!Empty) /\ R!Contents(R!Empty) = <<>>
  BY ReceiveRing
<1> QED BY ONLY <1>1, <1>2, <1>4, <1>5 DEF FlowA

(* when a message follows the others, *)
LEMMA AppendFlowA ==
  ASSUME NEW en \in Nat \ {0}, NEW b, NEW rest \in Bytes, NEW msgs \in Messages, NEW m \in Bytes,
         FlowA(b, rest, msgs, en)
  PROVE  FlowA(b, Cat(rest, S!Encoded(m, en)), Append(msgs, m), en)
<1>1. en \in Nat
  OBVIOUS
<1>2. PICK c \in Bytes, u \in Nat : c = R!Contents(b.ring) /\ u = R!Used(b.ring) /\ Len(c) = u
  BY ReceiveRing DEF FlowA
<1>3. PICK e \in Messages, x \in Bytes, k \in Nat, n \in Nat :
        /\ e = <<m>> /\ x = S!Encoded(m, en) /\ n = Len(m)
        /\ BytesOf(e, en) = x /\ Append(msgs, m) = Cat(msgs, e) /\ k = Len(rest)
  <2>1. <<m>> \in Messages /\ BytesOf(<<m>>, en) = S!Encoded(m, en)
    BY <1>1, BytesOfSmall
  <2>2. S!Encoded(m, en) \in Bytes
    BY <1>1, EncodedIs
  <2>3. Append(msgs, m) = Cat(msgs, <<m>>)
    BY AppendIs
  <2>4. Len(rest) \in Nat /\ Len(m) \in Nat
    BY CatBytes
  <2> QED BY ONLY <2>1, <2>2, <2>3, <2>4
<1>4. Cat(c, Cat(rest, x)) = BytesOf(Cat(msgs, e), en)
  <2>1. Cat(Cat(c, rest), x) = Cat(c, Cat(rest, x))
    BY CatBytes
  <2>2. BytesOf(Cat(msgs, e), en) = Cat(BytesOf(msgs, en), BytesOf(e, en))
    BY <1>1, BytesOfBoth
  <2>3. Cat(c, rest) = BytesOf(msgs, en)
    BY <1>2 DEF FlowA
  <2> QED BY ONLY <1>3, <2>1, <2>2, <2>3
<1>5. PICK a \in Messages, z \in Messages :
        msgs = Cat(a, z) /\ IsCut(b.ring, b.check, a, z, en)
  BY DEF FlowA, Recognises
<1>6. Cat(msgs, e) = Cat(a, Cat(z, e)) /\ Cat(z, e) \in Messages
  BY <1>5, CatMessages
<1>7. IsCut(b.ring, b.check, a, Cat(z, e), en)
  <2>1. CASE z = <<>>
    <3>1. Cat(z, e) = e /\ Head(e) = m /\ Cat(a, z) = a
      <4>1. Cat(z, e) = e /\ Cat(a, z) = a
        BY <2>1, CatMessages
      <4>2. Head(e) = m
        BY <1>3, OneMessage
      <4> QED BY <4>1, <4>2
    <3>2. PICK s \in Nat : s = Len(BytesOf(a, en))
      BY <1>1, BytesOfBoth, CatBytes
    <3>3. u <= s
      <4>1. Cat(c, rest) = BytesOf(a, en)
        BY <1>2, <1>5, <3>1 DEF FlowA
      <4>2. Len(Cat(c, rest)) = u + k
        <5>1. Len(Cat(c, rest)) = Len(c) + Len(rest)
          BY CatBytes
        <5> QED BY ONLY <1>2, <1>3, <5>1
      <4> QED BY ONLY <3>2, <4>1, <4>2, u \in Nat, k \in Nat
    <3>4. s + (n + en) > u
      BY ONLY <3>3, en \in Nat \ {0}, s \in Nat, n \in Nat, u \in Nat
    <3> QED BY ONLY <1>2, <1>3, <1>5, <3>1, <3>2, <3>4 DEF IsCut
  <2>2. CASE z # <<>>
    <3>1. Head(Cat(z, e)) = Head(z)
      BY <2>2, HeadOfCat
    <3> QED BY ONLY <1>5, <2>2, <3>1 DEF IsCut
  <2> QED BY <2>1, <2>2
<1>8. Recognises(b.ring, b.check, Append(msgs, m), en)
  BY ONLY <1>3, <1>6, <1>7, a \in Messages DEF Recognises
<1> QED BY ONLY <1>2, <1>3, <1>4, <1>8, FlowA(b, rest, msgs, en) DEF FlowA

(* when bytes arrive, which are never taken for what cannot be a message,   *)
LEMMA ReceiveFlowA ==
  ASSUME NEW en \in Nat \ {0}, NEW b, NEW bytes \in Bytes, NEW rest \in Bytes,
         NEW msgs \in Messages, AllFit(msgs, en), FlowA(b, Cat(bytes, rest), msgs, en),
         bytes # <<>>, Len(bytes) <= R!PreparedA(b)
  PROVE  LET c == R!ConsumedA(b, R!ReceivedA(b, bytes), en)
         IN  FlowA(c, rest, msgs, en) /\ ~R!ConsumeFailsA(c, en)
<1>1. en \in Nat
  OBVIOUS
<1>2. PICK s : /\ s = R!ReceivedA(b, bytes) /\ RP!Sound(s)
               /\ R!Contents(s) = Cat(R!Contents(b.ring), bytes)
               /\ s.read = b.ring.read /\ R!Used(s) = R!Used(b.ring) + Len(bytes)
  BY Receives DEF FlowA
<1>3. PICK o \in Bytes, u \in Nat, k \in Nat :
        o = R!Contents(b.ring) /\ u = R!Used(b.ring) /\ k = Len(bytes)
  BY ReceiveRing, CatBytes DEF FlowA
<1>4. Cat(R!Contents(s), rest) = BytesOf(msgs, en)
  <2>1. Cat(Cat(o, bytes), rest) = Cat(o, Cat(bytes, rest))
    BY CatBytes
  <2> QED BY <1>2, <1>3, <2>1 DEF FlowA
<1>5. PICK a \in Messages, z \in Messages :
        msgs = Cat(a, z) /\ IsCut(b.ring, b.check, a, z, en)
  BY DEF FlowA, Recognises
<1>6. Len(BytesOf(a, en)) <= R!Used(s) /\ b.check = R!Forward(s.read, Len(BytesOf(a, en)))
  <2>1. PICK l \in Nat : l = Len(BytesOf(a, en))
    BY <1>1, BytesOfBoth, CatBytes
  <2>2. l <= u /\ b.check = R!Forward(b.ring.read, l)
    BY <1>3, <1>5, <2>1 DEF IsCut
  <2>3. l <= u + k
    BY ONLY <2>2, l \in Nat, u \in Nat, k \in Nat
  <2> QED BY ONLY <1>2, <1>3, <2>1, <2>2, <2>3
<1>7. Begins(R!Contents(s), msgs, en)
  BY <1>4 DEF Begins
<1>8. PICK c : c = R!Recognised(s, b.check, en) /\ Recognises(s, c, msgs, en) /\ R!MsgSize(s, c, en) = 0
  <2>1. /\ Recognises(s, R!Recognised(s, R!Forward(s.read, Len(BytesOf(a, en))), en), msgs, en)
        /\ R!MsgSize(s, R!Recognised(s, R!Forward(s.read, Len(BytesOf(a, en))), en), en) = 0
    BY <1>2, <1>5, <1>6, <1>7, Recognising
  <2> QED BY ONLY <1>6, <2>1
<1>9. PICK d : d = R!ConsumedA(b, s, en) /\ d = [ring |-> s, check |-> c]
  BY <1>8 DEF R!ConsumedA
<1>10. d.ring = s /\ d.check = c /\ d = [ring |-> d.ring, check |-> d.check]
  BY <1>9
<1>11. FlowA(d, rest, msgs, en)
  BY ONLY <1>2, <1>4, <1>8, <1>10 DEF FlowA
<1>12. ~R!ConsumeFailsA(d, en)
  BY <1>8, <1>10 DEF R!ConsumeFailsA
<1> QED BY ONLY <1>2, <1>9, <1>11, <1>12

(* when a part is allocated, *)
LEMMA AllocateFlowA ==
  ASSUME NEW en, NEW b, NEW rest, NEW msgs, FlowA(b, rest, msgs, en), NEW indices
  PROVE  FlowA([b EXCEPT !.ring = R!Allocated(@, indices)], rest, msgs, en)
<1>1. PICK s : /\ s = R!Allocated(b.ring, indices) /\ RP!Sound(s)
               /\ R!Contents(s) = R!Contents(b.ring)
               /\ s.read = b.ring.read /\ R!Used(s) = R!Used(b.ring)
  BY Allocates DEF FlowA
<1>2. PICK d : d = [b EXCEPT !.ring = R!Allocated(@, indices)]
  OBVIOUS
<1>3. d.ring = s /\ d.check = b.check /\ d = [ring |-> d.ring, check |-> d.check]
  BY <1>1, <1>2 DEF FlowA
<1>4. Recognises(s, b.check, msgs, en)
  BY <1>1 DEF FlowA, Recognises, IsCut
<1>5. FlowA(d, rest, msgs, en)
  BY ONLY <1>1, <1>3, <1>4, FlowA(b, rest, msgs, en) DEF FlowA
<1> QED BY ONLY <1>2, <1>5

(* and when a message is read. *)
LEMMA ReadFlowA ==
  ASSUME NEW en \in Nat \ {0}, NEW b, NEW rest \in Bytes, NEW msgs \in Messages, AllFit(msgs, en),
         FlowA(b, rest, msgs, en), R!ReadableA(b, en)
  PROVE  /\ msgs # <<>> /\ R!MessageA(b, en) = Head(msgs)
         /\ FlowA(R!ReadA(b, en), rest, Tail(msgs), en)
<1>1. PICK size : size = R!MsgSize(b.ring, b.ring.read, en) /\ size > 0
  BY DEF R!ReadableA
<1>2. RP!Sound(b.ring) /\ Recognises(b.ring, b.check, msgs, en)
      /\ Cat(R!Contents(b.ring), rest) = BytesOf(msgs, en)
  BY DEF FlowA
<1>3. Begins(R!Contents(b.ring), msgs, en)
  BY <1>2 DEF Begins
<1>4. PICK s : s = R!Skipped(b.ring, size)
  OBVIOUS
<1>5. /\ msgs # <<>> /\ R!BytesFrom(b.ring, R!Forward(b.ring.read, en), size - en) = Head(msgs)
      /\ RP!Sound(s) /\ Recognises(s, b.check, Tail(msgs), en)
      /\ \A x \in Bytes : Cat(R!Contents(b.ring), x) = BytesOf(msgs, en)
                          => Cat(R!Contents(s), x) = BytesOf(Tail(msgs), en)
  BY ONLY <1>1, <1>2, <1>3, <1>4, en \in Nat \ {0}, msgs \in Messages, AllFit(msgs, en), ReadingA
<1>6. PICK d : d = R!ReadA(b, en)
  OBVIOUS
<1>7. d.ring = s /\ d.check = b.check /\ d = [ring |-> d.ring, check |-> d.check]
  BY <1>1, <1>4, <1>6 DEF FlowA, R!ReadA
<1>8. FlowA(d, rest, Tail(msgs), en)
  BY ONLY <1>2, <1>5, <1>7, rest \in Bytes DEF FlowA
<1>9. R!MessageA(b, en) = Head(msgs)
  BY <1>1, <1>5 DEF R!MessageA
<1> QED BY ONLY <1>5, <1>6, <1>8, <1>9

-----------------------------------------------------------------------------
(* Version B: its type, how many messages it holds, and where they are. *)
BufferOf(en) == [lens : [R!PartIndex -> 0..(S!Power(en))],
                 bufs : [R!PartIndex -> {NULL} \cup Bytes],
                 write : 0..(2 * RecvPoolCnt - 1), read : 0..(2 * RecvPoolCnt - 1),
                 check : Nat, head : Bytes]
Held(b) == (b.write + RecvPoolCnt - b.read) % (2 * RecvPoolCnt)
Place(b, i) == (b.read + i - 1) % RecvPoolCnt

(* Where they are. *)
LEMMA Places ==
  ASSUME NEW en, NEW b \in BufferOf(en)
  PROVE  /\ Held(b) \in Nat /\ R!Cur(b) \in R!PartIndex /\ R!Cur(b) = Place(b, Held(b) + 1)
         /\ \A i \in Nat \ {0} : Place(b, i) \in R!PartIndex
         /\ \A i, j \in 1..RecvPoolCnt : Place(b, i) = Place(b, j) => i = j
         /\ b.read % RecvPoolCnt = Place(b, 1)
         /\ b.write = b.read <=> Held(b) = RecvPoolCnt
         /\ R!ReadableB(b) <=> Held(b) # 0
<1>1. PICK n \in Nat \ {0} : n = RecvPoolCnt
  BY StreamAssumption
<1>2. PICK w \in 0..(2 * n - 1), r \in 0..(2 * n - 1) : w = b.write /\ r = b.read
  BY <1>1 DEF BufferOf
<1>3. PICK c : c = Held(b)
  OBVIOUS
<1>4. IsCount(n, w, r, c)
  BY ONLY <1>1, <1>2, <1>3 DEF Held, IsCount
<1>5. /\ c \in 0..(2 * n - 1) /\ w % n = (r + c) % n
      /\ w = r <=> c = n
      /\ (w + n) % (2 * n) = r <=> c = 0
  <2>1. c \in 0..(2 * n - 1)
    BY ONLY <1>4, n \in Nat \ {0}, w \in 0..(2 * n - 1), r \in 0..(2 * n - 1), QueueCount
  <2>2. w % n = (r + c) % n
    BY ONLY <1>4, n \in Nat \ {0}, w \in 0..(2 * n - 1), r \in 0..(2 * n - 1), QueueCount
  <2>3. (w = r <=> c = n) /\ ((w + n) % (2 * n) = r <=> c = 0)
    BY ONLY <1>4, n \in Nat \ {0}, w \in 0..(2 * n - 1), r \in 0..(2 * n - 1), QueueCount
  <2> QED BY ONLY <2>1, <2>2, <2>3
<1>6. w \in Nat /\ r \in Nat /\ c \in Nat /\ R!PartIndex = 0..(n - 1)
  BY <1>1, <1>5 DEF R!PartIndex
<1>7. R!Cur(b) \in R!PartIndex /\ R!Cur(b) = Place(b, Held(b) + 1)
  <2>1. r + (c + 1) - 1 = r + c
    BY ONLY <1>6
  <2>2. w % n \in 0..(n - 1)
    BY ONLY <1>6, n \in Nat \ {0}, DivMod
  <2> QED BY ONLY <1>1, <1>2, <1>3, <1>5, <1>6, <2>1, <2>2 DEF R!Cur, Place
<1>8. ASSUME NEW i \in Nat \ {0} PROVE Place(b, i) \in R!PartIndex
  <2>1. r + i - 1 \in Nat
    BY ONLY <1>6, i \in Nat \ {0}
  <2>2. (r + i - 1) % n \in 0..(n - 1)
    BY ONLY <2>1, n \in Nat \ {0}, DivMod
  <2> QED BY ONLY <1>1, <1>2, <1>6, <2>2 DEF Place
<1>9. ASSUME NEW i \in 1..RecvPoolCnt, NEW j \in 1..RecvPoolCnt, Place(b, i) = Place(b, j)
      PROVE  i = j
  <2>1. PICK x \in Nat, y \in Nat : x = r + i - 1 /\ y = r + j - 1
    BY ONLY <1>1, <1>6, i \in 1..RecvPoolCnt, j \in 1..RecvPoolCnt
  <2>2. x % n = y % n
    BY ONLY <1>1, <1>2, <1>9, <2>1 DEF Place
  <2>3. x < y + n /\ y < x + n
    BY ONLY <1>1, <1>6, <2>1, i \in 1..RecvPoolCnt, j \in 1..RecvPoolCnt
  <2>4. x <= y => x = y
    BY ONLY <2>2, <2>3, n \in Nat \ {0}, x \in Nat, y \in Nat, ModNear
  <2>5. y <= x => x = y
    BY ONLY <2>2, <2>3, n \in Nat \ {0}, x \in Nat, y \in Nat, ModNear
  <2> QED BY ONLY <1>1, <1>6, <2>1, <2>4, <2>5, i \in 1..RecvPoolCnt, j \in 1..RecvPoolCnt
<1>10. b.read % RecvPoolCnt = Place(b, 1)
  <2>1. r + 1 - 1 = r
    BY ONLY <1>6
  <2> QED BY ONLY <1>2, <2>1 DEF Place
<1>11. R!ReadableB(b) <=> Held(b) # 0
  BY ONLY <1>1, <1>2, <1>3, <1>4, <1>5 DEF R!ReadableB
<1> QED BY <1>1, <1>2, <1>3, <1>5, <1>6, <1>7, <1>8, <1>9, <1>10, <1>11

(* What a buffer holds: the messages of a, and the beginning of z. *)
IsFilled(b, a) == /\ Len(a) = Held(b) /\ Held(b) <= RecvPoolCnt
                  /\ \A i \in 1..Len(a) : b.bufs[Place(b, i)] = a[i]
IsArriving(b, z, en) ==
  /\ b.check < en => Len(b.head) = b.check
  /\ b.check > 0 => Held(b) < RecvPoolCnt
  /\ b.check >= en => /\ b.head = <<>> /\ z # <<>> /\ b.lens[R!Cur(b)] = Len(Head(z))
                      /\ b.bufs[R!Cur(b)] \in Bytes
                      /\ Len(b.bufs[R!Cur(b)]) = b.check - en
                      /\ b.check - en < b.lens[R!Cur(b)]
Begun(b, en) == IF b.check < en THEN b.head
                ELSE Cat(S!Header(b.lens[R!Cur(b)] + en, en), b.bufs[R!Cur(b)])
IsQueue(b, all, a, z, en) ==
  IsFilled(b, a) /\ IsArriving(b, z, en) /\ Cat(Begun(b, en), all) = BytesOf(z, en)
FlowB(b, rest, whole, msgs, en) ==
  /\ b \in BufferOf(en)
  /\ \E a, z \in Messages : \E all \in Bytes :
       msgs = Cat(a, z) /\ IsQueue(b, all, a, z, en) /\ (whole => all = rest)

(* Messages that go through a header. *)
AllSendable(msgs, en) ==
  \A i \in 1..Len(msgs) : msgs[i] # <<>> /\ Len(msgs[i]) + en < S!Power(en)

(* A first message behind others is one of all of them. *)
LEMMA NextSendable ==
  ASSUME NEW en \in Nat, NEW a \in Messages, NEW b \in Messages, b # <<>>,
         AllSendable(Cat(a, b), en)
  PROVE  Head(b) \in Bytes /\ Head(b) # <<>> /\ Len(Head(b)) + en < S!Power(en)
<1>1. PICK k \in Nat, n \in Nat : k = Len(a) /\ n = Len(b)
  BY CatMessages
<1>2. IsBehind(Cat(a, b), a, b, k, n)
  BY <1>1, MessagesBehind
<1>3. Head(b) \in Bytes /\ Head(b) = b[1]
  BY FirstMessage
<1>4. n # 0
  BY <1>1, CatMessages
<1>5. k + 1 \in 1..Len(Cat(a, b)) /\ Cat(a, b)[k + 1] = Head(b)
  <2>1. 1 \in 1..n /\ k + 1 \in 1..(k + n)
    BY <1>4
  <2> QED BY ONLY <1>2, <1>3, <2>1 DEF IsBehind
<1> QED BY ONLY <1>3, <1>5, AllSendable(Cat(a, b), en) DEF AllSendable

(* The queue is empty at first, *)
LEMMA EmptyFlowB ==
  ASSUME NEW en \in Nat \ {0}, NEW whole \in BOOLEAN
  PROVE  FlowB(R!EmptyB, <<>>, whole, <<>>, en)
<1>1. en \in Nat
  OBVIOUS
<1>2. PICK n \in Nat \ {0} : n = RecvPoolCnt
  BY StreamAssumption
<1>3. /\ <<>> \in Messages /\ <<>> \in Bytes /\ Len(<<>>) = 0
      /\ BytesOf(<<>>, en) = <<>>
  BY <1>1, CatMessages, CatBytes, BytesOfSmall
<1>4. Cat(<<>>, <<>>) = <<>>
  BY CatMessages
<1>5. PICK b : b = R!EmptyB
  OBVIOUS
<1>6. b.write = 0 /\ b.read = n /\ b.check = 0 /\ b.head = <<>>
  BY ONLY <1>2, <1>5 DEF R!EmptyB
<1>7. b \in BufferOf(en)
  <2>1. 0 \in 0..S!Power(en)
    <3>1. SP!Power(en) \in Nat
      BY <1>1, BothSizes, SP!PowerFacts
    <3> QED BY <3>1, SendSame
  <2>2. 0 \in 0..(2 * n - 1) /\ n \in 0..(2 * n - 1)
    BY ONLY n \in Nat \ {0}
  <2> QED BY <1>2, <1>3, <1>5, <2>1, <2>2 DEF BufferOf, R!EmptyB
<1>8. Held(b) = 0
  <2>1. 0 + n - n = 0 /\ 0 \in 0..(2 * n - 1) /\ 2 * n \in Nat \ {0}
    BY ONLY n \in Nat \ {0}
  <2>2. 0 % (2 * n) = 0
    BY ONLY <2>1, ModSmall
  <2> QED BY ONLY <1>2, <1>6, <2>1, <2>2 DEF Held
<1>9. IsFilled(b, <<>>)
  BY <1>2, <1>3, <1>8 DEF IsFilled
<1>10. IsArriving(b, <<>>, en)
  BY <1>3, <1>6 DEF IsArriving
<1>11. Begun(b, en) = <<>>
  BY <1>6 DEF Begun
<1>12. IsQueue(b, <<>>, <<>>, <<>>, en)
  BY ONLY <1>3, <1>4, <1>9, <1>10, <1>11 DEF IsQueue
<1> QED BY ONLY <1>3, <1>4, <1>5, <1>7, <1>12 DEF FlowB

(* a message may follow the others, *)
LEMMA AppendFlowB ==
  ASSUME NEW en \in Nat \ {0}, NEW b, NEW rest \in Bytes, NEW whole \in BOOLEAN,
         NEW msgs \in Messages, NEW m \in Bytes, FlowB(b, rest, whole, msgs, en)
  PROVE  FlowB(b, Cat(rest, S!Encoded(m, en)), whole, Append(msgs, m), en)
<1>1. en \in Nat
  OBVIOUS
<1>2. PICK a \in Messages, z \in Messages, all \in Bytes :
        msgs = Cat(a, z) /\ IsQueue(b, all, a, z, en) /\ (whole => all = rest)
  BY DEF FlowB
<1>3. PICK e \in Messages, x \in Bytes :
        /\ e = <<m>> /\ x = S!Encoded(m, en)
        /\ BytesOf(e, en) = x /\ Append(msgs, m) = Cat(msgs, e)
  <2>1. <<m>> \in Messages /\ BytesOf(<<m>>, en) = S!Encoded(m, en)
    BY <1>1, BytesOfSmall
  <2>2. S!Encoded(m, en) \in Bytes
    BY <1>1, EncodedIs
  <2>3. Append(msgs, m) = Cat(msgs, <<m>>)
    BY AppendIs
  <2> QED BY ONLY <2>1, <2>2, <2>3
<1>4. Cat(msgs, e) = Cat(a, Cat(z, e)) /\ Cat(z, e) \in Messages /\ Cat(all, x) \in Bytes
  BY <1>2, CatMessages, CatBytes
<1>5. Cat(Begun(b, en), Cat(all, x)) = BytesOf(Cat(z, e), en)
  <2>1. Begun(b, en) \in Bytes
    <3>1. b \in BufferOf(en)
      BY DEF FlowB
    <3>2. CASE b.check < en
      <4>1. b.head \in Bytes
        BY <3>1 DEF BufferOf
      <4> QED BY <3>2, <4>1 DEF Begun
    <3>3. CASE ~(b.check < en)
      <4>1. b.check >= en
        BY ONLY <1>1, <3>1, <3>3 DEF BufferOf
      <4>2. z # <<>> /\ b.lens[R!Cur(b)] = Len(Head(z)) /\ b.bufs[R!Cur(b)] \in Bytes
        BY <1>2, <4>1 DEF IsQueue, IsArriving
      <4>3. Head(z) \in Bytes
        BY <4>2, FirstMessage
      <4>4. S!Header(Len(Head(z)) + en, en) \in Bytes
        BY <1>1, <4>3, EncodedIs
      <4> QED BY <3>3, <4>2, <4>4, CatBytes DEF Begun
    <3> QED BY <3>2, <3>3
  <2>2. Cat(Cat(Begun(b, en), all), x) = Cat(Begun(b, en), Cat(all, x))
    BY <2>1, CatBytes
  <2>3. BytesOf(Cat(z, e), en) = Cat(BytesOf(z, en), BytesOf(e, en))
    BY <1>1, BytesOfBoth
  <2> QED BY ONLY <1>2, <1>3, <2>2, <2>3 DEF IsQueue
<1>6. IsArriving(b, Cat(z, e), en)
  <2>1. z # <<>> => Cat(z, e) # <<>> /\ Head(Cat(z, e)) = Head(z)
    BY HeadOfCat
  <2> QED BY <1>2, <2>1 DEF IsQueue, IsArriving
<1>7. IsQueue(b, Cat(all, x), a, Cat(z, e), en)
  BY <1>2, <1>5, <1>6 DEF IsQueue
<1>8. whole => Cat(all, x) = Cat(rest, x)
  BY <1>2
<1> QED BY ONLY <1>3, <1>4, <1>7, <1>8, a \in Messages, FlowB(b, rest, whole, msgs, en) DEF FlowB

(* what follows may be lost, *)
LEMMA LoseFlowB ==
  ASSUME NEW en, NEW b, NEW rest, NEW other, NEW whole, NEW msgs, FlowB(b, rest, whole, msgs, en)
  PROVE  FlowB(b, other, FALSE, msgs, en)
  BY DEF FlowB

(* bytes of a header may arrive, which is never taken for one that cannot   *)
(* be,                                                                     *)
LEMMA HeadFlowB ==
  ASSUME NEW en \in Nat \ {0}, NEW b, NEW bytes \in Bytes, NEW rest \in Bytes,
         NEW msgs \in Messages, AllSendable(msgs, en), FlowB(b, Cat(bytes, rest), TRUE, msgs, en),
         bytes # <<>>, b.check < en, Len(bytes) <= R!PreparedB(b, en)
  PROVE  /\ FlowB(R!ConsumedHead(b, bytes, en), rest, TRUE, msgs, en)
         /\ R!CompletesHead(b, bytes, en) => ~(R!HeadSize(b, bytes) < en)
<1>1. en \in Nat
  OBVIOUS
<1>2. PICK a \in Messages, z \in Messages :
        msgs = Cat(a, z) /\ IsQueue(b, Cat(bytes, rest), a, z, en)
  BY DEF FlowB
<1>3. b \in BufferOf(en)
  BY DEF FlowB
<1>4. PICK k \in Nat, p \in Nat, n \in Nat \ {0}, h \in Bytes :
        /\ k = Len(bytes) /\ p = b.check /\ n = RecvPoolCnt /\ h = b.head /\ p = Len(h)
        /\ Begun(b, en) = h
  <2>1. Len(bytes) \in Nat
    BY CatBytes
  <2>2. b.check \in Nat /\ b.head \in Bytes
    BY <1>3 DEF BufferOf
  <2>3. Len(b.head) = b.check
    BY <1>2 DEF IsQueue, IsArriving
  <2>4. RecvPoolCnt \in Nat \ {0}
    BY StreamAssumption
  <2>5. Begun(b, en) = b.head
    BY DEF Begun
  <2> QED BY ONLY <2>1, <2>2, <2>3, <2>4, <2>5
<1>5. k # 0 /\ p + k <= en /\ Held(b) < n /\ Held(b) \in Nat
  <2>1. k # 0
    BY <1>4, CatBytes
  <2>2. b.write # b.read /\ k <= en - p
    <3>1. ~(p >= en) /\ p < en
      BY ONLY <1>1, <1>4, b.check < en, p \in Nat
    <3>2. b.write = b.read => R!PreparedB(b, en) = 0
      BY DEF R!PreparedB
    <3>3. b.write # b.read => R!PreparedB(b, en) = en - p
      BY ONLY <1>4, <3>1 DEF R!PreparedB
    <3>4. k <= R!PreparedB(b, en)
      BY <1>4
    <3> QED BY ONLY <2>1, <3>2, <3>3, <3>4, k \in Nat
  <2>3. Held(b) \in Nat /\ Held(b) # n
    BY <1>3, <1>4, <2>2, Places
  <2>4. Held(b) <= n
    BY <1>2, <1>4 DEF IsQueue, IsFilled
  <2>5. p + k <= en
    BY ONLY <1>1, <2>2, k \in Nat, p \in Nat
  <2> QED BY ONLY <2>1, <2>3, <2>4, <2>5, n \in Nat \ {0}
<1>6. PICK x \in Bytes : x = Cat(h, bytes) /\ Len(x) = p + k /\ Cat(x, rest) = BytesOf(z, en)
  <2>1. Cat(h, bytes) \in Bytes /\ Len(Cat(h, bytes)) = Len(h) + Len(bytes)
        /\ Cat(Cat(h, bytes), rest) = Cat(h, Cat(bytes, rest))
    BY CatBytes
  <2> QED BY ONLY <1>2, <1>4, <2>1 DEF IsQueue
<1>7. PICK c : c = R!ConsumedHead(b, bytes, en)
  OBVIOUS
<1>8. CASE p + k # en
  <2>1. ~R!CompletesHead(b, bytes, en)
    BY <1>4, <1>8 DEF R!CompletesHead
  <2>2. c = [b EXCEPT !.check = @ + Len(bytes), !.head = @ \o bytes]
    BY <1>7, <2>1 DEF R!ConsumedHead
  <2>3. p + k \in Nat /\ p + k < en
    BY ONLY <1>1, <1>5, <1>8, p \in Nat, k \in Nat
  <2>4. /\ c \in BufferOf(en) /\ c.check = p + k /\ c.head = x /\ c.write = b.write /\ c.read = b.read
        /\ c.bufs = b.bufs /\ c.lens = b.lens
    BY ONLY <1>3, <1>4, <1>6, <2>2, <2>3 DEF BufferOf, Cat
  <2>5. Held(c) = Held(b) /\ \A i : Place(c, i) = Place(b, i)
    BY <2>4 DEF Held, Place
  <2>6. IsFilled(c, a)
    BY <1>2, <2>4, <2>5 DEF IsQueue, IsFilled
  <2>7. IsArriving(c, z, en)
    BY ONLY <1>1, <1>4, <1>5, <1>6, <2>3, <2>4, <2>5 DEF IsArriving
  <2>8. Begun(c, en) = x
    BY ONLY <2>3, <2>4 DEF Begun
  <2>9. IsQueue(c, rest, a, z, en)
    BY ONLY <1>6, <2>6, <2>7, <2>8 DEF IsQueue
  <2>10. FlowB(c, rest, TRUE, msgs, en)
    BY ONLY <1>2, <2>4, <2>9, a \in Messages, z \in Messages, rest \in Bytes DEF FlowB
  <2> QED BY <1>7, <2>1, <2>10
<1>9. CASE p + k = en
  <2>1. z # <<>>
    <3> SUFFICES ASSUME z = <<>> PROVE FALSE
      OBVIOUS
    <3>1. BytesOf(z, en) = <<>>
      BY <1>1, BytesOfSmall, CatBytes
    <3>2. Len(Cat(x, rest)) = Len(x) + Len(rest) /\ Len(rest) \in Nat /\ Len(<<>>) = 0
      BY CatBytes
    <3> QED BY ONLY <1>6, <1>9, <3>1, <3>2, en \in Nat \ {0}
  <2>2. PICK m \in Bytes, l \in Nat \ {0} :
          m = Head(z) /\ l = Len(m) /\ l + en < S!Power(en)
    <3>1. Head(z) \in Bytes /\ Head(z) # <<>> /\ Len(Head(z)) + en < S!Power(en)
      BY <1>1, <1>2, <2>1, NextSendable
    <3>2. Len(Head(z)) \in Nat /\ Len(Head(z)) # 0
      BY <3>1, CatBytes
    <3> QED BY ONLY <3>1, <3>2
  <2>3. x = S!Header(l + en, en)
    <3>1. PICK q \in Bytes : BytesOf(z, en) = Cat(S!Encoded(m, en), q)
      <4>1. BytesOf(z, en) = Cat(S!Encoded(Head(z), en), BytesOf(Tail(z), en))
        BY <1>1, <2>1, NextMessage
      <4>2. BytesOf(Tail(z), en) \in Bytes
        BY <1>1, <2>1, FirstMessage, BytesOfBoth
      <4> QED BY ONLY <2>2, <4>1, <4>2
    <3>2. PICK y \in Bytes : y = S!Header(l + en, en) /\ Len(y) = en /\ S!Encoded(m, en) = Cat(y, m)
      <4>1. /\ S!Encoded(m, en) = Cat(S!Header(Len(m) + en, en), m)
            /\ S!Header(Len(m) + en, en) \in Bytes /\ Len(S!Header(Len(m) + en, en)) = en
        BY <1>1, EncodedIs
      <4> QED BY ONLY <2>2, <4>1
    <3>3. Cat(Cat(y, m), q) = Cat(y, Cat(m, q)) /\ Cat(m, q) \in Bytes
      BY CatBytes
    <3>4. Cat(x, rest) = Cat(y, Cat(m, q)) /\ Len(y) = Len(x)
      BY ONLY <1>6, <1>9, <3>1, <3>2, <3>3
    <3>5. x = y
      BY ONLY <3>3, <3>4, x \in Bytes, y \in Bytes, rest \in Bytes, SameFront
    <3> QED BY <3>2, <3>5
  <2>4. R!CompletesHead(b, bytes, en)
    BY <1>4, <1>9 DEF R!CompletesHead
  <2>5. R!HeadSize(b, bytes) = l + en
    <3>1. RP!Decoded(RP!Header(l + en, en)) = l + en
      <4>1. l + en \in Nat /\ l + en < RP!Power(en)
        BY <1>1, <2>2, ReceiveSame
      <4> QED BY ONLY <1>1, <4>1, BothSizes, RP!DecodedHeader
    <3>2. R!Decoded(x) = l + en
      BY ONLY <2>3, <3>1, ReceiveSame
    <3> QED BY ONLY <1>4, <1>6, <3>2 DEF R!HeadSize, Cat
  <2>6. c = [b EXCEPT !.lens[R!Cur(b)] = l, !.bufs[R!Cur(b)] = <<>>, !.check = en, !.head = <<>>]
    <3>1. R!HeadSize(b, bytes) - en = l
      BY ONLY <1>1, <2>5, l \in Nat \ {0}
    <3> QED BY ONLY <1>7, <2>4, <3>1 DEF R!ConsumedHead
  <2>7. l \in 0..S!Power(en)
    <3>1. S!Power(en) \in Nat
      BY <1>1, BothSizes, SP!PowerFacts, SendSame
    <3> QED BY ONLY <1>1, <2>2, <3>1, l \in Nat \ {0}
  <2>8. PICK i0 \in R!PartIndex : i0 = R!Cur(b)
    BY <1>3, Places
  <2>9. <<>> \in Bytes /\ Len(<<>>) = 0
    BY CatBytes
  <2>10. /\ c \in BufferOf(en) /\ c.check = en /\ c.head = <<>> /\ c.write = b.write /\ c.read = b.read
         /\ c.bufs = [b.bufs EXCEPT ![i0] = <<>>] /\ c.lens = [b.lens EXCEPT ![i0] = l]
    BY ONLY <1>1, <1>3, <2>6, <2>7, <2>8, <2>9 DEF BufferOf
  <2>11. /\ c.bufs[i0] = <<>> /\ c.lens[i0] = l
         /\ \A i \in R!PartIndex : i # i0 => c.bufs[i] = b.bufs[i]
    BY ONLY <1>3, <2>8, <2>10 DEF BufferOf
  <2>12. Held(c) = Held(b) /\ R!Cur(c) = i0 /\ \A i : Place(c, i) = Place(b, i)
    BY ONLY <2>8, <2>10 DEF Held, Place, R!Cur
  <2>13. IsFilled(c, a)
    <3>1. Len(a) = Held(b) /\ Held(b) <= RecvPoolCnt /\ \A i \in 1..Len(a) : b.bufs[Place(b, i)] = a[i]
      BY <1>2 DEF IsQueue, IsFilled
    <3>2. ASSUME NEW i \in 1..Len(a) PROVE c.bufs[Place(c, i)] = a[i]
      <4>1. i \in 1..RecvPoolCnt /\ Held(b) + 1 \in 1..RecvPoolCnt /\ i # Held(b) + 1 /\ i \in Nat \ {0}
        BY ONLY <1>4, <1>5, <3>1, i \in 1..Len(a)
      <4>2. Place(b, i) \in R!PartIndex /\ Place(b, i) # i0
        BY <1>3, <2>8, <4>1, Places
      <4> QED BY ONLY <2>11, <2>12, <3>1, <4>2, i \in 1..Len(a)
    <3> QED BY ONLY <2>12, <3>1, <3>2 DEF IsFilled
  <2>14. IsArriving(c, z, en)
    <3>1. en - en = 0 /\ ~(en < en) /\ 0 < l
      BY ONLY en \in Nat \ {0}, l \in Nat \ {0}
    <3> QED BY ONLY <1>4, <1>5, <2>1, <2>2, <2>9, <2>10, <2>11, <2>12, <3>1 DEF IsArriving
  <2>15. Begun(c, en) = x
    <3>1. Cat(x, <<>>) = x /\ ~(en < en)
      BY <1>1, CatBytes
    <3> QED BY ONLY <2>3, <2>10, <2>11, <2>12, <3>1 DEF Begun
  <2>16. IsQueue(c, rest, a, z, en)
    BY ONLY <1>6, <2>13, <2>14, <2>15 DEF IsQueue
  <2>17. FlowB(c, rest, TRUE, msgs, en)
    BY ONLY <1>2, <2>10, <2>16, a \in Messages, z \in Messages, rest \in Bytes DEF FlowB
  <2>18. ~(R!HeadSize(b, bytes) < en)
    BY ONLY <1>1, <2>5, l \in Nat \ {0}
  <2> QED BY <1>7, <2>17, <2>18
<1> QED BY <1>8, <1>9

(* bytes of a message may arrive, *)
LEMMA BodyFlowB ==
  ASSUME NEW en \in Nat \ {0}, NEW b, NEW bytes \in Bytes, NEW rest \in Bytes,
         NEW msgs \in Messages, FlowB(b, Cat(bytes, rest), TRUE, msgs, en),
         bytes # <<>>, b.check >= en, Len(bytes) <= R!PreparedB(b, en)
  PROVE  FlowB(R!ConsumedBody(b, bytes, en), rest, TRUE, msgs, en)
<1>1. en \in Nat
  OBVIOUS
<1>2. PICK a \in Messages, z \in Messages :
        msgs = Cat(a, z) /\ IsQueue(b, Cat(bytes, rest), a, z, en)
  BY DEF FlowB
<1>3. b \in BufferOf(en)
  BY DEF FlowB
<1>4. PICK k \in Nat, p \in Nat, n \in Nat \ {0}, w \in Bytes, m \in Bytes, t \in Messages, l \in Nat :
        /\ k = Len(bytes) /\ p = b.check /\ n = RecvPoolCnt /\ w = b.bufs[R!Cur(b)]
        /\ z # <<>> /\ m = Head(z) /\ t = Tail(z) /\ l = Len(m) /\ b.lens[R!Cur(b)] = l
        /\ Len(w) = p - en /\ p - en < l /\ b.head = <<>>
  <2>1. Len(bytes) \in Nat
    BY CatBytes
  <2>2. b.check \in Nat
    BY <1>3 DEF BufferOf
  <2>3. RecvPoolCnt \in Nat \ {0}
    BY StreamAssumption
  <2>4. /\ z # <<>> /\ b.lens[R!Cur(b)] = Len(Head(z)) /\ b.bufs[R!Cur(b)] \in Bytes
        /\ Len(b.bufs[R!Cur(b)]) = b.check - en /\ b.check - en < b.lens[R!Cur(b)] /\ b.head = <<>>
    BY <1>2 DEF IsQueue, IsArriving
  <2>5. Head(z) \in Bytes /\ Tail(z) \in Messages
    BY <2>4, FirstMessage
  <2>6. Len(Head(z)) \in Nat
    BY <2>5, CatBytes
  <2> QED BY ONLY <2>1, <2>2, <2>3, <2>4, <2>5, <2>6
<1>5. k # 0 /\ (p - en) + k <= l /\ Held(b) < n /\ Held(b) \in Nat /\ p >= en
  <2>1. k # 0 /\ p >= en
    BY <1>4, CatBytes
  <2>2. b.write # b.read /\ k <= l - (p - en)
    <3>1. ~(p < en) /\ p >= en /\ ~(l <= 0)
      BY ONLY <1>1, <1>4, <2>1, p \in Nat, l \in Nat
    <3>2. b.write = b.read => R!PreparedB(b, en) = 0
      BY DEF R!PreparedB
    <3>3. b.write # b.read => R!PreparedB(b, en) = l - (p - en)
      BY ONLY <1>4, <3>1 DEF R!PreparedB
    <3>4. k <= R!PreparedB(b, en)
      BY <1>4
    <3> QED BY ONLY <2>1, <3>2, <3>3, <3>4, k \in Nat
  <2>3. Held(b) \in Nat /\ Held(b) # n
    BY <1>3, <1>4, <2>2, Places
  <2>4. Held(b) <= n
    BY <1>2, <1>4 DEF IsQueue, IsFilled
  <2>5. (p - en) + k <= l
    BY ONLY <1>1, <2>2, k \in Nat, p \in Nat, l \in Nat
  <2> QED BY ONLY <2>1, <2>3, <2>4, <2>5, n \in Nat \ {0}
<1>6. n = RecvPoolCnt /\ Held(b) < n /\ Held(b) \in Nat
  BY ONLY <1>4, <1>5
<1>7. PICK h \in Bytes, q \in Bytes :
        h = S!Header(l + en, en) /\ q = BytesOf(t, en) /\ BytesOf(z, en) = Cat(Cat(h, m), q)
        /\ S!Encoded(m, en) = Cat(h, m)
  <2>1. BytesOf(z, en) = Cat(S!Encoded(Head(z), en), BytesOf(Tail(z), en))
    BY <1>1, <1>4, NextMessage
  <2>2. BytesOf(t, en) \in Bytes
    BY <1>1, BytesOfBoth
  <2>3. S!Encoded(m, en) = Cat(S!Header(Len(m) + en, en), m) /\ S!Header(Len(m) + en, en) \in Bytes
    BY <1>1, EncodedIs
  <2> QED BY ONLY <1>4, <2>1, <2>2, <2>3
<1>8. PICK x \in Bytes : x = Cat(w, bytes) /\ Len(x) = (p - en) + k /\ Cat(x, rest) = Cat(m, q)
  <2>1. Begun(b, en) = Cat(h, w)
    <3>1. ~(p < en)
      BY ONLY <1>1, <1>5, p \in Nat
    <3> QED BY ONLY <1>4, <1>7, <3>1 DEF Begun
  <2>2. /\ Cat(w, bytes) \in Bytes /\ Len(Cat(w, bytes)) = Len(w) + Len(bytes)
        /\ Cat(Cat(w, bytes), rest) = Cat(w, Cat(bytes, rest)) /\ Cat(bytes, rest) \in Bytes
        /\ Cat(Cat(w, bytes), rest) \in Bytes /\ Cat(m, q) \in Bytes
    <3>1. Cat(w, bytes) \in Bytes /\ Cat(bytes, rest) \in Bytes /\ Cat(m, q) \in Bytes
      BY CatBytes
    <3>2. Cat(Cat(w, bytes), rest) \in Bytes
      BY <3>1, CatBytes
    <3>3. Len(Cat(w, bytes)) = Len(w) + Len(bytes)
      BY CatBytes
    <3>4. Cat(Cat(w, bytes), rest) = Cat(w, Cat(bytes, rest))
      BY CatBytes
    <3> QED BY ONLY <3>1, <3>2, <3>3, <3>4
  <2>3. Cat(Cat(h, w), Cat(bytes, rest)) = Cat(h, Cat(w, Cat(bytes, rest)))
        /\ Cat(Cat(h, m), q) = Cat(h, Cat(m, q))
    BY <2>2, CatBytes
  <2>4. Cat(h, Cat(Cat(w, bytes), rest)) = Cat(h, Cat(m, q))
    BY ONLY <1>2, <1>7, <2>1, <2>2, <2>3 DEF IsQueue
  <2>5. Cat(Cat(w, bytes), rest) = Cat(m, q)
    <3>1. PICK x \in Bytes, y \in Bytes : x = Cat(Cat(w, bytes), rest) /\ y = Cat(m, q)
      BY ONLY <2>2
    <3>2. Cat(h, x) = Cat(h, y) /\ Len(h) = Len(h)
      BY ONLY <2>4, <3>1
    <3>3. x = y
      BY ONLY <3>2, x \in Bytes, y \in Bytes, h \in Bytes, SameFront
    <3> QED BY ONLY <3>1, <3>3
  <2> QED BY ONLY <1>4, <2>2, <2>5
<1>9. PICK i0 \in R!PartIndex : i0 = R!Cur(b)
  BY <1>3, Places
<1>10. R!CompletesBody(b, bytes, en) <=> (p - en) + k = l
  BY ONLY <1>4 DEF R!CompletesBody
<1>11. PICK c : c = R!ConsumedBody(b, bytes, en)
  OBVIOUS
<1>12. CASE (p - en) + k # l
  <2>1. c = [b EXCEPT !.bufs[i0] = x, !.check = p + k, !.write = @]
    BY ONLY <1>4, <1>8, <1>9, <1>10, <1>11, <1>12 DEF R!ConsumedBody, Cat
  <2>2. p + k \in Nat /\ ~(p + k < en) /\ p + k >= en /\ (p + k) - en = (p - en) + k
        /\ (p - en) + k < l
    BY ONLY <1>1, <1>5, <1>12, p \in Nat, k \in Nat, l \in Nat
  <2>3. /\ c \in BufferOf(en) /\ c.check = p + k /\ c.head = b.head /\ c.write = b.write /\ c.read = b.read
        /\ c.bufs = [b.bufs EXCEPT ![i0] = x] /\ c.lens = b.lens
    BY ONLY <1>3, <1>9, <2>1, <2>2, x \in Bytes DEF BufferOf
  <2>4. c.bufs[i0] = x /\ \A i \in R!PartIndex : i # i0 => c.bufs[i] = b.bufs[i]
    BY ONLY <1>3, <1>9, <2>3 DEF BufferOf
  <2>5. Held(c) = Held(b) /\ R!Cur(c) = i0 /\ \A i : Place(c, i) = Place(b, i)
    BY ONLY <1>9, <2>3 DEF Held, Place, R!Cur
  <2>6. IsFilled(c, a)
    <3>1. Len(a) = Held(b) /\ Held(b) <= RecvPoolCnt /\ \A i \in 1..Len(a) : b.bufs[Place(b, i)] = a[i]
      BY <1>2 DEF IsQueue, IsFilled
    <3>2. ASSUME NEW i \in 1..Len(a) PROVE c.bufs[Place(c, i)] = a[i]
      <4>1. i \in 1..RecvPoolCnt /\ Held(b) + 1 \in 1..RecvPoolCnt /\ i # Held(b) + 1 /\ i \in Nat \ {0}
        BY ONLY <1>6, <3>1, i \in 1..Len(a)
      <4>2. Place(b, i) \in R!PartIndex /\ Place(b, i) # i0
        BY <1>3, <1>9, <4>1, Places
      <4> QED BY ONLY <2>4, <2>5, <3>1, <4>2, i \in 1..Len(a)
    <3> QED BY ONLY <2>5, <3>1, <3>2 DEF IsFilled
  <2>7. IsArriving(c, z, en)
    BY ONLY <1>4, <1>5, <1>8, <1>9, <2>2, <2>3, <2>4, <2>5 DEF IsArriving
  <2>8. Begun(c, en) = Cat(h, x)
    BY ONLY <1>4, <1>7, <1>9, <2>2, <2>3, <2>4, <2>5 DEF Begun
  <2>9. Cat(Cat(h, x), rest) = BytesOf(z, en)
    <3>1. Cat(Cat(h, x), rest) = Cat(h, Cat(x, rest)) /\ Cat(Cat(h, m), q) = Cat(h, Cat(m, q))
      BY CatBytes
    <3> QED BY ONLY <1>7, <1>8, <3>1
  <2>10. IsQueue(c, rest, a, z, en)
    BY ONLY <2>6, <2>7, <2>8, <2>9 DEF IsQueue
  <2>11. FlowB(c, rest, TRUE, msgs, en)
    BY ONLY <1>2, <2>3, <2>10, a \in Messages, z \in Messages, rest \in Bytes DEF FlowB
  <2> QED BY <1>11, <2>11
<1>13. CASE (p - en) + k = l
  <2>1. c = [b EXCEPT !.bufs[i0] = x, !.check = 0, !.write = (@ + 1) % (2 * n)]
    BY ONLY <1>4, <1>8, <1>9, <1>10, <1>11, <1>13 DEF R!ConsumedBody, Cat
  <2>2. x = m /\ rest = q
    <3>1. Len(m) = Len(x)
      BY ONLY <1>4, <1>8, <1>13
    <3> QED BY ONLY <1>8, <3>1, m \in Bytes, q \in Bytes, rest \in Bytes, SameFront
  <2>3. PICK v \in 0..(2 * n - 1) :
          v = (b.write + 1) % (2 * n) /\ (v + n - b.read) % (2 * n) = Held(b) + 1
    <3>1. PICK wr \in 0..(2 * n - 1), rd \in 0..(2 * n - 1) : wr = b.write /\ rd = b.read
      BY ONLY <1>3, <1>4 DEF BufferOf
    <3>2. IsCount(n, wr, rd, Held(b))
      BY ONLY <1>4, <3>1 DEF Held, IsCount
    <3>3. (wr + 1) % (2 * n) \in 0..(2 * n - 1)
          /\ (((wr + 1) % (2 * n)) + n - rd) % (2 * n) = Held(b) + 1
      BY ONLY <1>5, <3>2, n \in Nat \ {0}, wr \in 0..(2 * n - 1), rd \in 0..(2 * n - 1), QueueMoves
    <3> QED BY ONLY <3>1, <3>3
  <2>4. /\ c \in BufferOf(en) /\ c.check = 0 /\ c.head = <<>> /\ c.write = v /\ c.read = b.read
        /\ c.bufs = [b.bufs EXCEPT ![i0] = x] /\ c.lens = b.lens
    BY ONLY <1>3, <1>4, <1>9, <2>1, <2>3, x \in Bytes DEF BufferOf
  <2>5. c.bufs[i0] = m /\ \A i \in R!PartIndex : i # i0 => c.bufs[i] = b.bufs[i]
    BY ONLY <1>3, <1>9, <2>2, <2>4 DEF BufferOf
  <2>6. Held(c) = Held(b) + 1 /\ \A i : Place(c, i) = Place(b, i)
    BY ONLY <1>4, <2>3, <2>4 DEF Held, Place
  <2>7. PICK a2 \in Messages : a2 = Append(a, m)
    BY AppendIs
  <2>8. Len(a2) = Len(a) + 1 /\ (\A i \in 1..Len(a) : a2[i] = a[i]) /\ a2[Len(a) + 1] = m
        /\ a2 = Cat(a, <<m>>)
    BY <2>7, AppendIs
  <2>9. IsFilled(c, a2)
    <3>1. Len(a) = Held(b) /\ Held(b) <= RecvPoolCnt /\ \A i \in 1..Len(a) : b.bufs[Place(b, i)] = a[i]
      BY <1>2 DEF IsQueue, IsFilled
    <3>2. ASSUME NEW i \in 1..Len(a2) PROVE c.bufs[Place(c, i)] = a2[i]
      <4>1. CASE i = Held(b) + 1
        <5>1. Place(b, i) = i0
          BY <1>3, <1>9, <4>1, Places
        <5> QED BY ONLY <2>5, <2>6, <2>8, <3>1, <4>1, <5>1
      <4>2. CASE i # Held(b) + 1
        <5>1. /\ i \in 1..RecvPoolCnt /\ Held(b) + 1 \in 1..RecvPoolCnt /\ i \in Nat \ {0}
              /\ i \in 1..Len(a)
          <6>1. i \in 1..(Held(b) + 1)
            BY ONLY <2>8, <3>1, i \in 1..Len(a2)
          <6> QED BY ONLY <1>6, <3>1, <4>2, <6>1
        <5>2. Place(b, i) \in R!PartIndex /\ Place(b, i) # i0
          BY <1>3, <1>9, <4>2, <5>1, Places
        <5> QED BY ONLY <2>5, <2>6, <2>8, <3>1, <5>1, <5>2
      <4> QED BY <4>1, <4>2
    <3>3. Held(b) + 1 <= RecvPoolCnt
      BY ONLY <1>4, <1>5
    <3> QED BY ONLY <2>6, <2>8, <3>1, <3>2, <3>3 DEF IsFilled
  <2>10. IsArriving(c, t, en)
    <3>1. Len(<<>>) = 0 /\ ~(0 > 0) /\ ~(0 >= en)
      BY CatBytes
    <3> QED BY ONLY <2>4, <3>1 DEF IsArriving
  <2>11. Begun(c, en) = <<>>
    <3>1. 0 < en
      OBVIOUS
    <3> QED BY ONLY <2>4, <3>1 DEF Begun
  <2>12. Cat(<<>>, rest) = BytesOf(t, en)
    BY <1>7, <2>2, CatBytes
  <2>13. IsQueue(c, rest, a2, t, en)
    BY ONLY <2>9, <2>10, <2>11, <2>12 DEF IsQueue
  <2>14. msgs = Cat(a2, t)
    BY ONLY <1>1, <1>2, <1>4, <2>8, a \in Messages, z \in Messages, NextMessage
  <2>15. FlowB(c, rest, TRUE, msgs, en)
    BY ONLY <2>4, <2>13, <2>14, a2 \in Messages, t \in Messages, rest \in Bytes DEF FlowB
  <2> QED BY <1>11, <2>15
<1> QED BY <1>12, <1>13

(* and a message may be read. *)
LEMMA ReadFlowB ==
  ASSUME NEW en \in Nat \ {0}, NEW b, NEW rest, NEW whole \in BOOLEAN,
         NEW msgs \in Messages, FlowB(b, rest, whole, msgs, en), R!ReadableB(b)
  PROVE  /\ msgs # <<>> /\ R!MessageB(b) = Head(msgs)
         /\ FlowB(R!ReadB(b), rest, whole, Tail(msgs), en)
<1>1. en \in Nat
  OBVIOUS
<1>2. PICK a \in Messages, z \in Messages, all \in Bytes :
        msgs = Cat(a, z) /\ IsQueue(b, all, a, z, en) /\ (whole => all = rest)
  BY DEF FlowB
<1>3. b \in BufferOf(en)
  BY DEF FlowB
<1>4. PICK n \in Nat \ {0}, u \in Nat \ {0} :
        /\ n = RecvPoolCnt /\ u = Held(b) /\ u <= n /\ Len(a) = u
        /\ \A i \in 1..u : b.bufs[Place(b, i)] = a[i]
  <2>1. RecvPoolCnt \in Nat \ {0}
    BY StreamAssumption
  <2>2. Held(b) \in Nat /\ Held(b) # 0
    BY <1>3, Places
  <2>3. Len(a) = Held(b) /\ Held(b) <= RecvPoolCnt /\ \A i \in 1..Len(a) : b.bufs[Place(b, i)] = a[i]
    BY <1>2 DEF IsQueue, IsFilled
  <2> QED BY ONLY <2>1, <2>2, <2>3
<1>5. PICK i0 \in R!PartIndex : i0 = b.read % n /\ i0 = Place(b, 1)
  BY <1>3, <1>4, Places
<1>6. a # <<>>
  BY <1>4, CatBytes
<1>7. PICK m \in Bytes, a2 \in Messages :
        /\ m = Head(a) /\ a2 = Tail(a) /\ a = Cat(<<m>>, a2) /\ m = a[1] /\ Len(a2) = u - 1
        /\ \A i \in 1..(u - 1) : a2[i] = a[i + 1]
  <2>1. /\ Head(a) \in Bytes /\ Tail(a) \in Messages /\ Len(Tail(a)) = Len(a) - 1
        /\ a = Cat(<<Head(a)>>, Tail(a)) /\ Head(a) = a[1]
        /\ \A i \in 1..(Len(a) - 1) : Tail(a)[i] = a[i + 1]
    BY <1>6, FirstMessage
  <2>2. Len(a) = u
    BY <1>4
  <2> QED BY ONLY <2>1, <2>2
<1>8. msgs # <<>> /\ Head(msgs) = m /\ Tail(msgs) = Cat(a2, z)
  <2>1. PICK e \in Messages : e = <<m>>
    BY OneMessage
  <2>2. Cat(Cat(e, a2), z) = Cat(e, Cat(a2, z)) /\ Cat(a2, z) \in Messages
    BY CatMessages
  <2>3. /\ Cat(<<m>>, Cat(a2, z)) # <<>> /\ Head(Cat(<<m>>, Cat(a2, z))) = m
        /\ Tail(Cat(<<m>>, Cat(a2, z))) = Cat(a2, z)
    BY <2>2, FirstThen
  <2> QED BY ONLY <1>2, <1>7, <2>1, <2>2, <2>3
<1>9. R!MessageB(b) = m
  <2>1. 1 \in 1..u
    OBVIOUS
  <2> QED BY ONLY <1>4, <1>5, <1>7, <2>1 DEF R!MessageB
<1>10. PICK c : c = R!ReadB(b)
  OBVIOUS
<1>11. c = [b EXCEPT !.lens[i0] = 0, !.bufs[i0] = NULL, !.read = (@ + 1) % (2 * n)]
  BY ONLY <1>4, <1>5, <1>10 DEF R!ReadB
<1>12. PICK v \in 0..(2 * n - 1) :
         /\ v = (b.read + 1) % (2 * n) /\ (b.write + n - v) % (2 * n) = u - 1
         /\ \A i \in Nat \ {0} : (v + i - 1) % n = (b.read + (i + 1) - 1) % n
  <2>1. PICK wr \in 0..(2 * n - 1), rd \in 0..(2 * n - 1) : wr = b.write /\ rd = b.read
    BY ONLY <1>3, <1>4 DEF BufferOf
  <2>2. IsCount(n, wr, rd, u)
    BY ONLY <1>4, <2>1 DEF Held, IsCount
  <2>3. u > 0
    OBVIOUS
  <2>4. (rd + 1) % (2 * n) \in 0..(2 * n - 1)
        /\ (wr + n - ((rd + 1) % (2 * n))) % (2 * n) = u - 1
    BY ONLY <2>2, <2>3, n \in Nat \ {0}, wr \in 0..(2 * n - 1), rd \in 0..(2 * n - 1), QueueMoves
  <2>5. \A i \in Nat \ {0} : (((rd + 1) % (2 * n)) + i - 1) % n = (rd + (i + 1) - 1) % n
    BY ONLY <2>2, n \in Nat \ {0}, wr \in 0..(2 * n - 1), rd \in 0..(2 * n - 1), QueueMoves
  <2>6. PICK v \in 0..(2 * n - 1) : v = (rd + 1) % (2 * n)
    BY ONLY <2>4
  <2>7. (wr + n - v) % (2 * n) = u - 1
    BY ONLY <2>4, <2>6
  <2>8. \A i \in Nat \ {0} : (v + i - 1) % n = (rd + (i + 1) - 1) % n
    BY ONLY <2>5, <2>6
  <2> QED BY ONLY <2>1, <2>6, <2>7, <2>8
<1>13. 0 \in 0..S!Power(en)
  <2>1. S!Power(en) \in Nat
    BY <1>1, BothSizes, SP!PowerFacts, SendSame
  <2> QED BY <2>1
<1>14. /\ c \in BufferOf(en) /\ c.check = b.check /\ c.head = b.head /\ c.write = b.write /\ c.read = v
       /\ c.bufs = [b.bufs EXCEPT ![i0] = NULL] /\ c.lens = [b.lens EXCEPT ![i0] = 0]
  BY ONLY <1>3, <1>4, <1>5, <1>11, <1>12, <1>13 DEF BufferOf
<1>15. \A i \in R!PartIndex : i # i0 => c.bufs[i] = b.bufs[i] /\ c.lens[i] = b.lens[i]
  BY ONLY <1>3, <1>5, <1>14 DEF BufferOf
<1>16. Held(c) = u - 1 /\ R!Cur(c) = R!Cur(b) /\ \A i \in Nat \ {0} : Place(c, i) = Place(b, i + 1)
  BY ONLY <1>4, <1>12, <1>14 DEF Held, Place, R!Cur
<1>17. IsFilled(c, a2)
  <2>1. ASSUME NEW i \in 1..(u - 1) PROVE c.bufs[Place(c, i)] = a2[i]
    <3>1. /\ i \in Nat \ {0} /\ i + 1 \in Nat \ {0} /\ i + 1 \in 1..u /\ i + 1 # 1
          /\ i + 1 \in 1..RecvPoolCnt /\ 1 \in 1..RecvPoolCnt
      BY ONLY <1>4, i \in 1..(u - 1)
    <3>2. Place(b, i + 1) \in R!PartIndex /\ Place(b, i + 1) # i0
      BY <1>3, <1>5, <3>1, Places
    <3> QED BY ONLY <1>4, <1>7, <1>15, <1>16, <3>1, <3>2, i \in 1..(u - 1)
  <2>2. u - 1 <= RecvPoolCnt
    BY ONLY <1>4
  <2> QED BY ONLY <1>7, <1>16, <2>1, <2>2 DEF IsFilled
<1>18. b.check > 0 => R!Cur(b) # i0 /\ R!Cur(b) \in R!PartIndex
  <2> SUFFICES ASSUME b.check > 0 PROVE R!Cur(b) # i0 /\ R!Cur(b) \in R!PartIndex
    OBVIOUS
  <2>1. u < n
    BY <1>2, <1>4 DEF IsQueue, IsArriving
  <2>2. u + 1 \in 1..RecvPoolCnt /\ 1 \in 1..RecvPoolCnt /\ u + 1 # 1
    BY ONLY <1>4, <2>1
  <2> QED BY <1>3, <1>4, <1>5, <2>2, Places
<1>19. b.check \in Nat /\ (b.check >= en => b.check > 0) /\ (~(b.check < en) => b.check >= en)
  <2>1. b.check \in Nat
    BY <1>3 DEF BufferOf
  <2> QED BY <2>1
<1>20. b.check >= en => c.lens[R!Cur(b)] = b.lens[R!Cur(b)] /\ c.bufs[R!Cur(b)] = b.bufs[R!Cur(b)]
  BY ONLY <1>15, <1>18, <1>19
<1>21. IsArriving(c, z, en)
  <2>1. u - 1 < RecvPoolCnt
    BY ONLY <1>4
  <2> QED BY ONLY <1>2, <1>14, <1>16, <1>20, <2>1 DEF IsQueue, IsArriving
<1>22. Begun(c, en) = Begun(b, en)
  BY ONLY <1>14, <1>16, <1>19, <1>20 DEF Begun
<1>23. IsQueue(c, all, a2, z, en)
  BY ONLY <1>2, <1>17, <1>21, <1>22 DEF IsQueue
<1>24. FlowB(c, rest, whole, Tail(msgs), en)
  BY ONLY <1>2, <1>8, <1>14, <1>23, a2 \in Messages, z \in Messages, all \in Bytes DEF FlowB
<1> QED BY ONLY <1>8, <1>9, <1>10, <1>24

-----------------------------------------------------------------------------
(* What is on its way behind the receive buffer. *)
Behindhand == Cat(wire, S!Contents(tx))

(* The inductive invariant: both buffers are sound, all that was accepted  *)
(* can be sent, and receive buffer, wire and send buffer make up the       *)
(* messages that were not read, of which those that have arrived are       *)
(* recognised and the next is not complete.                                *)
Sending == SP!Sound(tx) /\ wire \in Bytes
CanBeSent(m, en, v) == /\ m # <<>> /\ Len(m) + en < S!Power(en)
                       /\ v = "buff" => Len(m) + en <= R!Capacity
Accepted == /\ transit \in Messages
            /\ \A i \in 1..Len(transit) : CanBeSent(transit[i], enByte, version)
Receiving ==
  /\ version = "buff" => broken = NULL /\ FlowA(rx, Behindhand, transit, enByte)
  /\ version = "queue" => FlowB(rx, Behindhand, broken = NULL, transit, enByte)
IInv == /\ enByte \in EnBytes /\ version \in Versions
        /\ told \in BOOLEAN /\ broken \in {NULL, "memory"}
        /\ Sending /\ Accepted /\ Receiving

(* What the invariant gives of its parts. *)
LEMMA Parts ==
  ASSUME IInv
  PROVE  /\ enByte \in Nat \ {0} /\ enByte \in Nat /\ version \in {"buff", "queue"}
         /\ S!Contents(tx) \in Bytes /\ Behindhand \in Bytes
         /\ AllSendable(transit, enByte)
         /\ version = "buff" => AllFit(transit, enByte)
<1>1. enByte \in Nat \ {0} /\ version \in {"buff", "queue"}
  BY BothSizes, StreamAssumption DEF IInv
<1>2. S!Contents(tx) \in Bytes
  BY SendBuffer DEF IInv, Sending
<1>3. Behindhand \in Bytes
  BY <1>2, CatBytes DEF IInv, Sending, Behindhand
<1>4. AllSendable(transit, enByte)
  BY DEF IInv, Accepted, CanBeSent, AllSendable
<1>5. version = "buff" => AllFit(transit, enByte)
  BY DEF IInv, Accepted, CanBeSent, AllFit
<1> QED BY <1>1, <1>2, <1>3, <1>4, <1>5

(* It holds at first. *)
LEMMA Starts == Init => IInv
<1> SUFFICES ASSUME Init PROVE IInv
  OBVIOUS
<1>1. /\ enByte \in EnBytes /\ version \in Versions /\ tx = S!Empty /\ wire = <<>>
      /\ told = FALSE /\ broken = NULL /\ transit = <<>>
      /\ rx = IF version = "buff" THEN R!EmptyA ELSE R!EmptyB
  BY DEF Init
<1>2. enByte \in Nat \ {0} /\ enByte \in Nat
  BY <1>1, BothSizes
<1>3. Sending
  BY <1>1, SendBuffer, CatBytes DEF Sending
<1>4. Accepted
  <2>1. <<>> \in Messages /\ Len(<<>>) = 0
    BY CatMessages, CatBytes
  <2> QED BY ONLY <1>1, <2>1 DEF Accepted
<1>5. Behindhand = <<>>
  <2>1. Cat(<<>>, <<>>) = <<>>
    BY CatMessages
  <2> QED BY <1>1, <2>1, SendBuffer DEF Behindhand
<1>6. version = "buff" => FlowA(rx, Behindhand, transit, enByte)
  BY <1>1, <1>2, <1>5, EmptyFlowA
<1>7. version = "queue" => FlowB(rx, Behindhand, broken = NULL, transit, enByte)
  <2> SUFFICES ASSUME version = "queue" PROVE FlowB(rx, Behindhand, broken = NULL, transit, enByte)
    OBVIOUS
  <2>1. rx = R!EmptyB
    BY <1>1
  <2>2. (broken = NULL) \in BOOLEAN
    OBVIOUS
  <2>3. FlowB(R!EmptyB, <<>>, broken = NULL, <<>>, enByte)
    BY ONLY <1>2, <2>2, EmptyFlowB
  <2> QED BY ONLY <1>1, <1>5, <2>1, <2>3
<1>8. Receiving
  BY <1>1, <1>6, <1>7 DEF Receiving
<1> QED BY <1>1, <1>3, <1>4, <1>8 DEF IInv

(* What clients write is bytes. *)
LEMMA MessageBytes ==
  ASSUME NEW n \in Sizes
  PROVE  Message(n) \in Bytes
<1>1. n \in Nat /\ Radix \in Nat \ {0}
  BY StreamAssumption
<1>2. ASSUME NEW i \in 1..n PROVE (n + i) % Radix \in S!Byte
  <2>1. n + i \in Nat
    BY <1>1
  <2>2. (n + i) % Radix \in 0..(Radix - 1)
    BY ONLY <1>1, <2>1, DivMod
  <2> QED BY <2>2, BothSizes
<1>3. Message(n) \in [1..n -> S!Byte]
  BY ONLY <1>2 DEF Message
<1>4. Message(n) \in Seq(S!Byte)
  BY ONLY <1>1, <1>3
<1> QED BY <1>4 DEF Bytes

(* A message that is accepted is behind the others. *)
LEMMA WriteKeeps ==
  ASSUME IInv, NEW m \in Bytes, Sendable(m), Write(m)
  PROVE  IInv'
<1>1. /\ enByte \in Nat \ {0} /\ enByte \in Nat /\ version \in {"buff", "queue"}
      /\ S!Contents(tx) \in Bytes /\ Behindhand \in Bytes
  BY Parts
<1>2. /\ enByte' = enByte /\ version' = version /\ wire' = wire /\ rx' = rx
      /\ told' = told /\ broken' = broken /\ transit' = Append(transit, m)
      /\ tx' = S!Written(tx, m, enByte) /\ S!Accepts(tx, m, enByte)
  BY DEF Write
<1>3. SP!Sound(tx) /\ wire \in Bytes /\ transit \in Messages
  BY DEF IInv, Sending, Accepted
<1>4. SP!Sound(tx') /\ S!Contents(tx') = Cat(S!Contents(tx), S!Encoded(m, enByte))
  BY <1>1, <1>2, <1>3, Writes
<1>5. Sending'
  BY <1>2, <1>3, <1>4 DEF Sending
<1>6. Behindhand' = Cat(Behindhand, S!Encoded(m, enByte))
  <2>1. PICK x \in Bytes, c \in Bytes : x = S!Encoded(m, enByte) /\ c = S!Contents(tx)
    BY <1>1, EncodedIs
  <2>2. Cat(wire, Cat(c, x)) = Cat(Cat(wire, c), x)
    BY <1>3, CatBytes
  <2> QED BY ONLY <1>2, <1>4, <2>1, <2>2 DEF Behindhand
<1>7. Accepted'
  <2>1. /\ Append(transit, m) \in Messages /\ Len(Append(transit, m)) = Len(transit) + 1
        /\ \A i \in 1..Len(transit) : Append(transit, m)[i] = transit[i]
        /\ Append(transit, m)[Len(transit) + 1] = m
    BY <1>3, AppendIs
  <2>2. CanBeSent(m, enByte, version)
    BY DEF Sendable, CanBeSent
  <2>3. ASSUME NEW i \in 1..(Len(transit) + 1)
        PROVE  CanBeSent(Append(transit, m)[i], enByte, version)
    <3>1. CASE i = Len(transit) + 1
      BY <2>1, <2>2, <3>1
    <3>2. CASE i # Len(transit) + 1
      <4>1. PICK l \in Nat : l = Len(transit)
        BY <1>3, CatMessages
      <4>2. i \in 1..l
        BY ONLY <3>2, <4>1, i \in 1..(Len(transit) + 1)
      <4>3. CanBeSent(transit[i], enByte, version)
        BY <4>1, <4>2 DEF IInv, Accepted
      <4> QED BY ONLY <2>1, <4>1, <4>2, <4>3
    <3> QED BY <3>1, <3>2
  <2> QED BY ONLY <1>2, <2>1, <2>3 DEF Accepted
<1>8. version = "buff" => FlowA(rx, Behindhand, transit, enByte)' /\ broken' = NULL
  <2> SUFFICES ASSUME version = "buff" PROVE FlowA(rx', Behindhand', transit', enByte') /\ broken' = NULL
    BY DEF FlowA
  <2>1. FlowA(rx, Behindhand, transit, enByte) /\ broken = NULL
    BY DEF IInv, Receiving
  <2>2. FlowA(rx, Cat(Behindhand, S!Encoded(m, enByte)), Append(transit, m), enByte)
    BY ONLY <1>1, <1>3, <2>1, m \in Bytes, AppendFlowA
  <2> QED BY ONLY <1>2, <1>6, <2>1, <2>2
<1>9. version = "queue" => FlowB(rx, Behindhand, broken = NULL, transit, enByte)'
  <2> SUFFICES ASSUME version = "queue"
               PROVE  FlowB(rx', Behindhand', broken' = NULL, transit', enByte')
    BY DEF FlowB
  <2>1. FlowB(rx, Behindhand, broken = NULL, transit, enByte) /\ (broken = NULL) \in BOOLEAN
    BY DEF IInv, Receiving
  <2>2. FlowB(rx, Cat(Behindhand, S!Encoded(m, enByte)), broken = NULL, Append(transit, m), enByte)
    BY ONLY <1>1, <1>3, <2>1, m \in Bytes, AppendFlowB
  <2> QED BY ONLY <1>2, <1>6, <2>2
<1>10. Receiving'
  BY <1>2, <1>8, <1>9 DEF Receiving
<1> QED BY <1>2, <1>5, <1>7, <1>10 DEF IInv

(* One that is not accepted changes nothing. *)
LEMMA WriteFailsKeeps ==
  ASSUME IInv, NEW m \in Bytes, WriteFails(m)
  PROVE  IInv'
<1>1. /\ enByte \in Nat \ {0} /\ enByte \in Nat
  BY Parts
<1>2. /\ enByte' = enByte /\ version' = version /\ wire' = wire /\ rx' = rx
      /\ told' = told /\ broken' = broken /\ transit' = transit
      /\ tx' \in S!WriteFailures(tx, m, enByte)
  BY DEF WriteFails
<1>3. SP!Sound(tx) /\ wire \in Bytes
  BY DEF IInv, Sending
<1>4. SP!Sound(tx') /\ S!Contents(tx') = S!Contents(tx)
  BY <1>1, <1>2, <1>3, WritesNot
<1>5. Sending'
  BY <1>2, <1>3, <1>4 DEF Sending
<1>6. Behindhand' = Behindhand
  BY ONLY <1>2, <1>4 DEF Behindhand
<1>7. Accepted'
  BY <1>2 DEF IInv, Accepted
<1>8. Receiving'
  BY ONLY <1>2, <1>6, IInv DEF IInv, Receiving
<1> QED BY <1>2, <1>5, <1>7, <1>8 DEF IInv

(* What is sent is only moved. *)
LEMMA SendKeeps ==
  ASSUME IInv, NEW k \in Nat, Send(k)
  PROVE  IInv'
<1>1. /\ enByte' = enByte /\ version' = version /\ rx' = rx
      /\ told' = told /\ broken' = broken /\ transit' = transit
      /\ wire' = wire \o S!BytesFrom(tx, tx.read, k) /\ tx' = S!Consumed(tx, k)
      /\ k <= S!Prepared(tx)
  BY DEF Send
<1>2. SP!Sound(tx) /\ wire \in Bytes
  BY DEF IInv, Sending
<1>3. PICK x \in Bytes, c \in Bytes :
        /\ x = S!BytesFrom(tx, tx.read, k) /\ SP!Sound(tx') /\ c = S!Contents(tx')
        /\ S!Contents(tx) = Cat(x, c)
  <2>1. /\ SP!Sound(S!Consumed(tx, k)) /\ S!BytesFrom(tx, tx.read, k) \in Bytes
        /\ S!Contents(tx) = Cat(S!BytesFrom(tx, tx.read, k), S!Contents(S!Consumed(tx, k)))
    BY <1>1, <1>2, Sends
  <2>2. S!Contents(S!Consumed(tx, k)) \in Bytes
    BY <2>1, SendBuffer
  <2> QED BY ONLY <1>1, <2>1, <2>2
<1>4. wire' = Cat(wire, x) /\ wire' \in Bytes
  <2>1. wire' = Cat(wire, x)
    BY ONLY <1>1, <1>3 DEF Cat
  <2> QED BY <1>2, <2>1, CatBytes
<1>5. Sending'
  BY <1>3, <1>4 DEF Sending
<1>6. Behindhand' = Behindhand
  <2>1. Cat(Cat(wire, x), c) = Cat(wire, Cat(x, c))
    BY <1>2, CatBytes
  <2> QED BY ONLY <1>3, <1>4, <2>1 DEF Behindhand
<1>7. Accepted'
  BY <1>1 DEF IInv, Accepted
<1>8. Receiving'
  BY ONLY <1>1, <1>6, IInv DEF IInv, Receiving
<1> QED BY <1>1, <1>5, <1>7, <1>8 DEF IInv

(* The bytes that arrive are the first of those on their way. *)
LEMMA Arrives ==
  ASSUME IInv, NEW k \in 1..Len(wire), Taken(k)
  PROVE  /\ Arrived(k) \in Bytes /\ Arrived(k) # <<>> /\ Len(Arrived(k)) = k
         /\ Behindhand' \in Bytes /\ Behindhand = Cat(Arrived(k), Behindhand')
         /\ Sending' /\ Accepted'
         /\ enByte' = enByte /\ version' = version /\ transit' = transit
<1>1. SP!Sound(tx) /\ wire \in Bytes /\ S!Contents(tx) \in Bytes
  BY Parts DEF IInv, Sending
<1>2. /\ enByte' = enByte /\ version' = version /\ tx' = tx /\ transit' = transit
      /\ wire' = SubSeq(wire, k + 1, Len(wire))
  BY DEF Taken
<1>3. PICK n \in Nat : n = Len(wire) /\ k \in Nat /\ k # 0 /\ k \in 0..Len(wire)
  <2>1. Len(wire) \in Nat
    BY <1>1, CatBytes
  <2>2. k \in Nat /\ k # 0 /\ k \in 0..Len(wire)
    BY ONLY <2>1, k \in 1..Len(wire)
  <2> QED BY ONLY <2>1, <2>2
<1>4. PICK x \in Bytes, y \in Bytes :
        x = Arrived(k) /\ Len(x) = k /\ y = wire' /\ wire = Cat(x, y)
  <2>1. /\ SubSeq(wire, 1, k) \in Bytes /\ Len(SubSeq(wire, 1, k)) = k
        /\ SubSeq(wire, k + 1, Len(wire)) \in Bytes
        /\ Cat(SubSeq(wire, 1, k), SubSeq(wire, k + 1, Len(wire))) = wire
    BY <1>1, <1>3, BytesCut
  <2> QED BY ONLY <1>2, <2>1 DEF Arrived
<1>5. x # <<>>
  BY <1>3, <1>4, CatBytes
<1>6. PICK c \in Bytes : c = S!Contents(tx) /\ c = S!Contents(tx')
  BY <1>1, <1>2
<1>7. Cat(y, c) \in Bytes /\ Cat(Cat(x, y), c) = Cat(x, Cat(y, c))
  BY CatBytes
<1>8. Behindhand' = Cat(y, c) /\ Behindhand = Cat(x, Cat(y, c))
  BY ONLY <1>4, <1>6, <1>7 DEF Behindhand
<1>9. Sending'
  BY <1>1, <1>2, <1>4 DEF Sending
<1>10. Accepted'
  BY <1>2 DEF IInv, Accepted
<1> QED BY ONLY <1>2, <1>4, <1>5, <1>7, <1>8, <1>9, <1>10

(* Bytes that version A receives. *)
LEMMA ReceiveAKeeps ==
  ASSUME IInv, NEW k \in 1..Len(wire), ReceiveA(k)
  PROVE  IInv'
<1>1. /\ version = "buff" /\ broken = NULL /\ k <= R!PreparedA(rx) /\ Taken(k)
  BY DEF ReceiveA
<1>2. PICK c : /\ c = R!ConsumedA(rx, R!ReceivedA(rx, Arrived(k)), enByte) /\ rx' = c
               /\ IF R!ConsumeFailsA(c, enByte)
                  THEN broken' = "rejected" /\ UNCHANGED told
                  ELSE UNCHANGED broken /\ told' = (told \/ R!ConsumeCountsA(rx, c))
  BY DEF ReceiveA
<1>3. PICK x \in Bytes, y \in Bytes :
        x = Arrived(k) /\ x # <<>> /\ Len(x) = k /\ y = Behindhand' /\ Behindhand = Cat(x, y)
  BY <1>1, Arrives
<1>4. /\ Sending' /\ Accepted' /\ enByte' = enByte /\ version' = version /\ transit' = transit
  BY <1>1, Arrives
<1>5. FlowA(rx, Cat(x, y), transit, enByte) /\ AllFit(transit, enByte) /\ transit \in Messages
      /\ enByte \in Nat \ {0}
  BY <1>1, <1>3, Parts DEF IInv, Receiving, Accepted
<1>6. FlowA(c, y, transit, enByte) /\ ~R!ConsumeFailsA(c, enByte)
  <2>1. Len(x) <= R!PreparedA(rx)
    BY <1>1, <1>3
  <2>2. c = R!ConsumedA(rx, R!ReceivedA(rx, x), enByte)
    BY ONLY <1>2, <1>3
  <2> QED BY ONLY <1>3, <1>5, <2>1, <2>2, x \in Bytes, y \in Bytes, ReceiveFlowA
<1>7. broken' = NULL /\ told' \in BOOLEAN
  BY <1>1, <1>2, <1>6 DEF IInv
<1>8. Receiving'
  BY ONLY <1>1, <1>2, <1>3, <1>4, <1>6, <1>7 DEF Receiving
<1> QED BY <1>4, <1>7, <1>8 DEF IInv

(* Nothing that version A receives. *)
LEMMA ReceiveNothingKeeps ==
  ASSUME IInv, ReceiveNothing
  PROVE  IInv'
<1>1. /\ version = "buff" /\ broken = NULL
      /\ rx' = [rx EXCEPT !.ring = R!Allocated(@, {R!Index(@.write)})]
      /\ enByte' = enByte /\ version' = version /\ wire' = wire /\ tx' = tx
      /\ told' = told /\ broken' = broken /\ transit' = transit
  BY DEF ReceiveNothing
<1>2. PICK where : where = {R!Index(rx.ring.write)}
  OBVIOUS
<1>3. rx' = [rx EXCEPT !.ring = R!Allocated(@, where)]
  BY ONLY <1>1, <1>2
<1>4. FlowA(rx, Behindhand, transit, enByte)
  BY <1>1 DEF IInv, Receiving
<1>5. FlowA(rx', Behindhand, transit, enByte)
  <2>1. FlowA([rx EXCEPT !.ring = R!Allocated(@, where)], Behindhand, transit, enByte)
    BY ONLY <1>4, AllocateFlowA
  <2> QED BY ONLY <1>3, <2>1
<1>6. Behindhand' = Behindhand
  BY ONLY <1>1 DEF Behindhand
<1>7. Sending' /\ Accepted'
  BY <1>1 DEF IInv, Sending, Accepted
<1>8. Receiving'
  BY ONLY <1>1, <1>5, <1>6 DEF Receiving
<1> QED BY <1>1, <1>7, <1>8 DEF IInv

(* Bytes of a header that version B receives. *)
LEMMA ReceiveHeadKeeps ==
  ASSUME IInv, NEW k \in 1..Len(wire), ReceiveHead(k)
  PROVE  IInv'
<1>1. /\ version = "queue" /\ broken = NULL /\ k <= R!PreparedB(rx, enByte) /\ rx.check < enByte
      /\ Taken(k) /\ told' = told
  BY DEF ReceiveHead
<1>2. PICK x \in Bytes, y \in Bytes :
        x = Arrived(k) /\ x # <<>> /\ Len(x) = k /\ y = Behindhand' /\ Behindhand = Cat(x, y)
  BY <1>1, Arrives
<1>3. /\ Sending' /\ Accepted' /\ enByte' = enByte /\ version' = version /\ transit' = transit
  BY <1>1, Arrives
<1>4. FlowB(rx, Cat(x, y), TRUE, transit, enByte) /\ AllSendable(transit, enByte)
      /\ transit \in Messages /\ enByte \in Nat \ {0}
  <2>1. FlowB(rx, Cat(x, y), TRUE, transit, enByte)
    BY <1>1, <1>2 DEF IInv, Receiving, FlowB
  <2> QED BY <2>1, Parts DEF IInv, Accepted
<1>5. /\ FlowB(R!ConsumedHead(rx, x, enByte), y, TRUE, transit, enByte)
      /\ R!CompletesHead(rx, x, enByte) => ~(R!HeadSize(rx, x) < enByte)
  <2>1. Len(x) <= R!PreparedB(rx, enByte) /\ rx.check < enByte
    BY <1>1, <1>2
  <2> QED BY ONLY <1>2, <1>4, <2>1, x \in Bytes, y \in Bytes, HeadFlowB
<1>6. broken' = broken /\ rx' = R!ConsumedHead(rx, x, enByte)
  <2>1. IF R!CompletesHead(rx, x, enByte) /\ R!HeadSize(rx, x) < enByte
        THEN broken' = "rejected" /\ UNCHANGED rx
        ELSE UNCHANGED broken /\ rx' = R!ConsumedHead(rx, x, enByte)
    BY <1>2 DEF ReceiveHead
  <2> QED BY ONLY <1>5, <2>1
<1>7. Receiving'
  <2>1. FlowB(rx', Behindhand', broken' = NULL, transit', enByte')
    BY ONLY <1>2, <1>3, <1>5, <1>6 DEF FlowB
  <2> QED BY <1>1, <1>3, <2>1 DEF Receiving
<1> QED BY <1>1, <1>3, <1>6, <1>7 DEF IInv

(* A header that version B has no memory for. *)
LEMMA ReceiveHeadFailsKeeps ==
  ASSUME IInv, NEW k \in 1..Len(wire), ReceiveHeadFails(k)
  PROVE  IInv'
<1>1. /\ version = "queue" /\ Taken(k) /\ told' = told /\ rx' = rx /\ broken' = "memory"
  BY DEF ReceiveHeadFails
<1>2. /\ Sending' /\ Accepted' /\ enByte' = enByte /\ version' = version /\ transit' = transit
  BY <1>1, Arrives
<1>3. broken' # NULL
  BY <1>1, StreamAssumption
<1>4. FlowB(rx, Behindhand', FALSE, transit, enByte)
  <2>1. FlowB(rx, Behindhand, broken = NULL, transit, enByte)
    BY <1>1 DEF IInv, Receiving
  <2> QED BY ONLY <2>1, LoseFlowB
<1>5. Receiving'
  <2>1. FlowB(rx', Behindhand', broken' = NULL, transit', enByte')
    BY ONLY <1>1, <1>2, <1>3, <1>4 DEF FlowB
  <2> QED BY <1>1, <1>2, <2>1 DEF Receiving
<1> QED BY <1>1, <1>2, <1>5 DEF IInv

(* Bytes of a message that version B receives. *)
LEMMA ReceiveBodyKeeps ==
  ASSUME IInv, NEW k \in 1..Len(wire), ReceiveBody(k)
  PROVE  IInv'
<1>1. /\ version = "queue" /\ broken = NULL /\ k <= R!PreparedB(rx, enByte) /\ rx.check >= enByte
      /\ Taken(k) /\ told' = (told \/ R!CompletesBody(rx, Arrived(k), enByte)) /\ broken' = broken
      /\ rx' = R!ConsumedBody(rx, Arrived(k), enByte)
  BY DEF ReceiveBody
<1>2. PICK x \in Bytes, y \in Bytes :
        x = Arrived(k) /\ x # <<>> /\ Len(x) = k /\ y = Behindhand' /\ Behindhand = Cat(x, y)
  BY <1>1, Arrives
<1>3. /\ Sending' /\ Accepted' /\ enByte' = enByte /\ version' = version /\ transit' = transit
  BY <1>1, Arrives
<1>4. FlowB(rx, Cat(x, y), TRUE, transit, enByte) /\ transit \in Messages /\ enByte \in Nat \ {0}
  <2>1. FlowB(rx, Cat(x, y), TRUE, transit, enByte)
    BY <1>1, <1>2 DEF IInv, Receiving, FlowB
  <2> QED BY <2>1, Parts DEF IInv, Accepted
<1>5. FlowB(R!ConsumedBody(rx, x, enByte), y, TRUE, transit, enByte)
  <2>1. Len(x) <= R!PreparedB(rx, enByte) /\ rx.check >= enByte
    BY <1>1, <1>2
  <2> QED BY ONLY <1>2, <1>4, <2>1, x \in Bytes, y \in Bytes, BodyFlowB
<1>6. Receiving'
  <2>1. FlowB(rx', Behindhand', broken' = NULL, transit', enByte')
    BY ONLY <1>1, <1>2, <1>3, <1>5 DEF FlowB
  <2> QED BY <1>1, <1>3, <2>1 DEF Receiving
<1>7. told' \in BOOLEAN
  BY <1>1 DEF IInv
<1> QED BY <1>1, <1>3, <1>6, <1>7 DEF IInv

(* The message that is read is the first. *)
LEMMA ReadFirst ==
  ASSUME IInv, Read
  PROVE  IInv' /\ transit # <<>> /\ got' = Head(transit)
<1>1. /\ enByte \in Nat \ {0} /\ version \in {"buff", "queue"} /\ Behindhand \in Bytes
      /\ transit \in Messages
      /\ version = "buff" => AllFit(transit, enByte)
  BY Parts DEF IInv, Accepted
<1>2. /\ enByte' = enByte /\ version' = version /\ wire' = wire /\ tx' = tx /\ broken' = broken
  BY DEF Read
<1>3. Behindhand' = Behindhand /\ Sending'
  BY <1>2 DEF Behindhand, IInv, Sending
<1>4. told' = told
  BY DEF Read, Returns
<1>5. ASSUME transit # <<>>, transit' = Tail(transit) PROVE Accepted'
  <2>1. /\ Tail(transit) \in Messages /\ Len(Tail(transit)) = Len(transit) - 1
        /\ \A i \in 1..(Len(transit) - 1) : Tail(transit)[i] = transit[i + 1]
    BY <1>1, <1>5, FirstMessage
  <2>2. ASSUME NEW i \in 1..(Len(transit) - 1)
        PROVE  CanBeSent(Tail(transit)[i], enByte, version)
    <3>1. PICK l \in Nat : l = Len(transit)
      BY <1>1, CatMessages
    <3>2. i + 1 \in 1..l
      BY ONLY <3>1, i \in 1..(Len(transit) - 1)
    <3>3. CanBeSent(transit[i + 1], enByte, version)
      BY <3>1, <3>2 DEF IInv, Accepted
    <3> QED BY ONLY <2>1, <3>3, i \in 1..(Len(transit) - 1)
  <2> QED BY ONLY <1>2, <1>5, <2>1, <2>2 DEF Accepted
<1>6. CASE version = "buff"
  <2>1. R!ReadableA(rx, enByte) /\ got' = R!MessageA(rx, enByte) /\ rx' = R!ReadA(rx, enByte)
        /\ transit' = IF transit = <<>> THEN <<>> ELSE Tail(transit)
    BY <1>6 DEF Read, Returns
  <2>2. FlowA(rx, Behindhand, transit, enByte) /\ broken = NULL
    BY <1>6 DEF IInv, Receiving
  <2>3. /\ transit # <<>> /\ R!MessageA(rx, enByte) = Head(transit)
        /\ FlowA(R!ReadA(rx, enByte), Behindhand, Tail(transit), enByte)
    BY ONLY <1>1, <1>6, <2>1, <2>2, ReadFlowA
  <2>4. Receiving'
    BY ONLY <1>2, <1>3, <1>6, <2>1, <2>2, <2>3 DEF Receiving
  <2>5. Accepted'
    BY <1>5, <2>1, <2>3
  <2> QED BY <1>2, <1>3, <1>4, <2>1, <2>3, <2>4, <2>5 DEF IInv
<1>7. CASE version = "queue"
  <2>1. R!ReadableB(rx) /\ got' = R!MessageB(rx) /\ rx' = R!ReadB(rx)
        /\ transit' = IF transit = <<>> THEN <<>> ELSE Tail(transit)
    BY <1>7 DEF Read, Returns
  <2>2. FlowB(rx, Behindhand, broken = NULL, transit, enByte) /\ (broken = NULL) \in BOOLEAN
    BY <1>7 DEF IInv, Receiving
  <2>3. /\ transit # <<>> /\ R!MessageB(rx) = Head(transit)
        /\ FlowB(R!ReadB(rx), Behindhand, broken = NULL, Tail(transit), enByte)
    <3>1. PICK whole \in BOOLEAN : whole = (broken = NULL)
      OBVIOUS
    <3>2. FlowB(rx, Behindhand, whole, transit, enByte)
      BY ONLY <2>2, <3>1
    <3>3. /\ transit # <<>> /\ R!MessageB(rx) = Head(transit)
          /\ FlowB(R!ReadB(rx), Behindhand, whole, Tail(transit), enByte)
      BY ONLY <1>1, <2>1, <3>2, whole \in BOOLEAN, ReadFlowB
    <3> QED BY ONLY <3>1, <3>3
  <2>4. Receiving'
    BY ONLY <1>2, <1>3, <1>7, <2>1, <2>3 DEF Receiving
  <2>5. Accepted'
    BY <1>5, <2>1, <2>3
  <2> QED BY <1>2, <1>3, <1>4, <2>1, <2>3, <2>4, <2>5 DEF IInv
<1> QED BY <1>1, <1>6, <1>7

(* When there is nothing to read the buffers stay as they are. *)
LEMMA ReadNothingKeeps ==
  ASSUME IInv, ReadNothing \/ UNCHANGED vars
  PROVE  IInv'
<1>1. /\ enByte' = enByte /\ version' = version /\ wire' = wire /\ tx' = tx /\ broken' = broken
      /\ rx' = rx /\ transit' = transit /\ told' \in BOOLEAN
  BY DEF ReadNothing, vars, IInv
<1>2. Behindhand' = Behindhand /\ Sending' /\ Accepted'
  BY <1>1 DEF Behindhand, IInv, Sending, Accepted
<1>3. Receiving'
  BY ONLY <1>1, <1>2, IInv DEF IInv, Receiving
<1> QED BY <1>1, <1>2, <1>3 DEF IInv

(* Every step keeps it. *)
LEMMA Kept == IInv /\ [Next]_vars => IInv'
<1> SUFFICES ASSUME IInv, [Next]_vars PROVE IInv'
  OBVIOUS
<1>1. CASE \E n \in Sizes : Sendable(Message(n)) /\ (Write(Message(n)) \/ WriteFails(Message(n)))
  <2>1. PICK n \in Sizes : Sendable(Message(n)) /\ (Write(Message(n)) \/ WriteFails(Message(n)))
    BY <1>1
  <2>2. PICK m \in Bytes : m = Message(n)
    BY MessageBytes
  <2> QED BY <2>1, <2>2, WriteKeeps, WriteFailsKeeps
<1>2. CASE \E k \in 1..WireCap : Send(k)
  <2>1. PICK k \in 1..WireCap : Send(k)
    BY <1>2
  <2>2. k \in Nat
    BY StreamAssumption
  <2> QED BY <2>1, <2>2, SendKeeps
<1>3. CASE \E k \in 1..Len(wire) : Receive(k)
  <2>1. PICK k \in 1..Len(wire) : Receive(k)
    BY <1>3
  <2>2. ReceiveA(k) \/ ReceiveHead(k) \/ ReceiveHeadFails(k) \/ ReceiveBody(k)
    BY <2>1 DEF Receive
  <2> QED BY <2>2, ReceiveAKeeps, ReceiveHeadKeeps, ReceiveHeadFailsKeeps, ReceiveBodyKeeps
<1>4. CASE ReceiveNothing
  BY <1>4, ReceiveNothingKeeps
<1>5. CASE Read
  BY <1>5, ReadFirst
<1>6. CASE ReadNothing \/ UNCHANGED vars
  BY <1>6, ReadNothingKeeps
<1> QED BY <1>1, <1>2, <1>3, <1>4, <1>5, <1>6 DEF Next

(* The inductive invariant holds in every state: receive buffer, wire and   *)
(* send buffer always make up the messages on their way.                   *)
THEOREM FlowKept == Spec => []IInv
<1>1. Init => IInv
  BY Starts
<1>2. IInv /\ [Next]_vars => IInv'
  BY Kept
<1> QED BY <1>1, <1>2, PTL DEF Spec

-----------------------------------------------------------------------------
(* The bytes of the queue: those of the messages it holds and those that   *)
(* began.                                                                  *)
LEMMA QueueBytes ==
  ASSUME version = "queue", NEW a \in Messages, IsFilled(rx, a)
  PROVE  ReceivedBytes = Cat(BytesOf(a, enByte), Begun(rx, enByte))
<1> DEFINE whole == [i \in 1..Held(rx) |->
                       S!Encoded(rx.bufs[(rx.read + i - 1) % RecvPoolCnt], enByte)]
           begun == IF rx.check < enByte THEN rx.head
                    ELSE S!Header(rx.lens[R!Cur(rx)] + enByte, enByte) \o rx.bufs[R!Cur(rx)]
<1>1. ReceivedBytes = Joined(whole) \o begun
  <2>1. version # "buff"
    OBVIOUS
  <2> QED BY <2>1 DEF ReceivedBytes, Held
<1>2. begun = Begun(rx, enByte)
  BY DEF Begun, Cat
<1>3. whole = EncodedAll(a, enByte)
  <2>1. Len(a) = Held(rx) /\ \A i \in 1..Len(a) : rx.bufs[(rx.read + i - 1) % RecvPoolCnt] = a[i]
    BY DEF IsFilled, Place
  <2> QED BY ONLY <2>1 DEF EncodedAll
<1> HIDE DEF whole, begun
<1> QED BY ONLY <1>1, <1>2, <1>3 DEF BytesOf, Cat

(* The bytes of the messages on their way, as the property states them. *)
LEMMA AllBytes ==
  Joined([i \in 1..Len(transit) |-> S!Encoded(transit[i], enByte)]) = BytesOf(transit, enByte)
  BY DEF BytesOf, EncodedAll

(* In the queue, on the wire and in the send buffer are exactly those. *)
LEMMA QueueHolds ==
  ASSUME IInv, version = "queue", broken = NULL
  PROVE  Cat(Cat(ReceivedBytes, wire), S!Contents(tx)) = BytesOf(transit, enByte)
<1>1. enByte \in Nat /\ wire \in Bytes /\ S!Contents(tx) \in Bytes
  BY Parts DEF IInv, Sending
<1>2. FlowB(rx, Behindhand, broken = NULL, transit, enByte)
  BY DEF IInv, Receiving
<1>3. PICK a \in Messages, z \in Messages, all \in Bytes :
        /\ transit = Cat(a, z) /\ IsQueue(rx, all, a, z, enByte) /\ all = Behindhand
  BY ONLY <1>2, broken = NULL DEF FlowB
<1>4. IsFilled(rx, a) /\ Cat(Begun(rx, enByte), all) = BytesOf(z, enByte)
  BY ONLY <1>3 DEF IsQueue
<1>5. rx \in BufferOf(enByte)
  BY ONLY <1>2 DEF FlowB
<1>6. PICK b \in Bytes : b = Begun(rx, enByte)
  <2>1. CASE rx.check < enByte
    BY <1>5, <2>1 DEF Begun, BufferOf
  <2>2. CASE ~(rx.check < enByte)
    <3>1. rx.check >= enByte
      BY <1>1, <1>5, <2>2 DEF BufferOf
    <3>2. PICK w \in Bytes, l \in Nat : w = rx.bufs[R!Cur(rx)] /\ l = rx.lens[R!Cur(rx)]
      <4>1. rx.bufs[R!Cur(rx)] \in Bytes /\ z # <<>> /\ rx.lens[R!Cur(rx)] = Len(Head(z))
        BY ONLY <1>3, <3>1 DEF IsQueue, IsArriving
      <4>2. Len(Head(z)) \in Nat
        BY <4>1, FirstMessage, CatBytes
      <4> QED BY ONLY <4>1, <4>2
    <3>3. SP!Header(l + enByte, enByte) \in Seq(SP!Byte)
      <4>1. l + enByte \in Nat
        BY <1>1
      <4> QED BY <1>1, <4>1, BothSizes, SP!HeaderFacts
    <3>4. PICK h \in Bytes : h = S!Header(l + enByte, enByte)
      BY <3>3, SendSame, BothSizes DEF Bytes
    <3>5. Cat(h, w) \in Bytes
      BY CatBytes
    <3> QED BY ONLY <2>2, <3>2, <3>4, <3>5 DEF Begun
  <2> QED BY ONLY <2>1, <2>2
<1>7. PICK x \in Bytes, y \in Bytes :
        /\ x = BytesOf(a, enByte) /\ y = BytesOf(z, enByte) /\ BytesOf(transit, enByte) = Cat(x, y)
  BY ONLY <1>1, <1>3, BytesOfBoth
<1>8. PICK w \in Bytes, t \in Bytes : w = wire /\ t = S!Contents(tx) /\ all = Cat(w, t)
  BY <1>1, <1>3 DEF Behindhand
<1>9. ReceivedBytes = Cat(x, b)
  BY ONLY <1>4, <1>6, <1>7, a \in Messages, version = "queue", QueueBytes
<1>10. Cat(b, Cat(w, t)) = y
  BY ONLY <1>4, <1>6, <1>7, <1>8
<1>11. Cat(Cat(Cat(x, b), w), t) = Cat(x, Cat(b, Cat(w, t)))
  <2>1. Cat(x, b) \in Bytes /\ Cat(w, t) \in Bytes
    BY CatBytes
  <2>2. Cat(Cat(Cat(x, b), w), t) = Cat(Cat(x, b), Cat(w, t))
    BY <2>1, CatBytes
  <2>3. Cat(Cat(x, b), Cat(w, t)) = Cat(x, Cat(b, Cat(w, t)))
    BY <2>1, CatBytes
  <2> QED BY ONLY <2>2, <2>3
<1> QED BY ONLY <1>7, <1>8, <1>9, <1>10, <1>11

(* So it is with the ring. *)
LEMMA RingHolds ==
  ASSUME IInv, version = "buff"
  PROVE  Cat(Cat(ReceivedBytes, wire), S!Contents(tx)) = BytesOf(transit, enByte)
<1>1. wire \in Bytes /\ S!Contents(tx) \in Bytes
  BY Parts DEF IInv, Sending
<1>2. RP!Sound(rx.ring) /\ Cat(R!Contents(rx.ring), Behindhand) = BytesOf(transit, enByte)
  BY DEF IInv, Receiving, FlowA
<1>3. PICK x \in Bytes, w \in Bytes, t \in Bytes :
        x = R!Contents(rx.ring) /\ w = wire /\ t = S!Contents(tx)
  BY <1>1, <1>2, ReceiveRing
<1>4. Cat(Cat(x, w), t) = Cat(x, Cat(w, t))
  BY CatBytes
<1>5. ReceivedBytes = x
  BY <1>3 DEF ReceivedBytes
<1> QED BY ONLY <1>2, <1>3, <1>4, <1>5 DEF Behindhand

(* The buffers and what is between them have their types. *)
LEMMA Typed == IInv => TypeOK
<1> SUFFICES ASSUME IInv PROVE TypeOK
  OBVIOUS
<1>1. /\ enByte \in EnBytes /\ version \in Versions /\ told \in BOOLEAN
      /\ broken \in {NULL, "memory", "rejected"} /\ wire \in Seq(S!Byte)
  BY DEF IInv, Sending, Bytes
<1>2. tx \in S!Ring
  BY SendBuffer DEF IInv, Sending
<1>3. version = "buff" => rx.ring \in R!Ring /\ rx.check \in R!Position
  <2> SUFFICES ASSUME version = "buff" PROVE rx.ring \in R!Ring /\ rx.check \in R!Position
    OBVIOUS
  <2>1. RP!Sound(rx.ring) /\ Recognises(rx.ring, rx.check, transit, enByte)
    BY DEF IInv, Receiving, FlowA
  <2>2. PICK a \in Messages, b \in Messages : IsCut(rx.ring, rx.check, a, b, enByte)
    BY ONLY <2>1 DEF Recognises
  <2>3. PICK s \in Nat : s = Len(BytesOf(a, enByte))
    <3>1. BytesOf(a, enByte) \in Bytes
      BY Parts, BytesOfBoth
    <3> QED BY <3>1, CatBytes
  <2>4. s <= R!Used(rx.ring) /\ rx.check = R!Forward(rx.ring.read, s)
    BY ONLY <2>2, <2>3 DEF IsCut
  <2> QED BY ONLY <2>1, <2>4, s \in Nat, ReceiveRing
<1>4. version = "queue" => rx \in BufferB
  BY DEF IInv, Receiving, FlowB, BufferOf, BufferB, Bytes
<1> QED BY <1>1, <1>2, <1>3, <1>4 DEF TypeOK

(* Both buffers keep their types, whatever is written, sent, received and   *)
(* read (buff.c).                                                          *)
THEOREM TypeCorrect == Spec => []TypeOK
  BY FlowKept, Typed, PTL

(* Receive buffer, wire and send buffer hold, one after the other, exactly  *)
(* the bytes of the messages accepted and not read (send_buff_write,       *)
(* buff_consume, recv_buff_consume_vA and _vB, recv_buff_read_vA and _vB).  *)
THEOREM NothingIsLost == Spec => []NothingLost
<1>1. IInv => NothingLost
  <2> SUFFICES ASSUME IInv, broken = NULL
               PROVE  ReceivedBytes \o wire \o S!Contents(tx) =
                        Joined([i \in 1..Len(transit) |-> S!Encoded(transit[i], enByte)])
    BY DEF NothingLost
  <2>1. Cat(Cat(ReceivedBytes, wire), S!Contents(tx)) = BytesOf(transit, enByte)
    BY Parts, RingHolds, QueueHolds
  <2>2. Cat(Cat(ReceivedBytes, wire), S!Contents(tx)) = (ReceivedBytes \o wire) \o S!Contents(tx)
    BY DEF Cat
  <2> QED BY ONLY <2>1, <2>2, AllBytes
<1> QED BY FlowKept, <1>1, PTL

(* The receiver never takes the bytes of accepted messages for something    *)
(* that cannot be a message (the tests of the size in recv_buff_consume_vA *)
(* and _vB).                                                               *)
THEOREM NeverRejects == Spec => []NeverRejected
<1>1. IInv => NeverRejected
  BY StreamAssumption DEF IInv, NeverRejected
<1> QED BY FlowKept, <1>1, PTL

(* Only a read returns a message, and it is the first. *)
LEMMA OldestRead ==
  ASSUME IInv, [Next]_vars
  PROVE  [got' # NULL => transit # <<>> /\ got' = Head(transit)]_vars
<1>1. CASE Read
  BY <1>1, ReadFirst
<1>2. CASE UNCHANGED vars
  BY <1>2
<1>3. CASE Next /\ ~Read
  <2>1. got' = NULL
    BY <1>3 DEF Next, Write, WriteFails, Send, Receive, ReceiveA, ReceiveHead, ReceiveHeadFails,
      ReceiveBody, Taken, ReceiveNothing, ReadNothing
  <2> QED BY <2>1
<1> QED BY <1>1, <1>2, <1>3

(* A message that is read is the oldest one accepted and not read, byte for *)
(* byte (recv_buff_read_vA and _vB).                                       *)
THEOREM OldestFirst == Spec => ReadsInOrder
<1>1. IInv /\ [Next]_vars => [got' # NULL => transit # <<>> /\ got' = Head(transit)]_vars
  BY OldestRead
<1> QED BY FlowKept, <1>1, PTL DEF Spec, ReadsInOrder
=============================================================================
