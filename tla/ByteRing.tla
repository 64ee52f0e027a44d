------------------------------ MODULE ByteRing ------------------------------
(***************************************************************************)
(* The byte array that send_buff and recv_buff (version A) of              *)
(* engine/net/buff.c share: pool_cnt parts of buffer_size bytes, allocated *)
(* when first written to and released when they have been read.            *)
(*                                                                         *)
(* A position stands for the packed pair of part number and offset, as the *)
(* number part * BufferSize + offset; part numbers run modulo 2 * pool_cnt *)
(* so that full and empty differ.  The read position starts one lap of the *)
(* array ahead of the write position: equal means full.                    *)
(*                                                                         *)
(* A byte that was read is forgotten here (Junk), as is what an allocation *)
(* contains: reading such a cell would show.                               *)
(***************************************************************************)
EXTENDS Integers, Sequences

CONSTANTS
  PoolCnt,     \* pool_cnt
  BufferSize,  \* buffer_size
  Radix,       \* values of a byte (256 in the code)
  NULL         \* no part

Byte == 0..(Radix - 1)
Junk == Radix                  \* not a byte

(* Radix ^ i: what the byte with index i of a number counts. *)
Power(i) == LET p[k \in 0..i] == IF k = 0 THEN 1 ELSE Radix * p[k - 1] IN p[i]

Capacity == PoolCnt * BufferSize
Lap == 2 * Capacity
Position == 0..(Lap - 1)
Part(pos) == pos \div BufferSize
Index(pos) == Part(pos) % PoolCnt
Forward(pos, k) == (pos + k) % Lap

PartIndex == 0..(PoolCnt - 1)
Offset == 0..(BufferSize - 1)
Ring == [parts : [PartIndex -> {NULL} \cup [Offset -> Byte \cup {Junk}]],
         write : Position, read : Position, freeH : 0..(2 * PoolCnt - 1)]

Empty == [parts |-> [i \in PartIndex |-> NULL],
          write |-> 0, read |-> Capacity, freeH |-> PoolCnt]

(* buff_get_space: free bytes between a write and a read position. *)
Space(read, write) == (read - write) % Lap
Used(r) == Capacity - Space(r.read, r.write)

ByteAt(r, pos) == IF r.parts[Index(pos)] = NULL THEN Junk
                  ELSE r.parts[Index(pos)][pos % BufferSize]
BytesFrom(r, pos, k) == [i \in 1..k |-> ByteAt(r, Forward(pos, i - 1))]
Contents(r) == BytesFrom(r, r.read, Used(r))

(* How far a cell lies behind a position. *)
Distance(pos, i, offset) == (i * BufferSize + offset - pos) % Capacity

Allocated(r, indices) ==
  [r EXCEPT !.parts = [i \in PartIndex |->
     IF i \in indices /\ @[i] = NULL THEN [o \in Offset |-> Junk] ELSE @[i]]]

(* memcpy to the write position. *)
Stored(r, bytes) ==
  [r EXCEPT
     !.parts = [i \in PartIndex |->
        IF @[i] = NULL THEN NULL
        ELSE [o \in Offset |-> LET d == Distance(r.write, i, o)
                               IN  IF d < Len(bytes) THEN bytes[d + 1] ELSE @[i][o]]],
     !.write = Forward(@, Len(bytes))]

\* stops one part early
Passed_slip(r, to) ==
  {(r.freeH + j) % PoolCnt : j \in 1..((Part(to) - r.freeH) % (2 * PoolCnt))}

(* The parts that the loop of buff_gc_help visits. *)
Passed(r, to) ==
  {(r.freeH + j) % PoolCnt : j \in 0..(((Part(to) - r.freeH) % (2 * PoolCnt)) - 1)}

(* k bytes have been read: buff_gc_help releases the parts passed but for  *)
(* the one that is written to.                                             *)
Skipped(r, k) ==
  LET to == Forward(r.read, k)
      gone == Passed(r, to) \ {Index(r.write)}
  IN  [r EXCEPT
         !.parts = [i \in PartIndex |->
            IF i \in gone \/ @[i] = NULL THEN NULL
            ELSE [o \in Offset |-> IF Distance(r.read, i, o) < k THEN Junk ELSE @[i][o]]],
         !.read = to,
         !.freeH = Part(to)]
=============================================================================
