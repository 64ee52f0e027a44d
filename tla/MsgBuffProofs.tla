--------------------------- MODULE MsgBuffProofs ---------------------------
(***************************************************************************)
(* Proofs about the message queue, for every number of threads, parts and  *)
(* messages.  They need one fact about the clients, LoadBound: at most     *)
(* (PoolCnt - 1) * BufferSize + 1 messages wait at any time, the count of  *)
(* those being read included.  (With more, the release loop can free the   *)
(* part a writer has wrapped into.)                                        *)
(*                                                                         *)
(* The positions of the code run in circles.  The argument unrolls them:   *)
(* messages are numbered in the order of their writing, and the invariant  *)
(* says that there are numbers R <= Q <= S <= W of which the positions     *)
(* read, cursor, seen and write are the remainders, and a number F of a    *)
(* part of which freeH is the remainder.  Part k holds the messages from   *)
(* k * BufferSize on, in the slot k modulo PoolCnt of the array.           *)
(***************************************************************************)
EXTENDS MsgBuff, ModLemmas, SequenceTheorems

LoadBound == Load <= ((PoolCnt - 1) * BufferSize) + 1

PartNo(q) == q \div BufferSize              \* the part of message q
Slot(q) == PartNo(q) % PoolCnt              \* where that part is
Present(q) == parts[Slot(q)] # NULL
Item(q) == parts[Slot(q)][q % BufferSize]   \* what the queue has as message q

(* How the positions come from the numbers, and how those are ordered. *)
Numbered(R, Q, S, W, F) ==
  /\ read = (R + Capacity) % Lap /\ cursor = (Q + Capacity) % Lap
  /\ write = W % Lap /\ freeH = (F + PoolCnt) % (2 * PoolCnt)
  /\ R <= Q /\ Q <= S /\ S <= W /\ W <= R + Load
  /\ PartNo(R) <= F /\ F <= PartNo(Q)
  /\ wflag # NULL => W < R + Load
  /\ rflag # NULL => seen = S % Lap
  /\ rflag = NULL => Q = R /\ F = PartNo(R)
  /\ \A r \in Readers : pc[r] = "read" => Q = R /\ F = PartNo(R)

(* A thread is inside a call exactly while it holds the lock of its side. *)
Control ==
  /\ pc \in [Writers \cup Readers -> {"idle","alloc","copy","publish","read","gc"}]
  /\ wflag \in Writers \cup {NULL} /\ rflag \in Readers \cup {NULL}
  /\ \A w \in Writers : /\ wflag = w => pc[w] \in {"alloc", "copy", "publish"}
                        /\ wflag # w => pc[w] = "idle"
  /\ \A r \in Readers : /\ rflag = r => pc[r] \in {"read", "gc"}
                        /\ rflag # r => pc[r] = "idle"
  /\ wflag # NULL => msg \in Msg
  /\ want \in Nat

(* The messages that wait are in place, and so is the one being written. *)
InPlace(Q, W) ==
  /\ parts \in [0..(PoolCnt - 1) ->
                  {NULL} \cup [0..(BufferSize - 1) -> Msg \cup {Junk}]]
  /\ \A q \in Q..(W - 1) : Present(q) /\ Item(q) \in Msg
  /\ \A w \in Writers : /\ pc[w] \in {"copy", "publish"} => Present(W)
                        /\ pc[w] = "publish" => Item(W) = msg

(* An allocated part is one that was not yet passed by the releases. *)
Reachable(W, F) ==
  \A i \in 0..(PoolCnt - 1) :
    parts[i] # NULL => \E k \in F..PartNo(W) : k % PoolCnt = i

Numbers(R, Q, S, W, F) ==
  Numbered(R, Q, S, W, F) /\ InPlace(Q, W) /\ Reachable(W, F)

IInv == Control /\ \E R, Q, S, W, F \in Nat : Numbers(R, Q, S, W, F)

-----------------------------------------------------------------------------
(* Sizes. *)
LEMMA Sizes ==
  /\ PoolCnt \in Nat \ {0} /\ BufferSize \in Nat \ {0} /\ 2 * PoolCnt \in Nat \ {0}
  /\ Capacity \in Nat \ {0} /\ Lap \in Nat \ {0} /\ Load \in Nat
<1>1. /\ PoolCnt \in Nat \ {0} /\ BufferSize \in Nat \ {0} /\ Load \in Nat
  BY MsgBuffAssumption
<1>2. 2 * PoolCnt \in Nat \ {0}
  BY ONLY <1>1
<1>3. PoolCnt * BufferSize \in Nat \ {0}
  BY ONLY <1>1, ProductPositive
<1>4. Lap \in Nat \ {0}
  BY ONLY <1>3 DEF Lap, Capacity
<1> QED BY ONLY <1>1, <1>2, <1>3, <1>4 DEF Capacity

(* A lap is twice the array, in parts and in messages. *)
LEMMA LapIs == Lap = (2 * PoolCnt) * BufferSize /\ Lap = 2 * Capacity
<1>1. /\ PoolCnt \in Nat \ {0} /\ BufferSize \in Nat \ {0}
  BY MsgBuffAssumption
<1>2. (2 * PoolCnt) * BufferSize = 2 * (PoolCnt * BufferSize)
  BY ONLY <1>1, Z3
<1> QED BY ONLY <1>2 DEF Lap, Capacity

(* The load the clients keep to is not more than the array holds. *)
LEMMA LoadFits == LoadBound => Load <= Capacity
<1>1. (PoolCnt - 1) * BufferSize = (PoolCnt * BufferSize) - BufferSize
  BY ONLY Sizes, Z3
<1>2. PoolCnt * BufferSize \in Int
  BY ONLY Sizes, Z3
<1> QED BY ONLY Sizes, <1>1, <1>2 DEF LoadBound, Capacity

(* Part numbers, slots and offsets have their ranges. *)
LEMMA PartNoType ==
  ASSUME NEW q \in Nat
  PROVE  /\ PartNo(q) \in Nat /\ Slot(q) \in 0..(PoolCnt - 1)
         /\ q % BufferSize \in 0..(BufferSize - 1)
<1>1. PartNo(q) \in Nat /\ q % BufferSize \in 0..(BufferSize - 1)
  BY ONLY q \in Nat, Sizes, DivMod, Zenon DEF PartNo
<1>2. Slot(q) \in 0..(PoolCnt - 1)
  BY ONLY <1>1, Sizes, DivMod, Zenon DEF Slot
<1> QED BY ONLY <1>1, <1>2

(* Part numbers run in a circle twice as long as the array. *)
LEMMA ModTwice ==
  ASSUME NEW x \in Nat
  PROVE  (x % (2 * PoolCnt)) % PoolCnt = x % PoolCnt
<1>1. 2 \in Nat \ {0}
  OBVIOUS
<1> QED BY ONLY <1>1, x \in Nat, Sizes, ModOfMod, Zenon

(* The part a position of the write side is in, and its slot and offset. *)
LEMMA WriteSide ==
  ASSUME NEW q \in Nat
  PROVE  /\ PartOf(q % Lap) = PartNo(q) % (2 * PoolCnt)
         /\ PartOf(q % Lap) % PoolCnt = Slot(q)
         /\ (q % Lap) % BufferSize = q % BufferSize
<1>1. /\ (q % ((2 * PoolCnt) * BufferSize)) % BufferSize = q % BufferSize
      /\ (q % ((2 * PoolCnt) * BufferSize)) \div BufferSize
           = (q \div BufferSize) % (2 * PoolCnt)
  <2> DEFINE m == 2 * PoolCnt
  <2>1. m \in Nat \ {0} /\ BufferSize \in Nat \ {0}
    BY ONLY Sizes, Zenon
  <2> HIDE DEF m
  <2>2. /\ (q % (m * BufferSize)) % BufferSize = q % BufferSize
        /\ (q % (m * BufferSize)) \div BufferSize = (q \div BufferSize) % m
    BY ONLY <2>1, q \in Nat, ModOfMod, DivOfMod, Zenon
  <2> QED BY ONLY <2>2, Zenon DEF m
<1>2. /\ (q % Lap) % BufferSize = q % BufferSize
      /\ PartOf(q % Lap) = PartNo(q) % (2 * PoolCnt)
  BY ONLY <1>1, LapIs, Zenon DEF PartOf, PartNo
<1>3. (PartNo(q) % (2 * PoolCnt)) % PoolCnt = PartNo(q) % PoolCnt
  BY ONLY PartNoType, q \in Nat, ModTwice, Zenon
<1> QED BY ONLY <1>2, <1>3, Zenon DEF Slot

(* The same for the read side, which is half a lap ahead. *)
LEMMA ReadSide ==
  ASSUME NEW q \in Nat
  PROVE  /\ PartOf((q + Capacity) % Lap) = (PartNo(q) + PoolCnt) % (2 * PoolCnt)
         /\ PartOf((q + Capacity) % Lap) % PoolCnt = Slot(q)
         /\ ((q + Capacity) % Lap) % BufferSize = q % BufferSize
<1>1. /\ (q + Capacity) \div BufferSize = PartNo(q) + PoolCnt
      /\ (q + Capacity) % BufferSize = q % BufferSize
  <2>1. PoolCnt \in Nat
    BY ONLY Sizes
  <2> QED BY ONLY <2>1, q \in Nat, Sizes, DivPlus, Zenon DEF PartNo, Capacity
<1>2. q + Capacity \in Nat
  BY ONLY q \in Nat, Sizes
<1>3. /\ PartOf((q + Capacity) % Lap) = PartNo(q + Capacity) % (2 * PoolCnt)
      /\ PartOf((q + Capacity) % Lap) % PoolCnt = Slot(q + Capacity)
      /\ ((q + Capacity) % Lap) % BufferSize = (q + Capacity) % BufferSize
  BY ONLY <1>2, WriteSide, Zenon
<1>4. PartNo(q + Capacity) = PartNo(q) + PoolCnt
  BY ONLY <1>1, Zenon DEF PartNo
<1>5. (PartNo(q) + PoolCnt) % PoolCnt = PartNo(q) % PoolCnt
  BY ONLY PartNoType, q \in Nat, Sizes, ModStep, Zenon
<1>6. Slot(q + Capacity) = Slot(q)
  BY ONLY <1>4, <1>5, Zenon DEF Slot
<1> QED BY ONLY <1>1, <1>3, <1>4, <1>6, Zenon

(* A slot of the circle of part numbers is a slot of the array. *)
LEMMA ReleaseSlot ==
  ASSUME NEW f \in Nat
  PROVE  /\ ((f + PoolCnt) % (2 * PoolCnt)) % PoolCnt = f % PoolCnt
         /\ (((f + PoolCnt) % (2 * PoolCnt)) + 1) % (2 * PoolCnt)
              = ((f + 1) + PoolCnt) % (2 * PoolCnt)
<1>1. f + PoolCnt \in Nat /\ 1 \in Nat /\ (f + PoolCnt) + 1 = (f + 1) + PoolCnt
  BY ONLY f \in Nat, Sizes
<1>2. ((f + PoolCnt) % (2 * PoolCnt)) % PoolCnt = (f + PoolCnt) % PoolCnt
  BY ONLY <1>1, ModTwice
<1>3. (f + PoolCnt) % PoolCnt = f % PoolCnt
  BY ONLY f \in Nat, Sizes, ModStep, Zenon
<1>4. (((f + PoolCnt) % (2 * PoolCnt)) + 1) % (2 * PoolCnt)
        = ((f + PoolCnt) + 1) % (2 * PoolCnt)
  BY ONLY <1>1, Sizes, ModPlus, Zenon
<1> QED BY ONLY <1>1, <1>2, <1>3, <1>4, Zenon

(* Moving a read position on moves on its number ... *)
LEMMA ForwardRead ==
  ASSUME NEW q \in Nat, NEW k \in Nat
  PROVE  Forward((q + Capacity) % Lap, k) = ((q + k) + Capacity) % Lap
<1>1. q + Capacity \in Nat /\ (q + Capacity) + k = (q + k) + Capacity
  BY ONLY q \in Nat, k \in Nat, Sizes
<1>2. (((q + Capacity) % Lap) + k) % Lap = ((q + Capacity) + k) % Lap
  BY ONLY <1>1, k \in Nat, Sizes, ModPlus, Zenon
<1> QED BY ONLY <1>1, <1>2, Zenon DEF Forward

(* ... and so it does for a write position. *)
LEMMA ForwardWrite ==
  ASSUME NEW q \in Nat
  PROVE  Forward(q % Lap, 1) = (q + 1) % Lap
  BY ONLY q \in Nat, 1 \in Nat, Sizes, ModPlus, Zenon DEF Forward

(* The count of messages between a read and a write position. *)
LEMMA UsedIs ==
  ASSUME NEW q \in Nat, NEW w \in Nat, q <= w, w <= q + Capacity
  PROVE  Used((q + Capacity) % Lap, w % Lap) = w - q
<1>1. /\ q + Capacity \in Nat /\ w <= q + Capacity /\ q + Capacity < w + Lap
      /\ Capacity - ((q + Capacity) - w) = w - q
  BY ONLY q \in Nat, w \in Nat, q <= w, w <= q + Capacity, Sizes, LapIs
<1>2. (((q + Capacity) % Lap) - (w % Lap)) % Lap = (q + Capacity) - w
  BY ONLY <1>1, w \in Nat, Sizes, ModMinus, ZenonT(30)
<1> QED BY ONLY <1>1, <1>2, Zenon DEF Used, Space

(* Parts within reach of the load are less than PoolCnt apart. *)
LEMMA PartSpan ==
  ASSUME LoadBound, NEW a \in Nat, NEW q \in Nat, q < a + Load
  PROVE  PartNo(q) < PartNo(a) + PoolCnt
<1> DEFINE k == PoolCnt - 1
<1>1. k \in Nat /\ k + 1 = PoolCnt
  BY ONLY Sizes
<1>2. q <= a + (k * BufferSize) /\ k * BufferSize \in Nat
  <2>1. k * BufferSize \in Nat
    BY ONLY <1>1, Sizes, Z3
  <2>2. Load <= (k * BufferSize) + 1
    BY DEF LoadBound
  <2> HIDE DEF k
  <2> QED BY ONLY <2>1, <2>2, a \in Nat, q \in Nat, q < a + Load, Sizes
<1> HIDE DEF k
<1>3. a + (k * BufferSize) \in Nat
  BY ONLY <1>2, a \in Nat
<1>4. PartNo(q) <= PartNo(a + (k * BufferSize))
  BY ONLY <1>2, <1>3, q \in Nat, Sizes, DivMonotone DEF PartNo
<1>5. PartNo(a + (k * BufferSize)) = PartNo(a) + k
  BY ONLY <1>1, a \in Nat, Sizes, DivPlus, Zenon DEF PartNo
<1> QED BY ONLY <1>1, <1>4, <1>5, PartNoType, a \in Nat, q \in Nat, Sizes

(* A part that is released holds no message within reach. *)
LEMMA NotReleased ==
  ASSUME LoadBound, NEW a \in Nat, NEW q \in Nat, NEW f \in Nat,
         q < a + Load, PartNo(a) <= f, f < PartNo(q)
  PROVE  Slot(q) # f % PoolCnt
<1>0. PartNo(q) \in Nat /\ PartNo(a) \in Nat /\ PoolCnt \in Nat
  BY ONLY a \in Nat, q \in Nat, PartNoType, Sizes
<1>1. PartNo(q) < f + PoolCnt /\ f <= PartNo(q)
  <2>1. PartNo(q) < PartNo(a) + PoolCnt
    BY ONLY PartSpan, LoadBound, a \in Nat, q \in Nat, q < a + Load, Zenon
  <2> QED BY ONLY <2>1, <1>0, f \in Nat, PartNo(a) <= f, f < PartNo(q)
<1>2. PartNo(q) % PoolCnt = f % PoolCnt <=> PartNo(q) = f
  BY ONLY <1>0, <1>1, f \in Nat, Sizes, ModNear, Zenon
<1>3. PartNo(q) # f
  BY ONLY f < PartNo(q), f \in Nat
<1> QED BY ONLY <1>2, <1>3 DEF Slot

(* Two messages within reach are in different cells. *)
LEMMA CellsApart ==
  ASSUME LoadBound, NEW q \in Nat, NEW w \in Nat, q < w, w < q + Load
  PROVE  ~(Slot(q) = Slot(w) /\ q % BufferSize = w % BufferSize)
<1> SUFFICES ASSUME Slot(q) = Slot(w), q % BufferSize = w % BufferSize
             PROVE  FALSE
  OBVIOUS
<1>1. PartNo(q) <= PartNo(w) /\ PartNo(w) < PartNo(q) + PoolCnt
  <2>1. PartNo(q) <= PartNo(w)
    <3>1. q <= w
      BY ONLY q < w, q \in Nat, w \in Nat
    <3> QED BY ONLY <3>1, q \in Nat, w \in Nat, Sizes, DivMonotone DEF PartNo
  <2>2. PartNo(w) < PartNo(q) + PoolCnt
    BY ONLY LoadBound, q \in Nat, w \in Nat, w < q + Load, PartSpan
  <2> QED BY ONLY <2>1, <2>2
<1>2. PartNo(w) = PartNo(q)
  BY ONLY <1>1, Slot(q) = Slot(w), q \in Nat, w \in Nat, PartNoType, Sizes, ModNear
     DEF Slot
<1>3. /\ q = (BufferSize * PartNo(q)) + (q % BufferSize)
      /\ w = (BufferSize * PartNo(w)) + (w % BufferSize)
  BY ONLY q \in Nat, w \in Nat, Sizes, DivMod DEF PartNo
<1>4. q = w
  BY ONLY <1>2, <1>3, q % BufferSize = w % BufferSize
<1> QED BY ONLY <1>4, q < w, q \in Nat

(* The release loop meets the reader's part exactly when all parts before  *)
(* it were passed.                                                         *)
LEMMA LoopMeets ==
  ASSUME NEW a \in Nat, NEW q \in Nat, NEW f \in Nat,
         q <= a + Capacity, PartNo(a) <= f, f <= PartNo(q)
  PROVE  /\ (f + PoolCnt) % (2 * PoolCnt) = PartOf((q + Capacity) % Lap)
              <=> f = PartNo(q)
         /\ PartNo(q) <= f + PoolCnt
<1>1. PartNo(q) \in Nat /\ PartNo(a) \in Nat /\ PoolCnt \in Nat
  BY ONLY a \in Nat, q \in Nat, PartNoType, Sizes
<1>2. PartNo(q) <= PartNo(a) + PoolCnt
  <2>1. a + Capacity \in Nat
    BY ONLY a \in Nat, Sizes
  <2>2. PartNo(q) <= PartNo(a + Capacity)
    BY ONLY <2>1, q \in Nat, q <= a + Capacity, Sizes, DivMonotone, Zenon DEF PartNo
  <2>3. PartNo(a + Capacity) = PartNo(a) + PoolCnt
    BY ONLY <1>1, a \in Nat, Sizes, DivPlus, Zenon DEF PartNo, Capacity
  <2> QED BY ONLY <2>2, <2>3, Zenon
<1>3. /\ f + PoolCnt \in Nat /\ PartNo(q) + PoolCnt \in Nat
      /\ f + PoolCnt <= PartNo(q) + PoolCnt
      /\ PartNo(q) + PoolCnt < (f + PoolCnt) + (2 * PoolCnt)
      /\ PartNo(q) <= f + PoolCnt
      /\ f = PartNo(q) <=> f + PoolCnt = PartNo(q) + PoolCnt
  BY ONLY <1>1, <1>2, f \in Nat, PartNo(a) <= f, f <= PartNo(q), Sizes
<1>4. (PartNo(q) + PoolCnt) % (2 * PoolCnt) = (f + PoolCnt) % (2 * PoolCnt)
        <=> PartNo(q) + PoolCnt = f + PoolCnt
  BY ONLY <1>3, Sizes, ModNear, Zenon
<1>5. PartOf((q + Capacity) % Lap) = (PartNo(q) + PoolCnt) % (2 * PoolCnt)
  BY ONLY q \in Nat, ReadSide, Zenon
<1> QED BY ONLY <1>3, <1>4, <1>5, Zenon

(* How far the releases are behind part w, from the remainders of both. *)
LEMMA PartsBehind ==
  ASSUME NEW w \in Nat, NEW f \in Nat, f <= w, w <= f + PoolCnt
  PROVE  ((w % (2 * PoolCnt)) - ((f + PoolCnt) % (2 * PoolCnt)) + PoolCnt)
           % (2 * PoolCnt) = w - f
<1> DEFINE n == 2 * PoolCnt
           b == f + PoolCnt
           p == w \div n
           r == w % n
           q == b \div n
           s == b % n
<1>0. n \in Nat \ {0} /\ b \in Nat /\ PoolCnt \in Nat /\ w - f \in 0..(n - 1)
  BY ONLY Sizes, w \in Nat, f \in Nat, f <= w, w <= f + PoolCnt
<1>1. b = f + PoolCnt
  OBVIOUS
<1> HIDE DEF n, b
<1>2. w = (n * p) + r /\ p \in Nat /\ r \in 0..(n - 1)
  BY ONLY <1>0, w \in Nat, DivMod
<1>3. b = (n * q) + s /\ q \in Nat /\ s \in 0..(n - 1)
  BY ONLY <1>0, DivMod
<1> HIDE DEF p, q, r, s
<1>4. n * (q - p) = (n * q) - (n * p) /\ n * q \in Int /\ n * p \in Int
  BY ONLY <1>0, <1>2, <1>3, Z3
<1>5. /\ (r - s) + PoolCnt = (n * (q - p)) + (w - f)
      /\ (r - s) + PoolCnt \in Int /\ q - p \in Int
  BY ONLY <1>0, <1>1, <1>2, <1>3, <1>4, w \in Nat, f \in Nat
<1>6. ((r - s) + PoolCnt) % n = w - f
  BY ONLY <1>0, <1>5, DivModUnique
<1> QED BY ONLY <1>6 DEF r, s, n, b

-----------------------------------------------------------------------------
(* The steps.  Each keeps the numbers or moves one of them on, and leaves  *)
(* the messages that wait where they are.                                  *)
Kept(Q, W) == \A q \in Q..(W - 1) : Item(q)' = Item(q)

(* What the numbers are known to satisfy. *)
LEMMA Order ==
  ASSUME LoadBound, NEW R \in Nat, NEW Q \in Nat, NEW S \in Nat, NEW W \in Nat,
         NEW F \in Nat, Numbers(R, Q, S, W, F)
  PROVE  /\ R <= Q /\ Q <= S /\ S <= W /\ W <= R + Load /\ W <= Q + Load
         /\ W <= R + Capacity /\ W <= Q + Capacity /\ S <= R + Capacity
         /\ PartNo(R) <= F /\ F <= PartNo(Q) /\ PartNo(Q) <= PartNo(W)
         /\ PartNo(Q) <= PartNo(S) /\ PartNo(S) <= PartNo(W)
         /\ PartNo(R) \in Nat /\ PartNo(Q) \in Nat /\ PartNo(S) \in Nat
         /\ PartNo(W) \in Nat
<1>1. /\ R <= Q /\ Q <= S /\ S <= W /\ W <= R + Load
      /\ PartNo(R) <= F /\ F <= PartNo(Q)
  BY DEF Numbers, Numbered
<1>2. /\ Load \in Nat /\ Capacity \in Nat /\ Load <= Capacity
  BY Sizes, LoadFits
<1>3. /\ W <= Q + Load /\ W <= R + Capacity /\ W <= Q + Capacity
      /\ S <= R + Capacity /\ Q <= W
  BY ONLY <1>1, <1>2, R \in Nat, Q \in Nat, S \in Nat, W \in Nat
<1>4. /\ PartNo(Q) <= PartNo(W) /\ PartNo(Q) <= PartNo(S) /\ PartNo(S) <= PartNo(W)
  BY ONLY <1>1, <1>3, Q \in Nat, S \in Nat, W \in Nat, Sizes, DivMonotone, Zenon
     DEF PartNo
<1>5. /\ PartNo(R) \in Nat /\ PartNo(Q) \in Nat /\ PartNo(S) \in Nat
      /\ PartNo(W) \in Nat
  BY ONLY R \in Nat, Q \in Nat, S \in Nat, W \in Nat, PartNoType
<1> QED BY ONLY <1>1, <1>3, <1>4, <1>5

(* Readers, writers and no thread are different. *)
LEMMA Apart ==
  /\ \A w \in Writers : w # NULL
  /\ \A r \in Readers : r # NULL
  /\ \A w \in Writers : \A r \in Readers : w # r
  BY MsgBuffAssumption

Labels == {"idle", "alloc", "copy", "publish", "read", "gc"}

(* A writer holds the lock of its side from its first step to its last ... *)
LEMMA WriterMoves ==
  ASSUME Control, NEW w \in Writers, NEW l \in {"idle", "alloc", "copy", "publish"},
         Goto(w, l), wflag \in {NULL, w}, wflag' = IF l = "idle" THEN NULL ELSE w,
         wflag' # NULL => msg' \in Msg, rflag' = rflag, want' = want
  PROVE  /\ Control'
         /\ \A r \in Readers : pc'[r] = pc[r]
         /\ \A x \in Writers : pc'[x] = IF x = w THEN l ELSE "idle"
<1>1. /\ pc \in [Writers \cup Readers -> Labels] /\ l \in Labels
      /\ pc' = [pc EXCEPT ![w] = l]
  BY DEF Control, Labels, Goto
<1>2. /\ pc' \in [Writers \cup Readers -> Labels]
      /\ \A t \in Writers \cup Readers : pc'[t] = IF t = w THEN l ELSE pc[t]
  BY ONLY <1>1, w \in Writers
<1>3. \A r \in Readers : pc'[r] = pc[r]
  BY ONLY <1>2, Apart, w \in Writers
<1>4. \A x \in Writers : x # w => pc[x] = "idle" /\ x # wflag'
  BY Apart DEF Control
<1>5. \A x \in Writers : pc'[x] = IF x = w THEN l ELSE "idle"
  BY ONLY <1>2, <1>4
<1>6. \A x \in Writers : /\ wflag' = x => pc'[x] \in {"alloc", "copy", "publish"}
                         /\ wflag' # x => pc'[x] = "idle"
  <2> SUFFICES ASSUME NEW x \in Writers
               PROVE  /\ wflag' = x => pc'[x] \in {"alloc", "copy", "publish"}
                      /\ wflag' # x => pc'[x] = "idle"
    OBVIOUS
  <2>1. CASE x # w
    BY <2>1, <1>4, <1>5
  <2>2. CASE x = w /\ l = "idle"
    BY <2>2, <1>5, Apart
  <2>3. CASE x = w /\ l # "idle"
    BY <2>3, <1>5
  <2> QED BY <2>1, <2>2, <2>3
<1>7. \A r \in Readers : /\ rflag' = r => pc'[r] \in {"read", "gc"}
                         /\ rflag' # r => pc'[r] = "idle"
  BY <1>3 DEF Control
<1>8. /\ wflag' \in Writers \cup {NULL} /\ rflag' \in Readers \cup {NULL}
      /\ want' \in Nat
  BY DEF Control
<1>9. pc' \in [Writers \cup Readers ->
                 {"idle", "alloc", "copy", "publish", "read", "gc"}]
  BY <1>2 DEF Labels
<1> QED BY <1>3, <1>5, <1>6, <1>7, <1>8, <1>9, Zenon DEF Control

(* ... and so does a reader. *)
LEMMA ReaderMoves ==
  ASSUME Control, NEW r \in Readers, NEW l \in {"idle", "read", "gc"},
         Goto(r, l), rflag \in {NULL, r}, rflag' = IF l = "idle" THEN NULL ELSE r,
         wflag' = wflag, msg' = msg, want' \in Nat
  PROVE  /\ Control'
         /\ \A w \in Writers : pc'[w] = pc[w]
         /\ \A x \in Readers : pc'[x] = IF x = r THEN l ELSE "idle"
<1>1. /\ pc \in [Writers \cup Readers -> Labels] /\ l \in Labels
      /\ pc' = [pc EXCEPT ![r] = l]
  BY DEF Control, Labels, Goto
<1>2. /\ pc' \in [Writers \cup Readers -> Labels]
      /\ \A t \in Writers \cup Readers : pc'[t] = IF t = r THEN l ELSE pc[t]
  BY ONLY <1>1, r \in Readers
<1>3. \A w \in Writers : pc'[w] = pc[w]
  BY ONLY <1>2, Apart, r \in Readers
<1>4. \A x \in Readers : x # r => pc[x] = "idle" /\ x # rflag'
  BY Apart DEF Control
<1>5. \A x \in Readers : pc'[x] = IF x = r THEN l ELSE "idle"
  BY ONLY <1>2, <1>4
<1>6. \A x \in Readers : /\ rflag' = x => pc'[x] \in {"read", "gc"}
                         /\ rflag' # x => pc'[x] = "idle"
  <2> SUFFICES ASSUME NEW x \in Readers
               PROVE  /\ rflag' = x => pc'[x] \in {"read", "gc"}
                      /\ rflag' # x => pc'[x] = "idle"
    OBVIOUS
  <2>1. CASE x # r
    BY <2>1, <1>4, <1>5
  <2>2. CASE x = r /\ l = "idle"
    BY <2>2, <1>5, Apart
  <2>3. CASE x = r /\ l # "idle"
    BY <2>3, <1>5
  <2> QED BY <2>1, <2>2, <2>3
<1>7. \A w \in Writers : /\ wflag' = w => pc'[w] \in {"alloc", "copy", "publish"}
                         /\ wflag' # w => pc'[w] = "idle"
  BY <1>3 DEF Control
<1>8. /\ wflag' \in Writers \cup {NULL} /\ rflag' \in Readers \cup {NULL}
      /\ want' \in Nat /\ (wflag' # NULL => msg' \in Msg)
  BY DEF Control
<1>9. pc' \in [Writers \cup Readers ->
                 {"idle", "alloc", "copy", "publish", "read", "gc"}]
  BY <1>2 DEF Labels
<1> QED BY <1>3, <1>5, <1>6, <1>7, <1>8, <1>9, Zenon DEF Control

(* A thread that is not idle has the lock of its side. *)
LEMMA Holder ==
  ASSUME Control
  PROVE  /\ \A w \in Writers : pc[w] # "idle" => wflag = w /\ wflag # NULL
         /\ \A w \in Writers : w # wflag => pc[w] = "idle"
         /\ \A r \in Readers : pc[r] # "idle" => rflag = r /\ rflag # NULL
         /\ \A r \in Readers : r # rflag => pc[r] = "idle"
  BY Apart DEF Control

(* In the initial state all numbers are 0. *)
LEMMA Initially == LoadBound /\ Init => Control /\ Numbers(0, 0, 0, 0, 0)
<1> SUFFICES ASSUME LoadBound, Init PROVE Control /\ Numbers(0, 0, 0, 0, 0)
  OBVIOUS
<1>1. Control
  <2>1. /\ pc = [t \in Writers \cup Readers |-> "idle"]
        /\ wflag = NULL /\ rflag = NULL /\ want = 0
    BY DEF Init
  <2>2. \A t \in Writers \cup Readers : pc[t] = "idle"
    BY ONLY <2>1
  <2>3. pc \in [Writers \cup Readers ->
                 {"idle", "alloc", "copy", "publish", "read", "gc"}]
    BY ONLY <2>1
  <2> QED BY ONLY <2>1, <2>2, <2>3, Apart DEF Control
<1>2. PartNo(0) = 0 /\ 0 \in Nat
  BY ONLY Sizes, ModSmall DEF PartNo
<1>3. Capacity % Lap = Capacity /\ 0 % Lap = 0 /\ 0 + Capacity = Capacity
  BY ONLY Sizes, LapIs, ModSmall
<1>4. PoolCnt % (2 * PoolCnt) = PoolCnt /\ 0 + PoolCnt = PoolCnt
  BY ONLY Sizes, ModSmall
<1>5. Numbered(0, 0, 0, 0, 0)
  <2>1. 0 <= 0 + Load
    BY Sizes
  <2> QED BY <1>2, <1>3, <1>4, <2>1, Apart DEF Init, Numbered
<1>6. InPlace(0, 0)
  BY Apart DEF Init, InPlace
<1>7. Reachable(0, 0)
  BY DEF Init, Reachable
<1> QED BY <1>1, <1>5, <1>6, <1>7 DEF Numbers

(* A write that begins leaves the numbers, and there is room for it. *)
LEMMA WriteBeginStep ==
  ASSUME LoadBound, Control, NEW R \in Nat, NEW Q \in Nat, NEW S \in Nat,
         NEW W \in Nat, NEW F \in Nat, Numbers(R, Q, S, W, F),
         NEW w \in Writers, NEW m \in Msg, WriteBegin(w, m)
  PROVE  Control' /\ Numbers(R, Q, S, W, F)' /\ Kept(Q, W)
<1>1. /\ Control' /\ \A r \in Readers : pc'[r] = pc[r]
      /\ \A x \in Writers : pc'[x] = IF x = w THEN "alloc" ELSE "idle"
  <2>1. /\ Goto(w, "alloc") /\ wflag = NULL /\ wflag' = w /\ msg' = m
        /\ rflag' = rflag /\ want' = want
    BY DEF WriteBegin, readerVars
  <2> QED BY <2>1, WriterMoves
<1>2. W < R + Load
  <2>1. W <= R + Capacity /\ R <= W
    BY ONLY Order, LoadBound, Numbers(R, Q, S, W, F), R \in Nat, Q \in Nat,
       S \in Nat, W \in Nat, F \in Nat
  <2>2. Used(read, write) = W - R
    <3>1. read = (R + Capacity) % Lap /\ write = W % Lap
      BY DEF Numbers, Numbered
    <3> QED BY ONLY <2>1, <3>1, UsedIs, R \in Nat, W \in Nat, Zenon
  <2>3. Used(read, write) < Load
    BY DEF WriteBegin
  <2> QED BY ONLY <2>2, <2>3, R \in Nat, W \in Nat, Sizes
<1>3. Numbered(R, Q, S, W, F)'
  BY <1>1, <1>2 DEF Numbers, Numbered, WriteBegin, readerVars
<1>4. parts' = parts
  BY DEF WriteBegin
<1>5. \A x \in Writers : pc'[x] \notin {"copy", "publish"}
  BY ONLY <1>1
<1>6. InPlace(Q, W)'
  BY <1>4, <1>5 DEF Numbers, InPlace, Present, Item
<1>7. Reachable(W, F)'
  BY <1>4 DEF Numbers, Reachable
<1>8. Kept(Q, W)
  BY <1>4 DEF Kept, Item
<1> QED BY <1>1, <1>3, <1>6, <1>7, <1>8 DEF Numbers

(* The part that is added is the one of message W. *)
LEMMA WriteAllocStep ==
  ASSUME LoadBound, Control, NEW R \in Nat, NEW Q \in Nat, NEW S \in Nat,
         NEW W \in Nat, NEW F \in Nat, Numbers(R, Q, S, W, F),
         NEW w \in Writers, WriteAlloc(w)
  PROVE  Control' /\ Numbers(R, Q, S, W, F)' /\ Kept(Q, W)
<1>1. /\ Control' /\ \A r \in Readers : pc'[r] = pc[r]
      /\ \A x \in Writers : pc'[x] = IF x = w THEN "copy" ELSE "idle"
  <2>1. /\ Goto(w, "copy") /\ wflag = w /\ wflag' = wflag /\ msg' = msg
        /\ wflag # NULL /\ msg \in Msg /\ rflag' = rflag /\ want' = want
    BY Holder DEF Control, WriteAlloc, readerVars, writerVars
  <2> QED BY <2>1, WriterMoves
<1>2. Numbered(R, Q, S, W, F)'
  BY <1>1 DEF Numbers, Numbered, WriteAlloc, readerVars, writerVars
<1> DEFINE new == [i \in 0..(BufferSize - 1) |-> Junk]
<1>3. /\ new # NULL /\ new \in [0..(BufferSize - 1) -> Msg \cup {Junk}]
      /\ Slot(W) \in 0..(PoolCnt - 1)
  BY MsgBuffAssumption, PartNoType
<1>4. parts' = IF Present(W) THEN parts ELSE [parts EXCEPT ![Slot(W)] = new]
  <2>1. PartOf(write) % PoolCnt = Slot(W)
    BY WriteSide DEF Numbers, Numbered
  <2> QED BY <2>1 DEF WriteAlloc, Allocated, Present
<1> HIDE DEF new
<1>5. parts \in [0..(PoolCnt - 1) ->
                   {NULL} \cup [0..(BufferSize - 1) -> Msg \cup {Junk}]]
  BY DEF Numbers, InPlace
<1>6. \A i \in 0..(PoolCnt - 1) :
        parts'[i] = IF i = Slot(W) /\ ~Present(W) THEN new ELSE parts[i]
  BY <1>3, <1>4, <1>5
<1>7. \A q \in Q..(W - 1) : Present(q)' /\ Item(q)' = Item(q)
  <2> SUFFICES ASSUME NEW q \in Q..(W - 1) PROVE Present(q)' /\ Item(q)' = Item(q)
    OBVIOUS
  <2>1. Present(q) /\ q \in Nat
    BY DEF Numbers, InPlace
  <2>2. Slot(q) \in 0..(PoolCnt - 1) /\ ~(Slot(q) = Slot(W) /\ ~Present(W))
    BY <2>1, PartNoType DEF Present
  <2>3. parts'[Slot(q)] = parts[Slot(q)]
    BY ONLY <1>6, <2>2, Zenon
  <2> QED BY <2>1, <2>3 DEF Present, Item
<1>8. Present(W)'
  BY <1>3, <1>6 DEF Present
<1>9. \A x \in Writers : pc'[x] # "publish"
  BY ONLY <1>1
<1>10. InPlace(Q, W)'
  <2>1. parts' \in [0..(PoolCnt - 1) ->
                   {NULL} \cup [0..(BufferSize - 1) -> Msg \cup {Junk}]]
    BY <1>3, <1>4, <1>5
  <2>2. \A q \in Q..(W - 1) : Item(q)' \in Msg
    BY <1>7 DEF Numbers, InPlace
  <2> QED BY <2>1, <2>2, <1>7, <1>8, <1>9 DEF InPlace
<1>11. Reachable(W, F)'
  <2> SUFFICES ASSUME NEW i \in 0..(PoolCnt - 1), parts'[i] # NULL
               PROVE  \E k \in F..PartNo(W) : k % PoolCnt = i
    BY DEF Reachable
  <2>1. CASE i = Slot(W)
    <3>1. F <= PartNo(Q) /\ PartNo(Q) <= PartNo(W) /\ PartNo(Q) \in Nat
          /\ PartNo(W) \in Nat
      BY Order, Zenon
    <3>2. PartNo(W) \in F..PartNo(W)
      BY ONLY <3>1, F \in Nat
    <3> QED BY <2>1, <3>2 DEF Slot
  <2>2. CASE i # Slot(W)
    BY <2>2, <1>6 DEF Numbers, Reachable
  <2> QED BY <2>1, <2>2
<1> QED BY <1>1, <1>2, <1>7, <1>10, <1>11 DEF Numbers, Kept

(* A write that fails leaves the queue. *)
LEMMA WriteNoMemoryStep ==
  ASSUME LoadBound, Control, NEW R \in Nat, NEW Q \in Nat, NEW S \in Nat,
         NEW W \in Nat, NEW F \in Nat, Numbers(R, Q, S, W, F),
         NEW w \in Writers, WriteNoMemory(w)
  PROVE  Control' /\ Numbers(R, Q, S, W, F)' /\ Kept(Q, W)
<1>1. /\ Control' /\ \A r \in Readers : pc'[r] = pc[r]
      /\ \A x \in Writers : pc'[x] = IF x = w THEN "idle" ELSE "idle"
  <2>1. /\ Goto(w, "idle") /\ wflag = w /\ wflag' = NULL
        /\ rflag' = rflag /\ want' = want
    BY Holder DEF WriteNoMemory, readerVars
  <2> QED BY <2>1, WriterMoves
<1>2. Numbered(R, Q, S, W, F)'
  BY <1>1 DEF Numbers, Numbered, WriteNoMemory, readerVars
<1>3. parts' = parts /\ \A x \in Writers : pc'[x] = "idle"
  BY <1>1 DEF WriteNoMemory
<1>4. InPlace(Q, W)' /\ Reachable(W, F)' /\ Kept(Q, W)
  BY <1>3 DEF Numbers, InPlace, Present, Item, Reachable, Kept
<1> QED BY <1>1, <1>2, <1>4 DEF Numbers

(* The copy goes to the cell of message W, no other message is there. *)
LEMMA WriteCopyStep ==
  ASSUME LoadBound, Control, NEW R \in Nat, NEW Q \in Nat, NEW S \in Nat,
         NEW W \in Nat, NEW F \in Nat, Numbers(R, Q, S, W, F),
         NEW w \in Writers, WriteCopy(w)
  PROVE  Control' /\ Numbers(R, Q, S, W, F)' /\ Kept(Q, W)
<1>1. /\ Control' /\ \A r \in Readers : pc'[r] = pc[r]
      /\ \A x \in Writers : pc'[x] = IF x = w THEN "publish" ELSE "idle"
      /\ wflag # NULL /\ msg \in Msg /\ msg' = msg
  <2>1. /\ Goto(w, "publish") /\ wflag = w /\ wflag' = wflag /\ msg' = msg
        /\ wflag # NULL /\ msg \in Msg /\ rflag' = rflag /\ want' = want
    BY Holder DEF Control, WriteCopy, readerVars, writerVars
  <2> QED BY <2>1, WriterMoves
<1>2. Numbered(R, Q, S, W, F)'
  BY <1>1 DEF Numbers, Numbered, WriteCopy, readerVars, writerVars
<1>3. /\ Slot(W) \in 0..(PoolCnt - 1) /\ W % BufferSize \in 0..(BufferSize - 1)
      /\ Present(W)
  BY PartNoType DEF Numbers, InPlace, WriteCopy
<1>4. /\ parts \in [0..(PoolCnt - 1) ->
                      {NULL} \cup [0..(BufferSize - 1) -> Msg \cup {Junk}]]
      /\ parts[Slot(W)] \in [0..(BufferSize - 1) -> Msg \cup {Junk}]
  BY <1>3 DEF Numbers, InPlace, Present
<1> DEFINE new == [parts[Slot(W)] EXCEPT ![W % BufferSize] = msg]
<1>5. parts' = [parts EXCEPT ![Slot(W)] = new]
  <2>1. /\ PartOf(write) % PoolCnt = Slot(W)
        /\ write % BufferSize = W % BufferSize
    BY WriteSide DEF Numbers, Numbered
  <2> QED BY <2>1 DEF WriteCopy
<1>6. /\ new \in [0..(BufferSize - 1) -> Msg \cup {Junk}] /\ new # NULL
      /\ new[W % BufferSize] = msg
      /\ \A j \in 0..(BufferSize - 1) : j # W % BufferSize => new[j] = parts[Slot(W)][j]
  <2>1. new \in [0..(BufferSize - 1) -> Msg \cup {Junk}]
    BY ONLY <1>1, <1>3, <1>4
  <2>2. new # NULL
    BY <2>1, MsgBuffAssumption
  <2>3. new[W % BufferSize] = msg
    BY ONLY <1>3, <1>4
  <2>4. \A j \in 0..(BufferSize - 1) : j # W % BufferSize => new[j] = parts[Slot(W)][j]
    BY ONLY <1>3, <1>4
  <2> QED BY ONLY <2>1, <2>2, <2>3, <2>4
<1> HIDE DEF new
<1>7. /\ parts' \in [0..(PoolCnt - 1) ->
                      {NULL} \cup [0..(BufferSize - 1) -> Msg \cup {Junk}]]
      /\ \A i \in 0..(PoolCnt - 1) : parts'[i] = IF i = Slot(W) THEN new ELSE parts[i]
  BY ONLY <1>3, <1>4, <1>5, <1>6
<1>8. Present(W)' /\ Item(W)' = msg
  BY <1>3, <1>6, <1>7 DEF Present, Item
<1>9. \A q \in Q..(W - 1) : Present(q)' /\ Item(q)' = Item(q)
  <2> SUFFICES ASSUME NEW q \in Q..(W - 1) PROVE Present(q)' /\ Item(q)' = Item(q)
    OBVIOUS
  <2>1. Present(q) /\ q \in Nat
    BY DEF Numbers, InPlace
  <2>2. /\ Slot(q) \in 0..(PoolCnt - 1) /\ q % BufferSize \in 0..(BufferSize - 1)
    BY ONLY <2>1, PartNoType
  <2>3. q < W /\ W < q + Load
    <3>1. W < R + Load
      BY <1>1 DEF Numbers, Numbered
    <3>2. R <= Q
      BY DEF Numbers, Numbered
    <3> QED BY ONLY <3>1, <3>2, q \in Q..(W - 1), Q \in Nat, R \in Nat, W \in Nat, Sizes
  <2>4. ~(Slot(q) = Slot(W) /\ q % BufferSize = W % BufferSize)
    BY ONLY LoadBound, <2>1, <2>3, W \in Nat, CellsApart
  <2>5. CASE Slot(q) = Slot(W)
    BY <2>2, <2>4, <2>5, <1>6, <1>7 DEF Present, Item
  <2>6. CASE Slot(q) # Slot(W)
    BY <2>1, <2>2, <2>6, <1>7 DEF Present, Item
  <2> QED BY <2>5, <2>6
<1>10. InPlace(Q, W)'
  <2>1. \A q \in Q..(W - 1) : Item(q)' \in Msg
    BY <1>9 DEF Numbers, InPlace
  <2> QED BY <2>1, <1>1, <1>7, <1>8, <1>9 DEF InPlace
<1>11. Reachable(W, F)'
  <2>1. \A i \in 0..(PoolCnt - 1) : parts'[i] # NULL => parts[i] # NULL
    BY <1>3, <1>7 DEF Present
  <2> QED BY <2>1 DEF Numbers, Reachable
<1> QED BY <1>1, <1>2, <1>9, <1>10, <1>11 DEF Numbers, Kept

(* Publishing adds message W. *)
LEMMA WritePublishStep ==
  ASSUME LoadBound, Control, NEW R \in Nat, NEW Q \in Nat, NEW S \in Nat,
         NEW W \in Nat, NEW F \in Nat, Numbers(R, Q, S, W, F),
         NEW w \in Writers, WritePublish(w)
  PROVE  /\ Control' /\ Numbers(R, Q, S, W + 1, F)' /\ Kept(Q, W)
         /\ Item(W)' = msg /\ msg \in Msg
<1>1. /\ Control' /\ \A r \in Readers : pc'[r] = pc[r]
      /\ \A x \in Writers : pc'[x] = IF x = w THEN "idle" ELSE "idle"
      /\ wflag # NULL /\ msg \in Msg /\ wflag' = NULL
  <2>1. /\ Goto(w, "idle") /\ wflag = w /\ wflag' = NULL
        /\ wflag # NULL /\ msg \in Msg /\ rflag' = rflag /\ want' = want
    BY Holder DEF Control, WritePublish, readerVars
  <2> QED BY <2>1, WriterMoves
<1>2. Numbered(R, Q, S, W + 1, F)'
  <2>1. write' = (W + 1) % Lap
    BY ForwardWrite DEF Numbers, Numbered, WritePublish
  <2>2. W + 1 <= R + Load /\ S <= W + 1
    BY <1>1, Sizes DEF Numbers, Numbered
  <2> QED BY <2>1, <2>2, <1>1 DEF Numbers, Numbered, WritePublish, readerVars
<1>3. parts' = parts /\ Present(W) /\ Item(W) = msg
  BY DEF WritePublish, Numbers, InPlace
<1>4. InPlace(Q, W + 1)'
  <2>1. \A q \in Q..((W + 1) - 1) : q \in Q..(W - 1) \/ q = W
    OBVIOUS
  <2> QED BY <2>1, <1>1, <1>3 DEF Numbers, InPlace, Present, Item
<1>5. Reachable(W + 1, F)'
  <2> SUFFICES ASSUME NEW i \in 0..(PoolCnt - 1), parts[i] # NULL
               PROVE  \E k \in F..PartNo(W + 1) : k % PoolCnt = i
    BY <1>3 DEF Reachable
  <2>1. PICK k \in F..PartNo(W) : k % PoolCnt = i
    BY DEF Numbers, Reachable
  <2>2. PartNo(W) <= PartNo(W + 1)
    <3>1. W + 1 \in Nat /\ W <= W + 1
      OBVIOUS
    <3> QED BY ONLY <3>1, W \in Nat, Sizes, DivMonotone, Zenon DEF PartNo
  <2>3. W + 1 \in Nat
    OBVIOUS
  <2>4. PartNo(W) \in Nat /\ PartNo(W + 1) \in Nat
    BY ONLY <2>3, W \in Nat, PartNoType, Zenon
  <2>5. k \in F..PartNo(W + 1)
    BY ONLY <2>1, <2>2, <2>4, F \in Nat
  <2> QED BY ONLY <2>1, <2>5
<1>6. Kept(Q, W) /\ Item(W)' = msg
  BY <1>3 DEF Kept, Item
<1> QED BY <1>1, <1>2, <1>4, <1>5, <1>6 DEF Numbers

(* A read that begins takes W for S. *)
LEMMA ReadBeginStep ==
  ASSUME LoadBound, Control, NEW R \in Nat, NEW Q \in Nat, NEW S \in Nat,
         NEW W \in Nat, NEW F \in Nat, Numbers(R, Q, S, W, F),
         NEW r \in Readers, NEW n \in 1..MaxRead, ReadBegin(r, n)
  PROVE  Control' /\ Numbers(R, Q, W, W, F)' /\ Kept(Q, W)
<1>1. /\ Control' /\ \A w \in Writers : pc'[w] = pc[w]
      /\ \A x \in Readers : pc'[x] = IF x = r THEN "read" ELSE "idle"
      /\ rflag = NULL
  <2>1. /\ Goto(r, "read") /\ rflag = NULL /\ rflag' = r
        /\ wflag' = wflag /\ msg' = msg /\ want' \in Nat
    BY MsgBuffAssumption DEF ReadBegin, writerVars
  <2> QED BY <2>1, ReaderMoves
<1>2. Numbered(R, Q, W, W, F)'
  <2>1. Q <= W
    BY DEF Numbers, Numbered
  <2>2. Q = R /\ F = PartNo(R)
    BY <1>1 DEF Numbers, Numbered
  <2> QED BY <2>1, <2>2, <1>1 DEF Numbers, Numbered, ReadBegin, writerVars
<1>3. parts' = parts /\ msg' = msg
  BY DEF ReadBegin, writerVars
<1>4. InPlace(Q, W)' /\ Reachable(W, F)' /\ Kept(Q, W)
  BY <1>1, <1>3 DEF Numbers, InPlace, Present, Item, Reachable, Kept
<1> QED BY <1>1, <1>2, <1>4 DEF Numbers

(* How many messages a read copies. *)
LEMMA CopyCount ==
  ASSUME LoadBound, Control, NEW R \in Nat, NEW Q \in Nat, NEW S \in Nat,
         NEW W \in Nat, NEW F \in Nat, Numbers(R, Q, S, W, F),
         NEW r \in Readers, pc[r] = "read"
  PROVE  /\ CommandCnt \in Nat /\ R + CommandCnt <= S
         /\ Q = R /\ F = PartNo(R) /\ rflag = r /\ rflag # NULL
<1>1. rflag = r /\ rflag # NULL
  BY Holder
<1>2. R <= S /\ S <= R + Capacity
  BY ONLY LoadBound, Numbers(R, Q, S, W, F), R \in Nat, Q \in Nat, S \in Nat,
     W \in Nat, F \in Nat, Order
<1>3. read = (R + Capacity) % Lap /\ seen = S % Lap /\ Q = R /\ F = PartNo(R)
  BY <1>1 DEF Numbers, Numbered
<1>4. Used(read, seen) = S - R
  BY ONLY <1>2, <1>3, R \in Nat, S \in Nat, UsedIs, Zenon
<1>5. want \in Nat
  BY DEF Control
<1>6. CommandCnt \in Nat /\ R + CommandCnt <= S
  BY ONLY <1>2, <1>4, <1>5, R \in Nat, S \in Nat DEF CommandCnt
<1> QED BY <1>1, <1>3, <1>6

(* The copy moves Q on by as many messages. *)
LEMMA ReadCopyStep ==
  ASSUME LoadBound, Control, NEW R \in Nat, NEW Q \in Nat, NEW S \in Nat,
         NEW W \in Nat, NEW F \in Nat, Numbers(R, Q, S, W, F),
         NEW r \in Readers, ReadCopy(r), NEW k \in Nat, k = CommandCnt
  PROVE  Control' /\ Numbers(R, R + k, S, W, F)' /\ Kept(Q, W)
<1>1. /\ Control' /\ \A w \in Writers : pc'[w] = pc[w]
      /\ \A x \in Readers : pc'[x] = IF x = r THEN "gc" ELSE "idle"
      /\ rflag # NULL
  <2>1. /\ Goto(r, "gc") /\ rflag = r /\ rflag' = r /\ rflag # NULL
        /\ wflag' = wflag /\ msg' = msg /\ want' \in Nat
    BY Holder DEF Control, ReadCopy, writerVars
  <2> QED BY <2>1, ReaderMoves
<1>2. k \in Nat /\ R + k <= S /\ Q = R /\ F = PartNo(R) /\ R + k \in Nat
      /\ R <= R + k
  <2>1. k \in Nat /\ R + k <= S /\ Q = R /\ F = PartNo(R)
    BY CopyCount DEF ReadCopy
  <2> QED BY ONLY <2>1, R \in Nat
<1>3. cursor' = ((R + k) + Capacity) % Lap
  <2>1. read = (R + Capacity) % Lap
    BY DEF Numbers, Numbered
  <2>2. cursor' = Forward(read, k)
    BY DEF ReadCopy
  <2>3. Forward((R + Capacity) % Lap, k) = ((R + k) + Capacity) % Lap
    BY ONLY <1>2, R \in Nat, ForwardRead, Zenon
  <2> QED BY ONLY <2>1, <2>2, <2>3, Zenon
<1>4. PartNo(R) <= PartNo(R + k)
  BY ONLY <1>2, R \in Nat, Sizes, DivMonotone, Zenon DEF PartNo
<1>5. /\ read' = read /\ write' = write /\ freeH' = freeH /\ wflag' = wflag
      /\ rflag' = rflag /\ seen' = seen /\ parts' = parts /\ msg' = msg
  BY DEF ReadCopy, writerVars
<1>6. Numbered(R, R + k, S, W, F)'
  <2>1. /\ read = (R + Capacity) % Lap /\ write = W % Lap
        /\ freeH = (F + PoolCnt) % (2 * PoolCnt) /\ S <= W /\ W <= R + Load
        /\ PartNo(R) <= F /\ (wflag # NULL => W < R + Load) /\ seen = S % Lap
    BY <1>1 DEF Numbers, Numbered
  <2>2. F <= PartNo(R + k)
    BY ONLY <1>2, <1>4
  <2>3. rflag' # NULL /\ \A x \in Readers : pc'[x] # "read"
    BY ONLY <1>1, <1>5
  <2> QED BY ONLY <2>1, <2>2, <2>3, <1>2, <1>3, <1>5 DEF Numbered
<1>7. Kept(Q, W)
  BY <1>5 DEF Kept, Item
<1>8. InPlace(R + k, W)'
  <2>1. \A q \in (R + k)..(W - 1) : q \in Q..(W - 1)
    BY ONLY <1>2, R \in Nat, W \in Nat
  <2>2. InPlace(Q, W)
    BY DEF Numbers
  <2> QED BY ONLY <2>1, <2>2, <1>1, <1>5 DEF InPlace, Present, Item
<1>9. Reachable(W, F)'
  BY <1>5 DEF Numbers, Reachable
<1> QED BY <1>1, <1>6, <1>7, <1>8, <1>9 DEF Numbers

(* A turn of the release loop moves F on; the part it frees holds no message
   that waits, and the writer is not in it. *)
LEMMA ReadGcStep ==
  ASSUME LoadBound, Control, NEW R \in Nat, NEW Q \in Nat, NEW S \in Nat,
         NEW W \in Nat, NEW F \in Nat, Numbers(R, Q, S, W, F),
         NEW r \in Readers, ReadGc(r)
  PROVE  Control' /\ Numbers(R, Q, S, W, F + 1)' /\ Kept(Q, W)
<1>1. /\ pc' = pc /\ wflag' = wflag /\ rflag' = rflag /\ msg' = msg /\ want' = want
      /\ read' = read /\ cursor' = cursor /\ write' = write /\ seen' = seen
      /\ rflag # NULL /\ rflag = r /\ pc[r] = "gc"
  BY Holder DEF ReadGc, writerVars
<1>2. Control'
  BY <1>1 DEF Control
<1>3. /\ read = (R + Capacity) % Lap /\ cursor = (Q + Capacity) % Lap
      /\ freeH = (F + PoolCnt) % (2 * PoolCnt) /\ seen = S % Lap /\ write = W % Lap
      /\ wflag # NULL => W < R + Load
  BY <1>1 DEF Numbers, Numbered
<1>4. /\ R <= Q /\ Q <= S /\ S <= W /\ W <= R + Load /\ Q <= R + Capacity
      /\ PartNo(R) <= F /\ F <= PartNo(Q) /\ PartNo(Q) <= PartNo(W)
      /\ PartNo(Q) <= PartNo(S) /\ PartNo(S) <= PartNo(W)
      /\ PartNo(R) \in Nat /\ PartNo(Q) \in Nat /\ PartNo(S) \in Nat
      /\ PartNo(W) \in Nat
  <2>1. /\ R <= Q /\ Q <= S /\ S <= W /\ W <= R + Load /\ S <= R + Capacity
        /\ PartNo(R) <= F /\ F <= PartNo(Q) /\ PartNo(Q) <= PartNo(W)
        /\ PartNo(Q) <= PartNo(S) /\ PartNo(S) <= PartNo(W)
        /\ PartNo(R) \in Nat /\ PartNo(Q) \in Nat /\ PartNo(S) \in Nat
        /\ PartNo(W) \in Nat
    BY ONLY LoadBound, Numbers(R, Q, S, W, F), R \in Nat, Q \in Nat, S \in Nat,
       W \in Nat, F \in Nat, Order
  <2> QED BY ONLY <2>1, Q \in Nat, S \in Nat, R \in Nat, Sizes
(* The loop is still behind the reader. *)
<1>5. F < PartNo(Q)
  <2>1. (F + PoolCnt) % (2 * PoolCnt) # PartOf((Q + Capacity) % Lap)
    BY <1>3 DEF ReadGc
  <2>2. F # PartNo(Q)
    BY ONLY <2>1, <1>4, LoopMeets, R \in Nat, Q \in Nat, F \in Nat, Zenon
  <2> QED BY ONLY <2>2, <1>4, F \in Nat
<1>6. freeH' = ((F + 1) + PoolCnt) % (2 * PoolCnt)
  <2>1. freeH' = (freeH + 1) % (2 * PoolCnt)
    BY DEF ReadGc
  <2> QED BY ONLY <2>1, <1>3, F \in Nat, ReleaseSlot, Zenon
<1>7. parts' = IF F % PoolCnt = Slot(S) THEN parts
               ELSE [parts EXCEPT ![F % PoolCnt] = NULL]
  <2>1. freeH % PoolCnt = F % PoolCnt
    BY ONLY <1>3, F \in Nat, ReleaseSlot, Zenon
  <2>2. PartOf(seen) % PoolCnt = Slot(S)
    BY ONLY <1>3, S \in Nat, WriteSide, Zenon
  <2> QED BY <2>1, <2>2 DEF ReadGc
<1>8. parts \in [0..(PoolCnt - 1) ->
                   {NULL} \cup [0..(BufferSize - 1) -> Msg \cup {Junk}]]
  BY DEF Numbers, InPlace
<1>9. /\ parts' \in [0..(PoolCnt - 1) ->
                       {NULL} \cup [0..(BufferSize - 1) -> Msg \cup {Junk}]]
      /\ \A i \in 0..(PoolCnt - 1) :
           /\ i # F % PoolCnt => parts'[i] = parts[i]
           /\ F % PoolCnt # Slot(S) /\ i = F % PoolCnt => parts'[i] = NULL
           /\ parts'[i] # NULL => parts[i] # NULL
  BY ONLY <1>7, <1>8
<1>10. Numbered(R, Q, S, W, F + 1)'
  <2>1. PartNo(R) <= F + 1 /\ F + 1 <= PartNo(Q)
    BY ONLY <1>4, <1>5, F \in Nat
  <2>2. rflag' # NULL /\ \A x \in Readers : pc'[x] # "read"
    BY <1>1, Holder
  <2> QED BY ONLY <1>1, <1>3, <1>4, <1>6, <2>1, <2>2 DEF Numbered
(* What is released holds no message that waits and is not written to. *)
<1>11. ASSUME NEW q \in Nat, Q <= q, q < R + Load
       PROVE  parts'[Slot(q)] = parts[Slot(q)]
  <2>1. PartNo(Q) <= PartNo(q)
    BY ONLY <1>11, Q \in Nat, Sizes, DivMonotone, Zenon DEF PartNo
  <2>2. Slot(q) \in 0..(PoolCnt - 1) /\ PartNo(q) \in Nat
    BY ONLY <1>11, PartNoType
  <2>3. F < PartNo(q)
    BY ONLY <2>1, <2>2, <1>4, <1>5, F \in Nat
  <2>4. Slot(q) # F % PoolCnt
    BY ONLY <1>11, <2>3, <1>4, LoadBound, R \in Nat, F \in Nat, NotReleased, Zenon
  <2> QED BY ONLY <2>2, <2>4, <1>9, Zenon
<1>12. \A q \in Q..(W - 1) : Present(q)' /\ Item(q)' = Item(q)
  <2> SUFFICES ASSUME NEW q \in Q..(W - 1) PROVE Present(q)' /\ Item(q)' = Item(q)
    OBVIOUS
  <2>1. q \in Nat /\ Q <= q /\ q < R + Load
    BY ONLY <1>4, Q \in Nat, W \in Nat, R \in Nat, q \in Q..(W - 1), Sizes
  <2>2. parts'[Slot(q)] = parts[Slot(q)]
    BY <2>1, <1>11, Zenon
  <2>3. Present(q)
    BY DEF Numbers, InPlace
  <2> QED BY ONLY <2>2, <2>3 DEF Present, Item
<1>13. InPlace(Q, W)'
  <2>1. \A q \in Q..(W - 1) : Item(q)' \in Msg
    BY <1>12 DEF Numbers, InPlace
  <2>2. ASSUME NEW w \in Writers
        PROVE  /\ pc'[w] \in {"copy", "publish"} => Present(W)'
               /\ pc'[w] = "publish" => Item(W)' = msg'
    <3>1. CASE pc[w] = "idle"
      BY <3>1, <1>1
    <3>2. CASE pc[w] # "idle"
      <4>1. wflag # NULL
        BY <3>2, Holder
      <4>2. W < R + Load /\ Q <= W
        BY ONLY <4>1, <1>3, <1>4, Q \in Nat, S \in Nat, W \in Nat
      <4>3. parts'[Slot(W)] = parts[Slot(W)]
        BY <4>2, <1>11, Zenon
      <4>4. InPlace(Q, W)
        BY DEF Numbers
      <4> QED BY ONLY <4>3, <4>4, <1>1, w \in Writers DEF InPlace, Present, Item
    <3> QED BY <3>1, <3>2
  <2>3. /\ \A q \in Q..(W - 1) : Present(q)' /\ Item(q)' \in Msg
        /\ \A w \in Writers : /\ pc'[w] \in {"copy", "publish"} => Present(W)'
                              /\ pc'[w] = "publish" => Item(W)' = msg'
    BY <2>1, <2>2, <1>12
  <2> QED BY ONLY <2>3, <1>9 DEF InPlace, Item, Present
(* A part kept for the writer of the snapshot is that writer's part.       *)
<1>14. Reachable(W, F + 1)'
  <2> SUFFICES ASSUME NEW i \in 0..(PoolCnt - 1), parts'[i] # NULL
               PROVE  \E k \in (F + 1)..PartNo(W) : k % PoolCnt = i
    BY DEF Reachable
  <2>1. PICK k \in F..PartNo(W) : k % PoolCnt = i
    BY <1>9 DEF Numbers, Reachable
  <2>2. CASE k # F
    <3>1. k \in (F + 1)..PartNo(W)
      BY ONLY <2>1, <2>2, <1>4, F \in Nat
    <3> QED BY ONLY <2>1, <3>1
  <2>3. CASE k = F
    <3>1. F % PoolCnt = Slot(S)
      BY ONLY <2>1, <2>3, <1>9, parts'[i] # NULL, i \in 0..(PoolCnt - 1)
    <3>2. PartNo(S) % PoolCnt = i
      BY ONLY <2>1, <2>3, <3>1 DEF Slot
    <3>3. PartNo(S) \in (F + 1)..PartNo(W)
      BY ONLY <1>4, <1>5, F \in Nat
    <3> QED BY ONLY <3>2, <3>3
  <2> QED BY ONLY <2>2, <2>3
<1> QED BY ONLY <1>2, <1>10, <1>12, <1>13, <1>14 DEF Numbers, Kept

(* The end of a read moves R up to Q, when F has met the part of Q. *)
LEMMA ReadPublishStep ==
  ASSUME LoadBound, Control, NEW R \in Nat, NEW Q \in Nat, NEW S \in Nat,
         NEW W \in Nat, NEW F \in Nat, Numbers(R, Q, S, W, F),
         NEW r \in Readers, ReadPublish(r)
  PROVE  Control' /\ Numbers(Q, Q, S, W, F)' /\ Kept(Q, W)
<1>1. /\ Control' /\ \A w \in Writers : pc'[w] = pc[w]
      /\ \A x \in Readers : pc'[x] = IF x = r THEN "idle" ELSE "idle"
      /\ rflag # NULL /\ rflag' = NULL
  <2>1. /\ Goto(r, "idle") /\ rflag = r /\ rflag' = NULL /\ rflag # NULL
        /\ wflag' = wflag /\ msg' = msg /\ want' \in Nat
    BY Holder DEF Control, ReadPublish, writerVars
  <2> QED BY <2>1, ReaderMoves
<1>2. /\ cursor = (Q + Capacity) % Lap /\ write = W % Lap
      /\ freeH = (F + PoolCnt) % (2 * PoolCnt)
      /\ wflag # NULL => W < R + Load
  BY DEF Numbers, Numbered
<1>3. /\ R <= Q /\ Q <= S /\ S <= W /\ W <= Q + Load /\ Q <= R + Capacity
      /\ PartNo(R) <= F /\ F <= PartNo(Q) /\ PartNo(Q) \in Nat
  <2>1. /\ R <= Q /\ Q <= S /\ S <= W /\ W <= Q + Load /\ S <= R + Capacity
        /\ PartNo(R) <= F /\ F <= PartNo(Q) /\ PartNo(Q) \in Nat
    BY ONLY LoadBound, Numbers(R, Q, S, W, F), R \in Nat, Q \in Nat, S \in Nat,
       W \in Nat, F \in Nat, Order
  <2> QED BY ONLY <2>1, Q \in Nat, S \in Nat, R \in Nat, Sizes
<1>4. F = PartNo(Q)
  <2>1. (F + PoolCnt) % (2 * PoolCnt) = PartOf((Q + Capacity) % Lap)
    BY <1>2 DEF ReadPublish
  <2> QED BY ONLY <2>1, <1>3, LoopMeets, R \in Nat, Q \in Nat, F \in Nat, Zenon
<1>5. /\ read' = cursor /\ cursor' = cursor /\ write' = write /\ freeH' = freeH
      /\ wflag' = wflag /\ parts' = parts /\ msg' = msg
  BY DEF ReadPublish, writerVars
<1>6. Numbered(Q, Q, S, W, F)'
  <2>1. /\ Q <= Q /\ PartNo(Q) <= F /\ F <= PartNo(Q)
        /\ (wflag # NULL => W < Q + Load)
    BY ONLY <1>2, <1>3, <1>4, R \in Nat, Q \in Nat, W \in Nat, Sizes
  <2>2. \A x \in Readers : pc'[x] # "read"
    BY ONLY <1>1
  <2> QED BY ONLY <1>1, <1>2, <1>3, <1>4, <1>5, <2>1, <2>2 DEF Numbered
<1>7. InPlace(Q, W)' /\ Reachable(W, F)' /\ Kept(Q, W)
  BY <1>1, <1>5 DEF Numbers, InPlace, Present, Item, Reachable, Kept
<1> QED BY <1>1, <1>6, <1>7 DEF Numbers

-----------------------------------------------------------------------------
(* Every step keeps the invariant. *)
LEMMA StepIInv == LoadBound /\ IInv /\ [Next]_vars => IInv'
<1> SUFFICES ASSUME LoadBound, IInv, [Next]_vars PROVE IInv'
  OBVIOUS
<1>1. Control
  BY DEF IInv
<1>2. PICK R \in Nat, Q \in Nat, S \in Nat, W \in Nat, F \in Nat :
        Numbers(R, Q, S, W, F)
  BY Zenon DEF IInv
<1>3. SUFFICES \E a, b, c, d, e \in Nat : Control' /\ Numbers(a, b, c, d, e)'
  BY Zenon DEF IInv
<1>4. ASSUME NEW w \in Writers, NEW m \in Msg, WriteBegin(w, m)
      PROVE  Control' /\ Numbers(R, Q, S, W, F)'
  BY <1>1, <1>2, <1>4, WriteBeginStep, Zenon
<1>5. ASSUME NEW w \in Writers, WriteAlloc(w) PROVE Control' /\ Numbers(R, Q, S, W, F)'
  BY <1>1, <1>2, <1>5, WriteAllocStep, Zenon
<1>6. ASSUME NEW w \in Writers, WriteNoMemory(w)
      PROVE  Control' /\ Numbers(R, Q, S, W, F)'
  BY <1>1, <1>2, <1>6, WriteNoMemoryStep, Zenon
<1>7. ASSUME NEW w \in Writers, WriteCopy(w) PROVE Control' /\ Numbers(R, Q, S, W, F)'
  BY <1>1, <1>2, <1>7, WriteCopyStep, Zenon
<1>8. ASSUME NEW w \in Writers, WritePublish(w)
      PROVE  Control' /\ Numbers(R, Q, S, W + 1, F)' /\ W + 1 \in Nat
  <2>1. W + 1 \in Nat
    OBVIOUS
  <2> QED BY <1>1, <1>2, <1>8, <2>1, WritePublishStep, Zenon
<1>9. ASSUME NEW r \in Readers, NEW n \in 1..MaxRead, ReadBegin(r, n)
      PROVE  Control' /\ Numbers(R, Q, W, W, F)'
  BY <1>1, <1>2, <1>9, ReadBeginStep, Zenon
<1>10. ASSUME NEW r \in Readers, ReadCopy(r)
       PROVE  \E q \in Nat : Control' /\ Numbers(R, q, S, W, F)'
  <2>1. pc[r] = "read"
    BY <1>10 DEF ReadCopy
  <2>2. CommandCnt \in Nat
    BY <1>1, <1>2, <2>1, CopyCount, Zenon
  <2>3. PICK k \in Nat : k = CommandCnt
    BY <2>2
  <2>4. Control' /\ Numbers(R, R + k, S, W, F)'
    BY <1>1, <1>2, <1>10, <2>3, ReadCopyStep, Zenon
  <2>5. R + k \in Nat
    OBVIOUS
  <2> QED BY <2>4, <2>5, Zenon
<1>11. ASSUME NEW r \in Readers, ReadGc(r)
       PROVE  Control' /\ Numbers(R, Q, S, W, F + 1)' /\ F + 1 \in Nat
  <2>1. F + 1 \in Nat
    OBVIOUS
  <2> QED BY <1>1, <1>2, <1>11, <2>1, ReadGcStep, Zenon
<1>12. ASSUME NEW r \in Readers, ReadPublish(r)
       PROVE  Control' /\ Numbers(Q, Q, S, W, F)'
  BY <1>1, <1>2, <1>12, ReadPublishStep, Zenon
<1>13. CASE UNCHANGED vars
  <2>1. Control' /\ Numbers(R, Q, S, W, F)'
    BY <1>1, <1>2, <1>13
       DEF vars, Control, Numbers, Numbered, InPlace, Reachable, Present, Item
  <2> QED BY <2>1, Zenon
<1>14. CASE \E w \in Writers : Write(w)
  <2>1. PICK w \in Writers : Write(w)
    BY <1>14
  <2> QED BY <2>1, <1>4, <1>5, <1>6, <1>7, <1>8, Zenon DEF Write
<1>15. CASE \E r \in Readers : Read(r)
  <2>1. PICK r \in Readers : Read(r)
    BY <1>15
  <2> QED BY <2>1, <1>9, <1>10, <1>11, <1>12, Zenon DEF Read
<1> QED BY <1>13, <1>14, <1>15 DEF Next

(* The invariant holds in every state. *)
LEMMA IInvAlways ==
  ASSUME LoadBound
  PROVE  Spec => []IInv
<1>1. Init => IInv
  <2>1. 0 \in Nat
    OBVIOUS
  <2> QED BY <2>1, Initially, Zenon DEF IInv
<1>2. IInv /\ [Next]_vars => IInv'
  BY StepIInv
<1> QED BY <1>1, <1>2, PTL DEF Spec

(* A thread copies only to and from a part that is there: the release loop *)
(* of a concurrent read never takes a part away under it (NoStrayCopy).    *)
THEOREM CopiesSafe ==
  ASSUME LoadBound
  PROVE  Spec => []NoStrayCopy
<1>1. IInv => NoStrayCopy
  <2> SUFFICES ASSUME IInv PROVE NoStrayCopy
    OBVIOUS
  <2>1. PICK R \in Nat, Q \in Nat, S \in Nat, W \in Nat, F \in Nat :
          Numbers(R, Q, S, W, F)
    BY Zenon DEF IInv
  <2>2. Control
    BY DEF IInv
  <2>3. ASSUME NEW w \in Writers, pc[w] = "copy" PROVE Allocated(write)
    <3>1. Present(W) /\ write = W % Lap
      BY <2>1, <2>3 DEF Numbers, InPlace, Numbered
    <3>2. PartOf(write) % PoolCnt = Slot(W)
      BY ONLY <3>1, W \in Nat, WriteSide, Zenon
    <3> QED BY ONLY <3>1, <3>2 DEF Allocated, Present
  <2>4. ASSUME NEW r \in Readers, pc[r] = "read", NEW i \in 1..CommandCnt
        PROVE  Allocated(Forward(read, i - 1))
    <3>1. /\ CommandCnt \in Nat /\ R + CommandCnt <= S /\ Q = R
      BY <2>1, <2>2, <2>4, CopyCount, Zenon
    <3>2. S <= W /\ read = (R + Capacity) % Lap
      BY <2>1 DEF Numbers, Numbered
    <3>3. i - 1 \in Nat /\ R + (i - 1) \in Nat /\ R + (i - 1) \in Q..(W - 1)
      BY ONLY <3>1, <3>2, i \in 1..CommandCnt, R \in Nat, S \in Nat, W \in Nat
    <3>4. Forward(read, i - 1) = ((R + (i - 1)) + Capacity) % Lap
      BY ONLY <3>2, <3>3, R \in Nat, ForwardRead, Zenon
    <3>5. PartOf(Forward(read, i - 1)) % PoolCnt = Slot(R + (i - 1))
      BY ONLY <3>3, <3>4, ReadSide, Zenon
    <3>6. Present(R + (i - 1))
      BY <2>1, <3>3 DEF Numbers, InPlace
    <3> QED BY ONLY <3>5, <3>6 DEF Allocated, Present
  <2> QED BY <2>3, <2>4, Zenon DEF NoStrayCopy
<1> QED BY <1>1, IInvAlways, PTL

(* No part of the array is forgotten: the releases reach every part that   *)
(* is allocated (NoLostPart).                                              *)
THEOREM PartsKept ==
  ASSUME LoadBound
  PROVE  Spec => []NoLostPart
<1>1. IInv => NoLostPart
  <2> SUFFICES ASSUME IInv, NEW i \in 0..(PoolCnt - 1), parts[i] # NULL
               PROVE  \E k \in 0..((PartOf(write) - freeH + PoolCnt) % (2 * PoolCnt)) :
                        (freeH + k) % PoolCnt = i
    BY DEF NoLostPart
  <2>1. PICK R \in Nat, Q \in Nat, S \in Nat, W \in Nat, F \in Nat :
          Numbers(R, Q, S, W, F)
    BY Zenon DEF IInv
  <2>2. PICK j \in F..PartNo(W) : j % PoolCnt = i
    BY <2>1 DEF Numbers, Reachable
  <2>3. write = W % Lap /\ freeH = (F + PoolCnt) % (2 * PoolCnt)
    BY <2>1 DEF Numbers, Numbered
  <2>4. /\ W <= R + Capacity /\ PartNo(R) <= F /\ F <= PartNo(W)
        /\ PartNo(W) \in Nat
    <3>1. /\ W <= R + Capacity /\ PartNo(R) <= F /\ F <= PartNo(Q)
          /\ PartNo(Q) <= PartNo(W) /\ PartNo(W) \in Nat /\ PartNo(Q) \in Nat
      BY ONLY LoadBound, <2>1, R \in Nat, Q \in Nat, S \in Nat, W \in Nat, F \in Nat,
         Order
    <3> QED BY ONLY <3>1, F \in Nat
  <2>5. PartNo(W) <= F + PoolCnt
    BY ONLY <2>4, R \in Nat, W \in Nat, F \in Nat, LoopMeets, Zenon
  <2>6. PartOf(write) = PartNo(W) % (2 * PoolCnt)
    BY ONLY <2>3, W \in Nat, WriteSide, Zenon
  <2>7. ((PartNo(W) % (2 * PoolCnt)) - ((F + PoolCnt) % (2 * PoolCnt)) + PoolCnt)
          % (2 * PoolCnt) = PartNo(W) - F
    BY ONLY <2>4, <2>5, F \in Nat, PartsBehind, Zenon
  <2>8. (PartOf(write) - freeH + PoolCnt) % (2 * PoolCnt) = PartNo(W) - F
    BY ONLY <2>3, <2>6, <2>7, Zenon
  <2>10. j - F \in 0..(PartNo(W) - F) /\ j - F \in Nat /\ F + (j - F) = j
    BY ONLY <2>2, <2>4, F \in Nat
  <2>11. (freeH + (j - F)) % PoolCnt = i
    <3>1. freeH \in Nat
      BY ONLY <2>3, F \in Nat, Sizes
    <3>2. freeH % PoolCnt = F % PoolCnt
      BY ONLY <2>3, F \in Nat, ReleaseSlot, Zenon
    <3>3. ((freeH % PoolCnt) + (j - F)) % PoolCnt = (freeH + (j - F)) % PoolCnt
      BY ONLY <2>10, <3>1, Sizes, ModPlus, Zenon
    <3>4. ((F % PoolCnt) + (j - F)) % PoolCnt = (F + (j - F)) % PoolCnt
      BY ONLY <2>10, F \in Nat, Sizes, ModPlus, Zenon
    <3> QED BY ONLY <2>2, <2>10, <3>2, <3>3, <3>4, Zenon
  <2> QED BY ONLY <2>8, <2>10, <2>11, Zenon
<1> QED BY <1>1, IInvAlways, PTL

-----------------------------------------------------------------------------
(* The refinement.  The messages of the abstract queue are those from Q to *)
(* W - 1; what a reader has taken it holds in got until it returns.        *)
Waiting == CellsFrom(cursor, Used(cursor, write))
Taken == [r \in Readers |-> IF pc[r] = "gc" THEN got ELSE <<>>]
Items(Q, W) == [i \in 1..(W - Q) |-> Item(Q + (i - 1))]

(* Cells that are there hold the messages of their numbers. *)
LEMMA CellsAre ==
  ASSUME NEW q \in Nat, NEW w \in Nat, q <= w, \A x \in q..(w - 1) : Present(x)
  PROVE  CellsFrom((q + Capacity) % Lap, w - q) = Items(q, w)
<1>1. ASSUME NEW i \in 1..(w - q)
      PROVE  Cell(Forward((q + Capacity) % Lap, i - 1)) = Item(q + (i - 1))
  <2>1. i - 1 \in Nat /\ q + (i - 1) \in Nat /\ q + (i - 1) \in q..(w - 1)
    BY ONLY q \in Nat, w \in Nat, i \in 1..(w - q)
  <2>2. Forward((q + Capacity) % Lap, i - 1) = ((q + (i - 1)) + Capacity) % Lap
    BY ONLY <2>1, q \in Nat, ForwardRead, Zenon
  <2>3. /\ PartOf(Forward((q + Capacity) % Lap, i - 1)) % PoolCnt = Slot(q + (i - 1))
        /\ Forward((q + Capacity) % Lap, i - 1) % BufferSize = (q + (i - 1)) % BufferSize
    BY ONLY <2>1, <2>2, ReadSide, Zenon
  <2>4. Present(q + (i - 1))
    BY <2>1
  <2> QED BY ONLY <2>3, <2>4 DEF Cell, Allocated, Present, Item
<1> QED BY ONLY <1>1, Zenon DEF CellsFrom, Items

(* What waits in the buffer, from the numbers. *)
WaitingIsItems ==
  \A R, Q, S, W, F \in Nat :
    Numbers(R, Q, S, W, F) => Waiting = Items(Q, W) /\ Q <= W /\ W <= Q + Load

(* The numbers of a state give what waits in it. *)
LEMMA WaitingNow == LoadBound => WaitingIsItems
<1> SUFFICES ASSUME LoadBound, NEW R \in Nat, NEW Q \in Nat, NEW S \in Nat,
                    NEW W \in Nat, NEW F \in Nat, Numbers(R, Q, S, W, F)
             PROVE  Waiting = Items(Q, W) /\ Q <= W /\ W <= Q + Load
  BY Zenon DEF WaitingIsItems
<1>1. Q <= W /\ W <= Q + Load /\ W <= Q + Capacity
  <2>1. Q <= S /\ S <= W /\ W <= Q + Load /\ W <= Q + Capacity
    BY ONLY LoadBound, Numbers(R, Q, S, W, F), R \in Nat, Q \in Nat, S \in Nat,
       W \in Nat, F \in Nat, Order
  <2> QED BY ONLY <2>1, Q \in Nat, S \in Nat, W \in Nat
<1>2. /\ cursor = (Q + Capacity) % Lap /\ write = W % Lap
      /\ \A q \in Q..(W - 1) : Present(q)
  BY DEF Numbers, Numbered, InPlace
<1>3. Used(cursor, write) = W - Q
  BY ONLY <1>1, <1>2, Q \in Nat, W \in Nat, UsedIs, Zenon
<1>4. CellsFrom((Q + Capacity) % Lap, W - Q) = Items(Q, W)
  BY ONLY <1>1, <1>2, Q \in Nat, W \in Nat, CellsAre, Zenon
<1> QED BY ONLY <1>1, <1>2, <1>3, <1>4, Zenon DEF Waiting

(* The same after a step. *)
LEMMA WaitingNext ==
  ASSUME LoadBound
  PROVE  WaitingIsItems'
<1>1. WaitingIsItems
  BY WaitingNow
<1> QED BY <1>1, PTL

(* Messages that are kept are the same messages after a step. *)
LEMMA KeptItems ==
  ASSUME NEW Q \in Nat, NEW W \in Nat, NEW q \in Nat, Q <= q, Kept(Q, W)
  PROVE  Items(q, W)' = Items(q, W)
<1>1. ASSUME NEW i \in 1..(W - q)
      PROVE  Item(q + (i - 1))' = Item(q + (i - 1))
  <2>1. q + (i - 1) \in Q..(W - 1)
    BY ONLY Q \in Nat, W \in Nat, q \in Nat, Q <= q, i \in 1..(W - q)
  <2> QED BY <2>1 DEF Kept
<1> QED BY ONLY <1>1, Zenon DEF Items

(* Facts about sequences of messages. *)
LEMMA ItemsSequence ==
  ASSUME NEW Q \in Nat, NEW W \in Nat, Q <= W
  PROVE  Items(Q, W) \in Seq({Item(x) : x \in Nat}) /\ Len(Items(Q, W)) = W - Q
<1> DEFINE n == W - Q
<1>1. n \in Nat
  OBVIOUS
<1>2. ASSUME NEW i \in 1..n PROVE Item(Q + (i - 1)) \in {Item(x) : x \in Nat}
  <2>1. Q + (i - 1) \in Nat
    BY <1>1
  <2> QED BY <2>1
<1> QED BY <1>1, <1>2 DEF Items

(* One more message is appended. *)
LEMMA ItemsAppend ==
  ASSUME NEW Q \in Nat, NEW W \in Nat, Q <= W
  PROVE  Items(Q, W + 1) = Append(Items(Q, W), Item(W))
<1> DEFINE s == Items(Q, W)
<1>1. s \in Seq({Item(x) : x \in Nat}) /\ Len(s) = W - Q
  BY ItemsSequence
<1> QED BY <1>1 DEF Items

AppendsItem == \A Q, W \in Nat : Q <= W => Items(Q, W + 1) = Append(Items(Q, W), Item(W))

(* One more message is appended after a step, too. *)
LEMMA ItemsAppendNext == AppendsItem'
<1>1. AppendsItem
  BY ItemsAppend, Zenon DEF AppendsItem
<1> QED BY <1>1, PTL

(* The front of a sequence of messages, and what is left of it. *)
Split(Q, W, k) ==
  /\ Items(Q, Q + k) = SubSeq(Items(Q, W), 1, k)
  /\ Items(Q + k, W) = SubSeq(Items(Q, W), k + 1, Len(Items(Q, W)))

(* The first k messages, and those after them. *)
LEMMA ItemsSplit ==
  ASSUME NEW Q \in Nat, NEW W \in Nat, NEW k \in Nat, Q + k <= W
  PROVE  Split(Q, W, k)
<1> DEFINE s == Items(Q, W)
<1>1. /\ s \in Seq({Item(x) : x \in Nat}) /\ Len(s) = W - Q /\ W - Q \in Nat
      /\ k <= W - Q /\ Q <= W /\ (Q + k) - Q = k /\ Q + k \in Nat
      /\ W - (Q + k) = (W - Q) - k /\ (W - Q) - k \in Nat
  <2>1. /\ W - Q \in Nat /\ k <= W - Q /\ Q <= W /\ (Q + k) - Q = k
        /\ Q + k \in Nat /\ W - (Q + k) = (W - Q) - k /\ (W - Q) - k \in Nat
    OBVIOUS
  <2>2. s \in Seq({Item(x) : x \in Nat}) /\ Len(s) = W - Q
    BY <2>1, ItemsSequence, Zenon
  <2> QED BY ONLY <2>1, <2>2, Zenon
<1>2. Items(Q, Q + k) = SubSeq(s, 1, k)
  <2>1. \A i \in 1..k : Item(Q + (i - 1)) = s[1 + i - 1]
    <3> SUFFICES ASSUME NEW i \in 1..k PROVE Item(Q + (i - 1)) = s[1 + i - 1]
      OBVIOUS
    <3>1. i \in 1..(W - Q) /\ 1 + i - 1 = i
      BY ONLY <1>1, k \in Nat, i \in 1..k
    <3> QED BY ONLY <3>1 DEF s, Items
  <2>2. /\ Items(Q, Q + k) = [i \in 1..k |-> Item(Q + (i - 1))]
    BY ONLY <1>1 DEF Items
  <2>3. SubSeq(s, 1, k) = [i \in 1..k |-> s[1 + i - 1]]
    <3> HIDE DEF s
    <3> QED BY ONLY <1>1, k \in Nat
  <2> HIDE DEF s
  <2> QED BY ONLY <2>1, <2>2, <2>3
<1>3. Items(Q + k, W) = SubSeq(s, k + 1, Len(s))
  <2>1. \A i \in 1..((W - Q) - k) : Item((Q + k) + (i - 1)) = s[(k + 1) + i - 1]
    <3> SUFFICES ASSUME NEW i \in 1..((W - Q) - k)
                 PROVE  Item((Q + k) + (i - 1)) = s[(k + 1) + i - 1]
      OBVIOUS
    <3>1. /\ k + i \in 1..(W - Q) /\ (k + 1) + i - 1 = k + i
          /\ (Q + k) + (i - 1) = Q + ((k + i) - 1)
      BY ONLY <1>1, Q \in Nat, k \in Nat, i \in 1..((W - Q) - k)
    <3> QED BY ONLY <3>1 DEF s, Items
  <2>2. Items(Q + k, W) = [i \in 1..((W - Q) - k) |-> Item((Q + k) + (i - 1))]
    BY ONLY <1>1 DEF Items
  <2>3. SubSeq(s, k + 1, Len(s)) = [i \in 1..((W - Q) - k) |-> s[(k + 1) + i - 1]]
    <3> HIDE DEF s
    <3>1. Len(s) - (k + 1) + 1 = (W - Q) - k
      BY ONLY <1>1, k \in Nat
    <3> QED BY ONLY <1>1, <3>1, k \in Nat
  <2> HIDE DEF s
  <2> QED BY ONLY <2>1, <2>2, <2>3
<1> QED BY <1>2, <1>3 DEF Split

(* What readers have taken changes only when a reader moves. *)
LEMMA TakenStays ==
  ASSUME \A r \in Readers : pc'[r] = "gc" <=> pc[r] = "gc", got' = got
  PROVE  Taken' = Taken
  BY DEF Taken

(* Steps that publish nothing and take nothing do not show in the queue. *)
LEMMA Silent ==
  ASSUME LoadBound, NEW R \in Nat, NEW Q \in Nat, NEW S \in Nat, NEW W \in Nat,
         NEW F \in Nat, Numbers(R, Q, S, W, F),
         NEW a \in Nat, NEW b \in Nat, NEW c \in Nat,
         Numbers(a, Q, b, W, c)', Kept(Q, W)
  PROVE  Waiting' = Waiting
<1>1. Waiting = Items(Q, W)
  BY WaitingNow, Zenon DEF WaitingIsItems
<1>2. Waiting' = Items(Q, W)'
  BY WaitingNext, Zenon DEF WaitingIsItems
<1>3. Items(Q, W)' = Items(Q, W)
  <2>1. Q <= Q
    OBVIOUS
  <2> QED BY <2>1, KeptItems, Zenon
<1> QED BY ONLY <1>1, <1>2, <1>3, Zenon

(* Publishing a written message is the Put of the abstract queue. *)
LEMMA PublishIsPut ==
  ASSUME LoadBound, Control, NEW R \in Nat, NEW Q \in Nat, NEW S \in Nat,
         NEW W \in Nat, NEW F \in Nat, Numbers(R, Q, S, W, F),
         NEW w \in Writers, WritePublish(w)
  PROVE  msg \in Msg /\ Fifo!Put(msg)
<1>1. /\ Numbers(R, Q, S, W + 1, F)' /\ Kept(Q, W) /\ Item(W)' = msg /\ msg \in Msg
  BY WritePublishStep, Zenon
<1>2. W + 1 \in Nat
  OBVIOUS
<1>3. Waiting = Items(Q, W) /\ Q <= W
  BY WaitingNow, Zenon DEF WaitingIsItems
<1>4. Waiting' = Items(Q, W + 1)'
  BY <1>1, <1>2, WaitingNext, Zenon DEF WaitingIsItems
<1>5. Items(Q, W + 1)' = Append(Items(Q, W), msg)
  <2>1. Items(Q, W)' = Items(Q, W)
    <3>1. Q <= Q
      OBVIOUS
    <3> QED BY <1>1, <3>1, KeptItems, Zenon
  <2>2. Items(Q, W + 1)' = Append(Items(Q, W)', Item(W)')
    BY <1>3, ItemsAppendNext, Zenon DEF AppendsItem
  <2> QED BY ONLY <1>1, <2>1, <2>2, Zenon
<1>6. Len(Waiting) < Capacity
  <2>1. W + 1 <= Q + Capacity
    <3>1. R <= Q /\ wflag # NULL
      BY Holder DEF Numbers, Numbered, WritePublish
    <3>2. W < R + Load /\ Load <= Capacity
      BY <3>1, LoadFits DEF Numbers, Numbered
    <3> QED BY ONLY <3>1, <3>2, R \in Nat, Q \in Nat, W \in Nat, Sizes
  <2>2. Len(Waiting) = W - Q
    BY <1>3, ItemsSequence, Zenon
  <2> QED BY ONLY <2>1, <2>2, Q \in Nat, W \in Nat, Sizes
<1>7. Taken' = Taken
  <2>1. pc' = [pc EXCEPT ![w] = "idle"] /\ got' = got
    BY DEF WritePublish, Goto, readerVars
  <2>2. \A r \in Readers : pc'[r] = pc[r]
    BY <2>1, Apart DEF Control
  <2> QED BY <2>1, <2>2, TakenStays
<1> QED BY <1>1, <1>3, <1>4, <1>5, <1>6, <1>7 DEF Fifo!Put, Waiting, Taken

(* Copying the messages is the Take of as many. *)
LEMMA CopyIsTake ==
  ASSUME LoadBound, Control, NEW R \in Nat, NEW Q \in Nat, NEW S \in Nat,
         NEW W \in Nat, NEW F \in Nat, Numbers(R, Q, S, W, F),
         NEW r \in Readers, ReadCopy(r)
  PROVE  \E k \in 0..Len(Waiting) : Fifo!Take(r, k)
<1>0. pc[r] = "read"
  BY DEF ReadCopy
<1>1. /\ CommandCnt \in Nat /\ R + CommandCnt <= S /\ Q = R
  BY <1>0, CopyCount, Zenon
<1>2. PICK k \in Nat : k = CommandCnt
  BY <1>1
<1>3. Numbers(R, R + k, S, W, F)' /\ Kept(R, W)
  BY <1>1, <1>2, ReadCopyStep, Zenon
<1>4. Waiting = Items(R, W) /\ R <= W
  BY <1>1, WaitingNow, Zenon DEF WaitingIsItems
<1>5. /\ R + k \in Nat /\ R <= R + k /\ R + k <= W /\ k \in 0..(W - R)
      /\ (R + k) - R = k
  <2>1. S <= W
    BY DEF Numbers, Numbered
  <2> QED BY ONLY <1>1, <1>2, <2>1, R \in Nat, S \in Nat, W \in Nat, k \in Nat
<1> DEFINE s == Items(R, W)
<1>6. Items(R, R + k) = SubSeq(s, 1, k) /\ Items(R + k, W) = SubSeq(s, k + 1, Len(s))
  <2>1. Split(R, W, k)
    BY ONLY <1>5, R \in Nat, W \in Nat, k \in Nat, ItemsSplit, Zenon
  <2> QED BY ONLY <2>1, Zenon DEF Split
<1>7. Waiting' = SubSeq(Waiting, k + 1, Len(Waiting))
  <2>1. Waiting' = Items(R + k, W)'
    BY <1>3, <1>5, WaitingNext, Zenon DEF WaitingIsItems
  <2>2. Items(R + k, W)' = Items(R + k, W)
    BY <1>3, <1>5, KeptItems, Zenon
  <2> QED BY ONLY <1>4, <1>6, <2>1, <2>2, Zenon
<1>8. got' = SubSeq(Waiting, 1, k)
  <2>1. got' = CellsFrom(read, k) /\ read = (R + Capacity) % Lap
    BY <1>2 DEF ReadCopy, Numbers, Numbered
  <2>2. \A x \in R..((R + k) - 1) : Present(x)
    <3>1. \A x \in R..((R + k) - 1) : x \in R..(W - 1)
      BY ONLY <1>5, R \in Nat, W \in Nat, k \in Nat
    <3> QED BY <3>1, <1>1 DEF Numbers, InPlace
  <2>3. CellsFrom((R + Capacity) % Lap, (R + k) - R) = Items(R, R + k)
    BY ONLY <1>5, <2>2, R \in Nat, CellsAre, Zenon
  <2> QED BY ONLY <1>4, <1>5, <1>6, <2>1, <2>3, Zenon
<1>9. Taken[r] = <<>> /\ Taken' = [Taken EXCEPT ![r] = got']
  <2>1. Taken[r] = <<>>
    BY <1>0 DEF Taken
  <2>2. pc' = [pc EXCEPT ![r] = "gc"]
    BY DEF ReadCopy, Goto
  <2>3. /\ pc'[r] = "gc" /\ \A x \in Readers : x # r => pc'[x] = pc[x] /\ pc[x] = "idle"
    BY <1>0, <2>2, Holder DEF Control
  <2>4. ASSUME NEW x \in Readers PROVE Taken'[x] = [Taken EXCEPT ![r] = got'][x]
    BY <2>3 DEF Taken
  <2> QED BY <2>1, <2>4 DEF Taken
<1>10. k \in 0..Len(Waiting)
  <2>1. Len(Waiting) = W - R
    BY <1>4, ItemsSequence, Zenon
  <2> QED BY ONLY <1>5, <2>1
<1> QED BY <1>7, <1>8, <1>9, <1>10 DEF Fifo!Take, Waiting, Taken

(* Every step of the buffer is a step of the abstract queue or none. *)
LEMMA StepRefines ==
  ASSUME LoadBound, IInv, [Next]_vars
  PROVE  [Fifo!Next]_<<Waiting, Taken>>
<1>1. Control
  BY DEF IInv
<1>2. PICK R \in Nat, Q \in Nat, S \in Nat, W \in Nat, F \in Nat :
        Numbers(R, Q, S, W, F)
  BY Zenon DEF IInv
<1>3. ASSUME NEW w \in Writers, NEW l, Goto(w, l), got' = got
      PROVE  Taken' = Taken
  <2>1. \A r \in Readers : pc'[r] = pc[r]
    BY <1>1, <1>3, Apart DEF Control, Goto
  <2> QED BY <1>3, <2>1, TakenStays
<1>4. ASSUME NEW w \in Writers, NEW m \in Msg, WriteBegin(w, m)
      PROVE  Waiting' = Waiting /\ Taken' = Taken
  <2>1. Numbers(R, Q, S, W, F)' /\ Kept(Q, W)
    BY <1>1, <1>2, <1>4, WriteBeginStep, Zenon
  <2>2. Goto(w, "alloc") /\ got' = got
    BY <1>4 DEF WriteBegin, readerVars
  <2> QED BY <1>2, <1>3, <2>1, <2>2, Silent, Zenon
<1>5. ASSUME NEW w \in Writers, WriteAlloc(w)
      PROVE  Waiting' = Waiting /\ Taken' = Taken
  <2>1. Numbers(R, Q, S, W, F)' /\ Kept(Q, W)
    BY <1>1, <1>2, <1>5, WriteAllocStep, Zenon
  <2>2. Goto(w, "copy") /\ got' = got
    BY <1>5 DEF WriteAlloc, readerVars
  <2> QED BY <1>2, <1>3, <2>1, <2>2, Silent, Zenon
<1>6. ASSUME NEW w \in Writers, WriteNoMemory(w)
      PROVE  Waiting' = Waiting /\ Taken' = Taken
  <2>1. Numbers(R, Q, S, W, F)' /\ Kept(Q, W)
    BY <1>1, <1>2, <1>6, WriteNoMemoryStep, Zenon
  <2>2. Goto(w, "idle") /\ got' = got
    BY <1>6 DEF WriteNoMemory, readerVars
  <2> QED BY <1>2, <1>3, <2>1, <2>2, Silent, Zenon
<1>7. ASSUME NEW w \in Writers, WriteCopy(w)
      PROVE  Waiting' = Waiting /\ Taken' = Taken
  <2>1. Numbers(R, Q, S, W, F)' /\ Kept(Q, W)
    BY <1>1, <1>2, <1>7, WriteCopyStep, Zenon
  <2>2. Goto(w, "publish") /\ got' = got
    BY <1>7 DEF WriteCopy, readerVars
  <2> QED BY <1>2, <1>3, <2>1, <2>2, Silent, Zenon
<1>8. ASSUME NEW w \in Writers, WritePublish(w) PROVE Fifo!Next
  <2>1. msg \in Msg /\ Fifo!Put(msg)
    BY <1>1, <1>2, <1>8, PublishIsPut, Zenon
  <2> QED BY <2>1, Zenon DEF Fifo!Next
<1>9. ASSUME NEW r \in Readers, NEW n \in 1..MaxRead, ReadBegin(r, n)
      PROVE  Waiting' = Waiting /\ Taken' = Taken
  <2>1. Numbers(R, Q, W, W, F)' /\ Kept(Q, W)
    BY <1>1, <1>2, <1>9, ReadBeginStep, Zenon
  <2>2. pc[r] = "idle" /\ pc' = [pc EXCEPT ![r] = "read"] /\ got' = got
    BY <1>9 DEF ReadBegin, Goto
  <2>3. \A x \in Readers : pc'[x] = "gc" <=> pc[x] = "gc"
    BY <1>1, <2>2 DEF Control
  <2> QED BY <1>2, <2>1, <2>2, <2>3, Silent, TakenStays, Zenon
<1>10. ASSUME NEW r \in Readers, ReadCopy(r) PROVE Fifo!Next
  <2>1. PICK k \in 0..Len(Waiting) : Fifo!Take(r, k)
    BY <1>1, <1>2, <1>10, CopyIsTake, Zenon
  <2> QED BY <2>1, Zenon DEF Fifo!Next, Waiting
<1>11. ASSUME NEW r \in Readers, ReadGc(r)
       PROVE  Waiting' = Waiting /\ Taken' = Taken
  <2>1. Numbers(R, Q, S, W, F + 1)' /\ Kept(Q, W) /\ F + 1 \in Nat
    <3>1. F + 1 \in Nat
      OBVIOUS
    <3> QED BY <1>1, <1>2, <1>11, <3>1, ReadGcStep, Zenon
  <2>2. pc' = pc /\ got' = got
    BY <1>11 DEF ReadGc
  <2> QED BY <1>2, <2>1, <2>2, Silent, TakenStays, Zenon
<1>12. ASSUME NEW r \in Readers, ReadPublish(r) PROVE Fifo!Next
  <2>1. Numbers(Q, Q, S, W, F)' /\ Kept(Q, W)
    BY <1>1, <1>2, <1>12, ReadPublishStep, Zenon
  <2>2. Waiting' = Waiting
    BY <1>2, <2>1, Silent, Zenon
  <2>3. Taken' = [Taken EXCEPT ![r] = <<>>]
    <3>1. /\ pc' = [pc EXCEPT ![r] = "idle"] /\ got' = <<>> /\ pc[r] = "gc"
      BY <1>12 DEF ReadPublish, Goto
    <3>2. /\ pc'[r] = "idle"
          /\ \A x \in Readers : x # r => pc'[x] = pc[x] /\ pc[x] = "idle"
      BY <1>1, <3>1, Holder DEF Control
    <3>3. ASSUME NEW x \in Readers
          PROVE  Taken'[x] = [Taken EXCEPT ![r] = <<>>][x]
      BY <3>2 DEF Taken
    <3> QED BY <3>3 DEF Taken
  <2>4. Fifo!Return(r)
    BY <2>2, <2>3 DEF Fifo!Return, Waiting, Taken
  <2> QED BY <2>4, Zenon DEF Fifo!Next
<1>13. CASE UNCHANGED vars
  <2>1. Numbers(R, Q, S, W, F)' /\ Kept(Q, W)
    BY <1>2, <1>13
       DEF vars, Numbers, Numbered, InPlace, Reachable, Present, Item, Kept
  <2>2. pc' = pc /\ got' = got
    BY <1>13 DEF vars
  <2> QED BY <1>2, <2>1, <2>2, Silent, TakenStays, Zenon
<1>14. CASE \E w \in Writers : Write(w)
  <2>1. PICK w \in Writers : Write(w)
    BY <1>14
  <2> QED BY <2>1, <1>4, <1>5, <1>6, <1>7, <1>8, Zenon DEF Write
<1>15. CASE \E r \in Readers : Read(r)
  <2>1. PICK r \in Readers : Read(r)
    BY <1>15
  <2> QED BY <2>1, <1>9, <1>10, <1>11, <1>12, Zenon DEF Read
<1> QED BY <1>13, <1>14, <1>15 DEF Next

(* The buffer is a first-in first-out queue of bounded capacity: messages  *)
(* come out once, in the order in which they were accepted, and as they    *)
(* were written (ImplementsFifo).                                          *)
THEOREM BufferIsFifo ==
  ASSUME LoadBound
  PROVE  Spec => ImplementsFifo
<1>1. Init => Fifo!Init
  <2> SUFFICES ASSUME Init PROVE Fifo!Init
    OBVIOUS
  <2>1. Waiting = <<>>
    <3>1. Numbers(0, 0, 0, 0, 0) /\ 0 \in Nat
      BY Initially
    <3>2. Waiting = Items(0, 0)
      BY <3>1, WaitingNow, Zenon DEF WaitingIsItems
    <3>3. Items(0, 0) = <<>>
      BY DEF Items
    <3> QED BY ONLY <3>2, <3>3
  <2>2. Taken = [r \in Readers |-> <<>>]
    BY DEF Init, Taken
  <2> QED BY <2>1, <2>2 DEF Fifo!Init, Waiting, Taken
<1>2. IInv /\ [Next]_vars => [Fifo!Next]_Fifo!vars
  BY StepRefines DEF Fifo!vars, Waiting, Taken
<1> QED BY <1>1, <1>2, IInvAlways, PTL DEF Spec, ImplementsFifo, Fifo!Spec
=============================================================================
