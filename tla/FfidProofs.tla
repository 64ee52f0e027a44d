----------------------------- MODULE FfidProofs -----------------------------
(***************************************************************************)
(* Proofs about the id allocator, for every number of slots, every limit   *)
(* and both kinds of pool.  The properties that matter (ChainIsFifo,       *)
(* HasIdExact, OneIdPerSlot, IdAtExact) all follow from one inductive      *)
(* invariant, which says how the free list is threaded through ts[] and    *)
(* that every slot is in exactly one of three conditions: in use, on the   *)
(* free list, or retired.                                                  *)
(***************************************************************************)
EXTENDS Ffid, ModLemmas, SequenceTheorems, FiniteSetTheorems

Free == 1..Len(fifo)

(* The free list: first and the links give fifo, end is its last slot, and *)
(* no slot occurs twice.                                                   *)
Threaded ==
  /\ first = IF fifo = <<>> THEN MaxLimit ELSE fifo[1]
  /\ fifo # <<>> => end = fifo[Len(fifo)] % MaxSize
  /\ \A k \in Free :
       ts[fifo[k] % MaxSize] = IF k = Len(fifo) THEN MaxLimit ELSE fifo[k + 1]
  /\ \A j, k \in Free : fifo[j] % MaxSize = fifo[k] % MaxSize => j = k

(* A slot in use holds its id and is not on the free list. *)
InUse == \A id \in held : /\ ts[Index(id)] = id - 1
                          /\ \A k \in Free : fifo[k] % MaxSize # Index(id)

(* Any slot that is neither in use nor free holds the terminator. *)
Covered == \A s \in Slot : \/ ts[s] = MaxLimit
                           \/ \E id \in held : Index(id) = s
                           \/ \E k \in Free : fifo[k] % MaxSize = s

(* Types that hold without counting. *)
Typed == /\ ts \in [Slot -> 0..MaxLimit]
         /\ first \in 0..MaxLimit
         /\ end \in Slot
         /\ isLoop \in BOOLEAN
         /\ held \subseteq Id
         /\ fifo \in Seq(0..(MaxLimit - 1))
         /\ issued \subseteq Id

IInv == Typed /\ Threaded /\ InUse /\ Covered

(* Slots of ids exist. *)
LEMMA IndexInSlot ==
  ASSUME NEW id \in Id
  PROVE  Index(id) \in Slot /\ id - 1 \in 0..(MaxLimit - 1)
<1>1. id - 1 \in Nat /\ id - 1 \in 0..(MaxLimit - 1)
  BY FfidAssumption DEF Id
<1> QED
  BY <1>1, DivMod, FfidAssumption DEF Index, Slot

(* The slot of an id is a slot. *)
LEMMA ModInSlot ==
  ASSUME NEW i \in 0..MaxLimit
  PROVE  i % MaxSize \in Slot
  BY DivMod, FfidAssumption DEF Slot

(* The slot's next id is an id of the same slot, below the limit. *)
LEMMA NextIdSameSlot ==
  ASSUME NEW id \in Id
  PROVE  /\ NextIdOf(id) \in 0..(MaxLimit - 1)
         /\ NextIdOf(id) % MaxSize = Index(id)
<1> DEFINE i == id - 1
<1>1. i \in Nat /\ i < MaxLimit /\ MaxSize \in Nat \ {0} /\ MaxLimit \in Nat
      /\ MaxSize < MaxLimit
  BY IndexInSlot, FfidAssumption
<1>2. CASE NearLimit(id)
  <2>1. NextIdOf(id) = i % MaxSize
    BY <1>2 DEF NextIdOf, Index
  <2>2. i % MaxSize \in 0..(MaxSize - 1)
    BY <1>1, DivMod
  <2> QED
    BY <1>1, <2>1, <2>2, ModSmall DEF Index
<1>3. CASE ~NearLimit(id)
  <2>1. NextIdOf(id) = i + MaxSize
    BY <1>3 DEF NextIdOf
  <2>2. i + MaxSize < MaxLimit
    BY <1>1, <1>3 DEF NearLimit
  <2> HIDE DEF i
  <2>3. (i + MaxSize) % MaxSize = i % MaxSize
    BY <1>1, ModStep
  <2> QED
    BY <1>1, <2>1, <2>2, <2>3 DEF Index, i
<1> QED
  BY <1>2, <1>3

(* What Tail and Append do to a nonempty queue and to any queue. *)
LEMMA TailFacts ==
  ASSUME NEW S, NEW q \in Seq(S), q # <<>>
  PROVE  /\ Tail(q) \in Seq(S) /\ Len(q) \in Nat \ {0}
         /\ Len(Tail(q)) = Len(q) - 1
         /\ \A k \in 1..(Len(q) - 1) : Tail(q)[k] = q[k + 1]
         /\ \A k \in 1..Len(q) : q[k] \in S
         /\ Tail(q) = <<>> <=> Len(q) = 1
<1>1. Len(q) \in Nat \ {0} /\ Tail(q) \in Seq(S) /\ Len(Tail(q)) = Len(q) - 1
  OBVIOUS
<1>2. \A k \in 1..Len(q) : q[k] \in S
  OBVIOUS
<1>3. \A k \in 1..(Len(q) - 1) : Tail(q)[k] = q[k + 1]
  OBVIOUS
<1>4. Tail(q) = <<>> <=> Len(Tail(q)) = 0
  BY <1>1, EmptySeq
<1> QED
  BY <1>1, <1>2, <1>3, <1>4

(* What Append leaves of the elements. *)
LEMMA AppendFacts ==
  ASSUME NEW S, NEW q \in Seq(S), NEW x \in S
  PROVE  /\ Append(q, x) \in Seq(S) /\ Len(q) \in Nat
         /\ Len(Append(q, x)) = Len(q) + 1 /\ Append(q, x) # <<>>
         /\ \A k \in 1..Len(q) : Append(q, x)[k] = q[k] /\ q[k] \in S
         /\ Append(q, x)[Len(q) + 1] = x
         /\ q = <<>> <=> Len(q) = 0
  OBVIOUS

(* The invariant holds of a new allocator. *)
LEMMA InitIInv == Init => IInv
<1> SUFFICES ASSUME Init PROVE IInv
  OBVIOUS
<1> USE FfidAssumption
<1>1. Len(fifo) = MaxSize /\ fifo # <<>>
  <2>1. fifo \in Seq(Int) /\ DOMAIN fifo = 1..MaxSize
    BY DEF Init
  <2>2. Len(fifo) = MaxSize
    BY <2>1
  <2> QED BY <2>1, <2>2, EmptySeq
<1>2. \A k \in 1..MaxSize : fifo[k] = k - 1 /\ fifo[k] % MaxSize = k - 1
  <2> SUFFICES ASSUME NEW k \in 1..MaxSize
               PROVE  fifo[k] = k - 1 /\ fifo[k] % MaxSize = k - 1
    OBVIOUS
  <2>1. fifo[k] = k - 1 /\ k - 1 \in 0..(MaxSize - 1)
    BY DEF Init
  <2> QED BY <2>1, ModSmall
<1>3. Typed
  BY DEF Init, Typed, Slot
<1>4. Threaded
  <2>1. first = IF fifo = <<>> THEN MaxLimit ELSE fifo[1]
    <3>1. 1 \in 1..MaxSize
      OBVIOUS
    <3> QED BY <3>1, <1>1, <1>2 DEF Init
  <2>2. end = fifo[Len(fifo)] % MaxSize
    BY <1>1, <1>2 DEF Init
  <2>3. \A k \in Free :
          ts[fifo[k] % MaxSize] = IF k = Len(fifo) THEN MaxLimit ELSE fifo[k + 1]
    BY <1>1, <1>2 DEF Init, Free, Slot
  <2>4. \A j, k \in Free : fifo[j] % MaxSize = fifo[k] % MaxSize => j = k
    BY <1>1, <1>2 DEF Free
  <2> QED BY <2>1, <2>2, <2>3, <2>4 DEF Threaded
<1>5. Covered
  <2> SUFFICES ASSUME NEW s \in Slot
               PROVE  \E k \in Free : fifo[k] % MaxSize = s
    BY DEF Covered
  <2>1. s + 1 \in Free /\ s + 1 \in 1..MaxSize
    BY <1>1 DEF Slot, Free
  <2>2. fifo[s + 1] % MaxSize = (s + 1) - 1
    BY ONLY <2>1, <1>2
  <2>3. (s + 1) - 1 = s
    BY DEF Slot
  <2> QED BY ONLY <2>1, <2>2, <2>3
<1> QED
  BY <1>3, <1>4, <1>5 DEF IInv, InUse, Init

(* An id is taken while the queue is not empty: its head is first. *)
LEMMA NewIdHead ==
  ASSUME IInv, NewId
  PROVE  /\ first < MaxLimit /\ fifo # <<>> /\ first = fifo[1]
         /\ first \in 0..(MaxLimit - 1) /\ first + 1 \in Id
<1>1. first \in 0..MaxLimit /\ MaxLimit \in Nat /\ first < MaxLimit
  BY ONLY FfidAssumption, IInv, NewId DEF FfidAssumption, IInv, Typed, NewId
<1>2. first = IF fifo = <<>> THEN MaxLimit ELSE fifo[1]
  BY DEF IInv, Threaded
<1>3. fifo # <<>>
  BY ONLY <1>1, <1>2
<1>4. first + 1 \in Id /\ first \in 0..(MaxLimit - 1)
  BY ONLY <1>1 DEF Id
<1> QED BY ONLY <1>1, <1>2, <1>3, <1>4

(* ffid_new_id keeps the invariant. *)
LEMMA NewIdIInv == IInv /\ NewId => IInv'
<1> SUFFICES ASSUME IInv, NewId PROVE IInv'
  OBVIOUS
<1> USE FfidAssumption
<1> DEFINE h == first % MaxSize
<1>1. /\ first < MaxLimit /\ fifo # <<>> /\ first = fifo[1]
      /\ first \in 0..(MaxLimit - 1) /\ first + 1 \in Id
  BY NewIdHead
<1>2. /\ fifo' \in Seq(0..(MaxLimit - 1))
      /\ Len(fifo) \in Nat \ {0} /\ Len(fifo') = Len(fifo) - 1
      /\ \A k \in 1..(Len(fifo) - 1) : fifo'[k] = fifo[k + 1]
      /\ \A k \in Free : fifo[k] \in 0..(MaxLimit - 1)
      /\ fifo' = <<>> <=> Len(fifo) = 1
      /\ Free' = 1..(Len(fifo) - 1)
  BY <1>1, TailFacts DEF NewId, Free, IInv, Typed
<1>3. h \in Slot /\ Index(first + 1) = h
  <2>1. first \in 0..MaxLimit /\ (first + 1) - 1 = first
    BY <1>1
  <2>2. h \in Slot
    BY ONLY <2>1, ModInSlot
  <2> QED BY ONLY <2>1, <2>2 DEF Index
<1>4. ts' = [ts EXCEPT ![h] = first]
  BY DEF NewId
<1>5. first' = ts[h] /\ ts[h] = IF 1 = Len(fifo) THEN MaxLimit ELSE fifo[2]
  <2>1. 1 \in Free
    BY <1>2 DEF Free
  <2>2. ts[fifo[1] % MaxSize] = IF 1 = Len(fifo) THEN MaxLimit ELSE fifo[1 + 1]
    BY <2>1 DEF IInv, Threaded
  <2> QED BY <1>1, <2>2 DEF NewId
<1>6. \A k \in Free : k # 1 => fifo[k] % MaxSize # h
  BY <1>1, <1>2 DEF IInv, Threaded, Free
<1>7. \A k \in Free : fifo[k] % MaxSize \in Slot
  <2> SUFFICES ASSUME NEW k \in Free PROVE fifo[k] % MaxSize \in Slot
    OBVIOUS
  <2>1. fifo[k] \in 0..MaxLimit
    BY <1>2
  <2> QED BY <2>1, ModInSlot
<1> HIDE DEF h
<1>8. Typed'
  <2>1. ts' \in [Slot -> 0..MaxLimit]
    BY <1>1, <1>3, <1>4 DEF IInv, Typed
  <2>2. first' \in 0..MaxLimit
    BY <1>3, <1>5 DEF IInv, Typed
  <2> QED
    BY <1>1, <1>2, <2>1, <2>2 DEF IInv, Typed, NewId, Id
<1>9. Threaded'
  <2>1. first' = IF fifo' = <<>> THEN MaxLimit ELSE fifo'[1]
    BY <1>2, <1>5
  <2>2. fifo' # <<>> => end' = fifo'[Len(fifo')] % MaxSize
    <3>1. fifo' # <<>> => Len(fifo) - 1 \in 1..(Len(fifo) - 1)
      BY <1>2
    <3>2. fifo' # <<>> => fifo'[Len(fifo')] = fifo[Len(fifo)]
      BY <1>2, <3>1
    <3> QED BY <1>1, <3>2 DEF IInv, Threaded, NewId
  <2>3. ASSUME NEW k \in Free'
        PROVE  ts'[fifo'[k] % MaxSize] =
                 IF k = Len(fifo') THEN MaxLimit ELSE fifo'[k + 1]
    <3>1. k \in 1..(Len(fifo) - 1) /\ k + 1 \in Free /\ fifo'[k] = fifo[k + 1]
      BY <1>2, <2>3 DEF Free
    <3>2. ts'[fifo'[k] % MaxSize] = ts[fifo[k + 1] % MaxSize]
      BY <3>1, <1>4, <1>6, <1>7 DEF IInv, Typed
    <3>3. ts[fifo[k + 1] % MaxSize] =
            IF k + 1 = Len(fifo) THEN MaxLimit ELSE fifo[(k + 1) + 1]
      BY <3>1 DEF IInv, Threaded
    <3>4. k # Len(fifo') => k + 1 \in 1..(Len(fifo) - 1)
      BY <1>2, <3>1
    <3>5. k # Len(fifo') => fifo'[k + 1] = fifo[(k + 1) + 1]
      BY <1>2, <3>4
    <3> QED BY <1>2, <3>1, <3>2, <3>3, <3>5
  <2>4. ASSUME NEW j \in Free', NEW k \in Free',
               fifo'[j] % MaxSize = fifo'[k] % MaxSize
        PROVE  j = k
    <3>1. /\ j + 1 \in Free /\ k + 1 \in Free /\ j \in Int /\ k \in Int
          /\ fifo'[j] = fifo[j + 1] /\ fifo'[k] = fifo[k + 1]
      BY <1>2, <2>4 DEF Free
    <3>2. j + 1 = k + 1
      BY <2>4, <3>1 DEF IInv, Threaded
    <3> QED BY <3>1, <3>2
  <2> QED
    BY <2>1, <2>2, <2>3, <2>4 DEF Threaded
<1>10. InUse'
  <2> SUFFICES ASSUME NEW id \in held'
               PROVE  /\ ts'[Index(id)] = id - 1
                      /\ \A k \in Free' : fifo'[k] % MaxSize # Index(id)
    BY DEF InUse, Index
  <2>1. CASE id = first + 1
    <3>1. ts'[Index(id)] = id - 1
      BY <2>1, <1>1, <1>3, <1>4 DEF IInv, Typed
    <3>2. \A k \in Free' : k + 1 \in Free /\ k + 1 # 1 /\ fifo'[k] = fifo[k + 1]
      BY <1>2 DEF Free
    <3> QED BY <2>1, <3>1, <3>2, <1>3, <1>6
  <2>2. CASE id \in held
    <3>1. Index(id) \in Slot
      BY <2>2, IndexInSlot DEF IInv, Typed
    <3>2. Index(id) # h
      BY <2>2, <1>1, <1>2 DEF h, IInv, InUse, Free
    <3>3. \A k \in Free' : k + 1 \in Free /\ fifo'[k] = fifo[k + 1]
      BY <1>2 DEF Free
    <3> QED
      BY <2>2, <3>1, <3>2, <3>3, <1>4 DEF IInv, InUse, Typed
  <2> QED
    BY <2>1, <2>2 DEF NewId
<1>11. Covered'
  <2> SUFFICES ASSUME NEW s \in Slot
               PROVE  \/ ts'[s] = MaxLimit
                      \/ \E id \in held' : Index(id) = s
                      \/ \E k \in Free' : fifo'[k] % MaxSize = s
    BY DEF Covered, Index
  <2>1. CASE s = h
    BY <2>1, <1>3 DEF NewId
  <2>2. CASE s # h /\ ts[s] = MaxLimit
    BY <2>2, <1>4 DEF IInv, Typed
  <2>3. CASE \E id \in held : Index(id) = s
    BY <2>3 DEF NewId
  <2>4. CASE s # h /\ \E k \in Free : fifo[k] % MaxSize = s
    <3>1. PICK k \in Free : fifo[k] % MaxSize = s
      BY <2>4
    <3>2. k # 1
      BY <2>4, <3>1, <1>1 DEF h
    <3>3. k - 1 \in 1..(Len(fifo) - 1) /\ (k - 1) + 1 = k
      BY <1>2, <3>1, <3>2 DEF Free
    <3>4. k - 1 \in Free' /\ fifo'[k - 1] = fifo[k]
      BY <1>2, <3>3
    <3> QED BY <3>1, <3>4
  <2> QED
    BY <2>1, <2>2, <2>3, <2>4 DEF IInv, Covered
<1> QED
  BY <1>8, <1>9, <1>10, <1>11 DEF IInv

(* ffid_del_id of the last generation of a slot keeps it. *)
LEMMA RetireIInv ==
  ASSUME IInv, NEW id \in held, Retire(id)
  PROVE  IInv'
<1> USE FfidAssumption
<1>1. /\ id \in Id /\ Index(id) \in Slot
      /\ ts' = [ts EXCEPT ![Index(id)] = MaxLimit]
      /\ held' = held \ {id}
      /\ UNCHANGED <<first, end, fifo, issued, isLoop>>
  BY IndexInSlot DEF IInv, Typed, Retire
<1>2. \A k \in Free : fifo[k] % MaxSize # Index(id)
  BY DEF IInv, InUse
<1>3. \A k \in Free : fifo[k] % MaxSize \in Slot
  <2> SUFFICES ASSUME NEW k \in Free PROVE fifo[k] % MaxSize \in Slot
    OBVIOUS
  <2>1. fifo[k] \in 0..MaxLimit
    BY ElementOfSeq DEF Free, IInv, Typed
  <2> QED BY <2>1, ModInSlot
<1>4. Typed'
  BY <1>1 DEF IInv, Typed
<1>5. Threaded'
  <2>1. \A k \in Free : ts'[fifo[k] % MaxSize] = ts[fifo[k] % MaxSize]
    BY <1>1, <1>2, <1>3 DEF IInv, Typed
  <2> QED
    BY <1>1, <2>1 DEF IInv, Threaded, Free
<1>6. InUse'
  <2> SUFFICES ASSUME NEW a \in held'
               PROVE  ts'[Index(a)] = a - 1 /\ \A k \in Free : fifo[k] % MaxSize # Index(a)
    BY <1>1 DEF InUse, Index, Free
  <2>1. a \in held /\ a # id /\ a \in Id /\ Index(a) \in Slot
    BY <1>1, IndexInSlot DEF IInv, Typed
  <2>2. ts[Index(a)] = a - 1 /\ ts[Index(id)] = id - 1
    BY <2>1 DEF IInv, InUse
  <2>3. Index(a) # Index(id)
    BY <1>1, <2>1, <2>2 DEF Id
  <2> QED
    BY <1>1, <2>1, <2>2, <2>3 DEF IInv, InUse, Typed
<1>7. Covered'
  <2> SUFFICES ASSUME NEW s \in Slot
               PROVE  \/ ts'[s] = MaxLimit
                      \/ \E a \in held' : Index(a) = s
                      \/ \E k \in Free : fifo[k] % MaxSize = s
    BY <1>1 DEF Covered, Index, Free
  <2>1. CASE s = Index(id)
    BY <1>1, <2>1 DEF IInv, Typed
  <2>2. CASE s # Index(id)
    BY <1>1, <2>2 DEF IInv, Typed, Covered
  <2> QED BY <2>1, <2>2
<1> QED
  BY <1>4, <1>5, <1>6, <1>7 DEF IInv

(* ffid_del_id that links the slot behind the last one keeps it. *)
LEMMA RecycleIInv ==
  ASSUME IInv, NEW id \in held, Recycle(id)
  PROVE  IInv'
<1> USE FfidAssumption
<1> DEFINE n == NextIdOf(id)
           s0 == Index(id)
<1>1. /\ id \in Id /\ s0 \in Slot
      /\ n \in 0..(MaxLimit - 1) /\ n % MaxSize = s0
  BY IndexInSlot, NextIdSameSlot DEF IInv, Typed
<1>2. /\ fifo' \in Seq(0..(MaxLimit - 1)) /\ Len(fifo) \in Nat
      /\ Len(fifo') = Len(fifo) + 1 /\ fifo' # <<>>
      /\ \A k \in Free : fifo'[k] = fifo[k] /\ fifo[k] \in 0..(MaxLimit - 1)
      /\ fifo'[Len(fifo) + 1] = n
      /\ Free' = 1..(Len(fifo) + 1)
      /\ fifo = <<>> <=> Len(fifo) = 0
  <2>1. fifo' = Append(fifo, n) /\ fifo \in Seq(0..(MaxLimit - 1))
    BY DEF IInv, Typed, Recycle
  <2> HIDE DEF n
  <2>2. /\ Append(fifo, n) \in Seq(0..(MaxLimit - 1)) /\ Len(fifo) \in Nat
        /\ Len(Append(fifo, n)) = Len(fifo) + 1 /\ Append(fifo, n) # <<>>
        /\ \A k \in 1..Len(fifo) :
             Append(fifo, n)[k] = fifo[k] /\ fifo[k] \in 0..(MaxLimit - 1)
        /\ Append(fifo, n)[Len(fifo) + 1] = n
        /\ fifo = <<>> <=> Len(fifo) = 0
    BY <1>1, <2>1, AppendFacts
  <2> QED BY <2>1, <2>2 DEF Free
<1>3. /\ end' = s0 /\ held' = held \ {id} /\ issued' = issued /\ isLoop' = isLoop
      /\ first' = IF first >= MaxLimit THEN n ELSE first
  BY DEF Recycle
<1>4. first >= MaxLimit <=> fifo = <<>>
  <2>1. fifo # <<>> => 1 \in Free
    BY <1>2 DEF Free
  <2>2. MaxLimit >= MaxLimit
    OBVIOUS
  <2> QED BY <2>1, <2>2, <1>2 DEF IInv, Threaded
<1>5. \A k \in Free : fifo[k] % MaxSize \in Slot /\ fifo[k] % MaxSize # s0
  <2> SUFFICES ASSUME NEW k \in Free
               PROVE  fifo[k] % MaxSize \in Slot /\ fifo[k] % MaxSize # s0
    OBVIOUS
  <2>1. fifo[k] \in 0..MaxLimit
    BY <1>2
  <2> QED BY <2>1, ModInSlot DEF IInv, InUse
<1>6. fifo # <<>> => end = fifo[Len(fifo)] % MaxSize /\ end \in Slot /\ end # s0
  <2>1. fifo # <<>> => Len(fifo) \in Free
    BY <1>2 DEF Free
  <2> QED BY <2>1, <1>5 DEF IInv, Threaded
<1>7. ts' = IF fifo = <<>> THEN [ts EXCEPT ![s0] = MaxLimit]
            ELSE [ts EXCEPT ![end] = n, ![s0] = MaxLimit]
  BY <1>4 DEF Recycle
<1>8. \A s \in Slot : ts'[s] = IF s = s0 THEN MaxLimit
                               ELSE IF fifo # <<>> /\ s = end THEN n ELSE ts[s]
  BY <1>1, <1>6, <1>7 DEF IInv, Typed
<1> HIDE DEF n, s0
<1>9. Typed'
  <2>1. ts' \in [Slot -> 0..MaxLimit]
    BY <1>1, <1>6, <1>7 DEF IInv, Typed
  <2> QED
    BY <1>1, <1>2, <1>3, <2>1 DEF IInv, Typed
<1>10. Threaded'
  <2>1. first' = IF fifo' = <<>> THEN MaxLimit ELSE fifo'[1]
    <3>1. CASE fifo = <<>>
      BY <3>1, <1>2, <1>3, <1>4
    <3>2. CASE fifo # <<>>
      <4>1. 1 \in Free
        BY <3>2, <1>2 DEF Free
      <4> QED BY <4>1, <3>2, <1>2, <1>3, <1>4 DEF IInv, Threaded
    <3> QED BY <3>1, <3>2
  <2>2. end' = fifo'[Len(fifo')] % MaxSize
    BY <1>1, <1>2, <1>3
  <2>3. ASSUME NEW k \in Free'
        PROVE  ts'[fifo'[k] % MaxSize] =
                 IF k = Len(fifo') THEN MaxLimit ELSE fifo'[k + 1]
    <3>1. CASE k = Len(fifo) + 1
      BY <3>1, <1>1, <1>2, <1>8
    <3>2. CASE k = Len(fifo) /\ k \in Free
      <4>1. fifo # <<>> /\ k # Len(fifo')
        BY <3>2, <1>2 DEF Free
      <4>2. fifo'[k] % MaxSize = end /\ end \in Slot /\ end # s0
        BY <3>2, <4>1, <1>2, <1>6
      <4> QED BY <3>2, <4>1, <4>2, <1>2, <1>8
    <3>3. CASE k # Len(fifo) /\ k \in Free
      <4>1. k + 1 \in Free /\ k # Len(fifo') /\ fifo # <<>> /\ Len(fifo) \in Free
        BY <3>3, <1>2 DEF Free
      <4>2. fifo[k] % MaxSize # end
        BY <3>3, <4>1, <1>6 DEF IInv, Threaded
      <4>3. ts'[fifo[k] % MaxSize] = ts[fifo[k] % MaxSize]
        BY <3>3, <4>2, <1>5, <1>8
      <4>4. ts[fifo[k] % MaxSize] = fifo[k + 1]
        BY <3>3 DEF IInv, Threaded
      <4> QED BY <3>3, <4>1, <4>3, <4>4, <1>2
    <3>4. k \in Free \/ k = Len(fifo) + 1
      BY <1>2 DEF Free
    <3> QED BY <3>1, <3>2, <3>3, <3>4
  <2>4. ASSUME NEW j \in Free', NEW k \in Free',
               fifo'[j] % MaxSize = fifo'[k] % MaxSize
        PROVE  j = k
    <3>1. /\ j \in Free \/ j = Len(fifo) + 1
          /\ k \in Free \/ k = Len(fifo) + 1
      BY <1>2 DEF Free
    <3>2. CASE j \in Free /\ k \in Free
      <4>1. fifo[j] % MaxSize = fifo[k] % MaxSize
        BY ONLY <2>4, <3>2, <1>2
      <4> QED BY ONLY <3>2, <4>1, IInv DEF IInv, Threaded
    <3>3. CASE j \in Free /\ k = Len(fifo) + 1
      <4>1. fifo'[j] % MaxSize # s0
        BY ONLY <3>3, <1>2, <1>5
      <4>2. fifo'[k] % MaxSize = s0
        BY ONLY <3>3, <1>1, <1>2
      <4> QED BY ONLY <2>4, <4>1, <4>2
    <3>4. CASE j = Len(fifo) + 1 /\ k \in Free
      <4>1. fifo'[k] % MaxSize # s0
        BY ONLY <3>4, <1>2, <1>5
      <4>2. fifo'[j] % MaxSize = s0
        BY ONLY <3>4, <1>1, <1>2
      <4> QED BY ONLY <2>4, <4>1, <4>2
    <3> QED BY ONLY <3>1, <3>2, <3>3, <3>4
  <2> QED
    BY <2>1, <2>2, <2>3, <2>4 DEF Threaded
<1>11. InUse'
  <2> SUFFICES ASSUME NEW a \in held'
               PROVE  /\ ts'[Index(a)] = a - 1
                      /\ \A k \in Free' : fifo'[k] % MaxSize # Index(a)
    BY DEF InUse, Index
  <2>1. a \in held /\ a # id /\ a \in Id /\ Index(a) \in Slot
    BY <1>3, IndexInSlot DEF IInv, Typed
  <2>2. ts[Index(a)] = a - 1 /\ ts[s0] = id - 1
    BY <2>1 DEF IInv, InUse, s0
  <2>3. Index(a) # s0
    BY <1>1, <2>1, <2>2 DEF Id
  <2>4. fifo # <<>> => Index(a) # end
    <3>1. fifo # <<>> => Len(fifo) \in Free
      BY <1>2 DEF Free
    <3> QED BY <3>1, <2>1, <1>6 DEF IInv, InUse
  <2>5. ts'[Index(a)] = a - 1
    BY <2>1, <2>2, <2>3, <2>4, <1>8
  <2>6. ASSUME NEW k \in Free' PROVE fifo'[k] % MaxSize # Index(a)
    <3>1. k \in Free \/ k = Len(fifo) + 1
      BY <1>2 DEF Free
    <3> QED BY <3>1, <2>1, <2>3, <1>1, <1>2 DEF IInv, InUse
  <2> QED BY <2>5, <2>6
<1>12. Covered'
  <2> SUFFICES ASSUME NEW s \in Slot
               PROVE  \/ ts'[s] = MaxLimit
                      \/ \E a \in held' : Index(a) = s
                      \/ \E k \in Free' : fifo'[k] % MaxSize = s
    BY DEF Covered, Index
  <2>1. CASE s = s0
    BY <2>1, <1>8
  <2>2. CASE \E k \in Free : fifo[k] % MaxSize = s
    <3>1. \A k \in Free : k \in Free'
      BY <1>2 DEF Free
    <3> QED BY <2>2, <3>1, <1>2
  <2>3. CASE s # s0 /\ \E a \in held : Index(a) = s
    BY <2>3, <1>3 DEF s0
  <2>4. CASE s # s0 /\ ts[s] = MaxLimit /\ ~ \E k \in Free : fifo[k] % MaxSize = s
    <3>1. fifo # <<>> => Len(fifo) \in Free
      BY <1>2 DEF Free
    <3>2. ~(fifo # <<>> /\ s = end)
      BY <2>4, <3>1, <1>6
    <3> QED BY <2>4, <3>2, <1>8
  <2> QED
    BY <2>1, <2>2, <2>3, <2>4 DEF IInv, Covered
<1> QED
  BY <1>9, <1>10, <1>11, <1>12 DEF IInv

(* Every step keeps the invariant. *)
LEMMA StepIInv == IInv /\ [Next]_vars => IInv'
<1> SUFFICES ASSUME IInv, [Next]_vars PROVE IInv'
  OBVIOUS
<1>1. CASE NewId
  BY <1>1, NewIdIInv
<1>2. ASSUME NEW id \in held, DelId(id) PROVE IInv'
  BY <1>2, RetireIInv, RecycleIInv DEF DelId
<1>3. CASE UNCHANGED vars
  BY <1>3 DEF vars, IInv, Typed, Threaded, InUse, Covered, Free, Index
<1> QED
  BY <1>1, <1>2, <1>3 DEF Next

(* The free list, the ids in use and the retired slots partition the array *)
(* in every reachable state.                                               *)
THEOREM Structure == Spec => []IInv
  BY InitIInv, StepIInv, PTL DEF Spec

-----------------------------------------------------------------------------
(* There are no more free ids than slots: each has a slot of its own. *)
LEMMA FreeFits == IInv => Len(fifo) \in 0..MaxSize
<1> SUFFICES ASSUME IInv PROVE Len(fifo) \in 0..MaxSize
  OBVIOUS
<1> USE FfidAssumption
<1>1. Len(fifo) \in Nat /\ \A k \in Free : fifo[k] \in 0..MaxLimit
  BY DEF IInv, Typed, Free
<1>2. SUFFICES ASSUME MaxSize < Len(fifo) PROVE FALSE
  BY <1>1
<1> DEFINE slotOf == [k \in Free |-> fifo[k] % MaxSize]
<1>3. slotOf \in [Free -> Slot]
  BY <1>1, ModInSlot
<1>4. IsFiniteSet(Slot) /\ Cardinality(Slot) = MaxSize
  BY FS_Interval DEF Slot
<1>5. IsFiniteSet(Free) /\ Cardinality(Free) = Len(fifo)
  BY <1>1, FS_Interval DEF Free
<1>6. \E j, k \in Free : j # k /\ slotOf[j] = slotOf[k]
  <2> HIDE DEF slotOf
  <2>1. Cardinality(Slot) < Cardinality(Free)
    BY <1>1, <1>2, <1>4, <1>5
  <2> QED BY ONLY <1>3, <1>4, <1>5, <2>1, FS_PigeonHole, Zenon
<1> QED BY <1>6 DEF IInv, Threaded

(* The queue of free ids is a list that starts at first and follows ts. *)
LEMMA QueueFollows ==
  ASSUME IInv, NEW k \in 0..MaxSize
  PROVE  LET q[i \in 0..MaxSize] == IF i < Len(fifo) THEN fifo[i + 1] ELSE MaxLimit
         IN  q[k] = IF k = 0 THEN first
                    ELSE IF q[k - 1] < MaxLimit THEN ts[q[k - 1] % MaxSize] ELSE MaxLimit
<1> USE FfidAssumption
<1>1. Len(fifo) \in Nat /\ \A i \in Free : fifo[i] \in 0..(MaxLimit - 1)
  BY DEF IInv, Typed, Free
<1>2. fifo = <<>> <=> Len(fifo) = 0
  BY EmptySeq DEF IInv, Typed
<1> DEFINE q == [i \in 0..MaxSize |-> IF i < Len(fifo) THEN fifo[i + 1] ELSE MaxLimit]
<1>3. CASE k = 0
  BY <1>1, <1>2, <1>3 DEF IInv, Threaded
<1>4. CASE k # 0
  <2>1. k - 1 \in 0..MaxSize /\ k \in Nat /\ k >= 1 /\ (k - 1) + 1 = k
    BY <1>4
  <2>2. CASE k - 1 < Len(fifo)
    <3>1. k \in Free
      BY <1>1, <2>1, <2>2 DEF Free
    <3>2. q[k - 1] = fifo[k] /\ fifo[k] < MaxLimit
      BY <1>1, <2>1, <2>2, <3>1
    <3>3. ts[fifo[k] % MaxSize] = IF k = Len(fifo) THEN MaxLimit ELSE fifo[k + 1]
      BY <3>1 DEF IInv, Threaded
    <3>4. q[k] = IF k = Len(fifo) THEN MaxLimit ELSE fifo[k + 1]
      BY <1>1, <2>1, <2>2
    <3> HIDE DEF q
    <3>5. q[k] = IF k = 0 THEN first
                 ELSE IF q[k - 1] < MaxLimit THEN ts[q[k - 1] % MaxSize] ELSE MaxLimit
      BY <1>4, <3>2, <3>3, <3>4, Zenon
    <3> QED BY <3>5 DEF q
  <2>3. CASE ~(k - 1 < Len(fifo))
    <3>1. q[k - 1] = MaxLimit /\ ~(k < Len(fifo)) /\ q[k] = MaxLimit
      BY <1>1, <2>1, <2>3
    <3> QED BY <1>4, <3>1
  <2> QED BY <2>2, <2>3
<1> QED BY <1>3, <1>4

(* The array encodes the queue and nothing else, by induction along it. *)
LEMMA IInvChain == IInv => ChainIsFifo
<1> SUFFICES ASSUME IInv PROVE ChainIsFifo
  OBVIOUS
<1> USE FfidAssumption
<1> DEFINE Succ(f, k) == IF k = 0 THEN first
                          ELSE IF f[k - 1] < MaxLimit THEN ts[f[k - 1] % MaxSize] ELSE MaxLimit
           Follows(f) == f = [k \in 0..MaxSize |-> Succ(f, k)]
           At(k) == IF k < Len(fifo) THEN fifo[k + 1] ELSE MaxLimit
<1>1. PICK queue : queue = [k \in 0..MaxSize |-> At(k)]
  OBVIOUS
<1>2. \A k \in 0..MaxSize : queue[k] = Succ(queue, k)
  BY <1>1, QueueFollows
<1>3. Follows(queue)
  <2>1. queue = [k \in 0..MaxSize |-> queue[k]]
    <3> HIDE DEF At
    <3> QED BY <1>1
  <2> DEFINE N(k) == Succ(queue, k)
  <2>2. \A k \in 0..MaxSize : queue[k] = N(k)
    BY <1>2
  <2> HIDE DEF N
  <2>3. queue = [k \in 0..MaxSize |-> N(k)]
    BY ONLY <2>1, <2>2
  <2> QED BY <2>3 DEF N
<1>4. Chain = CHOOSE f : Follows(f)
  BY DEF Chain
<1>5. PICK link : link = CHOOSE f : Follows(f)
  OBVIOUS
<1>6. Follows(link)
  <2> HIDE DEF Follows
  <2> QED BY <1>3, <1>5
<1>7. \A k \in 0..MaxSize : link[k] = Succ(link, k)
  BY <1>6
<1> DEFINE Same == {k \in Nat : link[k] = queue[k]}
<1>8. 0 \in Same
  <2>1. 0 \in 0..MaxSize
    OBVIOUS
  <2> QED BY <1>2, <1>7, <2>1
<1>9. ASSUME NEW k \in 0..MaxSize, k \in Same, k < MaxSize PROVE k + 1 \in Same
  <2>1. k + 1 \in 0..MaxSize /\ k + 1 # 0 /\ (k + 1) - 1 = k /\ k + 1 \in Nat
    BY <1>9
  <2>2. link[k] = queue[k]
    BY <1>9
  <2>3. link[k + 1] = queue[k + 1]
    BY <1>2, <1>7, <2>1, <2>2
  <2> QED BY <2>1, <2>3
<1>10. \A k \in 0..MaxSize : link[k] = queue[k]
  <2> HIDE DEF Same
  <2>1. 0..MaxSize \subseteq Same
    BY <1>8, <1>9, UpTo
  <2> QED BY <2>1 DEF Same
<1>11. link = queue
  <2>1. link = [k \in 0..MaxSize |-> link[k]]
    <3> DEFINE N(k) == Succ(link, k)
    <3>1. link = [k \in 0..MaxSize |-> N(k)]
      BY <1>6
    <3> HIDE DEF N
    <3> QED BY ONLY <3>1
  <2>2. queue = [k \in 0..MaxSize |-> queue[k]]
    <3> HIDE DEF At
    <3> QED BY ONLY <1>1
  <2> QED BY ONLY <1>10, <2>1, <2>2
<1>12. Chain = [k \in 0..MaxSize |-> At(k)]
  BY <1>1, <1>4, <1>5, <1>11
<1> QED BY <1>12, FreeFits DEF ChainIsFifo

(* The list threaded through ts[] is exactly the queue of free ids: none is *)
(* lost or repeated, whatever calls led here (ChainIsFifo).                 *)
THEOREM ChainCorrect == Spec => []ChainIsFifo
  BY Structure, IInvChain, PTL

-----------------------------------------------------------------------------
(* The invariant decides every comparison ffid_has_id makes. *)
LEMMA IInvHasId == IInv => HasIdExact
<1> SUFFICES ASSUME IInv, NEW id \in 0..MaxLimit
             PROVE  HasId(id) <=> id \in held
  BY DEF HasIdExact
<1> USE FfidAssumption
<1>1. CASE id = 0
  BY <1>1 DEF HasId, IInv, Typed, Id
<1>2. CASE id # 0 /\ id \in held
  BY <1>2 DEF HasId, IInv, InUse
<1>3. CASE id # 0 /\ id \notin held
  <2> SUFFICES ASSUME ts[Index(id)] = id - 1 PROVE FALSE
    BY <1>3 DEF HasId
  <2>1. id \in Id /\ Index(id) \in Slot /\ id - 1 < MaxLimit
    BY <1>3, IndexInSlot DEF Id
  <2>2. ~ \E a \in held : Index(a) = Index(id)
    BY <1>3, <2>1 DEF IInv, InUse, Typed, Id
  <2>3. PICK k \in Free : fifo[k] % MaxSize = Index(id)
    BY <2>1, <2>2 DEF IInv, Covered
  <2>4. k # Len(fifo) /\ fifo[k + 1] = id - 1
    BY <2>1, <2>3 DEF IInv, Threaded
  <2>5. k + 1 \in Free /\ k \in Int
    BY <2>4 DEF Free, IInv, Typed
  <2>6. fifo[k + 1] % MaxSize = fifo[k] % MaxSize
    BY <2>3, <2>4 DEF Index
  <2> QED BY <2>5, <2>6 DEF IInv, Threaded
<1> QED
  BY <1>1, <1>2, <1>3

(* ffid_has_id recognises exactly the ids in use (HasIdExact). *)
THEOREM HasIdCorrect == Spec => []HasIdExact
  BY Structure, IInvHasId, PTL

(* No two ids in use share a slot (OneIdPerSlot). *)
THEOREM SlotsUnshared == Spec => []OneIdPerSlot
<1>1. IInv => OneIdPerSlot
  BY DEF IInv, InUse, OneIdPerSlot, Typed, Id
<1> QED
  BY <1>1, Structure, PTL

(* ffid_id finds the id in use in a slot and nothing else (IdAtExact). *)
THEOREM IdAtCorrect == Spec => []IdAtExact
<1>1. IInv => IdAtExact
  <2> SUFFICES ASSUME IInv, NEW s \in Slot
               PROVE  \/ IdAt(s) \in held /\ Index(IdAt(s)) = s
                      \/ IdAt(s) = 0 /\ \A id \in held : Index(id) # s
    BY DEF IdAtExact
  <2> USE FfidAssumption
  <2>1. CASE \E id \in held : Index(id) = s
    <3>1. PICK id \in held : Index(id) = s
      BY <2>1
    <3>2. id \in Id /\ ts[s] = id - 1 /\ (id - 1) % MaxSize = s
      BY <3>1 DEF IInv, InUse, Typed, Index
    <3>3. id \in 0..((MaxLimit + 1) - 1) /\ MaxLimit + 1 \in Nat \ {0}
      BY <3>2 DEF Id
    <3>4. id % (MaxLimit + 1) = id
      BY <3>3, ModSmall
    <3>5. (ts[s] + 1) = id
      BY <3>2 DEF Id
    <3> QED BY <3>1, <3>2, <3>4, <3>5 DEF IdAt
  <2>2. CASE \A id \in held : Index(id) # s
    <3>1. CASE ts[s] = MaxLimit
      <4>1. (MaxLimit + 1) % (MaxLimit + 1) = 0
        OBVIOUS
      <4> QED BY <3>1, <4>1, <2>2 DEF IdAt
    <3>2. CASE ts[s] # MaxLimit
      <4>1. PICK k \in Free : fifo[k] % MaxSize = s
        BY <2>2, <3>2 DEF IInv, Covered
      <4>2. k # Len(fifo) /\ fifo[k + 1] = ts[s]
        BY <3>2, <4>1 DEF IInv, Threaded
      <4>3. k + 1 \in Free /\ k + 1 # k
        BY <4>2 DEF Free, IInv, Typed
      <4>4. ts[s] % MaxSize # s
        BY <4>1, <4>2, <4>3 DEF IInv, Threaded
      <4> QED BY <4>4, <2>2 DEF IdAt
    <3> QED BY <3>1, <3>2
  <2> QED BY <2>1, <2>2
<1> QED
  BY <1>1, Structure, PTL

(* Together: every lookup net_service.c makes with an id or a slot is      *)
(* exact, however stale the id (LookupsExact).                             *)
THEOREM LookupsCorrect == Spec => []LookupsExact
<1>1. HasIdExact /\ OneIdPerSlot /\ IdAtExact => LookupsExact
  BY DEF LookupsExact
<1> QED
  BY <1>1, HasIdCorrect, SlotsUnshared, IdAtCorrect, PTL

-----------------------------------------------------------------------------
(* Counting.  cur_size is related to the free list directly, and to the    *)
(* ids in use by adding or removing one element at a time.                 *)
Retired == {s \in Slot : /\ \A id \in held : Index(id) # s
                         /\ \A k \in Free : fifo[k] % MaxSize # s}

Counted == /\ curSize \in Int
           /\ curSize = MaxSize - Len(fifo)
           /\ curSize = Cardinality(held) + Cardinality(Retired)

(* Finitely many ids are out. *)
LEMMA HeldRetiredFinite ==
  ASSUME IInv
  PROVE  /\ IsFiniteSet(held) /\ Cardinality(held) \in Nat
         /\ IsFiniteSet(Retired) /\ Cardinality(Retired) \in Nat
<1>1. IsFiniteSet(Id) /\ IsFiniteSet(Slot)
  BY FS_Interval, FfidAssumption DEF Id, Slot
<1>2. held \subseteq Id /\ Retired \subseteq Slot
  BY DEF IInv, Typed, Retired
<1>3. IsFiniteSet(held) /\ IsFiniteSet(Retired)
  BY <1>1, <1>2, FS_Subset
<1> QED
  BY <1>3, FS_CardinalityType

(* At first every slot is free and counted so. *)
LEMMA InitCounted == Init => Counted
<1> SUFFICES ASSUME Init PROVE Counted
  OBVIOUS
<1>1. Len(fifo) = MaxSize /\ held = {}
  BY FfidAssumption DEF Init
<1>2. Retired = {}
  <2> SUFFICES ASSUME NEW s \in Slot PROVE \E k \in Free : fifo[k] % MaxSize = s
    BY DEF Retired
  <2>1. s + 1 \in Free /\ fifo[s + 1] = s
    BY <1>1, FfidAssumption DEF Slot, Free, Init
  <2>2. s % MaxSize = s
    BY ModSmall, FfidAssumption DEF Slot
  <2> QED BY <2>1, <2>2
<1>3. Cardinality(held) = 0 /\ Cardinality(Retired) = 0 /\ curSize = 0
  BY <1>1, <1>2, FS_EmptySet DEF Init
<1> QED
  BY <1>1, <1>3, FfidAssumption DEF Counted

(* ffid_new_id keeps the count. *)
LEMMA NewIdCounted == IInv /\ Counted /\ NewId => Counted'
<1> SUFFICES ASSUME IInv, Counted, NewId PROVE Counted'
  OBVIOUS
<1> USE FfidAssumption
<1>1. /\ fifo # <<>> /\ first = fifo[1]
      /\ first \in 0..(MaxLimit - 1)
  BY DEF IInv, Typed, Threaded, NewId
<1>2. /\ Len(fifo) \in Nat \ {0} /\ Len(fifo') = Len(fifo) - 1
      /\ \A k \in 1..(Len(fifo) - 1) : fifo'[k] = fifo[k + 1]
      /\ Free' = 1..(Len(fifo) - 1)
  BY <1>1, TailFacts DEF NewId, Free, IInv, Typed
<1>3. Index(first + 1) = fifo[1] % MaxSize /\ 1 \in Free
  BY <1>1, <1>2 DEF Index, Free
<1>4. first + 1 \notin held
  BY <1>3 DEF IInv, InUse
<1>5. Cardinality(held') = Cardinality(held) + 1
  BY <1>4, HeldRetiredFinite, FS_AddElement DEF NewId
<1>6. Retired' = Retired
  <2>1. ASSUME NEW s \in Slot
        PROVE  s \in Retired' <=> s \in Retired
    <3>1. (\A id \in held' : Index(id) # s) <=>
            /\ \A id \in held : Index(id) # s
            /\ fifo[1] % MaxSize # s
      BY <1>3 DEF NewId
    <3>2. (\A k \in Free : fifo[k] % MaxSize # s) <=>
            /\ fifo[1] % MaxSize # s
            /\ \A k \in Free' : fifo'[k] % MaxSize # s
      <4>1. \A k \in Free' : k + 1 \in Free /\ fifo'[k] = fifo[k + 1]
        BY <1>2 DEF Free
      <4>2. \A k \in Free : k # 1 => k - 1 \in Free' /\ (k - 1) + 1 = k
        BY <1>2 DEF Free
      <4>3. \A k \in Free : k # 1 => k - 1 \in Free' /\ fifo'[k - 1] = fifo[k]
        BY <4>1, <4>2
      <4> QED BY <4>1, <4>3, <1>3
    <3> QED BY <3>1, <3>2 DEF Retired, Index
  <2> QED BY <2>1 DEF Retired
<1>7. curSize' = curSize + 1
  BY DEF NewId
<1> QED
  BY <1>2, <1>5, <1>6, <1>7, HeldRetiredFinite DEF Counted

(* A retired slot stays counted. *)
LEMMA RetireCounted ==
  ASSUME IInv, Counted, NEW id \in held, Retire(id)
  PROVE  Counted'
<1>1. held' = held \ {id} /\ fifo' = fifo /\ curSize' = curSize
  BY DEF Retire
<1>2. Cardinality(held') = Cardinality(held) - 1
  BY <1>1, HeldRetiredFinite, FS_RemoveElement
<1>3. Index(id) \in Slot /\ Index(id) \notin Retired
  BY IndexInSlot DEF IInv, Typed, Retired
<1>4. \A a \in held' : Index(a) # Index(id)
  BY <1>1 DEF IInv, InUse, Typed, Id
<1>5. Retired' = Retired \cup {Index(id)}
  <2>1. \A k \in Free : fifo[k] % MaxSize # Index(id)
    BY DEF IInv, InUse
  <2> QED BY <1>1, <1>3, <1>4, <2>1 DEF Retired, Index, Free
<1>6. Cardinality(Retired') = Cardinality(Retired) + 1
  BY <1>3, <1>5, HeldRetiredFinite, FS_AddElement
<1> QED
  BY <1>1, <1>2, <1>6, HeldRetiredFinite DEF Counted

(* A recycled slot is counted again as free. *)
LEMMA RecycleCounted ==
  ASSUME IInv, Counted, NEW id \in held, Recycle(id)
  PROVE  Counted'
<1> DEFINE n == NextIdOf(id)
<1>1. held' = held \ {id} /\ curSize' = curSize - 1 /\ fifo' = Append(fifo, n)
  BY DEF Recycle
<1>2. /\ id \in Id /\ n \in 0..(MaxLimit - 1) /\ n % MaxSize = Index(id)
      /\ fifo \in Seq(0..(MaxLimit - 1))
  BY NextIdSameSlot DEF IInv, Typed
<1> HIDE DEF n
<1>3. /\ Len(fifo) \in Nat /\ Len(fifo') = Len(fifo) + 1
      /\ \A k \in 1..Len(fifo) : fifo'[k] = fifo[k]
      /\ fifo'[Len(fifo) + 1] = n
  BY <1>1, <1>2, AppendFacts
<1>4. Cardinality(held') = Cardinality(held) - 1
  BY <1>1, HeldRetiredFinite, FS_RemoveElement
<1>5. Retired' = Retired
  <2>1. ASSUME NEW s \in Slot
        PROVE  s \in Retired' <=> s \in Retired
    <3>1. (\A k \in Free' : fifo'[k] % MaxSize # s) <=>
            /\ \A k \in Free : fifo[k] % MaxSize # s
            /\ Index(id) # s
      <4>1. Free' = Free \cup {Len(fifo) + 1}
        BY <1>3 DEF Free
      <4> QED BY <4>1, <1>2, <1>3 DEF Free
    <3>2. (\A a \in held : Index(a) # s) <=>
            /\ \A a \in held' : Index(a) # s
            /\ Index(id) # s
      BY <1>1
    <3> QED BY <3>1, <3>2 DEF Retired, Index
  <2> QED BY <2>1 DEF Retired
<1> QED
  BY <1>1, <1>3, <1>4, <1>5, HeldRetiredFinite, FfidAssumption DEF Counted

(* Every step keeps the count. *)
LEMMA StepCounted == IInv /\ Counted /\ [Next]_vars => Counted'
<1> SUFFICES ASSUME IInv, Counted, [Next]_vars PROVE Counted'
  OBVIOUS
<1>1. CASE NewId
  BY <1>1, NewIdCounted
<1>2. ASSUME NEW id \in held, DelId(id) PROVE Counted'
  BY <1>2, RetireCounted, RecycleCounted DEF DelId
<1>3. CASE UNCHANGED vars
  BY <1>3 DEF vars, Counted, Retired, Free, Index
<1> QED
  BY <1>1, <1>2, <1>3 DEF Next

(* The count is right at all times. *)
LEMMA CountedAlways == Spec => [](IInv /\ Counted)
<1>1. Init => IInv /\ Counted
  BY InitIInv, InitCounted
<1>2. (IInv /\ Counted) /\ [Next]_vars => (IInv /\ Counted)'
  BY StepIInv, StepCounted
<1> QED
  BY <1>1, <1>2, PTL DEF Spec

(* cur_size is what it should be, and ids run out exactly when no slot is  *)
(* free (SizeExact).                                                       *)
THEOREM SizeCorrect == Spec => []SizeExact
<1>1. IInv /\ Counted => SizeExact
  <2> SUFFICES ASSUME IInv, Counted PROVE SizeExact
    OBVIOUS
  <2>1. Len(fifo) \in Nat /\ (fifo = <<>> <=> Len(fifo) = 0)
    BY EmptySeq DEF IInv, Typed
  <2>2. fifo # <<>> => 1 \in 1..Len(fifo)
    BY <2>1
  <2>3. first >= MaxLimit <=> fifo = <<>>
    BY <2>2, FfidAssumption DEF IInv, Threaded, Typed
  <2>4. curSize = MaxSize <=> Len(fifo) = 0
    BY <2>1, FfidAssumption DEF Counted
  <2> QED
    BY <2>1, <2>3, <2>4 DEF Counted, SizeExact, Retired, Free
<1> QED
  BY <1>1, CountedAlways, PTL

(* Type correctness; that cur_size stays within 0..max_size needs the      *)
(* counting argument.                                                      *)
THEOREM TypeCorrect == Spec => []TypeOK
<1>1. IInv /\ Counted => TypeOK
  <2> SUFFICES ASSUME IInv, Counted PROVE TypeOK
    OBVIOUS
  <2>1. Len(fifo) \in Nat
    BY DEF IInv, Typed
  <2>2. curSize \in 0..MaxSize
    BY <2>1, HeldRetiredFinite, FfidAssumption DEF Counted
  <2> QED BY <2>2 DEF TypeOK, IInv, Typed
<1> QED
  BY <1>1, CountedAlways, PTL

-----------------------------------------------------------------------------
(* Which ids have been handed out.  Either a slot of a looping pool has    *)
(* been through all its ids, or its ids so far are exactly those up to the *)
(* one in use, or below the one that is free.                              *)
AllIssued(s) == \A id \in Id : Index(id) = s => id \in issued

UsedBelow(s, bound) ==
  \A id \in Id : Index(id) = s => (id \in issued <=> id <= bound)

History ==
  /\ \A id \in held : \/ isLoop /\ AllIssued(Index(id))
                      \/ UsedBelow(Index(id), id)
  /\ \A k \in Free : \/ isLoop /\ AllIssued(fifo[k] % MaxSize)
                     \/ UsedBelow(fifo[k] % MaxSize, fifo[k])

(* At first no id has been issued. *)
LEMMA InitHistory == Init => History
<1> SUFFICES ASSUME Init, NEW k \in Free
             PROVE  UsedBelow(fifo[k] % MaxSize, fifo[k])
  BY DEF History, Init
<1> USE FfidAssumption
<1>1. Len(fifo) = MaxSize /\ fifo[k] = k - 1 /\ k \in 1..MaxSize
  BY DEF Init, Free
<1>2. (k - 1) % MaxSize = k - 1
  BY <1>1, ModSmall
<1> SUFFICES ASSUME NEW id \in Id, Index(id) = k - 1, id <= k - 1
             PROVE  FALSE
  BY <1>1, <1>2 DEF UsedBelow, Init
<1>3. id - 1 \in 0..(MaxSize - 1) /\ id \in Int
  BY <1>1 DEF Id
<1>4. MaxSize \in Nat \ {0}
  OBVIOUS
<1>5. (id - 1) % MaxSize = id - 1
  BY ONLY <1>3, <1>4, ModSmall
<1>6. Index(id) = id - 1
  BY ONLY <1>5 DEF Index
<1>7. Index(id) = k - 1 /\ id <= k - 1
  OBVIOUS
<1> QED
  BY ONLY <1>1, <1>3, <1>6, <1>7

(* The id ffid_new_id returns is later than all others of its slot. *)
LEMMA NewIdHistory == IInv /\ History /\ NewId => History'
<1> SUFFICES ASSUME IInv, History, NewId PROVE History'
  OBVIOUS
<1> USE FfidAssumption
<1>1. /\ fifo # <<>> /\ first = fifo[1]
      /\ first \in 0..(MaxLimit - 1) /\ first + 1 \in Id
  BY NewIdHead
<1>2. /\ Len(fifo) \in Nat \ {0} /\ Len(fifo') = Len(fifo) - 1
      /\ \A k \in 1..(Len(fifo) - 1) : fifo'[k] = fifo[k + 1]
      /\ Free' = 1..(Len(fifo) - 1)
  BY <1>1, TailFacts DEF NewId, Free, IInv, Typed
<1>3. Index(first + 1) = fifo[1] % MaxSize /\ 1 \in Free
  BY <1>1, <1>2 DEF Index, Free
<1>4. /\ held' = held \cup {first + 1} /\ issued' = issued \cup {first + 1}
      /\ isLoop' = isLoop
  BY DEF NewId
<1>5. ASSUME NEW s, s # Index(first + 1)
      PROVE  /\ AllIssued(s) => AllIssued(s)'
             /\ \A b : UsedBelow(s, b) => UsedBelow(s, b)'
  BY <1>4, <1>5 DEF AllIssued, UsedBelow, Index
<1>6. ASSUME NEW id \in held'
      PROVE  \/ isLoop /\ AllIssued(Index(id))'
             \/ UsedBelow(Index(id), id)'
  <2>1. CASE id = first + 1
    <3>1. CASE isLoop /\ AllIssued(fifo[1] % MaxSize)
      BY <2>1, <3>1, <1>3, <1>4 DEF AllIssued, Index
    <3>2. CASE UsedBelow(fifo[1] % MaxSize, fifo[1])
      <4> SUFFICES ASSUME NEW o \in Id, Index(o) = Index(first + 1)
                   PROVE  o \in issued' <=> o <= first + 1
        BY <2>1 DEF UsedBelow, Index
      <4>1. o \in issued <=> o <= first
        BY <3>2, <1>1, <1>3 DEF UsedBelow
      <4> QED BY <4>1, <1>1, <1>4 DEF Id
    <3> QED BY <3>1, <3>2, <1>3 DEF History
  <2>2. CASE id \in held
    <3>1. Index(id) # Index(first + 1)
      BY <2>2, <1>3 DEF IInv, InUse
    <3>2. \/ isLoop /\ AllIssued(Index(id))
          \/ UsedBelow(Index(id), id)
      BY <2>2 DEF History
    <3> QED BY <3>1, <3>2, <1>5
  <2> QED BY <2>1, <2>2, <1>4
<1>7. ASSUME NEW k \in Free'
      PROVE  (\/ isLoop /\ AllIssued(fifo[k] % MaxSize)
              \/ UsedBelow(fifo[k] % MaxSize, fifo[k]))'
  <2>1. k + 1 \in Free /\ k + 1 # 1 /\ fifo'[k] = fifo[k + 1]
    BY <1>2 DEF Free
  <2>2. PICK s, b : s = fifo[k + 1] % MaxSize /\ b = fifo[k + 1]
    OBVIOUS
  <2>3. s # Index(first + 1)
    BY <2>1, <2>2, <1>3 DEF IInv, Threaded
  <2>4. (isLoop /\ AllIssued(s)) \/ UsedBelow(s, b)
    BY <2>1, <2>2 DEF History
  <2>5. (isLoop /\ AllIssued(s)') \/ UsedBelow(s, b)'
    BY <2>3, <2>4, <1>5
  <2>6. /\ (isLoop' /\ AllIssued(s)') \/ UsedBelow(s, b)'
        /\ s = fifo'[k] % MaxSize /\ b = fifo'[k]
    BY <2>1, <2>2, <2>5, <1>4
  <2> QED BY <2>6, Zenon DEF AllIssued, UsedBelow, Index
<1>8. \A id \in held' : (\/ isLoop /\ AllIssued(Index(id))
                         \/ UsedBelow(Index(id), id))'
  <2> SUFFICES ASSUME NEW id \in held'
               PROVE  (isLoop' /\ AllIssued(Index(id))') \/ UsedBelow(Index(id), id)'
    BY Zenon DEF Index, AllIssued, UsedBelow
  <2> QED BY <1>4, <1>6, Zenon
<1> QED
  BY <1>7, <1>8, Zenon DEF History

(* Retiring a slot issues nothing. *)
LEMMA RetireHistory ==
  ASSUME IInv, History, NEW id \in held, Retire(id)
  PROVE  History'
  BY DEF Retire, History, Free, AllIssued, UsedBelow, Index

(* The next id of a recycled slot is a new one. *)
LEMMA RecycleHistory ==
  ASSUME IInv, History, NEW id \in held, Recycle(id)
  PROVE  History'
<1> USE FfidAssumption
<1> DEFINE n == NextIdOf(id)
<1>1. /\ held' = held \ {id} /\ issued' = issued /\ fifo' = Append(fifo, n)
      /\ isLoop' = isLoop
  BY DEF Recycle
<1>2. /\ id \in Id /\ n \in 0..(MaxLimit - 1) /\ n % MaxSize = Index(id)
      /\ fifo \in Seq(0..(MaxLimit - 1))
  BY NextIdSameSlot DEF IInv, Typed
<1>3. /\ Len(fifo) \in Nat /\ Len(fifo') = Len(fifo) + 1
      /\ \A k \in 1..Len(fifo) : fifo'[k] = fifo[k]
      /\ fifo'[Len(fifo) + 1] = n
  <2> HIDE DEF n
  <2> QED BY <1>1, <1>2, AppendFacts
(* No id of the slot lies between id and the slot's next id. *)
<1>4. ASSUME NEW o \in Id, Index(o) = Index(id), id < o
      PROVE  id + MaxSize <= o
  <2>1. id - 1 \in Nat /\ o - 1 \in Nat /\ id - 1 < o - 1
    BY <1>2, <1>4 DEF Id
  <2>2. (id - 1) + MaxSize <= o - 1
    BY <1>4, <2>1, ModApart DEF Index
  <2> QED BY <2>2, <1>2 DEF Id
<1>5. (isLoop /\ AllIssued(Index(id))) \/ UsedBelow(Index(id), n)
  <2>1. CASE UsedBelow(Index(id), id) /\ NearLimit(id)
    <3>1. isLoop
      BY <2>1 DEF Recycle
    <3>2. ASSUME NEW o \in Id, Index(o) = Index(id) PROVE o \in issued
      <4>1. id < o => FALSE
        BY <3>2, <1>2, <1>4, <2>1 DEF NearLimit, Id
      <4> QED BY <4>1, <3>2, <1>2, <2>1 DEF UsedBelow, Id
    <3> QED BY <3>1, <3>2 DEF AllIssued
  <2>2. CASE UsedBelow(Index(id), id) /\ ~NearLimit(id)
    <3>1. n = (id - 1) + MaxSize
      BY <2>2 DEF NextIdOf
    <3>2. ASSUME NEW o \in Id, Index(o) = Index(id)
          PROVE  o <= id <=> o <= n
      BY <3>1, <3>2, <1>2, <1>4 DEF Id
    <3> QED BY <2>2, <3>2 DEF UsedBelow
  <2>3. CASE isLoop /\ AllIssued(Index(id))
    BY <2>3
  <2> QED BY <2>1, <2>2, <2>3 DEF History
<1>6. ASSUME NEW k \in Free'
      PROVE  (\/ isLoop /\ AllIssued(fifo[k] % MaxSize)
              \/ UsedBelow(fifo[k] % MaxSize, fifo[k]))'
  <2>1. CASE k = Len(fifo) + 1
    BY <2>1, <1>1, <1>2, <1>3, <1>5 DEF AllIssued, UsedBelow, Index
  <2>2. CASE k \in Free
    <3>1. fifo'[k] = fifo[k]
      BY <2>2, <1>3 DEF Free
    <3>2. \/ isLoop /\ AllIssued(fifo[k] % MaxSize)
          \/ UsedBelow(fifo[k] % MaxSize, fifo[k])
      BY <2>2 DEF History
    <3> QED BY <3>1, <3>2, <1>1 DEF AllIssued, UsedBelow, Index
  <2> QED BY <2>1, <2>2, <1>3 DEF Free
<1>7. \A a \in held' : (\/ isLoop /\ AllIssued(Index(a))
                        \/ UsedBelow(Index(a), a))'
  BY <1>1 DEF History, AllIssued, UsedBelow, Index
<1> QED
  BY <1>6, <1>7 DEF History

(* The history is right at all times. *)
LEMMA HistoryAlways == Spec => [](IInv /\ History)
<1>1. Init => IInv /\ History
  BY InitIInv, InitHistory
<1>2. (IInv /\ History) /\ [Next]_vars => (IInv /\ History)'
  <2> SUFFICES ASSUME IInv, History, [Next]_vars PROVE History'
    BY StepIInv
  <2>1. CASE NewId
    BY <2>1, NewIdHistory
  <2>2. ASSUME NEW id \in held, DelId(id) PROVE History'
    BY <2>2, RetireHistory, RecycleHistory DEF DelId
  <2>3. CASE UNCHANGED vars
    BY <2>3 DEF vars, History, Free, AllIssued, UsedBelow, Index
  <2> QED
    BY <2>1, <2>2, <2>3 DEF Next
<1> QED
  BY <1>1, <1>2, PTL DEF Spec

(* A used id comes back only in a looping pool, after every id of its slot *)
(* was used (NoEarlyReissue).                                              *)
THEOREM ReissueLate == Spec => NoEarlyReissue
<1>1. IInv /\ History /\ [Next]_vars => [LateReissue]_vars
  <2> SUFFICES ASSUME IInv, History, Next,
                      NEW id \in held', id \notin held, id \in issued
               PROVE  isLoop /\ AllIssued(Index(id))
    BY DEF AllIssued, LateReissue
  <2>1. NewId /\ id = first + 1
    <3>1. NewId
      BY DEF Next, DelId, Retire, Recycle
    <3> QED BY <3>1 DEF NewId
  <2>2. /\ fifo # <<>> /\ first = fifo[1] /\ 1 \in Free
        /\ first \in 0..(MaxLimit - 1) /\ id \in Id
    <3>1. fifo # <<>> /\ first = fifo[1] /\ first \in 0..(MaxLimit - 1)
      BY <2>1, FfidAssumption DEF IInv, Typed, Threaded, NewId
    <3>2. fifo \in Seq(0..(MaxLimit - 1))
      BY DEF IInv, Typed
    <3>3. Len(fifo) \in Nat \ {0}
      BY <3>1, <3>2, TailFacts
    <3> QED BY <2>1, <3>1, <3>3, FfidAssumption DEF Id, Free
  <2>3. Index(id) = fifo[1] % MaxSize
    BY <2>1, <2>2 DEF Index
  <2>4. ~UsedBelow(Index(id), fifo[1])
    BY <2>1, <2>2 DEF UsedBelow
  <2> QED
    BY <2>2, <2>3, <2>4 DEF History
<1> QED
  BY <1>1, HistoryAlways, PTL DEF Spec, NoEarlyReissue

-----------------------------------------------------------------------------
(* Refinement: the array implements the queue of tickets.                  *)
PoolFree == [k \in 1..Len(fifo) |-> Ticket(fifo[k])]
PoolHeld == {Ticket(id - 1) : id \in held}

(* Distinct ids are distinct tickets. *)
LEMMA TicketInjective ==
  ASSUME NEW i \in Nat, NEW j \in Nat, Ticket(i) = Ticket(j)
  PROVE  i = j
<1>1. i % MaxSize = j % MaxSize /\ i \div MaxSize = j \div MaxSize
  BY DEF Ticket
<1>2. /\ i = (MaxSize * (i \div MaxSize)) + (i % MaxSize)
      /\ j = (MaxSize * (j \div MaxSize)) + (j % MaxSize)
  BY DivMod, FfidAssumption
<1> QED
  BY <1>1, <1>2

(* A new allocator is a pool with all slots free. *)
LEMMA InitPool == Init => Pool!Init
<1> SUFFICES ASSUME Init PROVE Pool!Init
  OBVIOUS
<1>1. Len(fifo) = MaxSize
  BY FfidAssumption DEF Init
<1>2. ASSUME NEW k \in 1..MaxSize
      PROVE  Ticket(fifo[k]) = <<k - 1, 0>>
  <2>1. fifo[k] = k - 1 /\ k - 1 \in 0..(MaxSize - 1)
    BY FfidAssumption DEF Init
  <2> QED BY <2>1, ModSmall, FfidAssumption DEF Ticket
<1> QED
  BY <1>1, <1>2 DEF Init, Pool!Init

(* ffid_new_id takes the first free id of the pool. *)
LEMMA NewIdPool == IInv /\ NewId => Pool!Take
<1> SUFFICES ASSUME IInv, NewId PROVE Pool!Take
  OBVIOUS
<1>1. /\ fifo # <<>> /\ first = fifo[1] /\ (first + 1) - 1 = first
  BY FfidAssumption DEF IInv, Typed, Threaded, NewId
<1>2. /\ Len(fifo) \in Nat \ {0} /\ Len(fifo') = Len(fifo) - 1
      /\ \A k \in 1..(Len(fifo) - 1) : fifo'[k] = fifo[k + 1]
  BY <1>1, TailFacts DEF NewId, IInv, Typed
<1>3. /\ PoolFree \in Seq({Ticket(fifo[k]) : k \in 1..Len(fifo)})
      /\ Len(PoolFree) = Len(fifo) /\ PoolFree # <<>>
      /\ Head(PoolFree) = Ticket(first)
  BY <1>1, <1>2 DEF PoolFree
<1>4. Tail(PoolFree) = [k \in 1..(Len(fifo) - 1) |-> Ticket(fifo[k + 1])]
  BY <1>1, <1>2, <1>3 DEF PoolFree
<1>5. PoolFree' = Tail(PoolFree)
  BY <1>2, <1>4 DEF PoolFree, Ticket
<1>6. PoolHeld' = PoolHeld \cup {Ticket(first)} /\ isLoop' = isLoop
  BY <1>1 DEF NewId, PoolHeld, Ticket
<1> QED
  BY <1>3, <1>5, <1>6 DEF Pool!Take, PoolFree, PoolHeld, Ticket

(* ffid_del_id gives an id back to the pool. *)
LEMMA DelIdPool ==
  ASSUME IInv, NEW id \in held, DelId(id)
  PROVE  Pool!Give(Ticket(id - 1))
<1> USE FfidAssumption
<1> DEFINE i == id - 1
           s == i % MaxSize
           g == i \div MaxSize
<1>1. i \in Nat /\ i < MaxLimit /\ id \in Id /\ Index(id) = s
  BY IndexInSlot DEF IInv, Typed, Index
<1>2. i = (MaxSize * g) + s /\ g \in Nat /\ s \in 0..(MaxSize - 1)
  BY <1>1, DivMod
<1>3. Ticket(i) = <<s, g>> /\ Ticket(i)[1] = s /\ Ticket(i)[2] = g
  BY DEF Ticket
<1>4. PoolHeld' = PoolHeld \ {Ticket(i)} /\ Ticket(i) \in PoolHeld
  <2>1. held' = held \ {id}
    BY DEF DelId, Retire, Recycle
  <2>2. \A a \in held : Ticket(a - 1) = Ticket(i) => a = id
    <3> SUFFICES ASSUME NEW a \in held, Ticket(a - 1) = Ticket(i) PROVE a = id
      OBVIOUS
    <3>1. a - 1 \in Nat /\ a \in Int /\ id \in Int
      BY DEF IInv, Typed, Id
    <3>2. a - 1 = i
      <4> HIDE DEF i
      <4> QED BY <3>1, <1>1, TicketInjective
    <3> QED BY <3>1, <3>2
  <2> QED BY <2>1, <2>2 DEF PoolHeld, Ticket
<1>5. Pool!HasGeneration(s, g + 1) <=> ~NearLimit(id)
  <2>1. s + ((g + 1) * MaxSize) = i + MaxSize
    <3> HIDE DEF i, s, g
    <3>1. (g + 1) * MaxSize = (MaxSize * g) + MaxSize /\ MaxSize * g \in Int
      BY <1>2, Z3
    <3> QED BY <1>1, <1>2, <3>1
  <2> QED BY <2>1, <1>1 DEF Pool!HasGeneration, NearLimit
<1>6. isLoop' = isLoop
  BY DEF DelId, Retire, Recycle
<1>7. CASE Retire(id)
  <2>1. PoolFree' = PoolFree
    BY <1>7 DEF Retire, PoolFree, Ticket
  <2>2. ~isLoop /\ ~Pool!HasGeneration(s, g + 1)
    BY <1>5, <1>7 DEF Retire
  <2> QED
    BY <1>3, <1>4, <1>6, <2>1, <2>2 DEF Pool!Give, PoolFree, PoolHeld, Ticket
<1>8. CASE Recycle(id)
  <2> DEFINE n == NextIdOf(id)
  <2>1. /\ fifo' = Append(fifo, n) /\ n \in 0..(MaxLimit - 1)
        /\ fifo \in Seq(0..(MaxLimit - 1))
    BY <1>1, <1>8, NextIdSameSlot DEF Recycle, IInv, Typed
  <2>2. /\ Len(fifo) \in Nat /\ Len(fifo') = Len(fifo) + 1
        /\ \A k \in 1..Len(fifo) : fifo'[k] = fifo[k]
        /\ fifo'[Len(fifo) + 1] = n
    <3> HIDE DEF n
    <3> QED BY <2>1, AppendFacts
  <2>3. Ticket(n) = IF Pool!HasGeneration(s, g + 1) THEN <<s, g + 1>> ELSE <<s, 0>>
    <3>1. CASE NearLimit(id)
      <4>1. n = s /\ s % MaxSize = s /\ s \div MaxSize = 0
        BY <3>1, <1>1, <1>2, ModSmall DEF NextIdOf
      <4> HIDE DEF n, s, g
      <4> QED BY <3>1, <4>1, <1>5 DEF Ticket
    <3>2. CASE ~NearLimit(id)
      <4>1. n = i + MaxSize
        BY <3>2 DEF NextIdOf
      <4>2. n % MaxSize = s /\ n \div MaxSize = g + 1
        <5> HIDE DEF i, n
        <5> QED BY <4>1, <1>1, ModStep, DivStep
      <4> HIDE DEF n, s, g
      <4> QED BY <3>2, <4>2, <1>5 DEF Ticket
    <3> QED BY <3>1, <3>2
  <2>4. PoolFree' = Append(PoolFree, Ticket(n))
    <3> HIDE DEF n
    <3>1. PoolFree' = [k \in 1..(Len(fifo) + 1) |-> Ticket(fifo'[k])]
      BY <2>2 DEF PoolFree, Ticket
    <3>2. /\ Len(PoolFree) = Len(fifo)
          /\ Append(PoolFree, Ticket(n)) =
               [k \in 1..(Len(fifo) + 1) |->
                  IF k = Len(fifo) + 1 THEN Ticket(n) ELSE Ticket(fifo[k])]
      BY <2>2 DEF PoolFree
    <3> QED BY <3>1, <3>2, <2>2
  <2>5. isLoop \/ Pool!HasGeneration(s, g + 1)
    BY <1>5, <1>8 DEF Recycle
  <2>6. PoolFree' = IF Pool!HasGeneration(s, g + 1)
                    THEN Append(PoolFree, <<s, g + 1>>)
                    ELSE IF isLoop THEN Append(PoolFree, <<s, 0>>) ELSE PoolFree
    BY <2>3, <2>4, <2>5
  <2> QED
    BY <1>3, <1>4, <1>6, <2>6 DEF Pool!Give, PoolFree, PoolHeld, Ticket
<1> QED
  BY <1>7, <1>8 DEF DelId

(* ffid.c implements the queue of tickets (ImplementsPool). *)
THEOREM Refinement == Spec => ImplementsPool
<1>1. Init => Pool!Init
  BY InitPool
<1>2. IInv /\ [Next]_vars => [Pool!Next]_(Pool!vars)
  <2> SUFFICES ASSUME IInv, [Next]_vars PROVE [Pool!Next]_(Pool!vars)
    OBVIOUS
  <2>1. CASE NewId
    BY <2>1, NewIdPool DEF Pool!Next
  <2>2. ASSUME NEW id \in held, DelId(id) PROVE Pool!Next
    <3>1. Pool!Give(Ticket(id - 1))
      BY <2>2, DelIdPool
    <3> QED BY <3>1 DEF Pool!Next
  <2>3. CASE UNCHANGED vars
    BY <2>3 DEF vars, Pool!vars, Ticket
  <2> QED
    BY <2>1, <2>2, <2>3 DEF Next
<1> QED
  BY <1>1, <1>2, Structure, PTL DEF Spec, ImplementsPool, Pool!Spec
=============================================================================
