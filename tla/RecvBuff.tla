------------------------------ MODULE RecvBuff ------------------------------
(***************************************************************************)
(* recv_buff of engine/net/buff.c in its two versions: bytes go in as they *)
(* arrive and messages come out.                                           *)
(*                                                                         *)
(* RECV_BUFF_USE_BUFF (vA) keeps the bytes in a ByteRing and cuts it into  *)
(* messages when they are read; `check' is how far arriving messages have  *)
(* been recognised.  RECV_BUFF_USE_QUEUE (vB) receives the header of a     *)
(* message first and then the message into memory of its own; `check'      *)
(* counts the bytes of it that have arrived.                               *)
(*                                                                         *)
(* vA is a record [ring, check].  vB is a record [lens, bufs, write, read, *)
(* check, head]; head are the bytes of a header that is not complete,      *)
(* which the code keeps in lens[] too, and bufs[] holds the bytes of a     *)
(* message that have arrived.                                              *)
(***************************************************************************)
EXTENDS ByteRing

(* The size in a header. *)
Decoded(bytes) ==
  LET sum[i \in 0..Len(bytes)] ==
        IF i = 0 THEN 0 ELSE sum[i - 1] + bytes[i] * Power(i - 1)
  IN  sum[Len(bytes)]

-----------------------------------------------------------------------------
(* vA *)

EmptyA == [ring |-> Empty, check |-> Capacity]

(* recv_buff_prepare_vA: room for bytes, up to the end of a part. (That    *)
(* there is no memory for the part looks like no room.)                    *)
PreparedA(b) ==
  LET r == b.ring
  IN  CASE r.read = r.write -> 0
        [] r.read # r.write /\ Part(r.read) = Part(r.write) -> Space(r.read, r.write)
        [] OTHER -> BufferSize - (r.write % BufferSize)

\* waits for one byte more than the message has
MsgSize_slip(r, from, en) ==
  LET used == Capacity - Space(from, r.write)
      size == Decoded(BytesFrom(r, from, en))
  IN  CASE used < en -> 0
        [] used >= en /\ size < en -> -2
        [] used >= en /\ size > Capacity -> -3
        [] used >= en /\ size \in en..Capacity -> IF size >= used THEN 0 ELSE size

(* buff_gain_msg_size: the size of the message at a position, 0 when it is *)
(* not complete, negative when there can be no such message.               *)
MsgSize(r, from, en) ==
  LET used == Capacity - Space(from, r.write)
      size == Decoded(BytesFrom(r, from, en))
  IN  CASE used < en -> 0
        [] used >= en /\ size < en -> -2
        [] used >= en /\ size > Capacity -> -3
        [] used >= en /\ size \in en..Capacity -> IF size > used THEN 0 ELSE size

(* recv_buff_check_new_msg goes from message to message as far as it can.  *)
(* No message is without bytes, so it stops within Capacity rounds.        *)
Recognised(r, check, en) ==
  LET following == [pos \in Position |->
                      IF MsgSize(r, pos, en) > 0 THEN Forward(pos, MsgSize(r, pos, en)) ELSE pos]
      at[n \in 0..Capacity] == IF n = 0 THEN check ELSE following[at[n - 1]]
  IN  at[Capacity]

(* recv_buff_prepare_vA and recv(): the bytes are in the array ...         *)
ReceivedA(b, bytes) == Stored(Allocated(b.ring, {Index(b.ring.write)}), bytes)

(* ... and recv_buff_consume_vA looks for messages in array r. It returns  *)
(* the number that became complete, or an error when what follows them     *)
(* cannot be a message.                                                    *)
ConsumedA(b, r, en) == [ring |-> r, check |-> Recognised(r, b.check, en)]
ConsumeFailsA(c, en) == MsgSize(c.ring, c.check, en) < 0
ConsumeCountsA(b, c) == c.check # b.check

(* recv_buff_read_vA *)
ReadableA(b, en) == MsgSize(b.ring, b.ring.read, en) > 0
MessageA(b, en) == BytesFrom(b.ring, Forward(b.ring.read, en),
                             MsgSize(b.ring, b.ring.read, en) - en)
ReadA(b, en) == [b EXCEPT !.ring = Skipped(@, MsgSize(@, @.read, en))]

-----------------------------------------------------------------------------
(* vB *)

EmptyB == [lens |-> [i \in PartIndex |-> 0], bufs |-> [i \in PartIndex |-> NULL],
           write |-> 0, read |-> PoolCnt, check |-> 0, head |-> <<>>]

Cur(b) == b.write % PoolCnt

(* recv_buff_prepare_vB: what is missing of the header or of the message. *)
PreparedB(b, en) ==
  CASE b.write = b.read -> 0
    [] b.write # b.read /\ b.check < en -> en - b.check
    [] b.write # b.read /\ b.check >= en ->
         IF b.lens[Cur(b)] <= 0 THEN 0 ELSE b.lens[Cur(b)] - (b.check - en)

(* recv_buff_consume_vB: bytes of a header, which may complete it ... *)
CompletesHead(b, bytes, en) == b.check < en /\ b.check + Len(bytes) = en
HeadSize(b, bytes) == Decoded(b.head \o bytes)
ConsumedHead(b, bytes, en) ==
  IF CompletesHead(b, bytes, en)
  THEN [b EXCEPT !.lens[Cur(b)] = HeadSize(b, bytes) - en, !.bufs[Cur(b)] = <<>>,
                 !.check = en, !.head = <<>>]
  ELSE [b EXCEPT !.check = @ + Len(bytes), !.head = @ \o bytes]

\* counts the header twice: the message ends early
ConsumedBody_slip(b, bytes, en) ==
  LET done == b.check + Len(bytes) >= b.lens[Cur(b)]
  IN  [b EXCEPT !.bufs[Cur(b)] = @ \o bytes,
                !.check = IF done THEN 0 ELSE @ + Len(bytes),
                !.write = IF done THEN (@ + 1) % (2 * PoolCnt) ELSE @]

(* ... or of a message, which may complete that. *)
CompletesBody(b, bytes, en) == b.check - en + Len(bytes) = b.lens[Cur(b)]
ConsumedBody(b, bytes, en) ==
  LET done == CompletesBody(b, bytes, en)
  IN  [b EXCEPT !.bufs[Cur(b)] = @ \o bytes,
                !.check = IF done THEN 0 ELSE @ + Len(bytes),
                !.write = IF done THEN (@ + 1) % (2 * PoolCnt) ELSE @]

(* recv_buff_read_vB hands the memory of the message to the caller. *)
ReadableB(b) == (b.write + PoolCnt) % (2 * PoolCnt) # b.read
MessageB(b) == b.bufs[b.read % PoolCnt]
ReadB(b) == [b EXCEPT !.lens[b.read % PoolCnt] = 0, !.bufs[b.read % PoolCnt] = NULL,
                      !.read = (@ + 1) % (2 * PoolCnt)]
=============================================================================
