------------------------------- MODULE Stream -------------------------------
(***************************************************************************)
(* One direction of a connection: the send_buff of one side, the bytes     *)
(* between the two sockets, and the recv_buff of the other side            *)
(* (engine/net/buff.c, called from epoll_service.c as in the loop of       *)
(* engine/test/buff_test.c).  EpollSession counts messages; here they are  *)
(* bytes that are written behind a header, sent and received in pieces of  *)
(* any size, and cut into messages again.                                  *)
(*                                                                         *)
(* Each side works on its buffer under the lock of the session's slot, so  *)
(* a call is one step.  The reader reads when it was told that there is a  *)
(* message and goes on until there is none, as engine/test/server.c does.  *)
(*                                                                         *)
(* When the receiving side finds an error it takes the registration away   *)
(* and reports Eve_Error, after which test/server.c and the scripts close  *)
(* the socket; that net_socket_read would register it again (post_read) is *)
(* left out, so nothing is received once broken is set.                    *)
(***************************************************************************)
EXTENDS Integers, Sequences

CONSTANTS
  SendPoolCnt, SendSize,  \* parts of the send buffer, and bytes in each
  RecvPoolCnt, RecvSize,  \* the same for the receive buffer
  Radix,                  \* values of a byte
  EnBytes,                \* header sizes: both sides have the same
  Versions,               \* of the receive buffer: "buff", "queue"
  Sizes,                  \* sizes of messages that clients send
  WireCap,                \* bound: bytes the two sockets hold
  NULL

ASSUME StreamAssumption ==
  /\ {SendPoolCnt, SendSize, RecvPoolCnt, RecvSize, WireCap} \subseteq Nat \ {0}
  /\ Radix \in Nat \ {0, 1} /\ EnBytes \subseteq Nat \ {0} /\ Sizes \subseteq Nat
  /\ Versions \subseteq {"buff", "queue"} /\ NULL \notin {"memory", "rejected"}
  /\ \A n \in {SendSize, RecvSize} : NULL \notin [0..(n - 1) -> 0..Radix]

VARIABLES
  enByte,   \* en_byte, given to net_socket_cfg
  version,  \* of recv_buff
  tx,       \* the send buffer
  wire,     \* bytes sent and not received
  rx,       \* the receive buffer
  told,     \* Eve_Read was reported and not everything has been read
  broken,   \* the receiving side gave up: NULL, "memory" or "rejected"
  transit,  \* auxiliary: messages accepted and not read yet
  got       \* auxiliary: the message the last step returned, or NULL

vars == <<enByte, version, tx, wire, rx, told, broken, transit, got>>

S == INSTANCE SendBuff WITH PoolCnt <- SendPoolCnt, BufferSize <- SendSize
R == INSTANCE RecvBuff WITH PoolCnt <- RecvPoolCnt, BufferSize <- RecvSize

(* What a message of a size contains. *)
Message(n) == [i \in 1..n |-> (n + i) % Radix]

(* What clients send is not empty and leaves room for the size of the      *)
(* header in the header, and in the peer's buffer.  The code tests none of *)
(* the three.                                                              *)
Sendable(m) == /\ m # <<>>
               /\ Len(m) + enByte < S!Power(enByte)
               /\ version = "buff" => Len(m) + enByte <= R!Capacity

Init ==
  /\ enByte \in EnBytes /\ version \in Versions
  /\ tx = S!Empty
  /\ wire = <<>>
  /\ rx = IF version = "buff" THEN R!EmptyA ELSE R!EmptyB
  /\ told = FALSE /\ broken = NULL
  /\ transit = <<>> /\ got = NULL

(* send_buff_write; a message it refuses changes nothing. *)
Write(m) ==
  /\ S!Accepts(tx, m, enByte)
  /\ tx' = S!Written(tx, m, enByte)
  /\ transit' = Append(transit, m)
  /\ got' = NULL
  /\ UNCHANGED <<enByte, version, wire, rx, told, broken>>

WriteFails(m) ==
  /\ S!Accepts(tx, m, enByte)
  /\ tx' \in S!WriteFailures(tx, m, enByte)
  /\ got' = NULL
  /\ UNCHANGED <<enByte, version, wire, rx, told, broken, transit>>

(* post_rest_write: the socket takes k of the bytes prepared. *)
Send(k) ==
  /\ k <= S!Prepared(tx) /\ Len(wire) + k <= WireCap
  /\ wire' = wire \o S!BytesFrom(tx, tx.read, k)
  /\ tx' = S!Consumed(tx, k)
  /\ got' = NULL
  /\ UNCHANGED <<enByte, version, rx, told, broken, transit>>

(* post_rest_read: k bytes are received. *)
Arrived(k) == SubSeq(wire, 1, k)
Taken(k) == /\ wire' = SubSeq(wire, k + 1, Len(wire))
            /\ got' = NULL
            /\ UNCHANGED <<enByte, version, tx, transit>>

(* An error ends the session, and hides the messages before it.            *)
ReceiveA(k) ==
  /\ version = "buff" /\ broken = NULL
  /\ k <= R!PreparedA(rx)
  /\ \E r \in {R!ReceivedA(rx, Arrived(k))} : \E c \in {R!ConsumedA(rx, r, enByte)} :
       /\ rx' = c
       /\ IF R!ConsumeFailsA(c, enByte)
          THEN broken' = "rejected" /\ UNCHANGED told
          ELSE UNCHANGED broken /\ told' = (told \/ R!ConsumeCountsA(rx, c))
  /\ Taken(k)

(* recv_buff_prepare_vA allocates the part before recv() finds nothing.    *)
ReceiveNothing ==
  /\ version = "buff" /\ broken = NULL
  /\ R!PreparedA(rx) > 0
  /\ rx' = [rx EXCEPT !.ring = R!Allocated(@, {R!Index(@.write)})]
  /\ got' = NULL
  /\ UNCHANGED <<enByte, version, tx, wire, told, broken, transit>>

ReceiveHead(k) ==
  /\ version = "queue" /\ broken = NULL
  /\ k <= R!PreparedB(rx, enByte) /\ rx.check < enByte
  /\ IF R!CompletesHead(rx, Arrived(k), enByte) /\ R!HeadSize(rx, Arrived(k)) < enByte
     THEN broken' = "rejected" /\ UNCHANGED rx
     ELSE UNCHANGED broken /\ rx' = R!ConsumedHead(rx, Arrived(k), enByte)
  /\ UNCHANGED told
  /\ Taken(k)

(* There is no memory for a message of the size announced: an error, as    *)
(* above; what was received is gone from the wire all the same.            *)
ReceiveHeadFails(k) ==
  /\ version = "queue" /\ broken = NULL
  /\ k <= R!PreparedB(rx, enByte)
  /\ R!CompletesHead(rx, Arrived(k), enByte) /\ R!HeadSize(rx, Arrived(k)) >= enByte
  /\ broken' = "memory"
  /\ UNCHANGED <<rx, told>>
  /\ Taken(k)

ReceiveBody(k) ==
  /\ version = "queue" /\ broken = NULL
  /\ k <= R!PreparedB(rx, enByte) /\ rx.check >= enByte
  /\ rx' = R!ConsumedBody(rx, Arrived(k), enByte)
  /\ told' = (told \/ R!CompletesBody(rx, Arrived(k), enByte))
  /\ UNCHANGED broken
  /\ Taken(k)

(* recv_buff_read: a message, or nothing. *)
Returns(m, next) == /\ got' = m /\ rx' = next
                    /\ transit' = IF transit = <<>> THEN <<>> ELSE Tail(transit)
                    /\ UNCHANGED told

Read ==
  /\ told
  /\ \/ version = "buff" /\ R!ReadableA(rx, enByte)
          /\ Returns(R!MessageA(rx, enByte), R!ReadA(rx, enByte))
     \/ version = "queue" /\ R!ReadableB(rx)
          /\ Returns(R!MessageB(rx), R!ReadB(rx))
  /\ UNCHANGED <<enByte, version, tx, wire, broken>>

ReadNothing ==
  /\ told
  /\ IF version = "buff" THEN ~R!ReadableA(rx, enByte) ELSE ~R!ReadableB(rx)
  /\ told' = FALSE /\ got' = NULL
  /\ UNCHANGED <<enByte, version, tx, wire, rx, broken, transit>>

Receive(k) == ReceiveA(k) \/ ReceiveHead(k) \/ ReceiveHeadFails(k) \/ ReceiveBody(k)

Next == \/ \E n \in Sizes : Sendable(Message(n)) /\ (Write(Message(n)) \/ WriteFails(Message(n)))
        \/ \E k \in 1..WireCap : Send(k)
        \/ \E k \in 1..Len(wire) : Receive(k)
        \/ ReceiveNothing \/ Read \/ ReadNothing

(* What is written is sent, what was sent is received when there is room   *)
(* for it (EpollSession says why), and who was told to read reads.         *)
Fairness == /\ WF_vars(\E k \in 1..WireCap : Send(k))
            /\ WF_vars(\E k \in 1..Len(wire) : Receive(k))
            /\ WF_vars(Read \/ ReadNothing)

Spec == Init /\ [][Next]_vars /\ Fairness

-----------------------------------------------------------------------------
BufferB == [lens : [R!PartIndex -> 0..(S!Power(enByte))],
            bufs : [R!PartIndex -> {NULL} \cup Seq(S!Byte)],
            write : 0..(2 * RecvPoolCnt - 1), read : 0..(2 * RecvPoolCnt - 1),
            check : Nat, head : Seq(S!Byte)]

TypeOK ==
  /\ enByte \in EnBytes /\ version \in Versions
  /\ tx \in S!Ring
  /\ wire \in Seq(S!Byte)
  /\ version = "buff" => rx.ring \in R!Ring /\ rx.check \in R!Position
  /\ version = "queue" => rx \in BufferB
  /\ told \in BOOLEAN /\ broken \in {NULL, "memory", "rejected"}

Joined(seqs) ==
  LET upto[i \in 0..Len(seqs)] == IF i = 0 THEN <<>> ELSE upto[i - 1] \o seqs[i]
  IN  upto[Len(seqs)]

(* The bytes in the receive buffer. *)
ReceivedBytes ==
  IF version = "buff" THEN R!Contents(rx.ring)
  ELSE LET count == (rx.write + RecvPoolCnt - rx.read) % (2 * RecvPoolCnt)
           whole == [i \in 1..count |->
                       S!Encoded(rx.bufs[(rx.read + i - 1) % RecvPoolCnt], enByte)]
           begun == IF rx.check < enByte THEN rx.head
                    ELSE S!Header(rx.lens[R!Cur(rx)] + enByte, enByte) \o rx.bufs[R!Cur(rx)]
       IN  Joined(whole) \o begun

(* At any time the receive buffer, the wire and the send buffer hold, one  *)
(* after the other, exactly the bytes of the messages accepted and not yet *)
(* read: no part was released too early, no position is wrong, however the *)
(* stream was cut on its way and wherever the arrays wrap.                 *)
NothingLost ==
  broken = NULL =>
    ReceivedBytes \o wire \o S!Contents(tx) =
      Joined([i \in 1..Len(transit) |-> S!Encoded(transit[i], enByte)])

(* A message that is read is the oldest one that was accepted and not yet  *)
(* read, byte for byte.                                                    *)
ReadsInOrder == [][got' # NULL => transit # <<>> /\ got' = Head(transit)]_vars

(* The receiver never takes the bytes of an accepted message for something *)
(* that cannot be a message, which would end the connection.               *)
NeverRejected == broken # "rejected"

(* A message that was accepted is followed by one that is read, unless the *)
(* receiver ran out of memory: neither side waits for ever with bytes left *)
(* in the other's hands, and no arrival is left unannounced.               *)
MessagesArrive == transit # <<>> ~> got # NULL \/ broken # NULL
=============================================================================
