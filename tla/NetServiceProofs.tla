-------------------------- MODULE NetServiceProofs --------------------------
(***************************************************************************)
(* Proofs about the network service, for every number of slots, ids and    *)
(* threads: first what each function of epoll_service.c keeps of one       *)
(* session, then the service, then that no edge is lost: output left in    *)
(* the send buffer of an open session, and input that has arrived, always  *)
(* have somebody who will come for them.                                   *)
(***************************************************************************)
EXTENDS NetService, ModLemmas, SequenceTheorems

-----------------------------------------------------------------------------
(* Of one session: its type, its stage and its registration.               *)

Report == {"Accept", "Connect", "Read", "Error"}
Interest == {"in", "out"}

(* What the stage of a session says of its registration.                   *)
Sound(s) ==
  /\ s \in Session
  /\ s.stage \in {"plain", "ready", "closing"} => s.reg = Believed(s)
  /\ s.stage \notin {"ready", "closing"} => s.unsent = 0 /\ ~s.rop /\ ~s.wop

(* A session is still what it was, or a connection has come further.       *)
Onward(s, n) ==
  \/ n.stage = s.stage
  \/ s.stage = "connect" /\ n.stage = "plain"
  \/ s.stage = "plain" /\ n.stage = "ready"
Goes(s, n) == Sound(n) /\ Onward(s, n)

(* A blank record. *)
LEMMA BlankSound == Sound(Blank) /\ Blank.stage = "none"
  BY EpollSessionAssumption, NetServiceAssumption DEF Blank, Sound, Session

(* Bookkeeping: clean_epoll_op ... *)
LEMMA CleanSound ==
  ASSUME NEW s, Sound(s)
  PROVE  /\ Sound(Clean(s)) /\ Clean(s).stage = s.stage /\ Clean(s).reg = {}
         /\ ~Clean(s).rop /\ ~Clean(s).wop /\ Clean(s).unsent = s.unsent
         /\ ~Clean(s).pend
  BY DEF Clean, Sound, Session, Believed

(* ... push_queue ... *)
LEMMA PushSound ==
  ASSUME NEW s, Sound(s), NEW ev \in SUBSET Report, s.stage = "connect" => s.reg = {}
  PROVE  /\ Goes(s, Push(s, ev)) /\ Push(s, ev).reg = s.reg
         /\ Push(s, ev).rop = s.rop /\ Push(s, ev).wop = s.wop
         /\ s.stage # "connect" => Push(s, ev).stage = s.stage
  BY DEF Push, Goes, Sound, Onward, Session, Believed, Report

(* ... and epoll_ctl_op. *)
LEMMA RegisteredType ==
  ASSUME NEW s \in Session, NEW interest \in SUBSET Interest
  PROVE  /\ Registered(s, interest) \in Session
         /\ Registered(s, interest).reg = interest
         /\ \A f \in {"stage", "rop", "wop", "unsent"} :
              Registered(s, interest)[f] = s[f]
<1> DEFINE n == [s EXCEPT !.reg = interest]
<1>1. n \in Session /\ n.reg = interest /\ n.nospace \in BOOLEAN
      /\ \A f \in {"stage", "rop", "wop", "unsent"} : n[f] = s[f]
  BY DEF Session, Interest
<1> HIDE DEF n
<1>2. (Deliverable(n) # {}) \in BOOLEAN /\ (n.nospace \/ n.room = 0) \in BOOLEAN
  OBVIOUS
<1>3. PICK p \in BOOLEAN, q \in BOOLEAN :
        Registered(s, interest) = [n EXCEPT !.pend = p, !.nospace = q]
  BY <1>1, <1>2 DEF Registered, n, Session
<1> DEFINE r == [n EXCEPT !.pend = p, !.nospace = q]
<1>4. r \in Session
  BY <1>1 DEF Session
<1>5. r.reg = n.reg /\ \A f \in {"stage", "rop", "wop", "unsent"} : r[f] = n[f]
  BY <1>1 DEF Session
<1> HIDE DEF r
<1>6. Registered(s, interest) = r
  BY <1>3 DEF r
<1> QED BY <1>1, <1>4, <1>5, <1>6, Zenon

(* The interest that is added is added to what is registered. *)
LEMMA CtlSound ==
  ASSUME NEW s, Sound(s), s.stage \in {"ready", "closing"}
  PROVE  /\ Goes(s, [CtlOp(s, "in") EXCEPT !.rop = TRUE])
         /\ Goes(s, [CtlOp(s, "out") EXCEPT !.wop = TRUE])
<1>1. s \in Session /\ s.reg = Believed(s) /\ Believed(s) \subseteq Interest
  BY DEF Sound, Believed, Interest
<1>2. ASSUME NEW op \in Interest
      PROVE  /\ CtlOp(s, op) \in Session
             /\ CtlOp(s, op).reg = Believed(s) \cup {op}
             /\ CtlOp(s, op).stage = s.stage /\ CtlOp(s, op).rop = s.rop
             /\ CtlOp(s, op).wop = s.wop
  <2> DEFINE interest == Believed(s) \cup {op}
  <2>1. interest \in SUBSET Interest
    BY <1>1
  <2> HIDE DEF interest
  <2>2. /\ Registered(s, interest) \in Session
        /\ Registered(s, interest).reg = interest
        /\ \A f \in {"stage", "rop", "wop", "unsent"} :
             Registered(s, interest)[f] = s[f]
    BY <1>1, <2>1, RegisteredType
  <2> QED BY <2>2 DEF CtlOp, interest
<1>3. Goes(s, [CtlOp(s, "in") EXCEPT !.rop = TRUE])
  <2> DEFINE c == CtlOp(s, "in")
  <2>1. /\ c \in Session /\ c.reg = Believed(s) \cup {"in"} /\ c.stage = s.stage
        /\ c.wop = s.wop
    BY <1>2 DEF Interest
  <2> HIDE DEF c
  <2>2. [c EXCEPT !.rop = TRUE] \in Session
    BY <2>1 DEF Session
  <2>3. Believed([c EXCEPT !.rop = TRUE]) = Believed(s) \cup {"in"}
    BY <2>1 DEF Believed, Session
  <2>4. /\ [c EXCEPT !.rop = TRUE].stage = s.stage
        /\ [c EXCEPT !.rop = TRUE].reg = Believed(s) \cup {"in"}
    BY <2>1 DEF Session
  <2>5. Goes(s, [c EXCEPT !.rop = TRUE])
    BY <2>2, <2>3, <2>4 DEF Goes, Sound, Onward
  <2> QED BY <2>5 DEF c
<1>4. Goes(s, [CtlOp(s, "out") EXCEPT !.wop = TRUE])
  <2> DEFINE c == CtlOp(s, "out")
  <2>1. /\ c \in Session /\ c.reg = Believed(s) \cup {"out"} /\ c.stage = s.stage
        /\ c.rop = s.rop
    BY <1>2 DEF Interest
  <2> HIDE DEF c
  <2>2. [c EXCEPT !.wop = TRUE] \in Session
    BY <2>1 DEF Session
  <2>3. Believed([c EXCEPT !.wop = TRUE]) = Believed(s) \cup {"out"}
    BY <2>1 DEF Believed, Session
  <2>4. /\ [c EXCEPT !.wop = TRUE].stage = s.stage
        /\ [c EXCEPT !.wop = TRUE].reg = Believed(s) \cup {"out"}
    BY <2>1 DEF Session
  <2>5. Goes(s, [c EXCEPT !.wop = TRUE])
    BY <2>2, <2>3, <2>4 DEF Goes, Sound, Onward
  <2> QED BY <2>5 DEF c
<1> QED BY <1>3, <1>4

(* Output: post_rest_write ... *)
LEMMA RestWrittenSound ==
  ASSUME NEW s, Sound(s)
  PROVE  /\ Goes(s, RestWritten(s)) /\ RestWritten(s).stage = s.stage
         /\ RestWritten(s).reg = s.reg /\ RestWritten(s).pend = s.pend
         /\ RestWritten(s).wop = s.wop /\ RestWritten(s).rop = s.rop
         /\ s.stage \notin {"ready", "closing"} => RestWritten(s) = s
<1>1. /\ s \in Session /\ s.unsent \in 0..MaxUnsent /\ s.room \in 0..SockRoom
      /\ MaxUnsent \in Nat /\ SockRoom \in Nat
  BY EpollSessionAssumption DEF Sound, Session
<1>2. /\ s.unsent - Sent(s) \in 0..MaxUnsent /\ s.room - Sent(s) \in 0..SockRoom
      /\ (s.unsent = 0 => s.unsent - Sent(s) = 0)
  BY <1>1 DEF Sent, Lesser
<1> DEFINE u == s.unsent - Sent(s)
           m == s.room - Sent(s)
           p == s.nospace \/ s.unsent > s.room
<1>3. u \in 0..MaxUnsent /\ m \in 0..SockRoom /\ p \in BOOLEAN
  BY <1>2 
<1>4. RestWritten(s) = s \/ RestWritten(s) = [s EXCEPT !.unsent = u, !.room = m, !.nospace = p]
  BY <1>1 DEF RestWritten, Session
<1>5. s.unsent = 0 => u = 0
  BY <1>2
<1> HIDE DEF u, m, p
<1>8. s.stage \notin {"ready", "closing"} => RestWritten(s) = s
  BY DEF RestWritten, RestWrittenValue
<1>6. CASE RestWritten(s) = s
  BY <1>6 DEF Goes, Onward
<1>7. CASE RestWritten(s) = [s EXCEPT !.unsent = u, !.room = m, !.nospace = p]
  <2> DEFINE n == [s EXCEPT !.unsent = u, !.room = m, !.nospace = p]
  <2>1. n \in Session
    BY <1>1, <1>3 DEF Session
  <2>2. /\ n.stage = s.stage /\ n.reg = s.reg /\ n.rop = s.rop /\ n.wop = s.wop
        /\ n.unsent = u /\ n.pend = s.pend
    BY <1>1 DEF Session
  <2>5. RestWritten(s) = n
    BY <1>7
  <2> HIDE DEF n
  <2>3. Believed(n) = Believed(s)
    BY <2>2 DEF Believed
  <2>4. Sound(n)
    BY <1>5, <2>1, <2>2, <2>3 DEF Sound
  <2> QED BY <1>8, <2>2, <2>4, <2>5 DEF Goes, Onward
<1> QED BY <1>4, <1>6, <1>7

(* ... and post_write. *)
LEMMA PostWriteSound ==
  ASSUME NEW s, Sound(s), NEW ok \in BOOLEAN
  PROVE  /\ Goes(s, PostWrite(s, ok)) /\ PostWrite(s, ok).stage = s.stage
         /\ s.stage \notin {"ready", "closing"} => PostWrite(s, ok) = s
<1>1. CASE s.stage \notin {"ready", "closing"}
  <2>1. ~s.wop /\ s.unsent = 0
    BY <1>1 DEF Sound
  <2>2. PostWrite(s, ok) = s
    BY <2>1 DEF PostWrite
  <2> QED BY <2>2 DEF Goes, Onward
<1>2. CASE s.stage \in {"ready", "closing"}
  <2>1. s.wop \in BOOLEAN /\ s.unsent \in Nat
    BY EpollSessionAssumption DEF Sound, Session
  <2>2. CASE s.wop
    BY <1>2, <2>2, RestWrittenSound DEF PostWrite
  <2>3. CASE ~s.wop /\ s.unsent = 0
    BY <1>2, <2>3 DEF PostWrite, Goes, Onward
  <2>4. CASE ~s.wop /\ s.unsent > 0 /\ (~ok \/ ~CtlPossible(s))
    <3>1. PostWrite(s, ok) = Clean(Push(s, {"Error"}))
      BY <2>1, <2>4 DEF PostWrite
    <3>2. /\ Sound(Push(s, {"Error"})) /\ Push(s, {"Error"}).stage = s.stage
      BY <1>2, PushSound DEF Report, Goes
    <3>3. Sound(Clean(Push(s, {"Error"}))) /\ Clean(Push(s, {"Error"})).stage = s.stage
      BY <3>2, CleanSound
    <3> QED BY <1>2, <3>1, <3>3 DEF Goes, Onward
  <2>5. CASE ~s.wop /\ s.unsent > 0 /\ ~(~ok \/ ~CtlPossible(s))
    <3>1. PostWrite(s, ok) = [CtlOp(s, "out") EXCEPT !.wop = TRUE]
      BY <2>1, <2>5 DEF PostWrite
    <3> QED BY <1>2, <3>1, CtlSound DEF Goes, Onward
  <2> QED BY <2>1, <2>2, <2>3, <2>4, <2>5
<1> QED BY <1>1, <1>2

(* Input: post_rest_read ... *)
LEMMA RestReadSound ==
  ASSUME NEW s, Sound(s), s.stage = "ready"
  PROVE  Goes(s, RestRead(s)) /\ RestRead(s).stage = "ready"
<1>1. /\ s \in Session /\ s.rbuf \in 0..RecvCap /\ s.inbox \in 0..MaxInbox
      /\ RecvCap \in Nat /\ MaxInbox \in Nat
  BY EpollSessionAssumption, NetServiceAssumption DEF Sound, Session
<1> DEFINE b == s.rbuf + Received(s)
           i == s.inbox - Received(s)
           y == s.rbuf + Received(s) = RecvCap
           r == [s EXCEPT !.rbuf = @ + Received(s), !.inbox = @ - Received(s),
                     !.retry = s.rbuf + Received(s) = RecvCap]
           p == IF Received(s) > 0 THEN Push(r, {"Read"}) ELSE r
<1>2. b \in 0..RecvCap /\ i \in 0..MaxInbox /\ y \in BOOLEAN
  BY <1>1 DEF Received, Lesser
<1>3. r = [s EXCEPT !.rbuf = b, !.inbox = i, !.retry = y]
  BY <1>1 DEF Session
<1>4. Sound(r) /\ r.stage = "ready"
  <2> HIDE DEF b, i, y, r
  <2> QED BY <1>1, <1>2, <1>3 DEF Sound, Session, Believed
<1> HIDE DEF r
<1>5. Sound(p) /\ p.stage = "ready"
  <2>1. Sound(Push(r, {"Read"})) /\ Push(r, {"Read"}).stage = "ready"
    BY <1>4, PushSound DEF Report, Goes
  <2> QED BY <1>4, <2>1
<1> HIDE DEF p
<1>6. Sound(Clean(p)) /\ Clean(p).stage = "ready"
  BY <1>5, CleanSound
<1>7. Sound(Push(Clean(p), {"Error"})) /\ Push(Clean(p), {"Error"}).stage = "ready"
  BY <1>6, PushSound DEF Report, Goes
<1>8. RestRead(s) = p \/ RestRead(s) = Push(Clean(p), {"Error"})
  BY DEF RestRead, p, r
<1> QED BY <1>5, <1>7, <1>8 DEF Goes, Onward

(* ... and post_read. *)
LEMMA PostReadSound ==
  ASSUME NEW s, Sound(s), s.stage = "ready", NEW ok \in BOOLEAN
  PROVE  Goes(s, PostRead(s, ok)) /\ PostRead(s, ok).stage = "ready"
<1>1. s.rop \in BOOLEAN /\ s.retry \in BOOLEAN
  BY DEF Sound, Session
<1>2. CASE s.rop /\ s.retry
  BY <1>2, RestReadSound DEF PostRead
<1>3. CASE s.rop /\ ~s.retry
  BY <1>3 DEF PostRead, Goes, Onward
<1>4. CASE ~s.rop /\ (~ok \/ ~CtlPossible(s))
  <2> DEFINE ev == {"Read", "Error"}
  <2>1. PostRead(s, ok) = Clean(Push(s, ev))
    BY <1>4 DEF PostRead
  <2>2. Sound(Push(s, ev)) /\ Push(s, ev).stage = s.stage
    BY PushSound DEF Report, Goes
  <2>3. Sound(Clean(Push(s, ev))) /\ Clean(Push(s, ev)).stage = s.stage
    BY <2>2, CleanSound
  <2> QED BY <2>1, <2>3 DEF Goes, Onward
<1>5. CASE ~s.rop /\ ~(~ok \/ ~CtlPossible(s))
  <2>1. PostRead(s, ok) = [CtlOp(s, "in") EXCEPT !.rop = TRUE]
    BY <1>5 DEF PostRead
  <2> QED BY <2>1, CtlSound DEF Goes, Onward
<1> QED BY <1>1, <1>2, <1>3, <1>4, <1>5

-----------------------------------------------------------------------------
(* handle_session, for a session in the table. *)
LEMMA HandleSound ==
  ASSUME NEW s, Sound(s), s.stage \in {"listen", "connect", "plain", "ready"},
         NEW ev \in SUBSET {"in", "out", "err"}
  PROVE  Goes(s, HandleSession(s, ev))
<1>0. /\ Sound(Clean(s)) /\ Clean(s).stage = s.stage /\ Clean(s).reg = {}
      /\ RestWritten(s).stage = s.stage /\ Sound(RestWritten(s))
  BY CleanSound, RestWrittenSound DEF Goes
<1>1. ASSUME NEW r \in SUBSET Report
      PROVE  Goes(s, Push(Clean(s), r)) /\ (s.stage # "connect" =>
                                              Push(Clean(s), r).stage = s.stage)
  <2>1. /\ Goes(Clean(s), Push(Clean(s), r))
        /\ s.stage # "connect" => Push(Clean(s), r).stage = s.stage
    BY <1>0, PushSound
  <2> QED BY <1>0, <2>1 DEF Goes, Onward
<1>2. CASE s.stage = "listen"
  <2>1. HandleSession(s, ev) = Push(s, {"Accept"})
    BY <1>2 DEF HandleSession
  <2> QED BY <1>2, <2>1, PushSound DEF Report
<1>3. CASE s.stage # "listen" /\ "err" \in ev
  <2> DEFINE r == ConnectFlag(s) \cup {"Error"}
  <2>1. HandleSession(s, ev) = Push(Clean(s), r)
    BY <1>3 DEF HandleSession
  <2>2. r \in SUBSET Report
    BY DEF ConnectFlag, Report
  <2> QED BY <1>1, <2>1, <2>2
<1>4. CASE s.stage = "connect" /\ "err" \notin ev
  <2> DEFINE r == {"Connect"} \cup IF s.link = "broken" THEN {"Error"} ELSE {}
  <2>1. HandleSession(s, ev) = IF "out" \notin ev THEN s ELSE Push(Clean(s), r)
    BY <1>4 DEF HandleSession
  <2>2. r \in SUBSET Report
    BY DEF Report
  <2>3. Goes(s, Push(Clean(s), r)) /\ Goes(s, s)
    BY <1>1, <2>2 DEF Goes, Onward
  <2> QED BY <2>1, <2>3
<1>5. CASE s.stage \in {"plain", "ready"} /\ "err" \notin ev
  <2> DEFINE w == Written(s, ev)
  <2>1. HandleSession(s, ev) = Transferred(s, ev)
    BY <1>5 DEF HandleSession
  <2>2. Sound(w) /\ w.stage = s.stage
    <3>1. w = s \/ w = Push(Clean(s), {"Error"}) \/ w = RestWritten(s)
      BY DEF Written
    <3>2. {"Error"} \in SUBSET Report
      BY DEF Report
    <3>3. Sound(Push(Clean(s), {"Error"})) /\ Push(Clean(s), {"Error"}).stage = s.stage
      BY <1>1, <1>5, <3>2 DEF Goes
    <3> QED BY <1>0, <3>1, <3>3
  <2>3. Transferred(s, ev) = w \/ (w.stage = "ready" /\ Transferred(s, ev) = RestRead(w))
    BY DEF Transferred
  <2> HIDE DEF w
  <2>4. w.stage = "ready" => Sound(RestRead(w)) /\ RestRead(w).stage = "ready"
    BY <2>2, RestReadSound DEF Goes
  <2> QED BY <2>1, <2>2, <2>3, <2>4 DEF Goes, Onward
<1> QED BY <1>2, <1>3, <1>4, <1>5

(* A report leaves the registration. *)
LEMMA ReportedSound ==
  ASSUME NEW s, Sound(s)
  PROVE  /\ Goes(s, Reported(s)) /\ Reported(s).stage = s.stage
         /\ Reported(s).reg = s.reg /\ Reported(s).pend = s.pend
<1>0. s \in Session /\ (s.owed \/ "Read" \in s.events) \in BOOLEAN
      /\ (s.told \/ "Error" \in s.events) \in BOOLEAN
  BY DEF Sound
<1>1. Reported(s) \in Session
  <2> DEFINE o == s.owed \/ "Read" \in s.events
             t == s.told \/ "Error" \in s.events
             n == [s EXCEPT !.events = {}, !.inQueue = FALSE]
  <2>1. o \in BOOLEAN /\ t \in BOOLEAN
    BY <1>0
  <2>2. Reported(s) = [n EXCEPT !.owed = o, !.told = t]
    BY <1>0 DEF Reported, Session
  <2>3. n \in Session
    BY <1>0 DEF Session
  <2> HIDE DEF o, t, n
  <2> QED BY <2>1, <2>2, <2>3 DEF Session
<1>2. \A f \in {"stage", "reg", "rop", "wop", "unsent", "pend"} : Reported(s)[f] = s[f]
  BY DEF Reported, Sound, Session
<1>3. Believed(Reported(s)) = Believed(s)
  BY <1>2 DEF Believed
<1> QED BY <1>1, <1>2, <1>3 DEF Goes, Sound, Onward

(* So does net_delay until it sends. *)
LEMMA UndelayedSound ==
  ASSUME NEW s, Sound(s)
  PROVE  /\ Sound(Undelayed(s)) /\ Undelayed(s).stage = s.stage
         /\ Undelayed(s).reg = s.reg /\ Undelayed(s).pend = s.pend
  BY DEF Undelayed, Sound, Session, Believed

(* net_socket_close: what is left to send may be registered for. *)
LEMMA RestSound ==
  ASSUME NEW s, Sound(s), s.stage # "closing", NEW ok \in BOOLEAN
  PROVE  /\ Sound(Rest(Clean(s), ok)) /\ Rest(Clean(s), ok).stage = s.stage
         /\ Rest(Clean(s), ok).wop => s.stage = "ready"
<1>1. Sound(Clean(s)) /\ Clean(s).stage = s.stage /\ ~Clean(s).wop
  BY CleanSound
<1>2. CASE s.stage = "ready"
  BY <1>1, <1>2, PostWriteSound DEF Rest, Goes
<1>3. CASE s.stage # "ready"
  BY <1>1, <1>3 DEF Rest
<1> QED BY <1>2, <1>3

(* net_socket_close puts a sound session into close_root. *)
LEMMA ClosingSound ==
  ASSUME NEW s, Sound(s), s.stage = "ready"
  PROVE  Sound(Closing(s)) /\ Closing(s).stage = "closing"
<1>1. Closing(s) \in Session
  <2>1. 0 \in 0..RecvCap /\ 0 \in 0..MaxInbox /\ FALSE \in BOOLEAN
        /\ {} \in SUBSET Report
    BY EpollSessionAssumption, NetServiceAssumption
  <2> DEFINE n == [s EXCEPT !.stage = "closing", !.rbuf = 0, !.retry = FALSE,
                            !.events = {}, !.inQueue = FALSE]
  <2>2. n \in Session
    BY <2>1 DEF Sound, Session, Report
  <2> DEFINE m == [n EXCEPT !.inDelay = FALSE, !.inbox = 0]
  <2>3. Closing(s) = [m EXCEPT !.owed = FALSE, !.told = FALSE]
    BY DEF Closing
  <2> HIDE DEF n
  <2>4. m \in Session
    BY <2>1, <2>2 DEF Session
  <2> HIDE DEF m
  <2> QED BY <2>1, <2>3, <2>4 DEF Session
<1>2. /\ Closing(s).reg = s.reg /\ Closing(s).rop = s.rop /\ Closing(s).wop = s.wop
      /\ Closing(s).stage = "closing"
  BY DEF Closing, Sound, Session
<1> QED BY <1>1, <1>2 DEF Sound, Believed

(* net_socket_cfg, net_socket_read and net_socket_write change one field   *)
(* before or after they go on.                                             *)
LEMMA CfgSound ==
  ASSUME NEW s, Sound(s), s.stage = "plain", NEW ok \in BOOLEAN
  PROVE  Goes(s, PostRead([s EXCEPT !.stage = "ready"], ok))
<1> DEFINE n == [s EXCEPT !.stage = "ready"]
<1>1. n \in Session /\ n.stage = "ready"
  BY DEF Sound, Session
<1>2. \A f \in {"reg", "rop", "wop"} : n[f] = s[f]
  BY DEF Sound, Session
<1> HIDE DEF n
<1>3. Sound(n)
  BY <1>1, <1>2 DEF Sound, Believed
<1>4. Sound(PostRead(n, ok)) /\ PostRead(n, ok).stage = "ready"
  BY <1>1, <1>3, PostReadSound DEF Goes
<1> QED BY <1>4 DEF Goes, Onward, n

(* Taking a message out of the receive buffer. *)
LEMMA TakenSound ==
  ASSUME NEW s, Sound(s), NEW b \in 0..RecvCap, NEW o \in BOOLEAN
  PROVE  /\ Sound([s EXCEPT !.rbuf = b, !.owed = o])
         /\ [s EXCEPT !.rbuf = b, !.owed = o].stage = s.stage
<1> DEFINE n == [s EXCEPT !.rbuf = b, !.owed = o]
<1>1. n \in Session
  BY DEF Sound, Session
<1>2. \A f \in {"stage", "reg", "rop", "wop", "unsent"} : n[f] = s[f]
  BY DEF Sound, Session
<1> HIDE DEF n
<1>3. Sound(n) /\ n.stage = s.stage
  BY <1>1, <1>2 DEF Sound, Believed
<1> QED BY <1>3 DEF n

(* Putting a message into the send buffer. *)
LEMMA AddedSound ==
  ASSUME NEW s, Sound(s), s.stage = "ready"
  PROVE  /\ Goes(s, [s EXCEPT !.unsent = Lesser(@ + 1, MaxUnsent)])
         /\ Goes(s, [s EXCEPT !.unsent = Lesser(@ + 1, MaxUnsent), !.inDelay = TRUE])
         /\ [s EXCEPT !.unsent = Lesser(@ + 1, MaxUnsent)].stage = "ready"
<1> DEFINE u == Lesser(s.unsent + 1, MaxUnsent)
<1>1. u \in 0..MaxUnsent
  BY EpollSessionAssumption DEF Sound, Session, Lesser
<1>2. /\ [s EXCEPT !.unsent = Lesser(@ + 1, MaxUnsent)] = [s EXCEPT !.unsent = u]
      /\ [s EXCEPT !.unsent = Lesser(@ + 1, MaxUnsent), !.inDelay = TRUE]
           = [s EXCEPT !.unsent = u, !.inDelay = TRUE]
  BY DEF Sound, Session
<1> HIDE DEF u
<1> DEFINE n == [s EXCEPT !.unsent = u]
           m == [s EXCEPT !.unsent = u, !.inDelay = TRUE]
<1>3. n \in Session /\ m \in Session
  BY <1>1 DEF Sound, Session
<1>4. \A f \in {"stage", "reg", "rop", "wop"} : n[f] = s[f] /\ m[f] = s[f]
  BY DEF Sound, Session
<1> HIDE DEF n, m
<1>5. Goes(s, n) /\ Goes(s, m) /\ n.stage = "ready"
  BY <1>3, <1>4 DEF Goes, Onward, Sound, Believed
<1> QED BY <1>2, <1>5 DEF n, m

(* What the kernel and the peers do to a session.                          *)
LEMMA NotifiedSound ==
  ASSUME NEW s, Sound(s), NEW n \in Session,
         \A f \in {"stage", "reg", "rop", "wop", "unsent", "pend"} : n[f] = s[f],
         NEW event
  PROVE  /\ Goes(s, Notified(n, event)) /\ Notified(n, event).stage = s.stage
         /\ Notified(n, event).reg = s.reg
         /\ s.reg = {} => Notified(n, event).pend = s.pend
<1> DEFINE p == n.pend \/ (n.reg # {} /\ event \in n.reg \cup {"err"})
           m == [n EXCEPT !.pend = p]
<1>1. p \in BOOLEAN /\ Notified(n, event) = m
  BY DEF Notified, Session
<1>2. n.reg = {} => p = n.pend
  BY DEF Session
<1> HIDE DEF p
<1>3. m \in Session /\ m.pend = p
  BY <1>1 DEF Session
<1>4. \A f \in {"stage", "reg", "rop", "wop", "unsent"} : m[f] = n[f]
  BY DEF Session
<1> HIDE DEF m
<1>5. Goes(s, m) /\ m.stage = s.stage /\ m.reg = s.reg
  BY <1>3, <1>4 DEF Goes, Onward, Sound, Believed
<1> QED BY <1>1, <1>2, <1>3, <1>5

(* epoll_wait takes the edge. *)
LEMMA PendSound ==
  ASSUME NEW s, Sound(s)
  PROVE  /\ Goes(s, [s EXCEPT !.pend = FALSE])
         /\ [s EXCEPT !.pend = FALSE].stage = s.stage
<1> DEFINE n == [s EXCEPT !.pend = FALSE]
<1>1. n \in Session
  BY DEF Sound, Session
<1>2. \A f \in {"stage", "reg", "rop", "wop", "unsent"} : n[f] = s[f]
  BY DEF Sound, Session
<1> HIDE DEF n
<1>3. Goes(s, n) /\ n.stage = s.stage
  BY <1>1, <1>2 DEF Goes, Onward, Sound, Believed
<1> QED BY <1>3 DEF n

-----------------------------------------------------------------------------
(* The service: who owns an id, where a session is known, what is queued.  *)

Kind == {"listen", "connect", "plain"}
Open4 == {"listen", "connect", "plain", "ready"}    \* stages of sessions in the table
Before == {"publish", "register", "giveup"}         \* in the call that opens a socket
Owns == Before \cup {"release"}                     \* in a call that has an id to itself

(* The id was not handed out yet. *)
Fresh(id) == \/ \E i \in DOMAIN free : free[i][1] = id[1] /\ free[i][2] <= id[2]
             \/ \E t \in held : t[1] = id[1] /\ t[2] < id[2]

(* No thread but the one that opens it can have seen the session.          *)
Unseen(id) == Fresh(id) \/ \E a \in AppThreads : app[a].at \in Before /\ app[a].id = id

Call == [at : Owns \cup {"idle", "accepted", "queue"}, id : Ticket \cup {NULL},
         kind : Kind \cup {NULL}, batch : Seq(Ticket)]
Waiter == [todo : SUBSET Event, current : Event \cup {NULL},
           node : Ticket \cup {NULL, Freed}]

Typed ==
  /\ table \in [Slot -> Ticket \cup {NULL}]
  /\ sess \in [Ticket -> Session]
  /\ closeRoot \subseteq Ticket
  /\ queue \in Seq(Ticket) /\ Len(queue) <= QueueCap
  /\ delayQueue \in Seq(Ticket) /\ Len(delayQueue) <= QueueCap
  /\ delayer \in [DelayThreads -> Ticket \cup {NULL}]
  /\ app \in [AppThreads -> Call]
  /\ io \in [IoThreads -> Waiter]

(* Of every slot the allocator and the clients together have one ticket at *)
(* most.                                                                   *)
Pool ==
  /\ free \in Seq(Ticket) /\ held \subseteq Ticket
  /\ \A i, j \in DOMAIN free : free[i][1] = free[j][1] => i = j
  /\ \A i \in DOMAIN free : \A t \in held : free[i][1] # t[1]
  /\ \A s, t \in held : s[1] = t[1] => s = t

Places ==
  /\ OnePlace
  /\ \A slot \in Slot : table[slot] # NULL => table[slot][1] = slot
  /\ \A id \in Ticket : Fresh(id) => sess[id] = Blank

(* A call that has an id to itself, and how far it is. *)
Calls ==
  \A a \in AppThreads :
    /\ app[a].at \in Owns =>
         /\ app[a].id \in held
         /\ \A b \in AppThreads : app[b].at \in Owns /\ app[b].id = app[a].id => b = a
    /\ app[a].at = "publish" => sess[app[a].id].stage = "new" /\ app[a].kind \in Kind
    /\ app[a].at \in {"register", "giveup"} =>
         app[a].kind \in {"listen", "connect"} /\ sess[app[a].id].stage = app[a].kind
    /\ app[a].at = "release" => sess[app[a].id].stage \in {"none", "closing"}
    /\ app[a].at = "queue" => app[a].batch # <<>>

(* The node a thread has is of a session that was closed. *)
Nodes ==
  \A t \in IoThreads :
    /\ io[t].current # NULL => io[t].node # NULL
    /\ io[t].node \in Ticket =>
         ~Fresh(io[t].node) /\ sess[io[t].node].stage \in {"none", "closing"}

(* A session nobody has seen is not registered, and no event is for it.    *)
Silence ==
  \A id \in Ticket : Unseen(id) =>
    /\ sess[id].reg = {} /\ ~sess[id].pend
    /\ \A t \in IoThreads : \A e \in io[t].todo : e.id # id

(* What the stage of a session says of its registration (SessionProofs).   *)
Sounds == \A id \in Ticket : Sound(sess[id])

IInv == Typed /\ Pool /\ Places /\ Calls /\ Nodes /\ Sounds /\ Silence

Rest6 == Pool /\ Places /\ Calls /\ Nodes /\ Sounds /\ Silence

-----------------------------------------------------------------------------
(* A ticket has a slot and a generation. *)
LEMMA TicketIs ==
  ASSUME NEW id \in Ticket
  PROVE  id[1] \in Slot /\ id[2] \in Nat /\ id = <<id[1], id[2]>>
         /\ Ids!HasGeneration(id[1], id[2])
<1>1. MaxLimit \div MaxSize \in Nat
  BY DivMod, NetServiceAssumption
<1> QED BY <1>1 DEF Ticket

(* The next generation of a slot is a ticket, if there is one. *)
LEMMA NextTicket ==
  ASSUME NEW id \in Ticket, Ids!HasGeneration(id[1], id[2] + 1)
  PROVE  <<id[1], id[2] + 1>> \in Ticket
<1> DEFINE g == id[2] + 1
<1>1. /\ MaxSize \in Nat \ {0} /\ MaxLimit \in Nat
      /\ id[1] \in Nat /\ id[1] \in Slot /\ g \in Nat /\ id[1] + g * MaxSize < MaxLimit
  BY TicketIs, NetServiceAssumption DEF Ids!HasGeneration, Slot
<1> HIDE DEF g
<1>2. id[1] + g * MaxSize \in Nat /\ id[1] \div MaxSize \in Nat
  <2>1. g * MaxSize \in Nat
    BY <1>1, Z3
  <2>2. id[1] \div MaxSize \in Nat
    BY <1>1, DivMod
  <2> QED BY <1>1, <2>1, <2>2
<1>3. (id[1] + g * MaxSize) \div MaxSize = (id[1] \div MaxSize) + g
  BY <1>1, DivPlus
<1>4. (id[1] + g * MaxSize) \div MaxSize <= MaxLimit \div MaxSize
  BY <1>1, <1>2, DivMonotone
<1>5. MaxLimit \div MaxSize \in Nat
  BY <1>1, DivMod
<1> DEFINE d == MaxLimit \div MaxSize
<1>6. g \in 0..d
  <2> DEFINE q == id[1] \div MaxSize
  <2>1. q \in Nat /\ d \in Nat /\ q + g <= d
    BY <1>2, <1>3, <1>4, <1>5
  <2> HIDE DEF q, d
  <2> QED BY <1>1, <2>1
<1>7. <<id[1], g>> \in Ticket
  BY <1>1, <1>6 DEF Ticket, Ids!HasGeneration
<1> QED BY <1>7 DEF g

(* The queues have room for every id, or lose it. *)
LEMMA OfferedType ==
  ASSUME NEW q \in Seq(Ticket), Len(q) <= QueueCap, NEW id \in Ticket
  PROVE  Offered(q, id) \in Seq(Ticket) /\ Len(Offered(q, id)) <= QueueCap
BY NetServiceAssumption DEF Offered, QueueCap

(* The queues keep their type when a session is pushed. *)
LEMMA QueuesType ==
  ASSUME Typed, NEW id \in Ticket, NEW s, QueuesFor(id, s)
  PROVE  /\ queue' \in Seq(Ticket) /\ Len(queue') <= QueueCap
         /\ delayQueue' \in Seq(Ticket) /\ Len(delayQueue') <= QueueCap
BY OfferedType DEF QueuesFor, Typed

(* Sessions that exist have an id that was handed out ... *)
LEMMA LiveNotFresh ==
  ASSUME Places, NEW id \in Ticket, sess[id].stage # "none"
  PROVE  ~Fresh(id)
BY DEF Places, Blank

(* ... and those of other calls are seen by somebody. *)
LEMMA SectionSeen ==
  ASSUME IInv, NEW id \in Ticket, Current(id), Known(id)
  PROVE  ~Unseen(id) /\ sess[id].stage \in Open4
<1>1. sess[id].stage \in Open4
  BY DEF IInv, Places, OnePlace, InTable, Current, Open4
<1>2. ~Fresh(id)
  BY <1>1, LiveNotFresh DEF IInv, Open4
<1> QED BY <1>1, <1>2 DEF Known, Unseen, Before

(* A session nobody has seen has not come further than connecting.         *)
LEMMA UnseenStage ==
  ASSUME IInv, NEW id \in Ticket, Unseen(id)
  PROVE  sess[id].stage \in {"none", "new", "listen", "connect"}
BY DEF IInv, Places, Calls, Unseen, Before, Blank, Kind

-----------------------------------------------------------------------------
(* What most steps do to a session, to a call and to an I/O thread.        *)
GoesOn(x) ==
  \/ sess'[x] = sess[x] /\ (x \in closeRoot' <=> x \in closeRoot)
  \/ /\ ~Fresh(x) /\ Goes(sess[x], sess'[x]) /\ (x \in closeRoot' <=> x \in closeRoot)
     /\ Unseen(x)' => /\ sess'[x].stage = sess[x].stage
                      /\ sess'[x].reg = {} /\ ~sess'[x].pend
  \/ /\ ~Fresh(x) /\ sess[x].stage \in {"none", "closing"}
     /\ sess'[x] = Blank /\ x \notin closeRoot'

CallsOn(b) ==
  \/ app'[b] = app[b]
  \/ app'[b].at \notin Owns /\ (app'[b].at = "queue" => app'[b].batch # <<>>)
  \/ /\ app[b].at = "register" /\ app'[b].at = "giveup"
     /\ app'[b].id = app[b].id /\ app'[b].kind = app[b].kind

WaitsOn(t) ==
  /\ io'[t].current # NULL => io'[t].node # NULL
  /\ io'[t].node \in Ticket =>
       ~Fresh(io'[t].node) /\ sess[io'[t].node].stage \in {"none", "closing"}
  /\ \A e \in io'[t].todo : e \in io[t].todo \/ ~Unseen(e.id)

(* A step that leaves the allocator and the table alone.                   *)
LEMMA Quiet ==
  ASSUME IInv, UNCHANGED <<free, held, table>>,
         \A x \in Ticket : GoesOn(x),
         \A b \in AppThreads : CallsOn(b),
         \A t \in IoThreads : WaitsOn(t)
  PROVE  Rest6'
<1>1. \A x : Fresh(x)' <=> Fresh(x)
  BY DEF Fresh
<1>2. \A x : Unseen(x)' => Unseen(x)
  BY <1>1 DEF Unseen, CallsOn, Before, Owns
<1>3. \A x \in Ticket :
        /\ \/ sess'[x].stage = sess[x].stage
           \/ ~Unseen(x)' /\ sess[x].stage \in Open4 /\ sess'[x].stage \in Open4
           \/ sess[x].stage \in {"none", "closing"} /\ sess'[x].stage = "none"
        /\ x \in closeRoot' <=> sess'[x].stage = "closing"
        /\ Sound(sess'[x])
        /\ Fresh(x) => sess'[x] = sess[x]
  BY BlankSound DEF GoesOn, Goes, Onward, Open4, IInv, Sounds, Places, OnePlace
<1>4. Pool'
  BY DEF IInv, Pool
<1>5. OnePlace'
  BY <1>3 DEF IInv, Places, OnePlace, InTable, Open4
<1>6. Places'
  BY <1>1, <1>3, <1>5 DEF IInv, Places
<1>7. Calls'
  <2> SUFFICES ASSUME NEW a \in AppThreads
               PROVE  Calls!(a)'
    BY DEF Calls
  <2>0. Calls!(a)
    BY DEF IInv, Calls
  <2>1. \A b \in AppThreads : app'[b].at \in Owns =>
          /\ app[b].at \in Owns /\ app'[b].id = app[b].id /\ app'[b].kind = app[b].kind
          /\ \/ app'[b].at = app[b].at
             \/ app[b].at = "register" /\ app'[b].at = "giveup"
    BY DEF CallsOn, Owns, Before
  <2>2. app'[a].at \in Owns =>
         /\ app'[a].id \in held'
         /\ \A b \in AppThreads : app'[b].at \in Owns /\ app'[b].id = app'[a].id => b = a
    BY <2>0, <2>1
  <2>3. app'[a].at \in Before =>
          app'[a].id \in Ticket /\ sess'[app'[a].id].stage = sess[app'[a].id].stage
    <3> SUFFICES ASSUME app'[a].at \in Before
                 PROVE  app'[a].id \in Ticket /\ sess'[app'[a].id].stage = sess[app'[a].id].stage
      OBVIOUS
    <3>1. app'[a].id \in held
      BY <2>2 DEF Owns
    <3>2. app'[a].id \in Ticket
      BY <3>1 DEF IInv, Pool
    <3>3. \A x : x = app'[a].id => Unseen(x)'
      BY DEF Unseen
    <3>4. sess[app'[a].id].stage \notin {"none", "closing"}
      BY <2>0, <2>1 DEF Before, Owns, Kind
    <3> QED BY <1>3, <3>2, <3>3, <3>4
  <2>4. /\ app'[a].at = "publish" =>
             sess'[app'[a].id].stage = "new" /\ app'[a].kind \in Kind
        /\ app'[a].at \in {"register", "giveup"} =>
             app'[a].kind \in {"listen", "connect"} /\ sess'[app'[a].id].stage = app'[a].kind
    BY <2>0, <2>1, <2>3 DEF Before, Owns
  <2>5. app'[a].at = "release" => sess'[app'[a].id].stage \in {"none", "closing"}
    <3> SUFFICES ASSUME app'[a].at = "release"
                 PROVE  sess'[app'[a].id].stage \in {"none", "closing"}
      OBVIOUS
    <3>1. /\ app'[a].id \in held /\ sess[app'[a].id].stage \in {"none", "closing"}
      BY <2>0, <2>1 DEF Owns, Before
    <3>2. app'[a].id \in Ticket
      BY <3>1 DEF IInv, Pool
    <3> QED BY <1>3, <3>1, <3>2 DEF Open4
  <2>6. app'[a].at = "queue" => app'[a].batch # <<>>
    BY <2>0 DEF CallsOn
  <2> QED BY <2>2, <2>4, <2>5, <2>6
<1>8. Nodes'
  BY <1>1, <1>3 DEF Nodes, WaitsOn, Open4
<1>9. Sounds'
  BY <1>3 DEF Sounds
<1>10. Silence'
  <2> SUFFICES ASSUME NEW x \in Ticket, Unseen(x)'
               PROVE  /\ sess'[x].reg = {} /\ ~sess'[x].pend
                      /\ \A t \in IoThreads : \A e \in io'[t].todo : e.id # x
    BY DEF Silence
  <2>1. Unseen(x)
    BY <1>2
  <2> QED BY <2>1 DEF IInv, Silence, GoesOn, WaitsOn, Blank
<1> QED BY <1>4, <1>6, <1>7, <1>8, <1>9, <1>10 DEF Rest6

(* Threads that a step leaves where they are. *)
LEMMA AppsSame == UNCHANGED app => \A b \in AppThreads : CallsOn(b)
BY DEF CallsOn

(* A step that leaves the I/O threads alone. *)
LEMMA IosSame == IInv /\ UNCHANGED io => \A t \in IoThreads : WaitsOn(t)
BY DEF IInv, Nodes, WaitsOn

(* A step that leaves the sessions alone. *)
LEMMA SessSame == UNCHANGED <<sess, closeRoot>> => \A x \in Ticket : GoesOn(x)
BY DEF GoesOn

(* A step that changes the session of one id. *)
LEMMA OneGoes ==
  ASSUME IInv, NEW id \in Ticket, NEW n, ~Fresh(id), Goes(sess[id], n),
         Unseen(id)' => n.stage = sess[id].stage /\ n.reg = {} /\ ~n.pend,
         sess' = [sess EXCEPT ![id] = n], UNCHANGED closeRoot
  PROVE  sess' \in [Ticket -> Session] /\ \A x \in Ticket : GoesOn(x)
<1>1. sess \in [Ticket -> Session] /\ n \in Session
  BY DEF IInv, Typed, Goes, Sound
<1>2. sess'[id] = n /\ \A x \in Ticket \ {id} : sess'[x] = sess[x]
  BY <1>1
<1>3. sess' \in [Ticket -> Session]
  BY ONLY <1>1, sess' = [sess EXCEPT ![id] = n]
<1>4. GoesOn(id)
  BY <1>2 DEF GoesOn
<1>5. \A x \in Ticket \ {id} : GoesOn(x)
  BY <1>2 DEF GoesOn
<1> QED BY <1>3, <1>4, <1>5

-----------------------------------------------------------------------------
(* Steps under the lock of the slot of an open session: net_socket_cfg,    *)
(* net_socket_read and net_socket_write.                                   *)
LEMMA SectionStep ==
  ASSUME IInv, NEW id \in Ticket, NEW n, Section(id), Goes(sess[id], n), Becomes(id, n)
  PROVE  IInv'
<1>1. ~Unseen(id) /\ sess[id].stage \in Open4
  BY SectionSeen DEF Section
<1>2. ~Fresh(id) /\ ~Unseen(id)'
  BY <1>1 DEF Unseen, Fresh, Section
<1>3. sess' \in [Ticket -> Session] /\ \A x \in Ticket : GoesOn(x)
  BY <1>2, OneGoes DEF Becomes, Section
<1>4. Typed'
  BY <1>3, QueuesType DEF Typed, IInv, Becomes, Section
<1>5. (\A b \in AppThreads : CallsOn(b)) /\ (\A t \in IoThreads : WaitsOn(t))
  BY AppsSame, IosSame DEF Section
<1>6. Rest6'
  BY <1>3, <1>5, Quiet DEF Section
<1> QED BY <1>4, <1>6 DEF IInv, Rest6

(* net_socket_cfg *)
LEMMA CfgStep ==
  ASSUME IInv, NEW slot \in Slot, Cfg(slot)
  PROVE  IInv'
<1> DEFINE id == table[slot]
<1>1. id \in Ticket
  BY DEF IInv, Typed, Cfg
<1>2. Sound(sess[id])
  BY <1>1 DEF IInv, Sounds
<1>3. PICK ok \in BOOLEAN : Becomes(id, PostRead([sess[id] EXCEPT !.stage = "ready"], ok))
  BY NetServiceAssumption DEF Cfg
<1>4. Goes(sess[id], PostRead([sess[id] EXCEPT !.stage = "ready"], ok))
  BY <1>2, CfgSound DEF Cfg
<1>5. Section(id)
  BY DEF Cfg
<1> QED BY <1>1, <1>3, <1>4, <1>5, SectionStep

(* net_socket_read *)
LEMMA ReadStep ==
  ASSUME IInv, NEW id \in Ticket, Read(id)
  PROVE  IInv'
<1>1. PICK ok \in BOOLEAN :
        Becomes(id, [PostRead(sess[id], ok) EXCEPT !.rbuf = IF @ > 0 THEN @ - 1 ELSE 0,
                                 !.owed = @ /\ PostRead(sess[id], ok).rbuf > 0])
  BY NetServiceAssumption DEF Read
<1> DEFINE r == PostRead(sess[id], ok)
           n == [r EXCEPT !.rbuf = IF @ > 0 THEN @ - 1 ELSE 0, !.owed = @ /\ r.rbuf > 0]
<1>2. Goes(sess[id], r) /\ r.stage = "ready" /\ Section(id)
  BY PostReadSound DEF Read, IInv, Sounds
<1>3. Becomes(id, n)
  BY <1>1
<1> HIDE DEF r
<1>4. r \in Session
  BY <1>2 DEF Goes, Sound
<1>5. PICK b \in 0..RecvCap, o \in BOOLEAN : n = [r EXCEPT !.rbuf = b, !.owed = o]
  <2> DEFINE b == IF r.rbuf > 0 THEN r.rbuf - 1 ELSE 0
             o == r.owed /\ r.rbuf > 0
  <2>1. b \in 0..RecvCap /\ o \in BOOLEAN
    BY <1>4, EpollSessionAssumption DEF Session
  <2>2. n = [r EXCEPT !.rbuf = b, !.owed = o]
    BY <1>4 DEF Session
  <2> QED BY <2>1, <2>2
<1> HIDE DEF n
<1>6. Sound(r) /\ r.stage = sess[id].stage
  BY <1>2 DEF Goes, Read
<1>7. /\ Sound([r EXCEPT !.rbuf = b, !.owed = o])
      /\ [r EXCEPT !.rbuf = b, !.owed = o].stage = r.stage
  BY <1>6, TakenSound
<1>8. Goes(sess[id], n)
  BY <1>5, <1>6, <1>7 DEF Goes, Onward
<1> QED BY <1>2, <1>3, <1>8, SectionStep

(* net_socket_write at once *)
LEMMA WriteNowStep ==
  ASSUME IInv, NEW id \in Ticket, WriteNow(id)
  PROVE  IInv'
<1> DEFINE s == sess[id]
           n == [s EXCEPT !.unsent = Lesser(@ + 1, MaxUnsent)]
<1>1. PICK ok \in BOOLEAN : Becomes(id, PostWrite(n, ok))
  BY NetServiceAssumption DEF WriteNow
<1>2. Sound(s) /\ s.stage = "ready" /\ Section(id)
  BY DEF WriteNow, IInv, Sounds
<1>3. Sound(n) /\ n.stage = "ready"
  BY <1>2, AddedSound DEF Goes
<1> HIDE DEF n
<1>4. Sound(PostWrite(n, ok)) /\ PostWrite(n, ok).stage = "ready"
  BY <1>3, PostWriteSound DEF Goes
<1>5. Goes(s, PostWrite(n, ok))
  BY <1>2, <1>4 DEF Goes, Onward
<1> QED BY <1>1, <1>2, <1>5, SectionStep

(* net_socket_write with delay *)
LEMMA WriteLaterStep ==
  ASSUME IInv, NEW id \in Ticket, WriteLater(id)
  PROVE  IInv'
<1>1. Sound(sess[id]) /\ sess[id].stage = "ready" /\ Section(id)
  BY DEF WriteLater, IInv, Sounds
<1>2. Goes(sess[id], [sess[id] EXCEPT !.unsent = Lesser(@ + 1, MaxUnsent), !.inDelay = TRUE])
  BY <1>1, AddedSound
<1> QED BY <1>1, <1>2, SectionStep DEF WriteLater

-----------------------------------------------------------------------------
(* The other steps that leave the allocator and the table alone.  They     *)
(* give an invariant back from what they do to sessions and threads.       *)
LEMMA AppTyped ==
  ASSUME IInv, NEW a \in AppThreads, NEW r \in Call, app' = [app EXCEPT ![a] = r]
  PROVE  /\ app' \in [AppThreads -> Call] /\ app'[a] = r
         /\ \A b \in AppThreads \ {a} : app'[b] = app[b]
<1>1. app \in [AppThreads -> Call]
  BY DEF IInv, Typed
<1> QED BY ONLY <1>1, app' = [app EXCEPT ![a] = r], r \in Call, a \in AppThreads

(* The todo list of an I/O thread has events. *)
LEMMA IoTyped ==
  ASSUME IInv, NEW t \in IoThreads, NEW w \in Waiter, io' = [io EXCEPT ![t] = w]
  PROVE  /\ io' \in [IoThreads -> Waiter] /\ io'[t] = w
         /\ \A u \in IoThreads \ {t} : io'[u] = io[u]
<1>1. io \in [IoThreads -> Waiter]
  BY DEF IInv, Typed
<1> QED BY ONLY <1>1, io' = [io EXCEPT ![t] = w], w \in Waiter, t \in IoThreads

(* A thread at rest. *)
LEMMA AtRestType == AtRest \in Call /\ AtRest.at = "idle"
BY DEF AtRest, Call

(* The end of net_listen and net_connect. *)
LEMMA RegisterStep ==
  ASSUME IInv, NEW a \in AppThreads, Register(a)
  PROVE  IInv'
<1>0. PICK id \in Ticket : id = app[a].id
  BY DEF Register, IInv, Calls, Pool, Owns, Before
<1> DEFINE s == sess[id]
<1>1. /\ app[a].at = "register" /\ s.stage \in {"listen", "connect"}
      /\ \A b \in AppThreads : app[b].at \in Before /\ app[b].id = id => b = a
  BY <1>0 DEF Register, IInv, Calls, Owns, Before
<1>2. Sound(s) /\ ~Fresh(id)
  BY <1>1, LiveNotFresh DEF IInv, Sounds
<1>3. PICK link \in {"connecting", "up", "broken", s.link} :
        sess' = [sess EXCEPT ![id] = Registered([@ EXCEPT !.link = link], {"in", "out"})]
  BY <1>0 DEF Register
<1> DEFINE l == [s EXCEPT !.link = link]
           n == Registered(l, {"in", "out"})
<1>4. l \in Session /\ \A f \in {"stage", "rop", "wop", "unsent"} : l[f] = s[f]
  BY <1>2 DEF Sound, Session
<1>5. sess' = [sess EXCEPT ![id] = n]
  BY <1>3
<1> HIDE DEF l
<1>6. n \in Session /\ \A f \in {"stage", "rop", "wop", "unsent"} : n[f] = l[f]
  BY <1>4, RegisteredType DEF Interest
<1> HIDE DEF n
<1>7. Goes(s, n)
  BY <1>1, <1>2, <1>4, <1>6 DEF Goes, Sound, Onward
<1>8. /\ app' \in [AppThreads -> Call] /\ app'[a].at = "idle"
      /\ \A b \in AppThreads \ {a} : app'[b] = app[b]
  BY AppTyped, AtRestType DEF Register
<1>9. ~Fresh(id)' /\ ~Unseen(id)'
  BY <1>1, <1>2, <1>8 DEF Unseen, Before, Fresh, Register
<1>10. sess' \in [Ticket -> Session] /\ \A x \in Ticket : GoesOn(x)
  BY <1>1, <1>2, <1>5, <1>7, <1>9, OneGoes DEF Register
<1>11. (\A b \in AppThreads : CallsOn(b)) /\ \A t \in IoThreads : WaitsOn(t)
  BY <1>8, IosSame DEF Register, CallsOn, Owns, Before
<1>12. Typed'
  BY <1>8, <1>10 DEF Typed, IInv, Register
<1>13. Rest6'
  BY <1>10, <1>11, Quiet DEF Register
<1> QED BY <1>12, <1>13 DEF IInv, Rest6

(* net_listen and net_connect that cannot register. *)
LEMMA RegisterFailsStep ==
  ASSUME IInv, NEW a \in AppThreads, RegisterFails(a)
  PROVE  IInv'
<1> DEFINE r == [app[a] EXCEPT !.at = "giveup"]
<1>1. app[a] \in Call /\ app[a].at = "register"
  BY DEF RegisterFails, IInv, Typed
<1>2. r \in Call /\ r.at = "giveup" /\ r.id = app[a].id /\ r.kind = app[a].kind
  BY <1>1 DEF Call, Owns, Before
<1>3. app' = [app EXCEPT ![a] = r]
  BY DEF RegisterFails
<1> HIDE DEF r
<1>4. /\ app' \in [AppThreads -> Call] /\ app'[a] = r
      /\ \A b \in AppThreads \ {a} : app'[b] = app[b]
  BY <1>2, <1>3, AppTyped
<1>5. /\ \A b \in AppThreads : CallsOn(b)
      /\ \A x \in Ticket : GoesOn(x)
      /\ \A t \in IoThreads : WaitsOn(t)
  BY <1>1, <1>2, <1>4, IosSame, SessSame DEF CallsOn, RegisterFails
<1>6. Rest6'
  BY <1>5, Quiet DEF RegisterFails
<1> QED BY <1>4, <1>6 DEF IInv, Rest6, Typed, RegisterFails

(* A call that ends, or goes on without an id of its own. *)
LEMMA AppStep ==
  ASSUME IInv, NEW a \in AppThreads, NEW r \in Call, r.at \notin Owns,
         r.at = "queue" => r.batch # <<>>, app' = [app EXCEPT ![a] = r],
         UNCHANGED <<free, held, table, closeRoot, delayQueue, io, delayer>>,
         queue' \in Seq(Ticket), Len(queue') <= QueueCap,
         sess' \in [Ticket -> Session], \A x \in Ticket : GoesOn(x)
  PROVE  IInv'
<1>1. /\ app' \in [AppThreads -> Call] /\ app'[a] = r
      /\ \A b \in AppThreads \ {a} : app'[b] = app[b]
  BY AppTyped
<1>2. (\A b \in AppThreads : CallsOn(b)) /\ \A t \in IoThreads : WaitsOn(t)
  BY <1>1, IosSame DEF CallsOn
<1>3. Rest6'
  BY <1>2, Quiet
<1> QED BY <1>1, <1>3 DEF IInv, Rest6, Typed

(* net_accept takes a connection from the listening socket. *)
LEMMA AcceptStep ==
  ASSUME IInv, NEW a \in AppThreads, NEW l \in Ticket, Accept(a, l)
  PROVE  IInv'
<1> DEFINE s == sess[l]
           n == [s EXCEPT !.inbox = @ - 1]
<1>1. Sound(s) /\ s.inbox > 0 /\ ~Unseen(l)
  BY SectionSeen DEF IInv, Sounds, Accept
<1>2. n \in Session /\ \A f \in {"stage", "reg", "rop", "wop", "unsent"} : n[f] = s[f]
  BY <1>1, NetServiceAssumption DEF Sound, Session
<1>3. sess' = [sess EXCEPT ![l] = n]
  BY DEF Accept
<1> HIDE DEF n
<1>4. Goes(s, n)
  BY <1>1, <1>2 DEF Goes, Onward, Sound, Believed
<1> DEFINE r == [AtRest EXCEPT !.at = "accepted"]
<1>5. r \in Call /\ r.at = "accepted"
  BY AtRestType DEF Call
<1>6. app' = [app EXCEPT ![a] = r]
  BY DEF Accept
<1> HIDE DEF r
<1>7. /\ app'[a] = r /\ \A b \in AppThreads \ {a} : app'[b] = app[b]
  BY <1>5, <1>6, AppTyped
<1>8. ~Fresh(l) /\ ~Unseen(l)'
  BY <1>1, <1>5, <1>7 DEF Unseen, Before, Fresh, Accept
<1>9. sess' \in [Ticket -> Session] /\ \A x \in Ticket : GoesOn(x)
  BY <1>3, <1>4, <1>8, OneGoes DEF Accept
<1>10. r.at \notin Owns /\ r.at # "queue"
  BY <1>5 DEF Owns, Before
<1> QED BY <1>5, <1>6, <1>9, <1>10, AppStep DEF Accept, IInv, Typed

(* net_accept finds no id for it. *)
LEMMA NotAcceptedStep ==
  ASSUME IInv, NEW a \in AppThreads, NotAccepted(a)
  PROVE  IInv'
<1>1. AtRest.at \notin Owns /\ AtRest.at # "queue"
  BY AtRestType DEF Owns, Before
<1>2. \A x \in Ticket : GoesOn(x)
  BY SessSame DEF NotAccepted
<1> QED BY <1>1, <1>2, AtRestType, AppStep DEF NotAccepted, IInv, Typed

-----------------------------------------------------------------------------
(* A session may be one that nobody has seen when the step leaves its      *)
(* stage and its registration as they are.                                 *)
LEMMA OneKeeps ==
  ASSUME IInv, NEW id \in Ticket, NEW n, ~Fresh(id), Sound(n),
         n.stage = sess[id].stage, n.reg = sess[id].reg,
         n.reg = {} => n.pend = sess[id].pend,
         Unseen(id)' => Unseen(id),
         sess' = [sess EXCEPT ![id] = n], UNCHANGED closeRoot
  PROVE  sess' \in [Ticket -> Session] /\ \A x \in Ticket : GoesOn(x)
<1>1. Goes(sess[id], n)
  BY DEF Goes, Onward
<1>2. Unseen(id)' => n.stage = sess[id].stage /\ n.reg = {} /\ ~n.pend
  BY DEF IInv, Silence
<1> QED BY <1>1, <1>2, OneGoes

(* A session in the table is open, sound and no longer fresh. *)
LEMMA CurrentLive ==
  ASSUME IInv, NEW id \in Ticket, Current(id)
  PROVE  sess[id].stage \in Open4 /\ ~Fresh(id) /\ Sound(sess[id])
<1>1. sess[id].stage \in Open4
  BY DEF IInv, Places, OnePlace, InTable, Current, Open4
<1> QED BY <1>1, LiveNotFresh DEF IInv, Open4, Sounds

(* A session in close_root is closing and no longer fresh. *)
LEMMA ClosingLive ==
  ASSUME IInv, NEW id \in closeRoot
  PROVE  id \in Ticket /\ sess[id].stage = "closing" /\ ~Fresh(id)
<1>1. id \in Ticket /\ sess[id].stage = "closing"
  BY DEF IInv, Places, OnePlace, Typed
<1> QED BY <1>1, LiveNotFresh DEF IInv

(* net_queue *)
LEMMA QueueReadStep ==
  ASSUME IInv, NEW a \in AppThreads, NEW n \in 1..MaxRead, QueueRead(a, n)
  PROVE  IInv'
<1> DEFINE k == Lesser(n, Len(queue))
           r == [AtRest EXCEPT !.at = "queue", !.batch = SubSeq(queue, 1, k)]
<1>1. queue \in Seq(Ticket) /\ queue # <<>> /\ Len(queue) <= QueueCap /\ QueueCap \in Int
  BY NetServiceAssumption DEF QueueRead, IInv, Typed, QueueCap
<1>2. k \in 1..Len(queue)
  BY <1>1, NetServiceAssumption DEF Lesser
<1> HIDE DEF k
<1>3. SubSeq(queue, 1, k) \in Seq(Ticket) /\ SubSeq(queue, 1, k) # <<>>
  <2>1. SubSeq(queue, 1, k) \in Seq(Ticket) /\ Len(SubSeq(queue, 1, k)) = k
    BY <1>1, <1>2
  <2> QED BY <1>2, <2>1
<1>4. /\ SubSeq(queue, k + 1, Len(queue)) \in Seq(Ticket)
      /\ Len(SubSeq(queue, k + 1, Len(queue))) <= QueueCap
  BY <1>1, <1>2
<1>5. r \in Call /\ r.at = "queue" /\ r.batch = SubSeq(queue, 1, k)
  BY <1>3, AtRestType DEF Call
<1>6. /\ app' = [app EXCEPT ![a] = r]
      /\ queue' = SubSeq(queue, k + 1, Len(queue))
  BY DEF QueueRead, k
<1> HIDE DEF r
<1>7. r.at \notin Owns /\ (r.at = "queue" => r.batch # <<>>)
  BY <1>3, <1>5 DEF Owns, Before
<1>8. \A x \in Ticket : GoesOn(x)
  BY SessSame DEF QueueRead
<1> QED BY <1>4, <1>5, <1>6, <1>7, <1>8, AppStep DEF QueueRead, IInv, Typed

(* net_queue reports a session. *)
LEMMA QueueItemStep ==
  ASSUME IInv, NEW a \in AppThreads, QueueItem(a)
  PROVE  IInv'
<1> DEFINE batch == app[a].batch
           r == IF Tail(batch) = <<>> THEN AtRest ELSE [app[a] EXCEPT !.batch = Tail(batch)]
<1>1. app[a] \in Call /\ app[a].at = "queue" /\ batch # <<>> /\ batch \in Seq(Ticket)
  BY DEF QueueItem, IInv, Typed, Calls, Call
<1>2. Tail(batch) \in Seq(Ticket) /\ Head(batch) \in Ticket
  BY <1>1
<1>3. PICK id \in Ticket : id = Head(batch)
  BY <1>2
<1>4. r \in Call /\ r.at \notin Owns /\ (r.at = "queue" => r.batch # <<>>)
  <2>1. CASE Tail(batch) = <<>>
    BY <2>1, AtRestType DEF Owns, Before
  <2>2. CASE Tail(batch) # <<>>
    <3>1. /\ [app[a] EXCEPT !.batch = Tail(batch)] \in Call
          /\ [app[a] EXCEPT !.batch = Tail(batch)].at = "queue"
          /\ [app[a] EXCEPT !.batch = Tail(batch)].batch = Tail(batch)
      BY <1>1, <1>2 DEF Call
    <3> QED BY <2>2, <3>1 DEF Owns, Before
  <2> QED BY <2>1, <2>2
<1>5. app' = [app EXCEPT ![a] = r]
  BY DEF QueueItem
<1> HIDE DEF r
<1>6. /\ app'[a] = r /\ \A b \in AppThreads \ {a} : app'[b] = app[b]
  BY <1>4, <1>5, AppTyped
<1>7. Unseen(id)' => Unseen(id)
  BY <1>4, <1>6 DEF Unseen, Fresh, Owns, QueueItem
<1>8. sess' \in [Ticket -> Session] /\ \A x \in Ticket : GoesOn(x)
  <2>1. CASE Current(id)
    <3>1. Sound(sess[id]) /\ ~Fresh(id)
      BY <2>1, CurrentLive
    <3>2. sess' = [sess EXCEPT ![id] = Reported(@)]
      BY <1>3, <2>1 DEF QueueItem
    <3> DEFINE n == Reported(sess[id])
    <3>3. sess' = [sess EXCEPT ![id] = n]
      BY <3>2
    <3>4. Sound(n) /\ n.stage = sess[id].stage /\ n.reg = sess[id].reg
          /\ n.pend = sess[id].pend
      BY <3>1, ReportedSound DEF Goes
    <3> HIDE DEF n
    <3> QED BY <1>7, <3>1, <3>3, <3>4, OneKeeps DEF QueueItem
  <2>2. CASE ~Current(id)
    BY <1>3, <2>2, SessSame DEF QueueItem, IInv, Typed
  <2> QED BY <2>1, <2>2
<1> QED BY <1>4, <1>5, <1>8, AppStep DEF QueueItem, IInv, Typed

(* net_delay *)
LEMMA DelayTakeStep ==
  ASSUME IInv, NEW d \in DelayThreads, DelayTake(d)
  PROVE  IInv'
<1>1. /\ Head(delayQueue) \in Ticket /\ Tail(delayQueue) \in Seq(Ticket)
      /\ Len(Tail(delayQueue)) <= QueueCap
  BY NetServiceAssumption DEF IInv, Typed, DelayTake, QueueCap
<1>2. Typed'
  BY <1>1 DEF IInv, Typed, DelayTake
<1>3. Rest6'
  BY Quiet, AppsSame, IosSame, SessSame DEF DelayTake
<1> QED BY <1>2, <1>3 DEF IInv, Rest6

(* net_delay sends what was delayed. *)
LEMMA DelayItemStep ==
  ASSUME IInv, NEW d \in DelayThreads, DelayItem(d)
  PROVE  IInv'
<1>1. PICK id \in Ticket : id = delayer[d]
  BY DEF IInv, Typed, DelayItem
<1>2. /\ sess' \in [Ticket -> Session] /\ \A x \in Ticket : GoesOn(x)
      /\ queue' \in Seq(Ticket) /\ Len(queue') <= QueueCap
      /\ delayQueue' \in Seq(Ticket) /\ Len(delayQueue') <= QueueCap
  <2>1. CASE Current(id)
    <3> DEFINE s == sess[id]
    <3>1. PICK ok \in BOOLEAN : Becomes(id, PostWrite(Undelayed(s), ok))
      BY <1>1, <2>1, NetServiceAssumption DEF DelayItem
    <3> DEFINE u == Undelayed(s)
               n == PostWrite(u, ok)
    <3>2. s.stage \in Open4 /\ ~Fresh(id) /\ Sound(s)
      BY <2>1, CurrentLive
    <3>3. Sound(u) /\ u.stage = s.stage /\ u.reg = s.reg /\ u.pend = s.pend
      BY <3>2, UndelayedSound
    <3> HIDE DEF u
    <3>4. Sound(n) /\ n.stage = s.stage /\ (u.stage \notin {"ready", "closing"} => n = u)
      BY <3>3, PostWriteSound DEF Goes
    <3> HIDE DEF n
    <3>5. Unseen(id)' => Unseen(id)
      BY DEF DelayItem, Unseen, Fresh
    <3>6. sess' = [sess EXCEPT ![id] = n] /\ QueuesFor(id, n)
      BY <3>1 DEF Becomes, n, u
    <3>7. Unseen(id)' => n.stage = s.stage /\ n.reg = {} /\ ~n.pend
      BY <3>3, <3>4, <3>5, UnseenStage DEF IInv, Silence
    <3>8. Goes(s, n)
      BY <3>4 DEF Goes, Onward
    <3> QED BY <3>2, <3>6, <3>7, <3>8, OneGoes, QueuesType DEF DelayItem, IInv
  <2>2. CASE ~Current(id)
    BY <1>1, <2>2, SessSame DEF DelayItem, IInv, Typed
  <2> QED BY <2>1, <2>2
<1>3. Typed'
  BY <1>2 DEF IInv, Typed, DelayItem
<1>4. Rest6'
  BY <1>2, Quiet, AppsSame, IosSame DEF DelayItem
<1> QED BY <1>3, <1>4 DEF IInv, Rest6

-----------------------------------------------------------------------------
(* net_wait: an event is fetched only for a socket that is registered.     *)
LEMMA PendingSeen ==
  ASSUME IInv, NEW id \in Ticket, sess[id].pend
  PROVE  ~Unseen(id)
BY DEF IInv, Silence

(* What epoll delivers is a set of events. *)
LEMMA DeliverableType ==
  ASSUME NEW s \in Session
  PROVE  Deliverable(s) \in SUBSET {"in", "out", "err"}
BY DEF Deliverable, Session

(* net_wait fetches events. *)
LEMMA WaitStep ==
  ASSUME IInv, NEW t \in IoThreads, Wait(t)
  PROVE  IInv'
<1>1. PICK S \in SUBSET {id \in Ticket : sess[id].pend /\ Deliverable(sess[id]) # {}} :
        /\ sess' = [id \in Ticket |-> IF id \in S THEN [sess[id] EXCEPT !.pend = FALSE]
                                                  ELSE sess[id]]
        /\ io' = [io EXCEPT ![t].todo =
                    {[id |-> id, ev |-> Deliverable(sess[id])] : id \in S}]
  BY DEF Wait
<1> DEFINE todo == {[id |-> id, ev |-> Deliverable(sess[id])] : id \in S}
           w == [io[t] EXCEPT !.todo = todo]
<1>2. \A x \in S : x \in Ticket /\ ~Unseen(x) /\ sess[x] \in Session /\ Sound(sess[x])
  BY <1>1, PendingSeen DEF IInv, Sounds, Sound
<1>3. /\ todo \in SUBSET Event /\ \A e \in todo : ~Unseen(e.id)
  BY <1>2, DeliverableType DEF Event
<1>4. io[t] \in Waiter /\ io[t].current = NULL /\ io[t].node = NULL
  <2>1. io[t] = Waiting /\ io[t] \in Waiter
    BY DEF IInv, Typed, Wait
  <2> QED BY <2>1 DEF Waiting
<1>5. io' = [io EXCEPT ![t] = w]
  BY <1>1
<1> HIDE DEF todo
<1>6. w \in Waiter /\ w.todo = todo /\ w.current = NULL /\ w.node = NULL
  BY <1>3, <1>4 DEF Waiter
<1> HIDE DEF w
<1>7. /\ io' \in [IoThreads -> Waiter] /\ io'[t] = w
      /\ \A u \in IoThreads \ {t} : io'[u] = io[u]
  BY <1>5, <1>6, IoTyped
<1>8. \A u \in IoThreads : WaitsOn(u)
  <2>1. WaitsOn(t)
    BY <1>3, <1>6, <1>7, NullAssumption DEF WaitsOn
  <2>2. ASSUME NEW u \in IoThreads \ {t} PROVE WaitsOn(u)
    BY <1>7 DEF WaitsOn, IInv, Nodes
  <2> QED BY <2>1, <2>2
<1>9. \A x \in Ticket : GoesOn(x)
  <2> SUFFICES ASSUME NEW x \in Ticket PROVE GoesOn(x)
    OBVIOUS
  <2>1. CASE x \in S
    <3>1. ~Fresh(x) /\ ~Unseen(x)'
      BY <1>2, <2>1 DEF Unseen, Fresh, Wait
    <3>2. sess'[x] = [sess[x] EXCEPT !.pend = FALSE]
      BY <1>1, <2>1
    <3>3. Goes(sess[x], sess'[x])
      BY <1>2, <2>1, <3>2, PendSound
    <3> QED BY <3>1, <3>3 DEF GoesOn, Wait
  <2>2. CASE x \notin S
    BY <1>1, <2>2 DEF GoesOn, Wait
  <2> QED BY <2>1, <2>2
<1>10. sess' \in [Ticket -> Session]
  BY <1>1, <1>2, PendSound DEF IInv, Sounds, Goes, Sound
<1>11. Typed'
  BY <1>7, <1>10 DEF IInv, Typed, Wait
<1>12. Rest6'
  BY <1>8, <1>9, Quiet, AppsSame DEF Wait
<1> QED BY <1>11, <1>12 DEF IInv, Rest6

(* An I/O thread takes one of its events. *)
LEMMA IoStep ==
  ASSUME IInv, NEW t \in IoThreads, NEW w \in Waiter, w.todo \subseteq io[t].todo,
         w.current # NULL => w.node # NULL,
         w.node \in Ticket => w.node \in closeRoot \/ w.node = io[t].node,
         io' = [io EXCEPT ![t] = w],
         UNCHANGED <<free, held, table, app, delayer>>,
         queue' \in Seq(Ticket), Len(queue') <= QueueCap,
         delayQueue' \in Seq(Ticket), Len(delayQueue') <= QueueCap,
         closeRoot' \subseteq Ticket,
         sess' \in [Ticket -> Session], \A x \in Ticket : GoesOn(x)
  PROVE  IInv'
<1>1. /\ io' \in [IoThreads -> Waiter] /\ io'[t] = w
      /\ \A u \in IoThreads \ {t} : io'[u] = io[u]
  BY IoTyped
<1>2. \A u \in IoThreads : WaitsOn(u)
  <2>1. WaitsOn(t)
    BY <1>1, ClosingLive DEF WaitsOn, IInv, Nodes
  <2>2. ASSUME NEW u \in IoThreads \ {t} PROVE WaitsOn(u)
    BY <1>1 DEF WaitsOn, IInv, Nodes
  <2> QED BY <2>1, <2>2
<1>3. Typed'
  BY <1>1 DEF IInv, Typed
<1>4. Rest6'
  BY <1>2, Quiet, AppsSame
<1> QED BY <1>3, <1>4 DEF IInv, Rest6

(* What an I/O thread has to do names a ticket. *)
LEMMA TodoType ==
  ASSUME IInv, NEW t \in IoThreads, NEW e \in io[t].todo
  PROVE  /\ io[t] \in Waiter /\ io[t].todo \in SUBSET Event /\ e \in Event
         /\ e.id \in Ticket /\ e.ev \in SUBSET {"in", "out", "err"} /\ ~Unseen(e.id)
<1>1. io[t] \in Waiter /\ e \in Event
  BY DEF IInv, Typed, Waiter
<1>2. e.id \in Ticket /\ e.ev \in SUBSET {"in", "out", "err"}
  BY <1>1 DEF Event
<1> QED BY <1>1, <1>2 DEF IInv, Silence, Waiter

(* handle_session *)
LEMMA HandleStep ==
  ASSUME IInv, NEW t \in IoThreads, NEW e \in io[t].todo, Handle(t, e)
  PROVE  IInv'
<1> DEFINE w == [io[t] EXCEPT !.todo = @ \ {e}]
<1>1. /\ io[t] \in Waiter /\ io[t].todo \in SUBSET Event /\ e.id \in Ticket
      /\ e.ev \in SUBSET {"in", "out", "err"} /\ ~Unseen(e.id)
  BY TodoType
<1>2. w \in Waiter /\ w.todo \subseteq io[t].todo /\ w.current = NULL /\ w.node = io[t].node
  BY <1>1 DEF Waiter, Handle
<1>3. io' = [io EXCEPT ![t] = w]
  BY DEF Handle
<1>4. PICK id \in Ticket : id = e.id
  BY <1>1
<1>5. ~Fresh(id) /\ ~Unseen(id)'
  BY <1>1, <1>4 DEF Unseen, Fresh, Handle
<1> DEFINE n == HandleSession(sess[id], e.ev)
<1>6. sess' = [sess EXCEPT ![id] = n] /\ QueuesFor(id, n)
  BY <1>4 DEF Handle, Becomes
<1>7. Goes(sess[id], n)
  BY <1>1, <1>4, CurrentLive, HandleSound DEF Handle, Open4
<1> HIDE DEF n, w
<1>8. sess' \in [Ticket -> Session] /\ \A x \in Ticket : GoesOn(x)
  BY <1>5, <1>6, <1>7, OneGoes DEF Handle
<1>9. /\ queue' \in Seq(Ticket) /\ Len(queue') <= QueueCap
      /\ delayQueue' \in Seq(Ticket) /\ Len(delayQueue') <= QueueCap
  BY <1>6, QueuesType DEF IInv
<1> QED BY <1>2, <1>3, <1>8, <1>9, IoStep DEF Handle, IInv, Typed

(* The node of a closing session is looked up. *)
LEMMA FindClosedStep ==
  ASSUME IInv, NEW t \in IoThreads, NEW e \in io[t].todo, FindClosed(t, e)
  PROVE  IInv'
<1> DEFINE w == [todo |-> io[t].todo \ {e}, current |-> e, node |-> e.id]
<1>1. /\ io[t] \in Waiter /\ io[t].todo \in SUBSET Event /\ e \in Event /\ e.id \in Ticket
  BY TodoType
<1>2. w \in Waiter
  BY <1>1 DEF Waiter
<1>3. io' = [io EXCEPT ![t] = w]
  BY DEF FindClosed
<1>4. w.todo \subseteq io[t].todo /\ w.node = e.id /\ e.id # NULL /\ e.id \in closeRoot
  BY <1>1, NullAssumption DEF FindClosed
<1> HIDE DEF w
<1>5. \A x \in Ticket : GoesOn(x)
  BY SessSame DEF FindClosed
<1> QED BY <1>2, <1>3, <1>4, <1>5, IoStep DEF FindClosed, IInv, Typed

(* An event for a session that is gone. *)
LEMMA IgnoreStep ==
  ASSUME IInv, NEW t \in IoThreads, NEW e \in io[t].todo, Ignore(t, e)
  PROVE  IInv'
<1> DEFINE w == [io[t] EXCEPT !.todo = @ \ {e}]
<1>1. io[t] \in Waiter /\ io[t].todo \in SUBSET Event
  BY TodoType
<1>2. w \in Waiter /\ w.todo \subseteq io[t].todo /\ w.current = NULL /\ w.node = io[t].node
  BY <1>1 DEF Waiter, Ignore
<1>3. io' = [io EXCEPT ![t] = w]
  BY DEF Ignore
<1> HIDE DEF w
<1>4. \A x \in Ticket : GoesOn(x)
  BY SessSame DEF Ignore
<1> QED BY <1>2, <1>3, <1>4, IoStep DEF Ignore, IInv, Typed

(* handle_rest *)
LEMMA HandleRestStep ==
  ASSUME IInv, NEW t \in IoThreads, HandleRest(t)
  PROVE  IInv'
<1>1. PICK id \in IF io[t].node = Freed THEN closeRoot ELSE {io[t].node},
           moved \in {{}} \cup {{u} : u \in {v \in IoThreads \ {t} : io[v].current # NULL}} :
       IF MayRelease(sess[id], io[t].current.ev)
       THEN /\ closeRoot' = closeRoot \ {id}
            /\ sess' = [sess EXCEPT ![id] = Blank]
            /\ io' = [u \in IoThreads |->
                        CASE u = t -> [io[t] EXCEPT !.current = NULL, !.node = NULL]
                          [] u \in moved -> [io[u] EXCEPT !.node = Freed]
                          [] OTHER -> io[u]]
       ELSE /\ sess' = [sess EXCEPT ![id] = RestHandled(@, io[t].current.ev)]
            /\ io' = [io EXCEPT ![t].current = NULL, ![t].node = NULL]
            /\ UNCHANGED closeRoot
  BY DEF HandleRest
<1> DEFINE w == [io[t] EXCEPT !.current = NULL, !.node = NULL]
           ev == io[t].current.ev
<1>2. id \in Ticket /\ ~Fresh(id) /\ sess[id].stage \in {"none", "closing"}
  <2>1. CASE io[t].node = Freed
    BY <1>1, <2>1, ClosingLive
  <2>2. CASE io[t].node # Freed
    <3>1. id = io[t].node /\ id \in Ticket
      BY <1>1, <2>2 DEF HandleRest, IInv, Typed, Nodes, Waiter
    <3> QED BY <3>1 DEF IInv, Nodes
  <2> QED BY <2>1, <2>2
<1>3. io \in [IoThreads -> Waiter] /\ io[t] \in Waiter
  BY DEF IInv, Typed
<1>4. w \in Waiter /\ w.todo = io[t].todo /\ w.current = NULL /\ w.node = NULL
  BY <1>3 DEF Waiter
<1>5. sess \in [Ticket -> Session] /\ Sound(sess[id])
  BY <1>2 DEF IInv, Typed, Sounds
<1>6. CASE MayRelease(sess[id], ev)
  <2>1. /\ closeRoot' = closeRoot \ {id} /\ sess' = [sess EXCEPT ![id] = Blank]
        /\ io' = [u \in IoThreads |->
                        CASE u = t -> w
                          [] u \in moved -> [io[u] EXCEPT !.node = Freed]
                          [] OTHER -> io[u]]
    BY <1>1, <1>6
  <2> HIDE DEF w
  <2>2. Blank \in Session
    BY BlankSound DEF Sound
  <2>3. sess' \in [Ticket -> Session] /\ \A x \in Ticket : GoesOn(x)
    BY <1>2, <1>5, <2>1, <2>2 DEF GoesOn
  <2>4. \A u \in IoThreads : io[u] \in Waiter => [io[u] EXCEPT !.node = Freed] \in Waiter
    BY DEF Waiter
  <2>5. io' \in [IoThreads -> Waiter]
    BY <1>3, <1>4, <2>1, <2>4
  <2>6. ASSUME NEW u \in IoThreads PROVE WaitsOn(u)
    <3>1. CASE u = t
      BY <1>4, <2>1, <3>1, NullAssumption DEF WaitsOn
    <3>2. CASE u # t /\ u \in moved
      <4>1. /\ io[u] \in Waiter /\ io[u].current # NULL
            /\ io'[u] = [io[u] EXCEPT !.node = Freed]
        BY <1>1, <1>3, <2>1, <3>2
      <4>2. io'[u].node = Freed /\ io'[u].todo = io[u].todo
        BY <4>1 DEF Waiter
      <4> QED BY <4>2, NullAssumption DEF WaitsOn
    <3>3. CASE u # t /\ u \notin moved
      <4>1. io'[u] = io[u]
        BY <2>1, <3>3
      <4> QED BY <4>1 DEF WaitsOn, IInv, Nodes
    <3> QED BY <3>1, <3>2, <3>3
  <2>7. Typed'
    BY <2>1, <2>3, <2>5 DEF Typed, IInv, HandleRest
  <2>8. Rest6'
    BY <2>3, <2>6, Quiet, AppsSame DEF HandleRest
  <2> QED BY <2>7, <2>8 DEF IInv, Rest6
<1>7. CASE ~MayRelease(sess[id], ev)
  <2> DEFINE n == RestHandled(sess[id], ev)
  <2>1. sess' = [sess EXCEPT ![id] = n] /\ closeRoot' = closeRoot
    BY <1>1, <1>7
  <2>2. io' = [io EXCEPT ![t] = w]
    BY <1>1, <1>7
  <2>3. /\ Sound(n) /\ n.stage = sess[id].stage /\ n.reg = sess[id].reg
        /\ n.pend = sess[id].pend
    BY <1>5, RestWrittenSound DEF RestHandled, Goes
  <2>4. Unseen(id)' => Unseen(id)
    BY DEF Unseen, Fresh, HandleRest
  <2> HIDE DEF n, w
  <2>5. sess' \in [Ticket -> Session] /\ \A x \in Ticket : GoesOn(x)
    BY <1>2, <2>1, <2>3, <2>4, OneKeeps
  <2> QED BY <1>4, <2>1, <2>2, <2>5, NullAssumption, IoStep DEF HandleRest, IInv, Typed
<1> QED BY <1>6, <1>7

-----------------------------------------------------------------------------
(* The kernel and the peers. *)
LEMMA HappensStep ==
  ASSUME IInv, NEW id \in Ticket, NEW n, sess[id].link # "none", Sound(n),
         n.stage = sess[id].stage, n.reg = sess[id].reg,
         n.reg = {} => n.pend = sess[id].pend, Happens(id, n)
  PROVE  IInv'
<1>1. ~Fresh(id)
  BY DEF IInv, Places, Blank
<1>2. Unseen(id)' => Unseen(id)
  BY DEF Happens, Unseen, Fresh
<1>3. sess' = [sess EXCEPT ![id] = n] /\ UNCHANGED closeRoot
  BY DEF Happens
<1>4. sess' \in [Ticket -> Session] /\ \A x \in Ticket : GoesOn(x)
  BY <1>1, <1>2, <1>3, OneKeeps
<1>5. Typed'
  BY <1>4 DEF IInv, Typed, Happens
<1>6. Rest6'
  BY <1>4, Quiet, AppsSame, IosSame DEF Happens
<1> QED BY <1>5, <1>6 DEF IInv, Rest6

(* What an event leaves of a session whose other fields are changed.       *)
LEMMA NotifiedStep ==
  ASSUME IInv, NEW id \in Ticket, sess[id].link # "none", NEW m \in Session,
         \A f \in {"stage", "reg", "rop", "wop", "unsent", "pend"} : m[f] = sess[id][f],
         NEW event, Happens(id, Notified(m, event))
  PROVE  IInv'
<1> DEFINE n == Notified(m, event)
<1>1. Sound(sess[id])
  BY DEF IInv, Sounds
<1>2. /\ Goes(sess[id], n) /\ n.stage = sess[id].stage /\ n.reg = sess[id].reg
      /\ sess[id].reg = {} => n.pend = sess[id].pend
  BY <1>1, NotifiedSound
<1> HIDE DEF n
<1>3. Happens(id, n)
  BY DEF n
<1> QED BY <1>2, <1>3, HappensStep DEF Goes

(* The kernel and the peers keep the invariant. *)
LEMMA KernelStep ==
  ASSUME IInv, NEW id \in Ticket, Kernel(id)
  PROVE  IInv'
<1> DEFINE s == sess[id]
<1>1. s \in Session
  BY DEF IInv, Typed
<1>2. CASE Connected(id)
  <2> DEFINE m == [s EXCEPT !.link = "up"]
  <2>1. /\ m \in Session
        /\ \A f \in {"stage", "reg", "rop", "wop", "unsent", "pend"} : m[f] = s[f]
    BY <1>1 DEF Session
  <2>2. s.link # "none" /\ Happens(id, Notified(m, "out"))
    BY <1>2 DEF Connected
  <2> HIDE DEF m
  <2> QED BY <2>1, <2>2, NotifiedStep
<1>3. CASE Arrives(id)
  <2> DEFINE m == [s EXCEPT !.inbox = @ + 1]
  <2>0. s.inbox + 1 \in 0..MaxInbox
    BY <1>1, <1>3, NetServiceAssumption DEF Arrives, Session
  <2>1. /\ m \in Session
        /\ \A f \in {"stage", "reg", "rop", "wop", "unsent", "pend"} : m[f] = s[f]
    BY <1>1, <2>0 DEF Session
  <2>2. s.link # "none" /\ Happens(id, Notified(m, "in"))
    BY <1>3 DEF Arrives
  <2> HIDE DEF m
  <2> QED BY <2>1, <2>2, NotifiedStep
<1>4. CASE Ends(id)
  <2> DEFINE m == [s EXCEPT !.link = "fin"]
  <2>1. /\ m \in Session
        /\ \A f \in {"stage", "reg", "rop", "wop", "unsent", "pend"} : m[f] = s[f]
    BY <1>1 DEF Session
  <2>2. s.link # "none" /\ Happens(id, Notified(m, "in"))
    BY <1>4 DEF Ends
  <2> HIDE DEF m
  <2> QED BY <2>1, <2>2, NotifiedStep
<1>5. CASE Breaks(id)
  <2> DEFINE m == [s EXCEPT !.link = "broken", !.inbox = 0]
  <2>0. 0 \in 0..MaxInbox
    BY NetServiceAssumption
  <2>1. /\ m \in Session
        /\ \A f \in {"stage", "reg", "rop", "wop", "unsent", "pend"} : m[f] = s[f]
    BY <1>1, <2>0 DEF Session
  <2>2. s.link # "none" /\ Happens(id, Notified(m, "err"))
    BY <1>5 DEF Breaks
  <2> HIDE DEF m
  <2> QED BY <2>1, <2>2, NotifiedStep
<1>6. CASE Drains(id)
  <2> DEFINE m == [s EXCEPT !.room = @ + 1, !.nospace = FALSE]
  <2>0. s.room + 1 \in 0..SockRoom
    BY <1>1, <1>6, EpollSessionAssumption DEF Drains, Session
  <2>1. /\ m \in Session
        /\ \A f \in {"stage", "reg", "rop", "wop", "unsent", "pend"} : m[f] = s[f]
    BY <1>1, <2>0 DEF Session
  <2>2. /\ s.link # "none"
        /\ Happens(id, IF s.nospace THEN Notified(m, "out") ELSE m)
    BY <1>6 DEF Drains
  <2>3. Sound(s)
    BY DEF IInv, Sounds
  <2> HIDE DEF m
  <2>4. Sound(m) /\ m.stage = s.stage /\ m.reg = s.reg /\ m.pend = s.pend
    BY <2>1, <2>3 DEF Sound, Believed
  <2> QED BY <2>1, <2>2, <2>4, NotifiedStep, HappensStep
<1> QED BY <1>2, <1>3, <1>4, <1>5, <1>6 DEF Kernel

-----------------------------------------------------------------------------
(* The allocator hands out an id that nobody has had. *)
LEMMA PoolTake ==
  ASSUME Pool, Ids!Take, NEW k, k = Head(free)
  PROVE  /\ Pool' /\ k \in Ticket /\ k \notin held
         /\ Fresh(k) /\ ~Fresh(k)' /\ held' = held \cup {k}
         /\ \A x \in Ticket : Fresh(x)' => Fresh(x)
<1>1. free \in Seq(Ticket) /\ free # <<>> /\ free' = Tail(free)
      /\ held' = held \cup {Head(free)}
  BY DEF Pool, Ids!Take
<1>2. /\ Head(free) = free[1] /\ 1 \in DOMAIN free /\ Head(free) \in Ticket
      /\ free' \in Seq(Ticket)
      /\ DOMAIN free' = 1..(Len(free) - 1)
      /\ \A i \in DOMAIN free' : i + 1 \in DOMAIN free /\ i + 1 # 1 /\ free'[i] = free[i + 1]
  BY <1>1
<1>3. k \in Ticket
  BY <1>2
<1>4. /\ \A i \in DOMAIN free' : free'[i][1] # k[1]
      /\ \A t \in held : t[1] # k[1]
  BY <1>2, <1>3 DEF Pool
<1>5. Pool'
  <2>1. \A i, j \in DOMAIN free' : free'[i][1] = free'[j][1] => i = j
    <3> SUFFICES ASSUME NEW i \in DOMAIN free', NEW j \in DOMAIN free',
                        free'[i][1] = free'[j][1]
                 PROVE  i = j
      OBVIOUS
    <3>1. i + 1 = j + 1
      BY <1>2 DEF Pool
    <3> QED BY <1>2, <3>1
  <2>2. \A i \in DOMAIN free' : \A t \in held' : free'[i][1] # t[1]
    BY <1>1, <1>2, <1>3, <1>4 DEF Pool
  <2>3. \A s, t \in held' : s[1] = t[1] => s = t
    BY <1>1, <1>3, <1>4 DEF Pool
  <2> QED BY <1>1, <1>2, <2>1, <2>2, <2>3 DEF Pool
<1>6. k[2] \in Nat
  BY <1>3, TicketIs
<1>7. Fresh(k) /\ k \notin held
  BY <1>2, <1>3, <1>4, <1>6 DEF Fresh
<1>8. ~Fresh(k)'
  <2>1. ~(k[2] < k[2])
    BY <1>6
  <2> QED BY <1>1, <1>3, <1>4, <2>1 DEF Fresh
<1>9. ASSUME NEW x \in Ticket, Fresh(x)' PROVE Fresh(x)
  <2>1. CASE \E i \in DOMAIN free' : free'[i][1] = x[1] /\ free'[i][2] <= x[2]
    BY <1>2, <2>1 DEF Fresh
  <2>2. CASE \E t \in held : t[1] = x[1] /\ t[2] < x[2]
    BY <2>2 DEF Fresh
  <2>3. CASE k[1] = x[1] /\ k[2] < x[2]
    BY <1>2, <1>3, <2>3, TicketIs DEF Fresh
  <2> QED BY <1>1, <1>3, <1>9, <2>1, <2>2, <2>3 DEF Fresh
<1> QED BY <1>1, <1>3, <1>5, <1>7, <1>8, <1>9

(* add_net_session, under id_lock. *)
LEMMA TakeStep ==
  ASSUME IInv, NEW a \in AppThreads, NEW kind \in Kind,
         app[a].at \in {"idle", "accepted"}, TakeId(a, kind)
  PROVE  IInv'
<1> DEFINE link == CASE kind = "listen" -> "listening"
                     [] kind = "connect" -> "unconnected"
                     [] OTHER -> "up"
           n == [Blank EXCEPT !.stage = "new", !.link = link, !.room = SockRoom]
           r == [AtRest EXCEPT !.at = "publish", !.id = Head(free), !.kind = kind]
<1>1. PICK k : k = Head(free)
  OBVIOUS
<1>2. /\ Pool' /\ k \in Ticket /\ k \notin held
      /\ Fresh(k) /\ ~Fresh(k)' /\ held' = held \cup {k}
      /\ \A x \in Ticket : Fresh(x)' => Fresh(x)
  BY <1>1, PoolTake DEF IInv, TakeId
<1>3. /\ Sound(n) /\ n.stage = "new" /\ n.reg = {} /\ ~n.pend
  <2>1. /\ link \in {"none", "listening", "unconnected", "connecting", "up", "fin", "broken"}
        /\ SockRoom \in 0..SockRoom
    BY EpollSessionAssumption
  <2> HIDE DEF link
  <2>2. n \in Session
    BY <2>1, BlankSound DEF Sound, Session
  <2>3. n.stage = "new" /\ n.unsent = 0 /\ ~n.rop /\ ~n.wop /\ n.reg = {} /\ ~n.pend
    BY DEF Blank
  <2> QED BY <2>2, <2>3 DEF Sound
<1>4. sess' = [sess EXCEPT ![k] = n]
  BY <1>1 DEF TakeId
<1> HIDE DEF n
<1>5. /\ sess' \in [Ticket -> Session] /\ sess'[k] = n
      /\ \A x \in Ticket \ {k} : sess'[x] = sess[x]
  <2>1. sess \in [Ticket -> Session] /\ n \in Session
    BY <1>3 DEF IInv, Typed, Sound
  <2> QED BY ONLY <1>2, <1>4, <2>1
<1>6. r \in Call /\ r.at = "publish" /\ r.id = k /\ r.kind = kind
  BY <1>1, <1>2, AtRestType DEF Call, Owns, Before
<1>7. app' = [app EXCEPT ![a] = r]
  BY DEF TakeId
<1> HIDE DEF r
<1>8. /\ app' \in [AppThreads -> Call] /\ app'[a] = r
      /\ \A b \in AppThreads \ {a} : app'[b] = app[b]
  BY <1>6, <1>7, AppTyped
<1>9. /\ sess[k] = Blank /\ Blank.stage = "none" /\ ~InTable(k) /\ k \notin closeRoot
      /\ Unseen(k)
  <2>1. sess[k] = Blank /\ Blank.stage = "none"
    BY <1>2, BlankSound DEF IInv, Places
  <2> QED BY <1>2, <2>1 DEF IInv, Places, OnePlace, Unseen
<1>10. Typed'
  BY <1>5, <1>8 DEF IInv, Typed, TakeId
<1>11. Places'
  <2>1. OnePlace'
    <3> SUFFICES ASSUME NEW x \in Ticket PROVE OnePlace!(x)'
      BY DEF OnePlace
    <3>1. CASE x = k
      BY <1>3, <1>5, <1>9, <3>1 DEF TakeId, InTable
    <3>2. CASE x # k
      BY <1>2, <1>5, <3>2 DEF TakeId, InTable, IInv, Places, OnePlace
    <3> QED BY <3>1, <3>2
  <2>2. \A x \in Ticket : Fresh(x)' => sess'[x] = Blank
    BY <1>2, <1>5 DEF IInv, Places
  <2> QED BY <2>1, <2>2 DEF IInv, Places, TakeId
<1>12. Calls'
  <2> SUFFICES ASSUME NEW b \in AppThreads PROVE Calls!(b)'
    BY DEF Calls
  <2>1. \A c \in AppThreads : app[c].at \in Owns => app[c].id \in held /\ app[c].id # k
                                                    /\ app[c].id \in Ticket
    BY <1>2 DEF IInv, Calls, Pool
  <2>2. CASE b = a
    BY <1>2, <1>3, <1>5, <1>6, <1>8, <2>1, <2>2 DEF Owns, Before
  <2>3. CASE b # a
    <3>1. app'[b] = app[b] /\ Calls!(b)
      BY <1>8, <2>3 DEF IInv, Calls
    <3>2. app[b].at \in Owns => sess'[app[b].id] = sess[app[b].id]
      BY <1>5, <2>1
    <3> QED BY <1>2, <1>6, <1>8, <2>1, <3>1, <3>2 DEF Owns, Before
  <2> QED BY <2>2, <2>3
<1>13. Nodes'
  BY <1>2, <1>5 DEF IInv, Nodes, TakeId
<1>14. Sounds'
  BY <1>3, <1>5 DEF IInv, Sounds
<1>15. Silence'
  <2> SUFFICES ASSUME NEW x \in Ticket, Unseen(x)'
               PROVE  /\ sess'[x].reg = {} /\ ~sess'[x].pend
                      /\ \A t \in IoThreads : \A e \in io'[t].todo : e.id # x
    BY DEF Silence
  <2>1. CASE x = k
    BY <1>3, <1>5, <1>9, <2>1 DEF IInv, Silence, TakeId
  <2>2. CASE x # k
    <3>1. Unseen(x)
      BY <1>2, <1>6, <1>8, <2>2 DEF Unseen
    <3> QED BY <1>5, <2>2, <3>1 DEF IInv, Silence, TakeId
  <2> QED BY <2>1, <2>2
<1> QED BY <1>2, <1>10, <1>11, <1>12, <1>13, <1>14, <1>15 DEF IInv

(* add_net_session, under the lock of the slot: no other session is there. *)
LEMMA PublishStep ==
  ASSUME IInv, NEW a \in AppThreads, Publish(a)
  PROVE  IInv'
<1>1. PICK id : id = app[a].id
  OBVIOUS
<1> DEFINE kind == app[a].kind
           s == sess[id]
           n == [s EXCEPT !.stage = kind]
           r == IF kind = "plain" THEN AtRest ELSE [app[a] EXCEPT !.at = "register"]
<1>2. /\ app[a].at = "publish" /\ id \in held /\ id \in Ticket /\ s.stage = "new"
      /\ kind \in Kind /\ app[a] \in Call
      /\ \A b \in AppThreads : app[b].at \in Owns /\ app[b].id = id => b = a
  BY <1>1 DEF IInv, Calls, Pool, Typed, Publish, Owns, Before
<1>3. /\ ~Fresh(id) /\ Unseen(id) /\ Sound(s) /\ s.reg = {} /\ ~s.pend
      /\ \A t \in IoThreads : \A e \in io[t].todo : e.id # id
  <2>1. Unseen(id)
    BY <1>1, <1>2 DEF Unseen, Before
  <2> QED BY <1>2, <2>1, LiveNotFresh DEF IInv, Sounds, Silence
<1>4. Sound(n) /\ n.stage = kind /\ n.reg = {} /\ ~n.pend
  <2>1. n \in Session /\ n.stage = kind
        /\ \A f \in {"rop", "wop", "unsent", "reg", "pend"} : n[f] = s[f]
    BY <1>2, <1>3 DEF Sound, Session, Kind
  <2> QED BY <1>2, <1>3, <2>1 DEF Sound, Kind, Believed
<1>5. sess' = [sess EXCEPT ![id] = n]
  BY <1>1 DEF Publish
<1> HIDE DEF n
<1>6. /\ sess' \in [Ticket -> Session] /\ sess'[id] = n
      /\ \A x \in Ticket \ {id} : sess'[x] = sess[x]
  <2>1. sess \in [Ticket -> Session] /\ n \in Session
    BY <1>4 DEF IInv, Typed, Sound
  <2> QED BY ONLY <1>2, <1>5, <2>1
<1>7. /\ r \in Call
      /\ kind = "plain" => r.at = "idle"
      /\ kind # "plain" => r.at = "register" /\ r.id = id /\ r.kind = kind
  <2>1. [app[a] EXCEPT !.at = "register"] \in Call
    BY <1>2 DEF Call, Owns, Before
  <2> QED BY <1>1, <1>2, <2>1, AtRestType DEF Call
<1>8. app' = [app EXCEPT ![a] = r]
  BY DEF Publish
<1> HIDE DEF r
<1>9. /\ app' \in [AppThreads -> Call] /\ app'[a] = r
      /\ \A b \in AppThreads \ {a} : app'[b] = app[b]
  BY <1>7, <1>8, AppTyped
<1>10. /\ id[1] \in Slot /\ table' \in [Slot -> Ticket \cup {NULL}]
       /\ table' = [table EXCEPT ![id[1]] = id]
       /\ \A slot \in Slot : table'[slot] = IF slot = id[1] THEN id ELSE table[slot]
  <2>1. id[1] \in Slot /\ table \in [Slot -> Ticket \cup {NULL}]
        /\ table' = [table EXCEPT ![id[1]] = id]
    BY <1>1, <1>2, TicketIs DEF IInv, Typed, Publish
  <2> QED BY ONLY <1>2, <2>1
<1>11. /\ UNCHANGED <<free, held, closeRoot, queue, delayQueue, io, delayer>>
       /\ \A x : Fresh(x)' <=> Fresh(x)
  BY DEF Publish, Fresh
<1>12. Typed'
  BY <1>6, <1>9, <1>10, <1>11 DEF IInv, Typed
<1>13. Pool'
  BY <1>11 DEF IInv, Pool
<1>14. Places'
  <2>1. OnePlace'
    <3> SUFFICES ASSUME NEW x \in Ticket PROVE OnePlace!(x)'
      BY DEF OnePlace
    <3>0. OnePlace!(x) /\ x[1] \in Slot
      BY TicketIs DEF IInv, Places, OnePlace
    <3>1. CASE x = id
      <4>1. InTable(x)' /\ x \in held' /\ sess'[x].stage \in {"listen", "connect", "plain"}
        BY <1>2, <1>4, <1>6, <1>10, <1>11, <3>1 DEF InTable, Kind
      <4>2. x \notin closeRoot'
        BY <1>2, <1>11, <3>0, <3>1
      <4> QED BY <4>1, <4>2
    <3>2. CASE x # id
      <4>1. InTable(x)' <=> InTable(x)
        <5>1. CASE x[1] = id[1]
          <6>1. ~InTable(x)
            BY <1>2, <3>0, <3>2, <5>1 DEF IInv, Pool
          <6> QED BY <1>10, <3>0, <3>2, <5>1, <6>1 DEF InTable
        <5>2. CASE x[1] # id[1]
          BY <1>10, <3>0, <5>2 DEF InTable
        <5> QED BY <5>1, <5>2
      <4> QED BY <1>6, <1>11, <3>0, <3>2, <4>1
    <3> QED BY <3>1, <3>2
  <2>2. \A slot \in Slot : table'[slot] # NULL => table'[slot][1] = slot
    BY <1>10 DEF IInv, Places
  <2>3. \A x \in Ticket : Fresh(x)' => sess'[x] = Blank
    BY <1>3, <1>6, <1>11 DEF IInv, Places
  <2> QED BY <2>1, <2>2, <2>3 DEF Places
<1>15. Calls'
  <2> SUFFICES ASSUME NEW b \in AppThreads PROVE Calls!(b)'
    BY DEF Calls
  <2>1. \A c \in AppThreads : app'[c].at \in Owns =>
          /\ app[c].at \in Owns /\ app'[c].id = app[c].id
    BY <1>1, <1>2, <1>7, <1>9 DEF Owns, Before
  <2>2. Calls!(b)
    BY DEF IInv, Calls
  <2>3. CASE b = a
    BY <1>2, <1>4, <1>6, <1>7, <1>9, <1>11, <2>1, <2>3 DEF Owns, Before, Kind
  <2>4. CASE b # a
    <3>1. app'[b] = app[b]
      BY <1>9, <2>4
    <3>2. app[b].at \in Owns => app[b].id \in Ticket /\ app[b].id # id
      BY <1>2, <2>2, <2>4 DEF IInv, Pool
    <3>3. app[b].at \in Owns => sess'[app[b].id] = sess[app[b].id]
      BY <1>6, <3>2
    <3>4. app'[b].at \in Owns =>
           /\ app'[b].id \in held'
           /\ \A c \in AppThreads : app'[c].at \in Owns /\ app'[c].id = app'[b].id => c = b
      BY <1>11, <2>1, <2>2, <3>1
    <3> QED BY <2>2, <3>1, <3>3, <3>4 DEF Owns, Before
  <2> QED BY <2>3, <2>4
<1>16. Nodes'
  <2>1. ASSUME NEW t \in IoThreads, io[t].node \in Ticket
        PROVE  io[t].node # id
    BY <1>2, <2>1 DEF IInv, Nodes
  <2> QED BY <1>6, <1>11, <2>1 DEF IInv, Nodes
<1>17. Sounds'
  BY <1>4, <1>6 DEF IInv, Sounds
<1>18. Silence'
  <2> SUFFICES ASSUME NEW x \in Ticket, Unseen(x)'
               PROVE  /\ sess'[x].reg = {} /\ ~sess'[x].pend
                      /\ \A t \in IoThreads : \A e \in io'[t].todo : e.id # x
    BY DEF Silence
  <2>1. CASE x = id
    BY <1>3, <1>4, <1>6, <1>11, <2>1
  <2>2. CASE x # id
    <3>1. Unseen(x)
      BY <1>7, <1>9, <1>11, <2>2 DEF Unseen, Before
    <3> QED BY <1>6, <1>11, <2>2, <3>1 DEF IInv, Silence
  <2> QED BY <2>1, <2>2
<1> QED BY <1>12, <1>13, <1>14, <1>15, <1>16, <1>17, <1>18 DEF IInv

(* net_socket_close: the session leaves the table, and nobody else has     *)
(* its id to itself.                                                       *)
LEMMA CloseBeginStep ==
  ASSUME IInv, NEW a \in AppThreads, NEW id \in Ticket, CloseBegin(a, id)
  PROVE  IInv'
<1> DEFINE c == Clean(sess[id])
           r == [AtRest EXCEPT !.at = "release", !.id = id]
<1>1. /\ sess[id].stage \in Open4 /\ ~Fresh(id) /\ Sound(sess[id])
      /\ id \in held /\ InTable(id) /\ id \notin closeRoot
  <2>1. sess[id].stage \in Open4 /\ ~Fresh(id) /\ Sound(sess[id])
    BY CurrentLive DEF CloseBegin
  <2> QED BY <2>1 DEF CloseBegin, IInv, Places, OnePlace, InTable, Current, Open4
<1>2. \A b \in AppThreads \ {a} : app[b].at \in Owns => app[b].id # id
  <2> SUFFICES ASSUME NEW b \in AppThreads \ {a}, app[b].at \in Owns, app[b].id = id
               PROVE  FALSE
    OBVIOUS
  <2>1. app[b].at # "release"
    BY <1>1 DEF IInv, Calls, Open4
  <2>2. CASE Known(id)
    BY <2>1, <2>2 DEF Known, Owns, Before
  <2>3. CASE app[a].at = "giveup" /\ app[a].id = id
    BY <2>3 DEF IInv, Calls, Owns, Before
  <2> QED BY <2>2, <2>3 DEF CloseBegin
<1>3. PICK s : /\ sess' = [sess EXCEPT ![id] = IF s.wop THEN Closing(s) ELSE Blank]
               /\ closeRoot' = IF s.wop THEN closeRoot \cup {id} ELSE closeRoot
               /\ QueuesFor(id, s)
               /\ Sound(s) /\ (s.wop => s.stage = "ready")
  <2>1. PICK ok \in BOOLEAN, sendRest \in BOOLEAN :
          LET s == IF sendRest THEN Rest(c, ok) ELSE c
          IN  /\ QueuesFor(id, s)
              /\ sess' = [sess EXCEPT ![id] = IF s.wop THEN Closing(s) ELSE Blank]
              /\ closeRoot' = IF s.wop THEN closeRoot \cup {id} ELSE closeRoot
    BY NetServiceAssumption DEF CloseBegin
  <2>2. Sound(c) /\ ~c.wop
    BY <1>1, CleanSound
  <2>3. Sound(Rest(c, ok)) /\ (Rest(c, ok).wop => Rest(c, ok).stage = "ready")
    BY <1>1, RestSound DEF Open4
  <2> QED BY <2>1, <2>2, <2>3
<1> DEFINE n == IF s.wop THEN Closing(s) ELSE Blank
<1>4. Sound(n) /\ n.stage = (IF s.wop THEN "closing" ELSE "none")
  BY <1>3, ClosingSound, BlankSound
<1>5. sess' = [sess EXCEPT ![id] = n]
  BY <1>3
<1> HIDE DEF n
<1>6. /\ sess' \in [Ticket -> Session] /\ sess'[id] = n
      /\ \A x \in Ticket \ {id} : sess'[x] = sess[x]
  <2>1. sess \in [Ticket -> Session] /\ n \in Session
    BY <1>4 DEF IInv, Typed, Sound
  <2> QED BY ONLY id \in Ticket, <1>5, <2>1
<1>7. r \in Call /\ r.at = "release" /\ r.id = id
  BY AtRestType DEF Call, Owns, Before
<1>8. app' = [app EXCEPT ![a] = r]
  BY DEF CloseBegin
<1> HIDE DEF r
<1>9. /\ app' \in [AppThreads -> Call] /\ app'[a] = r
      /\ \A b \in AppThreads \ {a} : app'[b] = app[b]
  BY <1>7, <1>8, AppTyped
<1>10. /\ id[1] \in Slot /\ table' \in [Slot -> Ticket \cup {NULL}]
       /\ \A slot \in Slot : table'[slot] = IF slot = id[1] THEN NULL ELSE table[slot]
  <2>1. id[1] \in Slot /\ table \in [Slot -> Ticket \cup {NULL}]
        /\ table' = [table EXCEPT ![id[1]] = NULL]
    BY TicketIs DEF IInv, Typed, CloseBegin
  <2> QED BY ONLY <2>1
<1>11. /\ UNCHANGED <<free, held, io, delayer>>
       /\ \A x : Fresh(x)' <=> Fresh(x)
  BY DEF CloseBegin, Fresh
<1>12. Typed'
  BY <1>3, <1>6, <1>9, <1>10, <1>11, QueuesType DEF IInv, Typed
<1>13. Pool'
  BY <1>11 DEF IInv, Pool
<1>14. Places'
  <2>1. OnePlace'
    <3> SUFFICES ASSUME NEW x \in Ticket PROVE OnePlace!(x)'
      BY DEF OnePlace
    <3>0. OnePlace!(x) /\ x[1] \in Slot /\ x # NULL
      BY TicketIs, NullAssumption DEF IInv, Places, OnePlace
    <3>1. CASE x = id
      <4>1. ~InTable(x)'
        BY <1>10, <3>0, <3>1 DEF InTable
      <4> QED BY <1>1, <1>3, <1>4, <1>6, <3>1, <4>1
    <3>2. CASE x # id
      <4>1. InTable(x)' <=> InTable(x)
        BY <1>1, <1>10, <3>0, <3>2 DEF InTable
      <4>2. x \in closeRoot' <=> x \in closeRoot
        BY <1>3, <3>2
      <4> QED BY <1>6, <1>11, <3>0, <3>2, <4>1, <4>2
    <3> QED BY <3>1, <3>2
  <2>2. \A slot \in Slot : table'[slot] # NULL => table'[slot][1] = slot
    BY <1>10 DEF IInv, Places
  <2>3. \A x \in Ticket : Fresh(x)' => sess'[x] = Blank
    BY <1>1, <1>6, <1>11 DEF IInv, Places
  <2> QED BY <2>1, <2>2, <2>3 DEF Places
<1>15. Calls'
  <2> SUFFICES ASSUME NEW b \in AppThreads PROVE Calls!(b)'
    BY DEF Calls
  <2>1. Calls!(b)
    BY DEF IInv, Calls
  <2>2. CASE b = a
    BY <1>1, <1>2, <1>4, <1>6, <1>7, <1>9, <1>11, <2>2 DEF Owns, Before
  <2>3. CASE b # a
    <3>1. app'[b] = app[b]
      BY <1>9, <2>3
    <3>2. app[b].at \in Owns => app[b].id \in Ticket /\ app[b].id # id
      BY <1>2, <2>1, <2>3 DEF IInv, Pool
    <3>3. app[b].at \in Owns => sess'[app[b].id] = sess[app[b].id]
      BY <1>6, <3>2
    <3>4. app'[b].at \in Owns =>
           /\ app'[b].id \in held'
           /\ \A d \in AppThreads : app'[d].at \in Owns /\ app'[d].id = app'[b].id => d = b
      BY <1>7, <1>9, <1>11, <2>1, <3>1, <3>2
    <3> QED BY <2>1, <3>1, <3>3, <3>4 DEF Owns, Before
  <2> QED BY <2>2, <2>3
<1>16. Nodes'
  <2>1. ASSUME NEW t \in IoThreads, io[t].node \in Ticket
        PROVE  io[t].node # id
    BY <1>1, <2>1 DEF IInv, Nodes, Open4
  <2> QED BY <1>6, <1>11, <2>1 DEF IInv, Nodes
<1>17. Sounds'
  BY <1>4, <1>6 DEF IInv, Sounds
<1>18. Silence'
  <2> SUFFICES ASSUME NEW x \in Ticket, Unseen(x)'
               PROVE  /\ sess'[x].reg = {} /\ ~sess'[x].pend
                      /\ \A t \in IoThreads : \A e \in io'[t].todo : e.id # x
    BY DEF Silence
  <2>1. x # id /\ Unseen(x)
    BY <1>1, <1>2, <1>7, <1>9, <1>11 DEF Unseen, Owns, Before
  <2> QED BY <1>6, <1>11, <2>1 DEF IInv, Silence
<1> QED BY <1>12, <1>13, <1>14, <1>15, <1>16, <1>17, <1>18 DEF IInv

(* The allocator gets an id back, and hands out another generation later.  *)
LEMMA PoolGive ==
  ASSUME Pool, NEW id \in held, held' = held \ {id},
         free' = IF Ids!HasGeneration(id[1], id[2] + 1)
                 THEN Append(free, <<id[1], id[2] + 1>>) ELSE free
  PROVE  Pool' /\ \A x \in Ticket : Fresh(x)' => Fresh(x)
<1>0. id \in Ticket /\ id[2] \in Nat /\ free \in Seq(Ticket)
  BY TicketIs DEF Pool
<1>1. CASE ~Ids!HasGeneration(id[1], id[2] + 1)
  BY <1>1 DEF Pool, Fresh
<1>2. CASE Ids!HasGeneration(id[1], id[2] + 1)
  <2>1. PICK next \in Ticket : next = <<id[1], id[2] + 1>>
    BY <1>0, <1>2, NextTicket
  <2>2. free' = Append(free, next)
    BY <1>2, <2>1
  <2>3. /\ free' \in Seq(Ticket) /\ DOMAIN free' = 1..(Len(free) + 1)
        /\ \A i \in DOMAIN free' : IF i \in DOMAIN free THEN free'[i] = free[i]
                                   ELSE i = Len(free) + 1 /\ free'[i] = next
    BY <1>0, <2>2
  <2>4. next[1] = id[1] /\ next[2] = id[2] + 1
    BY <2>1
  <2>5. \A i, j \in DOMAIN free' : free'[i][1] = free'[j][1] => i = j
    BY <2>3, <2>4 DEF Pool
  <2>6. \A i \in DOMAIN free' : \A t \in held' : free'[i][1] # t[1]
    BY <2>3, <2>4 DEF Pool
  <2>7. Pool'
    BY <2>3, <2>5, <2>6 DEF Pool
  <2>8. ASSUME NEW x \in Ticket, Fresh(x)' PROVE Fresh(x)
    <3>1. CASE \E i \in DOMAIN free' : free'[i][1] = x[1] /\ free'[i][2] <= x[2]
      <4>1. PICK i \in DOMAIN free' : free'[i][1] = x[1] /\ free'[i][2] <= x[2]
        BY <3>1
      <4>2. CASE i \in DOMAIN free
        BY <2>3, <4>1, <4>2 DEF Fresh
      <4>3. CASE i \notin DOMAIN free
        <5>1. id[1] = x[1] /\ id[2] + 1 <= x[2] /\ x[2] \in Nat
          BY <2>3, <2>4, <4>1, <4>3, TicketIs
        <5> QED BY <1>0, <5>1 DEF Fresh
      <4> QED BY <4>2, <4>3
    <3>2. CASE \E t \in held' : t[1] = x[1] /\ t[2] < x[2]
      BY <3>2 DEF Fresh
    <3> QED BY <2>8, <3>1, <3>2 DEF Fresh
  <2> QED BY <2>7, <2>8
<1> QED BY <1>1, <1>2

(* ffid_del_id, under id_lock. *)
LEMMA CloseEndStep ==
  ASSUME IInv, NEW a \in AppThreads, CloseEnd(a)
  PROVE  IInv'
<1>1. PICK id : id = app[a].id
  OBVIOUS
<1>2. /\ app[a].at = "release" /\ id \in held /\ id \in Ticket
      /\ sess[id].stage \in {"none", "closing"}
      /\ \A b \in AppThreads : app[b].at \in Owns /\ app[b].id = id => b = a
  BY <1>1 DEF IInv, Calls, Pool, CloseEnd, Owns
<1>3. /\ held' = held \ {id}
      /\ free' = IF Ids!HasGeneration(id[1], id[2] + 1)
                 THEN Append(free, <<id[1], id[2] + 1>>) ELSE free
  BY <1>1 DEF CloseEnd
<1>4. Pool' /\ \A x \in Ticket : Fresh(x)' => Fresh(x)
  BY <1>2, <1>3, PoolGive DEF IInv
<1>5. app' = [app EXCEPT ![a] = AtRest]
  BY DEF CloseEnd
<1>6. /\ app' \in [AppThreads -> Call] /\ app'[a].at = "idle"
      /\ \A b \in AppThreads \ {a} : app'[b] = app[b]
  BY <1>5, AppTyped, AtRestType
<1>7. UNCHANGED <<table, sess, closeRoot, queue, delayQueue, io, delayer>>
  BY DEF CloseEnd
<1>8. Typed'
  BY <1>6, <1>7 DEF IInv, Typed
<1>9. ~InTable(id)
  BY <1>2 DEF IInv, Places, OnePlace
<1>10. OnePlace'
  BY <1>3, <1>7, <1>9 DEF IInv, Places, OnePlace, InTable
<1>11. Places'
  BY <1>4, <1>7, <1>10 DEF IInv, Places
<1>12. Calls'
  <2> SUFFICES ASSUME NEW b \in AppThreads PROVE Calls!(b)'
    BY DEF Calls
  <2>1. CASE b = a
    BY <1>6, <2>1 DEF Owns, Before
  <2>2. CASE b # a
    <3>1. app'[b] = app[b] /\ Calls!(b)
      BY <1>6, <2>2 DEF IInv, Calls
    <3> QED BY <1>2, <1>3, <1>6, <1>7, <2>2, <3>1 DEF Owns, Before
  <2> QED BY <2>1, <2>2
<1>13. Nodes'
  BY <1>4, <1>7 DEF IInv, Nodes
<1>14. Sounds'
  BY <1>7 DEF IInv, Sounds
<1>15. \A x \in Ticket : Unseen(x)' => Unseen(x)
  BY <1>4, <1>6 DEF Unseen, Before
<1>16. Silence'
  BY <1>7, <1>15 DEF IInv, Silence
<1> QED BY <1>4, <1>8, <1>11, <1>12, <1>13, <1>14, <1>16 DEF IInv

-----------------------------------------------------------------------------
(* The invariant holds when the service starts. *)
LEMMA InitIInv == Init => IInv
<1> SUFFICES ASSUME Init PROVE IInv
  OBVIOUS
<1>1. /\ free = [k \in 1..MaxSize |-> <<k - 1, 0>>] /\ held = {}
      /\ table = [i \in Slot |-> NULL] /\ sess = [t \in Ticket |-> Blank]
      /\ closeRoot = {} /\ queue = <<>> /\ delayQueue = <<>>
      /\ app = [a \in AppThreads |-> AtRest] /\ io = [t \in IoThreads |-> Waiting]
      /\ delayer = [d \in DelayThreads |-> NULL]
  BY DEF Init, Ids!Init
<1>2. /\ DOMAIN free = 1..MaxSize /\ free \in Seq(Ticket)
      /\ \A i \in DOMAIN free : free[i][1] = i - 1
  <2>1. ASSUME NEW k \in 1..MaxSize PROVE <<k - 1, 0>> \in Ticket
    <3>1. MaxLimit \div MaxSize \in Nat
      BY DivMod, NetServiceAssumption
    <3>2. k - 1 \in Slot /\ 0 \in 0..(MaxLimit \div MaxSize)
          /\ k - 1 + 0 * MaxSize < MaxLimit
      BY <3>1, NetServiceAssumption DEF Slot
    <3> QED BY <3>2 DEF Ticket, Ids!HasGeneration
  <2>2. MaxSize \in Nat
    BY NetServiceAssumption
  <2> QED BY <1>1, <2>1, <2>2
<1>3. Sound(Blank) /\ Blank.stage = "none" /\ Blank \in Session
  BY BlankSound DEF Sound
<1>4. Waiting \in Waiter /\ Waiting.todo = {} /\ Waiting.current = NULL /\ Waiting.node = NULL
  BY DEF Waiting, Waiter
<1>5. Typed
  <2>1. 0 <= QueueCap
    BY NetServiceAssumption DEF QueueCap
  <2> QED BY <1>1, <1>3, <1>4, <2>1, AtRestType DEF Typed
<1>6. Pool
  BY <1>1, <1>2 DEF Pool
<1>7. Places
  BY <1>1, <1>3, NullAssumption, TicketIs DEF Places, OnePlace, InTable
<1>8. \A a \in AppThreads : app[a].at = "idle"
  BY <1>1, AtRestType
<1>9. Calls
  BY <1>8 DEF Calls, Owns, Before
<1>10. Nodes
  BY <1>1, <1>4, NullAssumption DEF Nodes
<1>11. Sounds
  BY <1>1, <1>3 DEF Sounds
<1>12. Silence
  <2>1. Blank.reg = {} /\ ~Blank.pend
    BY DEF Blank
  <2> QED BY <1>1, <1>4, <2>1 DEF Silence
<1> QED BY <1>5, <1>6, <1>7, <1>9, <1>10, <1>11, <1>12 DEF IInv

(* A step of the allocator, or none. *)
IdStep == Ids!Next \/ UNCHANGED <<free, held>>

(* A step of a call keeps the invariant, and is one of the allocator or    *)
(* none.                                                                   *)
LEMMA AppStepIInv ==
  ASSUME IInv, NEW a \in AppThreads, App(a)
  PROVE  IInv' /\ IdStep
<1>1. ASSUME NEW kind \in Kinds, Open(a, kind) PROVE IInv' /\ IdStep
  <2>1. kind \in Kind /\ app[a].at \in {"idle", "accepted"} /\ TakeId(a, kind)
    BY <1>1, NetServiceAssumption DEF Open, Kind
  <2> QED BY <2>1, TakeStep DEF TakeId, IdStep, Ids!Next
<1>2. ASSUME Accepted(a) PROVE IInv' /\ IdStep
  <2>1. "plain" \in Kind /\ app[a].at \in {"idle", "accepted"} /\ TakeId(a, "plain")
    BY <1>2 DEF Accepted, Kind
  <2> QED BY <2>1, TakeStep DEF TakeId, IdStep, Ids!Next
<1>3. ASSUME NEW id \in Ticket, Accept(a, id) PROVE IInv' /\ IdStep
  BY <1>3, AcceptStep DEF Accept, IdStep
<1>4. ASSUME NEW id \in Ticket, CloseBegin(a, id) PROVE IInv' /\ IdStep
  BY <1>4, CloseBeginStep DEF CloseBegin, IdStep
<1>5. ASSUME NEW n \in 1..MaxRead, QueueRead(a, n) PROVE IInv' /\ IdStep
  BY <1>5, QueueReadStep DEF QueueRead, IdStep
<1>6. ASSUME Publish(a) PROVE IInv' /\ IdStep
  BY <1>6, PublishStep DEF Publish, IdStep
<1>7. ASSUME Register(a) PROVE IInv' /\ IdStep
  BY <1>7, RegisterStep DEF Register, IdStep
<1>8. ASSUME RegisterFails(a) PROVE IInv' /\ IdStep
  BY <1>8, RegisterFailsStep DEF RegisterFails, IdStep
<1>9. ASSUME NotAccepted(a) PROVE IInv' /\ IdStep
  BY <1>9, NotAcceptedStep DEF NotAccepted, IdStep
<1>10. ASSUME QueueItem(a) PROVE IInv' /\ IdStep
  BY <1>10, QueueItemStep DEF QueueItem, IdStep
<1>11. ASSUME CloseEnd(a) PROVE IInv' /\ IdStep
  <2>1. Ids!Give(app[a].id)
    BY <1>11 DEF CloseEnd, Ids!Give, IInv, Calls, Owns
  <2>2. app[a].id \in held
    BY <1>11 DEF CloseEnd, IInv, Calls, Owns
  <2> QED BY <1>11, <2>1, <2>2, CloseEndStep DEF IdStep, Ids!Next
<1> QED BY <1>1, <1>2, <1>3, <1>4, <1>5, <1>6, <1>7, <1>8, <1>9, <1>10, <1>11
        DEF App, CallStep

(* Every step keeps the invariant, and is one of the allocator or none. *)
LEMMA StepIInv == IInv /\ [Next]_vars => IInv' /\ IdStep
<1> SUFFICES ASSUME IInv, [Next]_vars PROVE IInv' /\ IdStep
  OBVIOUS
<1>1. ASSUME NEW a \in AppThreads, App(a) PROVE IInv' /\ IdStep
  BY <1>1, AppStepIInv
<1>2. ASSUME NEW t \in IoThreads, Io(t) PROVE IInv' /\ IdStep
  <2>1. ASSUME NEW e \in io[t].todo, Handle(t, e) PROVE IInv' /\ IdStep
    BY <2>1, HandleStep DEF Handle, IdStep
  <2>2. ASSUME NEW e \in io[t].todo, FindClosed(t, e) PROVE IInv' /\ IdStep
    BY <2>2, FindClosedStep DEF FindClosed, IdStep
  <2>3. ASSUME NEW e \in io[t].todo, Ignore(t, e) PROVE IInv' /\ IdStep
    BY <2>3, IgnoreStep DEF Ignore, IdStep
  <2>4. ASSUME Wait(t) PROVE IInv' /\ IdStep
    BY <2>4, WaitStep DEF Wait, IdStep
  <2>5. ASSUME HandleRest(t) PROVE IInv' /\ IdStep
    BY <2>5, HandleRestStep DEF HandleRest, IdStep
  <2> QED BY <1>2, <2>1, <2>2, <2>3, <2>4, <2>5 DEF Io
<1>3. ASSUME NEW d \in DelayThreads, Delay(d) PROVE IInv' /\ IdStep
  BY <1>3, DelayTakeStep, DelayItemStep DEF Delay, DelayTake, DelayItem, IdStep
<1>4. ASSUME NEW slot \in Slot, Cfg(slot) PROVE IInv' /\ IdStep
  BY <1>4, CfgStep DEF Cfg, Section, IdStep
<1>5. ASSUME NEW id \in Ticket, Read(id) \/ WriteNow(id) \/ WriteLater(id)
      PROVE  IInv' /\ IdStep
  BY <1>5, ReadStep, WriteNowStep, WriteLaterStep
     DEF Read, WriteNow, WriteLater, Section, IdStep
<1>6. ASSUME NEW id \in Ticket, Kernel(id) PROVE IInv' /\ IdStep
  <2>1. UNCHANGED <<free, held>>
    BY <1>6 DEF Kernel, Connected, Arrives, Ends, Breaks, Drains, Happens
  <2> QED BY <1>6, <2>1, KernelStep DEF IdStep
<1>7. ASSUME UNCHANGED vars PROVE IInv' /\ IdStep
  <2>1. Typed'
    BY <1>7 DEF vars, IInv, Typed
  <2>2. UNCHANGED <<free, held, table, sess, closeRoot, app, io>>
    BY <1>7 DEF vars
  <2>3. Rest6'
    BY <2>2, Quiet, AppsSame, IosSame, SessSame
  <2> QED BY <2>1, <2>2, <2>3 DEF IInv, Rest6, IdStep
<1> QED BY <1>1, <1>2, <1>3, <1>4, <1>5, <1>6, <1>7 DEF Next

-----------------------------------------------------------------------------
(* The inductive invariant. *)
THEOREM Invariance == Spec => []IInv
<1>1. IInv /\ [Next]_vars => IInv'
  BY StepIInv
<1> QED BY InitIInv, <1>1, PTL DEF Spec

(* Sessions, queues and threads hold what their declarations allow; the    *)
(* queues never hold more than msg_buff_create made room for.              *)
THEOREM TypeCorrect == Spec => []TypeOK
<1>1. IInv => TypeOK
  <2> SUFFICES ASSUME IInv PROVE TypeOK
    OBVIOUS
  <2>1. \A t \in IoThreads : io[t].todo \subseteq Event
    BY DEF IInv, Typed, Waiter
  <2>2. \A a \in AppThreads : app[a].at \in Owns \cup {"idle", "accepted", "queue"}
    BY DEF IInv, Typed, Call
  <2> QED BY <2>1, <2>2 DEF IInv, Typed, TypeOK, Owns, Before
<1> QED BY Invariance, <1>1, PTL

(* net_socket_close and handle_session agree on where a session is: in the *)
(* table under its own id, which is in use, or in close_root, or nowhere.  *)
THEOREM EachInOnePlace == Spec => []OnePlace
<1>1. IInv => OnePlace
  BY DEF IInv, Places
<1> QED BY Invariance, <1>1, PTL

(* epoll_ctl_op never takes the wrong one of ADD and MOD. *)
THEOREM RegistrationIsExact == Spec => []RegistrationExact
<1>1. IInv => RegistrationExact
  BY DEF IInv, Sounds, Sound, RegistrationExact
<1> QED BY Invariance, <1>1, PTL

(* The network service uses the allocator as Ids prescribes: each id that  *)
(* net_socket_close gives to ffid_del_id is in use, once, whatever the     *)
(* threads do at the same time.                                            *)
THEOREM IdsOwned == Spec => OwnsIds
<1>1. Init => Ids!Init
  BY DEF Init
<1>2. IInv /\ [Next]_vars => [Ids!Next]_(Ids!vars)
  BY StepIInv DEF IdStep, Ids!vars
<1>3. Spec => Ids!Spec
  BY Invariance, <1>1, <1>2, PTL DEF Spec, Ids!Spec
<1> QED BY <1>3 DEF OwnsIds

-----------------------------------------------------------------------------
(* No edge is lost.                                                        *)

Events == {"in", "out", "err"}
Established == {"up", "fin", "broken"}

(* What the events that I/O threads have for a session say. *)
InHand(id) ==
  {k \in Events : \E t \in IoThreads : \E e \in io[t].todo : e.id = id /\ k \in e.ev}

(* An edge of one of these kinds is pending or among the events in hand.   *)
Edge(s, K, kinds) == s.pend \/ K \cap kinds # {}

(* What is in the receive buffer was announced; after a read that filled   *)
(* it, etflag, it is announced too.                                        *)
Announces(s) ==
  s.rop /\ (s.rbuf > 0 \/ s.retry => s.owed \/ "Read" \in s.events)

(* The kernel tells of an error; ... *)
Warned(s, K) == s.link = "broken" => Edge(s, K, {"err"})

(* ... of input, unless the receive buffer was full; ... *)
Rings(s, K) ==
  s.inbox > 0 \/ s.link \in {"fin", "broken"} => s.retry \/ Edge(s, K, {"in", "err"})

(* ... and of room for the output that nobody has to send. *)
Sends(s, K) ==
  s.unsent > 0 /\ ~s.inDelay =>
    /\ s.wop
    /\ s.link # "broken" /\ s.room = 0 => s.nospace
    /\ s.link = "broken" \/ s.room > 0 => Edge(s, K, {"out", "err"})

Hears(s, K) == Announces(s) /\ Warned(s, K) /\ Rings(s, K)

(* The application has buffers, and has not been told of an error. *)
Served(s, K) == s.stage = "ready" /\ ~Failed(s) => Hears(s, K) /\ Sends(s, K)

(* A connection is established before anything is sent or received.        *)
Linked(s, K) ==
  /\ s.stage \in {"plain", "ready"} => s.link \in Established
  /\ s.stage = "connect" /\ K \cap {"out", "err"} # {} => s.link \in Established
  /\ s.stage # "ready" => s.rbuf = 0 /\ ~s.retry

Flows == \A id \in Ticket : Linked(sess[id], InHand(id)) /\ Served(sess[id], InHand(id))

(* An accepted connection is established. *)
Accepting ==
  \A a \in AppThreads : app[a].at = "publish" /\ app[a].kind = "plain" =>
                          sess[app[a].id].link \in Established

-----------------------------------------------------------------------------
(* What the functions of epoll_service.c leave of a session: push_queue,   *)
(* clean_epoll_op, epoll_ctl_op and post_rest_write.                       *)
LEMMA PushFields ==
  ASSUME NEW s \in Session, NEW ev \in SUBSET Report
  PROVE  /\ Push(s, ev).events = s.events \cup ev
         /\ \A f \in {"rop", "wop", "retry", "unsent", "rbuf", "link", "inbox", "room",
                      "nospace", "pend", "owed", "told", "inDelay"} : Push(s, ev)[f] = s[f]
BY DEF Push, Session, Report

(* clean_epoll_op touches only the registration. *)
LEMMA CleanFields ==
  ASSUME NEW s \in Session
  PROVE  \A f \in {"stage", "retry", "unsent", "rbuf", "link", "inbox", "room",
                   "nospace", "owed", "told", "inDelay", "events"} : Clean(s)[f] = s[f]
BY DEF Clean, Session

(* An error that is pushed is known to the application, or will be. *)
LEMMA ErrorPushed ==
  ASSUME NEW s \in Session, NEW ev \in SUBSET Report, "Error" \in ev
  PROVE  Failed(Push(s, ev)) /\ Failed(Clean(Push(s, ev)))
<1>1. "Error" \in Push(s, ev).events
  BY PushFields
<1>2. Clean(Push(s, ev)).events = Push(s, ev).events
  BY DEF Clean, Push, Session
<1> QED BY <1>1, <1>2 DEF Failed

(* A registration for something the socket is ready for makes it pending.  *)
LEMMA RegisteredFields ==
  ASSUME NEW s \in Session, NEW interest \in SUBSET Interest, interest # {},
         s.link \in Established
  PROVE  /\ \A f \in {"stage", "rop", "wop", "retry", "unsent", "rbuf", "link", "inbox", "room",
                      "owed", "told", "inDelay", "events"} : Registered(s, interest)[f] = s[f]
         /\ "in" \in interest /\ s.inbox > 0 => Registered(s, interest).pend
         /\ "in" \in interest /\ s.link = "fin" => Registered(s, interest).pend
         /\ "out" \in interest /\ s.room > 0 => Registered(s, interest).pend
         /\ s.link = "broken" => Registered(s, interest).pend
         /\ s.room = 0 => Registered(s, interest).nospace
<1> DEFINE n == [s EXCEPT !.reg = interest]
           p == Deliverable(n) # {}
           q == n.nospace \/ n.room = 0
           m == [n EXCEPT !.pend = p, !.nospace = q]
<1>1. /\ n \in Session /\ n.reg = interest
      /\ \A f \in {"stage", "rop", "wop", "retry", "unsent", "rbuf", "link", "inbox", "room",
                   "owed", "told", "inDelay", "events"} : n[f] = s[f]
  BY DEF Session, Interest
<1>2. Registered(s, interest) = m
  BY <1>1 DEF Registered, Session
<1> HIDE DEF n
<1>3. /\ "in" \in interest /\ s.inbox > 0 => p
      /\ "in" \in interest /\ s.link = "fin" => p
      /\ "out" \in interest /\ s.room > 0 => p
      /\ s.link = "broken" => p
  BY <1>1 DEF Deliverable, ReadyFor, Established
<1>4. s.room = 0 => q
  BY <1>1
<1> HIDE DEF p, q
<1>5. /\ m.pend = p /\ m.nospace = q
      /\ \A f \in {"stage", "rop", "wop", "retry", "unsent", "rbuf", "link", "inbox", "room",
                   "owed", "told", "inDelay", "events"} : m[f] = n[f]
  BY <1>1 DEF Session
<1> HIDE DEF m
<1> QED BY <1>1, <1>2, <1>3, <1>4, <1>5

(* post_rest_write leaves output only where there was no room. *)
LEMMA RestWrittenFields ==
  ASSUME NEW s \in Session, s.stage = "ready",
         ~(s.link = "broken" /\ s.unsent > 0)
  PROVE  /\ \A f \in {"stage", "rop", "wop", "retry", "rbuf", "link", "inbox", "pend",
                      "owed", "told", "inDelay", "events"} : RestWritten(s)[f] = s[f]
         /\ RestWritten(s).unsent > 0 =>
              RestWritten(s).room = 0 /\ RestWritten(s).nospace /\ s.unsent > 0
<1>1. /\ s.unsent \in 0..MaxUnsent /\ s.room \in 0..SockRoom
      /\ MaxUnsent \in Nat /\ SockRoom \in Nat
  BY EpollSessionAssumption DEF Session
<1> DEFINE u == s.unsent - Sent(s)
           m == s.room - Sent(s)
           p == s.nospace \/ s.unsent > s.room
           n == [s EXCEPT !.unsent = u, !.room = m, !.nospace = p]
<1>2. RestWrittenValue(s) # -1
  BY DEF RestWrittenValue
<1>3. RestWritten(s) = n
  BY <1>2 DEF RestWritten, Session
<1>4. u > 0 => m = 0 /\ p /\ s.unsent > 0
  BY <1>1 DEF Sent, Lesser
<1> HIDE DEF u, m, p
<1>5. n.unsent = u /\ n.room = m /\ n.nospace = p
  BY DEF Session
<1>6. \A f \in {"stage", "rop", "wop", "retry", "rbuf", "link", "inbox", "pend",
                "owed", "told", "inDelay", "events"} : n[f] = s[f]
  BY DEF Session
<1> QED BY <1>3, <1>4, <1>5, <1>6

-----------------------------------------------------------------------------
(* A session for which an error was pushed is served: it was told. *)
LEMMA ToldServed ==
  ASSUME NEW s, NEW K, Failed(s)
  PROVE  Served(s, K)
BY DEF Served

(* Once told, always told: what the functions leave keeps an error. *)
LEMMA SameFailed ==
  ASSUME NEW s, NEW n, n.told = s.told, n.events = s.events
  PROVE  Failed(n) <=> Failed(s)
BY DEF Failed

(* post_rest_write: what it leaves unsent had no room. *)
LEMMA RestWrittenServed ==
  ASSUME NEW s, Sound(s), s.stage = "ready", s.unsent > 0 /\ ~s.inDelay => s.wop,
         ~(s.link = "broken" /\ s.unsent > 0)
  PROVE  LET n == RestWritten(s)
         IN  /\ n \in Session /\ n.stage = "ready" /\ n.link = s.link
             /\ Failed(n) <=> Failed(s)
             /\ \A K : /\ Sends(n, K)
                       /\ Announces(n) <=> Announces(s)
                       /\ Warned(n, K) <=> Warned(s, K)
                       /\ Rings(n, K) <=> Rings(s, K)
<1> DEFINE n == RestWritten(s)
<1>1. /\ \A f \in {"stage", "rop", "wop", "retry", "rbuf", "link", "inbox", "pend",
                   "owed", "told", "inDelay", "events"} : n[f] = s[f]
      /\ n.unsent > 0 => n.room = 0 /\ n.nospace /\ s.unsent > 0
      /\ n \in Session
  BY RestWrittenFields, RestWrittenSound DEF Sound, Goes
<1> HIDE DEF n
<1>3. n.link # "broken" \/ ~(n.unsent > 0)
  BY <1>1
<1>4. \A K : /\ Announces(n) <=> Announces(s)
             /\ Warned(n, K) <=> Warned(s, K)
             /\ Rings(n, K) <=> Rings(s, K)
  BY <1>1 DEF Announces, Warned, Rings, Edge
<1>5. \A K : Sends(n, K)
  BY <1>1, <1>3 DEF Sends, Session
<1>6. Failed(n) <=> Failed(s)
  BY <1>1, SameFailed
<1> QED BY <1>1, <1>4, <1>5, <1>6 DEF n

(* epoll_ctl_op ...                                                        *)
LEMMA CtlFields ==
  ASSUME NEW s, Sound(s), s.stage = "ready", s.link \in Established, NEW op \in Interest,
         NEW K, Announces(s) \/ op = "in"
  PROVE  LET c == CtlOp(s, op)
         IN  /\ \A f \in {"stage", "rop", "wop", "retry", "unsent", "rbuf", "link", "inbox",
                          "room", "owed", "told", "inDelay", "events"} : c[f] = s[f]
             /\ Warned(c, K) /\ Rings(c, K)
             /\ s.room = 0 => c.nospace
             /\ (op = "out" \/ s.wop) /\ s.room > 0 => c.pend
             /\ s.link = "broken" => c.pend
             /\ c \in Session
<1> DEFINE i == Believed(s) \cup {op}
           c == CtlOp(s, op)
<1>1. s \in Session /\ i \in SUBSET Interest /\ i # {} /\ "in" \in i
      /\ (op = "out" \/ s.wop => "out" \in i)
  BY DEF Sound, Believed, Interest, Announces
<1>2. c = Registered(s, i)
  BY DEF CtlOp
<1> HIDE DEF i
<1>3. c \in Session
  BY <1>1, <1>2, RegisteredType
<1>4. /\ \A f \in {"stage", "rop", "wop", "retry", "unsent", "rbuf", "link", "inbox", "room",
                   "owed", "told", "inDelay", "events"} : c[f] = s[f]
      /\ s.inbox > 0 => c.pend
      /\ s.link = "fin" => c.pend
      /\ "out" \in i /\ s.room > 0 => c.pend
      /\ s.link = "broken" => c.pend
      /\ s.room = 0 => c.nospace
  BY <1>1, <1>2, RegisteredFields
<1> HIDE DEF c
<1>5. Warned(c, K) /\ Rings(c, K)
  BY <1>4 DEF Warned, Rings, Edge
<1>6. (op = "out" \/ s.wop) /\ s.room > 0 => c.pend
  BY <1>1, <1>4
<1> QED BY <1>3, <1>4, <1>5, <1>6 DEF c

(* ... and post_write, for a session whose output nobody sends. *)
LEMMA PostWriteServed ==
  ASSUME NEW s, Sound(s), s.stage = "ready", s.link \in Established, NEW K,
         ~Failed(s) => Hears(s, K), NEW ok \in BOOLEAN
  PROVE  Served(PostWrite(s, ok), K) /\ PostWrite(s, ok).link = s.link
         /\ PostWrite(s, ok).stage = "ready"
<1>0. PostWrite(s, ok).stage = "ready"
  BY PostWriteSound
<1>1. s \in Session /\ s.unsent \in 0..MaxUnsent /\ MaxUnsent \in Nat
  BY EpollSessionAssumption DEF Sound, Session
<1>2. CASE s.wop
  <2>1. PostWrite(s, ok) = RestWritten(s)
    BY <1>2 DEF PostWrite
  <2>2. CASE s.link = "broken" /\ s.unsent > 0
    <3>1. RestWritten(s) = s
      BY <2>2 DEF RestWritten, RestWrittenValue
    <3>2. ~Failed(s) => Sends(s, K)
      BY <1>2, <2>2 DEF Sends, Hears, Warned, Edge
    <3> QED BY <2>1, <3>1, <3>2 DEF Served
  <2>3. CASE ~(s.link = "broken" /\ s.unsent > 0)
    <3>1. /\ RestWritten(s).link = s.link /\ RestWritten(s).told = s.told
          /\ RestWritten(s).events = s.events
      BY <1>1, <2>3, RestWrittenFields
    <3>2. Failed(RestWritten(s)) <=> Failed(s)
      BY <3>1, SameFailed
    <3>3. Served(RestWritten(s), K)
      <4>1. CASE Failed(s)
        BY <3>2, <4>1 DEF Served
      <4>2. CASE ~Failed(s)
        BY <1>2, <2>3, <4>2, RestWrittenServed DEF Served, Hears
      <4> QED BY <4>1, <4>2
    <3> QED BY <1>0, <2>1, <3>1, <3>3
  <2> QED BY <2>2, <2>3
<1>3. CASE ~s.wop /\ s.unsent = 0
  <2>1. PostWrite(s, ok) = s
    BY <1>3 DEF PostWrite
  <2>2. Sends(s, K)
    BY <1>3 DEF Sends
  <2> QED BY <2>1, <2>2 DEF Served
<1>4. CASE ~s.wop /\ s.unsent > 0 /\ (~ok \/ ~CtlPossible(s))
  <2>1. PostWrite(s, ok) = Clean(Push(s, {"Error"}))
    BY <1>1, <1>4 DEF PostWrite
  <2>2. Failed(Clean(Push(s, {"Error"})))
    BY <1>1, ErrorPushed DEF Report
  <2>3. Clean(Push(s, {"Error"})).link = s.link
    BY <1>1 DEF Clean, Push, Session
  <2> QED BY <1>0, <2>1, <2>2, <2>3 DEF Served
<1>5. CASE ~s.wop /\ s.unsent > 0 /\ ok /\ CtlPossible(s)
  <2> DEFINE c == CtlOp(s, "out")
             n == [c EXCEPT !.wop = TRUE]
  <2>1. PostWrite(s, ok) = n
    BY <1>1, <1>5 DEF PostWrite
  <2>2. ASSUME ~Failed(s)
        PROVE  Served(n, K)
    <3>1. Hears(s, K) /\ Announces(s)
      BY <2>2 DEF Hears
    <3>2. /\ \A f \in {"stage", "rop", "wop", "retry", "unsent", "rbuf", "link", "inbox",
                          "room", "owed", "told", "inDelay", "events"} : c[f] = s[f]
          /\ Warned(c, K) /\ Rings(c, K)
          /\ s.room = 0 => c.nospace
          /\ s.room > 0 => c.pend
          /\ s.link = "broken" => c.pend
          /\ c \in Session
      BY <3>1, CtlFields DEF Interest
    <3> HIDE DEF c
    <3>3. /\ n.wop
          /\ \A f \in {"stage", "rop", "retry", "unsent", "rbuf", "link", "inbox", "room", "pend",
                       "nospace", "owed", "told", "inDelay", "events"} : n[f] = c[f]
      BY <3>2 DEF Session
    <3> HIDE DEF n
    <3>4. Hears(n, K)
      BY <3>1, <3>2, <3>3 DEF Hears, Announces, Warned, Rings, Edge
    <3>5. Sends(n, K)
      BY <3>2, <3>3 DEF Sends, Edge
    <3> QED BY <3>4, <3>5 DEF Served
  <2>3. \A f \in {"stage", "link", "told", "events"} : n[f] = s[f]
    <3> DEFINE i == Believed(s) \cup {"out"}
    <3>1. i \in SUBSET Interest /\ i # {}
      BY DEF Believed, Interest
    <3>2. c = Registered(s, i)
      BY DEF CtlOp
    <3> HIDE DEF i
    <3>3. c \in Session /\ \A f \in {"stage", "link", "told", "events"} : c[f] = s[f]
      BY <1>1, <3>1, <3>2, RegisteredFields, RegisteredType
    <3> HIDE DEF c
    <3> QED BY <3>3 DEF Session
  <2> HIDE DEF n
  <2>4. Failed(n) <=> Failed(s)
    BY <2>3, SameFailed
  <2> QED BY <2>1, <2>2, <2>3, <2>4, ToldServed
<1> QED BY <1>0, <1>1, <1>2, <1>3, <1>4, <1>5

(* post_rest_read: what has arrived is announced, or its end is reported,  *)
(* unless the receive buffer is full.                                      *)
LEMMA RestReadServed ==
  ASSUME NEW s, Sound(s), s.stage = "ready", s.link \in Established, NEW K,
         ~Failed(s) => Announces(s) /\ Warned(s, K) /\ Sends(s, K)
  PROVE  /\ Served(RestRead(s), K) /\ RestRead(s).link = s.link
         /\ RestRead(s).retry => RestRead(s).rbuf > 0
<1> DEFINE b == s.rbuf + Received(s)
           i == s.inbox - Received(s)
           f == b = RecvCap
           r == [s EXCEPT !.rbuf = b, !.inbox = i, !.retry = f]
           p == IF Received(s) > 0 THEN Push(r, {"Read"}) ELSE r
           over == r.rbuf < RecvCap /\ s.link \in {"fin", "broken"}
<1>0. /\ s \in Session /\ s.rbuf \in 0..RecvCap /\ s.inbox \in 0..MaxInbox
      /\ RecvCap \in Nat \ {0} /\ MaxInbox \in Nat
  BY EpollSessionAssumption, NetServiceAssumption DEF Sound, Session
<1>1. /\ b \in 0..RecvCap /\ i \in 0..MaxInbox /\ f \in BOOLEAN
      /\ b < RecvCap => i = 0
      /\ f => b > 0
      /\ ~(b < RecvCap) => f
      /\ Received(s) > 0 \/ b = s.rbuf
  BY <1>0 DEF Received, Lesser
<1>2. RestRead(s) = IF over THEN Push(Clean(p), {"Error"}) ELSE p
  BY DEF RestRead
<1> HIDE DEF b, i, f
<1>3. /\ r \in Session /\ r.rbuf = b /\ r.inbox = i /\ r.retry = f
      /\ \A x \in {"stage", "rop", "wop", "unsent", "link", "room", "nospace", "pend",
                   "owed", "told", "inDelay", "events"} : r[x] = s[x]
  BY <1>0, <1>1 DEF Session
<1> HIDE DEF r
<1>4. /\ p \in Session /\ p.rbuf = b /\ p.inbox = i /\ p.retry = f /\ p.stage = "ready"
      /\ \A x \in {"rop", "wop", "unsent", "link", "room", "nospace", "pend",
                   "owed", "told", "inDelay"} : p[x] = s[x]
      /\ "Error" \in s.events <=> "Error" \in p.events
      /\ "Read" \in s.events => "Read" \in p.events
      /\ Received(s) > 0 => "Read" \in p.events
  <2>1. CASE Received(s) > 0
    <3>1. /\ Push(r, {"Read"}).events = r.events \cup {"Read"}
          /\ \A x \in {"rop", "wop", "retry", "unsent", "rbuf", "link", "inbox", "room",
                      "nospace", "pend", "owed", "told", "inDelay"} : Push(r, {"Read"})[x] = r[x]
      BY <1>3, PushFields DEF Report
    <3>2. Push(r, {"Read"}) \in Session /\ Push(r, {"Read"}).stage = "ready"
      BY <1>3 DEF Push, Session
    <3>3. p = Push(r, {"Read"})
      BY <2>1
    <3> HIDE DEF p
    <3> QED BY <1>3, <3>1, <3>2, <3>3
  <2>2. CASE ~(Received(s) > 0)
    BY <1>3, <2>2
  <2> QED BY <2>1, <2>2
<1> HIDE DEF p
<1>5. CASE over
  <2>1. Clean(p) \in Session /\ Clean(p).link = p.link /\ Clean(p).rbuf = p.rbuf
        /\ Clean(p).retry = p.retry
    BY <1>4 DEF Clean, Session
  <2>2. Failed(Push(Clean(p), {"Error"}))
    BY <2>1, ErrorPushed DEF Report
  <2>3. /\ Push(Clean(p), {"Error"}).link = s.link /\ Push(Clean(p), {"Error"}).rbuf = b
        /\ Push(Clean(p), {"Error"}).retry = f
    BY <1>4, <2>1, PushFields DEF Report
  <2>4. RestRead(s) = Push(Clean(p), {"Error"})
    BY <1>2, <1>5
  <2> QED BY <1>1, <2>2, <2>3, <2>4 DEF Served
<1>6. CASE ~over
  <2>1. RestRead(s) = p
    BY <1>2, <1>6
  <2>2. ASSUME ~Failed(p) PROVE Hears(p, K) /\ Sends(p, K)
    <3>1. ~Failed(s)
      BY <1>4, <2>2 DEF Failed
    <3>2. Announces(p)
      BY <1>1, <1>4, <3>1 DEF Announces
    <3>3. Warned(p, K)
      BY <1>4, <3>1 DEF Warned, Edge
    <3>4. Rings(p, K)
      <4>1. b < RecvCap => ~(p.inbox > 0 \/ p.link \in {"fin", "broken"})
        BY <1>1, <1>3, <1>4, <1>6
      <4>2. ~(b < RecvCap) => p.retry
        BY <1>1, <1>4
      <4> QED BY <4>1, <4>2 DEF Rings
    <3>5. Sends(p, K)
      BY <1>4, <3>1 DEF Sends, Edge
    <3> QED BY <3>2, <3>3, <3>4, <3>5 DEF Hears
  <2> QED BY <1>1, <1>4, <2>1, <2>2 DEF Served
<1> QED BY <1>5, <1>6

(* post_read: the first one registers, ... *)
LEMMA PostReadServed ==
  ASSUME NEW s, Sound(s), s.stage = "ready", s.link \in Established, NEW K, NEW ok \in BOOLEAN,
         ~Failed(s) => IF s.rop THEN Hears(s, K) /\ Sends(s, K)
                       ELSE s.rbuf = 0 /\ ~s.retry /\ s.unsent = 0
  PROVE  /\ Served(PostRead(s, ok), K) /\ PostRead(s, ok).link = s.link
         /\ ~Failed(PostRead(s, ok)) =>
              (PostRead(s, ok).retry => PostRead(s, ok).rbuf > 0)
<1>0. s \in Session
  BY DEF Sound
<1>1. CASE s.rop /\ s.retry
  <2>1. PostRead(s, ok) = RestRead(s)
    BY <1>1 DEF PostRead
  <2>2. ~Failed(s) => Announces(s) /\ Warned(s, K) /\ Sends(s, K)
    BY <1>1 DEF Hears
  <2> QED BY <2>1, <2>2, RestReadServed
<1>2. CASE s.rop /\ ~s.retry
  <2>1. PostRead(s, ok) = s
    BY <1>2 DEF PostRead
  <2> QED BY <1>2, <2>1 DEF Served
<1>3. CASE ~s.rop /\ (~ok \/ ~CtlPossible(s))
  <2>1. PostRead(s, ok) = Clean(Push(s, {"Read", "Error"}))
    BY <1>0, <1>3 DEF PostRead
  <2>2. Failed(Clean(Push(s, {"Read", "Error"})))
    BY <1>0, ErrorPushed DEF Report
  <2>3. Clean(Push(s, {"Read", "Error"})).link = s.link
    BY <1>0 DEF Clean, Push, Session
  <2> QED BY <2>1, <2>2, <2>3 DEF Served
<1>4. CASE ~s.rop /\ ok /\ CtlPossible(s)
  <2> DEFINE c == CtlOp(s, "in")
             n == [c EXCEPT !.rop = TRUE]
  <2>1. PostRead(s, ok) = n
    BY <1>0, <1>4 DEF PostRead
  <2>2. /\ \A f \in {"stage", "rop", "wop", "retry", "unsent", "rbuf", "link", "inbox",
                     "room", "owed", "told", "inDelay", "events"} : c[f] = s[f]
        /\ Warned(c, K) /\ Rings(c, K) /\ c \in Session
    BY CtlFields DEF Interest
  <2> HIDE DEF c
  <2>3. /\ n.rop
        /\ \A f \in {"stage", "wop", "retry", "unsent", "rbuf", "link", "inbox", "room", "pend",
                     "nospace", "owed", "told", "inDelay", "events"} : n[f] = c[f]
    BY <2>2 DEF Session
  <2> HIDE DEF n
  <2>4. Failed(n) <=> Failed(s)
    BY <2>2, <2>3, SameFailed
  <2>5. ASSUME ~Failed(n) PROVE Hears(n, K) /\ Sends(n, K) /\ ~n.retry
    <3>1. s.rbuf = 0 /\ ~s.retry /\ s.unsent = 0
      BY <1>4, <2>4, <2>5
    <3>2. Announces(n)
      BY <2>2, <2>3, <3>1 DEF Announces
    <3>3. Warned(n, K) /\ Rings(n, K)
      BY <2>2, <2>3 DEF Warned, Rings, Edge
    <3>4. Sends(n, K)
      BY <2>2, <2>3, <3>1 DEF Sends
    <3> QED BY <2>2, <2>3, <3>1, <3>2, <3>3, <3>4 DEF Hears
  <2> QED BY <2>1, <2>2, <2>3, <2>5 DEF Served
<1> QED BY <1>0, <1>1, <1>2, <1>3, <1>4

(* ... and net_socket_read takes one message; the application stops        *)
(* reading only when it has found the buffer empty.                        *)
LEMMA TakenServed ==
  ASSUME NEW r \in Session, NEW K, Served(r, K), r.stage = "ready",
         ~Failed(r) => (r.retry => r.rbuf > 0)
  PROVE  LET n == [r EXCEPT !.rbuf = IF @ > 0 THEN @ - 1 ELSE 0, !.owed = @ /\ r.rbuf > 0]
         IN  Served(n, K) /\ n.link = r.link /\ n.stage = "ready"
<1> DEFINE b == IF r.rbuf > 0 THEN r.rbuf - 1 ELSE 0
           o == r.owed /\ r.rbuf > 0
           n == [r EXCEPT !.rbuf = b, !.owed = o]
<1>1. [r EXCEPT !.rbuf = IF @ > 0 THEN @ - 1 ELSE 0, !.owed = @ /\ r.rbuf > 0] = n
  BY DEF Session
<1>2. /\ b > 0 => r.rbuf > 0
      /\ r.rbuf > 0 => (o <=> r.owed)
  BY EpollSessionAssumption DEF Session
<1> HIDE DEF b, o
<1>3. /\ n.rbuf = b /\ n.owed = o
      /\ \A f \in {"stage", "rop", "wop", "retry", "unsent", "link", "inbox", "room", "pend",
                   "nospace", "told", "inDelay", "events"} : n[f] = r[f]
  BY DEF Session
<1> HIDE DEF n
<1>4. ASSUME ~Failed(n) PROVE Hears(n, K) /\ Sends(n, K)
  <2>1. Hears(r, K) /\ Sends(r, K) /\ (r.retry => r.rbuf > 0)
    BY <1>3, <1>4 DEF Served, Failed
  <2>2. Announces(n)
    BY <1>2, <1>3, <2>1 DEF Hears, Announces
  <2>3. Warned(n, K) /\ Rings(n, K) /\ Sends(n, K)
    BY <1>3, <2>1 DEF Hears, Warned, Rings, Sends, Edge
  <2> QED BY <2>2, <2>3 DEF Hears
<1> QED BY <1>1, <1>3, <1>4 DEF Served

-----------------------------------------------------------------------------
(* handle_session: the event it handles is no longer in hand. *)
LEMMA WrittenServed ==
  ASSUME NEW s, Sound(s), s.stage = "ready", NEW K, NEW ev \in SUBSET Events,
         "err" \notin ev, Served(s, K \cup ev)
  PROVE  LET w == Written(s, ev)
         IN  /\ Sound(w) /\ w.stage = "ready" /\ w.link = s.link
             /\ ~Failed(w) => /\ Announces(w) /\ Warned(w, K)
                              /\ Rings(w, K \cup ev) /\ Sends(w, K)
<1>0. s \in Session
  BY DEF Sound
<1>1. CASE "out" \notin ev
  <2>1. Written(s, ev) = s
    BY <1>1 DEF Written
  <2>2. Sends(s, K \cup ev) => Sends(s, K)
    BY <1>1 DEF Sends, Edge
  <2>3. Warned(s, K \cup ev) => Warned(s, K)
    BY DEF Warned, Edge
  <2> QED BY <2>1, <2>2, <2>3 DEF Served, Hears
<1>2. CASE "out" \in ev /\ s.link = "broken" /\ s.unsent > 0
  <2>1. Written(s, ev) = Push(Clean(s), {"Error"})
    BY <1>2 DEF Written, RestWrittenValue
  <2>2. Sound(Clean(s)) /\ Clean(s).stage = "ready" /\ Clean(s).link = s.link
        /\ Clean(s) \in Session
    BY <1>0, CleanSound, CleanFields DEF Sound
  <2>3. /\ Failed(Push(Clean(s), {"Error"}))
        /\ Sound(Push(Clean(s), {"Error"})) /\ Push(Clean(s), {"Error"}).stage = "ready"
        /\ Push(Clean(s), {"Error"}).link = s.link
    BY <2>2, ErrorPushed, PushSound, PushFields DEF Report, Goes
  <2> QED BY <2>1, <2>3
<1>3. CASE "out" \in ev /\ ~(s.link = "broken" /\ s.unsent > 0)
  <2>1. Written(s, ev) = RestWritten(s)
    BY <1>3, EpollSessionAssumption DEF Written, RestWrittenValue
  <2>2. CASE Failed(s)
    <3>1. RestWritten(s).told = s.told /\ RestWritten(s).events = s.events
          /\ RestWritten(s).link = s.link
      BY <1>0, <1>3, RestWrittenFields
    <3>2. Failed(RestWritten(s))
      BY <2>2, <3>1, SameFailed
    <3> QED BY <2>1, <3>1, <3>2, RestWrittenSound DEF Goes
  <2>3. CASE ~Failed(s)
    <3>1. s.unsent > 0 /\ ~s.inDelay => s.wop
      BY <2>3 DEF Served, Sends
    <3>2. Hears(s, K \cup ev)
      BY <2>3 DEF Served
    <3>3. Warned(s, K \cup ev) => Warned(s, K)
      BY DEF Warned, Edge
    <3>4. /\ RestWritten(s).stage = "ready" /\ RestWritten(s).link = s.link
          /\ Sends(RestWritten(s), K)
          /\ Announces(RestWritten(s)) <=> Announces(s)
          /\ Warned(RestWritten(s), K) <=> Warned(s, K)
          /\ Rings(RestWritten(s), K \cup ev) <=> Rings(s, K \cup ev)
      BY <1>3, <3>1, RestWrittenServed
    <3>5. Sound(RestWritten(s))
      BY RestWrittenSound DEF Goes
    <3> QED BY <2>1, <3>2, <3>3, <3>4, <3>5 DEF Hears
  <2> QED BY <2>2, <2>3
<1> QED BY <1>1, <1>2, <1>3

(* handle_session uses the events it was handed: the others remain. *)
LEMMA HandleServed ==
  ASSUME NEW s, Sound(s), s.stage \in Open4, NEW K, NEW ev \in SUBSET Events,
         Linked(s, K \cup ev), Served(s, K \cup ev)
  PROVE  Linked(HandleSession(s, ev), K) /\ Served(HandleSession(s, ev), K)
<1> DEFINE n == HandleSession(s, ev)
<1>0. s \in Session
  BY DEF Sound
<1>1. Goes(s, n)
  BY HandleSound DEF Open4, Events
<1>2. ASSUME NEW e \in SUBSET Report, n = Push(Clean(s), e), "Error" \in e \/ s.stage = "connect",
             s.stage = "connect" => s.link \in Established
      PROVE  Linked(n, K) /\ Served(n, K)
  <2>1. /\ Clean(s) \in Session /\ Clean(s).link = s.link /\ Clean(s).rbuf = s.rbuf
        /\ Clean(s).retry = s.retry
    BY <1>0, CleanSound, CleanFields DEF Sound
  <2>2. n.link = s.link /\ n.rbuf = s.rbuf /\ n.retry = s.retry
    BY <1>2, <2>1, PushFields
  <2>3. Linked(n, K)
    BY <1>1, <1>2, <2>2 DEF Linked, Goes, Onward, Open4
  <2>4. CASE "Error" \in e
    <3>1. Failed(n)
      BY <1>2, <2>1, <2>4, ErrorPushed
    <3> QED BY <2>3, <3>1 DEF Served
  <2>5. CASE s.stage = "connect"
    BY <1>1, <2>3, <2>5 DEF Served, Goes, Onward
  <2> QED BY <1>2, <2>4, <2>5
<1>3. CASE s.stage = "listen"
  <2>1. n = Push(s, {"Accept"})
    BY <1>3 DEF HandleSession
  <2>2. n.rbuf = s.rbuf /\ n.retry = s.retry
    BY <1>0, <2>1, PushFields DEF Report
  <2>3. n.stage = "listen"
    BY <1>1, <1>3 DEF Goes, Onward
  <2> QED BY <1>3, <2>2, <2>3 DEF Linked, Served
<1>4. CASE s.stage # "listen" /\ "err" \in ev
  <2>1. n = Push(Clean(s), ConnectFlag(s) \cup {"Error"})
    BY <1>4 DEF HandleSession
  <2>2. ConnectFlag(s) \cup {"Error"} \in SUBSET Report
    BY DEF ConnectFlag, Report
  <2>3. s.stage = "connect" => s.link \in Established
    BY <1>4 DEF Linked
  <2> QED BY <1>2, <2>1, <2>2, <2>3
<1>5. CASE s.stage = "connect" /\ "err" \notin ev
  <2>1. CASE "out" \notin ev
    BY <1>5, <2>1 DEF HandleSession, Linked, Served
  <2>2. CASE "out" \in ev
    <3> DEFINE e == {"Connect"} \cup IF s.link = "broken" THEN {"Error"} ELSE {}
    <3>1. n = Push(Clean(s), e) /\ e \in SUBSET Report
      BY <1>5, <2>2 DEF HandleSession, Report
    <3>2. s.link \in Established
      BY <1>5, <2>2 DEF Linked
    <3> QED BY <1>2, <1>5, <3>1, <3>2
  <2> QED BY <2>1, <2>2
<1>6. CASE s.stage = "plain" /\ "err" \notin ev
  <2>1. n = Transferred(s, ev)
    BY <1>6 DEF HandleSession
  <2>2. CASE "out" \notin ev
    <3>1. n = s
      BY <1>6, <2>1, <2>2 DEF Transferred, Written
    <3> QED BY <1>6, <3>1 DEF Linked, Served
  <2>3. CASE "out" \in ev
    <3>1. Written(s, ev) = Push(Clean(s), {"Error"})
      BY <1>6, <2>3 DEF Written, RestWrittenValue
    <3>2. Push(Clean(s), {"Error"}).stage = "plain"
      BY <1>0, <1>6, CleanSound, PushSound DEF Report
    <3>3. n = Push(Clean(s), {"Error"})
      BY <2>1, <3>1, <3>2 DEF Transferred
    <3> QED BY <1>2, <1>6, <3>3 DEF Report
  <2> QED BY <2>2, <2>3
<1>7. CASE s.stage = "ready" /\ "err" \notin ev
  <2> DEFINE w == Written(s, ev)
  <2>1. n = IF "in" \in ev /\ w.stage = "ready" THEN RestRead(w) ELSE w
    BY <1>7 DEF HandleSession, Transferred
  <2>2. /\ Sound(w) /\ w.stage = "ready" /\ w.link = s.link
        /\ ~Failed(w) => /\ Announces(w) /\ Warned(w, K)
                         /\ Rings(w, K \cup ev) /\ Sends(w, K)
    BY <1>7, WrittenServed
  <2>3. s.link \in Established
    BY <1>7 DEF Linked
  <2> HIDE DEF w
  <2>4. CASE "in" \in ev
    <3>1. Served(RestRead(w), K) /\ RestRead(w).link = w.link
      BY <2>2, <2>3, RestReadServed
    <3>2. RestRead(w).stage = "ready"
      BY <2>2, RestReadSound
    <3> QED BY <2>1, <2>2, <2>3, <2>4, <3>1, <3>2 DEF Linked
  <2>5. CASE "in" \notin ev
    <3>1. Rings(w, K \cup ev) => Rings(w, K)
      BY <1>7, <2>5 DEF Rings, Edge
    <3> QED BY <2>1, <2>2, <2>3, <2>5, <3>1 DEF Linked, Served, Hears
  <2> QED BY <2>4, <2>5
<1> QED BY <1>3, <1>4, <1>5, <1>6, <1>7 DEF Open4

-----------------------------------------------------------------------------
(* What the application does before or after: net_socket_write, net_delay, *)
(* net_queue.                                                              *)
LEMMA AddedServed ==
  ASSUME NEW s, Sound(s), s.stage = "ready", s.link \in Established, NEW K, Served(s, K),
         NEW ok \in BOOLEAN
  PROVE  LET n == [s EXCEPT !.unsent = Lesser(@ + 1, MaxUnsent)]
         IN  /\ Served(PostWrite(n, ok), K) /\ PostWrite(n, ok).link = s.link
             /\ PostWrite(n, ok).stage = "ready"
<1> DEFINE n == [s EXCEPT !.unsent = Lesser(@ + 1, MaxUnsent)]
<1>1. \A f \in {"stage", "rop", "wop", "retry", "rbuf", "link", "inbox", "pend",
                "owed", "told", "inDelay", "events"} : n[f] = s[f]
  BY DEF Sound, Session
<1>2. Sound(n)
  BY AddedSound DEF Goes
<1> HIDE DEF n
<1>3. ~Failed(n) => Hears(n, K)
  BY <1>1 DEF Failed, Served, Hears, Announces, Warned, Rings, Edge
<1>4. Served(PostWrite(n, ok), K) /\ PostWrite(n, ok).link = n.link
      /\ PostWrite(n, ok).stage = "ready"
  BY <1>1, <1>2, <1>3, PostWriteServed
<1> QED BY <1>1, <1>4 DEF n

(* Delayed output has inDelay to answer for it. *)
LEMMA LaterServed ==
  ASSUME NEW s \in Session, s.stage = "ready", NEW K, Served(s, K)
  PROVE  LET n == [s EXCEPT !.unsent = Lesser(@ + 1, MaxUnsent), !.inDelay = TRUE]
         IN  Served(n, K) /\ n.link = s.link /\ n.stage = "ready"
<1> DEFINE n == [s EXCEPT !.unsent = Lesser(@ + 1, MaxUnsent), !.inDelay = TRUE]
<1>1. /\ n.inDelay
      /\ \A f \in {"stage", "rop", "wop", "retry", "rbuf", "link", "inbox", "pend",
                   "owed", "told", "events"} : n[f] = s[f]
  BY DEF Session
<1> HIDE DEF n
<1>2. ~Failed(n) => Hears(n, K) /\ Sends(n, K)
  BY <1>1 DEF Failed, Served, Hears, Announces, Warned, Rings, Sends, Edge
<1> QED BY <1>1, <1>2 DEF Served, n

(* net_delay: post_write answers for the output that was delayed. *)
LEMMA UndelayedServed ==
  ASSUME NEW s, Sound(s), s.stage \in Open4, NEW K, Linked(s, K), Served(s, K),
         NEW ok \in BOOLEAN
  PROVE  LET n == PostWrite(Undelayed(s), ok)
         IN  Linked(n, K) /\ Served(n, K)
<1> DEFINE u == Undelayed(s)
<1>1. \A f \in {"stage", "rop", "wop", "retry", "rbuf", "link", "inbox", "pend",
                "owed", "told", "events"} : u[f] = s[f]
  BY DEF Undelayed, Sound, Session
<1>2. Sound(u)
  BY UndelayedSound
<1> HIDE DEF u
<1>3. CASE s.stage = "ready"
  <2>1. ~Failed(u) => Hears(u, K)
    BY <1>1, <1>3 DEF Failed, Served, Hears, Announces, Warned, Rings, Edge
  <2>2. s.link \in Established
    BY <1>3 DEF Linked
  <2>3. Served(PostWrite(u, ok), K) /\ PostWrite(u, ok).link = u.link
        /\ PostWrite(u, ok).stage = "ready"
    BY <1>1, <1>2, <1>3, <2>1, <2>2, PostWriteServed
  <2> QED BY <1>1, <2>2, <2>3 DEF Linked, u
<1>4. CASE s.stage # "ready"
  <2>1. PostWrite(u, ok) = u
    BY <1>1, <1>2, <1>4, PostWriteSound DEF Open4
  <2> QED BY <1>1, <1>4, <2>1 DEF Linked, Served, u
<1> QED BY <1>3, <1>4

(* net_queue: what was reported is now owed to the socket. *)
LEMMA ReportedServed ==
  ASSUME NEW s, Sound(s), NEW K, Linked(s, K), Served(s, K)
  PROVE  Linked(Reported(s), K) /\ Served(Reported(s), K) /\ Reported(s).link = s.link
<1> DEFINE n == Reported(s)
<1>1. /\ n.owed = (s.owed \/ "Read" \in s.events)
      /\ n.told = (s.told \/ "Error" \in s.events)
      /\ \A f \in {"stage", "rop", "wop", "retry", "rbuf", "link", "inbox", "pend", "room",
                   "unsent", "inDelay", "nospace"} : n[f] = s[f]
  BY DEF Reported, Sound, Session
<1> HIDE DEF n
<1>2. Linked(n, K)
  BY <1>1 DEF Linked
<1>3. ~Failed(n) => ~Failed(s)
  BY <1>1 DEF Failed
<1>4. Hears(s, K) /\ Sends(s, K) => Hears(n, K) /\ Sends(n, K)
  BY <1>1 DEF Hears, Announces, Warned, Rings, Sends, Edge
<1> QED BY <1>1, <1>2, <1>3, <1>4 DEF Served, n

(* net_wait: what was pending comes into a thread's hands. *)
LEMMA FetchedServed ==
  ASSUME NEW s, Sound(s), NEW K, Linked(s, K), Served(s, K)
  PROVE  LET n == [s EXCEPT !.pend = FALSE]
             L == K \cup Deliverable(s)
         IN  Linked(n, L) /\ Served(n, L) /\ n.link = s.link
<1> DEFINE n == [s EXCEPT !.pend = FALSE]
           L == K \cup Deliverable(s)
<1>0. \A f \in {"stage", "rop", "wop", "retry", "rbuf", "link", "inbox", "room",
                "unsent", "inDelay", "nospace", "owed", "told", "events"} : n[f] = s[f]
  BY DEF Sound, Session
<1> HIDE DEF n
<1>1. Linked(n, L)
  <2>1. Deliverable(s) \cap {"out", "err"} # {} => s.link \in Established
    BY DEF Deliverable, ReadyFor, Established
  <2> QED BY <1>0, <2>1 DEF Linked
<1>2. ASSUME n.stage = "ready", ~Failed(n)
      PROVE  Hears(n, L) /\ Sends(n, L)
  <2>1. s.stage = "ready" /\ Hears(s, K) /\ Sends(s, K) /\ s.link \in Established
    BY <1>0, <1>2 DEF Served, Linked, Failed
  <2>2. s.reg = Believed(s) /\ "in" \in s.reg /\ (s.wop => "out" \in s.reg)
    BY <2>1 DEF Sound, Believed, Hears, Announces
  <2>3. /\ s.inbox > 0 \/ s.link \in {"fin", "broken"} => "in" \in Deliverable(s)
        /\ s.link = "broken" => "err" \in Deliverable(s)
        /\ s.wop /\ (s.link = "broken" \/ s.room > 0) => "out" \in Deliverable(s)
    BY <2>1, <2>2 DEF Deliverable, ReadyFor, Established
  <2>4. Announces(n)
    BY <1>0, <2>1 DEF Hears, Announces
  <2>5. Warned(n, L) /\ Rings(n, L)
    BY <1>0, <2>3 DEF Warned, Rings, Edge
  <2>6. Sends(n, L)
    BY <1>0, <2>1, <2>3 DEF Sends, Edge
  <2> QED BY <2>4, <2>5, <2>6 DEF Hears
<1> QED BY <1>0, <1>1, <1>2 DEF Served, n

(* The kernel: whatever happens to a connection makes it pending. *)
LEMMA NotifiedServed ==
  ASSUME NEW s, Sound(s), NEW K, Linked(s, K), Served(s, K), NEW m \in Session,
         \A f \in {"stage", "rop", "wop", "retry", "rbuf", "reg", "room", "pend",
                   "unsent", "inDelay", "nospace", "owed", "told", "events"} : m[f] = s[f],
         s.link \in Established => m.link \in Established,
         m.link # "broken" => s.link # "broken",
         NEW event \in {"in", "err"}
  PROVE  Linked(Notified(m, event), K) /\ Served(Notified(m, event), K)
<1> DEFINE p == m.pend \/ (m.reg # {} /\ event \in m.reg \cup {"err"})
           n == [m EXCEPT !.pend = p]
<1>1. Notified(m, event) = n
  BY DEF Notified, Session
<1>2. p <=> s.pend \/ (s.reg # {} /\ event \in s.reg \cup {"err"})
  OBVIOUS
<1> HIDE DEF p
<1>3. /\ n.pend = p
      /\ \A f \in {"stage", "rop", "wop", "retry", "rbuf", "room", "link", "inbox",
                   "unsent", "inDelay", "nospace", "owed", "told", "events"} : n[f] = m[f]
  BY DEF Session
<1> HIDE DEF n
<1>4. Linked(n, K)
  BY <1>3 DEF Linked
<1>5. ASSUME n.stage = "ready", ~Failed(n)
      PROVE  Hears(n, K) /\ Sends(n, K)
  <2>1. s.stage = "ready" /\ Announces(s) /\ Sends(s, K)
    BY <1>3, <1>5 DEF Served, Failed, Hears
  <2>2. p
    BY <1>2, <2>1 DEF Sound, Believed, Announces
  <2>3. Announces(n)
    BY <1>3, <2>1 DEF Announces
  <2>4. Warned(n, K) /\ Rings(n, K)
    BY <1>3, <2>2 DEF Warned, Rings, Edge
  <2>5. Sends(n, K)
    BY <1>3, <2>1, <2>2 DEF Sends, Edge
  <2> QED BY <2>3, <2>4, <2>5 DEF Hears
<1> QED BY <1>1, <1>4, <1>5 DEF Served

(* A connection that is established is not yet served. *)
LEMMA ConnectedServed ==
  ASSUME NEW s, Sound(s), NEW K, Linked(s, K), s.link = "connecting"
  PROVE  LET n == Notified([s EXCEPT !.link = "up"], "out")
         IN  Linked(n, K) /\ Served(n, K) /\ n.link = "up"
<1> DEFINE m == [s EXCEPT !.link = "up"]
           n == Notified(m, "out")
<1>1. /\ m \in Session /\ m.link = "up"
      /\ \A f \in {"stage", "rbuf", "retry"} : m[f] = s[f]
  BY DEF Sound, Session
<1> HIDE DEF m
<1>2. \A f \in {"stage", "rbuf", "retry", "link"} : n[f] = m[f]
  BY <1>1 DEF Notified, Session
<1> HIDE DEF n
<1>3. s.stage # "ready"
  BY DEF Linked, Established
<1> QED BY <1>1, <1>2, <1>3 DEF Linked, Served, Established, n, m

(* The kernel gets output across, and says so after a refused send. *)
LEMMA DrainedServed ==
  ASSUME NEW s, Sound(s), NEW K, Linked(s, K), Served(s, K), s.link \in {"up", "fin"},
         s.room < SockRoom
  PROVE  LET m == [s EXCEPT !.room = @ + 1, !.nospace = FALSE]
             n == IF s.nospace THEN Notified(m, "out") ELSE m
         IN  Linked(n, K) /\ Served(n, K) /\ n.link = s.link
<1> DEFINE m == [s EXCEPT !.room = @ + 1, !.nospace = FALSE]
           p == s.pend \/ (s.nospace /\ s.reg # {} /\ "out" \in s.reg \cup {"err"})
           n == IF s.nospace THEN Notified(m, "out") ELSE m
<1>1. /\ \A f \in {"stage", "rop", "wop", "retry", "rbuf", "reg", "pend", "link", "inbox",
                   "unsent", "inDelay", "owed", "told", "events"} : m[f] = s[f]
      /\ m.room = s.room + 1 /\ s.room \in Nat /\ m \in Session
  <2>1. s.room + 1 \in 0..SockRoom /\ s.room \in Nat
    BY EpollSessionAssumption DEF Sound, Session
  <2> QED BY <2>1 DEF Sound, Session
<1> HIDE DEF m
<1>2. /\ n.pend <=> p
      /\ \A f \in {"stage", "rop", "wop", "retry", "rbuf", "link", "inbox",
                   "unsent", "inDelay", "owed", "told", "events"} : n[f] = s[f]
  <2>1. CASE s.nospace
    <3> DEFINE q == m.pend \/ (m.reg # {} /\ "out" \in m.reg \cup {"err"})
    <3>1. n = [m EXCEPT !.pend = q]
      BY <1>1, <2>1 DEF Notified, Session
    <3>2. q <=> p
      BY <1>1, <2>1
    <3> HIDE DEF q, n, p
    <3> QED BY <1>1, <3>1, <3>2 DEF Session
  <2>2. CASE ~s.nospace
    BY <1>1, <2>2
  <2> QED BY <2>1, <2>2
<1> HIDE DEF n, p
<1>3. Linked(n, K)
  BY <1>2 DEF Linked
<1>4. ASSUME n.stage = "ready", ~Failed(n)
      PROVE  Hears(n, K) /\ Sends(n, K)
  <2>1. s.stage = "ready" /\ Hears(s, K) /\ Sends(s, K)
    BY <1>2, <1>4 DEF Served, Failed
  <2>2. s.pend => n.pend
    BY <1>2 DEF p
  <2>3. Hears(n, K)
    BY <1>2, <2>1, <2>2 DEF Hears, Announces, Warned, Rings, Edge
  <2>4. n.unsent > 0 /\ ~n.inDelay => n.wop /\ Edge(n, K, {"out", "err"})
    <3> SUFFICES ASSUME n.unsent > 0, ~n.inDelay PROVE n.wop /\ Edge(n, K, {"out", "err"})
      OBVIOUS
    <3>1. s.wop /\ (s.room = 0 => s.nospace) /\ (s.room > 0 => Edge(s, K, {"out", "err"}))
      BY <1>2, <2>1 DEF Sends
    <3>2. CASE s.nospace
      <4>1. "out" \in s.reg
        BY <2>1, <3>1 DEF Sound, Believed
      <4> QED BY <1>2, <3>1, <3>2, <4>1 DEF p, Edge
    <3>3. CASE ~s.nospace
      BY <1>2, <2>2, <3>1, <3>3, EpollSessionAssumption DEF Edge, Sound, Session
    <3> QED BY <3>2, <3>3
  <2>5. n.link # "broken" /\ n.room # 0
    <3>1. n.room = m.room
      BY <1>1 DEF Notified, Session, n
    <3> QED BY <1>1, <1>2, <3>1
  <2> QED BY <2>3, <2>4, <2>5 DEF Sends
<1> QED BY <1>2, <1>3, <1>4 DEF Served, n, m

-----------------------------------------------------------------------------
(* What a step does to a session and to the events in hand for it.         *)
FlowOn(x) ==
  \/ sess'[x] = sess[x] /\ InHand(x)' = InHand(x)
  \/ /\ Linked(sess'[x], InHand(x)') /\ Served(sess'[x], InHand(x)')
     /\ sess'[x].stage # "new" \/ (sess[x].link \in Established =>
                                     sess'[x].link \in Established)

(* No call publishes what it did not already have. *)
NoneTaken == \A a \in AppThreads : app'[a] = app[a] \/ app'[a].at # "publish"

(* A step that keeps each session served keeps all of them served. *)
LEMMA FlowStep ==
  ASSUME IInv, IInv', Flows, Accepting, NoneTaken, \A x \in Ticket : FlowOn(x)
  PROVE  Flows' /\ Accepting'
<1>1. Flows'
  BY DEF Flows, FlowOn
<1>2. Accepting'
  <2> SUFFICES ASSUME NEW a \in AppThreads, app'[a].at = "publish", app'[a].kind = "plain"
               PROVE  sess'[app'[a].id].link \in Established
    BY DEF Accepting
  <2>1. app'[a] = app[a]
    BY DEF NoneTaken
  <2>2. app[a].id \in Ticket /\ sess'[app[a].id].stage = "new"
    BY <2>1 DEF IInv, Calls, Pool, Owns, Before
  <2>3. sess[app[a].id].link \in Established
    BY <2>1 DEF Accepting
  <2> QED BY <2>1, <2>2, <2>3 DEF FlowOn
<1> QED BY <1>1, <1>2

(* Events in hand, before and after. *)
LEMMA HandSame ==
  ASSUME \A t \in IoThreads : io'[t].todo = io[t].todo
  PROVE  \A x : InHand(x)' = InHand(x)
BY DEF InHand

(* An I/O thread has done with an event. *)
LEMMA HandLess ==
  ASSUME IInv, NEW t \in IoThreads, NEW e \in io[t].todo,
         io'[t].todo = io[t].todo \ {e}, \A u \in IoThreads \ {t} : io'[u] = io[u]
  PROVE  \A x : IF x = e.id THEN InHand(x) = InHand(x)' \cup e.ev
                ELSE InHand(x)' = InHand(x)
<1>1. e.ev \in SUBSET Events
  BY TodoType DEF Events
<1> QED BY <1>1 DEF InHand

(* A session changes, and nothing in hand. *)
LEMMA OneFlows ==
  ASSUME IInv, NEW id \in Ticket, NEW n, sess' = [sess EXCEPT ![id] = n],
         \A t \in IoThreads : io'[t].todo = io[t].todo,
         Linked(n, InHand(id)), Served(n, InHand(id)),
         n.stage # "new" \/ (sess[id].link \in Established => n.link \in Established)
  PROVE  \A x \in Ticket : FlowOn(x)
<1>1. sess'[id] = n /\ \A x \in Ticket \ {id} : sess'[x] = sess[x]
  BY DEF IInv, Typed
<1>2. \A x : InHand(x)' = InHand(x)
  BY HandSame
<1>3. FlowOn(id)
  BY <1>1, <1>2 DEF FlowOn
<1>4. \A x \in Ticket \ {id} : FlowOn(x)
  BY <1>1, <1>2 DEF FlowOn
<1> QED BY <1>3, <1>4

(* No session changes, and nothing in hand. *)
LEMMA NothingFlows ==
  ASSUME UNCHANGED sess, \A t \in IoThreads : io'[t].todo = io[t].todo
  PROVE  \A x \in Ticket : FlowOn(x)
BY HandSame DEF FlowOn

-----------------------------------------------------------------------------
(* Steps under the lock of the slot of an open session. *)
LEMMA SectionFlows ==
  ASSUME IInv, NEW id \in Ticket, NEW n, Section(id), Becomes(id, n),
         n.stage = "ready", n.link \in Established, Served(n, InHand(id))
  PROVE  NoneTaken /\ \A x \in Ticket : FlowOn(x)
<1>1. Linked(n, InHand(id))
  BY DEF Linked
<1>2. sess' = [sess EXCEPT ![id] = n] /\ UNCHANGED <<app, io>>
  BY DEF Section, Becomes
<1> QED BY <1>1, <1>2, OneFlows DEF NoneTaken

(* net_socket_cfg *)
LEMMA CfgFlows ==
  ASSUME IInv, Flows, NEW slot \in Slot, Cfg(slot)
  PROVE  NoneTaken /\ \A x \in Ticket : FlowOn(x)
<1> DEFINE id == table[slot]
           s == sess[id]
           m == [s EXCEPT !.stage = "ready"]
<1>1. id \in Ticket /\ Section(id) /\ s.stage = "plain"
  BY DEF IInv, Typed, Cfg
<1>2. /\ Sound(s) /\ Linked(s, InHand(id))
  BY <1>1 DEF IInv, Sounds, Flows
<1>3. PICK ok \in BOOLEAN : Becomes(id, PostRead(m, ok))
  BY NetServiceAssumption DEF Cfg
<1>4. /\ m \in Session /\ m.stage = "ready"
      /\ \A f \in {"rop", "wop", "retry", "rbuf", "link", "unsent", "reg"} : m[f] = s[f]
  BY <1>2 DEF Sound, Session
<1> HIDE DEF m
<1>5. Sound(m) /\ ~m.rop /\ m.rbuf = 0 /\ ~m.retry /\ m.unsent = 0 /\ m.link \in Established
  BY <1>1, <1>2, <1>4 DEF Sound, Believed, Linked
<1>6. /\ Served(PostRead(m, ok), InHand(id)) /\ PostRead(m, ok).link = m.link
      /\ PostRead(m, ok).stage = "ready"
  BY <1>4, <1>5, PostReadServed, PostReadSound
<1> QED BY <1>1, <1>3, <1>5, <1>6, SectionFlows

(* net_socket_read *)
LEMMA ReadFlows ==
  ASSUME IInv, Flows, NEW id \in Ticket, Read(id)
  PROVE  NoneTaken /\ \A x \in Ticket : FlowOn(x)
<1> DEFINE s == sess[id]
<1>1. PICK ok \in BOOLEAN :
        Becomes(id, [PostRead(s, ok) EXCEPT !.rbuf = IF @ > 0 THEN @ - 1 ELSE 0,
                                 !.owed = @ /\ PostRead(s, ok).rbuf > 0])
  BY NetServiceAssumption DEF Read
<1> DEFINE r == PostRead(s, ok)
           n == [r EXCEPT !.rbuf = IF @ > 0 THEN @ - 1 ELSE 0, !.owed = @ /\ r.rbuf > 0]
<1>2. Sound(s) /\ s.stage = "ready" /\ Section(id) /\ s.link \in Established
      /\ Served(s, InHand(id))
  BY DEF Read, IInv, Sounds, Flows, Linked
<1>3. ~Failed(s) => Hears(s, InHand(id)) /\ Sends(s, InHand(id)) /\ s.rop
  BY <1>2 DEF Served, Hears, Announces
<1>4. /\ Served(r, InHand(id)) /\ r.link = s.link
      /\ ~Failed(r) => (r.retry => r.rbuf > 0)
  BY <1>2, <1>3, PostReadServed
<1>5. r \in Session /\ r.stage = "ready"
  BY <1>2, PostReadSound DEF Goes, Sound
<1>6. Becomes(id, n)
  BY <1>1
<1> HIDE DEF r
<1>7. Served(n, InHand(id)) /\ n.link = r.link /\ n.stage = "ready"
  BY <1>4, <1>5, TakenServed
<1> HIDE DEF n
<1> QED BY <1>2, <1>4, <1>6, <1>7, SectionFlows

(* net_socket_write *)
LEMMA WriteFlows ==
  ASSUME IInv, Flows, NEW id \in Ticket, WriteNow(id) \/ WriteLater(id)
  PROVE  NoneTaken /\ \A x \in Ticket : FlowOn(x)
<1> DEFINE s == sess[id]
<1>1. Sound(s) /\ s.stage = "ready" /\ Section(id) /\ s.link \in Established
      /\ Served(s, InHand(id))
  BY DEF WriteNow, WriteLater, IInv, Sounds, Flows, Linked
<1>2. CASE WriteNow(id)
  <2> DEFINE u == [s EXCEPT !.unsent = Lesser(@ + 1, MaxUnsent)]
  <2>1. PICK ok \in BOOLEAN : Becomes(id, PostWrite(u, ok))
    BY <1>2, NetServiceAssumption DEF WriteNow
  <2>2. /\ Served(PostWrite(u, ok), InHand(id)) /\ PostWrite(u, ok).link = s.link
        /\ PostWrite(u, ok).stage = "ready"
    BY <1>1, AddedServed
  <2> HIDE DEF u
  <2> QED BY <1>1, <2>1, <2>2, SectionFlows
<1>3. CASE WriteLater(id)
  <2> DEFINE n == [s EXCEPT !.unsent = Lesser(@ + 1, MaxUnsent), !.inDelay = TRUE]
  <2>1. Served(n, InHand(id)) /\ n.link = s.link /\ n.stage = "ready"
    BY <1>1, LaterServed DEF Sound
  <2>2. Becomes(id, n)
    BY <1>3 DEF WriteLater
  <2> HIDE DEF n
  <2> QED BY <1>1, <2>1, <2>2, SectionFlows
<1> QED BY <1>2, <1>3

(* Opening and closing. *)
LEMMA RegisterFlows ==
  ASSUME IInv, Flows, NEW a \in AppThreads, Register(a)
  PROVE  NoneTaken /\ \A x \in Ticket : FlowOn(x)
<1>0. PICK id \in Ticket : id = app[a].id
  BY DEF Register, IInv, Calls, Pool, Owns, Before
<1> DEFINE s == sess[id]
<1>1. /\ app[a].at = "register" /\ s.stage \in {"listen", "connect"} /\ Unseen(id)
  BY <1>0 DEF Register, IInv, Calls, Owns, Before, Unseen
<1>2. /\ Sound(s) /\ Linked(s, InHand(id))
      /\ \A t \in IoThreads : \A e \in io[t].todo : e.id # id
  BY <1>1 DEF IInv, Sounds, Flows, Silence
<1>3. PICK link \in {"connecting", "up", "broken", s.link} :
        sess' = [sess EXCEPT ![id] = Registered([@ EXCEPT !.link = link], {"in", "out"})]
  BY <1>0 DEF Register
<1> DEFINE l == [s EXCEPT !.link = link]
           n == Registered(l, {"in", "out"})
<1>4. l \in Session /\ \A f \in {"stage", "rbuf", "retry"} : l[f] = s[f]
  BY <1>2 DEF Sound, Session
<1>5. sess' = [sess EXCEPT ![id] = n]
  BY <1>3
<1> HIDE DEF l
<1>6. \A f \in {"stage", "rbuf", "retry"} : n[f] = l[f]
  BY <1>4 DEF Registered, Session
<1> HIDE DEF n
<1>7. InHand(id) = {}
  BY <1>2 DEF InHand
<1>8. Linked(n, InHand(id)) /\ Served(n, InHand(id))
  BY <1>1, <1>2, <1>4, <1>6, <1>7 DEF Linked, Served
<1>9. UNCHANGED io /\ NoneTaken
  BY AppTyped, AtRestType DEF Register, NoneTaken
<1> QED BY <1>1, <1>4, <1>5, <1>6, <1>8, <1>9, OneFlows

(* net_accept takes a connection from the listening socket. *)
LEMMA AcceptFlows ==
  ASSUME IInv, Flows, NEW a \in AppThreads, NEW l \in Ticket, Accept(a, l)
  PROVE  NoneTaken /\ \A x \in Ticket : FlowOn(x)
<1> DEFINE s == sess[l]
           n == [s EXCEPT !.inbox = @ - 1]
<1>1. s.stage = "listen" /\ s \in Session /\ Linked(s, InHand(l))
  BY DEF IInv, Typed, Accept, Flows
<1>2. \A f \in {"stage", "rbuf", "retry"} : n[f] = s[f]
  BY <1>1 DEF Session
<1>3. sess' = [sess EXCEPT ![l] = n]
  BY DEF Accept
<1> HIDE DEF n
<1>4. Linked(n, InHand(l)) /\ Served(n, InHand(l)) /\ n.stage = "listen"
  BY <1>1, <1>2 DEF Linked, Served
<1> DEFINE r == [AtRest EXCEPT !.at = "accepted"]
<1>5. r \in Call /\ r.at = "accepted"
  BY AtRestType DEF Call
<1>6. app' = [app EXCEPT ![a] = r]
  BY DEF Accept
<1> HIDE DEF r
<1>7. NoneTaken
  BY <1>5, <1>6, AppTyped DEF NoneTaken
<1>8. UNCHANGED io
  BY DEF Accept
<1> QED BY <1>3, <1>4, <1>7, <1>8, OneFlows

(* net_socket_close *)
LEMMA CloseFlows ==
  ASSUME IInv, Flows, NEW a \in AppThreads, NEW id \in Ticket, CloseBegin(a, id)
  PROVE  NoneTaken /\ \A x \in Ticket : FlowOn(x)
<1>1. sess[id].stage \in Open4 /\ Sound(sess[id])
  BY CurrentLive DEF CloseBegin
<1>2. PICK s : /\ sess' = [sess EXCEPT ![id] = IF s.wop THEN Closing(s) ELSE Blank]
               /\ Sound(s)
  <2> DEFINE c == Clean(sess[id])
  <2>1. PICK ok \in BOOLEAN, sendRest \in BOOLEAN :
          LET s == IF sendRest THEN Rest(c, ok) ELSE c
          IN  sess' = [sess EXCEPT ![id] = IF s.wop THEN Closing(s) ELSE Blank]
    BY NetServiceAssumption DEF CloseBegin
  <2>2. Sound(c) /\ Sound(Rest(c, ok))
    BY <1>1, CleanSound, RestSound DEF Open4
  <2> QED BY <2>1, <2>2
<1> DEFINE n == IF s.wop THEN Closing(s) ELSE Blank
<1>3. n.stage \in {"closing", "none"} /\ n.rbuf = 0 /\ ~n.retry
  BY <1>2 DEF Closing, Blank, Sound, Session
<1>4. sess' = [sess EXCEPT ![id] = n]
  BY <1>2
<1> HIDE DEF n
<1>5. Linked(n, InHand(id)) /\ Served(n, InHand(id)) /\ n.stage # "new"
  BY <1>3 DEF Linked, Served
<1> DEFINE r == [AtRest EXCEPT !.at = "release", !.id = id]
<1>6. r \in Call /\ r.at = "release"
  BY AtRestType DEF Call, Owns
<1>7. app' = [app EXCEPT ![a] = r]
  BY DEF CloseBegin
<1> HIDE DEF r
<1>8. NoneTaken
  BY <1>6, <1>7, AppTyped DEF NoneTaken
<1>9. UNCHANGED io
  BY DEF CloseBegin
<1> QED BY <1>4, <1>5, <1>8, <1>9, OneFlows

(* add_net_session: nothing is sent or received before the end of it.      *)
LEMMA TakeFlows ==
  ASSUME IInv, IInv', Flows, Accepting, NEW a \in AppThreads, NEW kind \in Kind,
         app[a].at \in {"idle", "accepted"}, TakeId(a, kind)
  PROVE  Flows' /\ Accepting'
<1> DEFINE link == CASE kind = "listen" -> "listening"
                     [] kind = "connect" -> "unconnected"
                     [] OTHER -> "up"
           n == [Blank EXCEPT !.stage = "new", !.link = link, !.room = SockRoom]
           r == [AtRest EXCEPT !.at = "publish", !.id = Head(free), !.kind = kind]
<1>1. PICK k \in Ticket : k = Head(free) /\ k \notin held /\ Fresh(k)
  BY PoolTake DEF IInv, TakeId
<1>2. sess' = [sess EXCEPT ![k] = n] /\ UNCHANGED io
  BY <1>1 DEF TakeId
<1>3. n.stage = "new" /\ n.rbuf = 0 /\ ~n.retry /\ n.link = link
  BY DEF Blank
<1>4. kind = "plain" => link \in Established
  BY DEF Established
<1>5. r \in Call /\ r.at = "publish" /\ r.id = k /\ r.kind = kind
  BY <1>1, AtRestType DEF Call, Owns, Before
<1>6. app' = [app EXCEPT ![a] = r]
  BY DEF TakeId
<1> HIDE DEF n, link, r
<1>7. app'[a] = r /\ \A b \in AppThreads \ {a} : app'[b] = app[b]
  BY <1>5, <1>6, AppTyped
<1>8. sess'[k] = n /\ \A x \in Ticket \ {k} : sess'[x] = sess[x]
  BY <1>2 DEF IInv, Typed
<1>9. \A x : InHand(x)' = InHand(x)
  BY <1>2, HandSame
<1>10. Linked(n, InHand(k)) /\ Served(n, InHand(k))
  BY <1>3 DEF Linked, Served
<1>11. Flows'
  <2> SUFFICES ASSUME NEW x \in Ticket
               PROVE  Linked(sess'[x], InHand(x)') /\ Served(sess'[x], InHand(x)')
    BY DEF Flows
  <2>1. CASE x = k
    BY <1>8, <1>9, <1>10, <2>1
  <2>2. CASE x # k
    BY <1>8, <1>9, <2>2 DEF Flows
  <2> QED BY <2>1, <2>2
<1>12. Accepting'
  <2> SUFFICES ASSUME NEW b \in AppThreads, app'[b].at = "publish", app'[b].kind = "plain"
               PROVE  sess'[app'[b].id].link \in Established
    BY DEF Accepting
  <2>1. CASE b = a
    BY <1>3, <1>4, <1>5, <1>7, <1>8, <2>1
  <2>2. CASE b # a
    <3>1. app'[b] = app[b]
      BY <1>7, <2>2
    <3>2. app[b].id \in held /\ app[b].id \in Ticket
      BY <3>1 DEF IInv, Calls, Pool, Owns, Before
    <3> QED BY <1>1, <1>8, <3>1, <3>2 DEF Accepting
  <2> QED BY <2>1, <2>2
<1> QED BY <1>11, <1>12

(* The session enters the table. *)
LEMMA PublishFlows ==
  ASSUME IInv, Flows, Accepting, NEW a \in AppThreads, Publish(a)
  PROVE  NoneTaken /\ \A x \in Ticket : FlowOn(x)
<1>1. PICK id \in Ticket : id = app[a].id
  BY DEF Publish, IInv, Calls, Pool, Owns, Before
<1> DEFINE kind == app[a].kind
           s == sess[id]
           n == [s EXCEPT !.stage = kind]
           r == IF kind = "plain" THEN AtRest ELSE [app[a] EXCEPT !.at = "register"]
<1>2. /\ app[a].at = "publish" /\ kind \in Kind /\ app[a] \in Call /\ Unseen(id)
      /\ s.stage = "new"
  BY <1>1 DEF Publish, IInv, Calls, Typed, Unseen, Before
<1>3. /\ s \in Session /\ Linked(s, InHand(id))
      /\ \A t \in IoThreads : \A e \in io[t].todo : e.id # id
  BY <1>2 DEF IInv, Typed, Flows, Silence
<1>4. n.stage = kind /\ n.rbuf = s.rbuf /\ n.retry = s.retry /\ n.link = s.link
  BY <1>3 DEF Session
<1>5. kind = "plain" => s.link \in Established
  BY <1>1, <1>2 DEF Accepting
<1>6. InHand(id) = {}
  BY <1>3 DEF InHand
<1>7. sess' = [sess EXCEPT ![id] = n] /\ UNCHANGED io
  BY <1>1 DEF Publish
<1> HIDE DEF n
<1>8. Linked(n, InHand(id)) /\ Served(n, InHand(id)) /\ n.stage # "new"
  BY <1>2, <1>3, <1>4, <1>5, <1>6 DEF Linked, Served, Kind
<1>9. [app[a] EXCEPT !.at = "register"] \in Call
      /\ [app[a] EXCEPT !.at = "register"].at = "register"
  BY <1>2 DEF Call, Owns, Before
<1>10. r \in Call /\ r.at # "publish"
  BY <1>9, AtRestType
<1>11. app' = [app EXCEPT ![a] = r]
  BY DEF Publish
<1> HIDE DEF r
<1>12. NoneTaken
  BY <1>10, <1>11, AppTyped DEF NoneTaken
<1> QED BY <1>7, <1>8, <1>12, OneFlows

(* Steps of calls that leave the sessions alone. *)
LEMMA OtherCallFlows ==
  ASSUME IInv, NEW a \in AppThreads,
         \/ RegisterFails(a) \/ NotAccepted(a) \/ CloseEnd(a)
         \/ \E n \in 1..MaxRead : QueueRead(a, n)
  PROVE  NoneTaken /\ \A x \in Ticket : FlowOn(x)
<1>1. UNCHANGED <<sess, io>>
  BY DEF RegisterFails, NotAccepted, CloseEnd, QueueRead
<1>2. app \in [AppThreads -> Call]
  BY DEF IInv, Typed
<1>3. PICK r : app' = [app EXCEPT ![a] = r] /\ r.at # "publish"
  <2>1. CASE RegisterFails(a)
    <3>1. [app[a] EXCEPT !.at = "giveup"].at = "giveup"
      BY <1>2 DEF Call
    <3>2. app' = [app EXCEPT ![a] = [app[a] EXCEPT !.at = "giveup"]]
      BY <2>1 DEF RegisterFails
    <3> QED BY <3>1, <3>2
  <2>2. CASE NotAccepted(a) \/ CloseEnd(a)
    BY <2>2, AtRestType DEF NotAccepted, CloseEnd
  <2>3. CASE \E n \in 1..MaxRead : QueueRead(a, n)
    <3>1. PICK b : app' = [app EXCEPT ![a] = [AtRest EXCEPT !.at = "queue", !.batch = b]]
      BY <2>3 DEF QueueRead
    <3>2. [AtRest EXCEPT !.at = "queue", !.batch = b].at = "queue"
      BY DEF AtRest
    <3> QED BY <3>1, <3>2
  <2> QED BY <2>1, <2>2, <2>3
<1>4. app'[a] = r /\ \A b \in AppThreads \ {a} : app'[b] = app[b]
  BY <1>2, <1>3
<1>5. NoneTaken
  BY <1>3, <1>4 DEF NoneTaken
<1> QED BY <1>1, <1>5, NothingFlows

(* net_queue and net_delay *)
LEMMA QueueItemFlows ==
  ASSUME IInv, Flows, NEW a \in AppThreads, QueueItem(a)
  PROVE  NoneTaken /\ \A x \in Ticket : FlowOn(x)
<1> DEFINE batch == app[a].batch
           r == IF Tail(batch) = <<>> THEN AtRest ELSE [app[a] EXCEPT !.batch = Tail(batch)]
<1>1. app[a] \in Call /\ app[a].at = "queue" /\ batch # <<>> /\ batch \in Seq(Ticket)
  BY DEF QueueItem, IInv, Typed, Calls, Call
<1>2. PICK id \in Ticket : id = Head(batch)
  BY <1>1
<1>3. [app[a] EXCEPT !.batch = Tail(batch)].at = "queue"
  BY <1>1 DEF Call
<1>4. r.at # "publish" /\ app' = [app EXCEPT ![a] = r] /\ UNCHANGED io
  BY <1>3, AtRestType DEF QueueItem
<1> HIDE DEF r
<1>5. NoneTaken
  BY <1>4 DEF NoneTaken, IInv, Typed
<1>6. CASE Current(id)
  <2> DEFINE s == sess[id]
             n == Reported(s)
  <2>1. Sound(s) /\ Linked(s, InHand(id)) /\ Served(s, InHand(id))
    BY <1>6, CurrentLive DEF Flows
  <2>2. Linked(n, InHand(id)) /\ Served(n, InHand(id)) /\ n.link = s.link
    BY <2>1, ReportedServed
  <2>3. sess' = [sess EXCEPT ![id] = Reported(@)]
    BY <1>2, <1>6 DEF QueueItem
  <2>4. sess' = [sess EXCEPT ![id] = n]
    BY <2>3
  <2> HIDE DEF n
  <2> QED BY <1>4, <1>5, <2>2, <2>4, OneFlows
<1>7. CASE ~Current(id)
  <2>1. UNCHANGED sess
    BY <1>2, <1>7 DEF QueueItem
  <2> QED BY <1>4, <1>5, <2>1, NothingFlows
<1> QED BY <1>6, <1>7

(* net_delay *)
LEMMA DelayFlows ==
  ASSUME IInv, Flows, NEW d \in DelayThreads, Delay(d)
  PROVE  NoneTaken /\ \A x \in Ticket : FlowOn(x)
<1>1. UNCHANGED <<app, io>> /\ NoneTaken
  BY DEF Delay, DelayTake, DelayItem, NoneTaken
<1>2. CASE DelayTake(d)
  BY <1>1, <1>2, NothingFlows DEF DelayTake
<1>3. CASE DelayItem(d)
  <2>1. PICK id \in Ticket : id = delayer[d]
    BY <1>3 DEF IInv, Typed, DelayItem
  <2>2. CASE Current(id)
    <3> DEFINE s == sess[id]
    <3>1. PICK ok \in BOOLEAN : Becomes(id, PostWrite(Undelayed(s), ok))
      BY <1>3, <2>1, <2>2, NetServiceAssumption DEF DelayItem
    <3> DEFINE n == PostWrite(Undelayed(s), ok)
    <3>2. s.stage \in Open4 /\ Sound(s) /\ Linked(s, InHand(id)) /\ Served(s, InHand(id))
      BY <2>2, CurrentLive DEF Flows
    <3>3. Linked(n, InHand(id)) /\ Served(n, InHand(id))
      BY <3>2, UndelayedServed
    <3>4. n.stage # "new"
      BY <3>2, UndelayedSound, PostWriteSound DEF Open4
    <3>5. sess' = [sess EXCEPT ![id] = n]
      BY <3>1 DEF Becomes
    <3> HIDE DEF n
    <3> QED BY <1>1, <3>3, <3>4, <3>5, OneFlows
  <2>3. CASE ~Current(id)
    <3>1. UNCHANGED sess
      BY <1>3, <2>1, <2>3 DEF DelayItem
    <3> QED BY <1>1, <3>1, NothingFlows
  <2> QED BY <2>2, <2>3
<1> QED BY <1>2, <1>3 DEF Delay

(* net_wait *)
LEMMA WaitFlows ==
  ASSUME IInv, Flows, NEW t \in IoThreads, Wait(t)
  PROVE  NoneTaken /\ \A x \in Ticket : FlowOn(x)
<1>1. PICK S \in SUBSET {id \in Ticket : sess[id].pend /\ Deliverable(sess[id]) # {}} :
        /\ sess' = [id \in Ticket |-> IF id \in S THEN [sess[id] EXCEPT !.pend = FALSE]
                                                  ELSE sess[id]]
        /\ io' = [io EXCEPT ![t].todo =
                    {[id |-> id, ev |-> Deliverable(sess[id])] : id \in S}]
  BY DEF Wait
<1> DEFINE todo == {[id |-> id, ev |-> Deliverable(sess[id])] : id \in S}
<1>2. io \in [IoThreads -> Waiter] /\ io[t] = Waiting /\ io[t].todo = {} /\ UNCHANGED app
  BY DEF IInv, Typed, Wait, Waiting
<1>3. io'[t].todo = todo /\ \A u \in IoThreads \ {t} : io'[u] = io[u]
  BY <1>1, <1>2 DEF Waiter
<1>4. \A x \in S : /\ x \in Ticket
                   /\ \A e \in todo : e.id = x => e.ev = Deliverable(sess[x])
                   /\ \E e \in todo : e.id = x /\ e.ev = Deliverable(sess[x])
  <2> SUFFICES ASSUME NEW x \in S
               PROVE  /\ x \in Ticket
                      /\ \A e \in todo : e.id = x => e.ev = Deliverable(sess[x])
                      /\ \E e \in todo : e.id = x /\ e.ev = Deliverable(sess[x])
    OBVIOUS
  <2>1. x \in Ticket
    BY <1>1
  <2>2. ASSUME NEW e \in todo, e.id = x PROVE e.ev = Deliverable(sess[x])
    <3>1. PICK y \in S : e = [id |-> y, ev |-> Deliverable(sess[y])]
      OBVIOUS
    <3>2. y = x
      BY <2>2, <3>1
    <3> QED BY <3>1, <3>2
  <2>3. \E e \in todo : e.id = x /\ e.ev = Deliverable(sess[x])
    <3> DEFINE e == [id |-> x, ev |-> Deliverable(sess[x])]
    <3>1. e \in todo /\ e.id = x /\ e.ev = Deliverable(sess[x])
      OBVIOUS
    <3> HIDE DEF e, todo
    <3> QED BY <3>1
  <2> QED BY <2>1, <2>2, <2>3
<1>5. \A e \in todo : e.id \in S
  OBVIOUS
<1> HIDE DEF todo
<1> SUFFICES ASSUME NEW x \in Ticket PROVE FlowOn(x)
  BY <1>2 DEF NoneTaken
<1> DEFINE s == sess[x]
<1>6. CASE x \in S
  <2>1. Deliverable(s) \in SUBSET Events
    BY DeliverableType DEF Events, IInv, Typed
  <2>2. InHand(x)' = InHand(x) \cup Deliverable(s)
    BY <1>2, <1>3, <1>4, <1>6, <2>1 DEF InHand
  <2>3. sess'[x] = [s EXCEPT !.pend = FALSE]
    BY <1>1, <1>6
  <2>4. Sound(s) /\ Linked(s, InHand(x)) /\ Served(s, InHand(x))
    BY DEF Flows, IInv, Sounds
  <2>5. LET n == [s EXCEPT !.pend = FALSE]
            L == InHand(x) \cup Deliverable(s)
        IN  Linked(n, L) /\ Served(n, L) /\ n.link = s.link
    BY <2>4, FetchedServed
  <2> QED BY <2>2, <2>3, <2>5 DEF FlowOn
<1>7. CASE x \notin S
  <2>1. InHand(x)' = InHand(x)
    BY <1>2, <1>3, <1>5, <1>7 DEF InHand
  <2> QED BY <1>1, <1>7, <2>1 DEF FlowOn
<1> QED BY <1>6, <1>7

(* handle_session *)
LEMMA HandleFlows ==
  ASSUME IInv, Flows, NEW t \in IoThreads, NEW e \in io[t].todo, Handle(t, e)
  PROVE  NoneTaken /\ \A x \in Ticket : FlowOn(x)
<1>1. e.id \in Ticket /\ e.ev \in SUBSET Events
  BY TodoType DEF Events
<1>2. PICK id \in Ticket : id = e.id
  BY <1>1
<1> DEFINE s == sess[id]
           n == HandleSession(s, e.ev)
<1>3. io'[t].todo = io[t].todo \ {e} /\ \A u \in IoThreads \ {t} : io'[u] = io[u]
  BY DEF Handle, IInv, Typed, Waiter
<1>4. /\ InHand(id) = InHand(id)' \cup e.ev
      /\ \A x \in Ticket \ {id} : InHand(x)' = InHand(x)
  BY <1>2, <1>3, HandLess
<1>5. /\ s.stage \in Open4 /\ Sound(s)
      /\ Linked(s, InHand(id)) /\ Served(s, InHand(id))
  BY <1>2, CurrentLive DEF Handle, Flows
<1>6. Linked(n, InHand(id)') /\ Served(n, InHand(id)')
  <2>1. ASSUME NEW K, K = InHand(id)' PROVE Linked(n, K) /\ Served(n, K)
    BY <1>1, <1>4, <1>5, <2>1, HandleServed
  <2> QED BY <2>1
<1>7. n.stage # "new"
  BY <1>1, <1>5, HandleSound DEF Goes, Onward, Open4, Events
<1>8. sess' = [sess EXCEPT ![id] = n] /\ UNCHANGED app
  BY <1>2 DEF Handle, Becomes
<1> HIDE DEF n
<1>9. sess'[id] = n /\ \A x \in Ticket \ {id} : sess'[x] = sess[x]
  BY <1>8 DEF IInv, Typed
<1>10. FlowOn(id)
  BY <1>6, <1>7, <1>9 DEF FlowOn
<1>11. \A x \in Ticket \ {id} : FlowOn(x)
  BY <1>4, <1>9 DEF FlowOn
<1> QED BY <1>8, <1>10, <1>11 DEF NoneTaken

(* An event for a session that is not in the table is dropped.             *)
LEMMA DropFlows ==
  ASSUME IInv, Flows, NEW t \in IoThreads, NEW e \in io[t].todo,
         FindClosed(t, e) \/ Ignore(t, e)
  PROVE  NoneTaken /\ \A x \in Ticket : FlowOn(x)
<1>1. PICK id \in Ticket : id = e.id
  BY TodoType
<1> DEFINE s == sess[id]
<1>2. io'[t].todo = io[t].todo \ {e} /\ \A u \in IoThreads \ {t} : io'[u] = io[u]
  BY DEF FindClosed, Ignore, IInv, Typed, Waiter
<1>3. /\ InHand(id) = InHand(id)' \cup e.ev
      /\ \A x \in Ticket \ {id} : InHand(x)' = InHand(x)
  BY <1>1, <1>2, HandLess
<1>4. s.stage \notin Open4 /\ Linked(s, InHand(id))
  BY <1>1 DEF FindClosed, Ignore, Current, IInv, Places, OnePlace, InTable, Open4, Flows
<1>5. UNCHANGED <<app, sess>>
  BY DEF FindClosed, Ignore
<1>6. Linked(s, InHand(id)') /\ Served(s, InHand(id)')
  BY <1>3, <1>4 DEF Linked, Served, Open4
<1>7. FlowOn(id)
  BY <1>5, <1>6 DEF FlowOn
<1>8. \A x \in Ticket \ {id} : FlowOn(x)
  BY <1>3, <1>5 DEF FlowOn
<1> QED BY <1>5, <1>7, <1>8 DEF NoneTaken

(* handle_rest deals with sessions that are out of the table. *)
LEMMA HandleRestFlows ==
  ASSUME IInv, Flows, NEW t \in IoThreads, HandleRest(t)
  PROVE  NoneTaken /\ \A x \in Ticket : FlowOn(x)
<1>1. PICK id \in IF io[t].node = Freed THEN closeRoot ELSE {io[t].node},
           moved \in {{}} \cup {{u} : u \in {v \in IoThreads \ {t} : io[v].current # NULL}} :
       IF MayRelease(sess[id], io[t].current.ev)
       THEN /\ sess' = [sess EXCEPT ![id] = Blank]
            /\ io' = [u \in IoThreads |->
                        CASE u = t -> [io[t] EXCEPT !.current = NULL, !.node = NULL]
                          [] u \in moved -> [io[u] EXCEPT !.node = Freed]
                          [] OTHER -> io[u]]
       ELSE /\ sess' = [sess EXCEPT ![id] = RestHandled(@, io[t].current.ev)]
            /\ io' = [io EXCEPT ![t].current = NULL, ![t].node = NULL]
  BY DEF HandleRest
<1> DEFINE w == [io[t] EXCEPT !.current = NULL, !.node = NULL]
           ev == io[t].current.ev
           s == sess[id]
<1>2. id \in Ticket /\ s.stage \in {"none", "closing"}
  <2>1. CASE io[t].node = Freed
    BY <1>1, <2>1, ClosingLive
  <2>2. CASE io[t].node # Freed
    <3>1. id = io[t].node /\ id \in Ticket
      BY <1>1, <2>2 DEF HandleRest, IInv, Typed, Nodes, Waiter
    <3> QED BY <3>1 DEF IInv, Nodes
  <2> QED BY <2>1, <2>2
<1>3. io \in [IoThreads -> Waiter] /\ io[t] \in Waiter /\ UNCHANGED app
  BY DEF IInv, Typed, HandleRest
<1>4. w.todo = io[t].todo
  BY <1>3 DEF Waiter
<1>5. s \in Session /\ Linked(s, InHand(id))
  BY <1>2 DEF IInv, Typed, Flows
<1>6. CASE MayRelease(sess[id], ev)
  <2>1. /\ sess' = [sess EXCEPT ![id] = Blank]
        /\ io' = [u \in IoThreads |->
                        CASE u = t -> w
                          [] u \in moved -> [io[u] EXCEPT !.node = Freed]
                          [] OTHER -> io[u]]
    BY <1>1, <1>6
  <2> HIDE DEF w
  <2>2. \A u \in IoThreads : io'[u].todo = io[u].todo
    <3>1. \A u \in IoThreads : [io[u] EXCEPT !.node = Freed].todo = io[u].todo
      BY <1>3 DEF Waiter
    <3> QED BY <1>4, <2>1, <3>1
  <2>3. Blank.stage = "none" /\ Blank.rbuf = 0 /\ ~Blank.retry
    BY DEF Blank
  <2>4. Linked(Blank, InHand(id)) /\ Served(Blank, InHand(id))
    BY <2>3 DEF Linked, Served
  <2> QED BY <1>2, <1>3, <2>1, <2>2, <2>3, <2>4, OneFlows DEF NoneTaken
<1>7. CASE ~MayRelease(sess[id], ev)
  <2> DEFINE n == RestHandled(s, ev)
  <2>1. sess' = [sess EXCEPT ![id] = n]
        /\ io' = [io EXCEPT ![t].current = NULL, ![t].node = NULL]
    BY <1>1, <1>7
  <2>2. \A u \in IoThreads : io'[u].todo = io[u].todo
    BY <1>3, <2>1 DEF Waiter
  <2>3. n.stage = s.stage /\ n.rbuf = s.rbuf /\ n.retry = s.retry
    BY <1>5 DEF RestHandled, RestWritten, Session
  <2> HIDE DEF n
  <2>4. Linked(n, InHand(id)) /\ Served(n, InHand(id)) /\ n.stage # "new"
    BY <1>2, <1>5, <2>3 DEF Linked, Served
  <2> QED BY <1>2, <1>3, <2>1, <2>2, <2>4, OneFlows DEF NoneTaken
<1> QED BY <1>6, <1>7

(* The kernel and the peers. *)
LEMMA KernelFlows ==
  ASSUME IInv, Flows, NEW id \in Ticket, Kernel(id)
  PROVE  NoneTaken /\ \A x \in Ticket : FlowOn(x)
<1> DEFINE s == sess[id]
<1>1. s \in Session /\ Sound(s) /\ Linked(s, InHand(id)) /\ Served(s, InHand(id))
  BY DEF IInv, Typed, Sounds, Flows
<1>2. NoneTaken /\ \A t \in IoThreads : io'[t].todo = io[t].todo
  BY DEF NoneTaken, Kernel, Connected, Arrives, Ends, Breaks, Drains, Happens
<1>3. ASSUME NEW n, Happens(id, n), Linked(n, InHand(id)), Served(n, InHand(id)),
             s.link \in Established => n.link \in Established
      PROVE  \A x \in Ticket : FlowOn(x)
  BY <1>2, <1>3, OneFlows DEF Happens
<1>4. CASE Connected(id)
  <2> DEFINE n == Notified([s EXCEPT !.link = "up"], "out")
  <2>1. s.link = "connecting" /\ Happens(id, n)
    BY <1>4 DEF Connected
  <2>2. Linked(n, InHand(id)) /\ Served(n, InHand(id)) /\ n.link = "up"
    BY <1>1, <2>1, ConnectedServed
  <2> HIDE DEF n
  <2> QED BY <1>2, <1>3, <2>1, <2>2 DEF Established
<1>5. ASSUME NEW m \in Session, NEW event \in {"in", "err"}, Happens(id, Notified(m, event)),
             \A f \in {"stage", "rop", "wop", "retry", "rbuf", "reg", "room", "pend",
                       "unsent", "inDelay", "nospace", "owed", "told", "events"} : m[f] = s[f],
             s.link \in Established => m.link \in Established,
             m.link # "broken" => s.link # "broken"
      PROVE  \A x \in Ticket : FlowOn(x)
  <2> DEFINE n == Notified(m, event)
  <2>1. Linked(n, InHand(id)) /\ Served(n, InHand(id))
    BY <1>1, <1>5, NotifiedServed
  <2>2. n.link = m.link
    BY DEF Notified, Session
  <2> HIDE DEF n
  <2> QED BY <1>3, <1>5, <2>1, <2>2 DEF n
<1>6. CASE Arrives(id)
  <2> DEFINE m == [s EXCEPT !.inbox = @ + 1]
  <2>1. s.inbox + 1 \in 0..MaxInbox
    BY <1>1, <1>6, NetServiceAssumption DEF Arrives, Session
  <2>2. /\ m \in Session /\ m.link = s.link
        /\ \A f \in {"stage", "rop", "wop", "retry", "rbuf", "reg", "room", "pend",
                     "unsent", "inDelay", "nospace", "owed", "told", "events"} : m[f] = s[f]
    BY <1>1, <2>1 DEF Session
  <2>3. Happens(id, Notified(m, "in"))
    BY <1>6 DEF Arrives
  <2> HIDE DEF m
  <2> QED BY <1>2, <1>5, <2>2, <2>3
<1>7. CASE Ends(id)
  <2> DEFINE m == [s EXCEPT !.link = "fin"]
  <2>1. /\ m \in Session /\ m.link = "fin"
        /\ \A f \in {"stage", "rop", "wop", "retry", "rbuf", "reg", "room", "pend",
                     "unsent", "inDelay", "nospace", "owed", "told", "events"} : m[f] = s[f]
    BY <1>1 DEF Session
  <2>2. Happens(id, Notified(m, "in")) /\ s.link = "up"
    BY <1>7 DEF Ends
  <2> HIDE DEF m
  <2> QED BY <1>2, <1>5, <2>1, <2>2 DEF Established
<1>8. CASE Breaks(id)
  <2> DEFINE m == [s EXCEPT !.link = "broken", !.inbox = 0]
  <2>1. 0 \in 0..MaxInbox
    BY NetServiceAssumption
  <2>2. /\ m \in Session /\ m.link = "broken"
        /\ \A f \in {"stage", "rop", "wop", "retry", "rbuf", "reg", "room", "pend",
                     "unsent", "inDelay", "nospace", "owed", "told", "events"} : m[f] = s[f]
    BY <1>1, <2>1 DEF Session
  <2>3. Happens(id, Notified(m, "err"))
    BY <1>8 DEF Breaks
  <2> HIDE DEF m
  <2> QED BY <1>2, <1>5, <2>2, <2>3 DEF Established
<1>9. CASE Drains(id)
  <2> DEFINE m == [s EXCEPT !.room = @ + 1, !.nospace = FALSE]
             n == IF s.nospace THEN Notified(m, "out") ELSE m
  <2>1. s.link \in {"up", "fin"} /\ s.room < SockRoom /\ Happens(id, n)
    BY <1>9 DEF Drains
  <2>2. Linked(n, InHand(id)) /\ Served(n, InHand(id)) /\ n.link = s.link
    BY <1>1, <2>1, DrainedServed
  <2> HIDE DEF n
  <2> QED BY <1>2, <1>3, <2>1, <2>2
<1> QED BY <1>2, <1>4, <1>6, <1>7, <1>8, <1>9 DEF Kernel

(* At first there are no sessions, no calls and no events. *)
LEMMA InitFlows == Init => Flows /\ Accepting
<1> SUFFICES ASSUME Init PROVE Flows /\ Accepting
  OBVIOUS
<1>1. Blank.stage = "none" /\ Blank.rbuf = 0 /\ ~Blank.retry
  BY DEF Blank
<1>2. \A K : Linked(Blank, K) /\ Served(Blank, K)
  BY <1>1 DEF Linked, Served
<1>3. Flows
  BY <1>2 DEF Init, Flows
<1>4. \A a \in AppThreads : app[a].at = "idle"
  BY DEF Init, AtRest
<1> QED BY <1>3, <1>4 DEF Accepting

(* Every step of an application thread. *)
LEMMA AppFlows ==
  ASSUME IInv, IInv', Flows, Accepting, NEW a \in AppThreads, App(a)
  PROVE  Flows' /\ Accepting'
<1>1. ASSUME NEW kind \in Kinds, Open(a, kind) PROVE Flows' /\ Accepting'
  <2>1. kind \in Kind /\ app[a].at \in {"idle", "accepted"} /\ TakeId(a, kind)
    BY <1>1, NetServiceAssumption DEF Open, Kind
  <2> QED BY <2>1, TakeFlows
<1>2. ASSUME Accepted(a) PROVE Flows' /\ Accepting'
  <2>1. "plain" \in Kind /\ app[a].at \in {"idle", "accepted"} /\ TakeId(a, "plain")
    BY <1>2 DEF Accepted, Kind
  <2> QED BY <2>1, TakeFlows
<1>3. ASSUME NoneTaken, \A x \in Ticket : FlowOn(x) PROVE Flows' /\ Accepting'
  BY <1>3, FlowStep
<1>4. ASSUME NEW id \in Ticket, Accept(a, id) PROVE Flows' /\ Accepting'
  BY <1>3, <1>4, AcceptFlows
<1>5. ASSUME NEW id \in Ticket, CloseBegin(a, id) PROVE Flows' /\ Accepting'
  BY <1>3, <1>5, CloseFlows
<1>6. CASE \/ RegisterFails(a) \/ NotAccepted(a) \/ CloseEnd(a)
           \/ \E n \in 1..MaxRead : QueueRead(a, n)
  BY <1>3, <1>6, OtherCallFlows
<1>7. CASE Publish(a)
  BY <1>3, <1>7, PublishFlows
<1>8. CASE Register(a)
  BY <1>3, <1>8, RegisterFlows
<1>9. CASE QueueItem(a)
  BY <1>3, <1>9, QueueItemFlows
<1> QED BY <1>1, <1>2, <1>4, <1>5, <1>6, <1>7, <1>8, <1>9 DEF App, CallStep

(* Every step keeps each session served. *)
LEMMA NextFlows == IInv /\ IInv' /\ Flows /\ Accepting /\ [Next]_vars => Flows' /\ Accepting'
<1> SUFFICES ASSUME IInv, IInv', Flows, Accepting, [Next]_vars PROVE Flows' /\ Accepting'
  OBVIOUS
<1>1. ASSUME NEW a \in AppThreads, App(a) PROVE Flows' /\ Accepting'
  BY <1>1, AppFlows
<1>2. ASSUME NoneTaken, \A x \in Ticket : FlowOn(x) PROVE Flows' /\ Accepting'
  BY <1>2, FlowStep
<1>3. ASSUME NEW t \in IoThreads, Io(t) PROVE Flows' /\ Accepting'
  <2>1. ASSUME NEW e \in io[t].todo, Handle(t, e) PROVE Flows' /\ Accepting'
    BY <1>2, <2>1, HandleFlows
  <2>2. ASSUME NEW e \in io[t].todo, FindClosed(t, e) \/ Ignore(t, e)
        PROVE  Flows' /\ Accepting'
    BY <1>2, <2>2, DropFlows
  <2>3. CASE Wait(t)
    BY <1>2, <2>3, WaitFlows
  <2>4. CASE HandleRest(t)
    BY <1>2, <2>4, HandleRestFlows
  <2> QED BY <1>3, <2>1, <2>2, <2>3, <2>4 DEF Io
<1>4. ASSUME NEW d \in DelayThreads, Delay(d) PROVE Flows' /\ Accepting'
  BY <1>2, <1>4, DelayFlows
<1>5. ASSUME NEW slot \in Slot, Cfg(slot) PROVE Flows' /\ Accepting'
  BY <1>2, <1>5, CfgFlows
<1>6. ASSUME NEW id \in Ticket, Read(id) PROVE Flows' /\ Accepting'
  BY <1>2, <1>6, ReadFlows
<1>7. ASSUME NEW id \in Ticket, WriteNow(id) \/ WriteLater(id) PROVE Flows' /\ Accepting'
  BY <1>2, <1>7, WriteFlows
<1>8. ASSUME NEW id \in Ticket, Kernel(id) PROVE Flows' /\ Accepting'
  BY <1>2, <1>8, KernelFlows
<1>9. CASE UNCHANGED vars
  <2>1. UNCHANGED <<sess, app, io>>
    BY <1>9 DEF vars
  <2> QED BY <1>2, <2>1, NothingFlows DEF NoneTaken
<1> QED BY <1>1, <1>3, <1>4, <1>5, <1>6, <1>7, <1>8, <1>9 DEF Next

-----------------------------------------------------------------------------
(* The inductive invariant: what is unsent or unread has its edge. *)
THEOREM FlowInvariance == Spec => [](IInv /\ Flows /\ Accepting)
<1>1. Init => Flows /\ Accepting
  BY InitFlows
<1>2. IInv /\ Flows /\ Accepting /\ [Next]_vars => IInv' /\ Flows' /\ Accepting'
  BY StepIInv, NextFlows
<1> QED BY InitIInv, <1>1, <1>2, PTL DEF Spec

(* What is in hand is in the hands of a thread. *)
LEMMA HandComes ==
  ASSUME NEW id \in Ticket, NEW kinds, Edge(sess[id], InHand(id), kinds)
  PROVE  Coming(id, kinds)
BY DEF Edge, InHand, Coming

(* Output left in the send buffer of an open session is never stuck: some  *)
(* thread will send it, or the kernel will say when there is room.         *)
THEOREM OutputNeverStuck == Spec => []NoStuckOutput
<1>1. IInv /\ Flows => NoStuckOutput
  <2> SUFFICES ASSUME IInv, Flows, NEW id \in Ticket,
                      sess[id].stage = "ready", sess[id].unsent > 0,
                      ~Failed(sess[id]), ~sess[id].inDelay
               PROVE  AwaitsRoom(sess[id]) \/ (sess[id].wop /\ Coming(id, {"out", "err"}))
    BY DEF NoStuckOutput
  <2> DEFINE s == sess[id]
  <2>1. Sends(s, InHand(id))
    BY DEF Flows, Served
  <2>2. CASE s.link = "broken" \/ s.room > 0
    BY <2>1, <2>2, HandComes DEF Sends
  <2>3. CASE ~(s.link = "broken" \/ s.room > 0)
    <3>1. s.room = 0
      BY <2>3, EpollSessionAssumption DEF IInv, Typed, Session
    <3> QED BY <2>1, <2>3, <3>1 DEF Sends, AwaitsRoom
  <2> QED BY <2>2, <2>3
<1> QED BY FlowInvariance, <1>1, PTL

(* Input that has arrived is never lost: the application was told of it,   *)
(* or an edge is coming for it.                                            *)
THEOREM InputNeverLost == Spec => []NoLostInput
<1>1. IInv /\ Flows => NoLostInput
  <2> SUFFICES ASSUME IInv, Flows, NEW id \in Ticket,
                      sess[id].stage = "ready", ~Failed(sess[id])
               PROVE  LET s == sess[id]
                          announced == s.owed \/ "Read" \in s.events
                      IN  /\ s.rbuf > 0 => announced
                          /\ ReadyFor(s) \cap {"in", "err"} # {} =>
                               announced \/ Coming(id, {"in", "err"})
    BY DEF NoLostInput
  <2> DEFINE s == sess[id]
             announced == s.owed \/ "Read" \in s.events
  <2>1. Announces(s) /\ Rings(s, InHand(id)) /\ s.link \in Established
    BY DEF Flows, Served, Hears, Linked
  <2>2. s.rbuf > 0 => announced
    BY <2>1 DEF Announces
  <2>3. s.retry => announced
    BY <2>1 DEF Announces
  <2>4. ReadyFor(s) \cap {"in", "err"} # {} => s.inbox > 0 \/ s.link \in {"fin", "broken"}
    BY <2>1 DEF ReadyFor, Established
  <2> HIDE DEF announced
  <2>5. ReadyFor(s) \cap {"in", "err"} # {} => announced \/ Coming(id, {"in", "err"})
    BY <2>1, <2>3, <2>4, HandComes DEF Rings
  <2> QED BY <2>2, <2>5 DEF announced
<1> QED BY FlowInvariance, <1>1, PTL
=============================================================================
