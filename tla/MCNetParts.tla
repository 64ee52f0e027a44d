----------------------------- MODULE MCNetParts -----------------------------
(* NetService for TLC, in parts: the behaviours of NetService together are  *)
(* too many, and part says which of them a behaviour belongs to.  A part    *)
(* has fewer threads, sockets or kinds of events than the constants allow.  *)
EXTENDS NetService, TLC

VARIABLE part

Symmetry == Permutations(IoThreads) \cup Permutations(AppThreads)

First == <<0, 0>>
Last  == <<MaxSize - 1, (MaxLimit - 1) \div MaxSize>>

OneApp    == Cardinality({a \in AppThreads : app'[a] # AtRest}) <= 1
OneIo     == Cardinality({t \in IoThreads : io'[t] # Waiting}) <= 1
NotLast   == Last \notin held'
NoInput   == \A id \in Ticket : sess'[id].inbox = 0 /\ sess'[id].link # "fin"
NoOutput  == \A id \in Ticket : sess'[id].unsent = 0 /\ ~sess'[id].inDelay
NoData    == \A id \in Ticket : sess'[id].inbox > 0 => sess'[id].link = "listening"
NoDelay   == \A id \in Ticket : ~sess'[id].inDelay
NoConnect == \A a \in AppThreads : app'[a].kind # "connect"
NoEnd     == \A id \in Ticket : sess'[id].link \notin {"fin", "broken"}

(* One application thread: its first socket listens, nobody connects to    *)
(* it, and there is one slot for the others.                               *)
Parked ==
  /\ OneApp
  /\ IF sess[First].stage = "listen" /\ sess[First].reg # {}
     THEN sess'[First] = sess[First] /\ \A a \in AppThreads : app'[a].kind # "listen"
     ELSE \A a \in AppThreads : \/ app'[a] = AtRest
                                \/ app'[a].kind = "listen" /\ app'[a].at # "giveup"

(* Listening and accepting on two slots, by two application threads; what  *)
(* arrives are connections.                                                *)
Accepting == NotLast /\ OneIo /\ NoConnect /\ NoOutput /\ NoEnd /\ NoData

(* A slot with one connection in all its states, and one with two in turn: *)
(* with input, with delayed output, with two I/O threads.                  *)
Single    == Parked /\ NotLast /\ OneIo
Receiving == Parked /\ OneIo /\ NoOutput
Delaying  == Parked /\ OneIo /\ NoInput
Sending   == Parked /\ NoInput /\ NoDelay

PartsInit == Init /\ part \in {"accepting", "single", "receiving", "delaying", "sending"}

Parts ==
  /\ PartsInit
  /\ [][/\ Next /\ UNCHANGED part
        /\ part = "accepting" => Accepting
        /\ part = "single"    => Single
        /\ part = "receiving" => Receiving
        /\ part = "delaying"  => Delaying
        /\ part = "sending"   => Sending]_<<vars, part>>

(* One slot: one connection in all its states, or two in turn, which send. *)
LiveInit == Init /\ part \in {"single", "sending"}

Live ==
  /\ LiveInit
  /\ [][/\ Next /\ UNCHANGED part
        /\ part = "single"  => NotLast
        /\ part = "sending" => NoInput]_<<vars, part>>
  /\ Fairness
=============================================================================
