------------------------------ MODULE DbProofs ------------------------------
(***************************************************************************)
(* Proofs about a database server, for every number of zones, logs and     *)
(* statements, and every packing that keeps the database id.               *)
(***************************************************************************)
EXTENDS DbServer, SequenceTheorems, FunctionTheorems, FiniteSetTheorems,
        TLAPS

Live == {"boot", "check", "own", "work", "shared"}

(* The server is not stopping. *)
Serving == main[1] \in {"start", "params", "thread", "flag", "loop", "push"}

(* The i-th service exists, and its thread. *)
Made(i) == IF main[1] = "start" THEN i < main[2]
           ELSE main[1] \in {"params", "thread", "flag"} => i <= main[2]
Up(i) == IF main[1] \in {"start", "params", "thread"} THEN i < main[2]
         ELSE main[1] = "flag" => i <= main[2]

(* The statements that were pushed, and the service each is for. *)
Handed == {n \in DOMAIN received : main # <<"push", n>>}
Of(n) == Zones[received[n].zone]

Typed ==
  /\ load \in DOMAIN Loads
  /\ services \in [Services -> Service(Message) \cup {NULL}]
  /\ received \in Seq([dbid : Loads[load].dbids, body : Loads[load].bodies,
                       zone : DOMAIN Zones, data : Seq(Int)])
  /\ pc \in [Services -> {"none", "ended"} \cup Live]
  /\ executed \in Seq(Message)

Places ==
  /\ main = <<main[1], main[2]>>
  /\ \/ main[1] \in {"start", "params", "thread", "flag"} /\ main[2] \in DOMAIN Starts
     \/ main[1] \in {"loop", "done"} /\ main[2] = 0
     \/ main[1] = "push" /\ main[2] = Len(received) /\ received # <<>>
     \/ main[1] = "stop" /\ main[2] \in 1..Len(StopOrder) + 1
     \/ main[1] = "join" /\ main[2] \in DOMAIN JoinOrder

(* The zone is a function of the database id. *)
Routed == \A n \in DOMAIN received : received[n].zone = (received[n].dbid % Len(Zones)) + 1

(* The statements that wait in a list. *)
Awaited(f) == {f.list[j].number : j \in DOMAIN f.list} \ {0}

(* A list of messages is linked up to its tail, in the order of numbers.   *)
Linear(f) ==
  /\ f.tail = IF f.list = <<>> THEN NULL ELSE f.list[Len(f.list)]
  /\ \A i, j \in DOMAIN f.list : i < j => f.list[i].number < f.list[j].number

(* The parameters come first, until the thread has taken them. *)
Parameters(i, f, p) ==
  /\ main = <<"params", i>> => f.list = <<>>
  /\ main = <<"thread", i>> => Len(f.list) = 1 /\ f.list[1].number = 0
  /\ p = "boot" => f.list # <<>> /\ f.list[1].number = 0
  /\ p \in Live \ {"boot"} =>
       ~f.state \/ \A j \in DOMAIN f.list : f.list[j].number # 0

(* The i-th service, with its fields and the place of its thread. *)
Existing(i, f, p) ==
  /\ f \in Service(Message) /\ Linear(f) /\ Parameters(i, f, p)
  /\ \A n \in Awaited(f) : n \in Handed /\ Of(n) = Starts[i]
  /\ Serving => f.state /\ ~f.freed /\ p # "ended"
  /\ f.freed => p = "ended"
  /\ f.thread = CASE p = "none" -> "none" [] p = "ended" -> "ended" [] OTHER -> "running"

Line(i) ==
  /\ IF Made(i) THEN Existing(i, services[Starts[i]], pc[Starts[i]])
                ELSE services[Starts[i]] = NULL
  /\ pc[Starts[i]] = "none" <=> ~Up(i)

Lines == \A i \in DOMAIN Starts : Line(i)

(* What was executed of a zone is older than what waits for it. *)
Order ==
  /\ \A k \in DOMAIN executed : executed[k].number \in Handed
  /\ \A j, k \in DOMAIN executed :
       j < k /\ Of(executed[j].number) = Of(executed[k].number) =>
         executed[j].number < executed[k].number
  /\ \A i \in DOMAIN Starts : Made(i) =>
       \A k \in DOMAIN executed : Of(executed[k].number) = Starts[i] =>
         \A n \in Awaited(services[Starts[i]]) : executed[k].number < n

Complete ==
  Serving => \A n \in Handed :
    \/ \E k \in DOMAIN executed : executed[k].number = n
    \/ \E i \in DOMAIN Starts : Made(i) /\ n \in Awaited(services[Starts[i]])

(* Services are freed one after the other, each when its thread has ended. *)
Joined ==
  /\ services[Shared] \in Service(Message)
  /\ services[Shared].freed => main[1] = "done"
  /\ main[1] \in {"join", "done"} =>
       \A i \in DOMAIN Starts : main[1] = "done" \/ i < main[2] => pc[Starts[i]] = "ended"

IInv == Typed /\ Places /\ Routed /\ Lines /\ Order /\ Complete /\ Joined

-----------------------------------------------------------------------------
(* What the assumption says of the load. *)
LEMMA LoadFacts ==
  ASSUME load \in DOMAIN Loads
  PROVE  /\ Zones \in Seq(Services \ {Shared}) /\ Zones # <<>>
         /\ Logs \in Seq(Services \ {Shared})
         /\ Starts \in Seq(Services \ {Shared})
         /\ \A i, j \in DOMAIN Starts : Starts[i] = Starts[j] => i = j
         /\ Len(Starts) = Len(Zones) + Len(Logs)
         /\ \A z \in DOMAIN Zones : z \in DOMAIN Starts /\ Starts[z] = Zones[z]
         /\ Threads = {Starts[i] : i \in DOMAIN Starts}
<1>1. /\ Zones \in Seq(Services \ {Shared}) /\ Zones # <<>>
      /\ Logs \in Seq(Services \ {Shared})
      /\ \A i, j \in DOMAIN Starts : Starts[i] = Starts[j] => i = j
  BY DbServerAssumption DEF Zones, Logs, Starts
<1>2. /\ Starts \in Seq(Services \ {Shared}) /\ Len(Starts) = Len(Zones) + Len(Logs)
      /\ \A z \in 1..Len(Zones) : Starts[z] = Zones[z]
      /\ \A z \in 1..Len(Logs) : Starts[z + Len(Zones)] = Logs[z]
  BY <1>1 DEF Starts
<1>3. Threads = {Starts[i] : i \in DOMAIN Starts}
  <2>1. DOMAIN Starts = 1..(Len(Zones) + Len(Logs)) /\ DOMAIN Zones = 1..Len(Zones)
        /\ DOMAIN Logs = 1..Len(Logs) /\ Len(Zones) \in Nat /\ Len(Logs) \in Nat
    BY <1>1, <1>2
  <2>2. ASSUME NEW s \in Threads PROVE \E i \in DOMAIN Starts : s = Starts[i]
    <3>1. CASE s \in ToSet(Zones)
      BY <1>2, <2>1, <3>1 DEF ToSet
    <3>2. CASE s \in ToSet(Logs)
      <4>1. PICK z \in 1..Len(Logs) : s = Logs[z]
        BY <2>1, <3>2 DEF ToSet
      <4>2. z + Len(Zones) \in DOMAIN Starts
        BY <2>1
      <4> QED BY <1>2, <4>1, <4>2
    <3> QED BY <3>1, <3>2 DEF Threads
  <2>3. ASSUME NEW i \in DOMAIN Starts PROVE Starts[i] \in Threads
    <3>1. CASE i <= Len(Zones)
      BY <1>2, <2>1, <3>1 DEF Threads, ToSet
    <3>2. CASE ~(i <= Len(Zones))
      <4>1. i - Len(Zones) \in 1..Len(Logs) /\ (i - Len(Zones)) + Len(Zones) = i
        BY <2>1, <3>2
      <4>2. Starts[i] = Logs[i - Len(Zones)]
        BY <1>2, <4>1
      <4> QED BY <2>1, <4>1, <4>2 DEF Threads, ToSet
    <3> QED BY <3>1, <3>2
  <2> QED BY <2>2, <2>3
<1> QED BY <1>1, <1>2, <1>3

(* create_and_push_msg_node puts a message behind all others ... *)
LEMMA LinkedFacts ==
  ASSUME NEW f \in Service(Message), Linear(f), NEW m \in Message,
         \A j \in DOMAIN f.list : f.list[j].number < m.number
  PROVE  LET g == Linked(f, m)
         IN  /\ g \in Service(Message) /\ Linear(g) /\ g.list = Append(f.list, m)
             /\ g.state = f.state /\ g.thread = f.thread /\ g.freed = f.freed
<1> DEFINE list == Append(f.list, m)
           g == [f EXCEPT !.list = list, !.tail = m]
<1>1. f.list \in Seq(Message) /\ NULL \notin Message
  BY DbServerAssumption DEF Service
<1>2. list \in Seq(Message) /\ list # <<>> /\ list[Len(list)] = m
      /\ Len(list) = Len(f.list) + 1 /\ \A j \in 1..Len(f.list) : list[j] = f.list[j]
  BY <1>1
<1>3. Linked(f, m) = g
  <2>1. CASE f.list = <<>>
    <3>1. list = <<m>>
      BY <2>1
    <3>2. f.tail = NULL
      BY <2>1 DEF Linear
    <3> QED BY <3>1, <3>2 DEF Linked, Service
  <2>2. CASE f.list # <<>>
    <3>1. f.tail = f.list[Len(f.list)] /\ f.tail # NULL
      BY <1>1, <2>2 DEF Linear
    <3> QED BY <2>2, <3>1 DEF Linked, Service
  <2> QED BY <2>1, <2>2
<1> HIDE DEF list
<1>4. /\ g \in Service(Message) /\ g.list = list /\ g.tail = m
      /\ g.state = f.state /\ g.thread = f.thread /\ g.freed = f.freed
  BY <1>1, <1>2 DEF Service
<1> HIDE DEF g
<1>5. Linear(g)
  <2> SUFFICES ASSUME NEW i \in DOMAIN list, NEW j \in DOMAIN list, i < j
               PROVE  list[i].number < list[j].number
    BY <1>2, <1>4 DEF Linear
  <2>1. i \in 1..Len(f.list) /\ (j \in 1..Len(f.list) \/ j = Len(list))
    BY <1>1, <1>2
  <2>2. CASE j \in 1..Len(f.list)
    BY <1>1, <1>2, <2>1, <2>2 DEF Linear
  <2>3. CASE j = Len(list)
    BY <1>1, <1>2, <2>1, <2>3
  <2> QED BY <2>1, <2>2, <2>3
<1> QED BY <1>3, <1>4, <1>5 DEF list

(* ... and lua_service_pop_msg takes the first. *)
LEMMA UnlinkedFacts ==
  ASSUME NEW f \in Service(Message), Linear(f), f.list # <<>>
  PROVE  LET g == Unlinked(f)
         IN  /\ g \in Service(Message) /\ Linear(g) /\ g.list = Tail(f.list)
             /\ g.state = f.state /\ g.thread = f.thread /\ g.freed = f.freed
<1> DEFINE list == Tail(f.list)
           tail == IF f.tail = Head(f.list) THEN NULL ELSE f.tail
           g == [f EXCEPT !.list = list, !.tail = tail]
<1>1. f.list \in Seq(Message) /\ Head(f.list) = f.list[1] /\ f.tail = f.list[Len(f.list)]
      /\ Len(f.list) \in Nat \ {0} /\ DOMAIN f.list = 1..Len(f.list)
  BY DEF Service, Linear
<1>2. list \in Seq(Message) /\ Len(list) = Len(f.list) - 1 /\ DOMAIN list = 1..Len(list)
      /\ \A j \in 1..Len(list) : list[j] = f.list[j + 1] /\ j + 1 \in DOMAIN f.list
  BY <1>1
<1>3. Unlinked(f) = g
  BY DEF Unlinked, Service
<1>4. tail = IF list = <<>> THEN NULL ELSE list[Len(list)]
  <2>1. CASE Len(f.list) = 1
    BY <1>1, <1>2, <2>1
  <2>2. CASE Len(f.list) # 1
    <3>00. \A k \in Nat \ {0} : k # 1 => k > 1 /\ k - 1 \in 1..(k - 1)
      OBVIOUS
    <3>01. Len(f.list) \in Nat \ {0}
      BY <1>1
    <3>0. PICK k \in Nat : k = Len(f.list) /\ k > 1 /\ k - 1 \in 1..(k - 1)
      BY ONLY <2>2, <3>00, <3>01
    <3>1. f.list[1].number < f.list[Len(f.list)].number
      <4>1. 1 \in DOMAIN f.list /\ k \in DOMAIN f.list /\ 1 < k
        BY <1>1, <3>0
      <4> QED BY ONLY <3>0, <4>1, Linear(f) DEF Linear
    <3>2. f.list[1] \in Message /\ f.list[Len(f.list)] \in Message
      BY <1>1
    <3>3. f.list[1] # f.list[Len(f.list)]
      BY <3>1, <3>2 DEF Message
    <3>4. list # <<>> /\ list[Len(list)] = f.list[Len(f.list)]
      <4>1. Len(list) \in 1..Len(list) /\ Len(list) + 1 = Len(f.list)
        BY ONLY <1>2, <3>0
      <4> HIDE DEF list
      <4> QED BY <1>2, <4>1
    <3> QED BY <1>1, <3>3, <3>4
  <2> QED BY <2>1, <2>2
<1>5. tail \in Message \cup {NULL}
  BY DEF Service
<1> HIDE DEF list, tail
<1>6. /\ g \in Service(Message) /\ g.list = list /\ g.tail = tail
      /\ g.state = f.state /\ g.thread = f.thread /\ g.freed = f.freed
  BY <1>2, <1>5 DEF Service
<1> HIDE DEF g
<1>7. Linear(g)
  <2>1. ASSUME NEW i \in DOMAIN list, NEW j \in DOMAIN list, i < j
        PROVE  list[i].number < list[j].number
    <3>1. /\ i + 1 \in DOMAIN f.list /\ j + 1 \in DOMAIN f.list /\ i + 1 < j + 1
          /\ list[i] = f.list[i + 1] /\ list[j] = f.list[j + 1]
      BY <1>1, <1>2, <2>1
    <3> QED BY <3>1 DEF Linear
  <2> QED BY <1>4, <1>6, <2>1 DEF Linear
<1> QED BY <1>3, <1>6, <1>7 DEF list

(* The statements that wait, when a message comes ... *)
LEMMA AwaitedLinked ==
  ASSUME NEW f \in Service(Message), NEW g, NEW m, g.list = Append(f.list, m)
  PROVE  Awaited(g) = (Awaited(f) \cup {m.number}) \ {0}
<1>1. f.list \in Seq(Message)
  BY DEF Service
<1>2. /\ DOMAIN g.list = (DOMAIN f.list) \cup {Len(f.list) + 1}
      /\ \A j \in DOMAIN f.list : g.list[j] = f.list[j]
      /\ g.list[Len(f.list) + 1] = m
  BY <1>1
<1> QED BY ONLY <1>2 DEF Awaited

(* ... and when the first is taken. *)
LEMMA AwaitedUnlinked ==
  ASSUME NEW f \in Service(Message), Linear(f), f.list # <<>>, NEW g, g.list = Tail(f.list)
  PROVE  /\ Awaited(g) = Awaited(f) \ {f.list[1].number}
         /\ f.list[1].number # 0 => f.list[1].number \in Awaited(f)
         /\ \A n \in Awaited(g) : f.list[1].number < n
<1>1. f.list \in Seq(Message)
  BY DEF Service
<1> DEFINE m == Len(f.list)
<1>2. /\ DOMAIN f.list = 1..m /\ m \in Nat \ {0} /\ DOMAIN g.list = 1..(m - 1)
      /\ \A j \in 1..(m - 1) : g.list[j] = f.list[j + 1]
  BY <1>1
<1>3. \A j \in 1..m : 1 < j => f.list[1].number < f.list[j].number
  BY <1>2 DEF Linear
<1>4. \A j \in 1..m : f.list[j].number \in Nat
  <2>1. \A j \in 1..m : f.list[j] \in Message
    BY <1>1, <1>2
  <2> QED BY ONLY <2>1 DEF Message
<1> HIDE DEF m
<1>5. ASSUME NEW n \in Awaited(g) PROVE n \in Awaited(f) /\ f.list[1].number < n
  <2>1. PICK j \in 1..(m - 1) : n = g.list[j].number /\ n # 0
    BY <1>2 DEF Awaited
  <2>2. j + 1 \in 1..m /\ 1 < j + 1 /\ n = f.list[j + 1].number
    BY <1>2, <2>1
  <2> QED BY ONLY <1>2, <1>3, <2>1, <2>2 DEF Awaited
<1>6. ASSUME NEW n \in Awaited(f), n # f.list[1].number PROVE n \in Awaited(g)
  <2>1. PICK j \in 1..m : n = f.list[j].number /\ n # 0
    BY <1>2 DEF Awaited
  <2>2. j # 1
    BY <1>6, <2>1
  <2>3. j - 1 \in 1..(m - 1) /\ (j - 1) + 1 = j
    BY ONLY <1>2, <2>2, j \in 1..m
  <2>4. n = g.list[j - 1].number
    BY <1>2, <2>1, <2>3
  <2> QED BY ONLY <1>2, <2>1, <2>3, <2>4 DEF Awaited
<1>7. f.list[1].number # 0 => f.list[1].number \in Awaited(f)
  BY <1>2 DEF Awaited
<1>8. f.list[1].number \notin Awaited(g)
  BY <1>2, <1>4, <1>5
<1> QED BY <1>5, <1>6, <1>7, <1>8

-----------------------------------------------------------------------------
(* A step that leaves a service and its thread alone. *)
LEMMA LineKept ==
  ASSUME UNCHANGED load, Serving' => Serving,
         \A n \in Handed : n \in Handed' /\ Of(n)' = Of(n),
         NEW i \in DOMAIN Starts, Line(i),
         services'[Starts[i]] = services[Starts[i]], pc'[Starts[i]] = pc[Starts[i]],
         Made(i)' <=> Made(i), Up(i)' <=> Up(i),
         main' = <<"params", i>> => main = <<"params", i>>,
         main' = <<"thread", i>> => main = <<"thread", i>>
  PROVE  Line(i)'
<1>1. Starts' = Starts
  BY DEF Starts, Zones, Logs
<1>2. PICK f, p : f = services[Starts[i]] /\ p = pc[Starts[i]]
  OBVIOUS
<1>3. Existing(i, f, p) => Existing(i, f, p)'
  <2>1. Parameters(i, f, p) => Parameters(i, f, p)'
    BY DEF Parameters
  <2> QED BY <1>1, <2>1 DEF Existing
<1> QED BY <1>1, <1>2, <1>3 DEF Line

(* A thread runs only in a service that exists. *)
LEMMA RunningLine ==
  ASSUME IInv, NEW i \in DOMAIN Starts, pc[Starts[i]] \in Live
  PROVE  Up(i) /\ Made(i) /\ Existing(i, services[Starts[i]], pc[Starts[i]])
<1>1. Line(i) /\ main[2] \in Int /\ i \in Int
  BY LoadFacts DEF IInv, Lines, Places, Typed, StopOrder, JoinOrder
<1>2. Up(i)
  BY <1>1 DEF Line, Live
<1>3. Made(i)
  BY <1>1, <1>2 DEF Up, Made
<1> QED BY <1>1, <1>2, <1>3 DEF Line

(* Steps of the thread of a service that leave the script alone. *)
LEMMA ThreadStep ==
  ASSUME IInv, UNCHANGED <<load, main, received>>,
         NEW i \in DOMAIN Starts, pc[Starts[i]] \in Live,
         NEW f, services' = [services EXCEPT ![Starts[i]] = f],
         NEW p \in Live \cup {"ended"}, pc' = [pc EXCEPT ![Starts[i]] = p],
         Existing(i, f, p), executed' \in Seq(Message), Order', Complete'
  PROVE  IInv'
<1>1. /\ Starts \in Seq(Services \ {Shared})
      /\ \A j, k \in DOMAIN Starts : Starts[j] = Starts[k] => j = k
  BY LoadFacts DEF IInv, Typed
<1>2. Starts[i] \in Services /\ Starts[i] # Shared
  BY <1>1
<1>3. services \in [Services -> Service(Message) \cup {NULL}]
      /\ pc \in [Services -> {"none", "ended"} \cup Live]
  BY DEF IInv, Typed
<1>4. /\ services'[Starts[i]] = f /\ pc'[Starts[i]] = p
      /\ \A s \in Services \ {Starts[i]} : services'[s] = services[s] /\ pc'[s] = pc[s]
  BY <1>2, <1>3
<1>5. Starts' = Starts /\ Zones' = Zones /\ StopOrder' = StopOrder /\ JoinOrder' = JoinOrder
  BY DEF Starts, Zones, Logs, StopOrder, JoinOrder
<1>6. Typed'
  <2>1. f \in Service(Message)
    BY DEF Existing
  <2>2. services' \in [Services -> Service(Message) \cup {NULL}]
        /\ pc' \in [Services -> {"none", "ended"} \cup Live]
    BY <1>2, <1>3, <2>1
  <2> QED BY <1>5, <2>2 DEF Typed, IInv
<1>7. Places' /\ Routed'
  BY <1>5 DEF IInv, Places, Routed
<1>8. Lines'
  <2> SUFFICES ASSUME NEW j \in DOMAIN Starts PROVE Line(j)'
    BY <1>5 DEF Lines
  <2>1. Line(j) /\ (Made(j)' <=> Made(j)) /\ (Up(j)' <=> Up(j)) /\ (Serving' <=> Serving)
    BY DEF IInv, Lines, Made, Up, Serving
  <2>2. \A n \in Handed : n \in Handed' /\ Of(n)' = Of(n)
    BY <1>5 DEF Handed, Of
  <2>3. CASE j # i
    <3>1. Starts[j] \in Services \ {Starts[i]}
      BY <1>1, <2>3
    <3> QED BY <1>4, <2>1, <2>2, <3>1, LineKept
  <2>4. CASE j = i
    <3>1. Existing(i, f, p)'
      BY <1>5 DEF Existing, Parameters, Linear, Awaited, Handed, Of, Serving
    <3>2. Up(i) /\ Made(i)
      BY RunningLine
    <3> QED BY <1>4, <1>5, <2>1, <2>4, <3>1, <3>2 DEF Line, Live
  <2> QED BY <2>3, <2>4
<1>9. Joined'
  <2>1. /\ services[Shared] \in Service(Message) /\ services'[Shared] = services[Shared]
        /\ services[Shared].freed => main[1] = "done"
    BY <1>2, <1>4, DbServerAssumption DEF IInv, Joined
  <2>2. ASSUME main[1] \in {"join", "done"}, NEW j \in DOMAIN Starts,
               main[1] = "done" \/ j < main[2]
        PROVE  pc'[Starts[j]] = "ended"
    <3>1. pc[Starts[j]] = "ended"
      BY <2>2 DEF IInv, Joined
    <3>2. Starts[j] \in Services \ {Starts[i]}
      BY <1>1, <3>1 DEF Live
    <3> QED BY <1>4, <3>1, <3>2
  <2> QED BY <1>5, <2>1, <2>2 DEF Joined
<1> QED BY <1>6, <1>7, <1>8, <1>9 DEF IInv

(* The lists of statements do not change, or only by parameters. *)
LEMMA QuietStep ==
  ASSUME IInv, UNCHANGED <<load, main, received, executed>>,
         NEW i \in DOMAIN Starts, Made(i),
         NEW f, services' = [services EXCEPT ![Starts[i]] = f],
         Awaited(f) = Awaited(services[Starts[i]])
  PROVE  Order' /\ Complete' /\ executed' \in Seq(Message)
<1>1. /\ Starts \in Seq(Services \ {Shared})
      /\ services \in [Services -> Service(Message) \cup {NULL}]
  BY LoadFacts DEF IInv, Typed
<1>2. \A j \in DOMAIN Starts : Awaited(services'[Starts[j]]) = Awaited(services[Starts[j]])
  BY <1>1
<1>3. Starts' = Starts /\ Zones' = Zones /\ (Serving' <=> Serving)
      /\ \A j : Made(j)' <=> Made(j)
  BY DEF Starts, Zones, Logs, Serving, Made
<1>4. Handed' = Handed /\ \A n : Of(n)' = Of(n)
  BY <1>3 DEF Handed, Of
<1>5. \A j \in DOMAIN Starts : Awaited(services[Starts[j]])' = Awaited(services[Starts[j]])
  BY <1>2, <1>3 DEF Awaited
<1> QED BY <1>3, <1>4, <1>5 DEF Order, Complete, IInv, Typed

(* A thread takes its parameters, or none when the service was stopped. *)
LEMMA BootStep ==
  ASSUME IInv, NEW i \in DOMAIN Starts, Boot(Starts[i])
  PROVE  IInv'
<1> DEFINE s == Starts[i]
<1>1. /\ pc[s] = "boot" /\ pc' = [pc EXCEPT ![s] = "check"]
      /\ UNCHANGED <<load, main, received, executed>>
  BY DEF Boot, Step
<1>2. Made(i) /\ Existing(i, services[s], "boot") /\ pc[s] \in Live
  BY <1>1, RunningLine DEF Live
<1>3. services \in [Services -> Service(Message) \cup {NULL}]
  BY DEF IInv, Typed
<1>4. PICK g : g = services[s]
  OBVIOUS
<1>5. g \in Service(Message) /\ Linear(g) /\ g.list # <<>> /\ g.list[1].number = 0
  BY <1>2, <1>4 DEF Existing, Parameters
<1>6. PICK f : /\ services' = [services EXCEPT ![s] = f]
               /\ (f = Unlinked(g) /\ g.state) \/ (f = g /\ ~g.state)
  <2>1. CASE PopMsg(s)
    <3>1. services[s].state /\ services' = [services EXCEPT ![s] = Unlinked(services[s])]
      BY <2>1 DEF PopMsg, CanPop, Becomes
    <3>2. g.state
      BY ONLY <1>4, <3>1
    <3>3. services' = [services EXCEPT ![s] = Unlinked(g)]
      BY ONLY <1>4, <3>1
    <3> QED BY ONLY <3>2, <3>3
  <2>2. CASE PopNothing(s)
    BY <1>3, <1>4, <1>5, <2>2 DEF PopNothing, CanPop
  <2> QED BY <2>1, <2>2 DEF Boot
<1>7. /\ f \in Service(Message) /\ Linear(f) /\ Awaited(f) = Awaited(g)
      /\ f.state = g.state /\ f.thread = g.thread /\ f.freed = g.freed
      /\ f.state => \A j \in DOMAIN f.list : f.list[j].number # 0
  <2>1. CASE f = Unlinked(g) /\ g.state
    <3>1. f \in Service(Message) /\ Linear(f) /\ f.list = Tail(g.list)
          /\ f.state = g.state /\ f.thread = g.thread /\ f.freed = g.freed
      BY <1>5, <2>1, UnlinkedFacts
    <3>2. Awaited(f) = Awaited(g) \ {0}
      BY <1>5, <3>1, AwaitedUnlinked
    <3>3. \A j \in DOMAIN f.list : f.list[j].number # 0
      <4>1. g.list \in Seq(Message)
        BY <1>5 DEF Service
      <4>2. \A j \in DOMAIN f.list : j + 1 \in DOMAIN g.list /\ f.list[j] = g.list[j + 1]
                                     /\ 1 \in DOMAIN g.list /\ 1 < j + 1
        BY <1>5, <3>1, <4>1
      <4>3. \A j \in DOMAIN f.list : g.list[1].number < f.list[j].number
        BY <1>5, <4>2 DEF Linear
      <4> QED BY <1>5, <4>3
    <3>4. 0 \notin Awaited(g)
      BY DEF Awaited
    <3> QED BY <3>1, <3>2, <3>3, <3>4
  <2>2. CASE f = g /\ ~g.state
    BY <1>5, <2>2
  <2> QED BY <1>6, <2>1, <2>2
<1>8. Existing(i, f, "check")
  <2>1. Parameters(i, f, "check")
    <3>1. Up(i)
      BY <1>2, RunningLine
    <3>2. main # <<"params", i>> /\ main # <<"thread", i>>
      BY <3>1 DEF Up, IInv, Places
    <3> QED BY <1>7, <3>2 DEF Parameters
  <2> QED BY <1>2, <1>4, <1>7, <2>1 DEF Existing
<1>9. Order' /\ Complete' /\ executed' \in Seq(Message)
  BY <1>1, <1>2, <1>4, <1>6, <1>7, QuietStep
<1> QED BY <1>1, <1>2, <1>6, <1>8, <1>9, ThreadStep DEF Live

(* A thread that goes on and leaves its list alone. *)
LEMMA GoOn ==
  ASSUME IInv, UNCHANGED <<load, services, main, received, executed>>,
         NEW i \in DOMAIN Starts, pc[Starts[i]] \in Live \ {"boot"},
         NEW p \in Live \ {"boot"}, pc' = [pc EXCEPT ![Starts[i]] = p]
  PROVE  IInv'
<1> DEFINE s == Starts[i]
<1>1. PICK f : f = services[s]
  OBVIOUS
<1>2. services' = [services EXCEPT ![s] = f]
  BY <1>1 DEF IInv, Typed
<1>3. Made(i) /\ Existing(i, f, pc[s])
  BY <1>1, RunningLine
<1>4. Existing(i, f, p)
  <2>1. Parameters(i, f, p)
    BY <1>3 DEF Existing, Parameters
  <2> QED BY <1>3, <2>1 DEF Existing, Live
<1>5. Order' /\ Complete' /\ executed' \in Seq(Message)
  BY <1>1, <1>2, <1>3, QuietStep
<1> QED BY <1>2, <1>4, <1>5, ThreadStep

(* A thread ends only in a service that was stopped. *)
LEMMA CheckStep ==
  ASSUME IInv, NEW i \in DOMAIN Starts, Check(Starts[i])
  PROVE  IInv'
<1> DEFINE s == Starts[i]
<1>1. pc[s] = "check" /\ UNCHANGED <<load, main, received, executed>>
  BY DEF Check, Step
<1>2. PICK g : g = services[s]
  OBVIOUS
<1>3. Made(i) /\ Existing(i, g, "check")
  BY <1>1, <1>2, RunningLine DEF Live
<1>4. CASE services' = services /\ pc' = [pc EXCEPT ![s] = "own"]
  BY <1>1, <1>4, GoOn DEF Live
<1>5. CASE ~g.state /\ pc' = [pc EXCEPT ![s] = "ended"] /\ ThreadEnd(s)
  <2>1. PICK f : f = [g EXCEPT !.thread = "ended"]
    OBVIOUS
  <2>2. services' = [services EXCEPT ![s] = f]
    BY <1>2, <1>5, <2>1 DEF ThreadEnd, Becomes
  <2>3. /\ f \in Service(Message) /\ f.list = g.list /\ f.tail = g.tail /\ f.thread = "ended"
        /\ f.state = g.state /\ f.freed = g.freed
    BY <1>3, <2>1 DEF Existing, Service
  <2>4. Awaited(f) = Awaited(g) /\ Linear(f)
    BY <1>3, <2>3 DEF Awaited, Existing, Linear
  <2>5. ~Serving
    BY <1>3, <1>5 DEF Existing
  <2>6. Existing(i, f, "ended")
    <3>1. Parameters(i, f, "ended")
      BY <1>3, <2>3 DEF Existing, Parameters, Live
    <3> QED BY <1>3, <2>3, <2>4, <2>5, <3>1 DEF Existing
  <2>7. Order' /\ Complete' /\ executed' \in Seq(Message)
    BY <1>1, <1>2, <1>3, <2>2, <2>4, QuietStep
  <2> QED BY <1>1, <1>5, <2>2, <2>6, <2>7, ThreadStep DEF Live
<1>6. \/ services' = services /\ pc' = [pc EXCEPT ![s] = "own"]
      \/ ~g.state /\ pc' = [pc EXCEPT ![s] = "ended"] /\ ThreadEnd(s)
  BY <1>2 DEF Check, Step, IsRun
<1> QED BY <1>4, <1>5, <1>6

(* A thread that takes a statement and executes it. *)
LEMMA TakeStep ==
  ASSUME IInv, NEW i \in DOMAIN Starts, pc[Starts[i]] = "own", PopMsg(Starts[i]),
         pc' = [pc EXCEPT ![Starts[i]] = "work"],
         executed' = Append(executed, Head(services[Starts[i]].list)),
         UNCHANGED <<load, main, received, hand>>
  PROVE  IInv'
<1> DEFINE s == Starts[i]
<1>1. PICK g : g = services[s]
  OBVIOUS
<1>2. Made(i) /\ Existing(i, g, "own")
  BY <1>1, RunningLine DEF Live
<1>3. g \in Service(Message) /\ Linear(g) /\ g.state /\ g.list # <<>>
  BY <1>1, <1>2 DEF Existing, PopMsg, CanPop
<1>4. PICK f : f = Unlinked(g)
  OBVIOUS
<1>5. services' = [services EXCEPT ![s] = f]
  BY <1>1, <1>4 DEF PopMsg, Becomes
<1>6. PICK msg : msg = Head(g.list)
  OBVIOUS
<1>7. /\ f \in Service(Message) /\ Linear(f) /\ f.list = Tail(g.list)
      /\ f.state = g.state /\ f.thread = g.thread /\ f.freed = g.freed
  BY <1>3, <1>4, UnlinkedFacts
<1>8. /\ msg \in Message /\ msg.number # 0 /\ msg = g.list[1]
      /\ \A j \in DOMAIN f.list : f.list[j].number # 0
  <2>1. g.list \in Seq(Message)
    BY <1>3 DEF Service
  <2>2. /\ 1 \in DOMAIN g.list /\ msg = g.list[1] /\ msg \in Message
        /\ \A j \in DOMAIN f.list : j + 1 \in DOMAIN g.list /\ f.list[j] = g.list[j + 1]
    BY <1>3, <1>6, <1>7, <2>1
  <2>3. \A j \in DOMAIN g.list : g.list[j].number # 0
    BY <1>2, <1>3 DEF Existing, Parameters, Live
  <2> QED BY <2>2, <2>3
<1>9. /\ Awaited(f) = Awaited(g) \ {msg.number} /\ msg.number \in Awaited(g)
      /\ \A n \in Awaited(f) : msg.number < n
  BY <1>3, <1>7, <1>8, AwaitedUnlinked
<1>10. Existing(i, f, "work")
  <2>1. Parameters(i, f, "work")
    <3>1. Up(i)
      BY RunningLine DEF Live
    <3>2. i \in Int
      BY LoadFacts DEF IInv, Typed
    <3>3. main # <<"params", i>> /\ main # <<"thread", i>>
      BY ONLY <3>1, <3>2 DEF Up
    <3> QED BY <1>8, <3>3 DEF Parameters
  <2> QED BY <1>2, <1>7, <1>9, <2>1 DEF Existing, Live
<1>11. /\ Starts' = Starts /\ Zones' = Zones /\ Handed' = Handed /\ (Serving' <=> Serving)
       /\ \A j : Made(j)' <=> Made(j)
       /\ \A n : Of(n)' = Of(n)
  BY DEF Starts, Zones, Logs, Handed, Of, Serving, Made
<1>12. /\ executed' \in Seq(Message) /\ DOMAIN executed' = DOMAIN executed \cup {Len(executed) + 1}
       /\ DOMAIN executed = 1..Len(executed) /\ Len(executed) \in Nat
       /\ executed'[Len(executed) + 1] = msg
       /\ \A k \in DOMAIN executed : executed'[k] = executed[k]
  BY <1>1, <1>6, <1>8 DEF IInv, Typed
<1>13. msg.number \in Handed /\ Of(msg.number) = s
  BY <1>2, <1>9 DEF Existing
<1>14. /\ Starts \in Seq(Services \ {Shared})
       /\ \A j, k \in DOMAIN Starts : Starts[j] = Starts[k] => j = k
       /\ services \in [Services -> Service(Message) \cup {NULL}]
  BY LoadFacts DEF IInv, Typed
<1>15. /\ \A n \in Awaited(services[s])' : n \in Awaited(g) /\ msg.number < n
       /\ \A n \in Awaited(g) \ {msg.number} : n \in Awaited(services[s])'
  <2>1. services'[s] = f
    BY <1>5, <1>14
  <2>2. Awaited(services[s])' = Awaited(f)
    BY <1>11, <2>1 DEF Awaited
  <2> QED BY <1>9, <2>2
<1>16. \A j \in DOMAIN Starts \ {i} : Awaited(services[Starts[j]])' = Awaited(services[Starts[j]])
  <2> SUFFICES ASSUME NEW j \in DOMAIN Starts \ {i}
               PROVE Awaited(services[Starts[j]])' = Awaited(services[Starts[j]])
    OBVIOUS
  <2>1. services'[Starts[j]] = services[Starts[j]]
    BY <1>5, <1>14
  <2> QED BY <1>11, <2>1 DEF Awaited
<1>17. Order'
  <2>1. ASSUME NEW k \in DOMAIN executed' PROVE executed'[k].number \in Handed'
    BY <1>11, <1>12, <1>13 DEF IInv, Order
  <2>2. ASSUME NEW j \in DOMAIN executed', NEW k \in DOMAIN executed', j < k,
               Of(executed'[j].number) = Of(executed'[k].number)
        PROVE  executed'[j].number < executed'[k].number
    <3>1. j \in DOMAIN executed
      BY <1>12, <2>2
    <3>2. CASE k \in DOMAIN executed
      BY <1>12, <2>2, <3>1, <3>2 DEF IInv, Order
    <3>3. CASE k = Len(executed) + 1
      <4>1. Of(executed[j].number) = s
        BY <1>12, <1>13, <2>2, <3>1, <3>3
      <4>2. executed[j].number < msg.number
        BY <1>1, <1>2, <1>9, <3>1, <4>1 DEF IInv, Order
      <4> QED BY <1>12, <3>1, <3>3, <4>2
    <3> QED BY <1>12, <3>2, <3>3
  <2>3. ASSUME NEW j \in DOMAIN Starts, Made(j), NEW k \in DOMAIN executed',
               Of(executed'[k].number) = Starts[j], NEW n \in Awaited(services[Starts[j]])'
        PROVE  executed'[k].number < n
    <3>1. CASE k \in DOMAIN executed
      <4>1. n \in Awaited(services[Starts[j]])
        BY <1>1, <1>15, <1>16, <2>3
      <4>2. executed'[k] = executed[k]
        BY <1>12, <3>1
      <4> QED BY <2>3, <3>1, <4>1, <4>2 DEF IInv, Order
    <3>2. CASE k = Len(executed) + 1
      <4>1. j = i
        BY <1>12, <1>13, <1>14, <2>3, <3>2
      <4> QED BY <1>12, <1>15, <2>3, <3>2, <4>1
    <3> QED BY <1>12, <3>1, <3>2
  <2> HIDE DEF s
  <2> QED BY <1>11, <2>1, <2>2, <2>3 DEF Order
<1>18. Complete'
  <2> SUFFICES ASSUME Serving, NEW n \in Handed
               PROVE  \/ \E k \in DOMAIN executed' : executed'[k].number = n
                      \/ \E j \in DOMAIN Starts : Made(j) /\ n \in Awaited(services[Starts[j]])'
    BY <1>11 DEF Complete
  <2>1. CASE \E k \in DOMAIN executed : executed[k].number = n
    BY <1>12, <2>1
  <2>2. ASSUME NEW j \in DOMAIN Starts, Made(j), n \in Awaited(services[Starts[j]])
        PROVE  \/ \E k \in DOMAIN executed' : executed'[k].number = n
               \/ n \in Awaited(services[Starts[j]])'
    <3>1. CASE n = msg.number
      BY <1>12, <3>1
    <3>2. CASE n # msg.number
      BY <1>1, <1>15, <1>16, <2>2, <3>2
    <3> QED BY <3>1, <3>2
  <2> QED BY <2>1, <2>2 DEF IInv, Complete
<1> QED BY <1>5, <1>10, <1>12, <1>17, <1>18, ThreadStep DEF Live

(* Every step of a thread. *)
LEMMA ThreadSteps ==
  ASSUME IInv, NEW s \in Threads, Thread(s)
  PROVE  IInv'
<1>1. PICK i \in DOMAIN Starts : s = Starts[i]
  BY LoadFacts DEF IInv, Typed
<1>2. CASE Own(s)
  <2>1. CASE Step(s, "own", "work") /\ PopMsg(s) /\ executed' = Append(executed, Head(services[s].list))
    BY <1>1, <1>2, <2>1, TakeStep DEF Own, Step
  <2>2. CASE PopNothing(s) /\ UNCHANGED executed
             /\ Step(s, "own", IF KnowsShared(s) THEN "shared" ELSE "check")
    BY <1>1, <1>2, <2>2, GoOn DEF Own, PopNothing, Step, Live
  <2> QED BY <1>2, <2>1, <2>2 DEF Own
<1>3. CASE Worked(s)
  BY <1>1, <1>3, GoOn DEF Worked, Step, Live
<1>4. CASE PopShared(s)
  BY <1>1, <1>4, GoOn DEF PopShared, PopNothing, Step, Live
<1> QED BY <1>1, <1>2, <1>3, <1>4, BootStep, CheckStep DEF Thread

-----------------------------------------------------------------------------
(* Steps of the script that touch at most the i-th service. *)
LEMMA ScriptStep ==
  ASSUME IInv, UNCHANGED <<load, executed>>, Typed', Places', Routed', Joined',
         Serving' => Serving, Handed' = Handed, \A n \in Handed : Of(n)' = Of(n),
         NEW i,
         \A j \in DOMAIN Starts : j # i =>
           /\ services'[Starts[j]] = services[Starts[j]] /\ pc'[Starts[j]] = pc[Starts[j]]
           /\ (Made(j)' <=> Made(j)) /\ (Up(j)' <=> Up(j))
           /\ main' # <<"params", j>> /\ main' # <<"thread", j>>,
         i \in DOMAIN Starts => Line(i)',
         i \in DOMAIN Starts /\ Made(i) => 
           /\ Made(i)'
           /\ Awaited(services[Starts[i]])' \subseteq Awaited(services[Starts[i]])
           /\ Serving' => Awaited(services[Starts[i]])' = Awaited(services[Starts[i]]),
         i \in DOMAIN Starts /\ ~Made(i) => Awaited(services[Starts[i]])' = {}
  PROVE  IInv'
<1>1. Starts' = Starts
  BY DEF Starts, Zones, Logs
<1>2. Lines'
  <2> SUFFICES ASSUME NEW j \in DOMAIN Starts, j # i PROVE Line(j)'
    BY <1>1 DEF Lines
  <2>1. Line(j)
    BY DEF IInv, Lines
  <2> QED BY <2>1, LineKept
<1>3. \A j \in DOMAIN Starts \ {i} : Awaited(services[Starts[j]])' = Awaited(services[Starts[j]])
  <2> SUFFICES ASSUME NEW j \in DOMAIN Starts \ {i}
               PROVE Awaited(services[Starts[j]])' = Awaited(services[Starts[j]])
    OBVIOUS
  <2> QED BY <1>1 DEF Awaited
<1>4. Order'
  <2>1. ASSUME NEW k \in DOMAIN executed PROVE executed[k].number \in Handed'
    BY DEF IInv, Order
  <2>2. \A k \in DOMAIN executed : Of(executed[k].number)' = Of(executed[k].number)
    <3> SUFFICES ASSUME NEW k \in DOMAIN executed
                 PROVE Of(executed[k].number)' = Of(executed[k].number)
      OBVIOUS
    <3>1. PICK n \in Handed : n = executed[k].number
      BY DEF IInv, Order
    <3>2. Of(n)' = Of(n)
      BY <3>1
    <3> QED BY <3>1, <3>2
  <2>3. ASSUME NEW j \in DOMAIN Starts, Made(j)', NEW k \in DOMAIN executed,
               Of(executed[k].number)' = Starts[j], NEW n \in Awaited(services[Starts[j]])'
        PROVE  executed[k].number < n
    <3>1. Made(j) /\ n \in Awaited(services[Starts[j]])
      BY <1>3, <2>3
    <3> QED BY <2>2, <2>3, <3>1 DEF IInv, Order
  <2> QED BY <1>1, <2>1, <2>2, <2>3 DEF Order, IInv
<1>5. Complete'
  <2> SUFFICES ASSUME Serving', NEW n \in Handed
               PROVE  \/ \E k \in DOMAIN executed : executed[k].number = n
                      \/ \E j \in DOMAIN Starts : Made(j)' /\ n \in Awaited(services[Starts[j]])'
    BY <1>1 DEF Complete
  <2>1. ASSUME NEW j \in DOMAIN Starts, Made(j), n \in Awaited(services[Starts[j]])
        PROVE  Made(j)' /\ n \in Awaited(services[Starts[j]])'
    BY <1>3, <2>1
  <2> QED BY <2>1 DEF IInv, Complete
<1> QED BY <1>2, <1>4, <1>5 DEF IInv

(* Steps of the script that change the i-th service, or start its thread. *)
LEMMA TouchStep ==
  ASSUME IInv, UNCHANGED <<load, received, executed>>, Places', main[1] # "done",
         Serving' => Serving, Handed' = Handed,
         NEW i \in DOMAIN Starts,
         NEW f, services' = [services EXCEPT ![Starts[i]] = f],
         NEW p \in {"none", "ended"} \cup Live, pc' = [pc EXCEPT ![Starts[i]] = p],
         Made(i)', Existing(i, f, p)', p = "none" <=> ~(Up(i)'),
         Awaited(f) \subseteq IF Made(i) THEN Awaited(services[Starts[i]]) ELSE {},
         Serving' /\ Made(i) => Awaited(f) = Awaited(services[Starts[i]]),
         \A j \in DOMAIN Starts : j # i =>
           /\ (Made(j)' <=> Made(j)) /\ (Up(j)' <=> Up(j))
           /\ main' # <<"params", j>> /\ main' # <<"thread", j>>,
         main'[1] \in {"join", "done"} => \A j \in DOMAIN Starts :
           main'[1] = "done" \/ j < main'[2] =>
             (j = i /\ p = "ended") \/ (j # i /\ main[1] = "join" /\ j < main[2])
  PROVE  IInv'
<1>1. Starts' = Starts /\ Zones' = Zones /\ Loads[load]' = Loads[load] /\ \A n : Of(n)' = Of(n)
  BY DEF Starts, Zones, Logs, Of
<1>2. /\ Starts \in Seq(Services \ {Shared})
      /\ \A j, k \in DOMAIN Starts : Starts[j] = Starts[k] => j = k
      /\ services \in [Services -> Service(Message) \cup {NULL}]
      /\ pc \in [Services -> {"none", "ended"} \cup Live]
      /\ Shared \in Services
  BY LoadFacts, DbServerAssumption DEF IInv, Typed
<1>3. /\ services'[Starts[i]] = f /\ pc'[Starts[i]] = p
      /\ \A s \in Services \ {Starts[i]} : services'[s] = services[s] /\ pc'[s] = pc[s]
  BY <1>2
<1>4. /\ services'[Shared] = services[Shared]
      /\ \A j \in DOMAIN Starts : j # i =>
           services'[Starts[j]] = services[Starts[j]] /\ pc'[Starts[j]] = pc[Starts[j]]
  <2>1. Shared \in Services \ {Starts[i]}
    BY <1>2
  <2>2. \A j \in DOMAIN Starts : j # i => Starts[j] \in Services \ {Starts[i]}
    BY <1>2
  <2> QED BY <1>3, <2>1, <2>2
<1>5. f \in Service(Message)
  BY DEF Existing
<1>6. Typed'
  <2>1. services' \in [Services -> Service(Message) \cup {NULL}]
        /\ pc' \in [Services -> {"none", "ended"} \cup Live]
    BY <1>2, <1>5
  <2> QED BY <1>1, <2>1 DEF Typed, IInv
<1>7. Routed'
  BY <1>1 DEF IInv, Routed
<1>8. Joined'
  <2>1. services[Shared] \in Service(Message) /\ ~services[Shared].freed
    BY DEF IInv, Joined
  <2>2. ASSUME main'[1] \in {"join", "done"}, NEW j \in DOMAIN Starts,
               main'[1] = "done" \/ j < main'[2]
        PROVE  pc'[Starts[j]] = "ended"
    <3>1. CASE j = i /\ p = "ended"
      BY <1>3, <3>1
    <3>2. CASE j # i /\ main[1] = "join" /\ j < main[2]
      BY <1>4, <3>2 DEF IInv, Joined
    <3> QED BY <2>2, <3>1, <3>2
  <2> QED BY <1>1, <1>4, <2>1, <2>2 DEF Joined
<1>9. Line(i)'
  BY <1>1, <1>3 DEF Line
<1>10. Awaited(services[Starts[i]])' = Awaited(f)
  BY <1>1, <1>3 DEF Awaited
<1> QED BY <1>1, <1>4, <1>6, <1>7, <1>8, <1>9, <1>10, ScriptStep

(* lua_service_create: a new service is empty. *)
LEMMA CreateStep ==
  ASSUME IInv, NEW i \in DOMAIN Starts, StartCreate(i)
  PROVE  IInv'
<1> DEFINE s == Starts[i]
<1>1. /\ main = <<"start", i>> /\ main' = <<"params", i>> /\ services' = [services EXCEPT ![s] = Blank]
      /\ UNCHANGED <<load, received, pc, executed>>
  BY DEF StartCreate, At, Goto, Create, Becomes
<1>2. /\ Starts \in Seq(Services \ {Shared}) /\ pc \in [Services -> {"none", "ended"} \cup Live]
      /\ i \in Int /\ Line(i)
  BY LoadFacts DEF IInv, Typed, Lines
<1>3. pc[s] = "none" /\ pc' = [pc EXCEPT ![s] = "none"] /\ ~Made(i)
  <2>1. ~Up(i) /\ ~Made(i)
    BY <1>1, <1>2 DEF Up, Made
  <2> QED BY <1>1, <1>2, <2>1 DEF Line
<1>4. Handed' = Handed /\ Serving /\ Serving' /\ Starts' = Starts
  BY <1>1 DEF Handed, Serving, Starts, Zones, Logs
<1>5. Blank \in Service(Message) /\ Blank.list = <<>> /\ Awaited(Blank) = {}
      /\ Blank.state /\ ~Blank.freed /\ Blank.thread = "none" /\ Blank.tail = NULL
  BY DEF Blank, Service, Awaited
<1>6. Existing(i, Blank, "none")'
  <2>1. Linear(Blank)
    BY <1>5 DEF Linear
  <2>2. Parameters(i, Blank, "none")'
    BY <1>1, <1>5 DEF Parameters, Live
  <2>3. Awaited(Blank)' = {}
    BY <1>5 DEF Awaited
  <2> HIDE DEF Blank
  <2> QED BY <1>4, <1>5, <2>1, <2>2, <2>3 DEF Existing
<1>7. Made(i)' /\ ~(Up(i)')
  BY <1>1, <1>2 DEF Up, Made
<1>8. ASSUME NEW j \in DOMAIN Starts, j # i
      PROVE  /\ (Made(j)' <=> Made(j)) /\ (Up(j)' <=> Up(j))
             /\ main' # <<"params", j>> /\ main' # <<"thread", j>>
  <2>1. j \in Int
    BY <1>2
  <2> QED BY <1>1, <1>2, <1>8, <2>1 DEF Up, Made
<1>9. Places' /\ main[1] # "done" /\ main'[1] \notin {"join", "done"}
  BY <1>1, <1>4 DEF Places
<1> QED BY <1>1, <1>3, <1>4, <1>5, <1>6, <1>7, <1>8, <1>9, TouchStep

(* lua_service_run: the parameters go into the empty list. *)
LEMMA ParamsStep ==
  ASSUME IInv, NEW i \in DOMAIN Starts, StartParams(i)
  PROVE  IInv'
<1> DEFINE s == Starts[i]
           m == Params(s)
<1>0. PICK g : g = services[s]
  OBVIOUS
<1>1. /\ main = <<"params", i>> /\ main' = <<"thread", i>>
      /\ services' = [services EXCEPT ![s] = Linked(g, m)]
      /\ UNCHANGED <<load, received, pc, executed>>
  BY <1>0 DEF StartParams, At, Goto, RunParams, Becomes
<1>2. /\ Starts \in Seq(Services \ {Shared}) /\ pc \in [Services -> {"none", "ended"} \cup Live]
      /\ i \in Int /\ Line(i)
  BY LoadFacts DEF IInv, Typed, Lines
<1>3. pc[s] = "none" /\ pc' = [pc EXCEPT ![s] = "none"] /\ Made(i) /\ Existing(i, g, "none")
  <2>1. ~Up(i) /\ Made(i)
    BY <1>1, <1>2 DEF Up, Made
  <2> QED BY <1>0, <1>1, <1>2, <2>1 DEF Line
<1>4. Handed' = Handed /\ Serving /\ Serving' /\ Starts' = Starts
  BY <1>1 DEF Handed, Serving, Starts, Zones, Logs
<1>5. m \in Message /\ m.number = 0
  <2>1. Packed(ParamHeap, TRUE, ParamValues(s)) \in Seq(Int)
    BY DbServerAssumption DEF ParamValues
  <2> QED BY <2>1 DEF Params, Node, Message
<1> HIDE DEF m
<1>6. g.list = <<>> /\ g \in Service(Message) /\ Linear(g)
  BY <1>1, <1>3 DEF Existing, Parameters
<1>7. PICK f : f = Linked(g, m)
  OBVIOUS
<1>8. /\ f \in Service(Message) /\ Linear(f) /\ f.list = <<m>>
      /\ f.state = g.state /\ f.thread = g.thread /\ f.freed = g.freed
  BY <1>5, <1>6, <1>7, LinkedFacts
<1>9. Awaited(f) = {} /\ Awaited(g) = {}
  BY <1>5, <1>6, <1>8 DEF Awaited
<1>10. Existing(i, f, "none")'
  <2>1. Parameters(i, f, "none")'
    BY <1>1, <1>5, <1>8 DEF Parameters, Live
  <2>2. Awaited(f)' = {}
    BY <1>9 DEF Awaited
  <2>3. f.thread = "none" /\ f.state /\ ~f.freed
    BY <1>3, <1>4, <1>8 DEF Existing
  <2> QED BY <1>4, <1>8, <2>1, <2>2, <2>3 DEF Existing, Linear
<1>11. Made(i)' /\ ~(Up(i)')
  BY <1>1, <1>2 DEF Up, Made
<1>12. ASSUME NEW j \in DOMAIN Starts, j # i
       PROVE  /\ (Made(j)' <=> Made(j)) /\ (Up(j)' <=> Up(j))
              /\ main' # <<"params", j>> /\ main' # <<"thread", j>>
  <2>1. j \in Int
    BY <1>2
  <2> QED BY <1>1, <1>2, <1>12, <2>1 DEF Up, Made
<1>13. Places' /\ main[1] # "done" /\ main'[1] \notin {"join", "done"}
  BY <1>1, <1>4 DEF Places
<1> QED BY <1>0, <1>1, <1>3, <1>4, <1>7, <1>9, <1>10, <1>11, <1>12, <1>13, TouchStep

(* The thread runs, and finds the parameters. *)
LEMMA RunStep ==
  ASSUME IInv, NEW i \in DOMAIN Starts, StartThread(i)
  PROVE  IInv'
<1> DEFINE s == Starts[i]
<1>0. PICK g : g = services[s]
  OBVIOUS
<1>1. /\ main = <<"thread", i>> /\ main' = <<"flag", i>>
      /\ services' = [services EXCEPT ![s] = [g EXCEPT !.thread = "running"]]
      /\ pc' = [pc EXCEPT ![s] = "boot"]
      /\ UNCHANGED <<load, received, executed>>
  BY <1>0 DEF StartThread, At, Goto, RunThread, Becomes
<1>2. /\ Starts \in Seq(Services \ {Shared}) /\ i \in Int /\ Line(i)
  BY LoadFacts DEF IInv, Typed, Lines
<1>3. Made(i) /\ Existing(i, g, "none")
  <2>1. ~Up(i) /\ Made(i)
    BY <1>1, <1>2 DEF Up, Made
  <2> QED BY <1>0, <1>1, <1>2, <2>1 DEF Line
<1>4. Handed' = Handed /\ Serving /\ Serving' /\ Starts' = Starts /\ \A n : Of(n)' = Of(n)
  BY <1>1 DEF Handed, Serving, Starts, Zones, Logs, Of
<1>5. PICK f : f = [g EXCEPT !.thread = "running"]
  OBVIOUS
<1>6. /\ f \in Service(Message) /\ f.list = g.list /\ f.tail = g.tail /\ f.thread = "running"
      /\ f.state = g.state /\ f.freed = g.freed
  BY <1>3, <1>5 DEF Existing, Service
<1>7. Awaited(f) = Awaited(g) /\ Awaited(f)' = Awaited(g) /\ Linear(f)
  BY <1>3, <1>6 DEF Existing, Awaited, Linear
<1>8. Existing(i, f, "boot")'
  <2>1. Parameters(i, f, "boot")'
    <3>1. Len(g.list) = 1 /\ g.list[1].number = 0
      BY <1>1, <1>3 DEF Existing, Parameters
    <3> QED BY <1>1, <1>6, <3>1 DEF Parameters
  <2>2. \A n \in Awaited(f) : n \in Handed' /\ Of(n)' = Starts[i]
    BY <1>3, <1>4, <1>7 DEF Existing
  <2>3. f.state /\ ~f.freed
    BY <1>3, <1>4, <1>6 DEF Existing
  <2> QED BY <1>4, <1>6, <1>7, <2>1, <2>2, <2>3 DEF Existing, Linear
<1>9. Made(i)' /\ Up(i)'
  BY <1>1, <1>2 DEF Up, Made
<1>10. ASSUME NEW j \in DOMAIN Starts, j # i
       PROVE  /\ (Made(j)' <=> Made(j)) /\ (Up(j)' <=> Up(j))
              /\ main' # <<"params", j>> /\ main' # <<"thread", j>>
  <2>1. j \in Int
    BY <1>2
  <2> QED BY <1>1, <1>2, <1>10, <2>1 DEF Up, Made
<1>11. Places' /\ main[1] # "done" /\ main'[1] \notin {"join", "done"}
  BY <1>1, <1>4 DEF Places
<1>12. "boot" \in {"none", "ended"} \cup Live /\ services' = [services EXCEPT ![s] = f]
       /\ ("boot" = "none" <=> ~(Up(i)')) /\ UNCHANGED <<load, received, executed>>
       /\ Awaited(f) = Awaited(services[s])
  BY <1>0, <1>1, <1>5, <1>7, <1>9 DEF Live
<1> QED BY <1>1, <1>3, <1>4, <1>8, <1>9, <1>10, <1>11, <1>12, TouchStep

(* The flag says already that the service runs. *)
LEMMA FlagStep ==
  ASSUME IInv, NEW i \in DOMAIN Starts, StartFlag(i)
  PROVE  IInv'
<1> DEFINE s == Starts[i]
<1>0. PICK g, p : g = services[s] /\ p = pc[s]
  OBVIOUS
<1>1. /\ main = <<"flag", i>>
      /\ main' = IF i < Len(Starts) THEN <<"start", i + 1>> ELSE <<"loop", 0>>
      /\ services' = [services EXCEPT ![s] = [g EXCEPT !.state = TRUE]]
      /\ UNCHANGED <<load, received, pc, executed>>
  BY <1>0 DEF StartFlag, At, Goto, RunFlag, Becomes
<1>2. /\ Starts \in Seq(Services \ {Shared}) /\ i \in Int /\ Line(i)
      /\ pc \in [Services -> {"none", "ended"} \cup Live] /\ s \in Services
  BY LoadFacts DEF IInv, Typed, Lines
<1>3. Made(i) /\ Existing(i, g, p) /\ p # "none" /\ p \in {"none", "ended"} \cup Live
      /\ pc' = [pc EXCEPT ![s] = p]
  <2>1. Up(i) /\ Made(i)
    BY <1>1, <1>2 DEF Up, Made
  <2> QED BY <1>0, <1>1, <1>2, <2>1 DEF Line
<1>4. Handed' = Handed /\ Serving /\ Serving' /\ Starts' = Starts /\ \A n : Of(n)' = Of(n)
  BY <1>1 DEF Handed, Serving, Starts, Zones, Logs, Of
<1>5. PICK f : f = [g EXCEPT !.state = TRUE]
  OBVIOUS
<1>6. g.state /\ ~g.freed /\ g \in Service(Message)
  BY <1>3, <1>4 DEF Existing
<1>7. /\ f \in Service(Message) /\ f.list = g.list /\ f.tail = g.tail /\ f.thread = g.thread
      /\ f.state /\ f.freed = g.freed
  BY <1>5, <1>6 DEF Service
<1>8. Awaited(f) = Awaited(g) /\ Awaited(f)' = Awaited(g) /\ Linear(f)
  BY <1>3, <1>7 DEF Existing, Awaited, Linear
<1>9. Existing(i, f, p)'
  <2>1. Parameters(i, f, p)'
    <3>1. Parameters(i, g, p)
      BY <1>3 DEF Existing
    <3>2. main' # <<"params", i>> /\ main' # <<"thread", i>>
      BY <1>1
    <3> QED BY <1>6, <1>7, <3>1, <3>2 DEF Parameters
  <2>2. \A n \in Awaited(f) : n \in Handed' /\ Of(n)' = Starts[i]
    BY <1>3, <1>4, <1>8 DEF Existing
  <2>3. f.state /\ ~f.freed /\ p # "ended"
    BY <1>3, <1>4, <1>6, <1>7 DEF Existing
  <2>4. f.thread = CASE p = "none" -> "none" [] p = "ended" -> "ended" [] OTHER -> "running"
    BY <1>3, <1>7 DEF Existing
  <2> QED BY <1>4, <1>7, <1>8, <2>1, <2>2, <2>3, <2>4 DEF Existing, Linear
<1>10. \A j \in DOMAIN Starts : (Made(j)' <=> Made(j)) /\ (Up(j)' <=> Up(j))
  <2> SUFFICES ASSUME NEW j \in DOMAIN Starts PROVE (Made(j)' <=> Made(j)) /\ (Up(j)' <=> Up(j))
    OBVIOUS
  <2>1. j \in 1..Len(Starts) /\ i \in 1..Len(Starts) /\ Len(Starts) \in Nat
    BY <1>2
  <2> QED BY <1>1, <2>1 DEF Up, Made
<1>11. Made(i)' /\ Up(i)'
  BY <1>1, <1>2, <1>10 DEF Up, Made
<1>12. Places' /\ main[1] # "done" /\ main'[1] \notin {"join", "done"}
  <2>1. i < Len(Starts) => i + 1 \in DOMAIN Starts
    BY <1>2
  <2> QED BY <1>1, <1>4, <2>1 DEF Places
<1>13. ASSUME NEW j \in DOMAIN Starts PROVE main' # <<"params", j>> /\ main' # <<"thread", j>>
  BY <1>1
<1> QED BY <1>0, <1>1, <1>3, <1>4, <1>5, <1>8, <1>9, <1>10, <1>11, <1>12, <1>13, TouchStep

(* The services, in the order of StopOrder and JoinOrder. *)
LEMMA OrderFacts ==
  ASSUME load \in DOMAIN Loads
  PROVE  /\ StopOrder = Append(Starts, Shared) /\ JoinOrder = StopOrder
         /\ Len(StopOrder) = Len(Starts) + 1 /\ Len(Starts) \in Nat
         /\ DOMAIN Starts = 1..Len(Starts) /\ DOMAIN JoinOrder = 1..Len(Starts) + 1
         /\ \A i \in DOMAIN Starts : StopOrder[i] = Starts[i]
         /\ StopOrder[Len(Starts) + 1] = Shared
<1>1. Zones \in Seq(Services) /\ Logs \in Seq(Services) /\ Starts \in Seq(Services)
      /\ Shared \in Services
  BY LoadFacts, DbServerAssumption
<1>2. StopOrder = Starts \o <<Shared>> /\ JoinOrder = Starts \o <<Shared>>
  BY DEF StopOrder, JoinOrder, Starts
<1>3. StopOrder = Append(Starts, Shared)
  BY ONLY <1>1, <1>2
<1> QED BY ONLY <1>1, <1>2, <1>3

(* The script stops, or joins and frees, main_zone_service, or no service. *)
LEMMA AsideStep ==
  ASSUME IInv, UNCHANGED <<load, pc, executed>>, Places', Routed',
         received' \in Seq([dbid : Loads[load].dbids, body : Loads[load].bodies,
                            zone : DOMAIN Zones, data : Seq(Int)]),
         main[1] \notin {"start", "params", "thread", "flag", "done"},
         main'[1] \notin {"start", "params", "thread", "flag"},
         Serving' => Serving, Handed' = Handed, \A n \in Handed : Of(n)' = Of(n),
         NEW f \in Service(Message), services' = [services EXCEPT ![Shared] = f],
         f.freed => main'[1] = "done" \/ services[Shared].freed,
         main'[1] \in {"join", "done"} => 
           \A j \in DOMAIN Starts : main'[1] = "done" \/ j < main'[2] => 
             main[1] = "join" /\ j < main[2]
  PROVE  IInv'
<1>1. Starts' = Starts /\ Zones' = Zones /\ Loads[load]' = Loads[load]
  BY DEF Starts, Zones, Logs
<1>2. /\ Starts \in Seq(Services \ {Shared}) /\ Shared \in Services
      /\ services \in [Services -> Service(Message) \cup {NULL}]
  BY LoadFacts, DbServerAssumption DEF IInv, Typed
<1>3. \A j \in DOMAIN Starts : services'[Starts[j]] = services[Starts[j]]
  BY <1>2
<1>4. services'[Shared] = f
  BY <1>2
<1>5. Typed'
  <2>1. services' \in [Services -> Service(Message) \cup {NULL}]
    BY <1>2
  <2> QED BY <1>1, <2>1 DEF Typed, IInv
<1>6. Joined'
  <2>1. ~services[Shared].freed
    BY DEF IInv, Joined
  <2>2. main'[1] \in {"join", "done"} =>
          \A j \in DOMAIN Starts : main'[1] = "done" \/ j < main'[2] => pc'[Starts[j]] = "ended"
    BY DEF IInv, Joined
  <2> QED BY <1>1, <1>4, <2>1, <2>2 DEF Joined
<1>7. \A j \in DOMAIN Starts : (Made(j)' <=> Made(j)) /\ (Up(j)' <=> Up(j))
  BY DEF Made, Up
<1>8. \A j : main' # <<"params", j>> /\ main' # <<"thread", j>>
  <2> SUFFICES ASSUME NEW j, main' = <<"params", j>> \/ main' = <<"thread", j>> PROVE FALSE
    OBVIOUS
  <2>1. main'[1] \in {"params", "thread"}
    OBVIOUS
  <2> QED BY <2>1
<1>9. 0 \notin DOMAIN Starts
  BY <1>2
<1> QED BY <1>3, <1>5, <1>6, <1>7, <1>8, <1>9, ScriptStep

(* lua_service_stop clears a flag. *)
LEMMA StopStep ==
  ASSUME IInv, NEW i \in 1..Len(StopOrder) + 1, StopNext(i)
  PROVE  IInv'
<1>1. main = <<"stop", i>> /\ UNCHANGED <<load, received, pc, executed>>
  BY DEF StopNext, At
<1>2. /\ ~Serving /\ Starts' = Starts /\ StopOrder' = StopOrder /\ JoinOrder' = JoinOrder
      /\ \A n : Of(n)' = Of(n)
  BY <1>1 DEF Serving, Starts, Zones, Logs, StopOrder, JoinOrder, Of
<1>3. load \in DOMAIN Loads
  BY DEF IInv, Typed
<1>4. /\ main' = IF i <= Len(StopOrder) THEN <<"stop", i + 1>> ELSE <<"join", 1>>
  BY DEF StopNext, Goto
<1>5. ~(Serving') /\ main'[1] \in {"stop", "join"} /\ Handed' = Handed /\ main[1] = "stop"
  BY <1>1, <1>4 DEF Serving, Handed
<1>6. i \in Int /\ Len(StopOrder) \in Nat
  BY <1>3, OrderFacts
<1>7. Places'
  <2>1. i <= Len(StopOrder) => i + 1 \in 1..Len(StopOrder) + 1
    BY <1>6
  <2>2. 1 \in DOMAIN JoinOrder
    BY <1>3, OrderFacts
  <2> QED BY <1>2, <1>4, <2>1, <2>2 DEF Places
<1>8. services \in [Services -> Service(Message) \cup {NULL}] /\ Shared \in Services
  BY DbServerAssumption DEF IInv, Typed
<1>9. Routed'
  BY <1>1, <1>2 DEF IInv, Routed, Zones
<1>10. main'[1] \in {"join", "done"} => main' = <<"join", 1>>
  BY <1>4
<1>11. ASSUME NEW f \in Service(Message), services' = [services EXCEPT ![Shared] = f],
              f.freed => services[Shared].freed
       PROVE  IInv'
  <2>1. main'[1] \in {"join", "done"} =>
          \A j \in DOMAIN Starts : ~(main'[1] = "done" \/ j < main'[2])
    <3>1. \A j \in DOMAIN Starts : ~(j < 1)
      BY <1>3, OrderFacts
    <3> QED BY <1>10, <3>1
  <2>2. received' \in Seq([dbid : Loads[load].dbids, body : Loads[load].bodies,
                           zone : DOMAIN Zones, data : Seq(Int)])
    BY <1>1 DEF IInv, Typed
  <2> QED BY <1>1, <1>2, <1>5, <1>7, <1>9, <1>11, <2>1, <2>2, AsideStep
<1>12. CASE i \in DOMAIN Starts
  <2> DEFINE s == Starts[i]
  <2>1. i <= Len(StopOrder) /\ StopOrder[i] = s
    BY <1>3, <1>12, OrderFacts
  <2>2. PICK g, p : g = services[s] /\ p = pc[s]
    OBVIOUS
  <2>3. PICK f : f = [g EXCEPT !.state = FALSE]
    OBVIOUS
  <2>4. services' = [services EXCEPT ![s] = f] /\ main' = <<"stop", i + 1>>
    BY <1>4, <2>1, <2>2, <2>3 DEF StopNext, Stop, Becomes
  <2>5. Made(i) /\ Up(i) /\ Made(i)' /\ Up(i)'
    BY <1>1, <2>4 DEF Made, Up
  <2>6. Existing(i, g, p) /\ p # "none"
    BY <1>12, <2>2, <2>5 DEF IInv, Lines, Line
  <2>7. /\ f \in Service(Message) /\ f.list = g.list /\ f.tail = g.tail /\ f.thread = g.thread
        /\ ~f.state /\ f.freed = g.freed
    BY <2>3, <2>6 DEF Existing, Service
  <2>8. Awaited(f) = Awaited(g) /\ Awaited(f)' = Awaited(g) /\ Linear(f)
    BY <2>6, <2>7 DEF Existing, Awaited, Linear
  <2>9. Existing(i, f, p)'
    <3>1. Parameters(i, f, p)'
      BY <2>4, <2>6, <2>7 DEF Existing, Parameters
    <3>2. \A n \in Awaited(f) : n \in Handed' /\ Of(n)' = Starts[i]
      BY <1>2, <1>5, <2>6, <2>8 DEF Existing
    <3>3. f.freed => p = "ended"
      BY <2>6, <2>7 DEF Existing
    <3>4. f.thread = CASE p = "none" -> "none" [] p = "ended" -> "ended" [] OTHER -> "running"
      BY <2>6, <2>7 DEF Existing
    <3> QED BY <1>2, <1>5, <2>7, <2>8, <3>1, <3>2, <3>3, <3>4 DEF Existing, Linear
  <2>10. p \in {"none", "ended"} \cup Live /\ pc' = [pc EXCEPT ![s] = p]
    <3>1. pc \in [Services -> {"none", "ended"} \cup Live] /\ s \in Services
      BY <1>3, <1>12, LoadFacts DEF IInv, Typed
    <3> QED BY <1>1, <2>2, <3>1
  <2>11. ASSUME NEW j \in DOMAIN Starts
         PROVE  /\ (Made(j)' <=> Made(j)) /\ (Up(j)' <=> Up(j))
                /\ main' # <<"params", j>> /\ main' # <<"thread", j>>
    BY <1>1, <2>4 DEF Made, Up
  <2>12. main'[1] \notin {"join", "done"} /\ Awaited(f) = Awaited(services[s])
    BY <2>2, <2>4, <2>8
  <2> HIDE DEF s
  <2> QED BY <1>1, <1>2, <1>5, <1>7, <1>12, <2>4, <2>5, <2>6, <2>9, <2>10, <2>11, <2>12, TouchStep
            DEF s
<1>13. CASE i = Len(StopOrder)
  <2>1. services[Shared] \in Service(Message) /\ StopOrder[i] = Shared
    BY <1>3, <1>13, OrderFacts DEF IInv, Joined
  <2>2. PICK g : g = services[Shared]
    OBVIOUS
  <2>3. PICK f : f = [g EXCEPT !.state = FALSE]
    OBVIOUS
  <2>4. services' = [services EXCEPT ![Shared] = f]
    BY <1>6, <1>13, <2>1, <2>2, <2>3 DEF StopNext, Stop, Becomes
  <2>5. f \in Service(Message) /\ f.freed = g.freed
    BY <2>1, <2>2, <2>3 DEF Service
  <2> QED BY <1>11, <2>2, <2>4, <2>5
<1>14. CASE i = Len(StopOrder) + 1
  <2>1. services' = services
    BY <1>6, <1>14 DEF StopNext
  <2>2. PICK f : f = services[Shared]
    OBVIOUS
  <2>3. f \in Service(Message)
    BY <2>2 DEF IInv, Joined
  <2>4. services' = [services EXCEPT ![Shared] = f]
    BY <1>8, <2>1, <2>2
  <2> QED BY <1>11, <2>2, <2>3, <2>4
<1>15. i \in DOMAIN Starts \/ i = Len(StopOrder) \/ i = Len(StopOrder) + 1
  BY <1>3, OrderFacts
<1> QED BY <1>12, <1>13, <1>14, <1>15

(* What is left of a service that is freed. *)
LEMMA EmptiedFacts ==
  ASSUME NEW g \in Service(Message)
  PROVE  LET f == [g EXCEPT !.list = <<>>, !.tail = NULL, !.freed = TRUE]
         IN  f \in Service(Message) /\ f.list = <<>> /\ f.tail = NULL /\ f.thread = g.thread
<1>1. PICK empty \in Seq(Message) : empty = <<>>
  <2>1. <<>> \in Seq(Message)
    BY EmptySeq
  <2> QED BY <2>1
<1>2. PICK f : f = [g EXCEPT !.list = empty, !.tail = NULL, !.freed = TRUE]
  OBVIOUS
<1>3. f \in Service(Message) /\ f.list = empty /\ f.tail = NULL /\ f.thread = g.thread
  BY ONLY <1>2, g \in Service(Message), empty \in Seq(Message) DEF Service
<1> QED BY <1>1, <1>2, <1>3

(* lua_service_join waits until a thread has ended before it frees. *)
LEMMA JoinStep ==
  ASSUME IInv, NEW i \in 1..Len(JoinOrder), JoinNext(i)
  PROVE  IInv'
<1>1. main = <<"join", i>> /\ UNCHANGED <<load, received, pc, executed>>
  BY DEF JoinNext, At
<1>2. /\ ~Serving /\ Starts' = Starts /\ StopOrder' = StopOrder /\ JoinOrder' = JoinOrder
      /\ \A n : Of(n)' = Of(n)
  BY <1>1 DEF Serving, Starts, Zones, Logs, StopOrder, JoinOrder, Of
<1>3. load \in DOMAIN Loads
  BY DEF IInv, Typed
<1>4. /\ main' = IF i < Len(JoinOrder) THEN <<"join", i + 1>> ELSE <<"done", 0>>
      /\ Join(JoinOrder[i])
  BY DEF JoinNext, Goto
<1>5. ~(Serving') /\ main'[1] \in {"join", "done"} /\ Handed' = Handed /\ main[1] = "join"
  BY <1>1, <1>4 DEF Serving, Handed
<1>6. i \in Int /\ Len(JoinOrder) = Len(Starts) + 1 /\ Len(Starts) \in Nat
      /\ DOMAIN JoinOrder = 1..Len(Starts) + 1 /\ DOMAIN Starts = 1..Len(Starts)
  BY <1>3, OrderFacts
<1>7. Places'
  <2>1. i < Len(JoinOrder) => i + 1 \in DOMAIN JoinOrder
    BY <1>6
  <2> QED BY <1>2, <1>4, <2>1 DEF Places
<1>8. CASE i \in DOMAIN Starts
  <2> DEFINE s == Starts[i]
  <2>1. i < Len(JoinOrder) /\ JoinOrder[i] = s
    BY <1>3, <1>8, OrderFacts
  <2>2. PICK g, p : g = services[s] /\ p = pc[s]
    OBVIOUS
  <2>3. PICK f : f = [g EXCEPT !.list = <<>>, !.tail = NULL, !.freed = TRUE]
    OBVIOUS
  <2>4. services' = [services EXCEPT ![s] = f] /\ main' = <<"join", i + 1>> /\ g.thread # "running"
    BY <1>4, <2>1, <2>2, <2>3 DEF Join, Becomes
  <2>5. Made(i) /\ Up(i) /\ Made(i)' /\ Up(i)'
    BY <1>1, <2>4 DEF Made, Up
  <2>6. Existing(i, g, p) /\ p # "none"
    BY <1>8, <2>2, <2>5 DEF IInv, Lines, Line
  <2>7. p = "ended"
    BY <2>4, <2>6 DEF Existing
  <2>8. /\ f \in Service(Message) /\ f.list = <<>> /\ f.tail = NULL /\ f.thread = "ended"
    BY <2>3, <2>6, <2>7, EmptiedFacts DEF Existing
  <2>9. Awaited(f) = {} /\ Awaited(f)' = {} /\ Linear(f)
    BY <2>8 DEF Awaited, Linear
  <2>10. Existing(i, f, p)'
    <3>1. Parameters(i, f, p)'
      BY <2>4, <2>7, <2>8 DEF Parameters, Live
    <3> QED BY <1>5, <2>7, <2>8, <2>9, <3>1 DEF Existing, Linear
  <2>11. p \in {"none", "ended"} \cup Live /\ pc' = [pc EXCEPT ![s] = p]
    <3>1. pc \in [Services -> {"none", "ended"} \cup Live] /\ s \in Services
      BY <1>3, <1>8, LoadFacts DEF IInv, Typed
    <3> QED BY <1>1, <2>2, <3>1
  <2>12. ASSUME NEW j \in DOMAIN Starts
         PROVE  /\ (Made(j)' <=> Made(j)) /\ (Up(j)' <=> Up(j))
                /\ main' # <<"params", j>> /\ main' # <<"thread", j>>
    BY <1>1, <2>4 DEF Made, Up
  <2>13. ASSUME NEW j \in DOMAIN Starts, main'[1] = "done" \/ j < main'[2]
         PROVE  j = i \/ (j # i /\ j < main[2])
    <3>1. j < i + 1 /\ j \in Int
      BY <1>6, <2>4, <2>13
    <3> QED BY <1>1, <1>6, <3>1
  <2>14. Awaited(f) \subseteq IF Made(i) THEN Awaited(services[Starts[i]]) ELSE {}
    BY <2>9
  <2> HIDE DEF s
  <2> QED BY <1>1, <1>2, <1>5, <1>7, <1>8, <2>4, <2>5, <2>6, <2>7, <2>10, <2>11, <2>12, <2>13, <2>14,
             TouchStep DEF s
<1>9. CASE i = Len(JoinOrder)
  <2>1. services[Shared] \in Service(Message) /\ JoinOrder[i] = Shared
    BY <1>3, <1>9, OrderFacts DEF IInv, Joined
  <2>2. PICK g : g = services[Shared]
    OBVIOUS
  <2>3. PICK f : f = [g EXCEPT !.list = <<>>, !.tail = NULL, !.freed = TRUE]
    OBVIOUS
  <2>4. services' = [services EXCEPT ![Shared] = f] /\ main' = <<"done", 0>>
    BY <1>4, <1>6, <1>9, <2>1, <2>2, <2>3 DEF Join, Becomes
  <2>5. f \in Service(Message)
    <3>1. g \in Service(Message)
      BY <2>1, <2>2
    <3> QED BY <2>3, <3>1, EmptiedFacts
  <2>6. ASSUME NEW j \in DOMAIN Starts PROVE j < main[2]
    BY <1>1, <1>6, <1>9
  <2>7. received' \in Seq([dbid : Loads[load].dbids, body : Loads[load].bodies,
                           zone : DOMAIN Zones, data : Seq(Int)])
    BY <1>1 DEF IInv, Typed
  <2>8. Routed'
    BY <1>1, <1>2 DEF IInv, Routed, Zones
  <2> QED BY <1>1, <1>2, <1>5, <1>7, <2>4, <2>5, <2>6, <2>7, <2>8, AsideStep
<1>10. i \in DOMAIN Starts \/ i = Len(JoinOrder)
  BY <1>6
<1> QED BY <1>8, <1>9, <1>10

(* A statement gets the zone of its database id, and no place in a list yet. *)
LEMMA ReceiveStep ==
  ASSUME IInv, Receive
  PROVE  IInv'
<1> DEFINE n == Len(received) + 1
           Entry == [dbid : Loads[load].dbids, body : Loads[load].bodies,
                     zone : DOMAIN Zones, data : Seq(Int)]
<1>1. main = <<"loop", 0>> /\ main' = <<"push", n>> /\ UNCHANGED <<load, services, pc, executed>>
  BY DEF Receive, At, Goto
<1>2. PICK dbid \in Loads[load].dbids, body \in Loads[load].bodies :
        LET data == Sent(dbid, body)
        IN  received' = Append(received, [dbid |-> dbid, body |-> body, zone |-> Zone(n, data),
                                          data |-> Packed(<<>>, FALSE, <<Fd>>) \o data])
  BY DEF Receive
<1>3. load \in DOMAIN Loads /\ received \in Seq(Entry)
  BY DEF IInv, Typed
<1>4. PICK data : data = Sent(dbid, body)
  OBVIOUS
<1>5. /\ dbid \in Int /\ data \in Seq(Int) /\ Unpacked(data, 2).values[2].v = dbid
      /\ Packed(<<>>, FALSE, <<Fd>>) \in Seq(Int)
  BY <1>3, <1>4, DbServerAssumption
<1>6. PICK zone : zone = (dbid % Len(Zones)) + 1
  OBVIOUS
<1>7. Zone(n, data) = zone /\ zone \in DOMAIN Zones
  <2>1. Len(Zones) \in Nat \ {0} /\ DOMAIN Zones = 1..Len(Zones)
    BY <1>3, LoadFacts
  <2>2. dbid % Len(Zones) \in 0..(Len(Zones) - 1)
    BY <1>5, <2>1
  <2> QED BY <1>5, <1>6, <2>1, <2>2 DEF Zone
<1>8. PICK whole \in Seq(Int) : whole = Packed(<<>>, FALSE, <<Fd>>) \o data
  <2>1. PICK head \in Seq(Int) : head = Packed(<<>>, FALSE, <<Fd>>)
    BY <1>5
  <2>2. head \o data \in Seq(Int)
    BY ONLY <1>5, head \in Seq(Int)
  <2> QED BY <2>1, <2>2
<1>9. PICK new \in Entry : new = [dbid |-> dbid, body |-> body, zone |-> zone, data |-> whole]
  BY <1>7
<1>10. received' = Append(received, new)
  BY <1>2, <1>4, <1>7, <1>8, <1>9
<1>11. /\ received' \in Seq(Entry) /\ Len(received') = n /\ received' # <<>>
       /\ DOMAIN received' = 1..n /\ DOMAIN received = 1..Len(received) /\ Len(received) \in Nat
       /\ received'[n] = new
       /\ \A k \in DOMAIN received : received'[k] = received[k]
  <2> HIDE DEF Entry
  <2> QED BY ONLY <1>3, <1>10, new \in Entry
<1>12. Zones' = Zones
  BY <1>1 DEF Zones
<1>13. Handed' = Handed /\ \A k \in Handed : Of(k)' = Of(k)
  <2>1. Handed = DOMAIN received
    BY <1>1 DEF Handed
  <2>2. Handed' = (1..n) \ {n}
    BY <1>1, <1>11 DEF Handed
  <2>3. (1..n) \ {n} = DOMAIN received
    BY <1>11
  <2> QED BY <1>11, <1>12, <2>1, <2>2, <2>3 DEF Of
<1>14. Routed'
  <2>1. new.zone = (new.dbid % Len(Zones)) + 1
    BY <1>6, <1>9
  <2>2. ASSUME NEW k \in DOMAIN received PROVE received'[k].zone = (received'[k].dbid % Len(Zones)) + 1
    BY <1>11 DEF IInv, Routed
  <2>3. DOMAIN received' = DOMAIN received \cup {n}
    BY <1>11
  <2> QED BY <1>11, <1>12, <2>1, <2>2, <2>3 DEF Routed
<1>15. Places'
  BY <1>1, <1>11 DEF Places
<1>16. PICK f : f = services[Shared]
  OBVIOUS
<1>17. services' = [services EXCEPT ![Shared] = f] /\ f \in Service(Message)
  BY <1>1, <1>16 DEF IInv, Typed, Joined
<1>18. Serving /\ main[1] = "loop" /\ main'[1] = "push"
  BY <1>1 DEF Serving
<1> QED BY <1>1, <1>11, <1>13, <1>14, <1>15, <1>16, <1>17, <1>18, AsideStep

(* The server begins to stop. *)
LEMMA EndStep ==
  ASSUME IInv, LoopEnds
  PROVE  IInv'
<1>1. /\ main = <<"loop", 0>> /\ main' = <<"stop", 1>>
      /\ UNCHANGED <<load, services, received, pc, executed>>
  BY DEF LoopEnds, At, Goto
<1>2. Handed' = Handed /\ Serving /\ Zones' = Zones /\ (\A n : Of(n)' = Of(n))
      /\ StopOrder' = StopOrder
  BY <1>1 DEF Handed, Serving, Zones, Of, StopOrder, Logs
<1>3. Places'
  <2>1. 1 \in 1..Len(StopOrder) + 1
    BY OrderFacts DEF IInv, Typed
  <2> QED BY <1>1, <1>2, <2>1 DEF Places
<1>4. Routed'
  BY <1>1, <1>2 DEF IInv, Routed
<1>5. PICK f : f = services[Shared]
  OBVIOUS
<1>6. services' = [services EXCEPT ![Shared] = f] /\ f \in Service(Message)
  BY <1>1, <1>5 DEF IInv, Typed, Joined
<1>7. received' \in Seq([dbid : Loads[load].dbids, body : Loads[load].bodies,
                         zone : DOMAIN Zones, data : Seq(Int)])
  BY <1>1 DEF IInv, Typed
<1> QED BY <1>1, <1>2, <1>3, <1>4, <1>5, <1>6, <1>7, AsideStep

(* lua_service_push_data: the newest statement goes behind all others of  *)
(* its zone.                                                               *)
LEMMA PushStep ==
  ASSUME IInv, Push
  PROVE  IInv'
<1>1. PICK n, i, s : n = main[2] /\ i = received[n].zone /\ s = Starts[i]
  OBVIOUS
<1>2. main[1] = "push" /\ main' = <<"loop", 0>> /\ UNCHANGED <<load, received, pc, executed>>
  BY DEF Push, Goto
<1>3. main = <<"push", n>> /\ n = Len(received) /\ received # <<>>
  BY <1>1, <1>2 DEF IInv, Places
<1>4. load \in DOMAIN Loads
      /\ received \in Seq([dbid : Loads[load].dbids, body : Loads[load].bodies,
                           zone : DOMAIN Zones, data : Seq(Int)])
  BY DEF IInv, Typed
<1>5. /\ n \in DOMAIN received /\ n \in Nat \ {0} /\ DOMAIN received = 1..n
      /\ i \in DOMAIN Zones /\ received[n].data \in Seq(Int)
  <2> DEFINE Entry == [dbid : Loads[load].dbids, body : Loads[load].bodies,
                       zone : DOMAIN Zones, data : Seq(Int)]
  <2>1. received[n] \in Entry /\ n \in DOMAIN received /\ n \in Nat \ {0} /\ DOMAIN received = 1..n
    <3>1. received \in Seq(Entry)
      BY <1>4
    <3> HIDE DEF Entry
    <3> QED BY ONLY <1>3, <3>1
  <2> QED BY ONLY <1>1, <2>1
<1>6. /\ i \in DOMAIN Starts /\ s = Zones[i] /\ s \in Services \ {Shared}
      /\ Starts \in Seq(Services \ {Shared})
      /\ \A j, k \in DOMAIN Starts : Starts[j] = Starts[k] => j = k
      /\ services \in [Services -> Service(Message) \cup {NULL}]
      /\ pc \in [Services -> {"none", "ended"} \cup Live]
  BY <1>1, <1>4, <1>5, LoadFacts DEF IInv, Typed
<1>7. PICK g, p, m : g = services[s] /\ p = pc[s] /\ m = Node(n, received[n].data)
  OBVIOUS
<1>8. m \in Message /\ m.number = n
  BY <1>5, <1>7 DEF Node, Message
<1>9. Serving /\ Serving' /\ Starts' = Starts /\ Zones' = Zones /\ (\A k : Of(k)' = Of(k))
      /\ \A j : Made(j) /\ Up(j) /\ Made(j)' /\ Up(j)'
  BY <1>2 DEF Serving, Starts, Zones, Logs, Of, Made, Up
<1>10. Handed = 1..(n - 1) /\ Handed' = 1..n
  BY <1>2, <1>3, <1>5 DEF Handed
<1>11. Existing(i, g, p) /\ p # "none"
  BY <1>1, <1>6, <1>7, <1>9 DEF IInv, Lines, Line
<1>12. g \in Service(Message) /\ Linear(g) /\ g.state /\ ~g.freed /\ p # "ended"
  BY <1>9, <1>11 DEF Existing
<1>13. PICK f : f = Linked(g, m)
  OBVIOUS
<1>14. services' = [services EXCEPT ![s] = f]
  BY <1>1, <1>2, <1>6, <1>7, <1>12, <1>13 DEF Push, PushData, Becomes
<1>15. \A j \in DOMAIN g.list : g.list[j].number < m.number
  <2> SUFFICES ASSUME NEW j \in DOMAIN g.list PROVE g.list[j].number < n
    BY <1>8
  <2>1. CASE g.list[j].number = 0
    BY <1>5, <2>1
  <2>2. CASE g.list[j].number # 0
    <3>1. g.list[j].number \in Awaited(g)
      BY <2>2 DEF Awaited
    <3>2. g.list[j].number \in Handed
      BY <1>11, <3>1 DEF Existing
    <3> QED BY <1>5, <1>10, <3>2
  <2> QED BY <2>1, <2>2
<1>16. /\ f \in Service(Message) /\ Linear(f) /\ f.list = Append(g.list, m)
       /\ f.state = g.state /\ f.thread = g.thread /\ f.freed = g.freed
  BY <1>8, <1>12, <1>13, <1>15, LinkedFacts
<1>17. Awaited(f) = Awaited(g) \cup {n} /\ Awaited(f)' = Awaited(f)
  <2>1. Awaited(f) = (Awaited(g) \cup {n}) \ {0}
    BY <1>8, <1>12, <1>16, AwaitedLinked
  <2>2. 0 \notin Awaited(g)
    BY DEF Awaited
  <2> QED BY <1>5, <2>1, <2>2 DEF Awaited
<1>18. Existing(i, f, p)'
  <2>1. Parameters(i, f, p)'
    <3>1. g.list \in Seq(Message)
      BY <1>12 DEF Service
    <3>2. /\ DOMAIN f.list = DOMAIN g.list \cup {Len(g.list) + 1} /\ f.list # <<>>
          /\ f.list[Len(g.list) + 1] = m
          /\ \A j \in DOMAIN g.list : f.list[j] = g.list[j]
          /\ g.list # <<>> => 1 \in DOMAIN g.list
      BY <1>8, <1>16, <3>1
    <3>3. p = "boot" => f.list # <<>> /\ f.list[1].number = 0
      BY <1>11, <3>2 DEF Existing, Parameters
    <3>4. p \in Live \ {"boot"} => \A j \in DOMAIN f.list : f.list[j].number # 0
      BY <1>5, <1>8, <1>11, <1>12, <3>2 DEF Existing, Parameters
    <3> QED BY <1>2, <3>3, <3>4 DEF Parameters
  <2>2. \A k \in Awaited(f) : k \in Handed' /\ Of(k)' = Starts[i]
    <3>1. \A k \in Awaited(g) : k \in Handed /\ Of(k) = Starts[i]
      BY <1>11 DEF Existing
    <3>2. Of(n) = Starts[i]
      BY <1>1, <1>6 DEF Of
    <3> QED BY <1>5, <1>9, <1>10, <1>17, <3>1, <3>2
  <2>3. f.thread = CASE p = "none" -> "none" [] p = "ended" -> "ended" [] OTHER -> "running"
    BY <1>11, <1>16 DEF Existing
  <2> QED BY <1>9, <1>12, <1>16, <1>17, <2>1, <2>2, <2>3 DEF Existing, Linear
<1>19. /\ services'[s] = f /\ services'[Shared] = services[Shared]
       /\ \A j \in DOMAIN Starts : j # i =>
            services'[Starts[j]] = services[Starts[j]] /\ pc'[Starts[j]] = pc[Starts[j]]
  <2>1. ASSUME NEW j \in DOMAIN Starts, j # i PROVE Starts[j] \in Services \ {s}
    <3>1. Starts[j] # s
      BY ONLY <1>1, <1>6, <2>1
    <3>2. Starts[j] \in Services
      BY ONLY <1>6, j \in DOMAIN Starts
    <3> QED BY <3>1, <3>2
  <2> QED BY <1>2, <1>6, <1>14, <2>1, DbServerAssumption
<1>20. Typed'
  <2>1. services' \in [Services -> Service(Message) \cup {NULL}]
    BY <1>6, <1>14, <1>16
  <2> QED BY <1>2, <1>9, <2>1 DEF IInv, Typed
<1>21. Places' /\ Routed' /\ Joined'
  <2>1. ~services[Shared].freed
    BY <1>2 DEF IInv, Joined
  <2> QED BY <1>2, <1>9, <1>19, <2>1 DEF IInv, Places, Routed, Joined
<1>22. Lines'
  <2> SUFFICES ASSUME NEW j \in DOMAIN Starts PROVE Line(j)'
    BY <1>9 DEF Lines
  <2>1. CASE j = i
    <3>1. services'[Starts[j]] = f /\ pc'[Starts[j]] = p
      BY <1>1, <1>2, <1>7, <1>19, <2>1
    <3> QED BY <1>9, <1>11, <1>18, <2>1, <3>1 DEF Line
  <2>2. CASE j # i
    <3>1. \A k \in Handed : k \in Handed' /\ Of(k)' = Of(k)
      BY <1>5, <1>9, <1>10
    <3>2. Line(j)
      BY DEF IInv, Lines
    <3> QED BY <1>2, <1>9, <1>19, <2>2, <3>1, <3>2, LineKept
  <2> QED BY <2>1, <2>2
<1>23. /\ Awaited(services[s])' = Awaited(g) \cup {n}
       /\ \A j \in DOMAIN Starts : j # i => Awaited(services[Starts[j]])' = Awaited(services[Starts[j]])
  <2>1. Awaited(services[s])' = Awaited(f)
    <3>1. PICK h : h = services'[s]
      OBVIOUS
    <3> QED BY <1>1, <1>19 DEF Awaited
  <2>2. ASSUME NEW j \in DOMAIN Starts, j # i
        PROVE  Awaited(services[Starts[j]])' = Awaited(services[Starts[j]])
    BY <1>9, <1>19, <2>2 DEF Awaited
  <2> QED BY <1>17, <2>1, <2>2
<1>24. Awaited(services[Starts[i]])' = Awaited(g) \cup {n} /\ Awaited(services[Starts[i]]) = Awaited(g)
  <2>1. Awaited(services[Starts[i]])' = Awaited(services[s])'
    BY <1>1, <1>9 DEF Awaited
  <2> QED BY <1>1, <1>7, <1>23, <2>1
<1>25. Order'
  <2>1. ASSUME NEW k \in DOMAIN executed PROVE executed[k].number \in Handed'
    BY <1>5, <1>10 DEF IInv, Order
  <2>2. ASSUME NEW j \in DOMAIN Starts, NEW k \in DOMAIN executed,
               Of(executed[k].number) = Starts[j], NEW w \in Awaited(services[Starts[j]])'
        PROVE  executed[k].number < w
    <3>1. CASE w \in Awaited(services[Starts[j]])
      BY <1>9, <2>2, <3>1 DEF IInv, Order
    <3>2. CASE w = n
      <4>1. executed[k].number \in 1..(n - 1)
        BY <1>10 DEF IInv, Order
      <4> QED BY <1>5, <3>2, <4>1
    <3>3. w \in Awaited(services[Starts[j]]) \/ w = n
      <4>1. CASE j = i
        BY <1>24, <2>2, <4>1
      <4>2. CASE j # i
        BY <1>23, <2>2, <4>2
      <4> QED BY <4>1, <4>2
    <3> QED BY <3>1, <3>2, <3>3
  <2> QED BY <1>2, <1>9, <2>1, <2>2 DEF IInv, Order
<1>26. Complete'
  <2> SUFFICES ASSUME NEW k \in 1..n
               PROVE  \/ \E e \in DOMAIN executed : executed[e].number = k
                      \/ \E j \in DOMAIN Starts : k \in Awaited(services[Starts[j]])'
    BY <1>2, <1>9, <1>10 DEF Complete
  <2>1. CASE k = n
    BY <1>6, <1>24, <2>1
  <2>2. CASE k # n
    <3>1. k \in Handed
      BY <1>5, <1>10, <2>2
    <3>2. ASSUME NEW j \in DOMAIN Starts, k \in Awaited(services[Starts[j]])
          PROVE  k \in Awaited(services[Starts[j]])'
      <4>1. CASE j = i
        BY <1>24, <3>2, <4>1
      <4>2. CASE j # i
        BY <1>23, <3>2, <4>2
      <4> QED BY <4>1, <4>2
    <3> QED BY <1>9, <3>1, <3>2 DEF IInv, Complete
  <2> QED BY <2>1, <2>2
<1> QED BY <1>20, <1>21, <1>22, <1>25, <1>26 DEF IInv

-----------------------------------------------------------------------------
(* The invariant holds at the start ... *)
LEMMA InitIInv == Init => IInv
<1> SUFFICES ASSUME Init PROVE IInv
  OBVIOUS
<1>1. /\ load \in DOMAIN Loads /\ main = <<"start", 1>> /\ received = <<>> /\ executed = <<>>
      /\ services = [s \in Services |-> IF s = Shared THEN Blank ELSE NULL]
      /\ pc = [s \in Services |-> "none"]
  BY DEF Init
<1>2. /\ Starts \in Seq(Services \ {Shared}) /\ 1 \in DOMAIN Starts /\ Shared \in Services
  <2>1. Starts \in Seq(Services \ {Shared}) /\ Len(Starts) = Len(Zones) + Len(Logs)
        /\ Zones \in Seq(Services \ {Shared}) /\ Zones # <<>> /\ Logs \in Seq(Services \ {Shared})
    BY <1>1, LoadFacts
  <2> QED BY <2>1, DbServerAssumption
<1>3. Blank \in Service(Message) /\ ~Blank.freed
  <2>1. <<>> \in Seq(Message)
    BY EmptySeq
  <2> QED BY <2>1 DEF Blank, Service
<1>4. \A j \in DOMAIN Starts : services[Starts[j]] = NULL /\ pc[Starts[j]] = "none"
  BY <1>1, <1>2
<1>5. \A j \in DOMAIN Starts : ~Made(j) /\ ~Up(j)
  BY <1>1, <1>2 DEF Made, Up
<1>6. Handed = {}
  BY <1>1 DEF Handed
<1>7. Typed
  <2>1. services \in [Services -> Service(Message) \cup {NULL}] /\ pc \in [Services -> {"none"}]
    BY <1>1, <1>3
  <2>2. executed \in Seq(Message)
        /\ received \in Seq([dbid : Loads[load].dbids, body : Loads[load].bodies,
                             zone : DOMAIN Zones, data : Seq(Int)])
    BY <1>1, EmptySeq
  <2> QED BY <1>1, <2>1, <2>2 DEF Typed
<1>8. Places /\ Routed
  BY <1>1, <1>2 DEF Places, Routed
<1>9. Lines
  BY <1>4, <1>5 DEF Lines, Line
<1>10. Order
  BY <1>1 DEF Order
<1>11. Complete
  BY <1>6 DEF Complete
<1>12. Joined
  BY <1>1, <1>2, <1>3 DEF Joined
<1> QED BY <1>7, <1>8, <1>9, <1>10, <1>11, <1>12 DEF IInv

(* ... and is kept by every step. *)
LEMMA StepIInv == IInv /\ [Next]_vars => IInv'
<1> SUFFICES ASSUME IInv, [Next]_vars PROVE IInv'
  OBVIOUS
<1>1. Len(Starts) \in Nat /\ DOMAIN Starts = 1..Len(Starts)
  BY LoadFacts, OrderFacts DEF IInv, Typed
<1>2. CASE Script
  BY <1>1, <1>2, CreateStep, ParamsStep, RunStep, FlagStep, PushStep, StopStep, JoinStep DEF Script
<1>3. CASE \E s \in Threads : Thread(s)
  BY <1>3, ThreadSteps
<1>4. CASE UNCHANGED vars
  <2>1. /\ UNCHANGED <<load, services, main, received, pc, executed>>
        /\ Starts' = Starts /\ Zones' = Zones /\ StopOrder' = StopOrder /\ JoinOrder' = JoinOrder
    BY <1>4 DEF vars, Starts, Zones, Logs, StopOrder, JoinOrder
  <2>2. Typed' /\ Places' /\ Routed' /\ Joined'
    BY <2>1 DEF IInv, Typed, Places, Routed, Joined
  <2>3. (Serving' <=> Serving) /\ Handed' = Handed /\ (\A n : Of(n)' = Of(n))
        /\ \A j : (Made(j)' <=> Made(j)) /\ (Up(j)' <=> Up(j))
    BY <2>1 DEF Serving, Handed, Of, Made, Up
  <2>4. Lines'
    <3> SUFFICES ASSUME NEW j \in DOMAIN Starts PROVE Line(j)'
      BY <2>1 DEF Lines
    <3>1. Line(j)
      BY DEF IInv, Lines
    <3> QED BY <2>1, <2>3, <3>1, LineKept
  <2>5. \A j : Awaited(services[Starts[j]])' = Awaited(services[Starts[j]])
    BY <2>1 DEF Awaited
  <2>6. Order' /\ Complete'
    BY <2>1, <2>3, <2>5 DEF IInv, Order, Complete
  <2> QED BY <2>2, <2>4, <2>6 DEF IInv
<1> QED BY <1>2, <1>3, <1>4, ReceiveStep, EndStep DEF Next

(* The inductive invariant. *)
THEOREM Invariance == Spec => []IInv
  BY InitIInv, StepIInv, PTL DEF Spec

(* The threads of the zones run as they like, but one database id has one  *)
(* zone, and its list is drained in order (ExecutedInOrder).               *)
THEOREM InOrder == Spec => []ExecutedInOrder
<1>1. IInv => ExecutedInOrder
  <2> SUFFICES ASSUME IInv, NEW i \in DOMAIN executed, NEW j \in DOMAIN executed, i < j,
                      received[executed[i].number].dbid = received[executed[j].number].dbid
               PROVE  executed[i].number < executed[j].number
    BY DEF ExecutedInOrder
  <2>1. executed[i].number \in DOMAIN received /\ executed[j].number \in DOMAIN received
    BY DEF IInv, Order, Handed
  <2>2. Of(executed[i].number) = Of(executed[j].number)
    BY <2>1 DEF IInv, Routed, Of
  <2> QED BY <2>2 DEF IInv, Order
<1> QED BY Invariance, <1>1, PTL

(* The statements that wait are those in the lists of the services made.   *)
LEMMA WaitingFacts ==
  ASSUME IInv, NEW n
  PROVE  n \in Numbers(Waiting) <=>
           \E i \in DOMAIN Starts : Made(i) /\ n \in Awaited(services[Starts[i]])
<1>1. Threads = {Starts[i] : i \in DOMAIN Starts}
  BY LoadFacts DEF IInv, Typed
<1>2. \A i \in DOMAIN Starts : Made(i) <=> services[Starts[i]] # NULL
  <2> SUFFICES ASSUME NEW i \in DOMAIN Starts PROVE Made(i) <=> services[Starts[i]] # NULL
    OBVIOUS
  <2>1. Line(i)
    BY DEF IInv, Lines
  <2> QED BY <2>1, DbServerAssumption DEF Line, Existing
<1>3. \A f : n \in Awaited(f) <=> n # 0 /\ \E node \in ToSet(f.list) : n = node.number
  BY DEF Awaited, ToSet
<1>4. n \in Numbers(Waiting) <=>
        n # 0 /\ \E s \in Threads : services[s] # NULL
                                    /\ \E node \in ToSet(services[s].list) : n = node.number
  BY DEF Numbers, Waiting
<1> QED BY <1>1, <1>2, <1>3, <1>4

(* lua_service_push_data and lua_service_pop_msg lose no statement and     *)
(* repeat none until the server stops (NothingLost).                       *)
THEOREM NoneLost == Spec => []NothingLost
<1>1. IInv => NothingLost
  <2> DEFINE Done == Numbers(ToSet(executed))
             Number == [k \in DOMAIN executed |-> executed[k].number]
  <2> SUFFICES ASSUME IInv, Serving
               PROVE  /\ Numbers(Waiting) \cup Done = Handed
                      /\ Numbers(Waiting) \cap Done = {}
                      /\ Cardinality(Done) = Len(executed)
    BY DEF NothingLost, Serving, Handed
  <2>1. /\ \A k \in DOMAIN executed : executed[k].number \in Handed
        /\ \A n \in Handed : n \in Nat \ {0}
        /\ DOMAIN executed = 1..Len(executed) /\ Len(executed) \in Nat
    BY DEF IInv, Order, Typed, Handed
  <2>2. Done = {executed[k].number : k \in DOMAIN executed}
    BY <2>1 DEF Numbers, ToSet
  <2>3. ASSUME NEW i \in DOMAIN Starts, Made(i), NEW n \in Awaited(services[Starts[i]])
        PROVE  n \in Handed /\ n \notin Done
    <3>1. n \in Handed /\ Of(n) = Starts[i]
      BY <2>3 DEF IInv, Lines, Line, Existing
    <3>2. ASSUME NEW k \in DOMAIN executed, executed[k].number = n PROVE FALSE
      <4>1. executed[k].number < n
        BY <2>3, <3>1, <3>2 DEF IInv, Order
      <4> QED BY <2>1, <3>1, <3>2, <4>1
    <3> QED BY <2>2, <3>1, <3>2
  <2>4. Numbers(Waiting) \cup Done = Handed
    <3>1. ASSUME NEW n \in Handed PROVE n \in Numbers(Waiting) \/ n \in Done
      BY <2>2, WaitingFacts DEF IInv, Complete
    <3>2. ASSUME NEW n \in Numbers(Waiting) PROVE n \in Handed
      BY <2>3, WaitingFacts
    <3> HIDE DEF Done
    <3> QED BY <2>1, <2>2, <3>1, <3>2
  <2>5. Numbers(Waiting) \cap Done = {}
    BY <2>3, WaitingFacts
  <2>6. Number \in Bijection(1..Len(executed), Done)
    <3>1. ASSUME NEW j \in DOMAIN executed, NEW k \in DOMAIN executed, j < k
          PROVE  executed[j].number # executed[k].number
      <4> SUFFICES ASSUME executed[j].number = executed[k].number PROVE FALSE
        OBVIOUS
      <4>1. executed[j].number < executed[k].number
        BY <3>1 DEF IInv, Order
      <4>2. executed[j].number \in Nat
        BY <2>1
      <4> QED BY <4>1, <4>2
    <3>2. ASSUME NEW j \in DOMAIN executed, NEW k \in DOMAIN executed,
                 executed[j].number = executed[k].number
          PROVE  j = k
      <4>1. ~(j < k) /\ ~(k < j)
        BY <3>1, <3>2
      <4> QED BY <2>1, <4>1
    <3>3. Number \in [1..Len(executed) -> Done]
      BY <2>1, <2>2
    <3>4. \A n \in Done : \E k \in 1..Len(executed) : Number[k] = n
      BY <2>1, <2>2
    <3>5. \A j, k \in 1..Len(executed) : Number[j] = Number[k] => j = k
      BY <2>1, <3>2
    <3> HIDE DEF Number, Done
    <3> QED BY ONLY <3>3, <3>4, <3>5, Fun_IsBij
  <2>7. Cardinality(Done) = Len(executed)
    <3>1. ExistsBijection(1..Len(executed), Done)
      BY <2>6 DEF ExistsBijection
    <3>2. IsFiniteSet(1..Len(executed)) /\ Cardinality(1..Len(executed)) = Len(executed)
      BY <2>1, FS_Interval
    <3> HIDE DEF Done
    <3> QED BY <3>1, <3>2, FS_Bijection
  <2> QED BY <2>4, <2>5, <2>7
<1> QED BY Invariance, <1>1, PTL

(* lua_service_join frees a service only when no thread is in it, and      *)
(* main_zone_service after all others (NoUseAfterFree).                    *)
THEOREM FreedLast == Spec => []NoUseAfterFree
<1>1. IInv => NoUseAfterFree
  <2> SUFFICES ASSUME IInv, NEW s \in Threads, NEW t \in Uses(s) PROVE ~services[t].freed
    BY DEF NoUseAfterFree
  <2>1. PICK i \in DOMAIN Starts : s = Starts[i]
    BY LoadFacts DEF IInv, Typed
  <2>2. pc[s] \in {"boot", "check", "own", "shared"}
    BY DEF Uses
  <2>3. CASE t = s
    <3>1. Existing(i, services[s], pc[s])
      BY <2>1, <2>2, RunningLine DEF Live
    <3> QED BY <2>2, <2>3, <3>1 DEF Existing
  <2>4. CASE t = Shared /\ pc[s] = "shared"
    <3>1. main[1] # "done"
      BY <2>1, <2>4 DEF IInv, Joined
    <3> QED BY <2>4, <3>1 DEF IInv, Joined
  <2> QED BY <2>2, <2>3, <2>4 DEF Uses
<1> QED BY Invariance, <1>1, PTL
=============================================================================
