----------------------------- MODULE LogicProofs -----------------------------
(***************************************************************************)
(* Proofs about a logic server, for every number of roles, connections and *)
(* callbacks, whatever the delays and pauses, and for every implementation *)
(* of the tree of ticks that sorts them.                                   *)
(***************************************************************************)
EXTENDS LogicServer, ModLemmas, SequenceTheorems, FiniteSetTheorems

(* Trees that can be made of at most MaxTicks keys at a time by inserting   *)
(* keys that are absent and deleting keys that are present, which do what   *)
(* their callers expect (TreeShapes checks sbtree.c against it).            *)
TreesSorted(Trees) ==
  /\ TreeEmpty \in Trees /\ TreeKeys(TreeEmpty) = {}
  /\ \A tree \in Trees : Sorted(tree, Nat)
  /\ \A tree \in Trees : \A key \in TreeKeys(tree) : TreeDelete(tree, key) \in Trees
  /\ \A tree \in Trees : \A key \in Nat \ TreeKeys(tree) :
       Cardinality(TreeKeys(tree)) < MaxTicks => TreeInsert(tree, key) \in Trees

(* Clients do not name the two functions of network.lua that put an entry   *)
(* into the table of sessions (MCLogicUnknown.cfg shows what they break).   *)
TypesKeepOut == MsgTypes \cap {"handle_accept", "reg_session"} = {}

(* Callbacks in the table and their ticks in the tree. *)
Callbacks(ts, Trees) ==
  /\ ts = [tree |-> ts.tree, funs |-> ts.funs]
  /\ ts.tree \in Trees
  /\ ts.funs \in [TreeKeys(ts.tree) -> {"connect_db", "other"}]

(* Of the waiting ticks, a round with l still to run runs all those of a    *)
(* second before now, and none of a second after it.                        *)
Early(ids, now) == {t \in ids : Second(t) < now}
Ripe(ids, now)  == {t \in ids : Second(t) <= now}
Rounded(ids, now, l) == Cardinality(Early(ids, now)) <= l /\ l <= Cardinality(Ripe(ids, now))

TickInv(Trees) ==
  /\ seconds \in Nat /\ msec \in Nat /\ left \in Nat
  /\ Callbacks(ticks, Trees)
  /\ Rounded(DOMAIN ticks.funs, seconds, left)

Kinds   == {"listen", "db", "accept", "role", "bare"}
Sockets == [up : BOOLEAN, events : SUBSET {"accept", "connect", "error", "read"},
            inbox : Seq(Msg), backlog : Nat]
Entries == [kind : Kinds, fd : Nat, role : Roles \cup {NoRole}]

(* The tables have the same sockets, and count their number. *)
Shaped(tb) ==
  /\ tb = [net |-> tb.net, sessions |-> tb.sessions, count |-> tb.count, roles |-> tb.roles]
  /\ tb.net \in [DOMAIN tb.net -> Sockets]
  /\ tb.sessions \in [DOMAIN tb.net -> Entries]
  /\ tb.roles \in [DOMAIN tb.roles -> Nat]
  /\ IsFiniteSet(DOMAIN tb.net) /\ tb.count = Cardinality(DOMAIN tb.net)

(* What the network reports of a socket, db being that to the database.     *)
Reports(fd, db) == IF fd = Listener THEN {"accept"}
                   ELSE IF fd = db THEN {"connect", "error"} ELSE {"read", "error"}

(* There is one listener and at most one session to the database.           *)
Kept(tb, fd, db) ==
  /\ tb.sessions[fd].fd = fd
  /\ tb.sessions[fd].kind = "listen" <=> fd = Listener
  /\ tb.sessions[fd].kind = "db" <=> fd = db
  /\ tb.net[fd].events \subseteq Reports(fd, db)

(* The session of a role, and the role of a session.                        *)
Online(tb) ==
  /\ \A role \in DOMAIN tb.roles :
       /\ tb.roles[role] \in DOMAIN tb.net
       /\ tb.sessions[tb.roles[role]] = [kind |-> "role", fd |-> tb.roles[role], role |-> role]
  /\ \A fd \in DOMAIN tb.net :
       tb.sessions[fd].kind = "role" => /\ tb.sessions[fd].role \in DOMAIN tb.roles
                                        /\ tb.roles[tb.sessions[fd].role] = fd

Good(tb, db, n) ==
  /\ Shaped(tb) /\ Online(tb)
  /\ Listener \in DOMAIN tb.net /\ DOMAIN tb.net \subseteq 1..n
  /\ \A fd \in DOMAIN tb.net : Kept(tb, fd, db)

(* The session of the database. *)
Database ==
  /\ main_db = [fd |-> main_db.fd, tick_id |-> main_db.tick_id, wait_sec |-> main_db.wait_sec]
  /\ main_db.fd \in 0..opened /\ main_db.fd # Listener
  /\ main_db.wait_sec \in Nat

Server ==
  /\ load \in Loads /\ opened \in Nat /\ opened <= load.sockets
  /\ Database /\ OneAttempt
  /\ Good(Table, main_db.fd, opened)

IInv(Trees) == TickInv(Trees) /\ Server

-----------------------------------------------------------------------------
(***************************************************************************)
(* Ticks.                                                                  *)
(***************************************************************************)
(* A tick is of a second when it lies in that second's range. *)
LEMMA SecondIs ==
  ASSUME NEW t \in Nat, NEW s \in Nat
  PROVE  /\ Second(t) \in Nat
         /\ Second(t) = s <=> (s * Span <= t /\ t < (s + 1) * Span)
         /\ Second(t) <= s <=> t < (s + 1) * Span
         /\ s * Span \in Nat /\ (s + 1) * Span \in Nat
<1> DEFINE q == t \div Span
           r == t % Span
<1>1. Span \in Nat \ {0}
  BY SecTickAssumption
<1>2. q \in Nat /\ r \in 0..Span - 1 /\ t = Span * q + r
  BY <1>1, DivMod
<1>3. s * Span \in Nat /\ (s + 1) * Span = s * Span + Span /\ q * Span = Span * q
  BY <1>1, <1>2
<1> HIDE DEF q, r
<1>4. q <= s => q * Span <= s * Span
  BY <1>1, <1>2, Z3
<1>5. q < s => q * Span + Span <= s * Span
  <2> SUFFICES ASSUME q < s PROVE q * Span + Span <= s * Span
    OBVIOUS
  <2>1. PICK d \in Nat : s = q + 1 + d
    BY <1>2
  <2>2. s * Span = q * Span + Span + d * Span /\ d * Span \in Nat
    BY <1>1, <1>2, <2>1
  <2> QED BY <1>1, <1>2, <1>3, <2>2
<1>6. q > s => s * Span + Span <= q * Span
  <2> SUFFICES ASSUME q > s PROVE s * Span + Span <= q * Span
    OBVIOUS
  <2>1. PICK d \in Nat : q = s + 1 + d
    BY <1>2
  <2>2. q * Span = s * Span + Span + d * Span /\ d * Span \in Nat
    BY <1>1, <1>2, <2>1
  <2> QED BY <1>1, <1>2, <1>3, <2>2
<1>7. Second(t) = q
  BY DEF Second, q
<1> QED BY <1>1, <1>2, <1>3, <1>4, <1>5, <1>6, <1>7

(* Later ticks are of no earlier second. *)
LEMMA SecondMonotone ==
  ASSUME NEW t \in Nat, NEW u \in Nat, t <= u
  PROVE  Second(t) <= Second(u)
  BY DivMonotone, SecTickAssumption DEF Second

(* What lies below a bound lies below a higher one. *)
LEMMA BelowMonotone ==
  ASSUME NEW K \in SUBSET Nat, NEW a \in Nat, NEW b \in Nat, a <= b
  PROVE  {k \in K : k < a} \subseteq {k \in K : k < b}
<1>1. ASSUME NEW k \in K, k < a PROVE k < b
  BY <1>1
<1> QED BY ONLY <1>1

(* What lies below a bound is finite, and part of the tree. *)
LEMMA BelowFinite ==
  ASSUME NEW Trees, TreesSorted(Trees), NEW tree \in Trees, NEW a \in Nat
  PROVE  /\ IsFiniteSet(TreeKeys(tree)) /\ TreeKeys(tree) \subseteq Nat
         /\ IsFiniteSet({k \in TreeKeys(tree) : k < a})
         /\ Below(tree, a) \in Nat /\ Below(tree, a) <= Cardinality(TreeKeys(tree))
         /\ Cardinality(TreeKeys(tree)) \in Nat
<1>1. IsFiniteSet(TreeKeys(tree)) /\ TreeKeys(tree) \subseteq Nat
  BY DEF TreesSorted, Sorted
<1>2. {k \in TreeKeys(tree) : k < a} \subseteq TreeKeys(tree)
  OBVIOUS
<1> QED BY <1>1, <1>2, FS_Subset, FS_CardinalityType DEF Below

(* lt counts the keys below a bound. *)
LEMMA LtCounts ==
  ASSUME NEW Trees, TreesSorted(Trees), NEW tree \in Trees, NEW a \in Nat
  PROVE  /\ TreeLt(tree, a) = Cardinality({k \in TreeKeys(tree) : k < a})
         /\ TreeLt(tree, a) \in Nat /\ TreeLt(tree, a) <= Cardinality(TreeKeys(tree))
         /\ IsFiniteSet({k \in TreeKeys(tree) : k < a})
<1>1. Sorted(tree, Nat)
  BY DEF TreesSorted
<1>2. TreeLt(tree, a) = Below(tree, a)
  BY <1>1 DEF Sorted
<1> QED BY <1>2, BelowFinite DEF Below

(* index finds the key with so many below it. *)
LEMMA IndexFinds ==
  ASSUME NEW Trees, TreesSorted(Trees), NEW tree \in Trees,
         NEW i \in 0..Cardinality(TreeKeys(tree)) - 1
  PROVE  /\ TreeIndex(tree, i) \in TreeKeys(tree)
         /\ Cardinality({k \in TreeKeys(tree) : k < TreeIndex(tree, i)}) = i
<1>1. Sorted(tree, Nat)
  BY DEF TreesSorted
<1> QED BY <1>1 DEF Sorted, Below

(* A key that is inserted or deleted is the only one that comes or goes. *)
LEMMA KeysChange ==
  ASSUME NEW Trees, TreesSorted(Trees), NEW tree \in Trees, NEW key \in Nat
  PROVE  /\ key \in TreeKeys(tree) =>
              /\ TreeDelete(tree, key) \in Trees
              /\ TreeKeys(TreeDelete(tree, key)) = TreeKeys(tree) \ {key}
         /\ key \notin TreeKeys(tree) /\ Cardinality(TreeKeys(tree)) < MaxTicks =>
              /\ TreeInsert(tree, key) \in Trees
              /\ TreeKeys(TreeInsert(tree, key)) = TreeKeys(tree) \cup {key}
<1>1. Sorted(tree, Nat)
  BY DEF TreesSorted
<1>2. CASE key \in TreeKeys(tree)
  <2>1. TreeDelete(tree, key) \in Trees
    BY <1>2 DEF TreesSorted
  <2> QED BY <1>1, <1>2, <2>1 DEF Sorted
<1>3. CASE key \notin TreeKeys(tree)
  <2>1. Cardinality(TreeKeys(tree)) < MaxTicks => TreeInsert(tree, key) \in Trees
    BY <1>3 DEF TreesSorted
  <2> QED BY <1>1, <1>3, <2>1 DEF Sorted
<1> QED BY <1>2, <1>3

(* The key that index finds below a bound is the last one below it. *)
LEMMA LastBelow ==
  ASSUME NEW Trees, TreesSorted(Trees), NEW tree \in Trees, NEW a \in Nat,
         TreeLt(tree, a) > 0
  PROVE  LET last == TreeIndex(tree, TreeLt(tree, a) - 1)
         IN  /\ last \in TreeKeys(tree) /\ last < a
             /\ \A k \in TreeKeys(tree) : k < a => k <= last
<1>1. PICK K : K = TreeKeys(tree)
  OBVIOUS
<1>2. PICK b : b = TreeLt(tree, a)
  OBVIOUS
<1>3. PICK last : last = TreeIndex(tree, b - 1)
  OBVIOUS
<1>4. b = Cardinality({k \in K : k < a}) /\ IsFiniteSet(K) /\ K \subseteq Nat
  BY <1>1, <1>2, LtCounts, BelowFinite
<1>5. PICK n \in Nat : n = Cardinality(K)
  BY <1>1, BelowFinite
<1>6. b \in Nat /\ 1 <= b /\ b <= n
  <2>1. b \in Nat /\ b <= n /\ b > 0
    <3>1. TreeLt(tree, a) \in Nat /\ TreeLt(tree, a) <= Cardinality(TreeKeys(tree))
      BY LtCounts
    <3> QED BY <1>1, <1>2, <1>5, <3>1
  <2> QED BY ONLY <2>1
<1>7. last \in K /\ Cardinality({k \in K : k < last}) = b - 1
  <2>1. b - 1 \in 0..Cardinality(K) - 1
    BY ONLY <1>5, <1>6
  <2> QED BY <1>1, <1>3, <2>1, IndexFinds
<1>8. IsFiniteSet({k \in K : k < a}) /\ IsFiniteSet({k \in K : k < last})
  BY <1>4, FS_Subset
<1>9. last < a
  <2> SUFFICES ASSUME ~(last < a) PROVE FALSE
    OBVIOUS
  <2>1. a \in Nat /\ last \in K /\ K \subseteq Nat /\ a <= last
    BY <1>4, <1>7
  <2>2. {k \in K : k < a} \subseteq {k \in K : k < last}
    BY <2>1, BelowMonotone
  <2>3. b <= b - 1
    BY <1>4, <1>7, <1>8, <2>2, FS_Subset
  <2> QED BY ONLY <1>6, <2>3
<1>10. ASSUME NEW k \in K, k < a, ~(k <= last) PROVE FALSE
  <2>1. a \in Nat /\ last \in K /\ K \subseteq Nat /\ last < a /\ k \in K /\ last < k
    BY <1>4, <1>7, <1>9, <1>10
  <2>2. {j \in K : j < last} \cup {last} \subseteq {j \in K : j < a} \ {k}
    <3>1. ASSUME NEW j \in K, j < last PROVE j < a /\ j # k
      BY <2>1, <3>1
    <3>2. last < a /\ last # k /\ last \in K
      BY <2>1
    <3> QED BY ONLY <3>1, <3>2
  <2>3. Cardinality({j \in K : j < last} \cup {last}) = b
    <3>1. last \notin {j \in K : j < last}
      BY <1>4, <1>7
    <3>2. Cardinality({j \in K : j < last} \cup {last}) = Cardinality({j \in K : j < last}) + 1
      BY <1>8, <3>1, FS_AddElement
    <3> QED BY <1>7, <1>6, <3>2
  <2>4. IsFiniteSet({j \in K : j < a} \ {k}) /\ Cardinality({j \in K : j < a} \ {k}) = b - 1
    BY <1>4, <1>8, <1>10, FS_RemoveElement
  <2>5. b <= b - 1
    BY <2>2, <2>3, <2>4, FS_Subset
  <2> QED BY ONLY <1>6, <2>5
<1> QED BY <1>1, <1>2, <1>3, <1>7, <1>9, <1>10, <1>4

(* A new tick is one of its second, behind the others. *)
LEMMA NewTickBehind ==
  ASSUME NEW Trees, TreesSorted(Trees), NEW tree \in Trees, NEW s \in Nat,
         Second(NewTick(tree, s)) = s
  PROVE  LET tick == NewTick(tree, s)
         IN  /\ tick \in Nat \ TreeKeys(tree)
             /\ \A k \in TreeKeys(tree) : Second(k) = s => k < tick
<1>1. PICK K : K = TreeKeys(tree)
  OBVIOUS
<1>2. PICK b : b = TreeLt(tree, (s + 1) * Span)
  OBVIOUS
<1>3. PICK last : last = TreeIndex(tree, b - 1)
  OBVIOUS
<1>4. PICK tick : tick = NewTick(tree, s)
  OBVIOUS
<1>5. s * Span \in Nat /\ (s + 1) * Span \in Nat /\ K \subseteq Nat
  BY <1>1, SecondIs, BelowFinite
<1>6. b > 0 => last \in K /\ last < (s + 1) * Span /\ \A k \in K : k < (s + 1) * Span => k <= last
  BY <1>1, <1>2, <1>3, <1>5, LastBelow
<1>7. b = Cardinality({k \in K : k < (s + 1) * Span}) /\ b \in Nat
       /\ IsFiniteSet({k \in K : k < (s + 1) * Span})
  BY <1>1, <1>2, <1>5, LtCounts
<1>8. tick = IF b > 0 /\ last >= s * Span THEN last + 1 ELSE s * Span
  BY <1>2, <1>3, <1>4 DEF NewTick
<1>9. tick \in Nat
  <2>1. CASE b > 0 /\ last >= s * Span
    <3>1. tick = last + 1 /\ last \in K /\ K \subseteq Nat
      BY <1>5, <1>6, <1>8, <2>1
    <3> QED BY ONLY <3>1
  <2>2. CASE ~(b > 0 /\ last >= s * Span)
    BY <1>5, <1>8, <2>2
  <2> QED BY <2>1, <2>2
<1>10. tick < (s + 1) * Span /\ s * Span <= tick
  BY <1>4, <1>9, SecondIs
<1>11. ASSUME NEW k \in K, Second(k) = s PROVE k < tick
  <2>1. s * Span <= k /\ k < (s + 1) * Span /\ k \in Nat
    BY <1>5, <1>11, SecondIs
  <2>2. b > 0
    <3> SUFFICES ASSUME b = 0 PROVE FALSE
      BY <1>7
    <3> QED BY <1>7, <1>11, <2>1, FS_EmptySet
  <2>3. k <= last /\ k \in Nat /\ last \in Nat /\ s * Span \in Nat
    BY <1>5, <1>6, <2>1, <2>2
  <2>4. last >= s * Span /\ tick = last + 1
    BY <1>8, <2>1, <2>2, <2>3
  <2> QED BY ONLY <2>3, <2>4
<1>12. tick \notin K
  BY <1>4, <1>5, <1>9, <1>11
<1> QED BY <1>1, <1>4, <1>9, <1>11, <1>12

(* The first tick is the least. *)
LEMMA FirstLeast ==
  ASSUME NEW Trees, TreesSorted(Trees), NEW tree \in Trees, TreeKeys(tree) # {}
  PROVE  LET first == TreeIndex(tree, 0)
         IN  first \in TreeKeys(tree) /\ \A k \in TreeKeys(tree) : first <= k
<1>1. PICK K : K = TreeKeys(tree)
  OBVIOUS
<1>2. PICK first : first = TreeIndex(tree, 0)
  OBVIOUS
<1>3. IsFiniteSet(K) /\ K \subseteq Nat /\ Cardinality(K) \in Nat \ {0}
  BY <1>1, BelowFinite, FS_EmptySet
<1>4. first \in K /\ Cardinality({k \in K : k < first}) = 0
  <2>1. 0 \in 0..Cardinality(TreeKeys(tree)) - 1
    BY <1>1, <1>3
  <2> QED BY <1>1, <1>2, <2>1, IndexFinds
<1>5. {k \in K : k < first} = {}
  BY <1>3, <1>4, FS_EmptySet, FS_Subset
<1> QED BY <1>1, <1>2, <1>3, <1>4, <1>5

-----------------------------------------------------------------------------
(***************************************************************************)
(* The tables.                                                             *)
(***************************************************************************)
(* A table entry taken out or put in. *)
LEMMA Entry ==
  ASSUME NEW f, NEW x, NEW v
  PROVE  /\ DOMAIN Without(f, x) = DOMAIN f \ {x}
         /\ \A y \in DOMAIN f \ {x} : Without(f, x)[y] = f[y]
         /\ DOMAIN Put(f, x, v) = DOMAIN f \cup {x}
         /\ Put(f, x, v)[x] = v
         /\ \A y \in DOMAIN f \ {x} : Put(f, x, v)[y] = f[y]
         /\ Put(Without(f, x), x, v) = Put(f, x, v)
  BY DEF Without, Put

(* What a table is that has lost a session. *)
LEMMA DelFields ==
  ASSUME NEW tb, Shaped(tb), NEW fd
  PROVE  LET new == DelSession(tb, fd)
         IN  /\ new.net = Without(tb.net, fd) /\ new.sessions = Without(tb.sessions, fd)
             /\ new.roles = tb.roles
             /\ Shaped(new)
             /\ DOMAIN new.net = DOMAIN tb.net \ {fd}
             /\ \A x \in DOMAIN tb.net \ {fd} : /\ new.net[x] = tb.net[x]
                                                /\ new.sessions[x] = tb.sessions[x]
<1>1. PICK c : c = IF fd \in DOMAIN tb.sessions THEN tb.count - 1 ELSE tb.count
  OBVIOUS
<1>2. PICK new : new = [net |-> Without(tb.net, fd), sessions |-> Without(tb.sessions, fd),
                        count |-> c, roles |-> tb.roles]
  OBVIOUS
<1>3. DelSession(tb, fd) = new
  <2>1. tb = [net |-> tb.net, sessions |-> tb.sessions, count |-> tb.count, roles |-> tb.roles]
    BY DEF Shaped
  <2>2. PICK a : a = Without(tb.net, fd)
    OBVIOUS
  <2>3. PICK b : b = Without(tb.sessions, fd)
    OBVIOUS
  <2>4. DelSession(tb, fd) = [tb EXCEPT !.net = a, !.count = c, !.sessions = b]
    BY <1>1, <2>2, <2>3 DEF DelSession
  <2> QED BY ONLY <1>2, <2>1, <2>2, <2>3, <2>4
<1>4. DOMAIN new.net = DOMAIN tb.net \ {fd} /\ DOMAIN new.sessions = DOMAIN tb.net \ {fd}
  <2>1. new.net = Without(tb.net, fd) /\ new.sessions = Without(tb.sessions, fd)
    BY <1>2
  <2>2. DOMAIN tb.sessions = DOMAIN tb.net
    BY DEF Shaped
  <2> QED BY <2>1, <2>2 DEF Without
<1>5. \A x \in DOMAIN tb.net \ {fd} : new.net[x] = tb.net[x] /\ new.sessions[x] = tb.sessions[x]
  <2>1. new.net = Without(tb.net, fd) /\ new.sessions = Without(tb.sessions, fd)
    BY <1>2
  <2>2. DOMAIN tb.sessions = DOMAIN tb.net
    BY DEF Shaped
  <2> QED BY <2>1, <2>2 DEF Without
<1>6. IsFiniteSet(DOMAIN tb.net) /\ tb.count = Cardinality(DOMAIN tb.net) /\ DOMAIN tb.sessions = DOMAIN tb.net
  BY DEF Shaped
<1>7. IsFiniteSet(DOMAIN new.net) /\ new.count = Cardinality(DOMAIN new.net)
  <2>1. CASE fd \in DOMAIN tb.net
    BY <1>1, <1>2, <1>4, <1>6, <2>1, FS_RemoveElement
  <2>2. CASE fd \notin DOMAIN tb.net
    <3>1. DOMAIN new.net = DOMAIN tb.net
      BY <1>4, <2>2
    <3> QED BY <1>1, <1>2, <1>6, <2>2, <3>1
  <2> QED BY <2>1, <2>2
<1>8. new.net \in [DOMAIN new.net -> Sockets] /\ new.sessions \in [DOMAIN new.net -> Entries]
  BY <1>2, <1>4, <1>5 DEF Shaped, Without
<1>9. new.roles \in [DOMAIN new.roles -> Nat]
  BY <1>2 DEF Shaped
<1>10. new = [net |-> new.net, sessions |-> new.sessions, count |-> new.count, roles |-> new.roles]
  BY <1>2
<1>11. Shaped(new)
  BY <1>7, <1>8, <1>9, <1>10 DEF Shaped
<1> QED BY <1>2, <1>3, <1>4, <1>5, <1>11

(* del_session of a session without a role, or of none. *)
LEMMA DelGood ==
  ASSUME NEW tb, NEW db, NEW n, Good(tb, db, n), NEW fd, fd # Listener,
         fd \in DOMAIN tb.net => tb.sessions[fd].kind # "role"
  PROVE  Good(DelSession(tb, fd), db, n)
<1>1. PICK new : new = DelSession(tb, fd)
  OBVIOUS
<1>2. /\ Shaped(tb) /\ Shaped(new) /\ new.roles = tb.roles
      /\ DOMAIN new.net = DOMAIN tb.net \ {fd}
      /\ \A x \in DOMAIN tb.net \ {fd} : new.net[x] = tb.net[x] /\ new.sessions[x] = tb.sessions[x]
  BY <1>1, DelFields DEF Good
<1>3. ASSUME NEW role \in DOMAIN tb.roles PROVE tb.roles[role] # fd
  <2>1. /\ tb.roles[role] \in DOMAIN tb.net
        /\ tb.sessions[tb.roles[role]] = [kind |-> "role", fd |-> tb.roles[role], role |-> role]
    BY <1>3 DEF Good, Online
  <2> QED BY <2>1
<1>4. Online(new)
  <2>1. ASSUME NEW role \in DOMAIN new.roles
        PROVE  /\ new.roles[role] \in DOMAIN new.net
               /\ new.sessions[new.roles[role]] = [kind |-> "role", fd |-> new.roles[role], role |-> role]
    BY <1>2, <1>3 DEF Good, Online
  <2>2. ASSUME NEW x \in DOMAIN new.net, new.sessions[x].kind = "role"
        PROVE  new.sessions[x].role \in DOMAIN new.roles /\ new.roles[new.sessions[x].role] = x
    BY <1>2, <2>2 DEF Good, Online
  <2> QED BY <2>1, <2>2 DEF Online
<1>5. ASSUME NEW x \in DOMAIN new.net PROVE Kept(new, x, db)
  BY <1>2 DEF Good, Kept
<1>6. Listener \in DOMAIN new.net /\ DOMAIN new.net \subseteq 1..n
  BY <1>2 DEF Good
<1> QED BY <1>1, <1>2, <1>4, <1>5, <1>6 DEF Good

(* The session of a role and its entry in all_roles, taken out together. *)
LEMMA DropGood ==
  ASSUME NEW tb, NEW db, NEW n, Good(tb, db, n), NEW role \in DOMAIN tb.roles
  PROVE  /\ Good([DelSession(tb, tb.roles[role]) EXCEPT !.roles = Without(@, role)], db, n)
         /\ tb.roles[role] \in DOMAIN tb.net /\ tb.sessions[tb.roles[role]].kind = "role"
         /\ tb.sessions[tb.roles[role]].fd = tb.roles[role] /\ tb.roles[role] # Listener
<1>1. PICK fd : fd = tb.roles[role]
  OBVIOUS
<1>2. PICK mid : mid = DelSession(tb, fd)
  OBVIOUS
<1>3. PICK new : new = [mid EXCEPT !.roles = Without(@, role)]
  OBVIOUS
<1>4. /\ Shaped(tb) /\ Shaped(mid) /\ mid.roles = tb.roles
      /\ DOMAIN mid.net = DOMAIN tb.net \ {fd}
      /\ \A x \in DOMAIN tb.net \ {fd} : mid.net[x] = tb.net[x] /\ mid.sessions[x] = tb.sessions[x]
  BY <1>2, DelFields DEF Good
<1>5. new = [net |-> mid.net, sessions |-> mid.sessions, count |-> mid.count,
             roles |-> Without(tb.roles, role)]
  BY <1>3, <1>4 DEF Shaped
<1>6. /\ DOMAIN new.roles = DOMAIN tb.roles \ {role}
      /\ \A r \in DOMAIN tb.roles \ {role} : new.roles[r] = tb.roles[r]
  <2>1. new.roles = Without(tb.roles, role)
    BY <1>5
  <2> QED BY <2>1 DEF Without
<1>7. Shaped(new)
  <2>1. new.roles \in [DOMAIN new.roles -> Nat]
    BY <1>4, <1>5, <1>6 DEF Shaped, Without
  <2> QED BY <1>4, <1>5, <2>1 DEF Shaped
<1>8. fd \in DOMAIN tb.net /\ tb.sessions[fd] = [kind |-> "role", fd |-> fd, role |-> role]
  BY <1>1 DEF Good, Online
<1>9. fd # Listener
  BY <1>8 DEF Good, Kept
<1>10. Online(new)
  <2>1. ASSUME NEW r \in DOMAIN new.roles
        PROVE  /\ new.roles[r] \in DOMAIN new.net
               /\ new.sessions[new.roles[r]] = [kind |-> "role", fd |-> new.roles[r], role |-> r]
    <3>1. r \in DOMAIN tb.roles /\ r # role /\ new.roles[r] = tb.roles[r]
      BY <1>6, <2>1
    <3>2. /\ tb.roles[r] \in DOMAIN tb.net
          /\ tb.sessions[tb.roles[r]] = [kind |-> "role", fd |-> tb.roles[r], role |-> r]
      BY <3>1 DEF Good, Online
    <3>3. tb.roles[r] # fd
      BY <1>8, <3>1, <3>2
    <3> QED BY <1>4, <1>5, <3>1, <3>2, <3>3
  <2>2. ASSUME NEW x \in DOMAIN new.net, new.sessions[x].kind = "role"
        PROVE  new.sessions[x].role \in DOMAIN new.roles /\ new.roles[new.sessions[x].role] = x
    <3>1. x \in DOMAIN tb.net /\ x # fd /\ new.sessions[x] = tb.sessions[x]
      BY <1>4, <1>5, <2>2
    <3>2. tb.sessions[x].role \in DOMAIN tb.roles /\ tb.roles[tb.sessions[x].role] = x
      BY <2>2, <3>1 DEF Good, Online
    <3>3. tb.sessions[x].role # role
      BY <1>1, <3>1, <3>2
    <3> QED BY <1>6, <3>1, <3>2, <3>3
  <2> QED BY <2>1, <2>2 DEF Online
<1>11. ASSUME NEW x \in DOMAIN new.net PROVE Kept(new, x, db)
  BY <1>4, <1>5 DEF Good, Kept
<1>12. Listener \in DOMAIN new.net /\ DOMAIN new.net \subseteq 1..n
  BY <1>4, <1>5, <1>9 DEF Good
<1> QED BY <1>1, <1>2, <1>3, <1>7, <1>8, <1>9, <1>10, <1>11, <1>12 DEF Good

(* A session that was accepted keeps its socket when its login fails ... *)
LEMMA BareGood ==
  ASSUME NEW tb, NEW db, NEW n, Good(tb, db, n), NEW fd \in DOMAIN tb.net,
         tb.sessions[fd].kind = "accept"
  PROVE  LET new == [tb EXCEPT !.sessions[fd].kind = "bare"]
         IN  /\ Good(new, db, n) /\ new.net = tb.net
             /\ new.sessions[fd].kind = "bare" /\ new.roles = tb.roles
<1>1. PICK e : e = [tb.sessions[fd] EXCEPT !.kind = "bare"]
  OBVIOUS
<1>2. PICK f : f = [tb.sessions EXCEPT ![fd] = e]
  OBVIOUS
<1>3. PICK new : new = [net |-> tb.net, sessions |-> f, count |-> tb.count, roles |-> tb.roles]
  OBVIOUS
<1>4. Shaped(tb)
  BY DEF Good
<1>5. [tb EXCEPT !.sessions[fd].kind = "bare"] = new
  <2>1. [tb EXCEPT !.sessions[fd].kind = "bare"] = [tb EXCEPT !.sessions = f]
    BY <1>1, <1>2
  <2> QED BY <1>3, <1>4, <2>1 DEF Shaped
<1>6. tb.sessions[fd] \in Entries /\ Kept(tb, fd, db)
  BY <1>4 DEF Shaped, Good
<1>7. e \in Entries /\ e.kind = "bare" /\ e.fd = tb.sessions[fd].fd
  BY <1>1, <1>6 DEF Entries, Kinds
<1>8. DOMAIN f = DOMAIN tb.net /\ f[fd] = e /\ \A x \in DOMAIN tb.net \ {fd} : f[x] = tb.sessions[x]
  BY <1>2, <1>4 DEF Shaped
<1>9. f \in [DOMAIN tb.net -> Entries]
  BY <1>2, <1>4, <1>7 DEF Shaped
<1>10. Shaped(new)
  BY <1>3, <1>4, <1>9 DEF Shaped
<1>11. Online(new)
  <2>1. ASSUME NEW r \in DOMAIN new.roles
        PROVE  /\ new.roles[r] \in DOMAIN new.net
               /\ new.sessions[new.roles[r]] = [kind |-> "role", fd |-> new.roles[r], role |-> r]
    <3>1. /\ tb.roles[r] \in DOMAIN tb.net
          /\ tb.sessions[tb.roles[r]] = [kind |-> "role", fd |-> tb.roles[r], role |-> r]
      BY <1>3, <2>1 DEF Good, Online
    <3>2. tb.roles[r] # fd
      BY <3>1
    <3> QED BY <1>3, <1>8, <3>1, <3>2
  <2>2. ASSUME NEW x \in DOMAIN new.net, new.sessions[x].kind = "role"
        PROVE  new.sessions[x].role \in DOMAIN new.roles /\ new.roles[new.sessions[x].role] = x
    <3>1. x # fd /\ x \in DOMAIN tb.net /\ new.sessions[x] = tb.sessions[x]
      BY <1>3, <1>7, <1>8, <2>2
    <3> QED BY <1>3, <2>2, <3>1 DEF Good, Online
  <2> QED BY <2>1, <2>2 DEF Online
<1>12. ASSUME NEW x \in DOMAIN new.net PROVE Kept(new, x, db)
  <2>1. Kept(tb, x, db) /\ x \in DOMAIN tb.net
    BY <1>3, <1>12 DEF Good
  <2>2. CASE x = fd
    BY <1>3, <1>6, <1>7, <1>8, <2>2 DEF Kept
  <2>3. CASE x # fd
    BY <1>3, <1>8, <2>1, <2>3 DEF Kept
  <2> QED BY <2>2, <2>3
<1> QED BY <1>3, <1>5, <1>7, <1>8, <1>10, <1>11, <1>12 DEF Good

(* ... and becomes the session of a role that has none when it succeeds. *)
LEMMA EnterGood ==
  ASSUME NEW tb, NEW db, NEW n, Good(tb, db, n), NEW fd \in DOMAIN tb.net,
         tb.sessions[fd].kind = "accept", NEW role \in Roles, role \notin DOMAIN tb.roles,
         NEW new, new = [net |-> tb.net,
                         sessions |-> [tb.sessions EXCEPT ![fd] = [kind |-> "role", fd |-> fd, role |-> role]],
                         count |-> tb.count, roles |-> Put(tb.roles, role, fd)]
  PROVE  Good(new, db, n)
<1>1. PICK e : e = [kind |-> "role", fd |-> fd, role |-> role]
  OBVIOUS
<1>2. PICK f : f = [tb.sessions EXCEPT ![fd] = e]
  OBVIOUS
<1>3. PICK g : g = Put(tb.roles, role, fd)
  OBVIOUS
<1>4. Shaped(tb)
  BY DEF Good
<1>5. new = [net |-> tb.net, sessions |-> f, count |-> tb.count, roles |-> g]
  BY <1>1, <1>2, <1>3
<1>6. tb.sessions[fd] \in Entries /\ Kept(tb, fd, db)
  BY <1>4 DEF Shaped, Good
<1>7. e \in Entries /\ e.kind = "role" /\ e.fd = fd /\ e.role = role /\ fd \in Nat
  BY <1>1, <1>6 DEF Entries, Kinds, Kept
<1>8. DOMAIN f = DOMAIN tb.net /\ f[fd] = e /\ \A x \in DOMAIN tb.net \ {fd} : f[x] = tb.sessions[x]
  BY <1>2, <1>4 DEF Shaped
<1>9. f \in [DOMAIN tb.net -> Entries]
  BY <1>2, <1>4, <1>7 DEF Shaped
<1>10. /\ DOMAIN g = DOMAIN tb.roles \cup {role} /\ g[role] = fd
       /\ \A r \in DOMAIN tb.roles : g[r] = tb.roles[r]
  BY <1>3 DEF Put
<1>11. g \in [DOMAIN g -> Nat]
  BY <1>3, <1>4, <1>7, <1>10 DEF Put, Shaped
<1>12. Shaped(new)
  BY <1>4, <1>5, <1>9, <1>11 DEF Shaped
<1>13. Online(new)
  <2>1. ASSUME NEW r \in DOMAIN new.roles
        PROVE  /\ new.roles[r] \in DOMAIN new.net
               /\ new.sessions[new.roles[r]] = [kind |-> "role", fd |-> new.roles[r], role |-> r]
    <3>1. CASE r = role
      BY <1>1, <1>5, <1>8, <1>10, <3>1
    <3>2. CASE r # role
      <4>1. r \in DOMAIN tb.roles /\ g[r] = tb.roles[r]
        BY <1>5, <1>10, <2>1, <3>2
      <4>2. /\ tb.roles[r] \in DOMAIN tb.net
            /\ tb.sessions[tb.roles[r]] = [kind |-> "role", fd |-> tb.roles[r], role |-> r]
        BY <4>1 DEF Good, Online
      <4>3. tb.roles[r] # fd
        BY <4>2
      <4> QED BY <1>5, <1>8, <4>1, <4>2, <4>3
    <3> QED BY <3>1, <3>2
  <2>2. ASSUME NEW x \in DOMAIN new.net, new.sessions[x].kind = "role"
        PROVE  new.sessions[x].role \in DOMAIN new.roles /\ new.roles[new.sessions[x].role] = x
    <3>1. CASE x = fd
      BY <1>5, <1>7, <1>8, <1>10, <3>1
    <3>2. CASE x # fd
      <4>1. x \in DOMAIN tb.net /\ new.sessions[x] = tb.sessions[x]
        BY <1>5, <1>8, <2>2, <3>2
      <4>2. tb.sessions[x].role \in DOMAIN tb.roles /\ tb.roles[tb.sessions[x].role] = x
        BY <2>2, <4>1 DEF Good, Online
      <4> QED BY <1>5, <1>10, <4>1, <4>2
    <3> QED BY <3>1, <3>2
  <2> QED BY <2>1, <2>2 DEF Online
<1>14. ASSUME NEW x \in DOMAIN new.net PROVE Kept(new, x, db)
  <2>1. Kept(tb, x, db) /\ x \in DOMAIN tb.net
    BY <1>5, <1>14 DEF Good
  <2>2. CASE x = fd
    BY <1>5, <1>6, <1>7, <1>8, <2>2 DEF Kept
  <2>3. CASE x # fd
    BY <1>5, <1>8, <2>1, <2>3 DEF Kept
  <2> QED BY <2>2, <2>3
<1> QED BY <1>5, <1>12, <1>13, <1>14 DEF Good

(* handle_error of the session of a client, or of one already closed. *)
LEMMA FailedGood ==
  ASSUME NEW tb, NEW db, NEW n, Good(tb, db, n), NEW fd, NEW s,
         s.fd = fd, fd # Listener, s.kind \in {"accept", "role", "bare"},
         fd \in DOMAIN tb.net => tb.sessions[fd] = s,
         fd \notin DOMAIN tb.net => (s.kind = "role" => s.role \notin DOMAIN tb.roles)
  PROVE  LET new == Failed(tb, s)
         IN  /\ Good(new, db, n)
             /\ IF s.kind = "bare" THEN new = tb ELSE DOMAIN new.net = DOMAIN tb.net \ {fd}
             /\ s.kind = "role" => s.role \notin DOMAIN new.roles
<1>1. CASE s.kind = "bare"
  BY <1>1 DEF Failed
<1>2. CASE s.kind = "accept"
  <2>1. Failed(tb, s) = DelSession(tb, fd)
    BY <1>2 DEF Failed
  <2>2. Good(DelSession(tb, fd), db, n)
    BY <1>2, DelGood
  <2> QED BY <1>2, <2>1, <2>2, DelFields DEF Good
<1>3. CASE s.kind = "role"
  <2>1. PICK mid : mid = DelSession(tb, fd)
    OBVIOUS
  <2>2. Failed(tb, s) = [mid EXCEPT !.roles = Without(@, s.role)]
    BY <1>3, <2>1 DEF Failed
  <2>3. Shaped(mid) /\ mid.roles = tb.roles /\ DOMAIN mid.net = DOMAIN tb.net \ {fd}
    BY <2>1, DelFields DEF Good
  <2>4. PICK new : new = [mid EXCEPT !.roles = Without(@, s.role)]
    OBVIOUS
  <2>5. new = [net |-> mid.net, sessions |-> mid.sessions, count |-> mid.count,
               roles |-> Without(tb.roles, s.role)]
    BY <2>3, <2>4 DEF Shaped
  <2>6. DOMAIN new.net = DOMAIN tb.net \ {fd} /\ s.role \notin DOMAIN new.roles
    <3>1. new.net = mid.net /\ new.roles = Without(tb.roles, s.role)
      BY <2>5
    <3>2. s.role \notin DOMAIN new.roles
      BY <3>1 DEF Without
    <3> QED BY <2>3, <3>1, <3>2
  <2>7. CASE fd \in DOMAIN tb.net
    <3>1. s.role \in DOMAIN tb.roles /\ tb.roles[s.role] = fd
      BY <1>3, <2>7 DEF Good, Online
    <3>2. Good(new, db, n)
      BY <2>1, <2>4, <3>1, DropGood
    <3> QED BY <1>3, <2>2, <2>4, <2>6, <3>2
  <2>8. CASE fd \notin DOMAIN tb.net
    <3>1. Without(tb.roles, s.role) = tb.roles
      BY <1>3, <2>8 DEF Without, Good, Shaped
    <3>2. new = mid
      BY <2>3, <2>5, <3>1 DEF Shaped
    <3>3. Good(mid, db, n)
      BY <2>1, <2>8, DelGood
    <3> QED BY <1>3, <2>2, <2>4, <2>6, <3>2, <3>3
  <2> QED BY <2>7, <2>8
<1> QED BY <1>1, <1>2, <1>3

(* ClientRequestLogin *)
LEMMA LoggedInGood ==
  ASSUME NEW tb, NEW db, NEW n, Good(tb, db, n), NEW fd \in DOMAIN tb.net,
         tb.sessions[fd].kind = "accept", NEW role \in Roles \cup {NoRole}
  PROVE  LET new == LoggedIn(tb, tb.sessions[fd], role)
         IN  /\ Good(new, db, n)
             /\ fd \in DOMAIN new.net /\ new.sessions[fd].kind \in {"role", "bare"}
             /\ db \in DOMAIN new.net <=> db \in DOMAIN tb.net
<1>1. PICK s : s = tb.sessions[fd]
  OBVIOUS
<1>2. Shaped(tb) /\ Kept(tb, fd, db) /\ s \in Entries /\ s.fd = fd
  BY <1>1 DEF Good, Kept, Shaped
<1>3. CASE role = NoRole
  <2>1. LoggedIn(tb, s, role) = [tb EXCEPT !.sessions[fd].kind = "bare"]
    BY <1>2, <1>3 DEF LoggedIn
  <2>2. PICK new : new = [tb EXCEPT !.sessions[fd].kind = "bare"]
    OBVIOUS
  <2>3. Good(new, db, n) /\ new.net = tb.net /\ new.sessions[fd].kind = "bare"
    BY <2>2, BareGood
  <2> QED BY <1>1, <2>1, <2>2, <2>3
<1>4. CASE role # NoRole /\ role \notin DOMAIN tb.roles
  <2>1. PICK e : e = [kind |-> "role", fd |-> fd, role |-> role]
    OBVIOUS
  <2>2. PICK new : new = [tb EXCEPT !.sessions[fd] = e, !.roles = Put(@, role, fd)]
    OBVIOUS
  <2>3. LoggedIn(tb, s, role) = new
    BY <1>2, <1>4, <2>1, <2>2 DEF LoggedIn
  <2>4. new = [net |-> tb.net, sessions |-> [tb.sessions EXCEPT ![fd] = e],
               count |-> tb.count, roles |-> Put(tb.roles, role, fd)]
    <3>1. PICK f : f = [tb.sessions EXCEPT ![fd] = e]
      OBVIOUS
    <3>2. PICK g : g = Put(tb.roles, role, fd)
      OBVIOUS
    <3>3. new = [tb EXCEPT !.sessions = f, !.roles = g]
      BY <2>2, <3>1, <3>2
    <3> QED BY <1>2, <3>1, <3>2, <3>3 DEF Shaped
  <2>5. Good(new, db, n)
    BY <1>4, <2>1, <2>4, EnterGood
  <2>6. new.net = tb.net /\ new.sessions[fd] = e
    BY <1>2, <2>4 DEF Shaped
  <2> QED BY <1>1, <2>1, <2>3, <2>5, <2>6
<1>5. CASE role # NoRole /\ role \in DOMAIN tb.roles
  <2>1. PICK old : old = tb.roles[role]
    OBVIOUS
  <2>2. PICK o : o = tb.sessions[old]
    OBVIOUS
  <2>3. PICK closed : closed = DelSession(tb, old)
    OBVIOUS
  <2>4. PICK base : base = [closed EXCEPT !.roles = Without(@, role)]
    OBVIOUS
  <2>5. /\ Good(base, db, n) /\ old \in DOMAIN tb.net /\ o.kind = "role" /\ o.fd = old
        /\ old # fd /\ Kept(tb, old, db)
    <3>1. /\ Good([DelSession(tb, old) EXCEPT !.roles = Without(@, role)], db, n)
          /\ old \in DOMAIN tb.net /\ tb.sessions[old].kind = "role" /\ tb.sessions[old].fd = old
      BY <1>5, <2>1, DropGood
    <3>2. Kept(tb, old, db)
      BY <3>1 DEF Good
    <3> QED BY <2>2, <2>3, <2>4, <3>1, <3>2
  <2>6. /\ Shaped(closed) /\ closed.roles = tb.roles
        /\ DOMAIN closed.net = DOMAIN tb.net \ {old}
        /\ \A x \in DOMAIN tb.net \ {old} : closed.sessions[x] = tb.sessions[x]
    BY <1>2, <2>3, DelFields
  <2>7. PICK e : e = [kind |-> "role", fd |-> fd, role |-> role]
    OBVIOUS
  <2>8. PICK new : new = [closed EXCEPT !.sessions[fd] = e, !.roles = Put(@, role, fd)]
    OBVIOUS
  <2>9. LoggedIn(tb, s, role) = new
    BY <1>2, <1>5, <2>1, <2>3, <2>7, <2>8 DEF LoggedIn
  <2>10. base = [net |-> closed.net, sessions |-> closed.sessions, count |-> closed.count,
                 roles |-> Without(tb.roles, role)]
    BY <2>4, <2>6 DEF Shaped
  <2>11. new = [net |-> base.net, sessions |-> [base.sessions EXCEPT ![fd] = e],
                count |-> base.count, roles |-> Put(base.roles, role, fd)]
    <3>1. PICK f : f = [closed.sessions EXCEPT ![fd] = e]
      OBVIOUS
    <3>2. PICK g : g = Put(tb.roles, role, fd)
      OBVIOUS
    <3>3. new = [closed EXCEPT !.sessions = f, !.roles = g]
      BY <2>6, <2>8, <3>1, <3>2
    <3>4. new = [net |-> closed.net, sessions |-> f, count |-> closed.count, roles |-> g]
      BY <2>6, <3>3 DEF Shaped
    <3>5. Put(base.roles, role, fd) = g
      <4>1. base.roles = Without(tb.roles, role)
        BY <2>10
      <4> QED BY <3>2, <4>1 DEF Put, Without
    <3> QED BY <2>10, <3>1, <3>4, <3>5
  <2>12. fd \in DOMAIN base.net /\ base.sessions[fd].kind = "accept" /\ role \notin DOMAIN base.roles
    <3>1. base.net = closed.net /\ base.sessions = closed.sessions /\ base.roles = Without(tb.roles, role)
      BY <2>10
    <3>2. role \notin DOMAIN base.roles
      BY <3>1 DEF Without
    <3> QED BY <2>5, <2>6, <3>1, <3>2
  <2>13. Good(new, db, n)
    BY <1>5, <2>5, <2>7, <2>11, <2>12, EnterGood
  <2>14. DOMAIN new.net = DOMAIN tb.net \ {old} /\ new.sessions[fd] = e
    BY <2>6, <2>10, <2>11, <2>12 DEF Shaped
  <2>15. old # db
    BY <2>2, <2>5 DEF Kept
  <2> QED BY <1>1, <2>5, <2>7, <2>9, <2>13, <2>14, <2>15
<1> QED BY <1>3, <1>4, <1>5

(* While do_round reads a socket: s is the session it found, which may have *)
(* been closed or have changed meanwhile.                                   *)
Reading(tb, db, n, s) ==
  /\ Good(tb, db, n)
  /\ s.fd # Listener /\ s.fd # db /\ s.kind \in {"accept", "role", "bare"}
  /\ s.fd \in DOMAIN tb.net => tb.sessions[s.fd].kind \in {"accept", "role", "bare"}
  /\ s.kind = "role" => IF s.fd \in DOMAIN tb.net THEN tb.sessions[s.fd] = s
                        ELSE s.role \notin DOMAIN tb.roles

(* One message keeps the tables, and the socket of the database.           *)
LEMMA HandledGood ==
  ASSUME NEW tb, NEW db, NEW n, NEW s, Reading(tb, db, n, s), TypesKeepOut, NEW msg \in Msg
  PROVE  /\ Reading(Handled(tb, s, msg), db, n, s)
         /\ db \in DOMAIN Handled(tb, s, msg).net <=> db \in DOMAIN tb.net
<1>1. PICK fd : fd = s.fd
  OBVIOUS
<1>2. PICK now : now = IF s.fd \in DOMAIN tb.sessions THEN tb.sessions[s.fd] ELSE s
  OBVIOUS
<1>3. PICK new : new = Handled(tb, s, msg)
  OBVIOUS
<1>4. Good(tb, db, n) /\ Shaped(tb) /\ DOMAIN tb.sessions = DOMAIN tb.net
  BY DEF Reading, Good, Shaped
<1>5. /\ fd # Listener /\ fd # db /\ s.fd = fd
      /\ s.kind \in {"accept", "role", "bare"} /\ now.kind \in {"accept", "role", "bare"}
      /\ fd \in DOMAIN tb.net => now = tb.sessions[fd]
      /\ fd \notin DOMAIN tb.net => now = s
      /\ s.kind = "role" => now = s
  BY <1>1, <1>2, <1>4 DEF Reading
<1>6. now.fd = fd
  BY <1>4, <1>5 DEF Good, Kept
<1>7. fd \notin DOMAIN tb.net => (now.kind = "role" => now.role \notin DOMAIN tb.roles)
  BY <1>1, <1>5 DEF Reading
<1>8. CASE new = Failed(tb, now)
  <2>1. /\ Good(new, db, n)
        /\ IF now.kind = "bare" THEN new = tb ELSE DOMAIN new.net = DOMAIN tb.net \ {fd}
        /\ now.kind = "role" => now.role \notin DOMAIN new.roles
    BY <1>4, <1>5, <1>6, <1>7, <1>8, FailedGood
  <2>2. CASE now.kind = "bare"
    BY <1>3, <2>1, <2>2
  <2>3. CASE now.kind # "bare"
    <3>1. fd \notin DOMAIN new.net /\ (db \in DOMAIN new.net <=> db \in DOMAIN tb.net)
      BY <1>5, <2>1, <2>3
    <3>2. s.kind = "role" => s.role \notin DOMAIN new.roles
      BY <1>5, <2>1
    <3> QED BY <1>3, <1>5, <2>1, <3>1, <3>2 DEF Reading
  <2> QED BY <2>2, <2>3
<1>9. CASE new = tb
  BY <1>3, <1>9
<1>10. CASE /\ fd \in DOMAIN tb.net /\ now.kind = "accept" /\ msg.role \in Roles \cup {NoRole}
            /\ new = LoggedIn(tb, now, msg.role)
  <2>1. /\ Good(new, db, n)
        /\ fd \in DOMAIN new.net /\ new.sessions[fd].kind \in {"role", "bare"}
        /\ db \in DOMAIN new.net <=> db \in DOMAIN tb.net
    BY <1>4, <1>5, <1>10, LoggedInGood
  <2>2. s.kind # "role"
    BY <1>5, <1>10
  <2> QED BY <1>3, <1>5, <2>1, <2>2 DEF Reading
<1>11. CASE /\ fd \in DOMAIN tb.net /\ now.kind = "accept"
            /\ new = [tb EXCEPT !.sessions[fd].kind = "bare"]
  <2>1. Good(new, db, n) /\ new.net = tb.net /\ new.sessions[fd].kind = "bare"
    BY <1>4, <1>5, <1>11, BareGood
  <2>2. s.kind # "role"
    BY <1>5, <1>11
  <2> QED BY <1>3, <1>5, <2>1, <2>2 DEF Reading
<1>12. ASSUME fd \in DOMAIN tb.net, now.kind = "accept", new = Dispatched(tb, now, msg)
       PROVE  \/ new = Failed(tb, now) \/ new = tb
              \/ new = [tb EXCEPT !.sessions[fd].kind = "bare"]
              \/ msg.role \in Roles \cup {NoRole} /\ new = LoggedIn(tb, now, msg.role)
  <2>1. msg.type \notin {"handle_accept", "reg_session"} /\ msg.role \in Roles \cup {NoRole}
    BY DEF Msg, TypesKeepOut
  <2>2. Failed(tb, now) = DelSession(tb, now.fd)
    BY <1>12 DEF Failed
  <2> QED BY <1>6, <1>12, <2>1, <2>2 DEF Dispatched
<1>13. \/ new = Failed(tb, now) \/ new = tb
       \/ /\ fd \in DOMAIN tb.net /\ now.kind = "accept"
          /\ new = [tb EXCEPT !.sessions[fd].kind = "bare"]
       \/ /\ fd \in DOMAIN tb.net /\ now.kind = "accept" /\ msg.role \in Roles \cup {NoRole}
          /\ new = LoggedIn(tb, now, msg.role)
  <2>1. CASE ~(fd \in DOMAIN tb.net /\ msg.type # "garbled")
    BY <1>1, <1>2, <1>3, <2>1 DEF Handled
  <2>2. CASE fd \in DOMAIN tb.net /\ msg.type # "garbled"
    <3>1. CASE now.kind = "accept"
      <4>1. new = Dispatched(tb, now, msg)
        BY <1>1, <1>2, <1>3, <2>2, <3>1 DEF Handled
      <4> QED BY <1>12, <2>2, <3>1, <4>1
    <3>2. CASE now.kind # "accept"
      BY <1>1, <1>2, <1>3, <2>2, <3>2 DEF Handled
    <3> QED BY <3>1, <3>2
  <2> QED BY <2>1, <2>2
<1> QED BY <1>8, <1>9, <1>10, <1>11, <1>13

(* The loop over the messages of a socket: there is a function that follows *)
(* its equation, as one for a part of the messages can be continued.        *)
LEMMA HandledAllIs ==
  ASSUME NEW tb, NEW s, NEW msgs \in Seq(Msg)
  PROVE  \E after :
           /\ after = [n \in 0..Len(msgs) |->
                         IF n = 0 THEN tb ELSE Handled(after[n - 1], s, msgs[n])]
           /\ HandledAll(tb, s, msgs) = after[Len(msgs)]
<1> DEFINE Follows(f, k) ==
             f = [n \in 0..k |-> IF n = 0 THEN tb ELSE Handled(f[n - 1], s, msgs[n])]
           Reached == {k \in Nat : \E f : Follows(f, k)}
<1>1. PICK m \in Nat : m = Len(msgs)
  OBVIOUS
<1>2. 0 \in Reached
  <2>1. PICK f : f = [n \in 0..0 |-> tb]
    OBVIOUS
  <2>2. Follows(f, 0)
    <3>1. \A n \in 0..0 : n = 0
      OBVIOUS
    <3>2. [n \in 0..0 |-> IF n = 0 THEN tb ELSE Handled(f[n - 1], s, msgs[n])] = [n \in 0..0 |-> tb]
      BY ONLY <3>1
    <3> QED BY <2>1, <3>2
  <2> QED BY <2>2
<1>3. ASSUME NEW k \in 0..m, k \in Reached PROVE k + 1 \in Reached
  <2>1. PICK f : Follows(f, k)
    BY <1>3
  <2>2. PICK v : v = Handled(f[k], s, msgs[k + 1])
    OBVIOUS
  <2>3. PICK h : h = [n \in 0..k + 1 |-> IF n = k + 1 THEN v ELSE f[n]]
    OBVIOUS
  <2>4. \A n \in 0..k : h[n] = f[n]
    <3>1. \A n \in 0..k : n \in 0..k + 1 /\ n # k + 1
      BY <1>3
    <3> QED BY <2>3, <3>1
  <2>5. ASSUME NEW n \in 0..k + 1
        PROVE  (IF n = k + 1 THEN v ELSE f[n])
                 = IF n = 0 THEN tb ELSE Handled(h[n - 1], s, msgs[n])
    <3>1. CASE n = k + 1
      <4>1. n # 0 /\ n - 1 = k /\ k \in 0..k
        BY <1>3, <3>1
      <4>2. h[n - 1] = f[k]
        BY <2>4, <4>1
      <4> QED BY <2>2, <3>1, <4>1, <4>2
    <3>2. CASE n # k + 1
      <4>1. n \in 0..k
        BY <1>3, <2>5, <3>2
      <4>2. f[n] = IF n = 0 THEN tb ELSE Handled(f[n - 1], s, msgs[n])
        BY <2>1, <4>1
      <4>3. n # 0 => n - 1 \in 0..k
        BY <1>3, <4>1
      <4>4. n # 0 => h[n - 1] = f[n - 1]
        BY <2>4, <4>3
      <4> QED BY <3>2, <4>2, <4>4
    <3> QED BY <3>1, <3>2
  <2>6. Follows(h, k + 1)
    <3>1. h = [n \in 0..k + 1 |-> IF n = 0 THEN tb ELSE Handled(h[n - 1], s, msgs[n])]
      <4> DEFINE A(n) == IF n = k + 1 THEN v ELSE f[n]
                 B(n) == IF n = 0 THEN tb ELSE Handled(h[n - 1], s, msgs[n])
      <4>1. \A n \in 0..k + 1 : A(n) = B(n)
        BY <2>5
      <4>2. h = [n \in 0..k + 1 |-> A(n)]
        BY <2>3
      <4> HIDE DEF A, B
      <4>3. h = [n \in 0..k + 1 |-> B(n)]
        BY ONLY <4>1, <4>2
      <4> QED BY <4>3 DEF B
    <3> QED BY <3>1
  <2>7. k + 1 \in Nat
    BY <1>3
  <2> QED BY <2>6, <2>7
<1>4. \E f : Follows(f, m)
  <2> HIDE DEF Reached
  <2>1. 0..m \subseteq Reached
    BY <1>2, <1>3, UpTo
  <2>2. m \in Reached
    BY <2>1
  <2> QED BY <2>2 DEF Reached
<1>5. PICK after : after = CHOOSE f : Follows(f, m)
  OBVIOUS
<1>6. Follows(after, m)
  <2> HIDE DEF Follows
  <2> QED BY <1>4, <1>5
<1>7. HandledAll(tb, s, msgs) = after[m]
  BY <1>1, <1>5 DEF HandledAll
<1> QED BY <1>1, <1>6, <1>7

(* All messages of a socket keep them: by induction over their number.     *)
LEMMA HandledAllGood ==
  ASSUME NEW tb, NEW db, NEW n, NEW s, Reading(tb, db, n, s), TypesKeepOut,
         NEW msgs \in Seq(Msg)
  PROVE  /\ Reading(HandledAll(tb, s, msgs), db, n, s)
         /\ db \in DOMAIN HandledAll(tb, s, msgs).net <=> db \in DOMAIN tb.net
<1>1. PICK m \in Nat : m = Len(msgs)
  OBVIOUS
<1>2. PICK after : /\ after = [i \in 0..m |-> IF i = 0 THEN tb ELSE Handled(after[i - 1], s, msgs[i])]
                   /\ HandledAll(tb, s, msgs) = after[m]
  <2>1. PICK after :
          /\ after = [i \in 0..Len(msgs) |->
                        IF i = 0 THEN tb ELSE Handled(after[i - 1], s, msgs[i])]
          /\ HandledAll(tb, s, msgs) = after[Len(msgs)]
    BY HandledAllIs
  <2> QED BY <1>1, <2>1
<1> DEFINE Fine(i) == /\ Reading(after[i], db, n, s)
                      /\ db \in DOMAIN after[i].net <=> db \in DOMAIN tb.net
           Reached == {i \in Nat : Fine(i)}
<1>3. 0 \in Reached
  <2>1. after[0] = tb
    <3>1. 0 \in 0..m
      OBVIOUS
    <3> QED BY <1>2, <3>1
  <2> QED BY <2>1
<1>4. ASSUME NEW i \in 0..m, i \in Reached, i < m PROVE i + 1 \in Reached
  <2>1. i + 1 \in 0..m /\ i + 1 # 0 /\ (i + 1) - 1 = i /\ i + 1 \in 1..m /\ i + 1 \in Nat
    BY <1>4
  <2>2. after[i + 1] = Handled(after[i], s, msgs[i + 1])
    BY <1>2, <2>1
  <2>3. msgs[i + 1] \in Msg
    BY <1>1, <2>1, ElementOfSeq
  <2>4. Reading(after[i], db, n, s) /\ (db \in DOMAIN after[i].net <=> db \in DOMAIN tb.net)
    BY <1>4
  <2>5. /\ Reading(after[i + 1], db, n, s)
        /\ db \in DOMAIN after[i + 1].net <=> db \in DOMAIN after[i].net
    BY <2>2, <2>3, <2>4, HandledGood
  <2> QED BY <2>1, <2>4, <2>5
<1>5. m \in Reached
  <2> HIDE DEF Reached
  <2>1. 0..m \subseteq Reached
    BY <1>3, <1>4, UpTo
  <2> QED BY <2>1
<1> QED BY <1>2, <1>5

-----------------------------------------------------------------------------
(***************************************************************************)
(* The callbacks.                                                          *)
(***************************************************************************)
(* What sec_tick.reg leaves behind: one more callback, at a new tick.      *)
LEMMA RegIs ==
  ASSUME NEW Trees, TreesSorted(Trees), NEW ts, Callbacks(ts, Trees),
         seconds \in Nat, NEW after \in Nat, Fits(ts, after), NEW fun \in {"connect_db", "other"}
  PROVE  LET tick == NewTick(ts.tree, seconds + after)
             new  == Reg(ts, after, fun)
         IN  /\ Callbacks(new, Trees)
             /\ tick \in Nat \ DOMAIN ts.funs /\ Second(tick) >= seconds
             /\ \A t \in DOMAIN ts.funs : Second(t) = Second(tick) => t < tick
             /\ DOMAIN new.funs = DOMAIN ts.funs \cup {tick}
             /\ new.funs[tick] = fun
             /\ \A t \in DOMAIN ts.funs : new.funs[t] = ts.funs[t]
<1>1. PICK tick : tick = NewTick(ts.tree, seconds + after)
  OBVIOUS
<1>2. PICK new : new = [tree |-> TreeInsert(ts.tree, tick), funs |-> Put(ts.funs, tick, fun)]
  OBVIOUS
<1>3. Reg(ts, after, fun) = new
  BY <1>1, <1>2 DEF Reg
<1>4. /\ seconds + after \in Nat /\ Second(tick) = seconds + after
      /\ Cardinality(DOMAIN ts.funs) < MaxTicks
  BY <1>1 DEF Fits
<1>5. ts.tree \in Trees /\ DOMAIN ts.funs = TreeKeys(ts.tree)
  BY DEF Callbacks
<1>6. /\ tick \in Nat \ TreeKeys(ts.tree)
      /\ \A k \in TreeKeys(ts.tree) : Second(k) = seconds + after => k < tick
  BY <1>1, <1>4, <1>5, NewTickBehind
<1>7. /\ DOMAIN new.funs = DOMAIN ts.funs \cup {tick} /\ new.funs[tick] = fun
      /\ \A t \in DOMAIN ts.funs : new.funs[t] = ts.funs[t]
  <2>1. new.funs = Put(ts.funs, tick, fun)
    BY <1>2
  <2> QED BY <1>5, <1>6, <2>1 DEF Put
<1>8. new.tree \in Trees /\ TreeKeys(new.tree) = TreeKeys(ts.tree) \cup {tick}
  BY <1>2, <1>4, <1>5, <1>6, KeysChange
<1>9. new.funs \in [DOMAIN new.funs -> {"connect_db", "other"}]
  <2>1. new.funs = [y \in DOMAIN ts.funs \cup {tick} |-> IF y = tick THEN fun ELSE ts.funs[y]]
    BY <1>2 DEF Put
  <2> QED BY <1>7, <2>1 DEF Callbacks
<1>10. new = [tree |-> new.tree, funs |-> new.funs]
  BY <1>2
<1>11. Callbacks(new, Trees)
  BY <1>5, <1>7, <1>8, <1>9, <1>10 DEF Callbacks
<1>12. Second(tick) >= seconds
  BY <1>4
<1> QED BY <1>1, <1>3, <1>4, <1>5, <1>6, <1>7, <1>11, <1>12

(* What sec_tick.unreg leaves behind: the callbacks without one.           *)
LEMMA UnregIs ==
  ASSUME NEW Trees, TreesSorted(Trees), NEW ts, Callbacks(ts, Trees), NEW tick \in DOMAIN ts.funs
  PROVE  LET new == Unreg(ts, tick)
         IN  /\ Callbacks(new, Trees)
             /\ DOMAIN new.funs = DOMAIN ts.funs \ {tick}
             /\ \A t \in DOMAIN ts.funs \ {tick} : new.funs[t] = ts.funs[t]
<1>1. PICK new : new = [tree |-> TreeDelete(ts.tree, tick), funs |-> Without(ts.funs, tick)]
  OBVIOUS
<1>2. Unreg(ts, tick) = new
  BY <1>1 DEF Unreg
<1>3. ts.tree \in Trees /\ DOMAIN ts.funs = TreeKeys(ts.tree) /\ tick \in Nat
  BY BelowFinite, 0 \in Nat DEF Callbacks
<1>4. new.funs = [t \in DOMAIN ts.funs \ {tick} |-> ts.funs[t]]
  BY <1>1 DEF Without
<1>5. new.tree \in Trees /\ TreeKeys(new.tree) = TreeKeys(ts.tree) \ {tick}
  BY <1>1, <1>3, KeysChange
<1>6. new.funs \in [DOMAIN ts.funs \ {tick} -> {"connect_db", "other"}]
  BY <1>4 DEF Callbacks
<1>7. new = [tree |-> new.tree, funs |-> new.funs]
  BY <1>1
<1>8. Callbacks(new, Trees)
  BY <1>3, <1>5, <1>6, <1>7 DEF Callbacks
<1> QED BY <1>2, <1>4, <1>8

(* The waiting ticks are finitely many numbers. *)
LEMMA IdsFinite ==
  ASSUME NEW Trees, TreesSorted(Trees), NEW ts, Callbacks(ts, Trees)
  PROVE  IsFiniteSet(DOMAIN ts.funs) /\ DOMAIN ts.funs \subseteq Nat
  BY BelowFinite, 0 \in Nat DEF Callbacks

(* The parts of a finite set of ticks are finite. *)
LEMMA PartsFinite ==
  ASSUME NEW ids, IsFiniteSet(ids), ids \subseteq Nat, NEW now \in Nat
  PROVE  /\ IsFiniteSet(Early(ids, now)) /\ Cardinality(Early(ids, now)) \in Nat
         /\ IsFiniteSet(Ripe(ids, now)) /\ Cardinality(Ripe(ids, now)) \in Nat
         /\ Early(ids, now) \subseteq Ripe(ids, now)
         /\ Cardinality(Early(ids, now)) <= Cardinality(Ripe(ids, now))
<1>1. Early(ids, now) \subseteq ids /\ Ripe(ids, now) \subseteq ids
  BY DEF Early, Ripe
<1>2. Early(ids, now) \subseteq Ripe(ids, now)
  <2>1. ASSUME NEW t \in ids, Second(t) < now PROVE Second(t) <= now
    BY <2>1, SecondIs, 0 \in Nat
  <2> QED BY <2>1 DEF Early, Ripe
<1>3. IsFiniteSet(Early(ids, now)) /\ IsFiniteSet(Ripe(ids, now))
  BY <1>1, FS_Subset
<1> QED BY <1>2, <1>3, FS_Subset, FS_CardinalityType

(* A callback that is registered is of no second that is over. *)
LEMMA RoundAdd ==
  ASSUME NEW ids, IsFiniteSet(ids), ids \subseteq Nat, NEW now \in Nat, NEW l \in Nat,
         Rounded(ids, now, l), NEW tick \in Nat \ ids, Second(tick) >= now
  PROVE  Rounded(ids \cup {tick}, now, l)
<1>1. IsFiniteSet(ids \cup {tick}) /\ ids \cup {tick} \subseteq Nat
  BY FS_AddElement
<1>2. Second(tick) \in Nat
  BY SecondIs, 0 \in Nat
<1>3. Early(ids \cup {tick}, now) = Early(ids, now)
  BY <1>2 DEF Early
<1>4. Ripe(ids, now) \subseteq Ripe(ids \cup {tick}, now)
  BY DEF Ripe
<1>5. Cardinality(Ripe(ids, now)) <= Cardinality(Ripe(ids \cup {tick}, now))
  BY <1>1, <1>4, PartsFinite, FS_Subset
<1>6. Cardinality(Ripe(ids, now)) \in Nat /\ Cardinality(Ripe(ids \cup {tick}, now)) \in Nat
  BY <1>1, PartsFinite
<1> QED BY <1>3, <1>5, <1>6 DEF Rounded

(* A turn of a round takes the first tick, which is due. *)
LEMMA RoundTurn ==
  ASSUME NEW ids, IsFiniteSet(ids), ids \subseteq Nat, NEW now \in Nat, NEW l \in Nat, l > 0,
         Rounded(ids, now, l), NEW first \in ids, \A t \in ids : first <= t
  PROVE  Rounded(ids \ {first}, now, l - 1) /\ Second(first) <= now
<1>1. PICK e : e = Early(ids, now)
  OBVIOUS
<1>2. PICK r : r = Ripe(ids, now)
  OBVIOUS
<1>3. IsFiniteSet(e) /\ IsFiniteSet(r) /\ Cardinality(e) \in Nat /\ Cardinality(r) \in Nat
  BY <1>1, <1>2, PartsFinite
<1>4. Cardinality(e) <= l /\ l <= Cardinality(r)
  BY <1>1, <1>2 DEF Rounded
<1>5. r # {}
  <2> SUFFICES ASSUME r = {} PROVE FALSE
    OBVIOUS
  <2> QED BY <1>3, <1>4, FS_EmptySet
<1>6. \A t \in ids : Second(t) \in Nat /\ Second(first) \in Nat /\ Second(first) <= Second(t)
  BY SecondIs, SecondMonotone, 0 \in Nat
<1>7. first \in r /\ Second(first) <= now
  <2>1. PICK t \in r : TRUE
    BY <1>5
  <2>2. t \in ids /\ Second(t) <= now
    BY <1>2, <2>1 DEF Ripe
  <2>3. Second(first) <= now
    BY <1>6, <2>2
  <2> QED BY <1>2, <2>3 DEF Ripe
<1>8. Early(ids \ {first}, now) = e \ {first} /\ Ripe(ids \ {first}, now) = r \ {first}
  BY <1>1, <1>2 DEF Early, Ripe
<1>9. Cardinality(r \ {first}) = Cardinality(r) - 1
  BY <1>3, <1>7, FS_RemoveElement
<1>10. Cardinality(e \ {first}) <= l - 1
  <2>1. CASE e = {}
    <3>1. e \ {first} = {}
      BY <2>1
    <3>2. Cardinality(e \ {first}) = 0
      BY <3>1, FS_EmptySet
    <3> QED BY <3>2
  <2>2. CASE e # {}
    <3>1. first \in e
      <4>1. PICK t \in e : TRUE
        BY <2>2
      <4>2. t \in ids /\ Second(t) < now
        BY <1>1, <4>1 DEF Early
      <4>3. Second(first) < now
        BY <1>6, <4>2
      <4> QED BY <1>1, <4>3 DEF Early
    <3>2. Cardinality(e \ {first}) = Cardinality(e) - 1
      BY <1>3, <3>1, FS_RemoveElement
    <3> QED BY <1>3, <1>4, <3>2
  <2> QED BY <2>1, <2>2
<1>11. l - 1 <= Cardinality(r \ {first})
  BY <1>3, <1>4, <1>9
<1> QED BY <1>7, <1>8, <1>10, <1>11 DEF Rounded

(* Between rounds a callback may be given up. *)
LEMMA RoundCancel ==
  ASSUME NEW ids, IsFiniteSet(ids), ids \subseteq Nat, NEW now \in Nat, Rounded(ids, now, 0), NEW t
  PROVE  Rounded(ids \ {t}, now, 0)
<1>1. IsFiniteSet(ids \ {t}) /\ ids \ {t} \subseteq Nat
  BY FS_Subset, ids \ {t} \subseteq ids
<1>2. Early(ids \ {t}, now) \subseteq Early(ids, now)
  BY DEF Early
<1>3. Cardinality(Early(ids, now)) = 0
  <2>1. Cardinality(Early(ids, now)) \in Nat
    BY PartsFinite
  <2>2. Cardinality(Early(ids, now)) <= 0
    BY DEF Rounded
  <2> QED BY ONLY <2>1, <2>2
<1>4. Early(ids, now) = {}
  BY <1>3, PartsFinite, FS_EmptySet
<1>5. Cardinality(Early(ids \ {t}, now)) = 0
  BY <1>2, <1>4, FS_EmptySet
<1>6. Cardinality(Ripe(ids \ {t}, now)) >= 0
  BY <1>1, PartsFinite
<1> QED BY <1>5, <1>6 DEF Rounded

(* A round begins with as many callbacks as are due. *)
LEMMA RoundBegin ==
  ASSUME NEW ids, IsFiniteSet(ids), ids \subseteq Nat, NEW now \in Nat
  PROVE  Rounded(ids, now, Cardinality(Ripe(ids, now)))
<1>1. PICK r \in Nat : r = Cardinality(Ripe(ids, now))
  BY PartsFinite
<1>2. Cardinality(Early(ids, now)) <= r
  BY <1>1, PartsFinite
<1> QED BY <1>1, <1>2 DEF Rounded

(* What is due is what a round begins with. *)
LEMMA DueIs ==
  ASSUME NEW Trees, TreesSorted(Trees), Callbacks(ticks, Trees), NEW now \in Nat
  PROVE  Due(now) = Cardinality(Ripe(DOMAIN ticks.funs, now))
<1>1. PICK ids : ids = DOMAIN ticks.funs
  OBVIOUS
<1>2. ids = TreeKeys(ticks.tree) /\ ids \subseteq Nat /\ ticks.tree \in Trees
  BY <1>1, IdsFinite DEF Callbacks
<1>3. (now + 1) * Span \in Nat
  BY SecondIs
<1>4. Due(now) = Cardinality({k \in ids : k < (now + 1) * Span})
  BY <1>2, <1>3, LtCounts DEF Due
<1>5. \A k \in ids : k < (now + 1) * Span <=> Second(k) <= now
  BY <1>2, SecondIs
<1>6. {k \in ids : k < (now + 1) * Span} = Ripe(ids, now)
  BY ONLY <1>5 DEF Ripe
<1> QED BY <1>1, <1>4, <1>6

(* The steps of the callbacks, whatever the rest of the server does.        *)
Added(ts) == \E after \in Nat, fun \in {"connect_db", "other"} :
               Fits(ts, after) /\ ticks' = Reg(ts, after, fun)

TickStep ==
  \/ \E passed \in Nat : Update(passed)
  \/ Turn /\ (ticks' = Remaining \/ Added(Remaining))
  \/ Added(ticks) /\ UNCHANGED <<seconds, msec, left>>
  \/ left = 0 /\ \E tick \in DOMAIN ticks.funs : ticks' = Unreg(ticks, tick)
              /\ UNCHANGED <<seconds, msec, left>>
  \/ UNCHANGED tickVars

(* The first tick is one that waits, and due. *)
LEMMA FirstIs ==
  ASSUME NEW Trees, TreesSorted(Trees), TickInv(Trees), left > 0
  PROVE  /\ First \in DOMAIN ticks.funs /\ \A t \in DOMAIN ticks.funs : First <= t
         /\ Second(First) <= seconds
         /\ Callbacks(Remaining, Trees)
         /\ DOMAIN Remaining.funs = DOMAIN ticks.funs \ {First}
         /\ \A t \in DOMAIN ticks.funs \ {First} : Remaining.funs[t] = ticks.funs[t]
         /\ Rounded(DOMAIN Remaining.funs, seconds, left - 1)
<1>1. PICK ids : ids = DOMAIN ticks.funs
  OBVIOUS
<1>2. /\ Callbacks(ticks, Trees) /\ IsFiniteSet(ids) /\ ids \subseteq Nat /\ ids = TreeKeys(ticks.tree)
      /\ seconds \in Nat /\ left \in Nat /\ Rounded(ids, seconds, left) /\ ticks.tree \in Trees
  BY <1>1, IdsFinite DEF TickInv, Callbacks
<1>3. ids # {}
  <2> SUFFICES ASSUME ids = {} PROVE FALSE
    OBVIOUS
  <2>1. Ripe(ids, seconds) = {}
    BY DEF Ripe
  <2>2. Cardinality(Ripe(ids, seconds)) = 0
    BY <2>1, FS_EmptySet
  <2> QED BY <1>2, <2>2 DEF Rounded
<1>4. First \in ids /\ \A t \in ids : First <= t
  BY <1>2, <1>3, FirstLeast DEF First
<1>5. Rounded(ids \ {First}, seconds, left - 1) /\ Second(First) <= seconds
  BY <1>2, <1>4, RoundTurn
<1>6. /\ Callbacks(Remaining, Trees)
      /\ DOMAIN Remaining.funs = ids \ {First}
      /\ \A t \in ids \ {First} : Remaining.funs[t] = ticks.funs[t]
  <2>1. PICK new : new = Unreg(ticks, First)
    OBVIOUS
  <2>2. First \in DOMAIN ticks.funs
    BY <1>1, <1>4
  <2>3. /\ Callbacks(new, Trees)
        /\ DOMAIN new.funs = DOMAIN ticks.funs \ {First}
        /\ \A t \in DOMAIN ticks.funs \ {First} : new.funs[t] = ticks.funs[t]
    BY <1>2, <2>1, <2>2, UnregIs
  <2> QED BY <1>1, <2>1, <2>3 DEF Remaining
<1> QED BY <1>1, <1>4, <1>5, <1>6

(* A callback more keeps a round.                                          *)
LEMMA AddedInv ==
  ASSUME NEW Trees, TreesSorted(Trees), NEW ts, Callbacks(ts, Trees), NEW l \in Nat,
         seconds \in Nat, Rounded(DOMAIN ts.funs, seconds, l), Added(ts)
  PROVE  /\ Callbacks(ticks', Trees)
         /\ Rounded(DOMAIN ticks'.funs, seconds, l)
         /\ \E new : /\ DOMAIN ticks'.funs = DOMAIN ts.funs \cup {new}
                     /\ new \in Nat \ DOMAIN ts.funs /\ Second(new) >= seconds
                     /\ \A t \in DOMAIN ts.funs : Second(t) = Second(new) => t < new
<1>1. PICK after \in Nat, fun \in {"connect_db", "other"} :
        Fits(ts, after) /\ ticks' = Reg(ts, after, fun)
  BY DEF Added
<1>2. PICK new : new = NewTick(ts.tree, seconds + after)
  OBVIOUS
<1>3. /\ Callbacks(ticks', Trees) /\ DOMAIN ticks'.funs = DOMAIN ts.funs \cup {new}
      /\ new \in Nat \ DOMAIN ts.funs /\ Second(new) >= seconds
      /\ \A t \in DOMAIN ts.funs : Second(t) = Second(new) => t < new
  BY <1>1, <1>2, RegIs
<1>4. Rounded(DOMAIN ts.funs \cup {new}, seconds, l)
  BY <1>3, IdsFinite, RoundAdd
<1> QED BY <1>3, <1>4

(* Every step keeps tree, table and round together ... *)
LEMMA TickStepInv ==
  ASSUME NEW Trees, TreesSorted(Trees), TickInv(Trees), TickStep
  PROVE  TickInv(Trees)'
<1>1. /\ seconds \in Nat /\ msec \in Nat /\ left \in Nat /\ Callbacks(ticks, Trees)
      /\ Rounded(DOMAIN ticks.funs, seconds, left)
      /\ IsFiniteSet(DOMAIN ticks.funs) /\ DOMAIN ticks.funs \subseteq Nat
  BY IdsFinite DEF TickInv
<1>2. ASSUME NEW passed \in Nat, Update(passed) PROVE TickInv(Trees)'
  <2>1. PICK now : now = seconds + (msec + passed) \div MsecPerSec
    OBVIOUS
  <2>2. /\ left = 0 /\ seconds' = now /\ msec' = (msec + passed) % MsecPerSec /\ ticks' = ticks
        /\ left' = IF now > seconds THEN Due(now) ELSE 0
    BY <1>2, <2>1 DEF Update
  <2>3. now \in Nat /\ now >= seconds /\ msec' \in Nat
    <3>1. MsecPerSec \in Nat \ {0} /\ msec + passed \in Nat
      BY <1>1, SecTickAssumption
    <3>2. (msec + passed) \div MsecPerSec \in Nat /\ (msec + passed) % MsecPerSec \in 0..MsecPerSec - 1
      BY <3>1, DivMod
    <3>3. PICK d \in Nat : d = (msec + passed) \div MsecPerSec
      BY <3>2
    <3> QED BY <1>1, <2>1, <2>2, <3>1, <3>2, <3>3
  <2>4. CASE now > seconds
    <3>1. Due(now) = Cardinality(Ripe(DOMAIN ticks.funs, now))
      BY <1>1, <2>3, DueIs
    <3>2. left' \in Nat /\ Rounded(DOMAIN ticks.funs, now, left')
      BY <1>1, <2>2, <2>3, <2>4, <3>1, RoundBegin, PartsFinite
    <3> QED BY <1>1, <2>2, <2>3, <3>2 DEF TickInv
  <2>5. CASE ~(now > seconds)
    <3>1. seconds' = seconds /\ left' = left
      BY <1>1, <2>2, <2>3, <2>5
    <3> QED BY <1>1, <2>2, <2>3, <3>1 DEF TickInv
  <2> QED BY <2>4, <2>5
<1>3. CASE Turn /\ (ticks' = Remaining \/ Added(Remaining))
  <2>1. left > 0 /\ left' = left - 1 /\ seconds' = seconds /\ msec' = msec
    BY <1>3 DEF Turn
  <2>2. Callbacks(Remaining, Trees) /\ Rounded(DOMAIN Remaining.funs, seconds, left - 1) /\ left - 1 \in Nat
    BY <1>1, <2>1, FirstIs
  <2>3. Callbacks(ticks', Trees) /\ Rounded(DOMAIN ticks'.funs, seconds, left - 1)
    <3>1. CASE ticks' = Remaining
      BY <2>2, <3>1
    <3>2. CASE Added(Remaining)
      BY <1>1, <2>2, <3>2, AddedInv
    <3> QED BY <1>3, <3>1, <3>2
  <2> QED BY <1>1, <2>1, <2>2, <2>3 DEF TickInv
<1>4. CASE Added(ticks) /\ UNCHANGED <<seconds, msec, left>>
  <2>1. Callbacks(ticks', Trees) /\ Rounded(DOMAIN ticks'.funs, seconds, left)
    BY <1>1, <1>4, AddedInv
  <2> QED BY <1>1, <1>4, <2>1 DEF TickInv
<1>5. ASSUME left = 0, UNCHANGED <<seconds, msec, left>>,
             NEW tick \in DOMAIN ticks.funs, ticks' = Unreg(ticks, tick)
      PROVE  TickInv(Trees)'
  <2>1. Callbacks(ticks', Trees) /\ DOMAIN ticks'.funs = DOMAIN ticks.funs \ {tick}
    BY <1>1, <1>5, UnregIs
  <2>2. Rounded(DOMAIN ticks.funs \ {tick}, seconds, 0)
    BY <1>1, <1>5, RoundCancel
  <2> QED BY <1>1, <1>5, <2>1, <2>2 DEF TickInv
<1>6. CASE UNCHANGED tickVars
  BY <1>1, <1>6 DEF TickInv, tickVars
<1> QED BY <1>2, <1>3, <1>4, <1>5, <1>6 DEF TickStep

(* ... and is a step of the agenda, or none. *)
LEMMA TickStepAgenda ==
  ASSUME NEW Trees, TreesSorted(Trees), TickInv(Trees), TickStep
  PROVE  Promise!Next \/ UNCHANGED Promise!vars
<1> DEFINE pending == DOMAIN ticks.funs
<1>1. /\ seconds \in Nat /\ msec \in Nat /\ left \in Nat /\ Callbacks(ticks, Trees)
      /\ Rounded(pending, seconds, left) /\ IsFiniteSet(pending) /\ pending \subseteq Nat
  BY IdsFinite DEF TickInv
<1>2. \A t : Promise!Second(t) = Second(t)
  BY DEF Promise!Second, Second
<1>3. ASSUME NEW passed \in Nat, Update(passed) PROVE Promise!Next \/ UNCHANGED Promise!vars
  <2>1. PICK now : now = seconds + (msec + passed) \div MsecPerSec
    OBVIOUS
  <2>2. /\ left = 0 /\ seconds' = now /\ ticks' = ticks
        /\ left' = IF now > seconds THEN Due(now) ELSE 0
    BY <1>3, <2>1 DEF Update
  <2>3. now \in Nat /\ now >= seconds
    <3>1. MsecPerSec \in Nat \ {0} /\ msec + passed \in Nat
      BY <1>1, SecTickAssumption
    <3>2. PICK d \in Nat : d = (msec + passed) \div MsecPerSec
      BY <3>1, DivMod
    <3> QED BY <1>1, <2>1, <3>2
  <2>4. CASE now > seconds
    <3>1. Due(now) = Cardinality({t \in pending : Second(t) <= now})
      BY <1>1, <2>3, DueIs DEF Ripe
    <3>2. Promise!Due' = {t \in pending : Second(t) <= now}
      BY <1>2, <2>2 DEF Promise!Due
    <3>3. left' = Cardinality(Promise!Due') /\ pending' = pending /\ left = 0 /\ seconds' > seconds
      BY <2>2, <2>4, <3>1, <3>2
    <3>4. Promise!Begin
      <4>1. Promise!Cardinality(Promise!Due') = Cardinality(Promise!Due')
        BY DEF Promise!Cardinality, Cardinality
      <4> QED BY <3>3, <4>1 DEF Promise!Begin
    <3> QED BY <3>4 DEF Promise!Next
  <2>5. CASE ~(now > seconds)
    <3>1. seconds' = seconds /\ left' = left
      BY <1>1, <2>2, <2>3, <2>5
    <3> QED BY <2>2, <3>1 DEF Promise!vars
  <2> QED BY <2>4, <2>5
<1>4. CASE Turn /\ (ticks' = Remaining \/ Added(Remaining))
  <2>1. left > 0 /\ left' = left - 1 /\ seconds' = seconds
    BY <1>4 DEF Turn
  <2>2. PICK first : first = First
    OBVIOUS
  <2>3. /\ first \in pending /\ \A t \in pending : first <= t
        /\ Second(first) <= seconds /\ Callbacks(Remaining, Trees)
        /\ DOMAIN Remaining.funs = pending \ {first}
        /\ Rounded(DOMAIN Remaining.funs, seconds, left - 1) /\ left - 1 \in Nat
    BY <1>1, <2>1, <2>2, FirstIs
  <2>4. first \in Promise!Due /\ Promise!First(first)
    BY <1>2, <2>3 DEF Promise!Due, Promise!First
  <2>5. CASE ticks' = Remaining
    <3>1. pending' = pending \ {first}
      BY <2>3, <2>5
    <3>2. Promise!Run(first)
      BY <2>1, <2>4, <3>1 DEF Promise!Run
    <3> QED BY <2>3, <3>2 DEF Promise!Next
  <2>6. CASE Added(Remaining)
    <3>1. PICK new : /\ DOMAIN ticks'.funs = DOMAIN Remaining.funs \cup {new}
                     /\ new \in Nat \ DOMAIN Remaining.funs /\ Second(new) >= seconds
                     /\ \A t \in DOMAIN Remaining.funs : Second(t) = Second(new) => t < new
      BY <1>1, <2>3, <2>6, AddedInv
    <3>2. pending' = (pending \ {first}) \cup {new}
      BY <2>3, <3>1
    <3>3. Promise!Added(new, pending \ {first})
      BY <1>2, <2>3, <3>1 DEF Promise!Added
    <3>4. Promise!Run(first)
      BY <2>1, <2>4, <3>2, <3>3 DEF Promise!Run
    <3> QED BY <2>3, <3>4 DEF Promise!Next
  <2> QED BY <1>4, <2>5, <2>6
<1>5. CASE Added(ticks) /\ UNCHANGED <<seconds, msec, left>>
  <2>1. PICK new : /\ DOMAIN ticks'.funs = pending \cup {new}
                   /\ new \in Nat \ pending /\ Second(new) >= seconds
                   /\ \A t \in pending : Second(t) = Second(new) => t < new
    BY <1>1, <1>5, AddedInv
  <2>2. Promise!Added(new, pending)
    BY <1>2, <2>1 DEF Promise!Added
  <2>3. Promise!Register(new)
    BY <1>5, <2>1, <2>2 DEF Promise!Register
  <2> QED BY <2>1, <2>3 DEF Promise!Next
<1>6. ASSUME left = 0, UNCHANGED <<seconds, msec, left>>,
             NEW tick \in pending, ticks' = Unreg(ticks, tick)
      PROVE  Promise!Next
  <2>1. DOMAIN ticks'.funs = pending \ {tick}
    BY <1>1, <1>6, UnregIs
  <2>2. Promise!Cancel(tick)
    BY <1>6, <2>1 DEF Promise!Cancel
  <2> QED BY <1>6, <2>2 DEF Promise!Next
<1>7. CASE UNCHANGED tickVars
  BY <1>7 DEF tickVars, Promise!vars
<1> QED BY <1>3, <1>4, <1>5, <1>6, <1>7 DEF TickStep

-----------------------------------------------------------------------------
(***************************************************************************)
(* Sockets.                                                                *)
(***************************************************************************)
(* What happens to the sockets leaves the sessions alone. *)
LEMMA NetGood ==
  ASSUME NEW tb, NEW db, NEW n, Good(tb, db, n), NEW f \in [DOMAIN tb.net -> Sockets],
         \A x \in DOMAIN tb.net : f[x].events \subseteq Reports(x, db)
  PROVE  /\ Good([tb EXCEPT !.net = f], db, n)
         /\ [tb EXCEPT !.net = f].net = f
         /\ [tb EXCEPT !.net = f].sessions = tb.sessions
         /\ [tb EXCEPT !.net = f].roles = tb.roles
         /\ [tb EXCEPT !.net = f].count = tb.count
<1>1. Shaped(tb)
  BY DEF Good
<1>2. PICK new : new = [net |-> f, sessions |-> tb.sessions, count |-> tb.count, roles |-> tb.roles]
  OBVIOUS
<1>3. [tb EXCEPT !.net = f] = new
  BY <1>1, <1>2 DEF Shaped
<1>4. Shaped(new)
  BY <1>1, <1>2 DEF Shaped
<1>5. Online(new)
  BY <1>2 DEF Good, Online
<1>6. ASSUME NEW x \in DOMAIN new.net PROVE Kept(new, x, db)
  BY <1>2 DEF Good, Kept
<1>7. Listener \in DOMAIN new.net /\ DOMAIN new.net \subseteq 1..n
  BY <1>2 DEF Good
<1> QED BY <1>2, <1>3, <1>4, <1>5, <1>6, <1>7 DEF Good

(* New sockets among those of a table, which becomes mid; the session of    *)
(* the database is db and then new.                                         *)
Opens(tb, db, n, mid, new, m, fds, kind) ==
  /\ Good(tb, db, n) /\ db \in 0..n
  /\ n \in Nat /\ m \in Nat /\ n <= m /\ fds \subseteq n + 1..m
  /\ mid = [tb EXCEPT !.net = mid.net]
  /\ mid.net \in [DOMAIN tb.net \cup fds -> Sockets]
  /\ \A x \in DOMAIN tb.net : mid.net[x].events \subseteq Reports(x, db)
  /\ \A x \in fds : mid.net[x].events = {}
  /\ \/ kind = "accept" /\ new = db
     \/ kind = "db" /\ fds = {new} /\ db \notin DOMAIN tb.net

(* reg_session of new sockets, of clients or of the database. *)
LEMMA RegGood ==
  ASSUME NEW tb, NEW db, NEW n, NEW mid, NEW db2, NEW m, NEW fds, NEW kind,
         Opens(tb, db, n, mid, db2, m, fds, kind)
  PROVE  /\ Good(RegAll(mid, fds, kind), db2, m)
         /\ DOMAIN RegAll(mid, fds, kind).net = DOMAIN tb.net \cup fds
<1> DEFINE f == mid.net
<1>1. /\ Good(tb, db, n) /\ db \in 0..n
      /\ n \in Nat /\ m \in Nat /\ n <= m /\ fds \subseteq n + 1..m
      /\ mid = [tb EXCEPT !.net = f]
      /\ f \in [DOMAIN tb.net \cup fds -> Sockets]
      /\ \A x \in DOMAIN tb.net : f[x].events \subseteq Reports(x, db)
      /\ \A x \in fds : f[x].events = {}
      /\ \/ kind = "accept" /\ db2 = db
         \/ kind = "db" /\ fds = {db2} /\ db \notin DOMAIN tb.net
  BY DEF Opens
<1> USE <1>1
<1> HIDE DEF f
<1>2. Shaped(tb) /\ Online(tb) /\ Listener \in DOMAIN tb.net /\ DOMAIN tb.net \subseteq 1..n
  BY DEF Good
<1>3. PICK old : old = DOMAIN tb.net
  OBVIOUS
<1>4. DOMAIN tb.sessions = old /\ IsFiniteSet(old) /\ tb.count = Cardinality(old)
  BY <1>2, <1>3 DEF Shaped
<1>5. old \cap fds = {} /\ fds \ old = fds /\ old \cup fds \subseteq 1..m
      /\ Listener \notin fds /\ db \notin fds
  <2>1. ASSUME NEW x \in old PROVE x \in 1..n /\ x \in 1..m
    BY <1>2, <1>3, <2>1
  <2>2. ASSUME NEW x \in fds PROVE x \in n + 1..m /\ x \notin 1..n /\ x \in 1..m /\ x # db
    <3>1. x \in n + 1..m
      BY <2>2
    <3> QED BY <3>1
  <2>3. Listener \in old
    BY <1>2, <1>3
  <2> QED BY ONLY <2>1, <2>2, <2>3
<1>6. IsFiniteSet(fds)
  <2>1. IsFiniteSet(n + 1..m)
    <3>1. n + 1 \in Int /\ m \in Int
      OBVIOUS
    <3> QED BY ONLY <3>1, FS_Interval
  <2> QED BY <2>1, FS_Subset
<1>7. PICK c : c = tb.count + Cardinality(fds)
  OBVIOUS
<1>8. IsFiniteSet(old \cup fds) /\ c = Cardinality(old \cup fds)
  <2>1. /\ IsFiniteSet(old \cup fds)
        /\ Cardinality(old \cup fds) = Cardinality(old) + Cardinality(fds) - Cardinality(old \cap fds)
    BY <1>4, <1>6, FS_Union
  <2>2. Cardinality(old \cap fds) = 0
    BY <1>5, FS_EmptySet
  <2>3. Cardinality(old) \in Nat /\ Cardinality(fds) \in Nat
    BY <1>4, <1>6, FS_CardinalityType
  <2> QED BY <1>4, <1>7, <2>1, <2>2, <2>3
<1>9. PICK g : g = [fd \in old \cup fds |->
                      IF fd \in fds THEN [kind |-> kind, fd |-> fd, role |-> NoRole] ELSE tb.sessions[fd]]
  OBVIOUS
<1>10. PICK new : new = [net |-> f, sessions |-> g, count |-> c, roles |-> tb.roles]
  OBVIOUS
<1>11. RegAll(mid, fds, kind) = new
  <2>1. mid = [net |-> f, sessions |-> tb.sessions, count |-> tb.count, roles |-> tb.roles]
    BY <1>2 DEF Shaped
  <2>2. mid.count + Cardinality(fds \ DOMAIN mid.sessions) = c
    BY <1>4, <1>5, <1>7, <2>1
  <2>3. [fd \in DOMAIN mid.sessions \cup fds |->
           IF fd \in fds THEN [kind |-> kind, fd |-> fd, role |-> NoRole] ELSE mid.sessions[fd]] = g
    BY <1>4, <1>9, <2>1
  <2>4. RegAll(mid, fds, kind) = [mid EXCEPT !.count = c, !.sessions = g]
    BY <2>2, <2>3 DEF RegAll
  <2> QED BY ONLY <1>10, <2>1, <2>4
<1>12. /\ \A x \in fds : g[x] = [kind |-> kind, fd |-> x, role |-> NoRole]
       /\ \A x \in old : g[x] = tb.sessions[x]
       /\ DOMAIN g = old \cup fds
  BY <1>5, <1>9
<1>13. g \in [old \cup fds -> Entries]
  <2>1. ASSUME NEW x \in fds PROVE g[x] \in Entries
    <3>1. x \in Nat /\ kind \in Kinds /\ NoRole \in Roles \cup {NoRole}
      BY <2>1 DEF Kinds
    <3> QED BY <1>12, <2>1, <3>1 DEF Entries
  <2>2. ASSUME NEW x \in old PROVE g[x] \in Entries
    BY <1>2, <1>3, <1>12, <2>2 DEF Shaped
  <2> QED BY <1>9, <1>12, <2>1, <2>2
<1>14. Shaped(new)
  <2>1. DOMAIN f = old \cup fds
    BY <1>3
  <2> QED BY <1>2, <1>3, <1>8, <1>10, <1>13, <2>1 DEF Shaped
<1>15. Online(new)
  <2>1. ASSUME NEW r \in DOMAIN new.roles
        PROVE  /\ new.roles[r] \in DOMAIN new.net
               /\ new.sessions[new.roles[r]] = [kind |-> "role", fd |-> new.roles[r], role |-> r]
    BY <1>2, <1>3, <1>10, <1>12, <2>1 DEF Online
  <2>2. ASSUME NEW x \in DOMAIN new.net, new.sessions[x].kind = "role"
        PROVE  new.sessions[x].role \in DOMAIN new.roles /\ new.roles[new.sessions[x].role] = x
    <3>1. x \in old
      <4>1. x \in old \cup fds /\ g[x].kind = "role"
        BY <1>3, <1>10, <2>2
      <4> QED BY <1>12, <4>1
    <3> QED BY <1>2, <1>3, <1>10, <1>12, <2>2, <3>1 DEF Online
  <2> QED BY <2>1, <2>2 DEF Online
<1>16. ASSUME NEW x \in DOMAIN new.net PROVE Kept(new, x, db2)
  <2>1. CASE x \in fds
    <3>1. new.sessions[x] = [kind |-> kind, fd |-> x, role |-> NoRole] /\ new.net[x].events = {}
      BY <1>10, <1>12, <2>1
    <3>2. x # Listener /\ (kind = "db" <=> x = db2) /\ kind # "listen"
      BY <1>5, <2>1
    <3> QED BY <3>1, <3>2 DEF Kept
  <2>2. CASE x \in old
    <3>1. /\ new.sessions[x] = tb.sessions[x] /\ new.net[x] = f[x]
          /\ f[x].events \subseteq Reports(x, db) /\ Kept(tb, x, db)
      BY <1>3, <1>10, <1>12, <2>2 DEF Good
    <3>2. x = db <=> x = db2
      BY <1>3, <1>5, <2>2
    <3>3. Reports(x, db) = Reports(x, db2)
      BY <3>2 DEF Reports
    <3> QED BY <3>1, <3>2, <3>3 DEF Kept
  <2> QED BY <1>3, <1>10, <2>1, <2>2
<1>17. Listener \in DOMAIN new.net /\ DOMAIN new.net \subseteq 1..m
  BY <1>2, <1>3, <1>5, <1>10
<1> QED BY <1>3, <1>10, <1>11, <1>14, <1>15, <1>16, <1>17 DEF Good

-----------------------------------------------------------------------------
(***************************************************************************)
(* The session of the database.                                            *)
(***************************************************************************)
(* The ticks at which it connects. *)
Waiting(ts) == {t \in DOMAIN ts.funs : ts.funs[t] = "connect_db"}

(* It connects at the tick that is registered for it, and no longer at one *)
(* that is given up.                                                       *)
LEMMA WaitingIs ==
  ASSUME NEW Trees, TreesSorted(Trees), NEW ts, Callbacks(ts, Trees), seconds \in Nat
  PROVE  /\ Waiting(ts) \subseteq Nat
         /\ \A tick \in DOMAIN ts.funs : Waiting(Unreg(ts, tick)) = Waiting(ts) \ {tick}
         /\ \A after \in Nat : Fits(ts, after) =>
              /\ Waiting(Reg(ts, after, "connect_db")) = Waiting(ts) \cup {NewTick(ts.tree, seconds + after)}
              /\ Waiting(Reg(ts, after, "other")) = Waiting(ts)
<1>1. Waiting(ts) \subseteq Nat
  BY IdsFinite DEF Waiting
<1>2. ASSUME NEW tick \in DOMAIN ts.funs PROVE Waiting(Unreg(ts, tick)) = Waiting(ts) \ {tick}
  <2>1. PICK new : new = Unreg(ts, tick)
    OBVIOUS
  <2>2. /\ DOMAIN new.funs = DOMAIN ts.funs \ {tick}
        /\ \A t \in DOMAIN ts.funs \ {tick} : new.funs[t] = ts.funs[t]
    BY <1>2, <2>1, UnregIs
  <2>3. Waiting(new) = Waiting(ts) \ {tick}
    BY <2>2 DEF Waiting
  <2> QED BY <2>1, <2>3
<1>3. ASSUME NEW after \in Nat, Fits(ts, after), NEW fun \in {"connect_db", "other"}
      PROVE  Waiting(Reg(ts, after, fun)) =
               Waiting(ts) \cup (IF fun = "connect_db" THEN {NewTick(ts.tree, seconds + after)} ELSE {})
  <2>1. PICK new : new = Reg(ts, after, fun)
    OBVIOUS
  <2>2. PICK tick : tick = NewTick(ts.tree, seconds + after)
    OBVIOUS
  <2>3. /\ DOMAIN new.funs = DOMAIN ts.funs \cup {tick} /\ new.funs[tick] = fun
        /\ tick \notin DOMAIN ts.funs
        /\ \A t \in DOMAIN ts.funs : new.funs[t] = ts.funs[t]
    BY <1>3, <2>1, <2>2, RegIs
  <2>4. Waiting(new) = Waiting(ts) \cup (IF fun = "connect_db" THEN {tick} ELSE {})
    BY <2>3 DEF Waiting
  <2> QED BY <2>1, <2>2, <2>4
<1> QED BY <1>1, <1>2, <1>3

(* A tick for the next connection is the only one. *)
LEMMA RetryOne ==
  ASSUME NEW Trees, TreesSorted(Trees), NEW ts, Callbacks(ts, Trees), seconds \in Nat,
         Waiting(ts) = {}, Database, NEW wait \in Nat, Retry(ts, wait)
  PROVE  /\ Added(ts) /\ Waiting(ticks') = {main_db.tick_id'}
         /\ main_db.fd' = main_db.fd /\ main_db.wait_sec' = wait
         /\ main_db' = [fd |-> main_db.fd', tick_id |-> main_db.tick_id', wait_sec |-> main_db.wait_sec']
<1>1. PICK tick : tick = NewTick(ts.tree, seconds + wait)
  OBVIOUS
<1>2. PICK db : db = main_db
  OBVIOUS
<1>3. Fits(ts, wait) /\ ticks' = Reg(ts, wait, "connect_db")
      /\ main_db' = [db EXCEPT !.tick_id = tick, !.wait_sec = wait]
  BY <1>1, <1>2 DEF Retry
<1>4. db = [fd |-> db.fd, tick_id |-> db.tick_id, wait_sec |-> db.wait_sec]
  BY <1>2 DEF Database
<1>5. main_db' = [fd |-> db.fd, tick_id |-> tick, wait_sec |-> wait]
  BY <1>3, <1>4
<1>6. Waiting(ticks') = {tick}
  BY <1>1, <1>3, WaitingIs
<1>7. Added(ts)
  BY <1>3 DEF Added
<1> QED BY <1>2, <1>5, <1>6, <1>7

(* Whether it has a socket or waits. *)
LEMMA AttemptIs ==
  OneAttempt <=> IF main_db.fd \in DOMAIN net
                 THEN Waiting(ticks) = {} /\ main_db.tick_id = NoTick
                 ELSE Waiting(ticks) = {main_db.tick_id}
  BY DEF OneAttempt, Waiting

(* The same of the state after a step. *)
LEMMA AttemptNext ==
  OneAttempt' <=> IF main_db.fd' \in DOMAIN net'
                  THEN Waiting(ticks') = {} /\ main_db.tick_id' = NoTick
                  ELSE Waiting(ticks') = {main_db.tick_id'}
  BY DEF OneAttempt, Waiting

(* The tables of the server after a step. *)
LEMMA BecomesIs ==
  ASSUME NEW tb, Shaped(tb), Becomes(tb)
  PROVE  Table' = tb /\ net' = tb.net
  BY DEF Shaped, Becomes, Table

(* The table of the server, and the socket whose event is taken. *)
LEMMA TakenGood ==
  ASSUME NEW db, NEW n, Good(Table, db, n), NEW fd \in DOMAIN net,
         NEW inbox \in {net[fd].inbox, <<>>}
  PROVE  /\ Good(Taken(fd), db, n) /\ DOMAIN Taken(fd).net = DOMAIN net
         /\ Taken(fd).sessions = sessions /\ Taken(fd).roles = all_roles
         /\ Good([Taken(fd) EXCEPT !.net[fd].inbox = inbox], db, n)
         /\ DOMAIN [Taken(fd) EXCEPT !.net[fd].inbox = inbox].net = DOMAIN net
         /\ [Taken(fd) EXCEPT !.net[fd].inbox = inbox].sessions = sessions
         /\ [Taken(fd) EXCEPT !.net[fd].inbox = inbox].roles = all_roles
<1>1. PICK tb : tb = Table
  OBVIOUS
<1>2. tb = [net |-> net, sessions |-> sessions, count |-> count, roles |-> all_roles] /\ Shaped(tb)
  BY <1>1 DEF Table, Good
<1>3. net \in [DOMAIN net -> Sockets] /\ \A x \in DOMAIN net : net[x].events \subseteq Reports(x, db)
  BY <1>1, <1>2 DEF Shaped, Good, Kept
<1>4. PICK s : s = [net[fd] EXCEPT !.events = {}]
  OBVIOUS
<1>5. s \in Sockets /\ s.events = {} /\ s.inbox = net[fd].inbox
  BY <1>3, <1>4 DEF Sockets
<1>6. PICK f : f = [net EXCEPT ![fd] = s]
  OBVIOUS
<1>7. f \in [DOMAIN net -> Sockets] /\ f[fd] = s /\ \A x \in DOMAIN net : f[x].events \subseteq Reports(x, db)
  BY <1>3, <1>5, <1>6
<1>8. PICK mid : mid = [tb EXCEPT !.net = f]
  OBVIOUS
<1>9. Good(mid, db, n) /\ mid.net = f /\ mid.sessions = sessions /\ mid.roles = all_roles
  BY <1>1, <1>2, <1>7, <1>8, NetGood
<1>10. Taken(fd) = mid
  BY <1>1, <1>2, <1>4, <1>6, <1>8 DEF Taken
<1>11. PICK e : e = [s EXCEPT !.inbox = inbox]
  OBVIOUS
<1>12. e \in Sockets /\ e.events = {}
  <2>1. inbox \in Seq(Msg)
    <3>1. net[fd].inbox \in Seq(Msg)
      BY <1>3 DEF Sockets
    <3> QED BY <3>1, EmptySeq
  <2> QED BY <1>5, <1>11, <2>1 DEF Sockets
<1>13. PICK g : g = [f EXCEPT ![fd] = e]
  OBVIOUS
<1>14. g \in [DOMAIN mid.net -> Sockets] /\ \A x \in DOMAIN mid.net : g[x].events \subseteq Reports(x, db)
  BY <1>7, <1>9, <1>12, <1>13
<1>15. PICK new : new = [mid EXCEPT !.net = g]
  OBVIOUS
<1>16. Good(new, db, n) /\ new.net = g /\ new.sessions = sessions /\ new.roles = all_roles
  BY <1>9, <1>14, <1>15, NetGood
<1>17. [mid EXCEPT !.net[fd].inbox = inbox] = new
  BY <1>7, <1>9, <1>11, <1>13, <1>15
<1> QED BY <1>7, <1>9, <1>10, <1>14, <1>16, <1>17

-----------------------------------------------------------------------------
(***************************************************************************)
(* The steps.                                                              *)
(***************************************************************************)
(* The server is unchanged when its callbacks are those of others. *)
LEMMA OthersKeep ==
  ASSUME Server, UNCHANGED <<load, serverVars>>, Waiting(ticks') = Waiting(ticks)
  PROVE  Server'
<1>1. load' = load /\ net' = net /\ opened' = opened /\ main_db' = main_db /\ Table' = Table
  BY DEF serverVars, Table
<1>2. OneAttempt'
  BY <1>1, AttemptIs, AttemptNext DEF Server
<1>3. Database'
  BY <1>1 DEF Server, Database
<1> QED BY <1>1, <1>2, <1>3 DEF Server

(* What is known of tick and table before a step. *)
LEMMA Known ==
  ASSUME NEW Trees, TreesSorted(Trees), IInv(Trees)
  PROVE  /\ seconds \in Nat /\ msec \in Nat /\ left \in Nat /\ Callbacks(ticks, Trees)
         /\ load \in Loads /\ load.sockets \in Nat /\ opened \in Nat /\ opened <= load.sockets
         /\ Database /\ OneAttempt /\ Good(Table, main_db.fd, opened)
         /\ main_db.fd \in 0..opened /\ main_db.fd # Listener /\ main_db.wait_sec \in Nat
         /\ Shaped(Table) /\ Table.net = net /\ Table.sessions = sessions
         /\ Table.roles = all_roles /\ Table.count = count
         /\ net \in [DOMAIN net -> Sockets] /\ sessions \in [DOMAIN net -> Entries]
         /\ \A fd \in DOMAIN net : Kept(Table, fd, main_db.fd)
  BY LogicServerAssumption DEF IInv, TickInv, Server, Database, Good, Shaped, Table

(* A step without a callback: the clock, other modules, messages. *)
LEMMA AdvanceStep ==
  ASSUME NEW Trees, TreesSorted(Trees), IInv(Trees), Advance
  PROVE  TickStep /\ Server'
<1>1. PICK passed \in Pauses : Update(passed)
  BY DEF Advance
<1>2. passed \in Nat
  BY LogicServerAssumption
<1>3. TickStep
  BY <1>1, <1>2 DEF TickStep
<1>4. ticks' = ticks /\ UNCHANGED <<load, serverVars>>
  BY <1>1 DEF Update, Advance
<1> QED BY <1>3, <1>4, OthersKeep DEF IInv

(* Other modules register callbacks ... *)
LEMMA RegOtherStep ==
  ASSUME NEW Trees, TreesSorted(Trees), IInv(Trees), RegOther
  PROVE  TickStep /\ Server'
<1>1. PICK after \in Afters : Fits(ticks, after) /\ ticks' = Reg(ticks, after, "other")
  BY DEF RegOther, Bounded
<1>2. after \in Nat
  BY LogicServerAssumption
<1>3. TickStep
  <2>1. Added(ticks)
    BY <1>1, <1>2 DEF Added
  <2> QED BY <2>1 DEF TickStep, RegOther
<1>4. Waiting(ticks') = Waiting(ticks)
  BY <1>1, <1>2, Known, WaitingIs
<1> QED BY <1>3, <1>4, OthersKeep DEF IInv, RegOther

(* ... and give them up. *)
LEMMA UnregOtherStep ==
  ASSUME NEW Trees, TreesSorted(Trees), IInv(Trees), UnregOther
  PROVE  TickStep /\ Server'
<1>1. PICK tick \in DOMAIN ticks.funs : ticks.funs[tick] = "other" /\ ticks' = Unreg(ticks, tick)
  BY DEF UnregOther
<1>2. TickStep
  BY <1>1 DEF TickStep, UnregOther
<1>3. Waiting(ticks') = Waiting(ticks) \ {tick}
  BY <1>1, Known, WaitingIs
<1>4. tick \notin Waiting(ticks)
  BY <1>1 DEF Waiting
<1>5. Waiting(ticks') = Waiting(ticks)
  BY <1>3, <1>4
<1> QED BY <1>2, <1>5, OthersKeep DEF IInv, UnregOther

(* The callback that connects to the database. *)
LEMMA ConnectStep ==
  ASSUME NEW Trees, TreesSorted(Trees), IInv(Trees), NEW rest, Callbacks(rest, Trees),
         main_db.tick_id # NoTick, Waiting(rest) = {}, ConnectDb(rest), load' = load
  PROVE  Server' /\ (ticks' = rest \/ Added(rest))
<1>1. main_db.fd \notin DOMAIN net
  BY AttemptIs DEF IInv, Server
<1>2. PICK wait : wait = IF main_db.wait_sec < MaxWait THEN main_db.wait_sec + 1 ELSE main_db.wait_sec
  OBVIOUS
<1>3. wait \in Nat
  <2>1. main_db.wait_sec \in Nat
    BY Known
  <2> QED BY <1>2, <2>1
<1>4. CASE /\ opened < load.sockets
           /\ opened' = opened + 1
           /\ main_db' = [fd |-> opened', tick_id |-> NoTick, wait_sec |-> wait]
           /\ Becomes(RegSession([Table EXCEPT !.net = Put(@, opened', Socket(FALSE))], opened', "db"))
           /\ ticks' = rest
  <2>1. PICK fd : fd = opened'
    OBVIOUS
  <2>2. PICK f : f = Put(net, fd, Socket(FALSE))
    OBVIOUS
  <2>3. PICK new : new = RegAll([Table EXCEPT !.net = f], {fd}, "db")
    OBVIOUS
  <2>4. /\ Good(Table, main_db.fd, opened) /\ opened \in Nat /\ main_db.fd \in 0..opened
        /\ Table.net = net /\ net \in [DOMAIN net -> Sockets]
        /\ \A x \in DOMAIN net : Kept(Table, x, main_db.fd)
        /\ load \in Loads /\ load.sockets \in Nat
    BY Known
  <2>5. fd \in Nat /\ opened <= fd /\ {fd} \subseteq opened + 1..fd /\ fd # Listener /\ fd <= load.sockets
    <3>1. fd = opened + 1 /\ opened < load.sockets
      BY <1>4, <2>1
    <3>2. 1 <= opened
      BY <2>4 DEF Good, Listener
    <3> QED BY <2>4, <3>1, <3>2 DEF Listener
  <2>6. fd \notin DOMAIN net
    <3>1. DOMAIN net \subseteq 1..opened
      BY <2>4 DEF Good
    <3>2. fd = opened + 1
      BY <1>4, <2>1
    <3> QED BY <2>4, <3>1, <3>2
  <2>7. /\ DOMAIN f = DOMAIN net \cup {fd} /\ f[fd] = Socket(FALSE)
        /\ \A x \in DOMAIN net \ {fd} : f[x] = net[x]
    BY ONLY <2>2 DEF Put
  <2>8. Socket(FALSE) \in Sockets /\ Socket(FALSE).events = {}
    BY EmptySeq DEF Socket, Sockets
  <2>9. f \in [DOMAIN net \cup {fd} -> Sockets]
    <3>1. f = [y \in DOMAIN net \cup {fd} |-> IF y = fd THEN Socket(FALSE) ELSE net[y]]
      BY <2>2 DEF Put
    <3> QED BY <2>4, <2>8, <3>1
  <2>10. \A x \in DOMAIN net : f[x].events \subseteq Reports(x, main_db.fd)
    BY <2>4, <2>6, <2>7 DEF Kept
  <2>11. Good(new, fd, fd) /\ DOMAIN new.net = DOMAIN net \cup {fd}
    <3>1. PICK mid : mid = [Table EXCEPT !.net = f]
      OBVIOUS
    <3>2. mid.net = f /\ mid = [Table EXCEPT !.net = mid.net]
      BY <3>1 DEF Table
    <3>3. \A x \in {fd} : mid.net[x].events = {}
      BY <2>7, <2>8, <3>2
    <3>4. Opens(Table, main_db.fd, opened, mid, fd, fd, {fd}, "db")
      BY <1>1, <2>4, <2>5, <2>9, <2>10, <3>2, <3>3 DEF Opens
    <3>5. /\ Good(RegAll(mid, {fd}, "db"), fd, fd)
          /\ DOMAIN RegAll(mid, {fd}, "db").net = DOMAIN Table.net \cup {fd}
      BY ONLY <3>4, RegGood
    <3>6. new = RegAll(mid, {fd}, "db")
      BY <2>3, <3>1
    <3> QED BY <2>4, <3>5, <3>6
  <2>12. Becomes(new)
    <3>1. [Table EXCEPT !.net = Put(@, fd, Socket(FALSE))] = [Table EXCEPT !.net = f]
      BY <2>2, <2>4
    <3> QED BY <1>4, <2>1, <2>3, <3>1 DEF RegSession
  <2>13. Table' = new /\ net' = new.net
    BY <2>11, <2>12, BecomesIs DEF Good
  <2>14. main_db' = [fd |-> fd, tick_id |-> NoTick, wait_sec |-> wait]
    BY <1>4, <2>1
  <2>15. Database'
    BY <1>3, <2>1, <2>5, <2>14 DEF Database
  <2>16. OneAttempt'
    BY <1>4, <2>11, <2>13, <2>14, AttemptNext
  <2>17. Good(Table, main_db.fd, opened)'
    BY <2>1, <2>11, <2>13, <2>14
  <2> QED BY <1>4, <2>1, <2>4, <2>5, <2>15, <2>16, <2>17 DEF Server
<1>5. CASE Retry(rest, wait) /\ UNCHANGED <<net, opened, sessions, count, all_roles>>
  <2>1. /\ Added(rest) /\ Waiting(ticks') = {main_db.tick_id'}
        /\ main_db.fd' = main_db.fd /\ main_db.wait_sec' = wait
        /\ main_db' = [fd |-> main_db.fd', tick_id |-> main_db.tick_id', wait_sec |-> main_db.wait_sec']
    BY <1>3, <1>5, Known, RetryOne
  <2>2. Database' /\ OneAttempt'
    BY <1>1, <1>3, <1>5, <2>1, AttemptNext, Known DEF Database
  <2>3. Table' = Table
    BY <1>5 DEF Table
  <2> QED BY <1>5, <2>1, <2>2, <2>3, Known DEF Server
<1> QED BY <1>2, <1>4, <1>5 DEF ConnectDb

(* One callback of a round. *)
LEMMA RunTickStep ==
  ASSUME NEW Trees, TreesSorted(Trees), IInv(Trees), RunTick
  PROVE  TickStep /\ Server'
<1>1. Turn /\ load' = load /\ Callback(FirstFun, Remaining) /\ left > 0
  BY DEF RunTick, Turn
<1>2. /\ First \in DOMAIN ticks.funs /\ Callbacks(Remaining, Trees)
  BY <1>1, FirstIs DEF IInv
<1>3. Waiting(Remaining) = Waiting(ticks) \ {First}
  BY <1>2, Known, WaitingIs DEF Remaining
<1>4. CASE FirstFun = "connect_db" /\ ConnectDb(Remaining)
  <2>1. First \in Waiting(ticks)
    BY <1>2, <1>4 DEF Waiting, FirstFun
  <2>2. Waiting(ticks) = {main_db.tick_id} /\ First = main_db.tick_id
    BY <2>1, AttemptIs DEF IInv, Server
  <2>3. main_db.tick_id # NoTick
    <3>1. First \in Nat
      BY <2>1, Known, WaitingIs
    <3> QED BY <2>2, <3>1 DEF NoTick
  <2>4. Waiting(Remaining) = {}
    BY <1>3, <2>2
  <2>5. Server' /\ (ticks' = Remaining \/ Added(Remaining))
    BY <1>1, <1>2, <1>4, <2>3, <2>4, ConnectStep
  <2> QED BY <1>1, <2>5 DEF TickStep
<1>5. CASE /\ FirstFun = "other" /\ UNCHANGED serverVars
           /\ \/ ticks' = Remaining
              \/ \E after \in Afters : Bounded(Remaining, after) /\ ticks' = Reg(Remaining, after, "other")
  <2>1. Waiting(Remaining) = Waiting(ticks)
    <3>1. First \notin Waiting(ticks)
      BY <1>5 DEF Waiting, FirstFun
    <3> QED BY <1>3, <3>1
  <2>2. (ticks' = Remaining \/ Added(Remaining)) /\ Waiting(ticks') = Waiting(Remaining)
    <3>1. ASSUME NEW after \in Afters, Bounded(Remaining, after), ticks' = Reg(Remaining, after, "other")
          PROVE  Added(Remaining) /\ Waiting(ticks') = Waiting(Remaining)
      <4>1. after \in Nat /\ Fits(Remaining, after)
        BY <3>1, LogicServerAssumption DEF Bounded
      <4>2. Waiting(Reg(Remaining, after, "other")) = Waiting(Remaining)
        BY <1>2, <4>1, Known, WaitingIs
      <4> QED BY <3>1, <4>1, <4>2 DEF Added
    <3> QED BY <1>5, <3>1
  <2> QED BY <1>1, <1>5, <2>1, <2>2, OthersKeep DEF TickStep, IInv
<1> QED BY <1>1, <1>4, <1>5 DEF Callback

(* An event of a socket leaves the callbacks alone, or registers one.       *)
LEMMA QuietStep ==
  ASSUME UNCHANGED tickVars PROVE TickStep
  BY DEF TickStep

(* accept of the connections that wait, as far as sockets go. *)
LEMMA AcceptStep ==
  ASSUME NEW Trees, TreesSorted(Trees), IInv(Trees), NEW fd \in DOMAIN net, OnAccept(fd)
  PROVE  TickStep /\ Server'
<1>1. PICK room : room = load.sockets - opened
  OBVIOUS
<1>2. PICK b : b = net[fd].backlog
  OBVIOUS
<1>3. PICK taken : taken = IF b <= room THEN b ELSE room
  OBVIOUS
<1>4. PICK accepted : accepted = opened + 1..opened + taken
  OBVIOUS
<1>5. PICK remains : remains = b - taken
  OBVIOUS
<1>6. PICK rest : rest = IF remains = 0 THEN 0 ELSE remains - 1
  OBVIOUS
<1>7. PICK socket : socket = [net[fd] EXCEPT !.events = {}, !.backlog = rest]
  OBVIOUS
<1>8. PICK f : f = [n \in DOMAIN net \cup accepted |->
                      IF n \in accepted THEN Socket(TRUE) ELSE IF n = fd THEN socket ELSE net[n]]
  OBVIOUS
<1>9. PICK mid : mid = [Table EXCEPT !.net = f]
  OBVIOUS
<1>10. PICK new : new = RegAll(mid, accepted, "accept")
  OBVIOUS
<1>11. /\ opened' = opened + taken /\ Becomes(new)
       /\ UNCHANGED <<load, main_db, tickVars>>
  BY <1>1, <1>2, <1>3, <1>4, <1>5, <1>6, <1>7, <1>8, <1>9, <1>10 DEF OnAccept
<1>12. /\ load \in Loads /\ load.sockets \in Nat /\ opened \in Nat /\ opened <= load.sockets
       /\ Good(Table, main_db.fd, opened) /\ main_db.fd \in 0..opened
       /\ Table.net = net /\ net \in [DOMAIN net -> Sockets]
       /\ \A x \in DOMAIN net : net[x].events \subseteq Reports(x, main_db.fd)
       /\ net[fd] \in Sockets
  BY Known DEF Kept
<1>13. room \in Nat /\ b \in Nat
  <2>1. b \in Nat
    BY <1>2, <1>12 DEF Sockets
  <2> QED BY <1>1, <1>12, <2>1
<1>14. taken \in Nat /\ taken <= room /\ taken <= b
  BY <1>3, <1>13
<1>15. opened + taken \in Nat /\ opened <= opened + taken /\ opened + taken <= load.sockets
  BY <1>1, <1>12, <1>13, <1>14
<1>16. rest \in Nat
  BY <1>5, <1>6, <1>13, <1>14
<1>17. socket \in Sockets /\ socket.events = {}
  <2>1. PICK s : s = [net[fd] EXCEPT !.events = {}]
    OBVIOUS
  <2>2. s \in Sockets /\ s.events = {}
    BY <1>12, <2>1 DEF Sockets
  <2>3. socket = [s EXCEPT !.backlog = rest]
    BY <1>7, <2>1
  <2> QED BY <1>16, <2>2, <2>3 DEF Sockets
<1>18. Socket(TRUE) \in Sockets /\ Socket(TRUE).events = {}
  BY EmptySeq DEF Socket, Sockets
<1>19. f \in [DOMAIN net \cup accepted -> Sockets]
  BY <1>8, <1>12, <1>17, <1>18
<1>20. \A x \in accepted : f[x].events = {}
  BY <1>8, <1>18
<1>21. \A x \in DOMAIN net : f[x].events \subseteq Reports(x, main_db.fd)
  BY <1>8, <1>12, <1>17, <1>18
<1>22. mid.net = f /\ mid = [Table EXCEPT !.net = mid.net]
  BY <1>9 DEF Table
<1>23. Opens(Table, main_db.fd, opened, mid, main_db.fd, opened + taken, accepted, "accept")
  BY <1>4, <1>12, <1>15, <1>19, <1>20, <1>21, <1>22 DEF Opens
<1>24. Good(new, main_db.fd, opened + taken) /\ DOMAIN new.net = DOMAIN net \cup accepted
  <2>1. /\ Good(RegAll(mid, accepted, "accept"), main_db.fd, opened + taken)
        /\ DOMAIN RegAll(mid, accepted, "accept").net = DOMAIN Table.net \cup accepted
    BY ONLY <1>23, RegGood
  <2> QED BY <1>10, <1>12, <2>1
<1>25. Table' = new /\ net' = new.net
  BY <1>11, <1>24, BecomesIs DEF Good
<1>26. main_db.fd \notin accepted
  <2>1. \A x \in accepted : x > opened
    BY <1>4, <1>12
  <2> QED BY <1>12, <2>1
<1>27. OneAttempt'
  <2>1. main_db' = main_db /\ ticks' = ticks
    BY <1>11 DEF tickVars
  <2>2. main_db.fd \in DOMAIN net' <=> main_db.fd \in DOMAIN net
    BY <1>24, <1>25, <1>26
  <2> QED BY <2>1, <2>2, AttemptIs, AttemptNext, Known
<1>28. Database'
  BY <1>11, <1>12, <1>15, Known DEF Database
<1>29. Server'
  BY <1>11, <1>12, <1>15, <1>24, <1>25, <1>27, <1>28 DEF Server
<1> QED BY <1>11, <1>29, QuietStep

(* Server steps that leave clock, number of sockets and load alone.        *)
LEMMA ServerNext ==
  ASSUME NEW Trees, TreesSorted(Trees), IInv(Trees), load' = load, opened' = opened,
         NEW new, Good(new, main_db.fd, opened), Becomes(new),
         UNCHANGED <<main_db, ticks>>, main_db.fd \in DOMAIN new.net <=> main_db.fd \in DOMAIN net
  PROVE  Server'
<1>1. Table' = new /\ net' = new.net
  BY BecomesIs DEF Good
<1>2. OneAttempt'
  BY <1>1, AttemptIs, AttemptNext, Known
<1>3. Database'
  BY Known DEF Database
<1>4. Good(Table, main_db.fd, opened)'
  BY <1>1
<1> QED BY <1>2, <1>3, <1>4, Known DEF Server

(* The database is lost: its socket is closed and the next connection has a tick. *)
LEMMA LostNext ==
  ASSUME NEW Trees, TreesSorted(Trees), IInv(Trees), load' = load, opened' = opened,
         NEW tb, Good(tb, main_db.fd, opened), main_db.fd \in DOMAIN net,
         Becomes(DelSession(tb, main_db.fd)), NEW wait \in Nat, Retry(ticks, wait),
         UNCHANGED <<seconds, msec, left>>,
         main_db.fd \in DOMAIN tb.net
  PROVE  TickStep /\ Server'
<1>1. PICK new : new = DelSession(tb, main_db.fd)
  OBVIOUS
<1>2. main_db.fd # Listener /\ Kept(tb, main_db.fd, main_db.fd)
  BY Known DEF Good
<1>3. Good(new, main_db.fd, opened) /\ DOMAIN new.net = DOMAIN tb.net \ {main_db.fd}
  <2>1. tb.sessions[main_db.fd].kind # "role"
    BY <1>2 DEF Kept
  <2> QED BY <1>1, <1>2, <2>1, DelGood, DelFields DEF Good
<1>4. Table' = new /\ net' = new.net
  BY <1>1, <1>3, BecomesIs DEF Good
<1>5. Waiting(ticks) = {}
  BY AttemptIs, Known
<1>6. /\ Added(ticks) /\ Waiting(ticks') = {main_db.tick_id'}
      /\ main_db.fd' = main_db.fd /\ main_db.wait_sec' = wait
      /\ main_db' = [fd |-> main_db.fd', tick_id |-> main_db.tick_id', wait_sec |-> main_db.wait_sec']
  BY <1>5, RetryOne, Known
<1>7. OneAttempt'
  BY <1>3, <1>4, <1>6, AttemptNext
<1>8. Database'
  BY <1>6, Known DEF Database
<1>9. Good(Table, main_db.fd, opened)'
  BY <1>3, <1>4, <1>6
<1> QED BY <1>6, <1>7, <1>8, <1>9, Known DEF Server, TickStep

(* What is reported tells whose socket it is. *)
LEMMA WhoseEvent ==
  ASSUME NEW Trees, TreesSorted(Trees), IInv(Trees), NEW fd \in DOMAIN net
  PROVE  /\ "connect" \in net[fd].events => fd = main_db.fd
         /\ "read" \in net[fd].events => fd # Listener /\ fd # main_db.fd
         /\ "error" \in net[fd].events => fd # Listener
  BY Known DEF Kept, Reports

(* The connection to the database is there, or could not be made. *)
LEMMA OnConnectStep ==
  ASSUME NEW Trees, TreesSorted(Trees), IInv(Trees), NEW fd \in DOMAIN net, OnConnect(fd)
  PROVE  TickStep /\ Server'
<1>1. PICK error \in BOOLEAN :
        /\ net[fd].events = {"connect"} \cup (IF error THEN {"error"} ELSE {})
        /\ IF sessions[fd].kind = "db" THEN ConnectHandled(Taken(fd), error)
           ELSE Becomes(Taken(fd)) /\ UNCHANGED <<main_db, ticks>>
  BY DEF OnConnect, Reported
<1>2. UNCHANGED <<load, opened, seconds, msec, left>>
  BY DEF OnConnect
<1>3. fd = main_db.fd
  BY <1>1, WhoseEvent
<1>4. sessions[fd].kind = "db"
  BY <1>3, Known DEF Kept
<1>5. PICK tb : tb = Taken(fd)
  OBVIOUS
<1>6. Good(tb, main_db.fd, opened) /\ DOMAIN tb.net = DOMAIN net
  BY <1>5, TakenGood, Known
<1>7. CASE ~error /\ load.cfg = 0
  <2>1. Becomes(tb) /\ main_db' = [main_db EXCEPT !.wait_sec = 1] /\ ticks' = ticks
    BY <1>1, <1>4, <1>5, <1>7 DEF ConnectHandled
  <2>2. PICK db : db = main_db
    OBVIOUS
  <2>3. db = [fd |-> db.fd, tick_id |-> db.tick_id, wait_sec |-> db.wait_sec]
    BY <2>2, Known DEF Database
  <2>4. main_db' = [fd |-> db.fd, tick_id |-> db.tick_id, wait_sec |-> 1]
    BY <2>1, <2>2, <2>3
  <2>5. Table' = tb /\ net' = tb.net
    BY <1>6, <2>1, BecomesIs DEF Good
  <2>6. OneAttempt'
    BY <1>6, <2>1, <2>2, <2>4, <2>5, AttemptIs, AttemptNext, Known
  <2>7. Database'
    BY <1>2, <2>2, <2>4, Known DEF Database
  <2>8. Good(Table, main_db.fd, opened)'
    BY <1>2, <1>6, <2>2, <2>4, <2>5
  <2>9. UNCHANGED tickVars
    BY <1>2, <2>1 DEF tickVars
  <2> QED BY <1>2, <2>6, <2>7, <2>8, <2>9, QuietStep, Known DEF Server
<1>8. CASE ~(~error /\ load.cfg = 0)
  <2>1. Becomes(DelSession(tb, main_db.fd)) /\ Retry(ticks, main_db.wait_sec)
    BY <1>1, <1>4, <1>5, <1>8 DEF ConnectHandled
  <2> QED BY <1>2, <1>3, <1>6, <2>1, LostNext, Known
<1> QED BY <1>7, <1>8

(* An error of a connection. *)
LEMMA OnErrorStep ==
  ASSUME NEW Trees, TreesSorted(Trees), IInv(Trees), NEW fd \in DOMAIN net, OnError(fd)
  PROVE  TickStep /\ Server'
<1>1. net[fd].events = {"error"} \/ net[fd].events = {"error", "read"}
  BY DEF OnError, Reported
<1>2. UNCHANGED <<load, opened, seconds, msec, left>>
  BY DEF OnError
<1>3. PICK tb : tb = Taken(fd)
  OBVIOUS
<1>4. /\ Good(tb, main_db.fd, opened) /\ DOMAIN tb.net = DOMAIN net
      /\ tb.sessions = sessions /\ tb.roles = all_roles
  BY <1>3, TakenGood, Known
<1>5. /\ fd # Listener /\ sessions[fd] \in Entries /\ sessions[fd].fd = fd
      /\ sessions[fd].kind = "db" <=> fd = main_db.fd
      /\ sessions[fd].kind # "listen"
  BY <1>1, WhoseEvent, Known DEF Kept
<1>6. CASE sessions[fd].kind = "db" /\ Becomes(DelSession(tb, fd)) /\ Retry(ticks, 1)
  BY <1>2, <1>4, <1>5, <1>6, LostNext
<1>7. CASE sessions[fd].kind # "db" /\ Becomes(Failed(tb, sessions[fd])) /\ UNCHANGED <<main_db, ticks>>
  <2>1. PICK s : s = sessions[fd]
    OBVIOUS
  <2>2. s.kind \in {"accept", "role", "bare"} /\ s.fd = fd /\ fd # main_db.fd /\ tb.sessions[fd] = s
    BY <1>4, <1>5, <1>7, <2>1 DEF Entries, Kinds
  <2>3. PICK new : new = Failed(tb, s)
    OBVIOUS
  <2>4. /\ Good(new, main_db.fd, opened)
        /\ IF s.kind = "bare" THEN new = tb ELSE DOMAIN new.net = DOMAIN tb.net \ {fd}
    BY <1>4, <1>5, <2>2, <2>3, FailedGood
  <2>5. main_db.fd \in DOMAIN new.net <=> main_db.fd \in DOMAIN net
    BY <1>4, <2>2, <2>4
  <2>6. Becomes(new) /\ UNCHANGED tickVars
    BY <1>2, <1>7, <2>1, <2>3 DEF tickVars
  <2> QED BY <1>2, <1>7, <2>4, <2>5, <2>6, ServerNext, QuietStep
<1> QED BY <1>3, <1>6, <1>7 DEF OnError

(* The messages of a client. *)
LEMMA OnReadStep ==
  ASSUME NEW Trees, TreesSorted(Trees), TypesKeepOut, IInv(Trees), NEW fd \in DOMAIN net, OnRead(fd)
  PROVE  TickStep /\ Server'
<1>1. /\ net[fd].events = {"read"}
      /\ Becomes(HandledAll([Taken(fd) EXCEPT !.net[fd].inbox = <<>>], sessions[fd], net[fd].inbox))
      /\ UNCHANGED <<load, opened, main_db, tickVars>>
  BY DEF OnRead, Reported
<1>2. fd # Listener /\ fd # main_db.fd
  BY <1>1, WhoseEvent
<1>3. PICK tb : tb = [Taken(fd) EXCEPT !.net[fd].inbox = <<>>]
  OBVIOUS
<1>4. PICK s : s = sessions[fd]
  OBVIOUS
<1>5. PICK msgs : msgs = net[fd].inbox
  OBVIOUS
<1>6. /\ Good(tb, main_db.fd, opened) /\ DOMAIN tb.net = DOMAIN net
      /\ tb.sessions = sessions /\ tb.roles = all_roles
  BY <1>3, TakenGood, Known
<1>7. msgs \in Seq(Msg)
  BY <1>5, Known DEF Sockets
<1>8. /\ s \in Entries /\ s.fd = fd /\ s.kind # "db" /\ s.kind # "listen"
  BY <1>2, <1>4, Known DEF Kept
<1>9. Reading(tb, main_db.fd, opened, s)
  <2>1. s.kind \in {"accept", "role", "bare"}
    BY <1>8 DEF Entries, Kinds
  <2> QED BY <1>2, <1>4, <1>6, <1>8, <2>1 DEF Reading
<1>10. PICK new : new = HandledAll(tb, s, msgs)
  OBVIOUS
<1>11. Good(new, main_db.fd, opened) /\ (main_db.fd \in DOMAIN new.net <=> main_db.fd \in DOMAIN net)
  <2>1. /\ Reading(HandledAll(tb, s, msgs), main_db.fd, opened, s)
        /\ main_db.fd \in DOMAIN HandledAll(tb, s, msgs).net <=> main_db.fd \in DOMAIN tb.net
    BY ONLY <1>7, <1>9, TypesKeepOut, HandledAllGood
  <2> QED BY <1>6, <1>10, <2>1 DEF Reading
<1>12. Becomes(new)
  BY <1>1, <1>3, <1>4, <1>5, <1>10
<1>13. Server'
  BY <1>1, <1>11, <1>12, ServerNext DEF tickVars
<1> QED BY <1>1, <1>13, QuietStep

(* What happens to one socket, all else as before.                         *)
LEMMA EventStep ==
  ASSUME NEW Trees, TreesSorted(Trees), IInv(Trees), NEW fd \in DOMAIN net,
         NEW e \in Sockets, e.events \subseteq Reports(fd, main_db.fd),
         net' = [net EXCEPT ![fd] = e],
         UNCHANGED <<load, opened, sessions, count, all_roles, main_db, tickVars>>
  PROVE  TickStep /\ Server'
<1>1. PICK f : f = [net EXCEPT ![fd] = e]
  OBVIOUS
<1>2. PICK new : new = [Table EXCEPT !.net = f]
  OBVIOUS
<1>3. /\ Good(Table, main_db.fd, opened) /\ Table.net = net /\ net \in [DOMAIN net -> Sockets]
      /\ \A x \in DOMAIN net : net[x].events \subseteq Reports(x, main_db.fd)
  BY Known DEF Kept
<1>4. f \in [DOMAIN Table.net -> Sockets] /\ \A x \in DOMAIN Table.net : f[x].events \subseteq Reports(x, main_db.fd)
  BY <1>1, <1>3
<1>5. Good(new, main_db.fd, opened)
  <2>1. Good([Table EXCEPT !.net = f], main_db.fd, opened)
    BY ONLY <1>3, <1>4, NetGood
  <2> QED BY <1>2, <2>1
<1>6. new = [net |-> f, sessions |-> sessions, count |-> count, roles |-> all_roles]
  BY <1>2 DEF Table
<1>7. Becomes(new)
  BY <1>1, <1>6 DEF Becomes
<1>8. main_db.fd \in DOMAIN new.net <=> main_db.fd \in DOMAIN net
  BY <1>1, <1>6
<1>9. Server'
  BY <1>5, <1>7, <1>8, ServerNext DEF tickVars
<1> QED BY <1>9, QuietStep

(* A socket, by its fields. *)
Fields(up, events, inbox, backlog) ==
  [up |-> up, events |-> events, inbox |-> inbox, backlog |-> backlog]

(* The fields of a socket ... *)
LEMMA FieldsOf ==
  ASSUME NEW up, NEW events, NEW inbox, NEW backlog,
         NEW s, s = Fields(up, events, inbox, backlog)
  PROVE  s.events = events /\ s.inbox = inbox /\ s.backlog = backlog
  BY DEF Fields

WithUp(s, x)      == [s EXCEPT !.up = x]
WithEvents(s, x)  == [s EXCEPT !.events = x]
WithInbox(s, x)   == [s EXCEPT !.inbox = x]
WithBacklog(s, x) == [s EXCEPT !.backlog = x]

(* ... and one of them that changes. *)
LEMMA FieldChange ==
  ASSUME NEW up, NEW events, NEW inbox, NEW backlog,
         NEW s, s = Fields(up, events, inbox, backlog), NEW x
  PROVE  /\ WithUp(s, x) = Fields(x, events, inbox, backlog)
         /\ WithEvents(s, x) = Fields(up, x, inbox, backlog)
         /\ WithInbox(s, x) = Fields(up, events, x, backlog)
         /\ WithBacklog(s, x) = Fields(up, events, inbox, x)
  BY DEF Fields, WithUp, WithEvents, WithInbox, WithBacklog

(* What the network does. *)
LEMMA NetworkStep ==
  ASSUME NEW Trees, TreesSorted(Trees), IInv(Trees), NEW fd \in DOMAIN net, NEW msg \in Msg,
         \/ Knock /\ fd = Listener
         \/ Established(fd) \/ Refused(fd) \/ Breaks(fd) \/ Arrives(fd, msg)
  PROVE  TickStep /\ Server'
<1>1. /\ net[fd] \in Sockets /\ net[fd].events \subseteq Reports(fd, main_db.fd)
      /\ (sessions[fd].kind = "db" <=> fd = main_db.fd) /\ main_db.fd # Listener
      /\ DOMAIN sessions = DOMAIN net
  BY Known DEF Kept
<1>2. PICK up \in BOOLEAN, ev \in SUBSET {"accept", "connect", "error", "read"},
           inbox \in Seq(Msg), backlog \in Nat : net[fd] = Fields(up, ev, inbox, backlog)
  BY <1>1 DEF Sockets, Fields
<1>3. PICK s : s = Fields(up, ev, inbox, backlog)
  OBVIOUS
<1>4. s = net[fd] /\ s.events = ev
  BY <1>2, <1>3, FieldsOf
<1>5. ASSUME NEW u \in BOOLEAN, NEW r \in SUBSET {"accept", "connect", "error", "read"},
             r \subseteq Reports(fd, main_db.fd), NEW i \in Seq(Msg), NEW b \in Nat,
             net' = [net EXCEPT ![fd] = Fields(u, r, i, b)],
             UNCHANGED <<load, opened, sessions, count, all_roles, main_db, tickVars>>
      PROVE  TickStep /\ Server'
  <2>1. PICK e : e = Fields(u, r, i, b)
    OBVIOUS
  <2>2. e \in Sockets /\ e.events = r
    BY <2>1 DEF Sockets, Fields
  <2> QED BY <1>5, <2>1, <2>2, EventStep
<1>6. CASE Knock /\ fd = Listener
  <2>1. net' = [net EXCEPT ![fd].backlog = @ + 1, ![fd].events = {"accept"}]
    BY <1>6 DEF Knock
  <2>2. PICK a : a = WithBacklog(s, backlog + 1)
    OBVIOUS
  <2>3. a = Fields(up, ev, inbox, backlog + 1)
    BY ONLY <1>3, <2>2, FieldsOf, FieldChange
  <2>4. WithEvents(a, {"accept"}) = Fields(up, {"accept"}, inbox, backlog + 1)
    BY ONLY <2>3, FieldChange
  <2>5. net' = [net EXCEPT ![fd] = Fields(up, {"accept"}, inbox, backlog + 1)]
    <3>1. s.backlog = backlog
      BY ONLY <1>3, FieldsOf
    <3> QED BY <1>4, <2>1, <2>2, <2>4, <3>1, Known DEF WithBacklog, WithEvents
  <2>6. {"accept"} \subseteq Reports(fd, main_db.fd)
    BY <1>6 DEF Reports
  <2>7. UNCHANGED <<load, opened, sessions, count, all_roles, main_db, tickVars>>
    BY <1>6 DEF Knock
  <2>8. backlog + 1 \in Nat /\ {"accept"} \in SUBSET {"accept", "connect", "error", "read"}
    OBVIOUS
  <2> QED BY <1>5, <2>5, <2>6, <2>7, <2>8
<1>7. CASE Established(fd)
  <2>1. net' = [net EXCEPT ![fd].up = TRUE, ![fd].events = {"connect"}]
    BY <1>7 DEF Established
  <2>2. PICK on \in BOOLEAN : on = TRUE
    OBVIOUS
  <2>3. PICK a : a = WithUp(s, on)
    OBVIOUS
  <2>4. a = Fields(on, ev, inbox, backlog)
    BY ONLY <1>3, <2>3, FieldsOf, FieldChange
  <2>5. WithEvents(a, {"connect"}) = Fields(on, {"connect"}, inbox, backlog)
    BY ONLY <2>4, FieldChange
  <2>6. net' = [net EXCEPT ![fd] = Fields(on, {"connect"}, inbox, backlog)]
    BY <1>4, <2>2, <2>1, <2>3, <2>5, Known DEF WithUp, WithEvents
  <2>7. {"connect"} \subseteq Reports(fd, main_db.fd)
    BY <1>1, <1>7 DEF Reports, Established, IsDb
  <2>8. UNCHANGED <<load, opened, sessions, count, all_roles, main_db, tickVars>>
    BY <1>7 DEF Established
  <2> QED BY <1>5, <2>6, <2>7, <2>8
<1>8. CASE Refused(fd)
  <2>1. net' = [net EXCEPT ![fd].events = @ \cup {"connect", "error"}] /\ ev = {}
    BY <1>4, <1>8 DEF Refused, Happens
  <2>2. PICK r : r = ev \cup {"connect", "error"}
    OBVIOUS
  <2>3. WithEvents(s, r) = Fields(up, r, inbox, backlog)
    BY ONLY <1>3, FieldChange
  <2>4. net' = [net EXCEPT ![fd] = Fields(up, r, inbox, backlog)]
    BY <1>4, <2>1, <2>2, <2>3, Known DEF WithEvents
  <2>5. r \subseteq Reports(fd, main_db.fd) /\ r \in SUBSET {"accept", "connect", "error", "read"}
    BY <1>1, <1>8, <2>1, <2>2 DEF Reports, Refused, IsDb
  <2>6. UNCHANGED <<load, opened, sessions, count, all_roles, main_db, tickVars>>
    BY <1>8 DEF Refused, Happens
  <2> QED BY <1>5, <2>4, <2>5, <2>6
<1>9. CASE Breaks(fd)
  <2>1. net' = [net EXCEPT ![fd].up = FALSE, ![fd].events = @ \cup {"error"}] /\ fd # Listener
    BY <1>9 DEF Breaks
  <2>2. PICK down \in BOOLEAN : down = FALSE
    OBVIOUS
  <2>3. PICK r : r = ev \cup {"error"}
    OBVIOUS
  <2>4. PICK a : a = WithUp(s, down)
    OBVIOUS
  <2>5. a = Fields(down, ev, inbox, backlog) /\ a.events = ev
    <3>1. a = Fields(down, ev, inbox, backlog)
      BY ONLY <1>3, <2>4, FieldChange
    <3> QED BY ONLY <3>1, FieldsOf
  <2>6. WithEvents(a, r) = Fields(down, r, inbox, backlog)
    BY ONLY <2>5, FieldChange
  <2>7. net' = [net EXCEPT ![fd] = Fields(down, r, inbox, backlog)]
    BY <1>4, <2>2, <2>1, <2>3, <2>4, <2>5, <2>6, Known DEF WithUp, WithEvents
  <2>8. r \subseteq Reports(fd, main_db.fd) /\ r \in SUBSET {"accept", "connect", "error", "read"}
    BY <1>1, <1>4, <2>1, <2>3 DEF Reports
  <2>9. UNCHANGED <<load, opened, sessions, count, all_roles, main_db, tickVars>>
    BY <1>9 DEF Breaks
  <2> QED BY <1>5, <2>7, <2>8, <2>9
<1>10. CASE Arrives(fd, msg)
  <2>1. net' = [net EXCEPT ![fd].inbox = Append(@, msg), ![fd].events = @ \cup {"read"}]
        /\ fd # Listener /\ fd # main_db.fd
    BY <1>1, <1>10 DEF Arrives, IsDb
  <2>2. PICK r : r = ev \cup {"read"}
    OBVIOUS
  <2>3. PICK i : i = Append(inbox, msg)
    OBVIOUS
  <2>4. s.inbox = inbox
    BY ONLY <1>3, FieldsOf
  <2>5. PICK a : a = WithInbox(s, i)
    OBVIOUS
  <2>6. a = Fields(up, ev, i, backlog) /\ a.events = ev
    <3>1. a = Fields(up, ev, i, backlog)
      BY ONLY <1>3, <2>5, FieldChange
    <3> QED BY ONLY <3>1, FieldsOf
  <2>7. WithEvents(a, r) = Fields(up, r, i, backlog)
    BY ONLY <2>6, FieldChange
  <2>8. net' = [net EXCEPT ![fd] = Fields(up, r, i, backlog)]
    BY <1>4, <2>1, <2>2, <2>3, <2>4, <2>5, <2>6, <2>7, Known DEF WithInbox, WithEvents
  <2>9. r \subseteq Reports(fd, main_db.fd) /\ r \in SUBSET {"accept", "connect", "error", "read"}
    BY <1>1, <1>4, <2>1, <2>2 DEF Reports
  <2>10. i \in Seq(Msg)
    BY <2>3, AppendProperties
  <2>11. UNCHANGED <<load, opened, sessions, count, all_roles, main_db, tickVars>>
    BY <1>10 DEF Arrives
  <2> QED BY <1>5, <2>8, <2>9, <2>10, <2>11
<1> QED BY <1>6, <1>7, <1>8, <1>9, <1>10

-----------------------------------------------------------------------------
(***************************************************************************)
(* The invariant, and what follows from it.                                *)
(***************************************************************************)
(* The server starts with one tick, at which it connects to the database,  *)
(* and its listener.                                                        *)
LEMMA InitIInv ==
  ASSUME NEW Trees, TreesSorted(Trees), Init
  PROVE  IInv(Trees) /\ Promise!Init
<1>1. /\ load \in Loads /\ opened = 1 /\ seconds = 0 /\ msec = 0 /\ left = 0
      /\ net = [fd \in {1} |-> Socket(TRUE)] /\ count = 1 /\ all_roles = <<>>
      /\ sessions = [fd \in {1} |-> [kind |-> "listen", fd |-> fd, role |-> NoRole]]
      /\ main_db = [fd |-> 0, tick_id |-> Span, wait_sec |-> 1]
      /\ ticks = [tree |-> TreeInsert(TreeEmpty, Span), funs |-> Put(<<>>, Span, "connect_db")]
  BY DEF Init, Listener
<1>2. Span \in Nat /\ Span > 0
  BY SecTickAssumption
<1>3. PICK f : f = Put(<<>>, Span, "connect_db")
  OBVIOUS
<1>4. DOMAIN f = {Span} /\ f[Span] = "connect_db" /\ f \in [{Span} -> {"connect_db", "other"}]
  <2>1. DOMAIN <<>> = {}
    OBVIOUS
  <2>2. f = [y \in {Span} |-> IF y = Span THEN "connect_db" ELSE <<>>[y]]
    BY <1>3, <2>1 DEF Put
  <2> QED BY <2>2
<1>5. TreeInsert(TreeEmpty, Span) \in Trees /\ TreeKeys(TreeInsert(TreeEmpty, Span)) = {Span}
  <2>1. TreeEmpty \in Trees /\ TreeKeys(TreeEmpty) = {}
    BY DEF TreesSorted
  <2>2. Cardinality(TreeKeys(TreeEmpty)) < MaxTicks
    BY <2>1, FS_EmptySet, SecTickAssumption
  <2>3. Span \notin TreeKeys(TreeEmpty) /\ Span \in Nat
    BY <1>2, <2>1
  <2>4. /\ TreeInsert(TreeEmpty, Span) \in Trees
        /\ TreeKeys(TreeInsert(TreeEmpty, Span)) = TreeKeys(TreeEmpty) \cup {Span}
    BY <2>1, <2>2, <2>3, KeysChange
  <2> QED BY <2>1, <2>4
<1>6. Callbacks(ticks, Trees) /\ DOMAIN ticks.funs = {Span} /\ ticks.funs[Span] = "connect_db"
  <2>1. ticks = [tree |-> TreeInsert(TreeEmpty, Span), funs |-> f]
    BY <1>1, <1>3
  <2>2. ticks.funs = f /\ ticks.tree = TreeInsert(TreeEmpty, Span) /\ ticks = [tree |-> ticks.tree, funs |-> ticks.funs]
    BY <2>1
  <2> QED BY <1>4, <1>5, <2>2 DEF Callbacks
<1>7. Second(Span) = 1
  <2>1. 1 * Span = Span /\ (1 + 1) * Span = Span + Span
    BY <1>2
  <2>2. 1 * Span <= Span /\ Span < (1 + 1) * Span
    BY ONLY <1>2, <2>1
  <2> QED BY <1>2, <2>2, SecondIs
<1>8. Rounded({Span}, 0, 0)
  <2>1. Early({Span}, 0) = {}
    BY <1>7 DEF Early
  <2>2. Cardinality(Early({Span}, 0)) = 0
    BY <2>1, FS_EmptySet
  <2>3. IsFiniteSet({Span}) /\ {Span} \subseteq Nat
    BY <1>2, FS_Singleton
  <2>4. 0 <= Cardinality(Ripe({Span}, 0))
    BY <2>3, PartsFinite
  <2> QED BY <2>2, <2>4 DEF Rounded
<1>9. TickInv(Trees)
  BY <1>1, <1>6, <1>8 DEF TickInv
<1>10. OneAttempt
  <2>1. 0 \notin DOMAIN net /\ main_db.fd = 0 /\ main_db.tick_id = Span
    BY <1>1
  <2>2. Waiting(ticks) = {Span}
    BY <1>6 DEF Waiting
  <2> QED BY <2>1, <2>2, AttemptIs
<1>11. Database
  BY <1>1 DEF Database, Listener
<1>12. Good(Table, 0, 1)
  <2>1. PICK tb : tb = Table
    OBVIOUS
  <2>2. tb = [net |-> net, sessions |-> sessions, count |-> count, roles |-> all_roles]
    BY <2>1 DEF Table
  <2>3. Socket(TRUE) \in Sockets /\ Socket(TRUE).events = {}
    BY EmptySeq DEF Socket, Sockets
  <2>4. DOMAIN tb.net = {1} /\ tb.net \in [{1} -> Sockets] /\ tb.net[1].events = {}
    BY <1>1, <2>2, <2>3
  <2>5. tb.sessions = [fd \in {1} |-> [kind |-> "listen", fd |-> fd, role |-> NoRole]]
    BY <1>1, <2>2
  <2>6. /\ DOMAIN tb.sessions = {1}
        /\ tb.sessions[1] = [kind |-> "listen", fd |-> 1, role |-> NoRole]
    BY <2>5
  <2>7. tb.sessions \in [{1} -> Entries]
    BY <2>5 DEF Entries, Kinds
  <2>8. tb.roles = <<>> /\ DOMAIN tb.roles = {} /\ tb.roles \in [DOMAIN tb.roles -> Nat]
    <3>1. tb.roles = <<>>
      BY <1>1, <2>2
    <3>2. DOMAIN <<>> = {} /\ <<>> \in [{} -> Nat]
      OBVIOUS
    <3> QED BY <3>1, <3>2
  <2>9. IsFiniteSet({1}) /\ Cardinality({1}) = 1 /\ tb.count = 1
    BY <1>1, <2>2, FS_Singleton
  <2>10. Shaped(tb)
    BY <2>2, <2>4, <2>7, <2>8, <2>9 DEF Shaped
  <2>11. Online(tb)
    BY <2>4, <2>6, <2>8 DEF Online
  <2>12. Kept(tb, 1, 0)
    BY <2>4, <2>6 DEF Kept, Listener
  <2> QED BY <2>1, <2>4, <2>10, <2>11, <2>12 DEF Good, Listener
<1>13. Server
  <2>1. load.sockets \in Nat /\ 1 <= load.sockets
    BY <1>1, LogicServerAssumption
  <2> QED BY <1>1, <1>10, <1>11, <1>12, <2>1 DEF Server
<1>14. Promise!Init
  <2>1. Promise!Second(Span) >= 0
    BY <1>7 DEF Promise!Second, Second
  <2> QED BY <1>1, <1>6, <2>1 DEF Promise!Init
<1> QED BY <1>9, <1>13, <1>14 DEF IInv

(* Every step is one of the callbacks, or none of theirs, and keeps the    *)
(* tables.                                                                 *)
LEMMA NextStep ==
  ASSUME NEW Trees, TreesSorted(Trees), TypesKeepOut, IInv(Trees), [Next]_vars
  PROVE  TickStep /\ Server'
<1>1. CASE UNCHANGED vars
  <2>1. UNCHANGED tickVars /\ UNCHANGED <<load, serverVars>> /\ Waiting(ticks') = Waiting(ticks)
    BY <1>1 DEF vars, tickVars
  <2> QED BY <2>1, QuietStep, OthersKeep DEF IInv
<1>2. CASE Advance
  BY <1>2, AdvanceStep
<1>3. CASE RunTick
  BY <1>3, RunTickStep
<1>4. CASE RegOther
  BY <1>4, RegOtherStep
<1>5. CASE UnregOther
  BY <1>5, UnregOtherStep
<1>6. CASE Knock
  <2>1. Listener \in DOMAIN net
    BY Known DEF Good
  <2>2. [type |-> "garbled", role |-> NoRole] \in Msg
    BY DEF Msg
  <2> QED BY <1>6, <2>1, <2>2, NetworkStep
<1>7. ASSUME NEW fd \in DOMAIN net,
             \/ OnAccept(fd) \/ OnConnect(fd) \/ OnError(fd) \/ OnRead(fd)
             \/ Established(fd) \/ Refused(fd) \/ Breaks(fd)
             \/ \E msg \in Msg : Arrives(fd, msg)
      PROVE  TickStep /\ Server'
  <2>1. CASE OnAccept(fd)
    BY <2>1, AcceptStep
  <2>2. CASE OnConnect(fd)
    BY <2>2, OnConnectStep
  <2>3. CASE OnError(fd)
    BY <2>3, OnErrorStep
  <2>4. CASE OnRead(fd)
    BY <2>4, OnReadStep
  <2>5. CASE Established(fd) \/ Refused(fd) \/ Breaks(fd)
    <3>1. [type |-> "garbled", role |-> NoRole] \in Msg
      BY DEF Msg
    <3> QED BY <2>5, <3>1, NetworkStep
  <2>6. CASE \E msg \in Msg : Arrives(fd, msg)
    BY <2>6, NetworkStep
  <2> QED BY <1>7, <2>1, <2>2, <2>3, <2>4, <2>5, <2>6
<1> QED BY <1>1, <1>2, <1>3, <1>4, <1>5, <1>6, <1>7 DEF Next

(* The invariant is inductive. *)
LEMMA NextIInv ==
  ASSUME NEW Trees, TreesSorted(Trees), TypesKeepOut, IInv(Trees), [Next]_vars
  PROVE  IInv(Trees)'
  BY NextStep, TickStepInv DEF IInv

(* The inductive invariant holds. *)
LEMMA Invariant ==
  ASSUME NEW CONSTANT Trees, TreesSorted(Trees), TypesKeepOut
  PROVE  Spec => []IInv(Trees)
<1>1. Init => IInv(Trees)
  BY InitIInv
<1>2. IInv(Trees) /\ [Next]_vars => IInv(Trees)'
  BY NextIInv
<1> QED BY <1>1, <1>2, PTL DEF Spec

(* A tick in the tree has its callback and a callback its tick (sec_tick.reg, *)
(* unreg and do_round), for every sorted tree.                              *)
THEOREM CallbacksKept ==
  ASSUME NEW CONSTANT Trees, TreesSorted(Trees), TypesKeepOut
  PROVE  Spec => []TicksMatch
<1>1. IInv(Trees) => TicksMatch
  BY DEF IInv, TickInv, Callbacks, TicksMatch
<1> QED BY <1>1, Invariant, PTL

(* No round leaves a callback of a second that is over (do_round, the clock *)
(* of tdriver and the callbacks that callbacks register).                   *)
THEOREM NoneOverdue ==
  ASSUME NEW CONSTANT Trees, TreesSorted(Trees), TypesKeepOut
  PROVE  Spec => []NothingOverdue
<1>1. IInv(Trees) => NothingOverdue
  <2> SUFFICES ASSUME IInv(Trees), left = 0, NEW t \in DOMAIN ticks.funs
               PROVE  Second(t) >= seconds
    BY DEF NothingOverdue
  <2>1. /\ IsFiniteSet(DOMAIN ticks.funs) /\ DOMAIN ticks.funs \subseteq Nat /\ seconds \in Nat
        /\ Rounded(DOMAIN ticks.funs, seconds, 0)
    BY IdsFinite DEF IInv, TickInv
  <2>2. Cardinality(Early(DOMAIN ticks.funs, seconds)) = 0
    <3>1. Cardinality(Early(DOMAIN ticks.funs, seconds)) \in Nat
      BY <2>1, PartsFinite
    <3>2. Cardinality(Early(DOMAIN ticks.funs, seconds)) <= 0
      BY <2>1 DEF Rounded
    <3> QED BY ONLY <3>1, <3>2
  <2>3. Early(DOMAIN ticks.funs, seconds) = {}
    BY <2>1, <2>2, PartsFinite, FS_EmptySet
  <2>4. t \in Nat /\ Second(t) \in Nat
    BY <2>1, SecondIs
  <2>5. ~(Second(t) < seconds)
    BY <2>3 DEF Early
  <2> QED BY <2>1, <2>4, <2>5
<1> QED BY <1>1, Invariant, PTL

(* The sockets of the session table are the open ones and count is their   *)
(* number (common/network.lua), through closes in the middle of a loop.    *)
THEOREM TablesAgree ==
  ASSUME NEW CONSTANT Trees, TreesSorted(Trees), TypesKeepOut
  PROVE  Spec => []TableExact
<1>1. IInv(Trees) => TableExact
  <2> SUFFICES ASSUME IInv(Trees) PROVE TableExact
    OBVIOUS
  <2>1. Shaped(Table) /\ Table.net = net /\ Table.sessions = sessions /\ Table.count = count
    BY Known
  <2> QED BY <2>1 DEF Shaped, TableExact
<1> QED BY <1>1, Invariant, PTL

(* A role has one session, which all_roles names (ClientRequestLogin and   *)
(* handle_error of role_session.lua).                                      *)
THEOREM RolesOnce ==
  ASSUME NEW CONSTANT Trees, TreesSorted(Trees), TypesKeepOut
  PROVE  Spec => []OneSessionPerRole
<1>1. IInv(Trees) => OneSessionPerRole
  <2> SUFFICES ASSUME IInv(Trees) PROVE OneSessionPerRole
    OBVIOUS
  <2>1. /\ Online(Table) /\ Table.net = net /\ Table.sessions = sessions /\ Table.roles = all_roles
        /\ DOMAIN sessions = DOMAIN net
    BY Known DEF Good
  <2> QED BY <2>1 DEF Online, OneSessionPerRole
<1> QED BY <1>1, Invariant, PTL

(* The session to the database has a socket or one tick for its next       *)
(* attempt, never both and never neither (db_session.lua).                 *)
THEOREM AttemptOnce ==
  ASSUME NEW CONSTANT Trees, TreesSorted(Trees), TypesKeepOut
  PROVE  Spec => []OneAttempt
<1>1. IInv(Trees) => OneAttempt
  BY DEF IInv, Server
<1> QED BY <1>1, Invariant, PTL

(* The tree, the table and the rounds keep the promise of Agenda: callbacks *)
(* run in order, none before its second, and a round runs those that were  *)
(* due when it began.                                                      *)
THEOREM AgendaKept ==
  ASSUME NEW CONSTANT Trees, TreesSorted(Trees), TypesKeepOut
  PROVE  Spec => ImplementsAgenda
<1>1. Init => Promise!Init
  BY InitIInv
<1>2. IInv(Trees) /\ [Next]_vars => [Promise!Next]_(Promise!vars)
  <2> SUFFICES ASSUME IInv(Trees), [Next]_vars PROVE Promise!Next \/ UNCHANGED Promise!vars
    OBVIOUS
  <2>1. TickStep /\ TickInv(Trees)
    BY NextStep DEF IInv
  <2> QED BY <2>1, TickStepAgenda
<1> QED BY <1>1, <1>2, Invariant, PTL DEF Spec, ImplementsAgenda, Promise!Spec
=============================================================================
