------------------------------- MODULE SecTick -------------------------------
(***************************************************************************)
(* Callbacks of a later second: common/sec_tick.lua on top of the tick     *)
(* library (engine/lualib/lua_tick.c), its tree and the time driver        *)
(* (engine/tool/tdriver.c).  A tick is a key of the tree whose high part   *)
(* is its second and whose low part tells the ticks of a second apart;     *)
(* the callback is kept in a Lua table under the same number.  All of it   *)
(* runs on the one thread of a Lua server.                                 *)
(***************************************************************************)
EXTENDS SortedTree

CONSTANTS
  Span,         \* range of the low part of a tick, 2^32 in the code
  MsecPerSec,   \* 1000 in the code
  MaxTicks      \* bound: callbacks that wait at a time

ASSUME SecTickAssumption == {Span, MsecPerSec, MaxTicks} \subseteq Nat \ {0}

VARIABLES
  ticks,     \* [tree |-> tick_root, funs |-> the callbacks by tick]
  seconds,   \* UTC_pass_seconds
  msec,      \* sec_tick: milliseconds of the second that has begun
  left       \* callbacks that do_round still has to run

tickVars == <<ticks, seconds, msec, left>>

(* The table f with the entry v for x.                                     *)
Put(f, x, v) == [y \in DOMAIN f \cup {x} |-> IF y = x THEN v ELSE f[y]]

Without(f, x) == [y \in DOMAIN f \ {x} |-> f[y]]

Second(tick) == tick \div Span

(* lua_tick_reg: behind the last tick of that second.                      *)
NewTick(tree, second) ==
  LET before == TreeLt(tree, (second + 1) * Span)
      last   == TreeIndex(tree, before - 1)
  IN  IF before > 0 /\ last >= second * Span THEN last + 1 ELSE second * Span

(* Bounds: there is room for a callback, and the low part of the tick does *)
(* not run over.                                                           *)
Fits(ts, after) == /\ Cardinality(DOMAIN ts.funs) < MaxTicks
                   /\ Second(NewTick(ts.tree, seconds + after)) = seconds + after

(* sec_tick.reg and sec_tick.unreg                                         *)
Reg(ts, after, fun) ==
  LET tick == NewTick(ts.tree, seconds + after)
  IN  [tree |-> TreeInsert(ts.tree, tick), funs |-> Put(ts.funs, tick, fun)]

Unreg_slip(ts, tick) == [tree |-> TreeDelete(ts.tree, tick), funs |-> ts.funs]

Unreg(ts, tick) ==
  [tree |-> TreeDelete(ts.tree, tick), funs |-> Without(ts.funs, tick)]

(* The ticks a round runs: as many as are due when it begins, and each time *)
(* the first one.                                                          *)
Due(now) == TreeLt(ticks.tree, (now + 1) * Span)

First_slip == TreeIndex(ticks.tree, left - 1)

First == TreeIndex(ticks.tree, 0)

(* tdriver.update: the time that passed is split into seconds and a rest.  *)
(* The main loop begins a round in the update that completes a second.     *)
Update_slip(passed) ==
  LET now == seconds + (msec + passed) \div MsecPerSec
  IN  /\ left = 0
      /\ seconds' = now
      /\ msec' = (msec + passed) % MsecPerSec
      /\ left' = IF now = seconds + 1 THEN Due(now) ELSE 0
      /\ UNCHANGED ticks

Update(passed) ==
  LET now == seconds + (msec + passed) \div MsecPerSec
  IN  /\ left = 0
      /\ seconds' = now
      /\ msec' = (msec + passed) % MsecPerSec
      /\ left' = IF now > seconds THEN Due(now) ELSE 0
      /\ UNCHANGED ticks

(* One turn of do_round: the first tick is given up, then its callback     *)
(* runs and works on the ticks that remain.                                *)
Turn == left > 0 /\ left' = left - 1 /\ UNCHANGED <<seconds, msec>>

FirstFun == ticks.funs[First]
Remaining == Unreg(ticks, First)
==============================================================================
