------------------------------ MODULE Serialize ------------------------------
(***************************************************************************)
(* Packing of Lua values into a message and back (engine/lualib/           *)
(* serialize.c), as an algorithm.  An assignment of entries to table ids   *)
(* is the heap the values live in, so that tables may be shared and        *)
(* contain themselves.  A message is a sequence of cells, one for an       *)
(* operation code, a number or a character; the width of a number is in    *)
(* the code before it.  Running out of memory is left out.  The operators  *)
(* are recursive, so nothing is proved about this module.                  *)
(***************************************************************************)
EXTENDS LuaValue, Integers, Sequences, FiniteSets, SequencesExt

CONSTANTS
  B8, B16, B32, B64,  \* signed integers of each width are in -B..B-1
  S8, S16             \* string sizes below are packed in the shorter forms

ASSUME /\ {B8, B16, B32, B64, S8, S16} \subseteq Nat
       /\ 0 < B8 /\ B8 < B16 /\ B16 < B32 /\ B32 < B64
       /\ 0 < S8 /\ S8 < S16

(* en_ser *)
Op == [none |-> 0, nil |-> 1, int8 |-> 2, int16 |-> 3, int32 |-> 4, int64 |-> 5, double |-> 6,
       string8 |-> 7, string16 |-> 8, string32 |-> 9, false |-> 10, true |-> 11,
       table_begin |-> 12, table_end |-> 13, table_ref |-> 14,
       user_data |-> 15, lightuser_data |-> 16]

(* A C cast to the signed integer of that width.                           *)
Cast(v, b) == ((v + b) % (2 * b)) - b

(***************************************************************************)
(* serialize_pack: what is written and the tables met so far, in order.    *)
(***************************************************************************)
Put(st, cells) == [st EXCEPT !.out = @ \o cells]

PackInteger_slip(v) ==
  LET abs == IF v < 0 THEN Cast(-v, B64) ELSE v
  IN  CASE abs < B8                 -> <<Op.int8, Cast(v, B8)>>
        [] abs >= B8 /\ abs < B16   -> <<Op.int16, Cast(v, B16)>>
        [] abs >= B16 /\ abs <= B32 -> <<Op.int32, Cast(v, B32)>>
        [] OTHER                    -> <<Op.int64, v>>

(* The absolute value of the smallest integer is itself, below all others. *)
PackInteger(v) ==
  LET abs == IF v < 0 THEN Cast(-v, B64) ELSE v
  IN  CASE abs < B8                -> <<Op.int8, Cast(v, B8)>>
        [] abs >= B8 /\ abs < B16  -> <<Op.int16, Cast(v, B16)>>
        [] abs >= B16 /\ abs < B32 -> <<Op.int32, Cast(v, B32)>>
        [] OTHER                   -> <<Op.int64, v>>

(* A long string is written behind a size of eight bytes, which is read    *)
(* back as one of four.                                                    *)
PackString(size) ==
  LET chars == [i \in 1..size |-> 0]
  IN  CASE size < S8                  -> <<Op.string8, size>> \o chars
        [] size >= S8 /\ size < S16   -> <<Op.string16, size>> \o chars
        [] OTHER                      -> <<Op.string32, size, 0>> \o chars

(* What is neither a table nor a value of its own becomes nil, and so do   *)
(* objects unless the packer allows them (USER_DATA_FLAG).                 *)
PackPlain(flag, v) ==
  CASE v.type = "int"     -> PackInteger(v.v)
    [] v.type = "double"  -> <<Op.double, v.v>>
    [] v.type = "string"  -> PackString(v.v)
    [] v.type = "boolean" -> IF v.v = 0 THEN <<Op.false>> ELSE <<Op.true>>
    [] v.type = "userdata" /\ flag      -> <<Op.user_data, v.v>>
    [] v.type = "lightuserdata" /\ flag -> <<Op.lightuser_data, v.v>>
    [] OTHER              -> <<Op.nil>>

(* A table that was met before is written as a reference.                  *)
RECURSIVE PackObj(_, _, _, _)
PackObj(heap, flag, st, v) ==
  LET begun        == [Put(st, <<Op.table_begin>>) EXCEPT !.refs = Append(@, v.v)]
      Pair(s, kv)  == PackObj(heap, flag, PackObj(heap, flag, s, kv[1]), kv[2])
  IN  IF v.type # "table" THEN Put(st, PackPlain(flag, v))
      ELSE IF Contains(st.refs, v.v)
           THEN Put(st, <<Op.table_ref, CHOOSE i \in DOMAIN st.refs : st.refs[i] = v.v>>)
           ELSE Put(FoldLeft(Pair, begun, heap[v.v]), <<Op.table_end>>)

Pack(heap, flag, values) ==
  FoldLeft(LAMBDA st, v : PackObj(heap, flag, st, v), [out |-> <<>>, refs |-> <<>>], values).out

(***************************************************************************)
(* deserialize_unpack: the place in the message, the tables made so far,   *)
(* each a set of entries, whether there was an error, and what was read    *)
(* last: an operation code and, if it is one, a value.                     *)
(***************************************************************************)
Wrong(st) == [st EXCEPT !.error = TRUE]
Read(st, cells, v) == [st EXCEPT !.pos = @ + cells, !.value = v]

(* lua_rawset: an entry with nil is none.                                  *)
RawSet(table, key, v) == {kv \in table : kv[1] # key} \cup (IF v = Nil THEN {} ELSE {<<key, v>>})

(* What follows the code at st.pos: a number, unless the message ends, and *)
(* the characters that a size announces.                                   *)
UnpackPlain(data, st, code) ==
  LET left == Len(data) - st.pos
      num  == data[st.pos + 1]
  IN  CASE code = Op.nil   -> Read(st, 1, Nil)
        [] code = Op.false -> Read(st, 1, Value("boolean", 0))
        [] code = Op.true  -> Read(st, 1, Value("boolean", 1))
        [] OTHER ->
             IF left < 1 THEN Wrong(st)
             ELSE CASE code \in {Op.int8, Op.int16, Op.int32, Op.int64} -> Read(st, 2, Value("int", num))
                    [] code = Op.double         -> Read(st, 2, Value("double", num))
                    [] code = Op.user_data      -> Read(st, 2, Value("userdata", num))
                    [] code = Op.lightuser_data -> Read(st, 2, Value("lightuserdata", num))
                    [] code \in {Op.string8, Op.string16, Op.string32} ->
                         IF left < num + 1 THEN Wrong(st) ELSE Read(st, num + 2, Value("string", num))
                    [] code = Op.table_ref ->
                         IF num \in DOMAIN st.tables THEN Read(st, 2, Value("table", num)) ELSE Wrong(st)
                    [] OTHER -> Wrong(st)

RECURSIVE UnpackObj(_, _)
RECURSIVE UnpackPairs(_, _, _)
UnpackObj(data, st) ==
  IF st.error \/ st.pos > Len(data) THEN [st EXCEPT !.code = Op.none]
  ELSE LET code == data[st.pos]
           now  == [st EXCEPT !.code = code]
           new  == Len(st.tables) + 1
       IN  CASE code = Op.table_end   -> Read(now, 1, Nil)
             [] code = Op.table_begin ->
                  [UnpackPairs(data, [Read(now, 1, Nil) EXCEPT !.tables = Append(@, {})], new)
                     EXCEPT !.code = code, !.value = Value("table", new)]
             [] OTHER -> UnpackPlain(data, now, code)

(* The entries up to the end of the table.                                 *)
UnpackPairs(data, st, id) ==
  LET key == UnpackObj(data, st)
      val == UnpackObj(data, key)
  IN  IF key.error \/ key.code = Op.table_end THEN key
      ELSE IF key.code = Op.none \/ val.error \/ val.code \in {Op.none, Op.table_end} THEN Wrong(val)
      ELSE UnpackPairs(data, [val EXCEPT !.tables[id] = RawSet(@, key.value, val.value)], id)

(* Up to cnt values, all if it is negative; none when there was an error.  *)
RECURSIVE UnpackFrom(_, _, _, _)
UnpackFrom(data, st, cnt, values) ==
  LET next == UnpackObj(data, st)
  IN  IF st.pos > Len(data) \/ Len(values) = cnt THEN [values |-> values, tables |-> st.tables]
      ELSE IF next.error \/ next.code \in {Op.none, Op.table_end} THEN [values |-> <<>>, tables |-> <<>>]
      ELSE UnpackFrom(data, next, cnt, Append(values, next.value))

Unpack(data, cnt) ==
  UnpackFrom(data, [pos |-> 1, tables |-> <<>>, error |-> FALSE, code |-> Op.none, value |-> Nil],
             cnt, <<>>)

(***************************************************************************)
(* What was unpacked is what was packed: the values agree under a          *)
(* correspondence of the tables (0 for tables that were not reached) under *)
(* which the entries agree too.                                            *)
(***************************************************************************)
Intact(heap, values, result) ==
  \E m \in [DOMAIN heap -> 0..Len(result.tables)] :
    LET As(v) == IF v.type = "table" THEN Value("table", m[v.v])
                 ELSE IF v.type \in {"int", "double", "string", "boolean"} THEN v ELSE Nil
        Entries(t) == {<<As(kv[1]), As(kv[2])>> : kv \in {e \in ToSet(heap[t]) : As(e[2]) # Nil}}
    IN  /\ \A t, u \in DOMAIN heap : m[t] = m[u] /\ m[t] # 0 => t = u
        /\ [i \in DOMAIN values |-> As(values[i])] = result.values
        /\ \A t \in DOMAIN heap : m[t] # 0 => Entries(t) = result.tables[m[t]]
===============================================================================
