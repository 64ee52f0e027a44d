------------------------------ MODULE LuaValue ------------------------------
(***************************************************************************)
(* Values of Lua scripts, as far as messages between them tell them apart: *)
(* a type and a number, which is the integer, the size of a string, or the *)
(* id of a table or of an object.                                          *)
(***************************************************************************)

Value(type, v) == [type |-> type, v |-> v]
Nil == Value("nil", 0)
=============================================================================
