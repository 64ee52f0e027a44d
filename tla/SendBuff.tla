------------------------------ MODULE SendBuff ------------------------------
(***************************************************************************)
(* send_buff of engine/net/buff.c: messages go in, each behind a header of *)
(* en bytes with the size of header and message, and come out as bytes.    *)
(***************************************************************************)
EXTENDS ByteRing

(* The least significant byte comes first; what does not fit is cut off.   *)
Header(size, en) == [i \in 1..en |-> (size \div Power(i - 1)) % Radix]
Encoded(m, en) == Header(Len(m) + en, en) \o m

(* send_buff_write refuses a message whose size has too many bytes, and    *)
(* one for which there is no space.                                        *)
Accepts(r, m, en) == /\ Len(m) < Power(en)
                     /\ Len(m) + en <= Space(r.read, r.write)

(* The first k cells from the write position on are in these parts. *)
Parts(r, k) == {Index(Forward(r.write, i)) : i \in 0..(k - 1)}

(* Parts the write looks at: those of its bytes, the one behind the header *)
(* even when the message is empty, and the one behind the message when it  *)
(* is not all in the part where it begins.                                 *)
Needed(r, n, en) ==
  LET rest == BufferSize - (Forward(r.write, en) % BufferSize)
  IN  Parts(r, n + en) \cup {Index(Forward(r.write, en))}
        \cup IF n > rest THEN {Index(Forward(r.write, n + en))} ELSE {}

\* the size of the message alone
Written_slip(r, m, en) ==
  Stored(Allocated(r, Needed(r, Len(m), en)), Header(Len(m), en) \o m)

Written(r, m, en) == Stored(Allocated(r, Needed(r, Len(m), en)), Encoded(m, en))

(* The pool has no memory for one of the parts: those before it stay       *)
(* allocated, and nothing was written as far as anyone reads.              *)
WriteFailures(r, m, en) ==
  {Allocated(r, Parts(r, k)) : k \in {j \in 0..(Len(m) + en) :
     LET i == Index(Forward(r.write, j))
     IN  i \in Needed(r, Len(m), en) \ Parts(r, j) /\ r.parts[i] = NULL}}

\* forgets that the read position may be in the part that is written to
Prepared_slip(r) == BufferSize - (r.read % BufferSize)

(* send_buff_prepare: the bytes to send next, all in one part. *)
Prepared(r) ==
  IF Part(r.read) # Part(r.write) /\ Index(r.read) = Index(r.write)
  THEN (r.write % BufferSize) - (r.read % BufferSize)
  ELSE BufferSize - (r.read % BufferSize)

(* send_buff_consume *)
Consumed(r, k) == Skipped(r, k)
=============================================================================
