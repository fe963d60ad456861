-------------------------------- MODULE Access --------------------------------
(***************************************************************************)
(* The memory-mapped registers of the chip as the drivers under src/src    *)
(* use them.  A driver call is the sequence of its volatile accesses; the  *)
(* machine that runs several calls against one another is Registers.       *)
(*                                                                         *)
(* A word is named by what it is, its port and its index.  A field is      *)
(* named by the bit it starts at, or by the pin or vector it belongs to.   *)
(***************************************************************************)
EXTENDS Naturals, Sequences

\* The values of fields: of one, and those of fs with others where fs says nothing.
Field(f, v) == [x \in {f} |-> v]
Overlay(fs, others) ==
  [f \in DOMAIN fs \cup DOMAIN others |-> IF f \in DOMAIN fs THEN fs[f] ELSE others[f]]

Word(kind, port, idx) == [kind |-> kind, port |-> port, idx |-> idx]

\* rd (gpio.rs:120): the word is read into the caller's copy.
Rd(w) == [op |-> "rd", word |-> w, to |-> <<>>]

\* wr (gpio.rs:125): the fields of the copy named in to are changed, and the
\* copy is written.
Wr(w, to) == [op |-> "wr", word |-> w, to |-> to]

\* The same, unless field f of the copy is v already.
WrUnless(w, f, v, to) == [op |-> "unless", word |-> w, to |-> to, f |-> f, v |-> v]

\* wr of a value that was not read before; the fields not in to become 0.
Put(w, to) == [op |-> "put", word |-> w, to |-> to]

\* wr to a register whose ones clear: the copy, with the bits of to set.
Clear(w, to) == [op |-> "clear", word |-> w, to |-> to]

\* A bit is read for its value; a later Flip writes the opposite of it.
Look(w, to) == [op |-> "look", word |-> w, to |-> to]
Flip(w, to) == [op |-> "flip", word |-> w, to |-> to]

\* A call on the pin, vector, gate bit or channel `of`.
Call(name, of, does) == [name |-> name, of |-> of, does |-> does]

\* The read-modify-write of one field.
Modify(w, f, v) == <<Rd(w), Wr(w, Field(f, v))>>
=============================================================================
