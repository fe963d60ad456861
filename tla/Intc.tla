--------------------------------- MODULE Intc ---------------------------------
(***************************************************************************)
(* The interrupt controller of src/src/interrupt.rs.  Its words hold the   *)
(* vectors of a group of 32; the handler table is memory of its own, one   *)
(* entry for each vector, where 0 is default_handler.                      *)
(***************************************************************************)
EXTENDS Access

GROUP_NUM == 32
VectorGroup(v) == v \div GROUP_NUM

MaskWord(v) == Word("mask", "", VectorGroup(v))
EnWord(v) == Word("en", "", VectorGroup(v))
PendWord(v) == Word("pend", "", VectorGroup(v))
IsrEntry(v) == Word("isr", "", v)

Mask(v) == Modify(MaskWord(v), v, 1)
Unmask(v) == Modify(MaskWord(v), v, 0)

MutInstall(v, handler) ==                           \* enabled before it has a handler
  Modify(PendWord(v), v, 0) \o Modify(EnWord(v), v, 1) \o <<Put(IsrEntry(v), Field(0, handler))>>

Install(v, handler) ==
  <<Put(IsrEntry(v), Field(0, handler))>> \o Modify(PendWord(v), v, 0) \o Modify(EnWord(v), v, 1)

\* dispatch around a handler that does what `handler` does: the entry is looked
\* up, called, and the vector's pending bit cleared.
Dispatch(v, handler) ==
  <<Look(IsrEntry(v), Field(0, 0))>> \o handler \o Modify(PendWord(v), v, 0)

IntcCalls(vectors) ==
  UNION {
    {Call("mask", v, Mask(v)),
     Call("unmask", v, Unmask(v)),
     Call("install", v, Install(v, 1))} : v \in vectors}
=============================================================================
