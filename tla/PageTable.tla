------------------------------- MODULE PageTable -------------------------------
(***************************************************************************)
(* The level 1 page table of src/src/mmu.rs: init fills it from a list of  *)
(* descriptors, a later one over an earlier one.                           *)
(***************************************************************************)
EXTENDS Naturals, Sequences

CONSTANTS
  SectionSize,  \* 1 MB
  Sections,     \* PAGE_TABLE_ENTRIES
  MaxDescs      \* bound: descriptors given to init

ASSUME PageTableAssumption ==
  SectionSize \in Nat \ {0} /\ Sections \in Nat \ {0} /\ MaxDescs \in Nat

VARIABLES
  table,   \* [sections -> [paddr, attr]], the section's physical one
  descs,   \* what init is given: [vaddr_start, vaddr_end, paddr_start, attr]
  filled   \* how many of them are in the table

pageVars == <<table, descs, filled>>

Invalid == [paddr |-> 0, attr |-> "fault"]
SectionOf(a) == a \div SectionSize

\* As lib.rs:39 gives them: from the first byte of a section to the last of one.
Descs ==
  {d \in [vaddr_start : {s * SectionSize : s \in 0 .. Sections - 1},
          vaddr_end : {(s + 1) * SectionSize - 1 : s \in 0 .. Sections - 1},
          paddr_start : {0, SectionSize}, attr : {"RW_CB", "RW_NCNB"}] :
     d.vaddr_start <= d.vaddr_end}

PageTableInit ==
  /\ table = [s \in 0 .. Sections - 1 |-> Invalid]
  /\ filled = 0
  /\ \E n \in 0 .. MaxDescs : descs \in [1 .. n -> Descs]

MutSetMapping(d) ==                                 \* the last section left out
  table' = [s \in DOMAIN table |->
    IF SectionOf(d.vaddr_start) <= s /\ s < SectionOf(d.vaddr_end)
    THEN [paddr |-> SectionOf(d.paddr_start) + s - SectionOf(d.vaddr_start), attr |-> d.attr]
    ELSE table[s]]

\* set_mapping: all sections from the start's to the end's.
SetMapping(d) ==
  table' = [s \in DOMAIN table |->
    IF SectionOf(d.vaddr_start) <= s /\ s <= SectionOf(d.vaddr_end)
    THEN [paddr |-> SectionOf(d.paddr_start) + s - SectionOf(d.vaddr_start), attr |-> d.attr]
    ELSE table[s]]

SetNextMapping ==
  /\ filled < Len(descs) /\ filled' = filled + 1
  /\ SetMapping(descs[filled + 1]) /\ UNCHANGED descs

-----------------------------------------------------------------------------
\* The descriptors that hold a virtual address.
Over(a) == {i \in 1 .. filled : descs[i].vaddr_start <= a /\ a <= descs[i].vaddr_end}

\* Every address goes where the last descriptor that holds it says, byte for byte
\* and with its attributes; the others fault (mmu.rs:114, "later entries overwrite
\* earlier ones").
MapsLikeLast ==
  \A a \in 0 .. SectionSize * Sections - 1 :
    LET entry == table[SectionOf(a)]
    IN  IF Over(a) = {} THEN entry = Invalid
        ELSE LET d == descs[CHOOSE i \in Over(a) : \A j \in Over(a) : j <= i]
             IN  /\ entry.paddr * SectionSize + (a % SectionSize)
                      = d.paddr_start + (a - d.vaddr_start)
                 /\ entry.attr = d.attr
=============================================================================
