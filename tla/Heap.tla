--------------------------------- MODULE Heap ---------------------------------
(***************************************************************************)
(* The heap of src/src/allocator.rs.  Addresses and sizes are in words of  *)
(* four bytes, a usize of the target: ALIGN and FREE_HDR are two words,    *)
(* ALLOC_HDR is one.  Each call masks IRQs and is one step; realloc is an  *)
(* alloc, a copy and a dealloc.                                            *)
(***************************************************************************)
EXTENDS Naturals, Sequences

CONSTANTS
  HeapStart, HeapWords,   \* the arguments of init_heap
  Sizes                   \* the sizes asked for, for layouts aligned to at most ALIGN

ALIGN == 2
FREE_HDR == 2
ALLOC_HDR == 1

ASSUME HeapAssumption ==
  /\ HeapStart \in Nat \ {0} /\ HeapStart % ALIGN = 0
  /\ HeapWords \in Nat /\ HeapWords % ALIGN = 0 /\ HeapWords >= FREE_HDR + 4
  /\ Sizes \subseteq Nat \ {0}

VARIABLES
  free,   \* FREE_LIST in list order: [at, size]
  live    \* the blocks handed out and not freed: [at, size], the header's
          \* block; [ptr, asked], the payload; and below, the word under ptr

heapVars == <<free, live>>

HeapInit ==
  /\ free = <<[at |-> HeapStart, size |-> HeapWords]>>
  /\ live = {}

Up(a, align) == ((a + align - 1) \div align) * align

\* alloc: the header, and room to align whatever alloc_inner returns.  In bytes
\* size + ALLOC_HDR + align - 1, rounded up to ALIGN.
Needed(size) == Up(size + ALLOC_HDR + ALIGN, ALIGN)

MutFits(i, n) == free[i].size + ALIGN >= n          \* a size misjudged

Fits(i, n) == free[i].size >= n

\* The first block of the list that is large enough.
First(n) ==
  CHOOSE i \in DOMAIN free : Fits(i, n) /\ \A j \in 1 .. i - 1 : ~Fits(j, n)

Without(s, i) == SubSeq(s, 1, i - 1) \o SubSeq(s, i + 1, Len(s))

MutCarve(i, n) ==                                   \* the remainder keeps its place
  IF free[i].size - n >= FREE_HDR + ALIGN
  THEN [taken |-> n, list |-> [free EXCEPT ![i].size = @ - n]]
  ELSE [taken |-> free[i].size, list |-> Without(free, i)]

\* alloc_inner from block i: split off the remainder if it can hold a block.
Carve(i, n) ==
  IF free[i].size - n >= FREE_HDR + ALIGN
  THEN [taken |-> n,
        list  |-> [free EXCEPT ![i] = [at |-> @.at + n, size |-> @.size - n]]]
  ELSE [taken |-> free[i].size, list |-> Without(free, i)]

\* FreeBlock.next of block i, the second word of the block.
NextOf(i) == IF i = Len(free) THEN 0 ELSE free[i + 1].at

\* What alloc returns out of block i.
Handed(size, i) ==
  LET block == free[i].at
  IN  [at |-> block, size |-> Carve(i, Needed(size)).taken,
       ptr |-> Up(block + ALLOC_HDR, ALIGN), asked |-> size,
       below |-> NextOf(i)]

\* dealloc takes the word below the payload for the header, and inserts a block
\* of that size there, by address.  A following block that touches it is merged;
\* the merge with a preceding one looks at the block itself and does nothing.
\* In the list s.
Insert(s, b) ==
  LET older == {i \in DOMAIN s : \A j \in 1 .. i : s[j].at < b.at}
      n     == IF older = {} THEN 0 ELSE CHOOSE i \in older : \A j \in older : j <= i
      rest  == SubSeq(s, n + 1, Len(s))
  IN  SubSeq(s, 1, n) \o
      (IF rest # <<>> /\ b.at + b.size = rest[1].at
       THEN <<[b EXCEPT !.size = @ + rest[1].size]>> \o Tail(rest)
       ELSE <<b>> \o rest)

\* The block free_inner sees under a payload.
Freed(a) == [at |-> a.ptr - ALLOC_HDR, size |-> a.below]

Alloc ==
  \E n \in Sizes :
    /\ \E i \in DOMAIN free : Fits(i, Needed(n))
    /\ live' = live \cup {Handed(n, First(Needed(n)))}
    /\ free' = Carve(First(Needed(n)), Needed(n)).list

\* No block is large enough: null.
AllocFails ==
  /\ \E n \in Sizes : \A i \in DOMAIN free : ~Fits(i, Needed(n))
  /\ UNCHANGED heapVars

MutDealloc ==                                       \* freed but still in use
  \E a \in live : live' = live /\ free' = Insert(free, [at |-> a.ptr, size |-> a.asked])

Dealloc ==
  \E a \in live : live' = live \ {a} /\ free' = Insert(free, Freed(a))

Realloc ==
  \E a \in live, n \in Sizes :
    /\ \E i \in DOMAIN free : Fits(i, Needed(n))
    /\ live' = (live \ {a}) \cup {Handed(n, First(Needed(n)))}
    /\ free' = Insert(Carve(First(Needed(n)), Needed(n)).list, Freed(a))

HeapStep == Alloc \/ AllocFails \/ Dealloc \/ Realloc

-----------------------------------------------------------------------------
Region(at, size) == at .. at + size - 1

\* The free list and the handed-out blocks lie in the heap.
HeapTypeOK ==
  /\ \A i \in DOMAIN free :
       Region(free[i].at, free[i].size) \subseteq Region(HeapStart, HeapWords)
  /\ \A a \in live : Region(a.at, a.size) \subseteq Region(HeapStart, HeapWords)

\* Whatever is allocated and freed in whatever order: a payload lies inside its
\* own block, aligned, and no other block, free or handed out, overlaps it
\* (allocator.rs:164, "we over-allocate to guarantee alignment").
PayloadsAreOwn ==
  \A a \in live :
    /\ a.ptr % ALIGN = 0
    /\ Region(a.ptr, a.asked) \subseteq Region(a.at, a.size)
    /\ \A b \in live \ {a} : Region(a.at, a.size) \cap Region(b.at, b.size) = {}
    /\ \A i \in DOMAIN free :
         Region(a.ptr, a.asked) \cap Region(free[i].at, free[i].size) = {}

\* The list stays a list: sorted by address, and no node's header lies in a
\* payload, where its owner would write over it (allocator.rs:113).
NodesSurvive ==
  /\ \A i, j \in DOMAIN free : i < j => free[i].at < free[j].at
  /\ \A a \in live, i \in DOMAIN free :
       Region(a.ptr, a.asked) \cap Region(free[i].at, FREE_HDR) = {}

\* What is freed can be allocated again: with nothing handed out, the whole
\* heap is free (allocator.rs:104, "Free a user pointer previously returned").
FreedComesBack ==
  live = {} => \E i \in DOMAIN free : free[i].size = HeapWords

\* Payloads and list nodes stay apart (allocator.rs:75-140).
HeapKept == PayloadsAreOwn /\ NodesSurvive

HeapSpec == HeapInit /\ [][HeapStep]_heapVars
=============================================================================
