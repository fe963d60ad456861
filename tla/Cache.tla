--------------------------------- MODULE Cache ---------------------------------
(***************************************************************************)
(* The data cache under src/src/mmu.rs: mmu::init, and the maintenance by  *)
(* range, line by line, while other threads and the display engine go on.  *)
(* The cache is external (cpu.rs only issues its CP15 operations): it      *)
(* allocates on reads, writes back, and evicts when it likes.              *)
(*                                                                         *)
(* A copy of a byte is 1 if it is the latest write to it, else 0.          *)
(***************************************************************************)
EXTENDS Naturals, FiniteSets

CONSTANTS
  LineSize,  \* CACHE_LINE_SIZE
  CacheLines,\* lines of memory
  MaxSize    \* the longest buffer a call is given

ASSUME CacheAssumption ==
  LineSize \in Nat \ {0} /\ CacheLines \in Nat \ {0} /\ MaxSize \in Nat

VARIABLES
  ram,      \* [bytes -> 0 or 1]
  copy,     \* [bytes -> 0 or 1]: the cache's copies, 0 for what it does not hold
  held,     \* the lines it holds
  dirty,    \* those of them that memory has not seen
  dcacheOn,
  bootStep, \* where init has got to
  range,    \* the maintenance call under way: [name, buffer, size]
  ptr,      \* of its loop
  quiet     \* the buffer's lines have not been accessed since the call began

cacheVars == <<ram, copy, held, dirty, dcacheOn, bootStep, range, ptr, quiet>>

MemLines == 0 .. CacheLines - 1
MemBytes == 0 .. LineSize * CacheLines - 1
LineOf(b) == b \div LineSize
NoRange == [name |-> "none", buffer |-> 0, size |-> 0]

\* Whatever ran before has left lines in the cache that mean nothing now.
CacheInit ==
  /\ ram = [b \in MemBytes |-> 1]
  /\ copy = [b \in MemBytes |-> 0]
  /\ held \in SUBSET MemLines /\ dirty \in SUBSET held
  /\ dcacheOn = FALSE /\ bootStep = "disabled"
  /\ range = NoRange /\ ptr = 0 /\ quiet = FALSE

\* The lines ls leave the cache.
Drops(ls) ==
  /\ held' = held \ ls /\ dirty' = dirty \ ls
  /\ copy' = [b \in MemBytes |-> IF LineOf(b) \in ls THEN 0 ELSE copy[b]]

-----------------------------------------------------------------------------
Boots(from, to) == bootStep = from /\ bootStep' = to

MutInvalidateBefore ==                              \* only done afterwards
  /\ Boots("disabled", "invalidated") /\ UNCHANGED <<copy, held, dirty>>
  /\ UNCHANGED <<ram, dcacheOn, range, ptr, quiet>>

\* init, after the caches are off and the page table is written: invalidate all.
InvalidateBefore ==
  /\ Boots("disabled", "invalidated")
  /\ Drops(MemLines)
  /\ UNCHANGED <<ram, dcacheOn, range, ptr, quiet>>

\* The MMU and the caches on.
EnableDcache ==
  /\ Boots("invalidated", "enabled") /\ dcacheOn' = TRUE
  /\ UNCHANGED <<ram, copy, held, dirty, range, ptr, quiet>>

\* The last invalidation: what was written since the cache came on is lost.
InvalidateAfter ==
  /\ Boots("enabled", "done")
  /\ Drops(MemLines)
  /\ UNCHANGED <<ram, dcacheOn, range, ptr, quiet>>

-----------------------------------------------------------------------------
MutFirstLine(buffer) == buffer                      \* not aligned

FirstLine(buffer) == LineOf(buffer) * LineSize

\* clean_dcache, invalidate_dcache, clean_invalidate_dcache.
RangeCall ==
  /\ bootStep = "done" /\ range = NoRange
  /\ \E name \in {"clean", "invalidate", "clean_invalidate"}, b \in MemBytes, n \in 0 .. MaxSize :
       /\ b + n <= LineSize * CacheLines
       /\ range' = [name |-> name, buffer |-> b, size |-> n]
       /\ ptr' = FirstLine(b)
  /\ quiet' = TRUE
  /\ UNCHANGED <<ram, copy, held, dirty, dcacheOn, bootStep>>

\* A line is written back.
Cleaned(l) ==
  IF l \in dirty THEN [b \in MemBytes |-> IF LineOf(b) = l THEN copy[b] ELSE ram[b]] ELSE ram

MutAnotherLine == ptr <= range.buffer + range.size

AnotherLine == ptr < range.buffer + range.size

RangeLine ==
  /\ range # NoRange /\ AnotherLine /\ ptr' = ptr + LineSize
  /\ LET l == LineOf(ptr)
     IN  /\ ram' = IF range.name = "invalidate" THEN ram ELSE Cleaned(l)
         /\ IF range.name = "clean" THEN dirty' = dirty \ {l} /\ UNCHANGED <<copy, held>>
            ELSE Drops({l})
  /\ UNCHANGED <<dcacheOn, bootStep, range, quiet>>

RangeDone ==
  /\ range # NoRange /\ ~AnotherLine
  /\ range' = NoRange /\ ptr' = 0 /\ quiet' = FALSE
  /\ UNCHANGED <<ram, copy, held, dirty, dcacheOn, bootStep>>

-----------------------------------------------------------------------------
\* The lines that a byte of the buffer lies in.
Touches(k) == {LineOf(b) : b \in k.buffer .. k.buffer + k.size - 1}

Accesses(l) == quiet' = (quiet /\ l \notin Touches(range))

CpuRead(l) ==
  /\ dcacheOn /\ l \notin held /\ Accesses(l)
  /\ held' = held \cup {l}
  /\ copy' = [b \in MemBytes |-> IF LineOf(b) = l THEN ram[b] ELSE copy[b]]
  /\ UNCHANGED <<ram, dirty, dcacheOn, bootStep, range, ptr>>

CpuWrite(b) ==
  LET l == LineOf(b)
  IN  /\ Accesses(l)
      /\ IF dcacheOn /\ l \in held
         THEN /\ copy' = [copy EXCEPT ![b] = 1] /\ ram' = [ram EXCEPT ![b] = 0]
              /\ dirty' = dirty \cup {l}
         ELSE ram' = [ram EXCEPT ![b] = 1] /\ UNCHANGED <<copy, dirty>>
      /\ UNCHANGED <<held, dcacheOn, bootStep, range, ptr>>

Evict(l) ==
  /\ dcacheOn /\ l \in held
  /\ ram' = Cleaned(l) /\ Drops({l})
  /\ UNCHANGED <<dcacheOn, bootStep, range, ptr, quiet>>

CacheStep ==
  \/ InvalidateBefore \/ EnableDcache \/ InvalidateAfter
  \/ RangeCall \/ RangeLine \/ RangeDone
  \/ (\E l \in MemLines : CpuRead(l) \/ Evict(l)) \/ \E b \in MemBytes : CpuWrite(b)

-----------------------------------------------------------------------------
\* Only a cached line is dirty, and a call's loop stays in memory.
CacheTypeOK ==
  /\ ram \in [MemBytes -> {0, 1}] /\ copy \in [MemBytes -> {0, 1}]
  /\ dirty \subseteq held /\ held \subseteq MemLines
  /\ ptr \in 0 .. LineSize * CacheLines

Latest(b) == ram[b] = 1 \/ copy[b] = 1

\* The latest write to a byte is lost only to an invalidation that was asked for:
\* of a line that its buffer touches, or the last step of init.  Cleaning loses
\* nothing, and no line from before init is ever written back.
LossesAsked ==
  [][\A b \in MemBytes : (Latest(b) /\ ~Latest(b)') =>
       \/ bootStep = "enabled" /\ bootStep' = "done"
       \/ range.name = "invalidate" /\ LineOf(b) \in Touches(range) \cup {LineOf(range.buffer)}]_cacheVars

\* After a clean, memory has the buffer's latest bytes, for the display engine to
\* read; after an invalidation, no line of it is cached, for the CPU to read what
\* memory has: from wherever the buffer starts, to wherever it ends.
RangeIsDone ==
  [][(range # NoRange /\ range' = NoRange /\ quiet) =>
       \A l \in Touches(range) :
         IF range.name = "clean" THEN l \notin dirty ELSE l \notin held]_cacheVars
=============================================================================
