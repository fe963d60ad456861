------------------------------- MODULE SpiFlash -------------------------------
(***************************************************************************)
(* The NOR flash driver of src/src/spi_flash.rs over the chip it drives.   *)
(* A transaction of the SPI driver is one step; it may fail with the chip  *)
(* having taken the command or not.  The chip is external: it takes an     *)
(* erase or a program only with its write enable latch set and no earlier  *)
(* one under way, wraps a program within its page, programs only ones to   *)
(* zeros, and in power-down answers nothing.                               *)
(***************************************************************************)
EXTENDS Naturals, FiniteSets

CONSTANTS
  PageSize,    \* 256
  Pages,       \* pages of the chip
  MaxFaults    \* bound: failing transactions

ASSUME FlashAssumption == PageSize \in Nat \ {0} /\ Pages \in Nat \ {0} /\ MaxFaults \in Nat

Addresses == 0 .. PageSize * Pages - 1
Page(a) == a \div PageSize

\* A cell is erased, or holds a byte of the latest write, or something else.
Cells == {"erased", "new", "other"}

VARIABLES
  mem,       \* the chip's array
  wel, busy, asleep,
  flashCall, \* the driver call: [name, addr, len]
  flashAt,   \* "idle", "enable", "command" or "wait"
  offset,    \* write: bytes programmed
  outcome,   \* of the last call: "ok" or "error"
  before,    \* the array when the call began
  faults,
  doubtful   \* a transaction has failed: the chip may be in any state

flashVars == <<mem, wel, busy, asleep, flashCall, flashAt, offset, outcome, before, faults, doubtful>>

NoFlashCall == [name |-> "none", addr |-> 0, len |-> 0]

FlashInit ==
  /\ mem \in [Addresses -> {"erased"}]
  /\ wel = FALSE /\ busy = FALSE /\ asleep = FALSE
  /\ flashCall = NoFlashCall /\ flashAt = "idle" /\ offset = 0
  /\ outcome = "ok" /\ before = mem /\ faults = 0 /\ doubtful = FALSE

-----------------------------------------------------------------------------
\* page_program takes at most a page, within the page (spi_flash.rs:196).
FlashCalls ==
  {[name |-> "write", addr |-> a, len |-> n] :
     a \in Addresses, n \in 1 .. PageSize * Pages}
  \cup {[name |-> "page_program", addr |-> a, len |-> n] : a \in Addresses, n \in 1 .. PageSize}
  \cup {[name |-> "erase", addr |-> a, len |-> PageSize] : a \in Addresses}
  \cup {[name |-> "chip_erase", addr |-> 0, len |-> PageSize * Pages]}

\* The caller stays inside the chip, and page_program's inside the page.
Allowed(k) ==
  /\ k.name # "erase" => k.addr + k.len <= PageSize * Pages
  /\ k.name = "page_program" => (k.addr % PageSize) + k.len <= PageSize

FlashBegin ==
  /\ flashAt = "idle"
  /\ \E k \in FlashCalls : Allowed(k) /\ flashCall' = k
  /\ flashAt' = "enable" /\ offset' = 0 /\ before' = mem
  /\ UNCHANGED <<mem, wel, busy, asleep, outcome, faults, doubtful>>

\* The chip takes a command at all.
Listens == ~busy /\ ~asleep

\* A transaction fails, `to` saying what the chip made of it, and `?` ends the call.
Fails(to) ==
  /\ faults < MaxFaults /\ faults' = faults + 1
  /\ flashAt' = "idle" /\ flashCall' = NoFlashCall /\ offset' = 0
  /\ outcome' = "error" /\ doubtful' = TRUE /\ before' = mem /\ to

\* write_enable.
WriteEnable ==
  /\ flashAt = "enable"
  /\ \/ /\ wel' = (wel \/ Listens) /\ flashAt' = "command"
        /\ UNCHANGED <<mem, busy, asleep, flashCall, offset, outcome, before, faults, doubtful>>
     \/ Fails(wel' \in {wel, wel \/ Listens} /\ UNCHANGED <<mem, busy, asleep>>)

MutPieceLength == IF flashCall.len - offset <= PageSize THEN flashCall.len - offset ELSE PageSize

\* What is programmed next: to the end of the page, or of the data.
PieceLength ==
  LET remain == PageSize - ((flashCall.addr + offset) % PageSize)
  IN  IF flashCall.len - offset <= remain THEN flashCall.len - offset ELSE remain

MutMoreToWrite == flashCall.name = "write" /\ offset + PieceLength <= flashCall.len

\* write goes on with the next page.
MoreToWrite == flashCall.name = "write" /\ offset + PieceLength < flashCall.len

Programs == flashCall.name \in {"write", "page_program"}

\* The cells the command is about: a program counts up and wraps in its page.
Touched ==
  IF Programs
  THEN LET a == flashCall.addr + offset
       IN  {(Page(a) * PageSize) + ((a + i) % PageSize) : i \in 0 .. PieceLength - 1}
  ELSE {a \in Addresses : flashCall.name = "chip_erase" \/ Page(a) = Page(flashCall.addr)}

Becomes(a) ==
  IF ~Programs THEN "erased" ELSE IF mem[a] = "erased" THEN "new" ELSE "other"

ChipTakes ==
  IF Listens /\ wel
  THEN /\ mem' = [a \in Addresses |-> IF a \in Touched THEN Becomes(a) ELSE mem[a]]
       /\ wel' = FALSE /\ busy' = TRUE
  ELSE UNCHANGED <<mem, wel, busy>>

MutCommand ==                                       \* the next page, without waiting
  /\ flashAt = "command" /\ ChipTakes
  /\ IF Programs /\ offset + PieceLength < flashCall.len
     THEN flashAt' = "enable" /\ offset' = offset + PieceLength
     ELSE flashAt' = "wait" /\ UNCHANGED offset
  /\ UNCHANGED <<asleep, flashCall, outcome, before, faults, doubtful>>

MutCommandNoWait ==                                 \* an erase is left to itself
  /\ flashAt = "command" /\ ChipTakes
  /\ flashAt' = IF Programs THEN "wait" ELSE "idle"
  /\ flashCall' = IF Programs THEN flashCall ELSE NoFlashCall
  /\ UNCHANGED <<asleep, offset, outcome, before, faults, doubtful>>

\* The erase or program command with its address and data, in one transaction.
Command ==
  /\ flashAt = "command"
  /\ \/ /\ ChipTakes /\ flashAt' = "wait"
        /\ UNCHANGED <<asleep, flashCall, offset, outcome, before, faults, doubtful>>
     \/ Fails((ChipTakes \/ UNCHANGED <<mem, wel, busy>>) /\ UNCHANGED asleep)

\* wait_busy polls until the status says that the chip is not busy; a chip in
\* power-down reads as busy for ever.
WaitBusy ==
  /\ flashAt = "wait"
  /\ \/ /\ Listens
        /\ IF MoreToWrite
           THEN /\ offset' = offset + PieceLength /\ flashAt' = "enable"
                /\ UNCHANGED <<flashCall, outcome, before>>
           ELSE /\ flashAt' = "idle" /\ flashCall' = NoFlashCall /\ offset' = 0
                /\ outcome' = "ok" /\ before' = mem
        /\ UNCHANGED <<mem, wel, busy, asleep, faults, doubtful>>
     \/ Fails(UNCHANGED <<mem, wel, busy, asleep>>)

\* power_down and release_power_down wait for nothing.
PowerDown ==
  /\ flashAt = "idle" /\ asleep' = (asleep \/ ~busy)
  /\ UNCHANGED <<mem, wel, busy, flashCall, flashAt, offset, outcome, before, faults, doubtful>>

ReleasePowerDown ==
  /\ flashAt = "idle" /\ asleep' = FALSE
  /\ UNCHANGED <<mem, wel, busy, flashCall, flashAt, offset, outcome, before, faults, doubtful>>

ChipDone ==
  /\ busy /\ busy' = FALSE
  /\ UNCHANGED <<mem, wel, asleep, flashCall, flashAt, offset, outcome, before, faults, doubtful>>

FlashStep == FlashBegin \/ WriteEnable \/ Command \/ WaitBusy \/ PowerDown
             \/ ReleasePowerDown \/ ChipDone

-----------------------------------------------------------------------------
FlashTypeOK ==
  /\ mem \in [Addresses -> Cells] /\ before \in [Addresses -> Cells]
  /\ offset \in 0 .. PageSize * Pages - 1
  /\ flashAt \in {"idle", "enable", "command", "wait"}

Span(k) == IF k.name \in {"write", "page_program"} THEN k.addr .. k.addr + k.len - 1
           ELSE {a \in Addresses : k.name = "chip_erase" \/ Page(a) = Page(k.addr)}

\* A call that returns Ok, with no failed transaction before it, has changed all
\* of its span and nothing else: over erased cells a write has put its data, from
\* wherever it starts and over however many pages, and an erase has erased.
SpanIsDone ==
  [][(flashAt = "wait" /\ flashAt' = "idle" /\ outcome' = "ok" /\ ~doubtful) =>
       \A a \in Addresses :
         mem[a] = IF a \notin Span(flashCall) THEN before[a]
                  ELSE IF ~Programs THEN "erased"
                  ELSE IF before[a] = "erased" THEN "new" ELSE "other"]_flashVars

\* The driver never sends an erase or a program that the chip has to ignore, as
\* long as the chip is awake and no transaction has failed.
CommandIsTaken ==
  (flashAt = "command" /\ ~asleep /\ ~doubtful) => wel /\ ~busy

\* With no failed transaction, the chip is at rest whenever no call is under way:
\* it can be powered down or read at once.
ReadyAtRest == (flashAt = "idle" /\ ~doubtful) => ~busy /\ ~wel

\* The chip is given what it takes, and left at rest (spi_flash.rs:68-241).
FlashKept == CommandIsTaken /\ ReadyAtRest
=============================================================================
