--------------------------------- MODULE Uart ---------------------------------
(***************************************************************************)
(* The polled UART of src/src/uart.rs.  DLAB turns the data register into  *)
(* the low half of the divisor and IER into the high half, so a thread     *)
(* that writes while another configures reaches the wrong register; and    *)
(* the free place a writer has seen may be gone when it puts its byte.     *)
(***************************************************************************)
EXTENDS Naturals

CONSTANTS
  UartUsers,  \* the threads
  TxDepth,    \* places of the transmit FIFO
  MaxWrite,   \* bound: bytes of a write
  Divisors,   \* APB_CLK / (baud * 16) for the rates asked for, which nobody checks
  Radix       \* 256: what a half of the divisor holds

ASSUME UartAssumption ==
  /\ TxDepth \in Nat \ {0} /\ MaxWrite \in Nat /\ Radix \in Nat \ {0, 1}
  /\ Divisors \subseteq Nat

VARIABLES
  solo,       \* the application lets one thread at a time into the driver
  dlab,       \* LCR.DLAB
  dll, dlh,   \* the halves of the divisor
  ier,        \* IER: the receiver's bit
  txLevel,    \* bytes in the FIFO
  userAt,     \* [UartUsers -> "out", or the next register access of its call]
  toWrite,    \* [UartUsers -> bytes of the write still to be put]
  divisor,    \* of the last configure
  rxAsked,    \* the receiver's interrupt has been asked for since
  lostByte    \* a byte has been put where it is not sent

uartVars == <<solo, dlab, dll, dlh, ier, txLevel, userAt, toWrite, divisor, rxAsked, lostByte>>

UartInit ==
  /\ solo \in BOOLEAN
  /\ dlab = FALSE /\ dll = 0 /\ dlh = 0 /\ divisor = 0 /\ ier = 0 /\ txLevel = 0
  /\ userAt = [t \in UartUsers |-> "out"] /\ toWrite = [t \in UartUsers |-> 0]
  /\ rxAsked = FALSE /\ lostByte = FALSE

UserMoves(t, from, to) ==
  /\ userAt[t] = from /\ userAt' = [userAt EXCEPT ![t] = to]
  /\ (solo /\ from = "out") => \A u \in UartUsers : userAt[u] = "out"

\* A write to the register that is the divisor's half while DLAB is set.
WriteData(v) ==
  IF dlab THEN dll' = v /\ lostByte' = TRUE /\ UNCHANGED txLevel
  ELSE /\ txLevel' = IF txLevel < TxDepth THEN txLevel + 1 ELSE txLevel
       /\ lostByte' = (lostByte \/ txLevel = TxDepth) /\ UNCHANGED dll

WriteIer(v) ==
  IF dlab THEN dlh' = v /\ UNCHANGED ier ELSE ier' = v /\ UNCHANGED dlh

-----------------------------------------------------------------------------
\* configure: interrupts off, the FIFO reset with what is in it, and no flow
\* control; a byte not yet sent is lost, as the caller has asked.
ConfigureBegin(t) ==
  /\ UserMoves(t, "out", "dlab-on") /\ WriteIer(0)
  /\ txLevel' = 0 /\ rxAsked' = FALSE /\ \E d \in Divisors : divisor' = d
  /\ UNCHANGED <<solo, dlab, dll, toWrite, lostByte>>

DlabOn(t) ==
  /\ UserMoves(t, "dlab-on", "dll") /\ dlab' = TRUE
  /\ UNCHANGED <<solo, dll, dlh, ier, txLevel, toWrite, divisor, rxAsked, lostByte>>

\* The low half, and then the high one; a UART with DLAB clear would send the first.
SetDll(t) ==
  /\ UserMoves(t, "dll", "dlh")
  /\ IF dlab THEN dll' = divisor % Radix /\ UNCHANGED <<txLevel, lostByte>>
     ELSE WriteData(divisor % Radix)
  /\ UNCHANGED <<solo, dlab, dlh, ier, toWrite, divisor, rxAsked>>

SetDlh(t) ==
  /\ UserMoves(t, "dlh", "dlab-off") /\ WriteIer((divisor \div Radix) % Radix)
  /\ UNCHANGED <<solo, dlab, dll, txLevel, toWrite, divisor, rxAsked, lostByte>>

MutDlabOff(t) ==                                    \* the word format alone, DLAB kept
  /\ UserMoves(t, "dlab-off", "out")
  /\ UNCHANGED <<solo, dlab, dll, dlh, ier, txLevel, toWrite, divisor, rxAsked, lostByte>>

\* The word format is written, and DLAB cleared with it.
DlabOff(t) ==
  /\ UserMoves(t, "dlab-off", "out") /\ dlab' = FALSE
  /\ UNCHANGED <<solo, dll, dlh, ier, txLevel, toWrite, divisor, rxAsked, lostByte>>

\* enable_rx_interrupt, read and write in a row, and disable_interrupts.
EnableRxInterrupt(t) ==
  /\ UserMoves(t, "out", "out") /\ WriteIer(1) /\ rxAsked' = TRUE
  /\ UNCHANGED <<solo, dlab, dll, txLevel, toWrite, divisor, lostByte>>

DisableInterrupts(t) ==
  /\ UserMoves(t, "out", "out") /\ WriteIer(0) /\ rxAsked' = FALSE
  /\ UNCHANGED <<solo, dlab, dll, txLevel, toWrite, divisor, lostByte>>

\* write and write_byte: for each byte a poll that sees a free place ...
WriteCall(t) ==
  /\ UserMoves(t, "out", "poll") /\ \E n \in 1 .. MaxWrite : toWrite' = [toWrite EXCEPT ![t] = n]
  /\ UNCHANGED <<solo, dlab, dll, dlh, ier, txLevel, divisor, rxAsked, lostByte>>

TxReady(t) ==
  /\ txLevel < TxDepth /\ UserMoves(t, "poll", "put")
  /\ UNCHANGED <<solo, dlab, dll, dlh, ier, txLevel, toWrite, divisor, rxAsked, lostByte>>

\* ... and the byte.
PutByte(t) ==
  /\ UserMoves(t, "put", IF toWrite[t] = 1 THEN "out" ELSE "poll")
  /\ toWrite' = [toWrite EXCEPT ![t] = @ - 1]
  /\ WriteData(1)
  /\ UNCHANGED <<solo, dlab, dlh, ier, divisor, rxAsked>>

\* The line takes a byte.
Sent ==
  /\ txLevel > 0 /\ txLevel' = txLevel - 1
  /\ UNCHANGED <<solo, dlab, dll, dlh, ier, userAt, toWrite, divisor, rxAsked, lostByte>>

UartStep ==
  \/ \E t \in UartUsers :
       \/ ConfigureBegin(t) \/ DlabOn(t) \/ SetDll(t) \/ SetDlh(t) \/ DlabOff(t)
       \/ EnableRxInterrupt(t) \/ DisableInterrupts(t)
       \/ WriteCall(t) \/ TxReady(t) \/ PutByte(t)
  \/ Sent

-----------------------------------------------------------------------------
UartTypeOK ==
  /\ txLevel \in 0 .. TxDepth /\ toWrite \in [UartUsers -> 0 .. MaxWrite]
  /\ {dll, dlh, ier} \subseteq 0 .. Radix - 1

\* If one thread at a time is let in, the driver leaves the UART with DLAB clear,
\* the divisor and the interrupts last asked for, and every byte put has had a
\* place.  Without that none of it holds, even between writers alone.  A divisor of
\* more than two halves is written without its upper part, and one of nothing as it
\* is (uart.rs:178-180): the caller has to ask for a rate that there is.
LineKept ==
  solo /\ (\A t \in UartUsers : userAt[t] = "out")
    => /\ ~dlab /\ ~lostByte
       /\ divisor < Radix * Radix => (dlh * Radix) + dll = divisor
       /\ rxAsked <=> ier = 1
=============================================================================
