---------------------------------- MODULE Spi ----------------------------------
(***************************************************************************)
(* The SPI master of src/src/spi.rs: chip select, the chunks of a transfer *)
(* and the two FIFOs, with the controller shifting bytes on its own.  The  *)
(* selected chip answers the k-th byte of a chip-select period with k.     *)
(***************************************************************************)
EXTENDS Naturals, Sequences

CONSTANTS
  FifoSize,   \* FIFO_SIZE
  MaxLen,     \* bound: bytes of a command, and of the data after it
  MaxLateCalls \* bound: calls made between a timeout and the next configure

ASSUME SpiAssumption == FifoSize \in Nat \ {0} /\ MaxLen \in Nat /\ MaxLateCalls \in Nat

VARIABLES
  selected,  \* chip select is low
  spiCall,   \* the call under way: [name, head, tail], two transfers
  spiAt,     \* "idle", "load", "exchange", "drain" or "end"
  part,      \* which of the two transfers: 1 or 2, 3 after them
  off,       \* bytes of it already exchanged
  burst,     \* bytes of the chunk
  txFifo, rxFifo,
  xch,       \* bytes the controller still has to exchange
  wire,      \* what the selected chip has been sent
  into,      \* what the caller's buffer has been given
  verdict,   \* Ok or Timeout, of the last call
  late       \* calls since configure, from the first one that timed out on

spiVars == <<selected, spiCall, spiAt, part, off, burst, txFifo, rxFifo, xch, wire,
             into, verdict, late>>

\* A transfer of the bytes tx that wants the first rx answers.
Transfer(tx, rx) == [tx |-> tx, rx |-> rx]
Nothing == Transfer(<<>>, 0)
Bytes(n) == [i \in 1 .. n |-> i]
FF == 255

NoSpiCall == [name |-> "none", head |-> Nothing, tail |-> Nothing]

SpiInit ==
  /\ selected = FALSE /\ spiCall = NoSpiCall /\ spiAt = "idle"
  /\ part = 1 /\ off = 0 /\ burst = 0 /\ xch = 0
  /\ txFifo = <<>> /\ rxFifo = <<>> /\ wire = <<>> /\ into = <<>>
  /\ verdict = "Ok" /\ late = 0

\* The calls, as the transfers they make.  send and receive cut their data at 64
\* bytes, where transfer cuts it too.
Send(n) == Transfer(Bytes(n), n)
Receive(n) == Transfer(<<FF>>, n)

SpiCalls ==
  {[name |-> "transfer", head |-> Transfer(Bytes(n), m), tail |-> Nothing] :
     n \in 0 .. MaxLen, m \in 0 .. MaxLen}
  \cup {[name |-> "xfer", head |-> Transfer(Bytes(n), m), tail |-> Nothing] :
     n \in 0 .. MaxLen, m \in 0 .. MaxLen}
  \cup {[name |-> "xfer_send", head |-> [Send(n) EXCEPT !.rx = 0], tail |-> Nothing] :
     n \in 0 .. MaxLen}
  \cup {[name |-> "xfer_receive", head |-> IF n = 0 THEN Nothing ELSE Receive(n),
         tail |-> Nothing] : n \in 0 .. MaxLen}
  \cup {[name |-> "xfer_cmd_read", head |-> Transfer(Bytes(n), 0),
         tail |-> IF m = 0 THEN Nothing ELSE Receive(m)] : n \in 1 .. MaxLen, m \in 0 .. MaxLen}
  \cup {[name |-> "xfer_cmd_send", head |-> [Send(n) EXCEPT !.rx = 0],
         tail |-> [Send(m) EXCEPT !.rx = 0]] : n \in 1 .. MaxLen, m \in 0 .. MaxLen}

Larger(a, b) == IF a >= b THEN a ELSE b
Smaller(a, b) == IF a <= b THEN a ELSE b
Length(x) == Larger(Len(x.tx), x.rx)
Byte(x, i) == IF i <= Len(x.tx) THEN x.tx[i] ELSE FF

Current == IF part = 1 THEN spiCall.head ELSE spiCall.tail

-----------------------------------------------------------------------------
\* Chip select goes low, except for a bare transfer.
SpiBegin ==
  /\ spiAt = "idle" /\ spiCall = NoSpiCall
  /\ \E k \in SpiCalls : spiCall' = k /\ selected' = (k.name # "transfer")
  /\ spiAt' = "load" /\ part' = 1 /\ off' = 0
  /\ verdict' = "Ok"
  /\ late <= MaxLateCalls /\ late' = IF late = 0 THEN 0 ELSE late + 1
  /\ UNCHANGED <<burst, txFifo, rxFifo, xch, wire, into>>

MutChunk == Length(Current) - off                   \* the whole rest at once

\* The next chunk is at most a FIFO.
Chunk == Smaller(Length(Current) - off, FifoSize)

MutSpiLoad ==                                       \* the burst count of a full chunk
  /\ spiAt = "load" /\ part <= 2 /\ off < Length(Current)
  /\ burst' = Chunk /\ xch' = FifoSize
  /\ txFifo' = txFifo \o [i \in 1 .. Chunk |-> Byte(Current, off + i)]
  /\ spiAt' = "exchange"
  /\ UNCHANGED <<selected, spiCall, part, off, rxFifo, wire, into, verdict, late>>

\* The counts are set, the TX FIFO is filled, and the exchange is started.
SpiLoad ==
  /\ spiAt = "load" /\ part <= 2 /\ off < Length(Current)
  /\ burst' = Chunk /\ xch' = Chunk
  /\ txFifo' = txFifo \o [i \in 1 .. Chunk |-> Byte(Current, off + i)]
  /\ spiAt' = "exchange"
  /\ UNCHANGED <<selected, spiCall, part, off, rxFifo, wire, into, verdict, late>>

\* A transfer is complete: the next one of the call, or its end.
SpiNextPart ==
  /\ spiAt = "load" /\ part <= 2 /\ off >= Length(Current)
  /\ part' = part + 1 /\ off' = 0
  /\ spiAt' = IF part = 2 THEN "end" ELSE "load"
  /\ UNCHANGED <<selected, spiCall, burst, txFifo, rxFifo, xch, wire, into, verdict, late>>

SpiXchDone ==
  /\ spiAt = "exchange" /\ xch = 0 /\ spiAt' = "drain"
  /\ UNCHANGED <<selected, spiCall, part, off, burst, txFifo, rxFifo, xch, wire, into, verdict, late>>

MutSpiDrain ==                                      \* one byte left in the FIFO
  /\ spiAt = "drain" /\ Len(rxFifo) >= burst /\ burst > 0
  /\ into' = into \o [i \in 1 .. burst - 1 |-> rxFifo[i]]
  /\ rxFifo' = SubSeq(rxFifo, burst, Len(rxFifo))
  /\ off' = off + burst /\ spiAt' = "load"
  /\ UNCHANGED <<selected, spiCall, part, burst, txFifo, xch, wire, verdict, late>>

\* The chunk is drained; what the caller has no room for is discarded.
SpiDrain ==
  /\ spiAt = "drain" /\ Len(rxFifo) >= burst
  /\ into' = into \o SubSeq(rxFifo, 1, Smaller(burst, Larger(Current.rx, off) - off))
  /\ rxFifo' = SubSeq(rxFifo, burst + 1, Len(rxFifo))
  /\ off' = off + burst /\ spiAt' = "load"
  /\ UNCHANGED <<selected, spiCall, part, burst, txFifo, xch, wire, verdict, late>>

\* Either poll gives up; the controller and its FIFOs are left as they are.
SpiTimeout ==
  /\ (spiAt = "exchange" /\ xch > 0) \/ (spiAt = "drain" /\ Len(rxFifo) < burst)
  /\ verdict' = "Timeout" /\ late' = Larger(late, 1) /\ spiAt' = "end"
  /\ UNCHANGED <<selected, spiCall, part, off, burst, txFifo, rxFifo, xch, wire, into>>

CallOver ==
  /\ part' = 1 /\ off' = 0 /\ burst' = 0 /\ wire' = <<>> /\ into' = <<>>
  /\ UNCHANGED <<txFifo, rxFifo, xch, verdict, late>>

MutSpiEnd ==                                        \* `?` before the chip is released
  /\ spiAt = "end" /\ spiAt' = "idle"
  /\ selected' = (selected /\ verdict = "Timeout")
  /\ spiCall' = NoSpiCall /\ CallOver

\* Chip select goes high whatever the verdict.
SpiEnd ==
  /\ spiAt = "end" /\ spiAt' = "idle"
  /\ selected' = FALSE /\ spiCall' = NoSpiCall /\ CallOver

\* configure: soft reset, transfer control (chip select high), both FIFOs reset.
SpiConfigure ==
  /\ spiAt = "idle"
  /\ selected' = FALSE /\ txFifo' = <<>> /\ rxFifo' = <<>> /\ xch' = 0 /\ late' = 0
  /\ UNCHANGED <<spiCall, spiAt, part, off, burst, wire, into, verdict>>

\* The controller exchanges a byte.  TP_EN: it waits while the RX FIFO is full.
SpiShift ==
  /\ xch > 0 /\ xch' = xch - 1 /\ Len(rxFifo) < FifoSize
  /\ txFifo' = IF txFifo = <<>> THEN <<>> ELSE Tail(txFifo)
  /\ LET byte == IF txFifo = <<>> THEN 0 ELSE Head(txFifo)
     IN  IF selected
         THEN wire' = Append(wire, byte) /\ rxFifo' = Append(rxFifo, Len(wire) + 1)
         ELSE UNCHANGED wire /\ rxFifo' = Append(rxFifo, FF)
  /\ UNCHANGED <<selected, spiCall, spiAt, part, off, burst, into, verdict, late>>

SpiStep == SpiBegin \/ SpiLoad \/ SpiNextPart \/ SpiXchDone \/ SpiDrain \/ SpiTimeout
           \/ SpiEnd \/ SpiConfigure \/ SpiShift

-----------------------------------------------------------------------------
SpiTypeOK ==
  /\ selected \in BOOLEAN /\ verdict \in {"Ok", "Timeout"}
  /\ part \in 1 .. 3 /\ xch \in 0 .. FifoSize /\ burst \in 0 .. FifoSize
  /\ Len(rxFifo) <= FifoSize

Padded(x) == [i \in 1 .. Length(x) |-> Byte(x, i)]
Answers(x, before) ==
  [i \in 1 .. x.rx |-> IF spiCall.name = "transfer" THEN FF ELSE before + i]

\* A call that ends in Ok, with no timeout since configure, has sent the selected
\* chip exactly its bytes, padded with 0xFF, in one chip-select period, and given
\* the caller the answers to its own bytes and to no others.
ExchangeIsExact ==
  (spiAt = "end" /\ verdict = "Ok" /\ late = 0) =>
    /\ spiCall.name # "transfer" => wire = Padded(spiCall.head) \o Padded(spiCall.tail)
    /\ into = Answers(spiCall.head, 0) \o Answers(spiCall.tail, Length(spiCall.head))

\* The chip is released after every call, whichever way it ended (a chip left
\* selected would take the next call's command for data).
ReleasedAtRest == spiAt = "idle" => ~selected

\* With no timeout since configure, nothing is left in the FIFOs between calls.
FifosEmptyAtRest == (spiAt = "idle" /\ late = 0) => txFifo = <<>> /\ rxFifo = <<>>

\* A transfer never waits for bytes that cannot come: while it waits, the
\* controller still has them or the FIFO does.
NeverStarved ==
  (spiAt \in {"exchange", "drain"} /\ late = 0) => xch + Len(rxFifo) = burst

\* The bytes, the chip select and the FIFOs of a call (spi.rs:342-510).
SpiKept == ExchangeIsExact /\ ReleasedAtRest /\ FifosEmptyAtRest /\ NeverStarved
=============================================================================
