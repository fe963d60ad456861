-------------------------------- MODULE SoftSpi --------------------------------
(***************************************************************************)
(* The bit-banged SPI bus of src/src/soft_spi.rs, pin write by pin write,  *)
(* against the device at the other end of the wires, which is external: in *)
(* the same mode, it takes a bit on one edge of the clock and puts its own *)
(* out on the other.                                                       *)
(***************************************************************************)
EXTENDS Naturals, Sequences

CONSTANTS
  Width,     \* bits of a byte
  MaxBytes   \* bound: bytes of a call

ASSUME SoftSpiAssumption == Width \in Nat \ {0} /\ MaxBytes \in Nat \ {0}

VARIABLES
  wiring,  \* [cpol, cpha, three]: the mode, and whether MOSI is MISO too
  ops,     \* the pin operations left of the bit under way
  left,    \* the bits after it
  frame9,  \* the call is send_9bit, and has yet to release the chip
  want,    \* the bits the call has to send
  room,    \* bits the caller takes of the answer
  sck, mosi, cs,
  drives,  \* the MOSI pin is an output
  still,   \* half a period has passed since MOSI last changed
  line,    \* the bit the device has out
  heard,   \* the bits the device has taken
  said,    \* the bits it has put out for each clock
  buffer   \* the bits the master has sampled

softVars == <<wiring, ops, left, frame9, want, room, sck, mosi, cs, drives, still, line, heard, said,
              buffer>>

Op(name, v) == [op |-> name, v |-> v]
Mosi(b) == Op("mosi", b)
Sck(level) == Op("sck", level)
Cs(level) == Op("cs", level)
Half == Op("half", 0)
Sample == Op("sample", 0)
Input == Op("drives", 0)
Output == Op("drives", 1)

MutTrail == Sck(0)                                  \* low, whatever the mode

\* The two edges of a clock: away from where it rests, and back.
Lead == Sck(1 - wiring.cpol)
Trail == Sck(wiring.cpol)

SoftSpiInit ==
  /\ wiring \in [cpol : {0, 1}, cpha : {0, 1}, three : BOOLEAN]
  /\ ops = <<>> /\ left = <<>> /\ frame9 = FALSE /\ want = <<>> /\ room = 0
  /\ sck = wiring.cpol /\ mosi = 1 /\ cs = 1 /\ drives = 1 /\ still = FALSE
  /\ line = 0 /\ heard = <<>> /\ said = <<>> /\ buffer = <<>>

-----------------------------------------------------------------------------
MutBit(b) ==                                        \* sampled after the clock is back
  IF wiring.cpha = 0 THEN <<Mosi(b), Half, Lead, Half, Trail, Sample, Half>>
  ELSE <<Lead, Half, Mosi(b), Trail, Sample, Half>>

\* One bit of transfer_byte.
Bit(b) ==
  IF wiring.cpha = 0 THEN <<Mosi(b), Half, Lead, Half, Sample, Trail, Half>>
  ELSE <<Lead, Half, Sample, Mosi(b), Trail, Half>>

MutBit3(b) ==                                       \* the pin is left an input
  IF wiring.cpha = 0 THEN <<Mosi(b), Half, Lead, Half, Input, Sample, Trail, Half>>
  ELSE <<Lead, Half, Input, Half, Sample, Output, Trail, Mosi(b), Half>>

\* One bit of transfer_byte_3wire.
Bit3(b) ==
  IF wiring.cpha = 0 THEN <<Mosi(b), Half, Lead, Half, Input, Sample, Output, Trail, Half>>
  ELSE <<Lead, Half, Input, Half, Sample, Output, Trail, Mosi(b), Half>>

\* A bit, with bits l from it on: on three wires the pin is made an output before
\* the first of each byte.
BitOps(l) ==
  (IF wiring.three /\ Len(l) % Width = 0 THEN <<Output>> ELSE <<>>)
  \o (IF wiring.three THEN Bit3(Head(l)) ELSE Bit(Head(l)))

MutDcOps(dc) ==                                     \* no clock for the D/C bit's way back
  IF wiring.cpha = 0 THEN <<Cs(0), Mosi(dc), Half, Lead, Half>>
  ELSE <<Cs(0), Lead, Half, Mosi(dc)>>

\* The start of send_9bit: under chip select the D/C bit, which is not answered.
DcOps(dc) ==
  IF wiring.cpha = 0 THEN <<Cs(0), Mosi(dc), Half, Lead, Half, Trail, Half>>
  ELSE <<Cs(0), Lead, Half, Mosi(dc), Trail, Half>>

\* The bits l are still to be sent, nine as part of a send_9bit.
Follows(l, nine) ==
  IF l = <<>>
  THEN ops' = (IF nine THEN <<Cs(1)>> ELSE <<>>) /\ left' = <<>> /\ frame9' = FALSE
  ELSE ops' = BitOps(l) /\ left' = Tail(l) /\ frame9' = nine

Begins(bits, n) ==
  /\ ops = <<>> /\ want' = bits /\ room' = n
  /\ heard' = <<>> /\ said' = <<>> /\ buffer' = <<>>
  /\ UNCHANGED <<wiring, sck, mosi, cs, drives, still, line>>

Bits(n) == [1 .. n -> {0, 1}]

\* transfer of m bytes with n to receive; send has none, receive has nothing to send.
Transfer8 ==
  \E m, n \in 0 .. MaxBytes : \E tx \in Bits(m * Width) :
    LET sent == tx \o [i \in 1 .. (IF n > m THEN (n - m) * Width ELSE 0) |-> 0]
    IN  Begins(sent, n * Width) /\ Follows(sent, FALSE)

Send9Bit ==
  \E dc \in {0, 1}, bits \in Bits(Width) :
    Begins(<<dc>> \o bits, 0) /\ ops' = DcOps(dc) /\ left' = bits /\ frame9' = TRUE

-----------------------------------------------------------------------------
\* What is on the wire: MOSI's level, or what the device puts there.
OnMosi == IF drives = 1 THEN mosi ELSE line
OnMiso == IF wiring.three THEN OnMosi ELSE line

\* The clock moves; the device takes a bit on one edge, and puts the next one out
\* on the other.
Edges(level) ==
  LET leading == level # wiring.cpol
  IN  /\ sck' = level
      /\ heard' = IF leading = (wiring.cpha = 0) THEN Append(heard, OnMosi) ELSE heard
      /\ IF leading = (wiring.cpha = 0) THEN UNCHANGED line ELSE line' \in {0, 1}
      /\ said' = IF leading THEN Append(said, line') ELSE said

Does(o) ==
  /\ IF o.op = "sck" /\ o.v # sck THEN Edges(o.v) ELSE UNCHANGED <<sck, heard, line, said>>
  /\ mosi' = IF o.op = "mosi" THEN o.v ELSE mosi
  /\ cs' = IF o.op = "cs" THEN o.v ELSE cs
  /\ drives' = IF o.op = "drives" THEN o.v ELSE drives
  /\ still' = (o.op = "half" \/ (still /\ o.op # "mosi"))
  /\ buffer' = IF o.op = "sample" THEN Append(buffer, OnMiso) ELSE buffer

PinOp ==
  /\ ops # <<>> /\ Does(Head(ops))
  /\ IF Len(ops) = 1 THEN Follows(left, frame9) ELSE ops' = Tail(ops) /\ UNCHANGED <<left, frame9>>
  /\ UNCHANGED <<wiring, want, room>>

SoftSpiStep == Transfer8 \/ Send9Bit \/ PinOp

-----------------------------------------------------------------------------
SoftSpiTypeOK ==
  /\ {sck, mosi, cs, drives, line} \subseteq {0, 1}
  /\ Len(said) <= MaxBytes * Width + 1
  /\ ops = <<>> => drives = 1 /\ cs = 1

\* The device has taken exactly the bits of the call, in order, in each of the
\* four modes.  (On three wires modes 1 and 3 put a bit out only after the edge
\* on which the device takes it.)
BitsArrive ==
  ops = <<>> /\ ~(wiring.three /\ wiring.cpha = 1) => heard = want

\* The caller is given the bits the device put out, each for its own clock.
AnswersRead ==
  ops = <<>> => SubSeq(buffer, 1, room) = SubSeq(said, 1, room)

\* Between two calls the clock rests where the mode says, so that the first edge
\* of the next call is a leading one.
ClockRests == ops = <<>> => sck = wiring.cpol

\* In modes 0 and 2 a bit is on the wire for half a period before the device takes
\* it.
BitSettles ==
  (ops # <<>> /\ wiring.cpha = 0 /\ Head(ops) = Lead) => still /\ drives = 1

\* Both directions of the bus, in each mode (soft_spi.rs:172-350).
SoftSpiKept == BitsArrive /\ AnswersRead /\ ClockRests /\ BitSettles
=============================================================================
