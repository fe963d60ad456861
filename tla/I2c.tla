---------------------------------- MODULE I2c ----------------------------------
(***************************************************************************)
(* The TWI master of src/src/i2c.rs on one channel: threads inside xfer    *)
(* and probe, the interrupt service routine that carries a transfer on,    *)
(* and the adapter itself, which may raise its flag at any time, or never. *)
(*                                                                         *)
(* Threads and the ISR interleave between the steps below.  The event      *)
(* flags of ipc/event.rs are seen through their one bit: waiters holds the *)
(* registered threads, and pc says whether a wait was granted or expired.  *)
(* A byte is its position in its message, so that order and owner show.    *)
(***************************************************************************)
EXTENDS Naturals, Sequences

CONSTANTS
  Users,      \* the threads that use the bus, by their ids
  Transfers,  \* the transfers they ask for: at most a write and a read
  Sharings    \* how they share it: "alone" calls exclude one another

ASSUME I2cAssumption ==
  /\ Users \subseteq Nat
  /\ \A x \in Transfers :
       /\ x \in Seq([read : BOOLEAN, len : Nat \ {0}]) /\ Len(x) <= 2
       /\ Len(x) = 2 => ~x[1].read /\ x[2].read
  /\ Sharings \subseteq {"alone", "racing"}

VARIABLES
  ch,       \* struct TwiChannel, its event apart
  twi,      \* the adapter's registers, and what it carried
  event,    \* TWI_WAKEUP_EVENT is set
  waiters,  \* the threads registered in the event
  at,       \* [Users -> STRING]: "app", or where in xfer or probe
  asked,    \* [Users -> Transfers]: the arguments of the call, while inside
  buffer,   \* [Users -> Seq(Nat)]: the caller's read buffer, while inside
  verdict,  \* history: what the last call to return has returned
  sharing   \* the sharing in use

i2cVars == <<ch, twi, event, waiters, at, asked, buffer, verdict, sharing>>

\* code as usize, for a negative code.
Aborted == 99

IdleChannel == [msgs |-> <<>>, idx |-> 0, ptr |-> 0, num |-> 0, status |-> "Idle"]

\* DATA holds nothing to send.
Nothing == <<"nothing", 0, 0>>

\* CTL: intflg, inten, sta, stp, ack.  STAT: stat.  DATA: data.  wire is what
\* slaves have acknowledged since the last reset or START of a transfer.
Reset(r) ==
  [r EXCEPT !.intflg = FALSE, !.sta = FALSE, !.stp = FALSE, !.stat = "IDLE",
            !.data = Nothing, !.wire = <<>>]

I2cInit ==
  /\ ch = IdleChannel
  /\ twi = [intflg |-> FALSE, inten |-> FALSE, sta |-> FALSE, stp |-> FALSE,
            ack |-> FALSE, stat |-> "IDLE", data |-> Nothing,
            rx |-> 0, wire |-> <<>>]
  /\ event = FALSE /\ waiters = {}
  /\ at = [t \in Users |-> "app"]
  /\ asked = [t \in Users |-> <<>>]
  /\ buffer = [t \in Users |-> <<>>]
  /\ verdict = "none"
  /\ sharing \in Sharings

Goto(t, place) == at' = [at EXCEPT ![t] = place]
Stay == UNCHANGED <<asked, buffer, verdict>>
Return(t, v) ==
  /\ Goto(t, "app") /\ verdict' = v
  /\ asked' = [asked EXCEPT ![t] = <<>>] /\ buffer' = [buffer EXCEPT ![t] = <<>>]

\* TwiChannel.reset and the registers, on the ways out of xfer.
CleanUp(r) == ch' = IdleChannel /\ twi' = r
StopQuiet(r) == [Reset(r) EXCEPT !.inten = FALSE]

ReadLength(x) == IF x # <<>> /\ x[Len(x)].read THEN x[Len(x)].len ELSE 0

-----------------------------------------------------------------------------
\* EventFlags.set(TWI_WAKEUP_EVENT): the first waiter takes the bit, whether
\* it still waits or a tick has ended its wait.
Raise ==
  IF waiters = {} THEN event' = TRUE /\ UNCHANGED <<waiters, at>>
  ELSE LET t == CHOOSE u \in waiters : \A v \in waiters : u <= v
       IN  /\ event' = FALSE
           /\ waiters' = waiters \ {t}
           /\ at' = IF at[t] = "blocked" THEN [at EXCEPT ![t] = "granted"] ELSE at

\* The timer ends a wait of 10000 ticks.
Expire(t) ==
  /\ at[t] = "blocked"
  /\ Goto(t, "expired")
  /\ UNCHANGED <<ch, twi, event, waiters, asked, buffer, verdict, sharing>>

-----------------------------------------------------------------------------
(* xfer, from one point where another thread or the ISR may come in to the *)
(* next.                                                                   *)

MayCall(t) ==
  at[t] = "app" /\ (sharing = "alone" => \A u \in Users : at[u] = "app")

XferCheck(t) ==
  /\ MayCall(t)
  /\ IF ch.status # "Idle" THEN Return(t, "Busy")
     ELSE \E x \in Transfers :
            /\ Goto(t, "reset") /\ verdict' = "none"
            /\ asked' = [asked EXCEPT ![t] = x]
            /\ buffer' = [buffer EXCEPT ![t] = [i \in 1 .. ReadLength(x) |-> 0]]
  /\ UNCHANGED <<ch, twi, event, waiters, sharing>>

XferReset(t) ==
  /\ at[t] = "reset"
  /\ twi' = Reset(twi)
  /\ Goto(t, "prepare")
  /\ UNCHANGED <<ch, event, waiters, asked, buffer, verdict, sharing>>

Message(t, m) == [of |-> t, read |-> m.read, len |-> m.len]

\* The messages, over what the channel's slots still hold.
Load(t) ==
  [msgs   |-> [i \in 1 .. Len(asked[t]) |-> Message(t, asked[t][i])]
              \o SubSeq(ch.msgs, Len(asked[t]) + 1, Len(ch.msgs)),
   idx    |-> 0, ptr |-> 0, num |-> Len(asked[t]), status |-> "Running"]

MutXferPrepare(t) ==                                \* the old event is kept
  /\ at[t] = "prepare"
  /\ twi.stat \in {"IDLE", "BUS_ERR"} /\ asked[t] # <<>>
  /\ twi' = [twi EXCEPT !.inten = FALSE]
  /\ ch' = Load(t)
  /\ Goto(t, "arm") /\ Stay
  /\ UNCHANGED <<waiters, sharing, event>>

\* After the delay: the bus must be free; the messages, the status, the event.
XferPrepare(t) ==
  /\ at[t] = "prepare"
  /\ \/ /\ twi.stat \notin {"IDLE", "BUS_ERR"}
        /\ Return(t, "Busy")
        /\ UNCHANGED <<ch, twi, event>>
     \/ /\ twi.stat \in {"IDLE", "BUS_ERR"}
        /\ twi' = [twi EXCEPT !.inten = FALSE]
        /\ IF asked[t] = <<>> THEN Return(t, "Ok") /\ UNCHANGED <<ch, event>>
           ELSE /\ ch' = Load(t) /\ event' = FALSE
                /\ Goto(t, "arm") /\ Stay
  /\ UNCHANGED <<waiters, sharing>>

\* Enabling the interrupt drops STA and STP; then START is asked for.
XferArm(t) ==
  /\ at[t] = "arm"
  /\ twi' = [twi EXCEPT !.inten = TRUE, !.stp = FALSE, !.ack = FALSE, !.sta = TRUE]
  /\ Goto(t, "poll")
  /\ UNCHANGED <<ch, event, waiters, asked, buffer, verdict, sharing>>

MutXferPoll(t) ==                                   \* polled for ever
  /\ at[t] = "poll"
  /\ ~twi.sta /\ Goto(t, "wait") /\ Stay
  /\ UNCHANGED <<ch, twi, event, waiters, sharing>>

\* twi_wait_start_clear gives up when its count ends, even if START has just
\* been cleared.
XferPoll(t) ==
  /\ at[t] = "poll"
  /\ \/ ~twi.sta /\ Goto(t, "wait") /\ Stay /\ UNCHANGED <<ch, twi>>
     \/ CleanUp(StopQuiet(twi)) /\ Return(t, "StartFail")
  /\ UNCHANGED <<event, waiters, sharing>>

\* event.wait: at once if the ISR was faster, else blocked.
XferWait(t) ==
  /\ at[t] = "wait"
  /\ event' = FALSE
  /\ IF event THEN Goto(t, "woken") /\ UNCHANGED waiters
     ELSE Goto(t, "blocked") /\ waiters' = waiters \cup {t}
  /\ UNCHANGED <<ch, twi, asked, buffer, verdict, sharing>>

MutXferWake(t) ==                                   \* a late waiter stays registered
  /\ \/ at[t] = "granted" /\ Goto(t, "woken") /\ event' = FALSE
     \/ at[t] = "expired" /\ Goto(t, "late") /\ UNCHANGED event
  /\ UNCHANGED <<ch, twi, waiters, asked, buffer, verdict, sharing>>

\* The thread has the CPU again, inside event.wait.
XferWake(t) ==
  /\ \/ at[t] = "granted" /\ Goto(t, "woken") /\ event' = FALSE /\ UNCHANGED waiters
     \/ /\ at[t] = "expired" /\ Goto(t, "late")
        /\ waiters' = waiters \ {t} /\ UNCHANGED event
  /\ UNCHANGED <<ch, twi, asked, buffer, verdict, sharing>>

MutXferGiveUp(t) ==                                 \* the channel is not reset
  /\ at[t] = "late"
  /\ twi' = StopQuiet(twi) /\ UNCHANGED ch
  /\ Return(t, "Timeout")
  /\ UNCHANGED <<event, waiters, sharing>>

XferGiveUp(t) ==
  /\ at[t] = "late"
  /\ CleanUp(StopQuiet(twi))
  /\ Return(t, "Timeout")
  /\ UNCHANGED <<event, waiters, sharing>>

\* msg_idx and msg_num tell success; then STOP, which may not take.
XferFinish(t) ==
  /\ at[t] = "woken"
  /\ IF ch.idx = ch.num
     THEN \/ CleanUp([twi EXCEPT !.stp = FALSE, !.intflg = FALSE, !.stat = "IDLE"])
             /\ Return(t, "Ok")
          \/ CleanUp([twi EXCEPT !.stp = TRUE, !.intflg = FALSE]) /\ Return(t, "StopFail")
     ELSE CleanUp(StopQuiet(twi)) /\ Return(t, "Fail")
  /\ UNCHANGED <<event, waiters, sharing>>

Xfer(t) == \/ XferCheck(t) \/ XferReset(t) \/ XferPrepare(t) \/ XferArm(t)
           \/ XferPoll(t) \/ XferWait(t) \/ XferWake(t) \/ XferGiveUp(t)
           \/ XferFinish(t)

-----------------------------------------------------------------------------
(* probe: polling, without a look at the channel's status.                 *)

ProbeCall(t) ==
  /\ MayCall(t)
  /\ twi' = [Reset(twi) EXCEPT !.ack = FALSE, !.sta = TRUE]
  /\ Goto(t, "probe start") /\ verdict' = "none"
  /\ UNCHANGED <<ch, event, waiters, asked, buffer, sharing>>

ProbeAddress(t) ==
  /\ at[t] = "probe start"
  /\ \/ /\ twi.intflg /\ twi.stat \in {"TX_STA", "TX_RESTA"}
        /\ twi' = [twi EXCEPT !.data = <<"address", t, 0>>, !.intflg = FALSE]
        /\ Goto(t, "probe ack") /\ Stay
     \/ Return(t, "absent") /\ UNCHANGED twi
  /\ UNCHANGED <<ch, event, waiters, sharing>>

ProbeAnswer(t) ==
  /\ at[t] = "probe ack"
  /\ \/ /\ twi.intflg
        /\ Return(t, IF twi.stat = "TX_AW_ACK" THEN "present" ELSE "absent")
        /\ twi' = [twi EXCEPT !.stp = TRUE, !.intflg = FALSE]
     \/ Return(t, "absent") /\ UNCHANGED twi
  /\ UNCHANGED <<ch, event, waiters, sharing>>

Probe(t) == ProbeCall(t) \/ ProbeAddress(t) \/ ProbeAnswer(t)

-----------------------------------------------------------------------------
(* twi_isr: the interrupt is disabled, twi_core_process looks at STAT, and *)
(* the interrupt is enabled again if the transfer goes on.                 *)

Serving == twi.intflg /\ twi.inten

HasMessage == ch.idx < ch.num
Current == ch.msgs[ch.idx + 1]

MutComplete(code) ==                                \* msg_num is kept
  /\ ch' = [IdleChannel EXCEPT !.idx = code, !.num = ch.num]
  /\ twi' = [twi EXCEPT !.inten = FALSE]
  /\ Raise

\* twi_xfer_complete, idx being 0 or Aborted.
Complete(code) ==
  /\ ch' = [IdleChannel EXCEPT !.idx = code]
  /\ twi' = [twi EXCEPT !.inten = FALSE]
  /\ Raise

\* The transfer goes on with the adapter's registers r: enabling the interrupt
\* drops STA and STP, so a START that has not begun is lost.
GoOn(r) == twi' = [r EXCEPT !.sta = FALSE, !.stp = FALSE]

\* The current message is through: the next one, after a repeated START that
\* the adapter performs while the ISR polls, or does not; or the end.
NextMessage ==
  IF ch.idx + 1 >= ch.num THEN Complete(0)
  ELSE /\ ch' = [ch EXCEPT !.idx = @ + 1, !.ptr = 0]
       /\ \/ GoOn([twi EXCEPT !.stat = "TX_RESTA"])
          \/ GoOn([twi EXCEPT !.intflg = FALSE])
       /\ UNCHANGED <<event, waiters, at>>

Put(what) == GoOn([twi EXCEPT !.data = what, !.intflg = FALSE])

IsrAddress ==
  /\ Serving /\ HasMessage /\ twi.stat \in {"TX_STA", "TX_RESTA"}
  /\ Put(<<"address", Current.of, IF Current.read THEN 1 ELSE 0>>)
  /\ UNCHANGED <<ch, event, waiters, at, asked, buffer, verdict, sharing>>

IsrSend ==
  /\ Serving /\ HasMessage /\ twi.stat \in {"TX_AW_ACK", "TXD_ACK"}
  /\ IF ch.ptr < Current.len
     THEN /\ Put(<<"byte", Current.of, ch.ptr + 1>>)
          /\ ch' = [ch EXCEPT !.ptr = @ + 1]
          /\ UNCHANGED <<event, waiters, at>>
     ELSE NextMessage
  /\ UNCHANGED <<asked, buffer, verdict, sharing>>

IsrListen ==
  /\ Serving /\ HasMessage /\ twi.stat = "TX_AR_ACK"
  /\ GoOn([twi EXCEPT !.ack = @ \/ Current.len > 1, !.intflg = FALSE])
  /\ UNCHANGED <<ch, event, waiters, at, asked, buffer, verdict, sharing>>

Store == buffer' = [buffer EXCEPT ![Current.of][ch.ptr + 1] = twi.data[3]]

MutIsrReceive ==                                    \* the ACK goes one byte late
  /\ Serving /\ HasMessage /\ twi.stat = "RXD_ACK"
  /\ ch.ptr < Current.len
  /\ GoOn([twi EXCEPT !.ack = @ /\ ch.ptr + 1 # Current.len, !.intflg = FALSE])
  /\ Store
  /\ ch' = [ch EXCEPT !.ptr = @ + 1]
  /\ UNCHANGED <<asked, verdict, sharing, event, waiters, at>>

IsrReceive ==
  /\ Serving /\ HasMessage /\ twi.stat = "RXD_ACK"
  /\ IF ch.ptr < Current.len
     THEN /\ GoOn([twi EXCEPT !.ack = @ /\ ch.ptr + 2 # Current.len, !.intflg = FALSE])
          /\ Store
          /\ ch' = [ch EXCEPT !.ptr = @ + 1]
          /\ UNCHANGED <<event, waiters, at>>
     ELSE Complete(Aborted) /\ UNCHANGED buffer
  /\ UNCHANGED <<asked, verdict, sharing>>

IsrLast ==
  /\ Serving /\ HasMessage /\ twi.stat = "RXD_NAK"
  /\ IF ch.ptr + 1 = Current.len THEN Store /\ NextMessage
     ELSE Complete(Aborted) /\ UNCHANGED buffer
  /\ UNCHANGED <<asked, verdict, sharing>>

\* Nothing to serve, a NACK, a lost arbitration, an error of the bus.  The code
\* is the status negated, and that of an error of the bus is 0.
IsrAbort ==
  /\ Serving
  /\ \/ /\ \/ ~HasMessage
           \/ twi.stat \in {"IDLE", "TX_AW_NAK", "TX_AR_NAK", "TXD_NAK", "ARB_LOST"}
        /\ Complete(Aborted)
     \/ HasMessage /\ twi.stat = "BUS_ERR" /\ Complete(0)
  /\ UNCHANGED <<asked, buffer, verdict, sharing>>

Isr == IsrAddress \/ IsrSend \/ IsrListen \/ IsrReceive \/ IsrLast \/ IsrAbort

-----------------------------------------------------------------------------
(* The adapter and the bus, outside the code: each step raises the flag.   *)

Flag(stat) == twi' = [twi EXCEPT !.intflg = TRUE, !.stat = stat]

BusStart ==
  /\ twi.sta
  /\ \/ twi' = [twi EXCEPT !.sta = FALSE, !.intflg = TRUE, !.stat = "TX_STA", !.wire = <<>>]
     \/ \E stat \in {"ARB_LOST", "BUS_ERR"} :
          twi' = [twi EXCEPT !.sta = FALSE, !.intflg = TRUE, !.stat = stat]

Going == ~twi.intflg /\ ~twi.sta /\ ~twi.stp

\* An acknowledged byte is on the wire; it is sent once, and an adapter with
\* neither a new byte nor START to send waits.
Acked(stat) ==
  twi' = [twi EXCEPT !.intflg = TRUE, !.stat = stat, !.wire = Append(@, twi.data),
                     !.data = Nothing, !.rx = 0]

BusAddress ==
  /\ Going /\ twi.stat \in {"TX_STA", "TX_RESTA"} /\ twi.data[1] = "address"
  /\ IF twi.data[3] = 1 THEN Acked("TX_AR_ACK") \/ Flag("TX_AR_NAK")
     ELSE Acked("TX_AW_ACK") \/ Flag("TX_AW_NAK")

BusSend ==
  /\ Going /\ twi.stat \in {"TX_AW_ACK", "TXD_ACK"} /\ twi.data[1] = "byte"
  /\ Acked("TXD_ACK") \/ Flag("TXD_NAK") \/ Flag("ARB_LOST")

\* A read byte is the number it has on the bus since the address.
BusReceive ==
  /\ Going /\ twi.stat \in {"TX_AR_ACK", "RXD_ACK"}
  /\ twi' = [twi EXCEPT !.intflg = TRUE, !.rx = @ + 1,
                        !.stat = IF twi.ack THEN "RXD_ACK" ELSE "RXD_NAK",
                        !.data = <<"in", 0, twi.rx + 1>>]

\* A START or STOP out of place, once the master has the bus.
BusError ==
  /\ Going
  /\ twi.stat \in {"TX_STA", "TX_RESTA", "TX_AW_ACK", "TXD_ACK", "TX_AR_ACK", "RXD_ACK"}
  /\ Flag("BUS_ERR")

Bus ==
  /\ BusStart \/ BusAddress \/ BusSend \/ BusReceive \/ BusError
  /\ UNCHANGED <<ch, event, waiters, at, asked, buffer, verdict, sharing>>

-----------------------------------------------------------------------------
I2cNext == (\E t \in Users : Xfer(t) \/ Probe(t) \/ Expire(t)) \/ Isr \/ Bus

I2cSpec == I2cInit /\ [][I2cNext]_i2cVars

\* A thread inside a call goes on, and the timer ticks; nothing is promised of
\* the adapter.
InCall(t) == at[t] # "app" /\ (Xfer(t) \/ Probe(t))

I2cFairSpec ==
  I2cSpec /\ \A t \in Users : WF_i2cVars(InCall(t)) /\ WF_i2cVars(Expire(t))

-----------------------------------------------------------------------------
Places == {"app", "reset", "prepare", "arm", "poll", "wait", "blocked", "granted",
           "expired", "woken", "late", "probe start", "probe ack"}

I2cTypeOK ==
  /\ ch.idx \in 0 .. 2 \cup {Aborted} /\ ch.num \in 0 .. 2 /\ ch.ptr \in Nat
  /\ ch.num <= Len(ch.msgs)
  /\ waiters \subseteq Users /\ at \in [Users -> Places]
  /\ asked \in [Users -> Transfers \cup {<<>>}]
  /\ \A t \in Users : Len(buffer[t]) = ReadLength(asked[t])

\* What the bus acknowledges when a message goes through.
OnWire(m, t) ==
  IF m.read THEN <<<<"address", t, 1>>>>
  ELSE [i \in 1 .. m.len + 1 |->
          IF i = 1 THEN <<"address", t, 0>> ELSE <<"byte", t, i - 1>>]

\* What it has acknowledged when all of a transfer went through.
Carried(t) ==
  LET x == asked[t]
  IN  CASE Len(x) = 1 -> OnWire(x[1], t)
        [] Len(x) = 2 -> OnWire(x[1], t) \o OnWire(x[2], t)
        [] OTHER -> <<>>

Received(t) == buffer[t] = [i \in 1 .. ReadLength(asked[t]) |-> i]

\* The slaves took exactly the bytes asked for, and the read bytes are in the
\* buffer, in order.
Done(t) == twi.wire = Carried(t) /\ Received(t)

Returns(t, v) == at[t] # "app" /\ at'[t] = "app" /\ verdict' = v
Transfer(t) == asked[t] # <<>>

\* Without a second user, Ok means the transfer is done, unless the bus broke
\* down: an error of the bus ends in Ok as well, however little went through.
\* Fail means it is not done, and a probe finds a device only where one answered
\* (i2c.rs:866-888, 467-468, 987).
VerdictIsTrue ==
  [][sharing = "alone" =>
       \A t \in Users :
         /\ Returns(t, "Ok") /\ Transfer(t) => Done(t) \/ twi.stat = "BUS_ERR"
         /\ Returns(t, "Fail") => ~Done(t)
         /\ Returns(t, "present") => twi.wire = <<<<"address", t, 0>>>>]_i2cVars

\* What xfer takes for a success is a transfer that is done (i2c.rs:692, "Performs:
\* START ... ADDR+W ... data... STOP"), without a second user too.
OkMeansDone ==
  sharing = "alone" =>
    \A t \in Users : at[t] = "woken" /\ ch.idx = ch.num => Done(t)

\* However the users race, the ISR never works on the stack buffer of a thread
\* that has left xfer (i2c.rs:742, "Must live for the entire xfer call").
BuffersLive ==
  \A i \in 1 .. Len(ch.msgs) : at[ch.msgs[i].of] # "app"

\* However the users race, a channel nobody is inside of can be used: it is
\* not Busy for ever (i2c.rs:831).  Without a second user its interrupt is off.
ChannelRecovers ==
  (\A t \in Users : at[t] = "app") =>
    /\ ch.status = "Idle" /\ waiters = {}
    /\ sharing = "alone" => ~twi.inten

\* Without a second user, a wait is not ended by the completion of an earlier
\* transfer: the ISR is through with this one.
WakeIsOurs ==
  sharing = "alone" => \A t \in Users : at[t] \in {"granted", "woken"} => ch.status = "Idle"

\* A transfer is owned by the thread inside xfer, from the buffer the ISR works
\* on to the wake-up it ends with (i2c.rs:742, 828-858).
TransfersOwned == BuffersLive /\ ChannelRecovers /\ WakeIsOurs

\* Every call comes back, whatever the adapter does (i2c.rs:828).
CallsReturn == \A t \in Users : (at[t] # "app") ~> (at[t] = "app")
=============================================================================
