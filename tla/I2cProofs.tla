------------------------------- MODULE I2cProofs -------------------------------
(***************************************************************************)
(* Proofs about the TWI master: the shape of its channel and registers,    *)
(* whose thread the channel's messages belong to however the users race,   *)
(* and, when their calls exclude one another, the protocol a transfer      *)
(* follows from its START to the verdict of xfer.                          *)
(***************************************************************************)
EXTENDS I2c, TLAPS, SequenceTheorems

-----------------------------------------------------------------------------
(* The shape of the state, and who owns the messages.                      *)

Stats == {"IDLE", "BUS_ERR", "TX_STA", "TX_RESTA", "TX_AW_ACK", "TX_AW_NAK", "TX_AR_ACK",
          "TX_AR_NAK", "TXD_ACK", "TXD_NAK", "RXD_ACK", "RXD_NAK", "ARB_LOST"}
Symbols == {"nothing", "address", "byte", "in"} \X Nat \X Nat
Lengths == Nat \ {0}
Messages == [of : Users, read : BOOLEAN, len : Lengths]

Regs == [intflg : BOOLEAN, inten : BOOLEAN, sta : BOOLEAN, stp : BOOLEAN, ack : BOOLEAN,
         stat : Stats, data : Symbols, rx : Nat, wire : Seq(Symbols)]
Chans == [msgs : Seq(Messages), idx : 0 .. 2 \cup {Aborted}, ptr : Nat, num : 0 .. 2,
          status : {"Idle", "Running"}]

\* Inside xfer with its messages in the channel, or on the way out.
Inside == {"arm", "poll", "wait", "blocked", "granted", "expired", "woken", "late"}

ChanShape ==
  /\ ch \in Chans /\ ch.num <= Len(ch.msgs) /\ (ch.status = "Running" => ch.num # 0)

ThreadShape ==
  /\ at \in [Users -> Places] /\ asked \in [Users -> Transfers \cup {<<>>}]
  /\ DOMAIN buffer = Users
  /\ \A t \in Users :
       /\ buffer[t] \in [1 .. ReadLength(asked[t]) -> Nat]
       /\ at[t] = "app" => asked[t] = <<>>
       /\ at[t] \in Inside => asked[t] # <<>>

Shape == ChanShape /\ ThreadShape /\ twi \in Regs /\ event \in BOOLEAN

\* Whoever has a message in the channel is inside; whoever is registered waits.
Owned ==
  /\ \A i \in 1 .. Len(ch.msgs) : at[ch.msgs[i].of] \in Inside
  /\ \A t \in waiters : t \in Users /\ at[t] \in {"blocked", "expired"}

-----------------------------------------------------------------------------
(* One user at a time: the protocol.                                       *)

\* w is the first n elements of s; the wire has those of the transfer of t.
Begins(w, s, n) == Len(w) = n /\ \A i \in 1 .. n : w[i] = s[i]
WireIs(t, n) == Begins(twi.wire, Carried(t), n)

\* The message being carried, and what the wire has of those before it.
Asked(t) == asked[t][ch.idx + 1]
Base(t) == IF ch.idx = 0 THEN 0 ELSE asked[t][1].len + 1
Total(t) == Len(Carried(t))

FreshBus ==
  /\ ~twi.intflg /\ ~twi.sta /\ twi.stat = "IDLE" /\ twi.data = Nothing /\ twi.wire = <<>>

\* The channel has the messages of t.
Loaded(t) ==
  /\ ch.status = "Running" /\ ch.num = Len(asked[t]) /\ Len(ch.msgs) = ch.num
  /\ \A i \in 1 .. ch.num : ch.msgs[i] = Message(t, asked[t][i])
  /\ ch.idx < ch.num

\* The read buffer has its first n bytes.
Filled(t, n) == \A i \in 1 .. n : buffer[t][i] = i

\* From one step of the adapter or of the ISR to the next: START is wanted; it is
\* through; the address is out; ...
Starting(t) ==
  /\ twi.sta /\ ~twi.intflg /\ twi.stat = "IDLE" /\ twi.data = Nothing /\ twi.wire = <<>>
  /\ ch.idx = 0 /\ ch.ptr = 0 /\ ~twi.ack
Started(t) ==
  /\ ~twi.sta /\ twi.intflg /\ twi.stat \in {"TX_STA", "TX_RESTA"}
  /\ WireIs(t, Base(t)) /\ ch.ptr = 0 /\ ~twi.ack
Addressed(t) ==
  /\ ~twi.sta /\ ~twi.intflg /\ twi.stat \in {"TX_STA", "TX_RESTA"}
  /\ twi.data = <<"address", t, IF Asked(t).read THEN 1 ELSE 0>>
  /\ WireIs(t, Base(t)) /\ ch.ptr = 0 /\ ~twi.ack
\* ... ptr bytes of a write have gone; the next one is out; ...
Wrote(t) ==
  /\ ~Asked(t).read /\ ~twi.sta /\ twi.intflg /\ twi.data = Nothing
  /\ twi.stat = IF ch.ptr = 0 THEN "TX_AW_ACK" ELSE "TXD_ACK"
  /\ ch.ptr <= Asked(t).len /\ WireIs(t, Base(t) + 1 + ch.ptr) /\ ~twi.ack
Writing(t) ==
  /\ ~Asked(t).read /\ ~twi.sta /\ ~twi.intflg /\ twi.stat \in {"TX_AW_ACK", "TXD_ACK"}
  /\ 1 <= ch.ptr /\ ch.ptr <= Asked(t).len /\ twi.data = <<"byte", t, ch.ptr>>
  /\ WireIs(t, Base(t) + ch.ptr) /\ ~twi.ack
\* ... the address of a read has been acknowledged; the next byte is awaited, and
\* it is acknowledged unless it is the last; it has come; ...
Answering(t) ==
  /\ Asked(t).read /\ ~twi.sta /\ twi.intflg /\ twi.stat = "TX_AR_ACK"
  /\ ch.ptr = 0 /\ twi.rx = 0 /\ ~twi.ack /\ WireIs(t, Total(t))
Awaiting(t) ==
  /\ Asked(t).read /\ ~twi.sta /\ ~twi.intflg /\ twi.stat \in {"TX_AR_ACK", "RXD_ACK"}
  /\ twi.rx = ch.ptr /\ ch.ptr < Asked(t).len /\ twi.ack = (ch.ptr + 1 # Asked(t).len)
  /\ WireIs(t, Total(t)) /\ Filled(t, ch.ptr)
Came(t) ==
  /\ Asked(t).read /\ ~twi.sta /\ twi.intflg
  /\ twi.stat = IF twi.ack THEN "RXD_ACK" ELSE "RXD_NAK"
  /\ twi.rx = ch.ptr + 1 /\ twi.data[3] = ch.ptr + 1
  /\ ch.ptr < Asked(t).len /\ twi.ack = (ch.ptr + 1 # Asked(t).len)
  /\ WireIs(t, Total(t)) /\ Filled(t, ch.ptr)
\* ... nobody has acknowledged, or another master has the bus; the bus broke down;
\* the repeated START was lost, and nothing more comes.
Refused(t) ==
  /\ ~twi.sta /\ twi.intflg /\ twi.stat \in {"ARB_LOST", "TX_AW_NAK", "TX_AR_NAK", "TXD_NAK"}
  /\ Len(twi.wire) < Total(t)
Errored == ~twi.sta /\ twi.intflg /\ twi.stat = "BUS_ERR"
Stuck == ~twi.sta /\ ~twi.intflg /\ twi.stat = "TXD_ACK" /\ twi.data = Nothing

Underway(t) ==
  /\ Loaded(t)
  /\ \/ Starting(t) \/ Started(t) \/ Addressed(t) \/ Wrote(t) \/ Writing(t)
     \/ Answering(t) \/ Awaiting(t) \/ Came(t) \/ Refused(t) \/ Errored \/ Stuck

\* The ISR is through, and says whether the transfer is: with an error of the bus
\* it says so whatever was carried.
Finished(t) ==
  /\ ch.status = "Idle" /\ ch.num = 0 /\ twi.intflg /\ ~twi.sta /\ ~twi.inten
  /\ IF ch.idx = 0
     THEN \/ twi.stat = "BUS_ERR"
          \/ WireIs(t, Total(t)) /\ Filled(t, ReadLength(asked[t]))
     ELSE Len(twi.wire) < Total(t)

ProbeStarts ==
  /\ twi.wire = <<>> /\ twi.data = Nothing
  /\ \/ twi.sta /\ ~twi.intflg /\ twi.stat = "IDLE"
     \/ ~twi.sta /\ twi.intflg /\ twi.stat \in {"TX_STA", "ARB_LOST", "BUS_ERR"}
ProbeAsks(t) ==
  /\ ~twi.sta
  /\ \/ /\ ~twi.intflg /\ twi.stat = "TX_STA" /\ twi.wire = <<>>
        /\ twi.data = <<"address", t, 0>>
     \/ twi.intflg /\ twi.stat = "TX_AW_ACK" /\ twi.wire = <<<<"address", t, 0>>>>
     \/ twi.intflg /\ twi.stat \in {"TX_AW_NAK", "BUS_ERR"}

\* Where the only user is, and how far the channel and the adapter are.
Progress(t) ==
  /\ at[t] \in {"app", "reset", "prepare", "arm", "probe start", "probe ack"} => ~twi.inten
  /\ at[t] \in {"prepare", "arm"} => FreshBus
  /\ at[t] = "arm" => Loaded(t) /\ ch.idx = 0 /\ ch.ptr = 0 /\ ~event
  /\ at[t] \in {"poll", "wait", "blocked"} =>
       IF ch.status = "Running" THEN ~event /\ Underway(t) ELSE Finished(t)
  /\ at[t] \in {"granted", "woken"} => Finished(t)
  /\ at[t] = "probe start" => ProbeStarts
  /\ at[t] = "probe ack" => ProbeAsks(t)

AloneInv ==
  /\ \A t, u \in Users : at[t] # "app" /\ at[u] # "app" => t = u
  /\ (\A t \in Users : at[t] = "app") => ~twi.inten
  /\ \A t \in Users : at[t] # "app" => Progress(t)

I2cInv == Shape /\ Owned /\ (sharing = "alone" => AloneInv)

-----------------------------------------------------------------------------
(* The registers.                                                          *)

LEMMA NothingIs == Nothing \in Symbols
BY DEF Nothing, Symbols

LEMMA RegsAre ==
  ASSUME NEW r \in Regs
  PROVE  /\ r.intflg \in BOOLEAN /\ r.inten \in BOOLEAN /\ r.sta \in BOOLEAN /\ r.stp \in BOOLEAN
         /\ r.ack \in BOOLEAN /\ r.stat \in Stats /\ r.data \in Symbols /\ r.rx \in Nat
         /\ r.wire \in Seq(Symbols)
BY DEF Regs

LEMMA ResetIs ==
  ASSUME NEW r \in Regs
  PROVE  /\ Reset(r) \in Regs
         /\ ~Reset(r).intflg /\ ~Reset(r).sta /\ Reset(r).stat = "IDLE" /\ Reset(r).data = Nothing
         /\ Reset(r).wire = <<>> /\ Reset(r).inten = r.inten
<1>1. <<>> \in Seq(Symbols) /\ "IDLE" \in Stats
  BY DEF Stats
<1>2. QED BY <1>1, NothingIs DEF Reset, Regs

LEMMA StopQuietIs ==
  ASSUME NEW r \in Regs
  PROVE  StopQuiet(r) \in Regs /\ ~StopQuiet(r).inten
BY ResetIs DEF StopQuiet, Regs

LEMMA GoesOn ==
  ASSUME NEW r \in Regs, GoOn(r)
  PROVE  /\ twi' \in Regs /\ ~twi'.sta
         /\ twi'.intflg = r.intflg /\ twi'.inten = r.inten /\ twi'.ack = r.ack /\ twi'.stat = r.stat
         /\ twi'.data = r.data /\ twi'.rx = r.rx /\ twi'.wire = r.wire
BY DEF GoOn, Regs

LEMMA Puts ==
  ASSUME twi \in Regs, NEW what \in Symbols, Put(what)
  PROVE  /\ twi' \in Regs /\ ~twi'.sta /\ ~twi'.intflg /\ twi'.data = what
         /\ twi'.inten = twi.inten /\ twi'.ack = twi.ack /\ twi'.stat = twi.stat
         /\ twi'.rx = twi.rx /\ twi'.wire = twi.wire
<1> DEFINE r == [twi EXCEPT !.data = what, !.intflg = FALSE]
<1>1. /\ r \in Regs /\ ~r.intflg /\ r.data = what /\ r.inten = twi.inten /\ r.ack = twi.ack
      /\ r.stat = twi.stat /\ r.rx = twi.rx /\ r.wire = twi.wire
  BY DEF Regs
<1> HIDE DEF r
<1>2. GoOn(r)
  BY DEF Put, r
<1>3. QED BY <1>1, <1>2, GoesOn

LEMMA Flagged ==
  ASSUME twi \in Regs, NEW stat \in Stats, Flag(stat)
  PROVE  /\ twi' \in Regs /\ twi'.intflg /\ twi'.stat = stat
         /\ twi'.sta = twi.sta /\ twi'.inten = twi.inten /\ twi'.ack = twi.ack
         /\ twi'.data = twi.data /\ twi'.rx = twi.rx /\ twi'.wire = twi.wire
BY DEF Flag, Regs

LEMMA AckedIs ==
  ASSUME twi \in Regs, NEW stat \in Stats, Acked(stat)
  PROVE  /\ twi' \in Regs /\ twi'.intflg /\ twi'.stat = stat
         /\ twi'.sta = twi.sta /\ twi'.inten = twi.inten /\ twi'.ack = twi.ack
         /\ twi'.data = Nothing /\ twi'.rx = 0
         /\ Len(twi'.wire) = Len(twi.wire) + 1 /\ twi'.wire[Len(twi.wire) + 1] = twi.data
         /\ \A i \in 1 .. Len(twi.wire) : twi'.wire[i] = twi.wire[i]
<1>1. twi.wire \in Seq(Symbols) /\ twi.data \in Symbols
  BY DEF Regs
<1>2. /\ Append(twi.wire, twi.data) \in Seq(Symbols)
      /\ Len(Append(twi.wire, twi.data)) = Len(twi.wire) + 1
      /\ Append(twi.wire, twi.data)[Len(twi.wire) + 1] = twi.data
      /\ \A i \in 1 .. Len(twi.wire) : Append(twi.wire, twi.data)[i] = twi.wire[i]
  BY <1>1, AppendProperties
<1>3. twi'.wire = Append(twi.wire, twi.data)
  BY DEF Acked, Regs
<1>4. /\ twi' \in Regs /\ twi'.intflg /\ twi'.stat = stat
      /\ twi'.sta = twi.sta /\ twi'.inten = twi.inten /\ twi'.ack = twi.ack
      /\ twi'.data = Nothing /\ twi'.rx = 0
  BY <1>2, NothingIs DEF Acked, Regs
<1>5. QED BY <1>2, <1>3, <1>4

\* What twi_xfer_complete does to the channel and the registers.
LEMMA Completes ==
  ASSUME twi \in Regs, NEW code \in {0, Aborted}, Complete(code)
  PROVE  /\ ch' \in Chans /\ ch'.msgs = <<>> /\ ch'.idx = code /\ ch'.num = 0 /\ ch'.status = "Idle"
         /\ twi' \in Regs /\ ~twi'.inten /\ twi'.intflg = twi.intflg /\ twi'.sta = twi.sta
         /\ twi'.wire = twi.wire /\ twi'.stat = twi.stat
<1>1. <<>> \in Seq(Messages)
  OBVIOUS
<1>2. /\ ch' \in Chans /\ ch'.msgs = <<>> /\ ch'.idx = code /\ ch'.num = 0 /\ ch'.status = "Idle"
  <2>1. ch' = [IdleChannel EXCEPT !.idx = code]
    BY DEF Complete
  <2>2. ch' = [msgs |-> <<>>, idx |-> code, ptr |-> 0, num |-> 0, status |-> "Idle"]
    BY <2>1 DEF IdleChannel
  <2>3. 0 \in Nat /\ 0 \in 0 .. 2 /\ code \in 0 .. 2 \cup {Aborted}
    OBVIOUS
  <2>4. QED BY <1>1, <2>2, <2>3 DEF Chans
<1>3. QED BY <1>2 DEF Complete, Regs

LEMMA Idles ==
  ASSUME NEW r, CleanUp(r)
  PROVE  /\ ch' \in Chans /\ ch'.msgs = <<>> /\ ch'.num = 0 /\ ch'.status = "Idle" /\ twi' = r
<1>1. <<>> \in Seq(Messages)
  OBVIOUS
<1>2. QED BY <1>1 DEF CleanUp, Chans, IdleChannel

\* The thread that EventFlags.set wakes.
LEMMA Raises ==
  ASSUME ThreadShape, event \in BOOLEAN, Raise
  PROVE  /\ event' \in BOOLEAN /\ at' \in [Users -> Places]
         /\ waiters' \subseteq waiters
         /\ \A u \in Users : /\ at'[u] = at[u] \/ (at[u] = "blocked" /\ at'[u] = "granted" /\ u \notin waiters')
<1>1. CASE waiters = {}
  BY <1>1 DEF Raise, ThreadShape
<1>2. CASE waiters # {}
  <2>1. PICK t : /\ event' = FALSE /\ waiters' = waiters \ {t}
                 /\ at' = IF at[t] = "blocked" THEN [at EXCEPT ![t] = "granted"] ELSE at
    BY <1>2 DEF Raise
  <2>2. QED BY <2>1 DEF ThreadShape, Places
<1>3. QED BY <1>1, <1>2

\* The calls a thread makes, and their arguments.
LEMMA TransferIs ==
  ASSUME NEW x \in Transfers \cup {<<>>}, x # <<>>
  PROVE  /\ Len(x) \in {1, 2} /\ \A i \in 1 .. Len(x) : x[i].read \in BOOLEAN /\ x[i].len \in Lengths
         /\ Len(x) = 2 => ~x[1].read /\ x[2].read
<1>1. /\ x \in Seq([read : BOOLEAN, len : Nat \ {0}]) /\ Len(x) <= 2
      /\ Len(x) = 2 => ~x[1].read /\ x[2].read
  BY I2cAssumption
<1>2. Len(x) # 0 /\ Len(x) \in Nat
  BY <1>1
<1>3. \A i \in 1 .. Len(x) : x[i] \in [read : BOOLEAN, len : Nat \ {0}]
  BY <1>1, ElementOfSeq
<1>4. Len(x) \in {1, 2}
  <2>1. \A n \in Nat : n # 0 /\ n <= 2 => n \in {1, 2}
    OBVIOUS
  <2>2. QED BY <1>1, <1>2, <2>1
<1>5. QED BY <1>1, <1>3, <1>4 DEF Lengths

LEMMA Goes ==
  ASSUME ThreadShape, NEW t \in Users, NEW place \in Places, Goto(t, place)
  PROVE  /\ at' \in [Users -> Places] /\ at'[t] = place
         /\ \A u \in Users : u # t => at'[u] = at[u]
BY DEF ThreadShape, Goto

LEMMA Returned ==
  ASSUME ThreadShape, NEW t \in Users, NEW v, Return(t, v)
  PROVE  /\ ThreadShape' /\ verdict' = v /\ at'[t] = "app"
         /\ \A u \in Users : u # t => at'[u] = at[u] /\ asked'[u] = asked[u] /\ buffer'[u] = buffer[u]
<1>1. /\ Goto(t, "app") /\ verdict' = v
      /\ asked' = [asked EXCEPT ![t] = <<>>] /\ buffer' = [buffer EXCEPT ![t] = <<>>]
  BY DEF Return
<1>2. /\ at' \in [Users -> Places] /\ at'[t] = "app" /\ \A u \in Users : u # t => at'[u] = at[u]
  BY <1>1, Goes DEF Places
<1>3. /\ asked' \in [Users -> Transfers \cup {<<>>}] /\ asked'[t] = <<>>
      /\ \A u \in Users : u # t => asked'[u] = asked[u]
  BY <1>1 DEF ThreadShape
<1>4. /\ DOMAIN buffer' = Users /\ buffer'[t] = <<>>
      /\ \A u \in Users : u # t => buffer'[u] = buffer[u]
  BY <1>1 DEF ThreadShape
<1>5. <<>> \in [1 .. ReadLength(<<>>) -> Nat]
  BY DEF ReadLength
<1>6. ASSUME NEW u \in Users
      PROVE  /\ buffer'[u] \in [1 .. ReadLength(asked'[u]) -> Nat]
             /\ at'[u] = "app" => asked'[u] = <<>>
             /\ at'[u] \in Inside => asked'[u] # <<>>
  BY <1>2, <1>3, <1>4, <1>5 DEF ThreadShape, Inside
<1>7. ThreadShape'
  BY <1>2, <1>3, <1>4, <1>6 DEF ThreadShape, ReadLength
<1>8. QED BY <1>1, <1>2, <1>3, <1>4, <1>7

\* A thread that moves on within its call.
LEMMA MovedOn ==
  ASSUME ThreadShape, NEW t \in Users, NEW place \in Places, Goto(t, place), Stay,
         place = "app" => asked[t] = <<>>, place \in Inside => asked[t] # <<>>
  PROVE  ThreadShape'
<1>1. /\ at' \in [Users -> Places] /\ at'[t] = place /\ \A u \in Users : u # t => at'[u] = at[u]
  BY Goes
<1>2. UNCHANGED <<asked, buffer>>
  BY DEF Stay
<1>3. QED BY <1>1, <1>2 DEF ThreadShape, ReadLength

\* The channel after the messages are in it.
LEMMA LoadIs ==
  ASSUME ChanShape, ThreadShape, NEW t \in Users, asked[t] # <<>>, ch' = Load(t)
  PROVE  /\ ChanShape'
         /\ ch'.status = "Running" /\ ch'.idx = 0 /\ ch'.ptr = 0 /\ ch'.num = Len(asked[t])
         /\ \A i \in 1 .. ch'.num : ch'.msgs[i] = Message(t, asked[t][i])
         /\ \A i \in 1 .. Len(ch'.msgs) : \/ ch'.msgs[i].of = t
                                          \/ \E j \in 1 .. Len(ch.msgs) : ch'.msgs[i] = ch.msgs[j]
         /\ ch.msgs = <<>> => Len(ch'.msgs) = ch'.num
<1> DEFINE x == asked[t]
           n == Len(x)
           new == [i \in 1 .. n |-> Message(t, x[i])]
           old == SubSeq(ch.msgs, n + 1, Len(ch.msgs))
<1>1. /\ x \in Transfers \cup {<<>>} /\ x # <<>>
  BY DEF ThreadShape
<1>2. n \in {1, 2} /\ \A i \in 1 .. n : x[i].read \in BOOLEAN /\ x[i].len \in Lengths
  BY <1>1, TransferIs
<1>3. ch.msgs \in Seq(Messages) /\ Len(ch.msgs) \in Nat
  BY DEF ChanShape, Chans
<1>4. ch' = [msgs |-> new \o old, idx |-> 0, ptr |-> 0, num |-> n, status |-> "Running"]
  BY DEF Load
<1> HIDE DEF x, n
<1>5. /\ new \in Seq(Messages) /\ Len(new) = n
      /\ \A i \in 1 .. n : new[i] = Message(t, x[i]) /\ new[i].of = t
  <2>1. \A i \in 1 .. n : Message(t, x[i]) \in Messages /\ Message(t, x[i]).of = t
    BY <1>2 DEF Message, Messages
  <2>2. new \in [1 .. n -> Messages]
    BY <2>1
  <2>3. n \in Nat
    BY <1>2
  <2>4. QED BY <2>1, <2>2, <2>3
<1>6. /\ old \in Seq(Messages)
      /\ \A i \in 1 .. Len(old) : \E j \in 1 .. Len(ch.msgs) : old[i] = ch.msgs[j]
      /\ ch.msgs = <<>> => Len(old) = 0
  <2>1. CASE Len(ch.msgs) <= n
    <3>1. old = <<>>
      BY <1>2, <1>3, <2>1
    <3>2. <<>> \in Seq(Messages) /\ Len(<<>>) = 0 /\ \A i \in 1 .. 0 : FALSE
      OBVIOUS
    <3>3. QED BY <3>1, <3>2, Zenon
  <2>2. CASE n < Len(ch.msgs)
    <3>1. /\ n + 1 \in 1 .. Len(ch.msgs) + 1 /\ Len(ch.msgs) \in n + 1 - 1 .. Len(ch.msgs)
      BY <1>2, <1>3, <2>2
    <3>2. /\ old \in Seq(Messages) /\ Len(old) = Len(ch.msgs) - n
      BY <1>2, <1>3, <2>2, <3>1
    <3>3. \A i \in 1 .. Len(ch.msgs) - n : old[i] = ch.msgs[n + i] /\ n + i \in 1 .. Len(ch.msgs)
      BY <1>2, <1>3, <2>2
    <3>4. ch.msgs # <<>>
      BY <1>2, <2>2
    <3>5. ASSUME NEW i \in 1 .. Len(old) PROVE \E j \in 1 .. Len(ch.msgs) : old[i] = ch.msgs[j]
      <4>1. i \in 1 .. Len(ch.msgs) - n
        BY <3>2
      <4>2. QED BY <3>3, <4>1
    <3>6. QED BY <3>2, <3>4, <3>5
  <2>3. QED BY <1>2, <1>3, <2>1, <2>2
<1> HIDE DEF new, old
<1> DEFINE both == new \o old
<1>7. /\ both \in Seq(Messages) /\ Len(both) = Len(new) + Len(old)
      /\ \A i \in 1 .. Len(new) + Len(old) :
           both[i] = IF i <= Len(new) THEN new[i] ELSE old[i - Len(new)]
  BY <1>5, <1>6, ConcatProperties
<1> HIDE DEF both
<1>8. Len(old) \in Nat /\ n \in Nat /\ Len(both) = n + Len(old)
  BY <1>2, <1>5, <1>6, <1>7
<1>9. \A i \in 1 .. n : both[i] = Message(t, x[i])
  <2>1. \A i \in 1 .. n : i \in 1 .. n + Len(old) /\ i <= n
    BY <1>8
  <2>2. QED BY <1>5, <1>7, <2>1
<1>10. ASSUME NEW i \in 1 .. Len(both)
       PROVE  both[i].of = t \/ \E j \in 1 .. Len(ch.msgs) : both[i] = ch.msgs[j]
  <2>1. CASE i <= n
    <3>1. i \in 1 .. n
      BY <1>8, <2>1
    <3>2. QED BY <1>5, <1>9, <3>1
  <2>2. CASE ~(i <= n)
    <3>1. i - n \in 1 .. Len(old) /\ both[i] = old[i - n]
      BY <1>5, <1>7, <1>8, <2>2
    <3>2. QED BY <1>6, <3>1
  <2>3. QED BY <2>1, <2>2
<1>11. /\ ch' \in Chans /\ ch'.msgs = both /\ ch'.num = n /\ ch'.status = "Running"
       /\ ch'.idx = 0 /\ ch'.ptr = 0
  <2>1. ch' = [msgs |-> both, idx |-> 0, ptr |-> 0, num |-> n, status |-> "Running"]
    BY <1>4 DEF both
  <2>2. 0 \in Nat /\ n \in 0 .. 2 /\ 0 \in 0 .. 2 \cup {Aborted}
    BY <1>2
  <2>3. QED BY <1>7, <2>1, <2>2 DEF Chans
<1>12. ChanShape'
  BY <1>2, <1>8, <1>11 DEF ChanShape
<1>13. QED BY <1>6, <1>8, <1>9, <1>10, <1>11, <1>12 DEF x, n

\* The message the ISR works on.
LEMMA CurrentIs ==
  ASSUME ChanShape, HasMessage
  PROVE  Current.of \in Users /\ Current.read \in BOOLEAN /\ Current.len \in Lengths
<1>1. ch.msgs \in Seq(Messages) /\ ch.num <= Len(ch.msgs) /\ ch.idx < ch.num
      /\ ch.idx \in 0 .. 2 \cup {Aborted} /\ ch.num \in 0 .. 2
  BY DEF ChanShape, Chans, HasMessage
<1>2. ch.idx + 1 \in 1 .. Len(ch.msgs)
  BY <1>1 DEF Aborted
<1>3. ch.msgs[ch.idx + 1] \in Messages
  BY <1>1, <1>2, ElementOfSeq
<1>4. QED BY <1>3 DEF Current, Messages

LEMMA Stores ==
  ASSUME ThreadShape, ChanShape, HasMessage, twi \in Regs, Store
  PROVE  /\ DOMAIN buffer' = Users
         /\ \A t \in Users : buffer'[t] \in [1 .. ReadLength(asked[t]) -> Nat]
<1>1. twi.data[3] \in Nat
  BY DEF Regs, Symbols
<1>2. buffer' = [buffer EXCEPT ![Current.of] = [buffer[Current.of] EXCEPT ![ch.ptr + 1] = twi.data[3]]]
  BY DEF Store
<1>3. \A t \in Users : buffer[t] \in [1 .. ReadLength(asked[t]) -> Nat]
  BY DEF ThreadShape
<1>4. QED BY <1>1, <1>2, <1>3 DEF ThreadShape

\* What the end of a message does to the channel, the event and the threads.
LEMMA NextIs ==
  ASSUME Shape, HasMessage, NextMessage
  PROVE  /\ ChanShape' /\ twi' \in Regs /\ event' \in BOOLEAN /\ at' \in [Users -> Places]
         /\ ch'.msgs = ch.msgs \/ ch'.msgs = <<>>
         /\ waiters' \subseteq waiters
         /\ \A u \in Users : at'[u] = at[u] \/ (at[u] = "blocked" /\ at'[u] = "granted" /\ u \notin waiters')
<1>1. ChanShape /\ ThreadShape /\ twi \in Regs /\ event \in BOOLEAN
  BY DEF Shape
<1>2. CASE ch.idx + 1 >= ch.num
  <2>1. Complete(0)
    BY <1>2 DEF NextMessage
  <2>2. Raise
    BY <2>1 DEF Complete
  <2>3. ChanShape' /\ ch'.msgs = <<>> /\ twi' \in Regs
    BY <1>1, <2>1, Completes DEF ChanShape
  <2>4. QED BY <1>1, <2>2, <2>3, Raises
<1>3. CASE ~(ch.idx + 1 >= ch.num)
  <2>1. /\ ch' = [ch EXCEPT !.idx = @ + 1, !.ptr = 0]
        /\ \/ GoOn([twi EXCEPT !.stat = "TX_RESTA"])
           \/ GoOn([twi EXCEPT !.intflg = FALSE])
        /\ UNCHANGED <<event, waiters, at>>
    BY <1>3 DEF NextMessage
  <2>2. ch.idx + 1 \in 0 .. 2
    BY <1>1, <1>3 DEF ChanShape, Chans, Aborted
  <2>3. ChanShape' /\ ch'.msgs = ch.msgs
    BY <1>1, <2>1, <2>2 DEF ChanShape, Chans
  <2>4. twi' \in Regs
    <3>1. [twi EXCEPT !.stat = "TX_RESTA"] \in Regs /\ [twi EXCEPT !.intflg = FALSE] \in Regs
      BY <1>1 DEF Regs, Stats
    <3>2. QED BY <2>1, <3>1, GoesOn
  <2>5. QED BY <1>1, <2>1, <2>3, <2>4 DEF ThreadShape
<1>4. QED BY <1>2, <1>3

\* The steps of the ISR.
LEMMA IsrShape ==
  ASSUME Shape, Isr
  PROVE  /\ Shape' /\ asked' = asked /\ sharing' = sharing /\ verdict' = verdict
         /\ ch'.msgs = ch.msgs \/ ch'.msgs = <<>>
         /\ waiters' \subseteq waiters
         /\ \A u \in Users : at'[u] = at[u] \/ (at[u] = "blocked" /\ at'[u] = "granted" /\ u \notin waiters')
<1>1. ChanShape /\ ThreadShape /\ twi \in Regs /\ event \in BOOLEAN
  BY DEF Shape
<1> DEFINE Kept == /\ ch'.msgs = ch.msgs \/ ch'.msgs = <<>>
                   /\ waiters' \subseteq waiters
                   /\ \A u \in Users : at'[u] = at[u] \/ (at[u] = "blocked" /\ at'[u] = "granted" /\ u \notin waiters')
           Effect == /\ ChanShape' /\ twi' \in Regs /\ event' \in BOOLEAN /\ at' \in [Users -> Places] /\ Kept
           Filling == /\ DOMAIN buffer' = Users
                      /\ \A t \in Users : buffer'[t] \in [1 .. ReadLength(asked[t]) -> Nat]
<1>2. asked' = asked /\ sharing' = sharing /\ verdict' = verdict
  BY DEF Isr, IsrAddress, IsrSend, IsrListen, IsrReceive, IsrLast, IsrAbort
<1>3. ASSUME UNCHANGED <<event, waiters, at>> PROVE event' \in BOOLEAN /\ at' \in [Users -> Places]
           /\ waiters' \subseteq waiters
           /\ \A u \in Users : at'[u] = at[u]
  BY <1>1, <1>3 DEF ThreadShape
<1>4. UNCHANGED buffer => Filling
  BY <1>1 DEF ThreadShape
<1>5. ASSUME NEW code \in {0, Aborted}, Complete(code) PROVE Effect
  <2>1. Raise
    BY <1>5 DEF Complete
  <2>2. ChanShape' /\ ch'.msgs = <<>> /\ twi' \in Regs
    BY <1>1, <1>5, Completes DEF ChanShape
  <2>3. QED BY <1>1, <2>1, <2>2, Raises
<1>6. ASSUME HasMessage, ch.ptr < Current.len PROVE [ch EXCEPT !.ptr = @ + 1] \in Chans
  BY <1>1 DEF ChanShape, Chans
<1>7. CASE IsrAddress
  <2>1. HasMessage /\ UNCHANGED <<ch, event, waiters, at, asked, buffer>>
        /\ Put(<<"address", Current.of, IF Current.read THEN 1 ELSE 0>>)
    BY <1>7 DEF IsrAddress
  <2>2. <<"address", Current.of, IF Current.read THEN 1 ELSE 0>> \in Symbols
    BY <1>1, <2>1, CurrentIs, I2cAssumption DEF Symbols
  <2>3. twi' \in Regs
    BY <1>1, <2>1, <2>2, Puts
  <2>4. Effect
    BY <1>1, <1>3, <2>1, <2>3 DEF ChanShape
  <2>5. QED BY <1>1, <1>2, <1>4, <2>1, <2>4 DEF Shape, ThreadShape, Inside, Places
<1>8. CASE IsrSend
  <2>1. HasMessage /\ UNCHANGED <<asked, buffer>>
    BY <1>8 DEF IsrSend
  <2>2. CASE ch.ptr < Current.len
    <3>1. /\ Put(<<"byte", Current.of, ch.ptr + 1>>)
          /\ ch' = [ch EXCEPT !.ptr = @ + 1] /\ UNCHANGED <<event, waiters, at>>
      BY <1>8, <2>2 DEF IsrSend
    <3>2. Current.of \in Users /\ Users \subseteq Nat
      BY <1>1, <2>1, CurrentIs, I2cAssumption
    <3>8. ch.ptr \in Nat
      BY <1>1 DEF ChanShape, Chans
    <3>7. <<"byte", Current.of, ch.ptr + 1>> \in Symbols
      <4>1. \A k \in Nat : k + 1 \in Nat
        OBVIOUS
      <4>2. \A u, k \in Nat : <<"byte", u, k>> \in Symbols
        BY DEF Symbols
      <4>3. QED BY <3>2, <3>8, <4>1, <4>2, Zenon
    <3>3. twi' \in Regs
      BY <1>1, <3>1, <3>7, Puts
    <3>4. ChanShape' /\ ch'.msgs = ch.msgs
      BY <1>1, <1>6, <2>1, <2>2, <3>1 DEF ChanShape, Chans
    <3>5. Effect
      BY <1>3, <3>1, <3>3, <3>4
    <3>6. QED BY <1>1, <1>2, <1>4, <2>1, <3>5 DEF Shape, ThreadShape, Inside, Places
  <2>3. CASE ~(ch.ptr < Current.len)
    <3>1. NextMessage
      BY <1>8, <2>3 DEF IsrSend
    <3>2. Effect
      BY <2>1, <3>1, NextIs
    <3>3. QED BY <1>1, <1>2, <1>4, <2>1, <3>2 DEF Shape, ThreadShape, Inside, Places
  <2>4. QED BY <2>2, <2>3
<1>9. CASE IsrListen
  <2>1. /\ HasMessage /\ UNCHANGED <<ch, event, waiters, at, asked, buffer>>
        /\ GoOn([twi EXCEPT !.ack = @ \/ Current.len > 1, !.intflg = FALSE])
    BY <1>9 DEF IsrListen
  <2>2. [twi EXCEPT !.ack = @ \/ Current.len > 1, !.intflg = FALSE] \in Regs
    BY <1>1 DEF Regs
  <2>3. twi' \in Regs
    BY <2>1, <2>2, GoesOn
  <2>4. Effect
    BY <1>1, <1>3, <2>1, <2>3 DEF ChanShape
  <2>5. QED BY <1>1, <1>2, <1>4, <2>1, <2>4 DEF Shape, ThreadShape, Inside, Places
<1>10. CASE IsrReceive
  <2>1. HasMessage /\ UNCHANGED asked
    BY <1>10 DEF IsrReceive
  <2>2. CASE ch.ptr < Current.len
    <3>1. /\ GoOn([twi EXCEPT !.ack = @ /\ ch.ptr + 2 # Current.len, !.intflg = FALSE])
          /\ Store /\ ch' = [ch EXCEPT !.ptr = @ + 1] /\ UNCHANGED <<event, waiters, at>>
      BY <1>10, <2>2 DEF IsrReceive
    <3>2. [twi EXCEPT !.ack = @ /\ ch.ptr + 2 # Current.len, !.intflg = FALSE] \in Regs
      BY <1>1 DEF Regs
    <3>3. twi' \in Regs
      BY <3>1, <3>2, GoesOn
    <3>4. ChanShape' /\ ch'.msgs = ch.msgs
      BY <1>1, <1>6, <2>1, <2>2, <3>1 DEF ChanShape, Chans
    <3>5. Effect
      BY <1>3, <3>1, <3>3, <3>4
    <3>6. Filling
      BY <1>1, <2>1, <3>1, Stores
    <3>7. QED BY <1>1, <1>2, <2>1, <3>5, <3>6 DEF Shape, ThreadShape, Inside, Places
  <2>3. CASE ~(ch.ptr < Current.len)
    <3>1. Complete(Aborted) /\ UNCHANGED buffer
      BY <1>10, <2>3 DEF IsrReceive
    <3>2. Effect
      BY <1>5, <3>1
    <3>3. QED BY <1>1, <1>2, <1>4, <2>1, <3>1, <3>2 DEF Shape, ThreadShape, Inside, Places
  <2>4. QED BY <2>2, <2>3
<1>11. CASE IsrLast
  <2>1. HasMessage /\ UNCHANGED asked
    BY <1>11 DEF IsrLast
  <2>2. CASE ch.ptr + 1 = Current.len
    <3>1. Store /\ NextMessage
      BY <1>11, <2>2 DEF IsrLast
    <3>2. Effect
      BY <2>1, <3>1, NextIs
    <3>3. Filling
      BY <1>1, <2>1, <3>1, Stores
    <3>4. QED BY <1>1, <1>2, <2>1, <3>2, <3>3 DEF Shape, ThreadShape, Inside, Places
  <2>3. CASE ~(ch.ptr + 1 = Current.len)
    <3>1. Complete(Aborted) /\ UNCHANGED buffer
      BY <1>11, <2>3 DEF IsrLast
    <3>2. Effect
      BY <1>5, <3>1
    <3>3. QED BY <1>1, <1>2, <1>4, <2>1, <3>1, <3>2 DEF Shape, ThreadShape, Inside, Places
  <2>4. QED BY <2>2, <2>3
<1>12. CASE IsrAbort
  <2>1. (\E code \in {0, Aborted} : Complete(code)) /\ UNCHANGED <<asked, buffer>>
    BY <1>12 DEF IsrAbort
  <2>2. Effect
    BY <1>5, <2>1
  <2>3. QED BY <1>1, <1>2, <1>4, <2>1, <2>2 DEF Shape, ThreadShape, Inside, Places
<1>13. QED BY <1>7, <1>8, <1>9, <1>10, <1>11, <1>12 DEF Isr

\* The steps of the adapter.
LEMMA BusShape ==
  ASSUME Shape, Bus
  PROVE  Shape' /\ UNCHANGED <<ch, event, waiters, at, asked, buffer, verdict, sharing>>
<1>1. /\ UNCHANGED <<ch, event, waiters, at, asked, buffer, verdict, sharing>>
      /\ BusStart \/ BusAddress \/ BusSend \/ BusReceive \/ BusError
      /\ twi \in Regs
  BY DEF Bus, Shape
<1>2. CASE BusStart
  <2>1. <<>> \in Seq(Symbols)
    OBVIOUS
  <2>2. twi' \in Regs
    BY <1>1, <1>2, <2>1 DEF BusStart, Regs, Stats
  <2>3. QED BY <1>1, <2>2 DEF Shape, ChanShape, ThreadShape
<1>3. CASE BusAddress
  <2>1. \E stat \in Stats : Acked(stat) \/ Flag(stat)
    BY <1>3 DEF BusAddress, Stats
  <2>2. twi' \in Regs
    BY <1>1, <2>1, AckedIs, Flagged
  <2>3. QED BY <1>1, <2>2 DEF Shape, ChanShape, ThreadShape
<1>4. CASE BusSend
  <2>1. \E stat \in Stats : Acked(stat) \/ Flag(stat)
    BY <1>4 DEF BusSend, Stats
  <2>2. twi' \in Regs
    BY <1>1, <2>1, AckedIs, Flagged
  <2>3. QED BY <1>1, <2>2 DEF Shape, ChanShape, ThreadShape
<1>5. CASE BusReceive
  <2>1. twi.rx + 1 \in Nat
    BY <1>1 DEF Regs
  <2>4. <<"in", 0, twi.rx + 1>> \in Symbols
    BY <2>1 DEF Symbols
  <2>5. PICK stat \in Stats :
          twi' = [twi EXCEPT !.intflg = TRUE, !.rx = @ + 1, !.stat = stat,
                             !.data = <<"in", 0, twi.rx + 1>>]
    <3>1. CASE twi.ack
      BY <1>5, <3>1 DEF BusReceive, Stats
    <3>2. CASE ~twi.ack
      BY <1>5, <3>2 DEF BusReceive, Stats
    <3>3. QED BY <3>1, <3>2
  <2>2. twi' \in Regs
    BY <1>1, <2>1, <2>4, <2>5 DEF Regs
  <2>3. QED BY <1>1, <2>2 DEF Shape, ChanShape, ThreadShape
<1>6. CASE BusError
  <2>1. Flag("BUS_ERR") /\ "BUS_ERR" \in Stats
    BY <1>6 DEF BusError, Stats
  <2>2. twi' \in Regs
    BY <1>1, <2>1, Flagged
  <2>3. QED BY <1>1, <2>2 DEF Shape, ChanShape, ThreadShape
<1>7. QED BY <1>1, <1>2, <1>3, <1>4, <1>5, <1>6

\* A thread's step: its messages stay while it is inside, a waiter is a waiter.
LEMMA OwnedStays ==
  ASSUME Shape, Owned, NEW t \in Users,
         \A u \in Users : u # t => at'[u] = at[u],
         \/ ch'.msgs = <<>>
         \/ ch'.msgs = ch.msgs /\ (at[t] \in Inside => at'[t] \in Inside),
         waiters' \subseteq waiters \cup {t},
         t \in waiters' => at'[t] \in {"blocked", "expired"}
  PROVE  Owned'
<1>1. \A u \in waiters' : u \in Users /\ at'[u] \in {"blocked", "expired"}
  BY DEF Owned
<1>2. ASSUME NEW i \in 1 .. Len(ch'.msgs) PROVE at'[ch'.msgs[i].of] \in Inside
  <2>1. CASE ch'.msgs = <<>>
    BY <2>1
  <2>2. CASE ch'.msgs = ch.msgs /\ (at[t] \in Inside => at'[t] \in Inside)
    <3>1. i \in 1 .. Len(ch.msgs) /\ ch.msgs \in Seq(Messages)
      BY <2>2 DEF Shape, ChanShape, Chans
    <3>2. ch.msgs[i] \in Messages
      BY <3>1, ElementOfSeq
    <3>3. ch.msgs[i].of \in Users /\ at[ch.msgs[i].of] \in Inside
      BY <3>1, <3>2 DEF Messages, Owned
    <3>4. QED BY <2>2, <3>3
  <2>3. QED BY <2>1, <2>2
<1>3. QED BY <1>1, <1>2 DEF Owned

\* The steps of xfer.
LEMMA XferShape ==
  ASSUME Shape, Owned, NEW t \in Users, Xfer(t)
  PROVE  Shape' /\ Owned' /\ sharing' = sharing
<1>1. ChanShape /\ ThreadShape /\ twi \in Regs /\ event \in BOOLEAN
  BY DEF Shape
<1>2. sharing' = sharing
  BY DEF Xfer, XferCheck, XferReset, XferPrepare, XferArm, XferPoll, XferWait, XferWake,
         XferGiveUp, XferFinish
<1>3. t \in waiters => at[t] \in {"blocked", "expired"}
  BY DEF Owned
<1>4. UNCHANGED ch => ChanShape'
  BY <1>1 DEF ChanShape
<1>5. CASE XferCheck(t)
  <2>1. at[t] = "app" /\ UNCHANGED <<ch, twi, event, waiters>>
    BY <1>5 DEF XferCheck, MayCall
  <2>2. CASE ch.status # "Idle"
    <3>1. Return(t, "Busy")
      BY <1>5, <2>2 DEF XferCheck
    <3>2. ThreadShape' /\ at'[t] = "app" /\ \A u \in Users : u # t => at'[u] = at[u]
      BY <1>1, <3>1, Returned
    <3>3. Owned'
      BY <1>3, <2>1, <3>2, OwnedStays DEF Inside
    <3>4. QED BY <1>1, <1>2, <1>4, <2>1, <3>2, <3>3 DEF Shape
  <2>3. CASE ~(ch.status # "Idle")
    <3>1. PICK x \in Transfers :
            /\ Goto(t, "reset")
            /\ asked' = [asked EXCEPT ![t] = x]
            /\ buffer' = [buffer EXCEPT ![t] = [i \in 1 .. ReadLength(x) |-> 0]]
      BY <1>5, <2>3 DEF XferCheck
    <3>2. at' \in [Users -> Places] /\ at'[t] = "reset" /\ \A u \in Users : u # t => at'[u] = at[u]
      BY <1>1, <3>1, Goes DEF Places
    <3>3. /\ asked' \in [Users -> Transfers \cup {<<>>}] /\ asked'[t] = x
          /\ \A u \in Users : u # t => asked'[u] = asked[u]
      BY <1>1, <3>1 DEF ThreadShape
    <3>4. /\ DOMAIN buffer' = Users /\ buffer'[t] \in [1 .. ReadLength(x) -> Nat]
          /\ \A u \in Users : u # t => buffer'[u] = buffer[u]
      BY <1>1, <3>1 DEF ThreadShape
    <3>5. ASSUME NEW u \in Users
          PROVE  /\ buffer'[u] \in [1 .. ReadLength(asked'[u]) -> Nat]
                 /\ at'[u] = "app" => asked'[u] = <<>>
                 /\ at'[u] \in Inside => asked'[u] # <<>>
      BY <1>1, <3>2, <3>3, <3>4 DEF ThreadShape, Inside
    <3>6. ThreadShape'
      BY <3>2, <3>3, <3>4, <3>5 DEF ThreadShape, ReadLength
    <3>7. Owned'
      BY <1>3, <2>1, <3>2, OwnedStays DEF Inside
    <3>8. QED BY <1>1, <1>2, <1>4, <2>1, <3>6, <3>7 DEF Shape
  <2>4. QED BY <2>2, <2>3
<1>6. CASE XferReset(t)
  <2>1. at[t] = "reset" /\ twi' = Reset(twi) /\ Goto(t, "prepare") /\ Stay
        /\ UNCHANGED <<ch, event, waiters>>
    BY <1>6 DEF XferReset, Stay
  <2>2. ThreadShape' /\ at'[t] = "prepare" /\ \A u \in Users : u # t => at'[u] = at[u]
    BY <1>1, <2>1, Goes, MovedOn DEF Places, Inside
  <2>3. Owned'
    BY <1>3, <2>1, <2>2, OwnedStays DEF Inside
  <2>4. QED BY <1>1, <1>2, <1>4, <2>1, <2>2, <2>3, ResetIs DEF Shape
<1>7. CASE XferPrepare(t)
  <2>1. at[t] = "prepare" /\ UNCHANGED waiters
    BY <1>7 DEF XferPrepare
  <2>2. CASE Return(t, "Busy") /\ UNCHANGED <<ch, twi, event>>
    <3>1. ThreadShape' /\ at'[t] = "app" /\ \A u \in Users : u # t => at'[u] = at[u]
      BY <1>1, <2>2, Returned
    <3>2. Owned'
      BY <1>3, <2>1, <2>2, <3>1, OwnedStays DEF Inside
    <3>3. QED BY <1>1, <1>2, <1>4, <2>2, <3>1, <3>2 DEF Shape
  <2>3. CASE twi' = [twi EXCEPT !.inten = FALSE] /\ asked[t] = <<>> /\ Return(t, "Ok")
             /\ UNCHANGED <<ch, event>>
    <3>1. ThreadShape' /\ at'[t] = "app" /\ \A u \in Users : u # t => at'[u] = at[u]
      BY <1>1, <2>3, Returned
    <3>2. Owned'
      BY <1>3, <2>1, <2>3, <3>1, OwnedStays DEF Inside
    <3>3. twi' \in Regs
      BY <1>1, <2>3 DEF Regs
    <3>4. QED BY <1>1, <1>2, <1>4, <2>3, <3>1, <3>2, <3>3 DEF Shape
  <2>4. CASE /\ twi' = [twi EXCEPT !.inten = FALSE] /\ asked[t] # <<>>
             /\ ch' = Load(t) /\ event' = FALSE /\ Goto(t, "arm") /\ Stay
    <3>1. ThreadShape' /\ at'[t] = "arm" /\ \A u \in Users : u # t => at'[u] = at[u]
      BY <1>1, <2>4, Goes, MovedOn DEF Places, Inside
    <3>2. /\ ChanShape'
          /\ \A i \in 1 .. Len(ch'.msgs) : \/ ch'.msgs[i].of = t
                                           \/ \E j \in 1 .. Len(ch.msgs) : ch'.msgs[i] = ch.msgs[j]
      BY <1>1, <2>4, LoadIs
    <3>3. \A j \in 1 .. Len(ch.msgs) : ch.msgs[j].of \in Users /\ at[ch.msgs[j].of] \in Inside
      <4>1. ch.msgs \in Seq(Messages)
        BY <1>1 DEF ChanShape, Chans
      <4>2. \A j \in 1 .. Len(ch.msgs) : ch.msgs[j] \in Messages
        BY <4>1, ElementOfSeq
      <4>3. QED BY <4>2 DEF Owned, Messages
    <3>4. \A i \in 1 .. Len(ch'.msgs) : at'[ch'.msgs[i].of] \in Inside
      BY <3>1, <3>2, <3>3 DEF Inside
    <3>5. Owned'
      BY <1>3, <2>1, <3>1, <3>4 DEF Owned
    <3>6. twi' \in Regs
      BY <1>1, <2>4 DEF Regs
    <3>7. QED BY <1>2, <2>4, <3>1, <3>2, <3>5, <3>6 DEF Shape
  <2>5. QED BY <1>7, <2>2, <2>3, <2>4 DEF XferPrepare
<1>8. CASE XferArm(t)
  <2>1. at[t] = "arm" /\ Goto(t, "poll") /\ Stay /\ UNCHANGED <<ch, event, waiters>>
        /\ twi' = [twi EXCEPT !.inten = TRUE, !.stp = FALSE, !.ack = FALSE, !.sta = TRUE]
    BY <1>8 DEF XferArm, Stay
  <2>2. asked[t] # <<>>
    BY <1>1, <2>1 DEF ThreadShape, Inside
  <2>3. ThreadShape' /\ at'[t] = "poll" /\ \A u \in Users : u # t => at'[u] = at[u]
    BY <1>1, <2>1, <2>2, Goes, MovedOn DEF Places, Inside
  <2>4. Owned'
    BY <1>3, <2>1, <2>3, OwnedStays DEF Inside
  <2>5. twi' \in Regs
    BY <1>1, <2>1 DEF Regs
  <2>6. QED BY <1>1, <1>2, <1>4, <2>1, <2>3, <2>4, <2>5 DEF Shape
<1>9. CASE XferPoll(t)
  <2>1. at[t] = "poll" /\ UNCHANGED <<event, waiters>>
    BY <1>9 DEF XferPoll
  <2>2. CASE Goto(t, "wait") /\ Stay /\ UNCHANGED <<ch, twi>>
    <3>1. asked[t] # <<>>
      BY <1>1, <2>1 DEF ThreadShape, Inside
    <3>2. ThreadShape' /\ at'[t] = "wait" /\ \A u \in Users : u # t => at'[u] = at[u]
      BY <1>1, <2>2, <3>1, Goes, MovedOn DEF Places, Inside
    <3>3. Owned'
      BY <1>3, <2>1, <2>2, <3>2, OwnedStays DEF Inside
    <3>4. QED BY <1>1, <1>2, <1>4, <2>1, <2>2, <3>2, <3>3 DEF Shape
  <2>3. CASE CleanUp(StopQuiet(twi)) /\ Return(t, "StartFail")
    <3>1. ThreadShape' /\ at'[t] = "app" /\ \A u \in Users : u # t => at'[u] = at[u]
      BY <1>1, <2>3, Returned
    <3>2. /\ ch' \in Chans /\ ch'.msgs = <<>> /\ ch'.num = 0 /\ ch'.status = "Idle"
          /\ twi' = StopQuiet(twi)
      BY <2>3, Idles
    <3>3. Owned'
      BY <1>3, <2>1, <3>1, <3>2, OwnedStays
    <3>4. QED BY <1>1, <1>2, <2>1, <3>1, <3>2, <3>3, StopQuietIs DEF Shape, ChanShape
  <2>4. QED BY <1>9, <2>2, <2>3 DEF XferPoll
<1>10. CASE XferWait(t)
  <2>1. /\ at[t] = "wait" /\ Stay /\ UNCHANGED <<ch, twi>> /\ event' = FALSE
        /\ \/ Goto(t, "woken") /\ UNCHANGED waiters
           \/ Goto(t, "blocked") /\ waiters' = waiters \cup {t}
    BY <1>10 DEF XferWait, Stay
  <2>2. asked[t] # <<>>
    BY <1>1, <2>1 DEF ThreadShape, Inside
  <2>3. /\ ThreadShape' /\ \A u \in Users : u # t => at'[u] = at[u]
        /\ \/ at'[t] = "woken" /\ UNCHANGED waiters
           \/ at'[t] = "blocked" /\ waiters' = waiters \cup {t}
    BY <1>1, <2>1, <2>2, Goes, MovedOn DEF Places, Inside
  <2>4. Owned'
    BY <1>3, <2>1, <2>3, OwnedStays DEF Inside
  <2>5. QED BY <1>1, <1>2, <1>4, <2>1, <2>3, <2>4 DEF Shape
<1>11. CASE XferWake(t)
  <2>1. /\ at[t] \in {"granted", "expired"} /\ Stay /\ UNCHANGED <<ch, twi>> /\ event' \in BOOLEAN
        /\ \/ at[t] = "granted" /\ Goto(t, "woken") /\ UNCHANGED waiters
           \/ Goto(t, "late") /\ waiters' = waiters \ {t}
    BY <1>1, <1>11 DEF XferWake, Stay
  <2>2. asked[t] # <<>>
    BY <1>1, <2>1 DEF ThreadShape, Inside
  <2>3. /\ ThreadShape' /\ (\A u \in Users : u # t => at'[u] = at[u]) /\ t \notin waiters'
        /\ at'[t] \in Inside /\ waiters' \subseteq waiters
    BY <1>1, <1>3, <2>1, <2>2, Goes, MovedOn DEF Places, Inside
  <2>4. Owned'
    BY <1>3, <2>1, <2>3, OwnedStays DEF Inside
  <2>5. QED BY <1>1, <1>2, <1>4, <2>1, <2>3, <2>4 DEF Shape
<1>12. CASE XferGiveUp(t)
  <2>1. at[t] = "late" /\ CleanUp(StopQuiet(twi)) /\ Return(t, "Timeout") /\ UNCHANGED <<event, waiters>>
    BY <1>12 DEF XferGiveUp
  <2>2. ThreadShape' /\ at'[t] = "app" /\ \A u \in Users : u # t => at'[u] = at[u]
    BY <1>1, <2>1, Returned
  <2>3. /\ ch' \in Chans /\ ch'.msgs = <<>> /\ ch'.num = 0 /\ ch'.status = "Idle"
        /\ twi' = StopQuiet(twi)
    BY <2>1, Idles
  <2>4. Owned'
    BY <1>3, <2>1, <2>2, <2>3, OwnedStays
  <2>5. QED BY <1>1, <1>2, <2>1, <2>2, <2>3, <2>4, StopQuietIs DEF Shape, ChanShape
<1>13. CASE XferFinish(t)
  <2>1. at[t] = "woken" /\ UNCHANGED <<event, waiters>>
    BY <1>13 DEF XferFinish
  <2>2. PICK r \in Regs, v \in {"Ok", "StopFail", "Fail"} : CleanUp(r) /\ Return(t, v)
    <3>1. /\ [twi EXCEPT !.stp = FALSE, !.intflg = FALSE, !.stat = "IDLE"] \in Regs
          /\ [twi EXCEPT !.stp = TRUE, !.intflg = FALSE] \in Regs
      BY <1>1 DEF Regs, Stats
    <3>2. StopQuiet(twi) \in Regs
      BY <1>1, StopQuietIs
    <3>3. CASE ch.idx = ch.num
      BY <1>13, <3>1, <3>3 DEF XferFinish
    <3>4. CASE ch.idx # ch.num
      BY <1>13, <3>2, <3>4 DEF XferFinish
    <3>5. QED BY <3>3, <3>4
  <2>3. ThreadShape' /\ at'[t] = "app" /\ \A u \in Users : u # t => at'[u] = at[u]
    BY <1>1, <2>2, Returned
  <2>4. /\ ch' \in Chans /\ ch'.msgs = <<>> /\ ch'.num = 0 /\ ch'.status = "Idle" /\ twi' = r
    BY <2>2, Idles
  <2>5. Owned'
    BY <1>3, <2>1, <2>3, <2>4, OwnedStays
  <2>6. QED BY <1>1, <1>2, <2>1, <2>3, <2>4, <2>5 DEF Shape, ChanShape
<1>14. QED BY <1>5, <1>6, <1>7, <1>8, <1>9, <1>10, <1>11, <1>12, <1>13 DEF Xfer

\* The steps of probe, and the end of a wait.
LEMMA ProbeShape ==
  ASSUME Shape, Owned, NEW t \in Users, Probe(t) \/ Expire(t)
  PROVE  Shape' /\ Owned' /\ sharing' = sharing
<1>1. ChanShape /\ ThreadShape /\ twi \in Regs /\ event \in BOOLEAN
  BY DEF Shape
<1>2. sharing' = sharing
  BY DEF Probe, ProbeCall, ProbeAddress, ProbeAnswer, Expire
<1>3. t \in waiters => at[t] \in {"blocked", "expired"}
  BY DEF Owned
<1>4. UNCHANGED ch => ChanShape'
  BY <1>1 DEF ChanShape
<1>5. CASE ProbeCall(t)
  <2>1. at[t] = "app" /\ Goto(t, "probe start") /\ UNCHANGED <<ch, event, waiters, asked, buffer>>
        /\ twi' = [Reset(twi) EXCEPT !.ack = FALSE, !.sta = TRUE]
    BY <1>5 DEF ProbeCall, MayCall
  <2>2. at' \in [Users -> Places] /\ at'[t] = "probe start" /\ \A u \in Users : u # t => at'[u] = at[u]
    BY <1>1, <2>1, Goes DEF Places
  <2>3. ThreadShape'
    BY <1>1, <2>1, <2>2 DEF ThreadShape, Inside, ReadLength
  <2>4. Owned'
    BY <1>3, <2>1, <2>2, OwnedStays DEF Inside
  <2>5. twi' \in Regs
    BY <1>1, <2>1, ResetIs DEF Regs
  <2>6. QED BY <1>1, <1>2, <1>4, <2>1, <2>3, <2>4, <2>5 DEF Shape
<1>6. CASE ProbeAddress(t) \/ ProbeAnswer(t)
  <2>1. at[t] \in {"probe start", "probe ack"} /\ UNCHANGED <<ch, event, waiters>>
    BY <1>6 DEF ProbeAddress, ProbeAnswer
  <2>2. twi' \in Regs
    <3>1. <<"address", t, 0>> \in Symbols
      BY I2cAssumption DEF Symbols
    <3>2. [twi EXCEPT !.data = <<"address", t, 0>>, !.intflg = FALSE] \in Regs
      BY <1>1, <3>1 DEF Regs
    <3>3. [twi EXCEPT !.stp = TRUE, !.intflg = FALSE] \in Regs
      BY <1>1 DEF Regs
    <3>4. QED BY <1>1, <1>6, <3>2, <3>3 DEF ProbeAddress, ProbeAnswer
  <2>3. CASE Goto(t, "probe ack") /\ Stay
    <3>1. ThreadShape' /\ at'[t] = "probe ack" /\ \A u \in Users : u # t => at'[u] = at[u]
      BY <1>1, <2>3, Goes, MovedOn DEF Places, Inside
    <3>2. Owned'
      BY <1>3, <2>1, <3>1, OwnedStays DEF Inside
    <3>3. QED BY <1>1, <1>2, <1>4, <2>1, <2>2, <3>1, <3>2 DEF Shape
  <2>4. CASE \E v \in {"absent", "present"} : Return(t, v)
    <3>1. ThreadShape' /\ at'[t] = "app" /\ \A u \in Users : u # t => at'[u] = at[u]
      BY <1>1, <2>4, Returned
    <3>2. Owned'
      BY <1>3, <2>1, <3>1, OwnedStays DEF Inside
    <3>3. QED BY <1>1, <1>2, <1>4, <2>1, <2>2, <3>1, <3>2 DEF Shape
  <2>5. QED BY <1>6, <2>3, <2>4 DEF ProbeAddress, ProbeAnswer
<1>7. CASE Expire(t)
  <2>1. at[t] = "blocked" /\ Goto(t, "expired") /\ Stay /\ UNCHANGED <<ch, twi, event, waiters>>
    BY <1>7 DEF Expire, Stay
  <2>2. asked[t] # <<>>
    BY <1>1, <2>1 DEF ThreadShape, Inside
  <2>3. ThreadShape' /\ at'[t] = "expired" /\ \A u \in Users : u # t => at'[u] = at[u]
    BY <1>1, <2>1, <2>2, Goes, MovedOn DEF Places, Inside
  <2>4. Owned'
    BY <1>3, <2>1, <2>3, OwnedStays DEF Inside
  <2>5. QED BY <1>1, <1>2, <1>4, <2>1, <2>3, <2>4 DEF Shape
<1>8. QED BY <1>5, <1>6, <1>7 DEF Probe

\* The ISR takes no message from a thread, and the adapter none either.
LEMMA OthersOwn ==
  ASSUME Shape, Owned, Isr \/ Bus
  PROVE  Shape' /\ Owned' /\ sharing' = sharing
<1>1. CASE Isr
  <2>1. /\ Shape' /\ sharing' = sharing
        /\ ch'.msgs = ch.msgs \/ ch'.msgs = <<>>
        /\ waiters' \subseteq waiters
        /\ \A u \in Users : at'[u] = at[u] \/ (at[u] = "blocked" /\ at'[u] = "granted" /\ u \notin waiters')
    BY <1>1, IsrShape
  <2>2. \A u \in waiters' : u \in Users /\ at'[u] \in {"blocked", "expired"}
    BY <2>1 DEF Owned
  <2>3. ASSUME NEW i \in 1 .. Len(ch'.msgs) PROVE at'[ch'.msgs[i].of] \in Inside
    <3>1. CASE ch'.msgs = <<>>
      BY <3>1
    <3>2. CASE ch'.msgs = ch.msgs
      <4>1. i \in 1 .. Len(ch.msgs) /\ ch.msgs \in Seq(Messages)
        BY <3>2 DEF Shape, ChanShape, Chans
      <4>2. ch.msgs[i] \in Messages
        BY <4>1, ElementOfSeq
      <4>3. ch.msgs[i].of \in Users /\ at[ch.msgs[i].of] \in Inside
        BY <4>1, <4>2 DEF Messages, Owned
      <4>4. QED BY <2>1, <3>2, <4>3 DEF Inside
    <3>3. QED BY <2>1, <3>1, <3>2
  <2>4. QED BY <2>1, <2>2, <2>3 DEF Owned
<1>2. CASE Bus
  <2>1. Shape' /\ UNCHANGED <<ch, event, waiters, at, asked, buffer, verdict, sharing>>
    BY <1>2, BusShape
  <2>2. QED BY <2>1 DEF Owned
<1>3. QED BY <1>1, <1>2

-----------------------------------------------------------------------------
(* What a transfer puts on the wire.                                       *)

LEMMA OnWireIs ==
  ASSUME NEW t \in Users, NEW m, m.read \in BOOLEAN, m.len \in Lengths
  PROVE  /\ OnWire(m, t) \in Seq(Symbols)
         /\ Len(OnWire(m, t)) = IF m.read THEN 1 ELSE m.len + 1
         /\ OnWire(m, t)[1] = <<"address", t, IF m.read THEN 1 ELSE 0>>
         /\ ~m.read => \A j \in 1 .. m.len : OnWire(m, t)[j + 1] = <<"byte", t, j>>
<1>1. /\ \A k \in Nat : <<"address", t, k>> \in Symbols
      /\ \A k \in Nat : <<"byte", t, k>> \in Symbols
  BY I2cAssumption DEF Symbols
<1>2. CASE m.read
  BY <1>1, <1>2 DEF OnWire
<1>3. CASE ~m.read
  <2> DEFINE n == m.len
             f == [i \in 1 .. n + 1 |-> IF i = 1 THEN <<"address", t, 0>> ELSE <<"byte", t, i - 1>>]
  <2>1. OnWire(m, t) = f
    BY <1>3 DEF OnWire
  <2>2. n \in Nat /\ n # 0
    BY DEF Lengths
  <2> HIDE DEF n
  <2>3. ASSUME NEW i \in 1 .. n + 1
        PROVE (IF i = 1 THEN <<"address", t, 0>> ELSE <<"byte", t, i - 1>>) \in Symbols
    <3>1. i # 1 => i - 1 \in Nat
      BY <2>2
    <3>2. QED BY <1>1, <3>1
  <2>4. f \in Seq(Symbols) /\ Len(f) = n + 1
    <3>1. f \in [1 .. n + 1 -> Symbols]
      BY <2>3
    <3>2. n + 1 \in Nat
      BY <2>2
    <3>3. \A k \in Nat : \A g \in [1 .. k -> Symbols] : g \in Seq(Symbols) /\ Len(g) = k
      OBVIOUS
    <3> HIDE DEF f
    <3>4. QED BY <3>1, <3>2, <3>3
  <2>5. f[1] = <<"address", t, 0>>
    BY <2>2
  <2>6. ASSUME NEW j \in 1 .. n PROVE f[j + 1] = <<"byte", t, j>>
    <3>1. j + 1 \in 1 .. n + 1 /\ j + 1 # 1 /\ j + 1 - 1 = j
      BY <2>2
    <3>2. f[j + 1] = IF j + 1 = 1 THEN <<"address", t, 0>> ELSE <<"byte", t, j + 1 - 1>>
      BY <3>1
    <3>3. QED BY <3>1, <3>2
  <2> HIDE DEF f
  <2>7. \A j \in 1 .. m.len : OnWire(m, t)[j + 1] = <<"byte", t, j>>
    BY <2>1, <2>6 DEF n
  <2>8. QED BY <1>3, <2>1, <2>4, <2>5, <2>7 DEF n
<1>4. QED BY <1>2, <1>3

\* Where the current message stands in what the transfer puts on the wire.
LEMMA Script ==
  ASSUME ThreadShape, ChanShape, NEW t \in Users, asked[t] # <<>>, ch.idx < Len(asked[t])
  PROVE  /\ Asked(t).read \in BOOLEAN /\ Asked(t).len \in Lengths
         /\ Base(t) \in Nat /\ Total(t) \in Nat /\ Base(t) + 1 <= Total(t)
         /\ Carried(t) \in Seq(Symbols)
         /\ Carried(t)[Base(t) + 1] = <<"address", t, IF Asked(t).read THEN 1 ELSE 0>>
         /\ ~Asked(t).read =>
              /\ Base(t) + 1 + Asked(t).len <= Total(t)
              /\ \A j \in 1 .. Asked(t).len : Carried(t)[Base(t) + 1 + j] = <<"byte", t, j>>
         /\ Asked(t).read => /\ ch.idx + 1 = Len(asked[t]) /\ Total(t) = Base(t) + 1
                             /\ ReadLength(asked[t]) = Asked(t).len
         /\ ch.idx + 1 >= Len(asked[t]) /\ ~Asked(t).read =>
              Total(t) = Base(t) + 1 + Asked(t).len /\ ReadLength(asked[t]) = 0
         /\ ch.idx + 1 < Len(asked[t]) =>
              /\ ch.idx = 0 /\ ~Asked(t).read /\ Len(asked[t]) = 2
<1> DEFINE x == asked[t]
<1>1. /\ Len(x) \in {1, 2} /\ \A i \in 1 .. Len(x) : x[i].read \in BOOLEAN /\ x[i].len \in Lengths
      /\ Len(x) = 2 => ~x[1].read /\ x[2].read
  BY TransferIs DEF ThreadShape
<1>2. ch.idx \in {0, 1} /\ (ch.idx = 1 => Len(x) = 2)
  <2>1. ch.idx \in 0 .. 2 \cup {Aborted}
    BY DEF ChanShape, Chans
  <2>2. QED BY <1>1, <2>1 DEF Aborted
<1>3. ReadLength(x) = IF x[Len(x)].read THEN x[Len(x)].len ELSE 0
  BY DEF ReadLength
<1>4. 1 \in 1 .. Len(x) /\ (Len(x) = 2 => 2 \in 1 .. Len(x))
  BY <1>1
<1> DEFINE a == OnWire(x[1], t)
<1>5. /\ x[1].read \in BOOLEAN /\ x[1].len \in Lengths /\ x[1].len \in Nat
      /\ a \in Seq(Symbols) /\ Len(a) = (IF x[1].read THEN 1 ELSE x[1].len + 1)
      /\ a[1] = <<"address", t, IF x[1].read THEN 1 ELSE 0>>
      /\ ~x[1].read => \A j \in 1 .. x[1].len : a[j + 1] = <<"byte", t, j>>
  BY <1>1, <1>4, OnWireIs, SMTT(60) DEF Lengths
<1>6. CASE Len(x) = 1
  <2>1. Carried(t) = a
    BY <1>6 DEF Carried
  <2>2. ch.idx = 0 /\ Base(t) = 0 /\ Asked(t) = x[1] /\ Total(t) = Len(a)
    BY <1>2, <1>6, <2>1 DEF Base, Asked, Total
  <2>3. ReadLength(x) = IF x[1].read THEN x[1].len ELSE 0
    BY <1>3, <1>6
  <2> HIDE DEF x, a
  <2>4. \A j \in 1 .. x[1].len : 0 + 1 + j = j + 1
    BY <1>5
  <2>5. x[1].len # 0
    BY <1>5 DEF Lengths
  <2>6. /\ Asked(t).read \in BOOLEAN /\ Asked(t).len \in Lengths
        /\ Base(t) \in Nat /\ Total(t) \in Nat /\ Base(t) + 1 <= Total(t)
        /\ Carried(t) \in Seq(Symbols)
    BY <1>5, <2>1, <2>2, <2>5
  <2>7. Carried(t)[Base(t) + 1] = <<"address", t, IF Asked(t).read THEN 1 ELSE 0>>
    BY <1>5, <2>1, <2>2
  <2>8. ~Asked(t).read =>
              /\ Base(t) + 1 + Asked(t).len <= Total(t)
              /\ \A j \in 1 .. Asked(t).len : Carried(t)[Base(t) + 1 + j] = <<"byte", t, j>>
    BY <1>5, <2>1, <2>2, <2>4
  <2>9. QED BY <1>5, <1>6, <2>2, <2>3, <2>6, <2>7, <2>8 DEF x
<1>7. CASE Len(x) = 2
  <2> DEFINE b == OnWire(x[2], t)
  <2>1. /\ ~x[1].read /\ x[2].read /\ x[2].len \in Lengths
        /\ b \in Seq(Symbols) /\ Len(b) = 1 /\ b[1] = <<"address", t, 1>>
    BY <1>1, <1>4, <1>7, OnWireIs
  <2>2. Carried(t) = a \o b
    BY <1>7 DEF Carried
  <2>3. ReadLength(x) = x[2].len
    BY <1>3, <1>7, <2>1
  <2>4. /\ ch.idx = 0 => Base(t) = 0 /\ Asked(t) = x[1]
        /\ ch.idx = 1 => Base(t) = x[1].len + 1 /\ Asked(t) = x[2]
    BY DEF Base, Asked
  <2> HIDE DEF x, a, b
  <2>5. Len(a) = x[1].len + 1 /\ x[1].len \in Nat /\ x[1].len # 0
    BY <1>5, <2>1 DEF Lengths
  <2>6. /\ a \o b \in Seq(Symbols) /\ Len(a \o b) = Len(a) + Len(b)
        /\ \A i \in 1 .. Len(a) + Len(b) :
             (a \o b)[i] = IF i <= Len(a) THEN a[i] ELSE b[i - Len(a)]
    <3>1. a \in Seq(Symbols) /\ b \in Seq(Symbols)
      BY <1>5, <2>1
    <3>2. QED BY ONLY <3>1, ConcatProperties
  <2> DEFINE n == x[1].len
  <2>7. Carried(t) \in Seq(Symbols) /\ Total(t) = n + 2
    <3>1. n + 1 + 1 = n + 2
      BY <2>5
    <3>2. QED BY <2>1, <2>2, <2>5, <2>6, <3>1 DEF Total
  <2>8. /\ \A i \in 1 .. n + 1 : Carried(t)[i] = a[i]
        /\ Carried(t)[n + 2] = b[1]
    <3>1. ASSUME NEW i \in 1 .. n + 1 PROVE Carried(t)[i] = a[i]
      <4>1. i \in 1 .. Len(a) + Len(b) /\ i <= Len(a)
        BY <2>1, <2>5
      <4>2. QED BY <2>2, <2>6, <4>1
    <3>2. ASSUME NEW i, i = n + 2 PROVE Carried(t)[i] = b[1]
      <4>1. i \in 1 .. Len(a) + Len(b) /\ ~(i <= Len(a)) /\ i - Len(a) = 1
        BY <2>1, <2>5, <3>2
      <4>2. (a \o b)[i] = b[i - Len(a)]
        BY <2>6, <4>1
      <4>3. QED BY <2>2, <4>1, <4>2
    <3>3. QED BY <3>1, <3>2
  <2>9. CASE ch.idx = 0
    <3>1. Carried(t)[1] = <<"address", t, 0>>
      <4>1. 1 \in 1 .. n + 1
        BY <2>5
      <4>2. QED BY <1>5, <2>1, <2>8, <4>1
    <3>2. ASSUME NEW j \in 1 .. n PROVE Carried(t)[0 + 1 + j] = <<"byte", t, j>>
      <4>1. j + 1 \in 1 .. n + 1 /\ 0 + 1 + j = j + 1
        BY <2>5
      <4>2. a[j + 1] = <<"byte", t, j>>
        BY <1>5, <2>1
      <4>3. Carried(t)[j + 1] = a[j + 1]
        BY <2>8, <4>1
      <4>4. QED BY <4>1, <4>2, <4>3
    <3>3. 0 + 1 <= n + 2 /\ 0 + 1 + n <= n + 2 /\ n + 2 \in Nat /\ 0 + 1 = 1 /\ ~(0 + 1 >= 2) /\ 0 + 1 < 2
      BY <2>5
    <3>4. Base(t) = 0 /\ Asked(t) = x[1] /\ Total(t) = n + 2
      BY <2>4, <2>7, <2>9
    <3>5. \A j \in 1 .. Asked(t).len : Carried(t)[Base(t) + 1 + j] = <<"byte", t, j>>
      BY <3>2, <3>4
    <3>6. QED BY <1>5, <1>7, <2>1, <2>5, <2>7, <2>9, <3>1, <3>3, <3>4, <3>5 DEF x
  <2>10. CASE ch.idx = 1
    <3>1. Carried(t)[n + 1 + 1] = <<"address", t, 1>>
      <4>1. n + 1 + 1 = n + 2
        BY <2>5
      <4>2. QED BY <2>1, <2>8, <4>1
    <3>2. n + 1 \in Nat /\ n + 2 \in Nat /\ n + 1 + 1 = n + 2 /\ 1 + 1 = 2
      BY <2>5
    <3>3. Base(t) = n + 1 /\ Asked(t) = x[2] /\ Total(t) = n + 2
      BY <2>4, <2>7, <2>10
    <3>4. Base(t) \in Nat /\ Total(t) \in Nat /\ Total(t) = Base(t) + 1 /\ Base(t) + 1 <= Total(t)
      BY <3>2, <3>3
    <3>5. /\ Asked(t).read /\ Asked(t).len \in Lengths /\ ReadLength(asked[t]) = Asked(t).len
          /\ Carried(t)[Base(t) + 1] = <<"address", t, 1>>
      BY <2>1, <2>3, <3>1, <3>3 DEF x
    <3>6. ch.idx + 1 = Len(asked[t]) /\ ~(ch.idx + 1 < Len(asked[t]))
      BY <1>7, <2>10 DEF x
    <3>7. QED BY <2>7, <3>4, <3>5, <3>6
  <2>11. QED BY <1>2, <2>9, <2>10
<1>8. QED BY <1>1, <1>6, <1>7

LEMMA Grows ==
  ASSUME NEW w, NEW v, NEW s, NEW n \in Nat, Begins(w, s, n), NEW e,
         Len(v) = Len(w) + 1, v[Len(w) + 1] = e, \A i \in 1 .. Len(w) : v[i] = w[i], e = s[n + 1]
  PROVE  Begins(v, s, n + 1)
<1>1. Len(w) = n /\ \A i \in 1 .. n : w[i] = s[i]
  BY DEF Begins
<1>2. ASSUME NEW i \in 1 .. n + 1 PROVE v[i] = s[i]
  <2>1. CASE i \in 1 .. n
    BY <1>1, <2>1
  <2>2. CASE i = n + 1
    BY <1>1, <2>2
  <2>3. QED BY <2>1, <2>2
<1>3. QED BY <1>1, <1>2 DEF Begins

LEMMA LoadedIs ==
  ASSUME Shape, NEW t \in Users, Loaded(t)
  PROVE  /\ asked[t] # <<>> => ch.idx < Len(asked[t])
         /\ HasMessage /\ ch.ptr \in Nat
         /\ ch.num = Len(asked[t])
         /\ Current = Message(t, Asked(t))
         /\ Current.of = t /\ Current.read = Asked(t).read /\ Current.len = Asked(t).len
<1>1. /\ ch.idx \in 0 .. 2 \cup {Aborted} /\ ch.num \in 0 .. 2 /\ ch.ptr \in Nat
  BY DEF Shape, ChanShape, Chans
<1>2. ch.idx < ch.num /\ ch.num = Len(asked[t])
  BY DEF Loaded
<1>3. ch.idx + 1 \in 1 .. ch.num
  BY <1>1, <1>2 DEF Aborted
<1>4. Current = Message(t, Asked(t))
  BY <1>3 DEF Loaded, Current, Asked
<1>5. QED BY <1>1, <1>2, <1>4 DEF HasMessage, Message

\* The messages and the script do not change under the adapter.
LEMMA SameCall ==
  ASSUME UNCHANGED <<ch, asked, buffer>>, NEW t
  PROVE  /\ Carried(t)' = Carried(t) /\ Total(t)' = Total(t) /\ Base(t)' = Base(t)
         /\ Asked(t)' = Asked(t) /\ (Loaded(t) => Loaded(t)')
         /\ \A n : Filled(t, n) => \A i \in 1 .. n : buffer'[t][i] = i
BY DEF Carried, Total, Base, Asked, Loaded, Filled

\* Each step of the adapter carries a transfer on.
LEMMA BusCarries ==
  ASSUME Shape, NEW t \in Users, asked[t] # <<>>, Underway(t), Bus
  PROVE  Underway(t)'
<1>1. ChanShape /\ ThreadShape /\ twi \in Regs
  BY DEF Shape
<1>2. /\ UNCHANGED <<ch, event, waiters, at, asked, buffer, verdict, sharing>>
      /\ BusStart \/ BusAddress \/ BusSend \/ BusReceive \/ BusError
  BY DEF Bus
<1>3. Loaded(t)
  BY DEF Underway
<1>4. ch.idx < Len(asked[t]) /\ ch.ptr \in Nat /\ Loaded(t)'
  BY <1>2, <1>3, LoadedIs, SameCall
<1>5. /\ Carried(t)' = Carried(t) /\ Total(t)' = Total(t) /\ Base(t)' = Base(t)
      /\ Asked(t)' = Asked(t) /\ UNCHANGED <<ch, buffer>>
  BY <1>2, SameCall
<1>6. /\ Asked(t).read \in BOOLEAN /\ Asked(t).len \in Lengths
      /\ Base(t) \in Nat /\ Total(t) \in Nat /\ Base(t) + 1 <= Total(t)
      /\ Carried(t)[Base(t) + 1] = <<"address", t, IF Asked(t).read THEN 1 ELSE 0>>
      /\ ~Asked(t).read =>
           /\ Base(t) + 1 + Asked(t).len <= Total(t)
           /\ \A j \in 1 .. Asked(t).len : Carried(t)[Base(t) + 1 + j] = <<"byte", t, j>>
      /\ Asked(t).read => Total(t) = Base(t) + 1
  BY <1>1, <1>4, Script
<1>7. twi.wire \in Seq(Symbols) /\ Len(twi.wire) \in Nat
  BY <1>1, RegsAre
<1>8. CASE Starting(t)
  <2>1. BusStart /\ twi.wire = <<>> /\ Base(t) = 0 /\ ch.ptr = 0 /\ ~twi.ack
    BY <1>2, <1>8 DEF Starting, BusStart, BusAddress, BusSend, BusReceive, BusError, Going, Base
  <2>2. Begins(<<>>, Carried(t), 0)
    BY DEF Begins
  <2>3. CASE twi' = [twi EXCEPT !.sta = FALSE, !.intflg = TRUE, !.stat = "TX_STA", !.wire = <<>>]
    <3>1. ~twi'.sta /\ twi'.intflg /\ twi'.stat = "TX_STA" /\ twi'.wire = <<>> /\ ~twi'.ack
      BY <1>1, <2>1, <2>3 DEF Regs
    <3>2. Started(t)'
      BY <1>5, <2>1, <2>2, <3>1 DEF Started, WireIs
    <3>3. QED BY <1>4, <3>2 DEF Underway
  <2>4. CASE twi' = [twi EXCEPT !.sta = FALSE, !.intflg = TRUE, !.stat = "ARB_LOST"]
    <3>1. ~twi'.sta /\ twi'.intflg /\ twi'.stat = "ARB_LOST" /\ twi'.wire = <<>>
      BY <1>1, <2>1, <2>4 DEF Regs
    <3>2. Len(<<>>) < Total(t)
      BY <1>6, <2>1
    <3>3. Refused(t)'
      BY <1>5, <3>1, <3>2 DEF Refused
    <3>4. QED BY <1>4, <3>3 DEF Underway
  <2>5. CASE twi' = [twi EXCEPT !.sta = FALSE, !.intflg = TRUE, !.stat = "BUS_ERR"]
    <3>1. Errored'
      BY <1>1, <2>5 DEF Errored, Regs
    <3>2. QED BY <1>4, <3>1 DEF Underway
  <2>6. QED BY <2>1, <2>3, <2>4, <2>5 DEF BusStart
<1>9. CASE Addressed(t) /\ ~BusError
  <2>1. /\ ~twi.sta /\ ~twi.ack /\ ch.ptr = 0 /\ Begins(twi.wire, Carried(t), Base(t))
        /\ twi.data = <<"address", t, IF Asked(t).read THEN 1 ELSE 0>>
        /\ BusAddress
    BY <1>2, <1>9 DEF Addressed, WireIs, BusStart, BusAddress, BusSend, BusReceive
  <2>2. ASSUME NEW stat \in Stats, Acked(stat)
        PROVE  /\ twi'.intflg /\ twi'.stat = stat /\ ~twi'.sta /\ ~twi'.ack /\ twi'.data = Nothing
               /\ twi'.rx = 0 /\ Begins(twi'.wire, Carried(t), Base(t) + 1)
    <3>1. /\ twi'.intflg /\ twi'.stat = stat /\ ~twi'.sta /\ ~twi'.ack /\ twi'.data = Nothing
          /\ twi'.rx = 0
          /\ Len(twi'.wire) = Len(twi.wire) + 1 /\ twi'.wire[Len(twi.wire) + 1] = twi.data
          /\ \A i \in 1 .. Len(twi.wire) : twi'.wire[i] = twi.wire[i]
      BY <1>1, <2>1, <2>2, AckedIs
    <3>2. twi.data = Carried(t)[Base(t) + 1] /\ Base(t) \in Nat
      BY <1>6, <2>1
    <3>3. Begins(twi'.wire, Carried(t), Base(t) + 1)
      BY <2>1, <3>1, <3>2, Grows
    <3>4. QED BY <3>1, <3>3
  <2>3. ASSUME NEW stat \in {"TX_AR_NAK", "TX_AW_NAK"}, Flag(stat) PROVE Refused(t)'
    <3>1. stat \in Stats
      BY DEF Stats
    <3>2. ~twi'.sta /\ twi'.intflg /\ twi'.stat = stat /\ twi'.wire = twi.wire
      BY <1>1, <2>1, <2>3, <3>1, Flagged
    <3>3. Len(twi.wire) < Total(t)
      BY <1>6, <2>1 DEF Begins
    <3>4. QED BY <1>5, <3>2, <3>3 DEF Refused
  <2>4. CASE Asked(t).read
    <3>1. Acked("TX_AR_ACK") \/ Flag("TX_AR_NAK")
      BY <2>1, <2>4 DEF BusAddress
    <3>2. CASE Acked("TX_AR_ACK")
      <4>1. Answering(t)'
        BY <1>5, <1>6, <2>1, <2>2, <2>4, <3>2 DEF Answering, WireIs, Stats
      <4>2. QED BY <1>4, <4>1 DEF Underway
    <3>3. QED BY <1>4, <2>3, <3>1, <3>2 DEF Underway
  <2>5. CASE ~Asked(t).read
    <3>1. Acked("TX_AW_ACK") \/ Flag("TX_AW_NAK")
      BY <2>1, <2>5 DEF BusAddress
    <3>2. CASE Acked("TX_AW_ACK")
      <4>1. Base(t) + 1 + 0 = Base(t) + 1 /\ 0 <= Asked(t).len
        BY <1>6 DEF Lengths
      <4>2. Wrote(t)'
        BY <1>5, <1>6, <2>1, <2>2, <2>5, <3>2, <4>1 DEF Wrote, WireIs, Stats
      <4>3. QED BY <1>4, <4>2 DEF Underway
    <3>3. QED BY <1>4, <2>3, <3>1, <3>2 DEF Underway
  <2>6. QED BY <2>4, <2>5
<1>10. CASE Writing(t) /\ ~BusError
  <2>1. /\ ~Asked(t).read /\ ~twi.sta /\ ~twi.ack /\ 1 <= ch.ptr /\ ch.ptr <= Asked(t).len
        /\ twi.data = <<"byte", t, ch.ptr>>
        /\ Begins(twi.wire, Carried(t), Base(t) + ch.ptr) /\ BusSend
    BY <1>2, <1>10 DEF Writing, WireIs, BusStart, BusAddress, BusSend, BusReceive
  <2>2. /\ Base(t) + ch.ptr \in Nat /\ ch.ptr # 0
        /\ Base(t) + ch.ptr + 1 = Base(t) + 1 + ch.ptr
        /\ ch.ptr \in 1 .. Asked(t).len
        /\ Base(t) + ch.ptr < Total(t)
    <3>1. /\ Base(t) \in Nat /\ ch.ptr \in Nat /\ Asked(t).len \in Nat /\ Total(t) \in Nat
          /\ Base(t) + 1 + Asked(t).len <= Total(t)
      BY <1>4, <1>6, <2>1 DEF Lengths
    <3>2. 1 <= ch.ptr /\ ch.ptr <= Asked(t).len
      BY <2>1
    <3>3. \A b, p, n, w \in Nat : b + 1 + n <= w /\ 1 <= p /\ p <= n =>
             /\ b + p \in Nat /\ p # 0 /\ b + p + 1 = b + 1 + p /\ p \in 1 .. n /\ b + p < w
      OBVIOUS
    <3>4. QED BY ONLY <3>1, <3>2, <3>3
  <2>3. CASE Acked("TXD_ACK")
    <3>1. twi.data = Carried(t)[Base(t) + ch.ptr + 1]
      BY <1>6, <2>1, <2>2
    <3>2. "TXD_ACK" \in Stats
      BY DEF Stats
    <3>3. /\ twi'.intflg /\ twi'.stat = "TXD_ACK" /\ ~twi'.sta /\ ~twi'.ack /\ twi'.data = Nothing
          /\ Len(twi'.wire) = Len(twi.wire) + 1 /\ twi'.wire[Len(twi.wire) + 1] = twi.data
          /\ \A i \in 1 .. Len(twi.wire) : twi'.wire[i] = twi.wire[i]
      BY <1>1, <2>1, <2>3, <3>2, AckedIs
    <3>4. Begins(twi'.wire, Carried(t), Base(t) + ch.ptr + 1)
      BY <2>1, <2>2, <3>1, <3>3, Grows
    <3>5. Wrote(t)'
      BY <1>5, <2>1, <2>2, <3>3, <3>4 DEF Wrote, WireIs
    <3>6. QED BY <1>4, <3>5 DEF Underway
  <2>4. ASSUME NEW stat \in {"TXD_NAK", "ARB_LOST"}, Flag(stat) PROVE Underway(t)'
    <3>1. stat \in Stats
      BY DEF Stats
    <3>2. ~twi'.sta /\ twi'.intflg /\ twi'.stat = stat /\ twi'.wire = twi.wire
      BY <1>1, <2>1, <2>4, <3>1, Flagged
    <3>3. Len(twi.wire) < Total(t)
      BY <2>1, <2>2 DEF Begins
    <3>4. Refused(t)'
      BY <1>5, <3>2, <3>3 DEF Refused
    <3>5. QED BY <1>4, <3>4 DEF Underway
  <2>5. QED BY <2>1, <2>3, <2>4 DEF BusSend
<1>11. CASE Awaiting(t) /\ ~BusError
  <2>1. /\ Asked(t).read /\ ~twi.sta /\ twi.rx = ch.ptr /\ ch.ptr < Asked(t).len
        /\ twi.ack = (ch.ptr + 1 # Asked(t).len)
        /\ Begins(twi.wire, Carried(t), Total(t)) /\ Filled(t, ch.ptr) /\ BusReceive
    BY <1>2, <1>11 DEF Awaiting, WireIs, BusStart, BusAddress, BusSend, BusReceive
  <2>2. /\ ~twi'.sta /\ twi'.intflg /\ twi'.ack = twi.ack /\ twi'.wire = twi.wire
        /\ twi'.rx = twi.rx + 1 /\ twi'.data = <<"in", 0, twi.rx + 1>>
        /\ twi'.stat = IF twi.ack THEN "RXD_ACK" ELSE "RXD_NAK"
    BY <1>1, <2>1 DEF BusReceive, Regs
  <2>3. Filled(t, ch.ptr)'
    BY <1>5, <2>1 DEF Filled
  <2>4. Came(t)'
    BY <1>5, <2>1, <2>2, <2>3 DEF Came, WireIs
  <2>5. QED BY <1>4, <2>4 DEF Underway
<1>12. CASE Started(t) \/ Wrote(t) \/ Answering(t) \/ Came(t) \/ Refused(t) \/ Errored
  BY <1>2, <1>12 DEF Started, Wrote, Answering, Came, Refused, Errored,
     BusStart, BusAddress, BusSend, BusReceive, BusError, Going
<1>13. CASE Stuck /\ ~BusError
  BY <1>2, <1>13 DEF Stuck, Nothing, BusStart, BusAddress, BusSend, BusReceive, BusError, Going
<1>14. CASE BusError
  <2>1. ~twi.sta /\ Flag("BUS_ERR") /\ "BUS_ERR" \in Stats
    BY <1>14 DEF BusError, Going, Stats
  <2>2. Errored'
    BY <1>1, <2>1, Flagged DEF Errored
  <2>3. QED BY <1>4, <2>2 DEF Underway
<1>15. QED BY <1>8, <1>9, <1>10, <1>11, <1>12, <1>13, <1>14 DEF Underway

\* Each step of the ISR carries a transfer on, or ends it.
LEMMA IsrCarries ==
  ASSUME Shape, NEW t \in Users, asked[t] # <<>>, Underway(t), Isr
  PROVE  \/ Underway(t)' /\ UNCHANGED <<event, waiters, at>>
         \/ Finished(t)' /\ Raise
<1>1. ChanShape /\ ThreadShape /\ twi \in Regs
  BY DEF Shape
<1>2. /\ Serving /\ asked' = asked
      /\ IsrAddress \/ IsrSend \/ IsrListen \/ IsrReceive \/ IsrLast \/ IsrAbort
  BY DEF Isr, IsrAddress, IsrSend, IsrListen, IsrReceive, IsrLast, IsrAbort
<1>3. Loaded(t)
  BY DEF Underway
<1>4. /\ ch.idx < Len(asked[t]) /\ ch.ptr \in Nat /\ HasMessage /\ ch.num = Len(asked[t])
      /\ Current.of = t /\ Current.read = Asked(t).read /\ Current.len = Asked(t).len
  BY <1>3, LoadedIs
<1>5. Carried(t)' = Carried(t) /\ Total(t)' = Total(t)
  BY <1>2 DEF Carried, Total
<1>6. /\ Asked(t).read \in BOOLEAN /\ Asked(t).len \in Nat /\ Asked(t).len # 0
      /\ Base(t) \in Nat /\ Total(t) \in Nat /\ Base(t) + 1 <= Total(t)
      /\ Asked(t).read => /\ ch.idx + 1 = Len(asked[t]) /\ Total(t) = Base(t) + 1
                          /\ ReadLength(asked[t]) = Asked(t).len
      /\ ch.idx + 1 >= Len(asked[t]) /\ ~Asked(t).read =>
           Total(t) = Base(t) + 1 + Asked(t).len /\ ReadLength(asked[t]) = 0
      /\ ch.idx + 1 < Len(asked[t]) => ch.idx = 0 /\ ~Asked(t).read /\ Len(asked[t]) = 2
  BY <1>1, <1>4, Script DEF Lengths
<1>7. ASSUME ch'.idx = ch.idx
      PROVE  Base(t)' = Base(t) /\ Asked(t)' = Asked(t)
  BY <1>2, <1>7 DEF Base, Asked
<1>8. ASSUME ch'.idx = ch.idx, ch'.msgs = ch.msgs, ch'.num = ch.num, ch'.status = ch.status
      PROVE  Loaded(t)'
  BY <1>2, <1>3, <1>8 DEF Loaded
<1>9. [ch EXCEPT !.ptr = @ + 1].ptr = ch.ptr + 1
      /\ \A f \in {"idx", "msgs", "num", "status"} : [ch EXCEPT !.ptr = @ + 1][f] = ch[f]
  BY <1>1 DEF ChanShape, Chans
<1>10. CASE Started(t)
  <2>1. /\ IsrAddress /\ ~twi.ack /\ ch.ptr = 0 /\ WireIs(t, Base(t))
        /\ twi.stat \in {"TX_STA", "TX_RESTA"}
    BY <1>2, <1>4, <1>10 DEF Started, IsrAddress, IsrSend, IsrListen, IsrReceive, IsrLast, IsrAbort
  <2>2. /\ UNCHANGED <<ch, event, waiters, at>>
        /\ Put(<<"address", t, IF Asked(t).read THEN 1 ELSE 0>>)
    BY <1>4, <2>1 DEF IsrAddress
  <2>3. <<"address", t, IF Asked(t).read THEN 1 ELSE 0>> \in Symbols
    BY I2cAssumption DEF Symbols
  <2>4. /\ ~twi'.sta /\ ~twi'.intflg /\ twi'.stat = twi.stat /\ twi'.wire = twi.wire
        /\ twi'.ack = twi.ack /\ twi'.data = <<"address", t, IF Asked(t).read THEN 1 ELSE 0>>
    BY <1>1, <2>2, <2>3, Puts
  <2>5. Addressed(t)'
    BY <1>5, <1>7, <2>1, <2>2, <2>4 DEF Addressed, WireIs
  <2>6. QED BY <1>8, <2>2, <2>5 DEF Underway
<1>11. CASE Wrote(t)
  <2>1. /\ ~Asked(t).read /\ twi.intflg /\ ~twi.sta /\ ~twi.ack /\ ch.ptr <= Asked(t).len
        /\ twi.data = Nothing /\ twi.stat = (IF ch.ptr = 0 THEN "TX_AW_ACK" ELSE "TXD_ACK")
        /\ WireIs(t, Base(t) + 1 + ch.ptr)
    BY <1>11 DEF Wrote
  <2>2. twi.stat \in {"TX_AW_ACK", "TXD_ACK"} /\ IsrSend
    BY <1>2, <1>4, <2>1 DEF IsrAddress, IsrSend, IsrListen, IsrReceive, IsrLast, IsrAbort
  <2>3. CASE ch.ptr < Asked(t).len
    <3>1. /\ Put(<<"byte", t, ch.ptr + 1>>) /\ ch' = [ch EXCEPT !.ptr = @ + 1]
          /\ UNCHANGED <<event, waiters, at>>
      BY <1>4, <2>2, <2>3 DEF IsrSend
    <3>2. <<"byte", t, ch.ptr + 1>> \in Symbols
      <4>1. t \in Nat /\ ch.ptr + 1 \in Nat
        BY <1>4, I2cAssumption
      <4>2. \A k \in Nat : <<"byte", t, k>> \in Symbols
        BY <4>1 DEF Symbols
      <4>3. QED BY <4>1, <4>2, Zenon
    <3>3. /\ ~twi'.sta /\ ~twi'.intflg /\ twi'.stat = twi.stat /\ twi'.wire = twi.wire
          /\ twi'.ack = twi.ack /\ twi'.data = <<"byte", t, ch.ptr + 1>>
      BY <1>1, <3>1, <3>2, Puts
    <3>4. /\ ch'.ptr = ch.ptr + 1 /\ ch'.idx = ch.idx /\ ch'.msgs = ch.msgs /\ ch'.num = ch.num
          /\ ch'.status = ch.status
      BY <1>9, <3>1
    <3>5. Base(t) + 1 + ch.ptr = Base(t) + (ch.ptr + 1) /\ 1 <= ch.ptr + 1 /\ ch.ptr + 1 <= Asked(t).len
      BY <1>4, <1>6, <2>3
    <3>6. Writing(t)'
      BY <1>5, <1>7, <2>1, <2>2, <3>3, <3>4, <3>5 DEF Writing, WireIs
    <3>7. QED BY <1>8, <3>1, <3>4, <3>6 DEF Underway
  <2>4. CASE ~(ch.ptr < Asked(t).len)
    <3>1. NextMessage
      BY <1>4, <2>2, <2>4 DEF IsrSend
    <3>2. ch.ptr = Asked(t).len /\ ch.ptr # 0
      BY <1>4, <1>6, <2>1, <2>4
    <3>3. CASE ch.idx + 1 >= ch.num
      <4>1. Complete(0) /\ Raise
        BY <3>1, <3>3 DEF NextMessage, Complete
      <4>2. Total(t) = Base(t) + 1 + ch.ptr /\ ReadLength(asked[t]) = 0
        BY <1>4, <1>6, <2>1, <3>2, <3>3
      <4>3. /\ ch'.idx = 0 /\ ch'.num = 0 /\ ch'.status = "Idle" /\ ~twi'.inten
            /\ twi'.intflg = twi.intflg /\ twi'.sta = twi.sta /\ twi'.wire = twi.wire
        BY <1>1, <4>1, Completes
      <4>4. Finished(t)'
        <5>1. Begins(twi'.wire, Carried(t)', Total(t)')
          BY <1>5, <2>1, <4>2, <4>3 DEF WireIs
        <5>2. ReadLength(asked'[t]) = 0
          BY <1>2, <4>2
        <5>3. QED BY <2>1, <4>3, <5>1, <5>2 DEF Finished, WireIs, Filled
      <4>5. QED BY <4>1, <4>4
    <3>4. CASE ~(ch.idx + 1 >= ch.num)
      <4>1. /\ ch' = [ch EXCEPT !.idx = @ + 1, !.ptr = 0]
            /\ \/ GoOn([twi EXCEPT !.stat = "TX_RESTA"])
               \/ GoOn([twi EXCEPT !.intflg = FALSE])
            /\ UNCHANGED <<event, waiters, at>>
        BY <3>1, <3>4 DEF NextMessage
      <4>2. ch.idx = 0 /\ ch.num = 2
        BY <1>1, <1>4, <1>6, <3>4 DEF ChanShape, Chans, Aborted
      <4>3. /\ ch'.idx = 1 /\ ch'.ptr = 0 /\ ch'.num = ch.num /\ ch'.msgs = ch.msgs
            /\ ch'.status = ch.status
        BY <1>1, <4>1, <4>2 DEF ChanShape, Chans
      <4>4. Loaded(t)'
        BY <1>2, <1>3, <4>2, <4>3 DEF Loaded
      <4>5. /\ Base(t) = 0 /\ Asked(t) = asked[t][1]
            /\ Base(t)' = Asked(t).len + 1
        BY <1>2, <4>2, <4>3 DEF Base, Asked
      <4>6. Base(t)' = Base(t) + 1 + ch.ptr
        BY <1>6, <3>2, <4>5
      <4>7. CASE GoOn([twi EXCEPT !.stat = "TX_RESTA"])
        <5>1. [twi EXCEPT !.stat = "TX_RESTA"] \in Regs
          BY <1>1 DEF Regs, Stats
        <5>2. /\ ~twi'.sta /\ twi'.intflg /\ twi'.stat = "TX_RESTA" /\ ~twi'.ack
              /\ twi'.wire = twi.wire
          BY <1>1, <2>1, <4>7, <5>1, GoesOn DEF Regs
        <5>3. Started(t)'
          BY <1>5, <2>1, <4>3, <4>6, <5>2 DEF Started, WireIs
        <5>4. QED BY <4>1, <4>4, <5>3 DEF Underway
      <4>8. CASE GoOn([twi EXCEPT !.intflg = FALSE])
        <5>1. [twi EXCEPT !.intflg = FALSE] \in Regs
          BY <1>1 DEF Regs
        <5>2. ~twi'.sta /\ ~twi'.intflg /\ twi'.stat = twi.stat /\ twi'.data = twi.data
          BY <1>1, <4>8, <5>1, GoesOn DEF Regs
        <5>3. Stuck'
          BY <2>1, <3>2, <5>2 DEF Stuck
        <5>4. QED BY <4>1, <4>4, <5>3 DEF Underway
      <4>9. QED BY <4>1, <4>7, <4>8
    <3>5. QED BY <3>3, <3>4
  <2>5. QED BY <2>3, <2>4
<1>12. CASE Answering(t)
  <2>1. /\ IsrListen /\ Asked(t).read /\ ~twi.sta /\ twi.stat = "TX_AR_ACK"
        /\ ch.ptr = 0 /\ twi.rx = 0 /\ ~twi.ack /\ WireIs(t, Total(t))
    BY <1>2, <1>4, <1>12 DEF Answering, IsrAddress, IsrSend, IsrListen, IsrReceive, IsrLast, IsrAbort
  <2>2. /\ UNCHANGED <<ch, event, waiters, at, buffer>>
        /\ GoOn([twi EXCEPT !.ack = @ \/ Asked(t).len > 1, !.intflg = FALSE])
    BY <1>4, <2>1 DEF IsrListen
  <2>3. [twi EXCEPT !.ack = @ \/ Asked(t).len > 1, !.intflg = FALSE] \in Regs
    BY <1>1 DEF Regs
  <2>4. /\ ~twi'.sta /\ ~twi'.intflg /\ twi'.stat = twi.stat /\ twi'.rx = twi.rx
        /\ twi'.wire = twi.wire /\ twi'.ack = (twi.ack \/ Asked(t).len > 1)
    BY <1>1, <2>2, <2>3, GoesOn DEF Regs
  <2>5. (Asked(t).len > 1) = (ch.ptr + 1 # Asked(t).len) /\ 0 < Asked(t).len
    BY <1>6, <2>1
  <2>6. Filled(t, ch.ptr)'
    BY <2>1, <2>2 DEF Filled
  <2>7. Awaiting(t)'
    BY <1>5, <1>7, <2>1, <2>2, <2>4, <2>5, <2>6 DEF Awaiting, WireIs
  <2>8. QED BY <1>8, <2>2, <2>7 DEF Underway
<1>13. CASE Came(t)
  <2>1. /\ Asked(t).read /\ ~twi.sta /\ twi.intflg
        /\ twi.stat = (IF twi.ack THEN "RXD_ACK" ELSE "RXD_NAK")
        /\ twi.rx = ch.ptr + 1 /\ twi.data[3] = ch.ptr + 1 /\ ch.ptr < Asked(t).len
        /\ twi.ack = (ch.ptr + 1 # Asked(t).len)
        /\ WireIs(t, Total(t)) /\ \A i \in 1 .. ch.ptr : buffer[t][i] = i
    BY <1>13 DEF Came, Filled
  <2>2. ASSUME Store PROVE \A i \in 1 .. ch.ptr + 1 : buffer'[t][i] = i
    <3>1. buffer' = [buffer EXCEPT ![t] = [buffer[t] EXCEPT ![ch.ptr + 1] = ch.ptr + 1]]
      BY <1>4, <2>1, <2>2 DEF Store
    <3>2. t \in DOMAIN buffer /\ DOMAIN buffer[t] = 1 .. Asked(t).len
      BY <1>1, <1>6, <2>1 DEF ThreadShape
    <3>3. ch.ptr + 1 \in 1 .. Asked(t).len /\ \A i \in 1 .. ch.ptr + 1 : i = ch.ptr + 1 \/ i \in 1 .. ch.ptr
      BY <1>4, <1>6, <2>1
    <3>4. \A i \in 1 .. ch.ptr + 1 : i \in 1 .. Asked(t).len
      BY <1>4, <1>6, <2>1
    <3>5. buffer'[t] = [buffer[t] EXCEPT ![ch.ptr + 1] = ch.ptr + 1]
      BY <3>1, <3>2
    <3>6. QED BY <2>1, <3>2, <3>3, <3>4, <3>5
  <2>3. CASE twi.ack
    <3>1. IsrReceive
      BY <1>2, <1>4, <2>1, <2>3 DEF IsrAddress, IsrSend, IsrListen, IsrReceive, IsrLast, IsrAbort
    <3>2. /\ GoOn([twi EXCEPT !.ack = @ /\ ch.ptr + 2 # Asked(t).len, !.intflg = FALSE])
          /\ Store /\ ch' = [ch EXCEPT !.ptr = @ + 1] /\ UNCHANGED <<event, waiters, at>>
      BY <1>4, <2>1, <3>1 DEF IsrReceive
    <3>3. [twi EXCEPT !.ack = @ /\ ch.ptr + 2 # Asked(t).len, !.intflg = FALSE] \in Regs
      BY <1>1 DEF Regs
    <3>4. /\ ~twi'.sta /\ ~twi'.intflg /\ twi'.stat = twi.stat /\ twi'.rx = twi.rx
          /\ twi'.wire = twi.wire /\ twi'.ack = (twi.ack /\ ch.ptr + 2 # Asked(t).len)
      BY <1>1, <3>2, <3>3, GoesOn DEF Regs
    <3>5. /\ ch'.ptr = ch.ptr + 1 /\ ch'.idx = ch.idx /\ ch'.msgs = ch.msgs /\ ch'.num = ch.num
          /\ ch'.status = ch.status
      BY <1>9, <3>2
    <3>6. ch.ptr + 1 < Asked(t).len /\ ch.ptr + 1 + 1 = ch.ptr + 2
      <4>1. ch.ptr \in Nat /\ Asked(t).len \in Nat
        BY <1>4, <1>6
      <4>2. ch.ptr < Asked(t).len /\ ch.ptr + 1 # Asked(t).len
        BY <2>1, <2>3
      <4>3. QED BY ONLY <4>1, <4>2
    <3>7. Filled(t, ch.ptr)'
      BY <2>2, <3>2, <3>5 DEF Filled
    <3>8. Awaiting(t)'
      BY <1>5, <1>7, <2>1, <2>3, <3>4, <3>5, <3>6, <3>7 DEF Awaiting, WireIs
    <3>9. QED BY <1>8, <3>2, <3>5, <3>8 DEF Underway
  <2>4. CASE ~twi.ack
    <3>1. IsrLast
      BY <1>2, <1>4, <2>1, <2>4 DEF IsrAddress, IsrSend, IsrListen, IsrReceive, IsrLast, IsrAbort
    <3>2. Store /\ NextMessage
      BY <1>4, <2>1, <2>4, <3>1 DEF IsrLast
    <3>3. Complete(0) /\ Raise
      BY <1>4, <1>6, <2>1, <3>2 DEF NextMessage, Complete
    <3>4. /\ ch'.idx = 0 /\ ch'.num = 0 /\ ch'.status = "Idle" /\ ~twi'.inten
          /\ twi'.intflg = twi.intflg /\ twi'.sta = twi.sta /\ twi'.wire = twi.wire
      BY <1>1, <3>3, Completes
    <3>5. ReadLength(asked'[t]) = ch.ptr + 1
      BY <1>2, <1>6, <2>1, <2>4
    <3>6. \A i \in 1 .. ReadLength(asked'[t]) : buffer'[t][i] = i
      BY <2>2, <3>2, <3>5
    <3>7. Begins(twi'.wire, Carried(t)', Total(t)')
      BY <1>5, <2>1, <3>4 DEF WireIs
    <3>8. Finished(t)'
      BY <2>1, <3>4, <3>6, <3>7 DEF Finished, WireIs, Filled
    <3>9. QED BY <3>3, <3>8
  <2>5. QED BY <2>1, <2>3, <2>4
<1>14. CASE Refused(t)
  <2>1. /\ IsrAbort /\ ~twi.sta /\ twi.intflg /\ Len(twi.wire) < Total(t)
        /\ twi.stat # "BUS_ERR"
    BY <1>2, <1>14 DEF Refused, IsrAddress, IsrSend, IsrListen, IsrReceive, IsrLast
  <2>2. Complete(Aborted) /\ Raise
    BY <2>1 DEF IsrAbort, Complete
  <2>3. /\ ch'.idx = Aborted /\ ch'.num = 0 /\ ch'.status = "Idle" /\ ~twi'.inten
        /\ twi'.intflg = twi.intflg /\ twi'.sta = twi.sta /\ twi'.wire = twi.wire
    BY <1>1, <2>2, Completes
  <2>4. Aborted # 0
    BY DEF Aborted
  <2>5. Finished(t)'
    BY <1>5, <2>1, <2>3, <2>4 DEF Finished
  <2>6. QED BY <2>2, <2>5
<1>15. CASE Errored
  <2>1. /\ IsrAbort /\ ~twi.sta /\ twi.intflg /\ twi.stat = "BUS_ERR"
    BY <1>2, <1>15 DEF Errored, IsrAddress, IsrSend, IsrListen, IsrReceive, IsrLast
  <2>2. Complete(0) /\ Raise
    BY <1>4, <2>1 DEF IsrAbort, Complete
  <2>3. /\ ch'.idx = 0 /\ ch'.num = 0 /\ ch'.status = "Idle" /\ ~twi'.inten
        /\ twi'.intflg = twi.intflg /\ twi'.sta = twi.sta /\ twi'.stat = twi.stat
    BY <1>1, <2>2, Completes
  <2>4. Finished(t)'
    BY <2>1, <2>3 DEF Finished
  <2>5. QED BY <2>2, <2>4
<1>16. CASE Starting(t) \/ Addressed(t) \/ Writing(t) \/ Awaiting(t) \/ Stuck
  BY <1>2, <1>16 DEF Serving, Starting, Addressed, Writing, Awaiting, Stuck
<1>17. QED BY <1>10, <1>11, <1>12, <1>13, <1>14, <1>15, <1>16 DEF Underway

-----------------------------------------------------------------------------
(* One user at a time, step by step.                                       *)

\* Nobody else is in a call while t takes a step; then only t matters.
LEMMA OnlyOne ==
  ASSUME NEW t \in Users, \A u \in Users : u # t => at'[u] = "app",
         at'[t] = "app" => ~twi'.inten, at'[t] # "app" => Progress(t)'
  PROVE  AloneInv'
BY DEF AloneInv

\* The steps of xfer.
LEMMA XferAlone ==
  ASSUME Shape, Owned, AloneInv, sharing = "alone", NEW t \in Users, Xfer(t)
  PROVE  AloneInv'
<1>1. ChanShape /\ ThreadShape /\ twi \in Regs /\ event \in BOOLEAN
  BY DEF Shape
<1>2. ASSUME NEW u \in Users, u # t PROVE at[u] = "app"
  <2>1. at[t] = "app" => \A v \in Users : at[v] = "app"
    BY DEF Xfer, XferCheck, XferReset, XferPrepare, XferArm, XferPoll, XferWait, XferWake,
           XferGiveUp, XferFinish, MayCall
  <2>2. QED BY <1>2, <2>1 DEF AloneInv
<1>3. \A place \in Places : Goto(t, place) => at'[t] = place /\ \A u \in Users : u # t => at'[u] = "app"
  BY <1>1, <1>2, Goes
<1>4. \A v : Return(t, v) => at'[t] = "app" /\ \A u \in Users : u # t => at'[u] = "app"
  BY <1>1, <1>2, Returned
<1>5. at[t] # "app" => Progress(t)
  BY DEF AloneInv
<1>6. ASSUME UNCHANGED <<ch, asked, buffer>>
      PROVE  /\ Carried(t)' = Carried(t) /\ Total(t)' = Total(t) /\ Base(t)' = Base(t)
             /\ Asked(t)' = Asked(t) /\ (Loaded(t) => Loaded(t)')
  BY <1>6, SameCall
<1>7. ASSUME UNCHANGED <<ch, twi, asked, buffer>>
      PROVE  /\ Underway(t) => Underway(t)'
             /\ Finished(t) => Finished(t)'
  <2>1. UNCHANGED <<ch, twi, asked, buffer>>
    BY <1>7
  <2>2. Loaded(t) => Loaded(t)'
    BY <1>6, <2>1
  <2>3. \A n : WireIs(t, n) = Begins(twi.wire, Carried(t), n)
    BY DEF WireIs
  <2>4. Underway(t) => Underway(t)'
    BY <2>1 DEF Underway, Loaded, Starting, Started, Addressed, Wrote, Writing, Answering, Awaiting,
                Came, Refused, Errored, Stuck, WireIs, Filled, Carried, Total, Base, Asked
  <2>5. Finished(t) => Finished(t)'
    BY <2>1 DEF Finished, WireIs, Filled, Carried, Total, ReadLength
  <2>6. QED BY <2>4, <2>5
<1>8. CASE XferCheck(t)
  <2>1. UNCHANGED twi /\ ~twi.inten
    BY <1>8 DEF XferCheck, MayCall, AloneInv
  <2>2. CASE Return(t, "Busy")
    BY <1>4, <2>1, <2>2, OnlyOne
  <2>3. CASE Goto(t, "reset")
    <3>1. at'[t] = "reset" /\ \A u \in Users : u # t => at'[u] = "app"
      BY <1>3, <2>3 DEF Places
    <3>2. Progress(t)'
      BY <2>1, <3>1 DEF Progress
    <3>3. QED BY <3>1, <3>2, OnlyOne
  <2>4. QED BY <1>8, <2>2, <2>3 DEF XferCheck
<1>9. CASE XferReset(t)
  <2>1. at[t] = "reset" /\ Goto(t, "prepare") /\ twi' = Reset(twi) /\ ~twi.inten
    BY <1>5, <1>9 DEF XferReset, Progress
  <2>2. at'[t] = "prepare" /\ \A u \in Users : u # t => at'[u] = "app"
    BY <1>3, <2>1 DEF Places
  <2>3. ~twi'.inten /\ FreshBus'
    BY <1>1, <2>1, ResetIs DEF FreshBus
  <2>4. Progress(t)'
    BY <2>2, <2>3 DEF Progress
  <2>5. QED BY <2>2, <2>4, OnlyOne
<1>10. CASE XferPrepare(t)
  <2>1. at[t] = "prepare" /\ ~twi.inten /\ FreshBus
    BY <1>5, <1>10 DEF XferPrepare, Progress
  <2>2. CASE Return(t, "Busy") /\ UNCHANGED twi
    BY <1>4, <2>1, <2>2, OnlyOne
  <2>3. CASE Return(t, "Ok") /\ twi' = [twi EXCEPT !.inten = FALSE]
    <3>1. ~twi'.inten
      BY <1>1, <2>3 DEF Regs
    <3>2. QED BY <1>4, <2>3, <3>1, OnlyOne
  <2>4. CASE /\ twi' = [twi EXCEPT !.inten = FALSE] /\ asked[t] # <<>>
             /\ ch' = Load(t) /\ event' = FALSE /\ Goto(t, "arm") /\ Stay
    <3>1. at'[t] = "arm" /\ \A u \in Users : u # t => at'[u] = "app"
      BY <1>3, <2>4 DEF Places
    <3>2. ch.msgs = <<>>
      <4>1. ch.msgs \in Seq(Messages)
        BY <1>1 DEF ChanShape, Chans
      <4>2. ASSUME ch.msgs # <<>> PROVE FALSE
        <5>1. 1 \in 1 .. Len(ch.msgs)
          BY <4>1, <4>2
        <5>2. ch.msgs[1] \in Messages
          BY <4>1, <5>1, ElementOfSeq
        <5>3. ch.msgs[1].of \in Users /\ at[ch.msgs[1].of] \in Inside
          BY <5>1, <5>2 DEF Messages, Owned
        <5>4. QED BY <1>2, <2>1, <5>3 DEF Inside
      <4>3. QED BY <4>2
    <3>3. /\ ch'.status = "Running" /\ ch'.idx = 0 /\ ch'.ptr = 0 /\ ch'.num = Len(asked[t])
          /\ \A i \in 1 .. ch'.num : ch'.msgs[i] = Message(t, asked[t][i])
          /\ Len(ch'.msgs) = ch'.num
      BY <1>1, <2>4, <3>2, LoadIs
    <3>4. 0 < Len(asked[t])
      BY <1>1, <2>4, TransferIs DEF ThreadShape
    <3>5. asked' = asked
      BY <2>4 DEF Stay
    <3>6. Loaded(t)'
      BY <3>3, <3>4, <3>5 DEF Loaded
    <3>7. ~twi'.inten /\ FreshBus'
      BY <1>1, <2>1, <2>4 DEF FreshBus, Regs
    <3>8. Progress(t)'
      BY <2>4, <3>1, <3>3, <3>6, <3>7 DEF Progress
    <3>9. QED BY <3>1, <3>8, OnlyOne
  <2>5. QED BY <1>10, <2>2, <2>3, <2>4 DEF XferPrepare
<1>11. CASE XferArm(t)
  <2>1. /\ at[t] = "arm" /\ Goto(t, "poll") /\ UNCHANGED <<ch, event, asked, buffer>>
        /\ twi' = [twi EXCEPT !.inten = TRUE, !.stp = FALSE, !.ack = FALSE, !.sta = TRUE]
    BY <1>11 DEF XferArm
  <2>2. FreshBus /\ Loaded(t) /\ ch.idx = 0 /\ ch.ptr = 0 /\ ~event
    BY <1>5, <2>1 DEF Progress
  <2>3. at'[t] = "poll" /\ \A u \in Users : u # t => at'[u] = "app"
    BY <1>3, <2>1 DEF Places
  <2>4. /\ twi'.sta /\ ~twi'.ack /\ twi'.intflg = twi.intflg /\ twi'.stat = twi.stat
        /\ twi'.data = twi.data /\ twi'.wire = twi.wire
    BY <1>1, <2>1 DEF Regs
  <2>5. Starting(t)'
    BY <2>1, <2>2, <2>4 DEF Starting, FreshBus
  <2>6. Loaded(t)'
    BY <1>6, <2>1, <2>2
  <2>9. Underway(t)' /\ ch'.status = "Running" /\ ~event'
    BY <2>1, <2>2, <2>5, <2>6 DEF Underway, Loaded
  <2>7. Progress(t)'
    BY <2>3, <2>9 DEF Progress
  <2>8. QED BY <2>3, <2>7, OnlyOne
<1>12. CASE XferPoll(t)
  <2>1. at[t] = "poll" /\ UNCHANGED event
    BY <1>12 DEF XferPoll
  <2>2. CASE Goto(t, "wait") /\ Stay /\ UNCHANGED <<ch, twi>>
    <3>1. at'[t] = "wait" /\ \A u \in Users : u # t => at'[u] = "app"
      BY <1>3, <2>2 DEF Places
    <3>2. UNCHANGED <<ch, twi, asked, buffer>>
      BY <2>2 DEF Stay
    <3>3. IF ch.status = "Running" THEN ~event /\ Underway(t) ELSE Finished(t)
      BY <1>5, <2>1 DEF Progress
    <3>4. Progress(t)'
      BY <1>7, <2>1, <3>1, <3>2, <3>3 DEF Progress
    <3>5. QED BY <3>1, <3>4, OnlyOne
  <2>3. CASE CleanUp(StopQuiet(twi)) /\ Return(t, "StartFail")
    <3>1. ~twi'.inten
      BY <1>1, <2>3, Idles, StopQuietIs
    <3>2. QED BY <1>4, <2>3, <3>1, OnlyOne
  <2>4. QED BY <1>12, <2>2, <2>3 DEF XferPoll
<1>13. CASE XferWait(t)
  <2>1. /\ at[t] = "wait" /\ UNCHANGED <<ch, twi, asked, buffer>> /\ event' = FALSE
        /\ IF event THEN Goto(t, "woken") ELSE Goto(t, "blocked")
    BY <1>13 DEF XferWait
  <2>2. IF ch.status = "Running" THEN ~event /\ Underway(t) ELSE Finished(t)
    BY <1>5, <2>1 DEF Progress
  <2>3. CASE event
    <3>1. at'[t] = "woken" /\ \A u \in Users : u # t => at'[u] = "app"
      BY <1>3, <2>1, <2>3 DEF Places
    <3>2. Finished(t)'
      BY <1>7, <2>1, <2>2, <2>3
    <3>3. Progress(t)'
      BY <3>1, <3>2 DEF Progress
    <3>4. QED BY <3>1, <3>3, OnlyOne
  <2>4. CASE ~event
    <3>1. at'[t] = "blocked" /\ \A u \in Users : u # t => at'[u] = "app"
      BY <1>3, <2>1, <2>4 DEF Places
    <3>2. Progress(t)'
      BY <1>7, <2>1, <2>2, <3>1 DEF Progress
    <3>3. QED BY <3>1, <3>2, OnlyOne
  <2>5. QED BY <2>3, <2>4
<1>14. CASE XferWake(t)
  <2>1. /\ UNCHANGED <<ch, twi, asked, buffer>>
        /\ \/ at[t] = "granted" /\ Goto(t, "woken")
           \/ at[t] = "expired" /\ Goto(t, "late")
    BY <1>14 DEF XferWake
  <2>2. CASE at[t] = "granted" /\ Goto(t, "woken")
    <3>1. at'[t] = "woken" /\ \A u \in Users : u # t => at'[u] = "app"
      BY <1>3, <2>2 DEF Places
    <3>2. Finished(t)'
      BY <1>5, <1>7, <2>1, <2>2 DEF Progress
    <3>3. Progress(t)'
      BY <3>1, <3>2 DEF Progress
    <3>4. QED BY <3>1, <3>3, OnlyOne
  <2>3. CASE at[t] = "expired" /\ Goto(t, "late")
    <3>1. at'[t] = "late" /\ \A u \in Users : u # t => at'[u] = "app"
      BY <1>3, <2>3 DEF Places
    <3>2. Progress(t)'
      BY <3>1 DEF Progress
    <3>3. QED BY <3>1, <3>2, OnlyOne
  <2>4. QED BY <2>1, <2>2, <2>3
<1>15. CASE XferGiveUp(t)
  <2>1. CleanUp(StopQuiet(twi)) /\ Return(t, "Timeout")
    BY <1>15 DEF XferGiveUp
  <2>2. ~twi'.inten
    BY <1>1, <2>1, Idles, StopQuietIs
  <2>3. QED BY <1>4, <2>1, <2>2, OnlyOne
<1>16. CASE XferFinish(t)
  <2>1. at[t] = "woken"
    BY <1>16 DEF XferFinish
  <2>2. ~twi.inten
    BY <1>5, <2>1 DEF Progress, Finished
  <2>3. \E v : Return(t, v) /\ ~twi'.inten
    <3>1. /\ ~[twi EXCEPT !.stp = FALSE, !.intflg = FALSE, !.stat = "IDLE"].inten
          /\ ~[twi EXCEPT !.stp = TRUE, !.intflg = FALSE].inten
      BY <1>1, <2>2 DEF Regs
    <3>2. ~StopQuiet(twi).inten
      BY <1>1, StopQuietIs
    <3>3. QED BY <1>16, <3>1, <3>2 DEF XferFinish, CleanUp
  <2>4. QED BY <1>4, <2>3, OnlyOne
<1>17. QED BY <1>8, <1>9, <1>10, <1>11, <1>12, <1>13, <1>14, <1>15, <1>16 DEF Xfer

\* The steps of probe, and the end of a wait.
LEMMA ProbeAlone ==
  ASSUME Shape, AloneInv, sharing = "alone", NEW t \in Users, Probe(t) \/ Expire(t)
  PROVE  AloneInv'
<1>1. ChanShape /\ ThreadShape /\ twi \in Regs
  BY DEF Shape
<1>2. ASSUME NEW u \in Users, u # t PROVE at[u] = "app"
  <2>1. at[t] = "app" => \A v \in Users : at[v] = "app"
    BY DEF Probe, ProbeCall, ProbeAddress, ProbeAnswer, Expire, MayCall
  <2>2. QED BY <1>2, <2>1 DEF AloneInv
<1>3. \A place \in Places : Goto(t, place) => at'[t] = place /\ \A u \in Users : u # t => at'[u] = "app"
  BY <1>1, <1>2, Goes
<1>4. \A v : Return(t, v) => at'[t] = "app" /\ \A u \in Users : u # t => at'[u] = "app"
  BY <1>1, <1>2, Returned
<1>5. at[t] # "app" => Progress(t)
  BY DEF AloneInv
<1>6. CASE ProbeCall(t)
  <2>1. /\ ~twi.inten /\ Goto(t, "probe start")
        /\ twi' = [Reset(twi) EXCEPT !.ack = FALSE, !.sta = TRUE]
    BY <1>6 DEF ProbeCall, MayCall, AloneInv
  <2>2. at'[t] = "probe start" /\ \A u \in Users : u # t => at'[u] = "app"
    BY <1>3, <2>1 DEF Places
  <2>3. /\ ~twi'.inten /\ twi'.wire = <<>> /\ twi'.data = Nothing /\ twi'.sta /\ ~twi'.intflg
        /\ twi'.stat = "IDLE"
    BY <1>1, <2>1, ResetIs DEF Regs
  <2>4. Progress(t)'
    BY <2>2, <2>3 DEF Progress, ProbeStarts
  <2>5. QED BY <2>2, <2>4, OnlyOne
<1>7. CASE ProbeAddress(t)
  <2>1. at[t] = "probe start" /\ ~twi.inten /\ ProbeStarts
    BY <1>5, <1>7 DEF ProbeAddress, Progress
  <2>2. CASE Return(t, "absent") /\ UNCHANGED twi
    BY <1>4, <2>1, <2>2, OnlyOne
  <2>3. CASE /\ twi.intflg /\ twi.stat \in {"TX_STA", "TX_RESTA"}
             /\ twi' = [twi EXCEPT !.data = <<"address", t, 0>>, !.intflg = FALSE]
             /\ Goto(t, "probe ack")
    <3>1. at'[t] = "probe ack" /\ \A u \in Users : u # t => at'[u] = "app"
      BY <1>3, <2>3 DEF Places
    <3>2. /\ ~twi'.inten /\ ~twi'.sta /\ ~twi'.intflg /\ twi'.stat = "TX_STA" /\ twi'.wire = <<>>
          /\ twi'.data = <<"address", t, 0>>
      BY <1>1, <2>1, <2>3 DEF Regs, ProbeStarts
    <3>3. Progress(t)'
      BY <3>1, <3>2 DEF Progress, ProbeAsks
    <3>4. QED BY <3>1, <3>3, OnlyOne
  <2>4. QED BY <1>7, <2>2, <2>3 DEF ProbeAddress
<1>8. CASE ProbeAnswer(t)
  <2>1. at[t] = "probe ack" /\ ~twi.inten
    BY <1>5, <1>8 DEF ProbeAnswer, Progress
  <2>2. \E v : Return(t, v) /\ ~twi'.inten
    <3>1. ~[twi EXCEPT !.stp = TRUE, !.intflg = FALSE].inten
      BY <1>1, <2>1 DEF Regs
    <3>2. QED BY <1>8, <2>1, <3>1 DEF ProbeAnswer
  <2>3. QED BY <1>4, <2>2, OnlyOne
<1>9. CASE Expire(t)
  <2>1. Goto(t, "expired")
    BY <1>9 DEF Expire
  <2>2. at'[t] = "expired" /\ \A u \in Users : u # t => at'[u] = "app"
    BY <1>3, <2>1 DEF Places
  <2>3. Progress(t)'
    BY <2>2 DEF Progress
  <2>4. QED BY <2>2, <2>3, OnlyOne
<1>10. QED BY <1>6, <1>7, <1>8, <1>9 DEF Probe

\* The ISR runs only for a thread that waits, or for one that has given up.
LEMMA IsrAlone ==
  ASSUME Shape, Owned, AloneInv, Isr
  PROVE  AloneInv'
<1>1. ChanShape /\ ThreadShape /\ twi \in Regs /\ event \in BOOLEAN
  BY DEF Shape
<1>2. twi.inten /\ asked' = asked
  BY DEF Isr, IsrAddress, IsrSend, IsrListen, IsrReceive, IsrLast, IsrAbort, Serving
<1>3. PICK t \in Users : at[t] # "app"
  BY <1>2 DEF AloneInv
<1>4. /\ \A u \in Users : u # t => at[u] = "app"
      /\ Progress(t)
  BY <1>3 DEF AloneInv
<1>5. \A u \in Users : at'[u] = at[u] \/ (at[u] = "blocked" /\ at'[u] = "granted" /\ u \notin waiters')
  BY IsrShape
<1>6. \A u \in Users : u # t => at'[u] = "app"
  BY <1>4, <1>5
<1>7. CASE at[t] \in {"poll", "wait", "blocked"}
  <2>1. ch.status = "Running" /\ ~event /\ Underway(t)
    BY <1>2, <1>4, <1>7 DEF Progress, Finished
  <2>2. asked[t] # <<>>
    BY <1>1, <1>7 DEF ThreadShape, Inside
  <2>3. \/ Underway(t)' /\ UNCHANGED <<event, waiters, at>>
        \/ Finished(t)' /\ Raise
    BY <2>1, <2>2, IsrCarries
  <2>4. CASE Underway(t)' /\ UNCHANGED <<event, waiters, at>>
    <3>1. ch'.status = "Running"
      BY <2>4 DEF Underway, Loaded
    <3>2. Progress(t)'
      BY <1>7, <2>1, <2>4, <3>1 DEF Progress
    <3>3. QED BY <1>3, <1>6, <2>4, <3>2, OnlyOne
  <2>5. CASE Finished(t)'
    <3>1. at'[t] \in {"poll", "wait", "blocked", "granted"} /\ ch'.status # "Running"
      BY <1>5, <1>7, <2>5 DEF Finished
    <3>2. Progress(t)'
      BY <2>5, <3>1 DEF Progress
    <3>3. QED BY <1>6, <3>1, <3>2, OnlyOne
  <2>6. QED BY <2>3, <2>4, <2>5
<1>8. CASE at[t] \in {"expired", "late"}
  <2>1. at'[t] = at[t]
    BY <1>5, <1>8
  <2>2. Progress(t)'
    BY <1>8, <2>1 DEF Progress
  <2>3. QED BY <1>6, <1>8, <2>1, <2>2, OnlyOne
<1>9. at[t] \in {"poll", "wait", "blocked", "expired", "late"}
  BY <1>1, <1>2, <1>3, <1>4 DEF Progress, Finished, ThreadShape, Places
<1>10. QED BY <1>7, <1>8, <1>9

\* The adapter moves for a transfer on its way, or for a probe.
LEMMA BusAlone ==
  ASSUME Shape, AloneInv, Bus
  PROVE  AloneInv'
<1>1. ChanShape /\ ThreadShape /\ twi \in Regs
  BY DEF Shape
<1>2. /\ UNCHANGED <<ch, event, waiters, at, asked, buffer, verdict, sharing>>
      /\ BusStart \/ BusAddress \/ BusSend \/ BusReceive \/ BusError
  BY DEF Bus
<1>3. twi'.inten = twi.inten
  <2>1. BusStart \/ BusReceive => twi'.inten = twi.inten
    BY <1>1 DEF BusStart, BusReceive, Regs
  <2>2. \A stat \in Stats : Acked(stat) \/ Flag(stat) => twi'.inten = twi.inten
    BY <1>1, AckedIs, Flagged
  <2>3. BusAddress \/ BusSend \/ BusError => \E stat \in Stats : Acked(stat) \/ Flag(stat)
    BY DEF BusAddress, BusSend, BusError, Stats
  <2>4. QED BY <1>2, <2>1, <2>2, <2>3
<1>4. ASSUME NEW t \in Users, at[t] # "app", Progress(t) PROVE Progress(t)'
  <2>1. CASE at[t] \in {"poll", "wait", "blocked"}
    <3>1. CASE ch.status = "Running"
      <4>1. asked[t] # <<>>
        BY <1>1, <2>1 DEF ThreadShape, Inside
      <4>2. Underway(t)'
        BY <1>4, <2>1, <3>1, <4>1, BusCarries DEF Progress
      <4>3. QED BY <1>2, <1>4, <2>1, <3>1, <4>2 DEF Progress
    <3>2. CASE ch.status # "Running"
      BY <1>2, <1>4, <2>1, <3>2 DEF Progress, Finished, BusStart, BusAddress, BusSend, BusReceive, BusError, Going
    <3>3. QED BY <3>1, <3>2
  <2>2. CASE at[t] \in {"granted", "woken"}
    BY <1>2, <1>4, <2>2 DEF Progress, Finished, BusStart, BusAddress, BusSend, BusReceive, BusError, Going
  <2>3. CASE at[t] \in {"prepare", "arm"}
    BY <1>2, <1>4, <2>3 DEF Progress, FreshBus, BusStart, BusAddress, BusSend, BusReceive, BusError, Going
  <2>4. CASE at[t] \in {"reset", "expired", "late"}
    BY <1>2, <1>3, <1>4, <2>4 DEF Progress
  <2>5. CASE at[t] = "probe start"
    <3>1. ProbeStarts /\ ~twi.inten
      BY <1>4, <2>5 DEF Progress
    <3>2. BusStart /\ twi.wire = <<>> /\ twi.data = Nothing
      BY <1>2, <3>1 DEF ProbeStarts, BusStart, BusAddress, BusSend, BusReceive, BusError, Going
    <3>3. /\ ~twi'.sta /\ twi'.intflg /\ twi'.stat \in {"TX_STA", "ARB_LOST", "BUS_ERR"} /\ twi'.wire = <<>>
          /\ twi'.data = twi.data
      BY <1>1, <3>2 DEF BusStart, Regs
    <3>4. QED BY <1>2, <1>3, <2>5, <3>1, <3>2, <3>3 DEF Progress, ProbeStarts
  <2>6. CASE at[t] = "probe ack"
    <3>1. ProbeAsks(t) /\ ~twi.inten
      BY <1>4, <2>6 DEF Progress
    <3>2. /\ BusAddress \/ BusError
          /\ ~twi.sta /\ twi.wire = <<>> /\ twi.data = <<"address", t, 0>>
      BY <1>2, <3>1 DEF ProbeAsks, BusStart, BusAddress, BusSend, BusReceive, BusError, Going
    <3>3. CASE Acked("TX_AW_ACK")
      <4>1. twi'.wire = <<<<"address", t, 0>>>>
        BY <1>1, <3>2, <3>3 DEF Acked, Regs
      <4>2. ~twi'.sta /\ twi'.intflg /\ twi'.stat = "TX_AW_ACK"
        BY <1>1, <3>2, <3>3, AckedIs DEF Stats
      <4>3. QED BY <1>2, <1>3, <2>6, <3>1, <4>1, <4>2 DEF Progress, ProbeAsks
    <3>4. ASSUME NEW stat \in {"TX_AW_NAK", "BUS_ERR"}, Flag(stat) PROVE Progress(t)'
      <4>1. ~twi'.sta /\ twi'.intflg /\ twi'.stat = stat
        BY <1>1, <3>2, <3>4, Flagged DEF Stats
      <4>2. QED BY <1>2, <1>3, <2>6, <3>1, <4>1 DEF Progress, ProbeAsks
    <3>5. QED BY <3>2, <3>3, <3>4 DEF BusAddress, BusError
  <2>7. QED BY <1>1, <1>4, <2>1, <2>2, <2>3, <2>4, <2>5, <2>6 DEF ThreadShape, Places
<1>5. QED BY <1>2, <1>3, <1>4 DEF AloneInv

-----------------------------------------------------------------------------
(* The invariant, and what follows from it.                                *)

LEMMA I2cInvInit == I2cInit => I2cInv
<1> SUFFICES ASSUME I2cInit PROVE I2cInv
  OBVIOUS
<1>1. <<>> \in Seq(Messages) /\ <<>> \in Seq(Symbols) /\ Len(<<>>) = 0
  OBVIOUS
<1>2. ch = [msgs |-> <<>>, idx |-> 0, ptr |-> 0, num |-> 0, status |-> "Idle"]
  BY DEF I2cInit, IdleChannel
<1>3. ChanShape
  <2>1. 0 \in Nat /\ 0 \in 0 .. 2
    OBVIOUS
  <2>2. QED BY <1>1, <1>2, <2>1 DEF ChanShape, Chans
<1>4. ThreadShape
  <2>1. <<>> \in [1 .. ReadLength(<<>>) -> Nat]
    BY DEF ReadLength
  <2>2. \A t \in Users : at[t] = "app" /\ asked[t] = <<>> /\ buffer[t] = <<>>
    BY DEF I2cInit
  <2>3. at \in [Users -> Places] /\ asked \in [Users -> Transfers \cup {<<>>}] /\ DOMAIN buffer = Users
    BY DEF I2cInit, Places
  <2>4. QED BY <2>1, <2>2, <2>3 DEF ThreadShape, Inside
<1>5. twi \in Regs /\ event \in BOOLEAN
  BY <1>1, NothingIs DEF I2cInit, Regs, Stats
<1>6. Owned
  BY <1>1, <1>2 DEF I2cInit, Owned
<1>7. AloneInv
  BY DEF I2cInit, AloneInv
<1>8. QED BY <1>3, <1>4, <1>5, <1>6, <1>7 DEF I2cInv, Shape

LEMMA I2cInvNext == I2cInv /\ [I2cNext]_i2cVars => I2cInv'
<1> SUFFICES ASSUME I2cInv, [I2cNext]_i2cVars PROVE I2cInv'
  OBVIOUS
<1>1. Shape /\ Owned /\ (sharing = "alone" => AloneInv)
  BY DEF I2cInv
<1>2. ASSUME NEW t \in Users, Xfer(t) PROVE I2cInv'
  BY <1>1, <1>2, XferShape, XferAlone DEF I2cInv
<1>3. ASSUME NEW t \in Users, Probe(t) \/ Expire(t) PROVE I2cInv'
  BY <1>1, <1>3, ProbeShape, ProbeAlone DEF I2cInv
<1>4. CASE Isr
  BY <1>1, <1>4, OthersOwn, IsrAlone DEF I2cInv
<1>5. CASE Bus
  BY <1>1, <1>5, OthersOwn, BusAlone DEF I2cInv
<1>6. CASE UNCHANGED i2cVars
  <2>1. UNCHANGED <<ch, twi, event, waiters, at, asked, buffer, verdict, sharing>>
    BY <1>6 DEF i2cVars
  <2>2. Shape' /\ Owned'
    BY <1>1, <2>1 DEF Shape, ChanShape, ThreadShape, ReadLength, Owned
  <2>3. ASSUME NEW t \in Users
        PROVE  /\ Underway(t) => Underway(t)'
               /\ Finished(t) => Finished(t)'
               /\ Loaded(t) => Loaded(t)'
               /\ ProbeAsks(t) => ProbeAsks(t)'
    <3>1. Underway(t) => Underway(t)'
      BY <2>1 DEF Underway, Loaded, Starting, Started, Addressed, Wrote, Writing, Answering, Awaiting,
                  Came, Refused, Errored, Stuck, WireIs, Filled, Carried, Total, Base, Asked
    <3>2. Finished(t) => Finished(t)'
      BY <2>1 DEF Finished, WireIs, Filled, Carried, Total, ReadLength
    <3>3. QED BY <2>1, <3>1, <3>2 DEF Loaded, ProbeAsks
  <2>4. ASSUME NEW t \in Users, Progress(t) PROVE Progress(t)'
    BY <2>1, <2>3, <2>4 DEF Progress, FreshBus, ProbeStarts
  <2>5. AloneInv => AloneInv'
    BY <2>1, <2>4 DEF AloneInv
  <2>6. QED BY <1>1, <2>1, <2>2, <2>5 DEF I2cInv
<1>7. QED BY <1>2, <1>3, <1>4, <1>5, <1>6 DEF I2cNext

LEMMA I2cAlways == I2cSpec => []I2cInv
BY I2cInvInit, I2cInvNext, PTL DEF I2cSpec

\* The channel, the threads and their buffers keep their shape: an index is one
\* of a message or the code of an abort, a buffer has the length asked for.
THEOREM I2cHasType == I2cSpec => []I2cTypeOK
<1>1. ASSUME I2cInv PROVE I2cTypeOK
  <2>1. ChanShape /\ ThreadShape /\ \A t \in waiters : t \in Users
    BY <1>1 DEF I2cInv, Shape, Owned
  <2>2. ASSUME NEW t \in Users PROVE Len(buffer[t]) = ReadLength(asked[t])
    <3>1. ReadLength(asked[t]) \in Nat
      <4>1. CASE asked[t] = <<>>
        BY <4>1 DEF ReadLength
      <4>2. CASE asked[t] # <<>>
        <5>1. /\ Len(asked[t]) \in {1, 2}
              /\ \A i \in 1 .. Len(asked[t]) : asked[t][i].len \in Lengths
          BY <2>1, <4>2, TransferIs DEF ThreadShape
        <5>2. asked[t][Len(asked[t])].len \in Nat
          BY <5>1 DEF Lengths
        <5>3. QED BY <4>2, <5>2 DEF ReadLength
      <4>3. QED BY <4>1, <4>2
    <3>2. buffer[t] \in [1 .. ReadLength(asked[t]) -> Nat]
      BY <2>1 DEF ThreadShape
    <3>3. \A n \in Nat : \A f \in [1 .. n -> Nat] : Len(f) = n
      OBVIOUS
    <3>4. QED BY <3>1, <3>2, <3>3
  <2>3. QED BY <2>1, <2>2 DEF I2cTypeOK, ChanShape, Chans, ThreadShape
<1>2. QED BY <1>1, I2cAlways, PTL

\* However the users race, the ISR works on no buffer of a thread that has left
\* xfer, and a channel nobody is inside of is free; and a wait is ended by its
\* own transfer when the calls exclude one another (i2c.rs:742, 828-858).
THEOREM TransfersAreOwned == I2cSpec => []TransfersOwned
<1>1. ASSUME I2cInv PROVE TransfersOwned
  <2>1. /\ ChanShape /\ Owned /\ (sharing = "alone" => AloneInv)
    BY <1>1 DEF I2cInv, Shape
  <2>2. ch.msgs \in Seq(Messages) /\ ch.num \in 0 .. 2 /\ ch.status \in {"Idle", "Running"}
    BY <2>1 DEF ChanShape, Chans
  <2>3. BuffersLive
    BY <2>1 DEF Owned, BuffersLive, Inside
  <2>4. ChannelRecovers
    <3>1. SUFFICES ASSUME \A t \in Users : at[t] = "app"
                   PROVE  /\ ch.status = "Idle" /\ waiters = {}
                          /\ sharing = "alone" => ~twi.inten
      BY DEF ChannelRecovers
    <3>2. waiters = {}
      BY <2>1, <3>1 DEF Owned
    <3>3. ASSUME ch.status = "Running" PROVE FALSE
      <4>1. ch.num # 0 /\ ch.num <= Len(ch.msgs)
        BY <2>1, <3>3 DEF ChanShape
      <4>2. 1 \in 1 .. Len(ch.msgs)
        BY <2>2, <4>1
      <4>3. ch.msgs[1] \in Messages
        BY <2>2, <4>2, ElementOfSeq
      <4>4. QED BY <2>1, <3>1, <4>2, <4>3 DEF Owned, Messages, Inside
    <3>4. sharing = "alone" => ~twi.inten
      BY <2>1, <3>1 DEF AloneInv
    <3>5. QED BY <2>2, <3>2, <3>3, <3>4
  <2>5. WakeIsOurs
    BY <2>1 DEF WakeIsOurs, AloneInv, Progress, Finished
  <2>6. QED BY <2>3, <2>4, <2>5 DEF TransfersOwned
<1>2. QED BY <1>1, I2cAlways, PTL

\* What a finished transfer has put on the wire and in the buffer.
LEMMA FinishedIs ==
  ASSUME Shape, NEW t \in Users, asked[t] # <<>>, Finished(t)
  PROVE  IF ch.idx = 0 THEN Done(t) \/ twi.stat = "BUS_ERR" ELSE ~Done(t)
<1>1. ThreadShape /\ twi.wire \in Seq(Symbols)
  BY RegsAre DEF Shape
<1>2. CASE ch.idx = 0 /\ twi.stat # "BUS_ERR"
  <2>1. Len(twi.wire) = Total(t) /\ \A i \in 1 .. Total(t) : twi.wire[i] = Carried(t)[i]
    BY <1>2 DEF Finished, WireIs, Begins
  <2>2. Carried(t) \in Seq(Symbols)
    <3>1. /\ Len(asked[t]) \in {1, 2}
          /\ \A i \in 1 .. Len(asked[t]) : asked[t][i].read \in BOOLEAN /\ asked[t][i].len \in Lengths
      BY <1>1, TransferIs DEF ThreadShape
    <3>2. OnWire(asked[t][1], t) \in Seq(Symbols)
      BY <3>1, OnWireIs
    <3>3. Len(asked[t]) = 2 => OnWire(asked[t][2], t) \in Seq(Symbols)
      BY <3>1, OnWireIs
    <3>4. QED BY <3>1, <3>2, <3>3, ConcatProperties DEF Carried
  <2>3. twi.wire = Carried(t)
    BY <1>1, <2>1, <2>2, SeqEqual DEF Total
  <2>4. buffer[t] \in [1 .. ReadLength(asked[t]) -> Nat]
        /\ \A i \in 1 .. ReadLength(asked[t]) : buffer[t][i] = i
    BY <1>1, <1>2 DEF Finished, Filled, ThreadShape
  <2>5. Received(t)
    BY <2>4 DEF Received
  <2>6. QED BY <1>2, <2>3, <2>5 DEF Done
<1>3. CASE ch.idx # 0
  <2>1. Len(twi.wire) < Len(Carried(t)) /\ Len(twi.wire) \in Nat
    BY <1>1, <1>3 DEF Finished, Total
  <2>2. ASSUME twi.wire = Carried(t) PROVE FALSE
    BY <2>1, <2>2
  <2>3. QED BY <1>3, <2>2 DEF Done
<1>4. QED BY <1>2, <1>3

\* Where a call returns from, by what it returns.
LEMMA ReturnsFrom ==
  ASSUME Shape, [I2cNext]_i2cVars, NEW t \in Users, NEW v, Returns(t, v)
  PROVE  /\ v = "Ok" /\ Transfer(t) => at[t] = "woken" /\ ch.idx = ch.num
         /\ v = "Fail" => at[t] = "woken" /\ ch.idx # ch.num
         /\ v = "present" => at[t] = "probe ack" /\ twi.intflg /\ twi.stat = "TX_AW_ACK"
<1>1. at[t] # "app" /\ at'[t] = "app" /\ verdict' = v
  BY DEF Returns
<1>2. ThreadShape
  BY DEF Shape
<1>3. PICK u \in Users : Xfer(u) \/ Probe(u) \/ Expire(u)
  <2>1. ASSUME Isr PROVE FALSE
    BY <1>1, <2>1, IsrShape
  <2>2. ASSUME Bus PROVE FALSE
    BY <1>1, <2>2 DEF Bus
  <2>3. i2cVars' # i2cVars
    BY <1>1 DEF i2cVars
  <2>4. QED BY <2>1, <2>2, <2>3 DEF I2cNext
<1>4. \A place \in Places : Goto(u, place) => \A w \in Users : w # u => at'[w] = at[w]
  BY <1>2, Goes
<1>5. \A w \in Users : w # u => at'[w] = at[w]
  <2>1. \A r : Return(u, r) => \A w \in Users : w # u => at'[w] = at[w]
    BY <1>2, Returned
  <2>2. (\E r : Return(u, r)) \/ \E place \in Places : Goto(u, place)
    BY <1>3 DEF Xfer, XferCheck, XferReset, XferPrepare, XferArm, XferPoll, XferWait, XferWake,
       XferGiveUp, XferFinish, Probe, ProbeCall, ProbeAddress, ProbeAnswer, Expire, Places
  <2>3. QED BY <1>4, <2>1, <2>2
<1>6. u = t
  BY <1>1, <1>5
<1>7. \A place \in Places : Goto(t, place) => place = "app"
  BY <1>1, <1>2, Goes
<1>8. \A r : Return(t, r) => r = v
  BY <1>1 DEF Return
<1>9. CASE Xfer(t)
  <2>1. XferPrepare(t) \/ XferPoll(t) \/ XferGiveUp(t) \/ XferFinish(t)
    BY <1>1, <1>7, <1>9 DEF Xfer, XferCheck, MayCall, XferReset, XferArm, XferWait, XferWake, Places
  <2>2. CASE XferPrepare(t)
    BY <1>7, <1>8, <2>2 DEF XferPrepare, Transfer, Places
  <2>3. CASE XferPoll(t)
    BY <1>7, <1>8, <2>3 DEF XferPoll, Places
  <2>4. CASE XferGiveUp(t)
    BY <1>8, <2>4 DEF XferGiveUp
  <2>5. CASE XferFinish(t)
    BY <1>8, <2>5 DEF XferFinish
  <2>6. QED BY <2>1, <2>2, <2>3, <2>4, <2>5
<1>10. CASE Probe(t)
  <2>1. ProbeAddress(t) \/ ProbeAnswer(t)
    BY <1>1, <1>10 DEF Probe, ProbeCall, MayCall
  <2>2. CASE ProbeAddress(t)
    BY <1>7, <1>8, <2>2 DEF ProbeAddress, Places
  <2>3. CASE ProbeAnswer(t)
    BY <1>8, <2>3 DEF ProbeAnswer
  <2>4. QED BY <2>1, <2>2, <2>3
<1>11. CASE Expire(t)
  BY <1>7, <1>11 DEF Expire, Places
<1>12. QED BY <1>3, <1>6, <1>9, <1>10, <1>11

\* Without a second user, unless the bus broke down, Ok means the slaves took
\* exactly the bytes asked for and the read bytes are in the buffer, in order;
\* Fail means they did not; and a probe finds a device only where one answered
\* (i2c.rs:866-888, 987).
THEOREM VerdictsAreTrue == I2cSpec => VerdictIsTrue
<1>1. ASSUME I2cInv, [I2cNext]_i2cVars, sharing = "alone", NEW t \in Users
      PROVE  /\ Returns(t, "Ok") /\ Transfer(t) => Done(t) \/ twi.stat = "BUS_ERR"
             /\ Returns(t, "Fail") => ~Done(t)
             /\ Returns(t, "present") => twi.wire = <<<<"address", t, 0>>>>
  <2>1. Shape /\ ThreadShape /\ AloneInv
    BY <1>1 DEF I2cInv, Shape
  <2>2. ASSUME at[t] = "woken" PROVE asked[t] # <<>> /\ Finished(t) /\ ch.num = 0
    BY <2>1, <2>2 DEF AloneInv, Progress, Finished, ThreadShape, Inside
  <2>3. ASSUME Returns(t, "Ok"), Transfer(t) PROVE Done(t) \/ twi.stat = "BUS_ERR"
    <3>1. at[t] = "woken" /\ ch.idx = ch.num
      BY <1>1, <2>1, <2>3, ReturnsFrom
    <3>2. QED BY <2>1, <2>2, <3>1, FinishedIs
  <2>4. ASSUME Returns(t, "Fail") PROVE ~Done(t)
    <3>1. at[t] = "woken" /\ ch.idx # ch.num
      BY <1>1, <2>1, <2>4, ReturnsFrom
    <3>2. QED BY <2>1, <2>2, <3>1, FinishedIs
  <2>5. ASSUME Returns(t, "present") PROVE twi.wire = <<<<"address", t, 0>>>>
    <3>1. at[t] = "probe ack" /\ twi.intflg /\ twi.stat = "TX_AW_ACK"
      BY <1>1, <2>1, <2>5, ReturnsFrom
    <3>2. ProbeAsks(t)
      BY <2>1, <3>1 DEF AloneInv, Progress
    <3>3. QED BY <3>1, <3>2 DEF ProbeAsks
  <2>6. QED BY <2>3, <2>4, <2>5
<1>2. I2cInv /\ [I2cNext]_i2cVars =>
        [sharing = "alone" =>
           \A t \in Users :
             /\ Returns(t, "Ok") /\ Transfer(t) => Done(t) \/ twi.stat = "BUS_ERR"
             /\ Returns(t, "Fail") => ~Done(t)
             /\ Returns(t, "present") => twi.wire = <<<<"address", t, 0>>>>]_i2cVars
  BY <1>1
<1>3. QED BY <1>2, I2cAlways, PTL DEF VerdictIsTrue, I2cSpec
=============================================================================
