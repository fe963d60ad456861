---------------------------- MODULE RegisterProofs ----------------------------
(***************************************************************************)
(* The steps of the proofs about Registers, for any number of callers, any *)
(* pins, vectors and PWM settings, and any number of calls and edges.      *)
(* DeviceProofs draws the theorems from them.                              *)
(***************************************************************************)
EXTENDS Registers, SequenceTheorems, TLAPS

-----------------------------------------------------------------------------
(* What is true of the accesses of every call, wherever they are cut.      *)

\* The accesses that write a copy back.
WritesBack == {"wr", "flip", "unless", "clear"}

\* What is true of each access by itself.
Lawful(a) ==
  /\ a.op \in WritesBack \cup {"rd", "put", "look"}
  /\ a.op = "put" => \/ a.word.kind = "isr" /\ a.to = Field(0, 1)
                     \/ a.word.kind = "prd" /\ DOMAIN a.to = {0, 16}
  /\ a.word.kind = "isr" => a.op \in {"put", "look"} /\ DOMAIN a.to = {0}
  /\ a.word.kind = "prd" => a.op = "put"
  /\ a.word.kind = "sta" => a.op \in {"rd", "clear"} /\ a.word = StaWord("E")
  /\ a.op = "clear" => a.word.kind = "sta"
  /\ a.op = "flip" => a.word.kind = "data"
  /\ a.op = "look" => a.word.kind \in {"data", "isr"} /\ \E f : DOMAIN a.to = {f}
  /\ a.op = "wr" /\ a.word.kind = "data" => \A f \in DOMAIN a.to : a.to[f] \in {0, 1}
  /\ a.op = "unless" => /\ a.word = PwmCtrl /\ a.f \in {Prescal(0), Prescal(1)}
                        /\ DOMAIN a.to \subseteq {Gating(0), Gating(1)}
  /\ a.word = GateWord(Uart2) => a.op \in {"rd", "wr"} /\ (22 \in DOMAIN a.to => a.to[22] = 1)

\* A copy is written back to the word it was read from.
ReadFirst(s) ==
  \A i \in DOMAIN s : s[i].op \in WritesBack =>
    \E j \in 1 .. i - 1 : /\ s[j].op = "rd" /\ s[j].word = s[i].word
                          /\ \A m \in j + 1 .. i - 1 : s[m].op # "rd"

\* What acknowledged pins is read again before it is written again.
AckedOnce(s) ==
  \A i \in DOMAIN s : \A j \in i + 1 .. Len(s) :
    s[i].op = "clear" /\ s[j].op \in WritesBack => \E m \in i + 1 .. j - 1 : s[m].op = "rd"

\* A vector is enabled after it was given a handler.
HandlerFirst(s) ==
  \A i \in DOMAIN s : \A v \in Vectors :
    s[i].word = EnWord(v) /\ v \in DOMAIN s[i].to =>
      \E j \in 1 .. i - 1 : s[j] = Put(IsrEntry(v), Field(0, 1))

\* A UART leaves reset after its clock was switched on.
ClockFirst(s) ==
  \A i \in DOMAIN s :
    s[i].word = ResetWord(Uart2) /\ 22 \in DOMAIN s[i].to /\ s[i].to[22] = 1 =>
      \E j \in 1 .. i - 1 : s[j] = Wr(GateWord(Uart2), Field(22, 1))

\* A prescaler is written after the write that gates its channel's clock.
GateFirst(s) ==
  \A i \in DOMAIN s : \A ch \in {0, 1} :
    s[i].word = PwmCtrl /\ Prescal(ch) \in DOMAIN s[i].to =>
      \E j \in 1 .. i - 1 :
        /\ s[j] = WrUnless(PwmCtrl, Prescal(ch), s[i].to[Prescal(ch)], Field(Gating(ch), 0))
        /\ \A m \in j + 1 .. i - 1 : s[m].op = "put"

Rereads(s) ==
  /\ \E S : s \in Seq(S)
  /\ \A i \in DOMAIN s : Lawful(s[i])
  /\ ReadFirst(s) /\ AckedOnce(s) /\ GateFirst(s)

WellOrdered(s) == Rereads(s) /\ HandlerFirst(s) /\ ClockFirst(s)

LEMMA Joined ==
  ASSUME NEW s, NEW t, NEW S, NEW T, s \in Seq(S), t \in Seq(T)
  PROVE  /\ s \o t \in Seq(S \cup T)
         /\ Len(s) \in Nat /\ Len(t) \in Nat /\ Len(s \o t) = Len(s) + Len(t)
         /\ DOMAIN s = 1 .. Len(s) /\ DOMAIN t = 1 .. Len(t)
         /\ DOMAIN (s \o t) = 1 .. Len(s) + Len(t)
         /\ \A i \in 1 .. Len(s) : (s \o t)[i] = s[i]
         /\ \A i \in 1 .. Len(t) : (s \o t)[Len(s) + i] = t[i]
<1>1. s \in Seq(S \cup T) /\ t \in Seq(S \cup T)
  OBVIOUS
<1>2. QED BY <1>1, ConcatProperties, LenProperties

LEMMA OrderGrows ==
  ASSUME NEW s, NEW t, WellOrdered(s), Rereads(t),
         \A i \in DOMAIN t : \A v \in Vectors :
           t[i].word = EnWord(v) /\ v \in DOMAIN t[i].to =>
             \/ \E j \in 1 .. i - 1 : t[j] = Put(IsrEntry(v), Field(0, 1))
             \/ \E j \in DOMAIN s : s[j] = Put(IsrEntry(v), Field(0, 1)),
         \A i \in DOMAIN t :
           t[i].word = ResetWord(Uart2) /\ 22 \in DOMAIN t[i].to /\ t[i].to[22] = 1 =>
             \/ \E j \in 1 .. i - 1 : t[j] = Wr(GateWord(Uart2), Field(22, 1))
             \/ \E j \in DOMAIN s : s[j] = Wr(GateWord(Uart2), Field(22, 1))
  PROVE  WellOrdered(s \o t)
<1>1. PICK S, T : s \in Seq(S) /\ t \in Seq(T)
  BY DEF WellOrdered, Rereads
<1> DEFINE u == s \o t
           n == Len(s)
           k == Len(t)
<1>2. /\ u \in Seq(S \cup T) /\ Len(u) = n + k /\ n \in Nat /\ k \in Nat
      /\ DOMAIN s = 1 .. n /\ DOMAIN t = 1 .. k /\ DOMAIN u = 1 .. n + k
      /\ \A i \in 1 .. n : u[i] = s[i]
      /\ \A i \in 1 .. k : u[n + i] = t[i]
  BY <1>1, Joined
<1>3. \A i \in DOMAIN u : \/ i \in DOMAIN s /\ u[i] = s[i]
                          \/ \E j \in DOMAIN t : i = n + j /\ u[i] = t[j]
  <2> SUFFICES ASSUME NEW i \in DOMAIN u, ~(i \in 1 .. n)
               PROVE  \E j \in 1 .. k : i = n + j /\ u[i] = t[j]
    BY <1>2
  <2>1. i - n \in 1 .. k /\ i = n + (i - n)
    BY <1>2
  <2>2. QED BY <1>2, <2>1
<1> HIDE DEF u, n, k
<1>4. \A i \in DOMAIN u : Lawful(u[i])
  BY <1>3 DEF WellOrdered, Rereads
<1>5. ReadFirst(u)
  <2> SUFFICES ASSUME NEW i \in DOMAIN u, u[i].op \in WritesBack
               PROVE  \E j \in 1 .. i - 1 : /\ u[j].op = "rd" /\ u[j].word = u[i].word
                                            /\ \A m \in j + 1 .. i - 1 : u[m].op # "rd"
    BY DEF ReadFirst
  <2>1. CASE i \in DOMAIN s /\ u[i] = s[i]
    <3>1. PICK j \in 1 .. i - 1 : /\ s[j].op = "rd" /\ s[j].word = s[i].word
                                  /\ \A m \in j + 1 .. i - 1 : s[m].op # "rd"
      BY <2>1 DEF WellOrdered, Rereads, ReadFirst
    <3>2. \A m \in j .. i - 1 : u[m] = s[m]
      BY <1>2, <2>1, <3>1
    <3>3. QED BY <1>2, <2>1, <3>1, <3>2
  <2>2. CASE \E j \in DOMAIN t : i = n + j /\ u[i] = t[j]
    <3>1. PICK x \in DOMAIN t : i = n + x /\ u[i] = t[x]
      BY <2>2
    <3>2. PICK j \in 1 .. x - 1 : /\ t[j].op = "rd" /\ t[j].word = t[x].word
                                  /\ \A m \in j + 1 .. x - 1 : t[m].op # "rd"
      BY <3>1 DEF WellOrdered, Rereads, ReadFirst
    <3>3. n + j \in 1 .. i - 1 /\ u[n + j] = t[j]
      BY <1>2, <3>1, <3>2
    <3>4. ASSUME NEW m \in n + j + 1 .. i - 1 PROVE u[m].op # "rd"
      <4>1. m - n \in j + 1 .. x - 1 /\ m - n \in 1 .. k /\ m = n + (m - n)
        BY <1>2, <3>1, <3>2
      <4>2. QED BY <1>2, <3>2, <4>1
    <3>5. QED BY <3>1, <3>2, <3>3, <3>4
  <2>3. QED BY <1>3, <2>1, <2>2
<1>6. AckedOnce(u)
  <2> SUFFICES ASSUME NEW i \in DOMAIN u, NEW j \in i + 1 .. Len(u),
                      u[i].op = "clear", u[j].op \in WritesBack
               PROVE  \E m \in i + 1 .. j - 1 : u[m].op = "rd"
    BY DEF AckedOnce
  <2>0. j \in DOMAIN u /\ i \in Nat /\ j \in Nat /\ i < j
    BY <1>2
  <2>1. CASE j \in DOMAIN s /\ u[j] = s[j]
    <3>1. i \in DOMAIN s /\ u[i] = s[i] /\ j \in i + 1 .. Len(s)
      BY <1>2, <2>0, <2>1 DEF n
    <3>2. PICK m \in i + 1 .. j - 1 : s[m].op = "rd"
      BY <2>1, <3>1 DEF WellOrdered, Rereads, AckedOnce
    <3>3. QED BY <1>2, <2>0, <2>1, <3>1, <3>2
  <2>2. CASE \E y \in DOMAIN t : j = n + y /\ u[j] = t[y]
    <3>1. PICK y \in DOMAIN t : j = n + y /\ u[j] = t[y]
      BY <2>2
    <3>2. CASE i \in DOMAIN s /\ u[i] = s[i]
      <4>1. PICK m \in 1 .. y - 1 : t[m].op = "rd"
        BY <3>1 DEF WellOrdered, Rereads, ReadFirst
      <4>2. n + m \in i + 1 .. j - 1 /\ u[n + m] = t[m]
        BY <1>2, <3>1, <3>2, <4>1
      <4>3. QED BY <4>1, <4>2
    <3>3. CASE \E x \in DOMAIN t : i = n + x /\ u[i] = t[x]
      <4>1. PICK x \in DOMAIN t : i = n + x /\ u[i] = t[x]
        BY <3>3
      <4>2. y \in x + 1 .. Len(t)
        BY <1>2, <2>0, <3>1, <4>1 DEF k
      <4>3. PICK m \in x + 1 .. y - 1 : t[m].op = "rd"
        BY <3>1, <4>1, <4>2 DEF WellOrdered, Rereads, AckedOnce
      <4>4. n + m \in i + 1 .. j - 1 /\ u[n + m] = t[m]
        BY <1>2, <3>1, <4>1, <4>2, <4>3
      <4>5. QED BY <4>3, <4>4
    <3>4. QED BY <1>3, <3>2, <3>3
  <2>3. QED BY <1>3, <2>0, <2>1, <2>2
<1>7. HandlerFirst(u)
  <2> SUFFICES ASSUME NEW i \in DOMAIN u, NEW v \in Vectors,
                      u[i].word = EnWord(v), v \in DOMAIN u[i].to
               PROVE  \E j \in 1 .. i - 1 : u[j] = Put(IsrEntry(v), Field(0, 1))
    BY DEF HandlerFirst
  <2>1. CASE i \in DOMAIN s /\ u[i] = s[i]
    <3>1. PICK j \in 1 .. i - 1 : s[j] = Put(IsrEntry(v), Field(0, 1))
      BY <2>1 DEF WellOrdered, HandlerFirst
    <3>2. QED BY <1>2, <2>1, <3>1
  <2>2. CASE \E y \in DOMAIN t : i = n + y /\ u[i] = t[y]
    <3>1. PICK y \in DOMAIN t : i = n + y /\ u[i] = t[y]
      BY <2>2
    <3>2. CASE \E j \in 1 .. y - 1 : t[j] = Put(IsrEntry(v), Field(0, 1))
      <4>1. PICK j \in 1 .. y - 1 : t[j] = Put(IsrEntry(v), Field(0, 1))
        BY <3>2
      <4>2. n + j \in 1 .. i - 1 /\ u[n + j] = t[j]
        BY <1>2, <3>1, <4>1
      <4>3. QED BY <4>1, <4>2
    <3>3. CASE \E j \in DOMAIN s : s[j] = Put(IsrEntry(v), Field(0, 1))
      <4>1. PICK j \in DOMAIN s : s[j] = Put(IsrEntry(v), Field(0, 1))
        BY <3>3
      <4>2. j \in 1 .. i - 1 /\ u[j] = s[j]
        BY <1>2, <3>1, <4>1
      <4>3. QED BY <4>1, <4>2
    <3>4. QED BY <3>1, <3>2, <3>3
  <2>3. QED BY <1>3, <2>1, <2>2
<1>8. ClockFirst(u)
  <2> SUFFICES ASSUME NEW i \in DOMAIN u, u[i].word = ResetWord(Uart2),
                      22 \in DOMAIN u[i].to, u[i].to[22] = 1
               PROVE  \E j \in 1 .. i - 1 : u[j] = Wr(GateWord(Uart2), Field(22, 1))
    BY DEF ClockFirst
  <2>1. CASE i \in DOMAIN s /\ u[i] = s[i]
    <3>1. PICK j \in 1 .. i - 1 : s[j] = Wr(GateWord(Uart2), Field(22, 1))
      BY <2>1 DEF WellOrdered, ClockFirst
    <3>2. QED BY <1>2, <2>1, <3>1
  <2>2. CASE \E y \in DOMAIN t : i = n + y /\ u[i] = t[y]
    <3>1. PICK y \in DOMAIN t : i = n + y /\ u[i] = t[y]
      BY <2>2
    <3>2. CASE \E j \in 1 .. y - 1 : t[j] = Wr(GateWord(Uart2), Field(22, 1))
      <4>1. PICK j \in 1 .. y - 1 : t[j] = Wr(GateWord(Uart2), Field(22, 1))
        BY <3>2
      <4>2. n + j \in 1 .. i - 1 /\ u[n + j] = t[j]
        BY <1>2, <3>1, <4>1
      <4>3. QED BY <4>1, <4>2
    <3>3. CASE \E j \in DOMAIN s : s[j] = Wr(GateWord(Uart2), Field(22, 1))
      <4>1. PICK j \in DOMAIN s : s[j] = Wr(GateWord(Uart2), Field(22, 1))
        BY <3>3
      <4>2. j \in 1 .. i - 1 /\ u[j] = s[j]
        BY <1>2, <3>1, <4>1
      <4>3. QED BY <4>1, <4>2
    <3>4. QED BY <3>1, <3>2, <3>3
  <2>3. QED BY <1>3, <2>1, <2>2
<1>9. GateFirst(u)
  <2> SUFFICES ASSUME NEW i \in DOMAIN u, NEW ch \in {0, 1}, u[i].word = PwmCtrl,
                      Prescal(ch) \in DOMAIN u[i].to
               PROVE  \E j \in 1 .. i - 1 :
                        /\ u[j] = WrUnless(PwmCtrl, Prescal(ch), u[i].to[Prescal(ch)],
                                           Field(Gating(ch), 0))
                        /\ \A m \in j + 1 .. i - 1 : u[m].op = "put"
    BY DEF GateFirst
  <2>1. CASE i \in DOMAIN s /\ u[i] = s[i]
    <3>1. PICK j \in 1 .. i - 1 :
            /\ s[j] = WrUnless(PwmCtrl, Prescal(ch), s[i].to[Prescal(ch)], Field(Gating(ch), 0))
            /\ \A m \in j + 1 .. i - 1 : s[m].op = "put"
      BY <2>1 DEF WellOrdered, Rereads, GateFirst
    <3>2. \A m \in j .. i - 1 : u[m] = s[m]
      BY <1>2, <2>1, <3>1
    <3>3. u[j] = s[j] /\ \A m \in j + 1 .. i - 1 : u[m] = s[m]
      BY <1>2, <2>1, <3>1, <3>2
    <3>4. QED BY <2>1, <3>1, <3>3
  <2>2. CASE \E y \in DOMAIN t : i = n + y /\ u[i] = t[y]
    <3>1. PICK y \in DOMAIN t : i = n + y /\ u[i] = t[y]
      BY <2>2
    <3>2. PICK j \in 1 .. y - 1 :
            /\ t[j] = WrUnless(PwmCtrl, Prescal(ch), t[y].to[Prescal(ch)], Field(Gating(ch), 0))
            /\ \A m \in j + 1 .. y - 1 : t[m].op = "put"
      BY <3>1 DEF WellOrdered, Rereads, GateFirst
    <3>3. n + j \in 1 .. i - 1 /\ u[n + j] = t[j]
      BY <1>2, <3>1, <3>2
    <3>4. ASSUME NEW m \in n + j + 1 .. i - 1 PROVE u[m].op = "put"
      <4>1. m - n \in j + 1 .. y - 1 /\ m - n \in 1 .. k /\ m = n + (m - n)
        BY <1>2, <3>1, <3>2
      <4>2. QED BY <1>2, <3>2, <4>1
    <3>5. QED BY <3>1, <3>2, <3>3, <3>4
  <2>3. QED BY <1>3, <2>1, <2>2
<1>10. QED BY <1>2, <1>4, <1>5, <1>6, <1>7, <1>8, <1>9 DEF WellOrdered, Rereads, u

LEMMA OrderJoins ==
  ASSUME NEW s, NEW t, WellOrdered(s), WellOrdered(t)
  PROVE  WellOrdered(s \o t)
<1>1. Rereads(t) /\ HandlerFirst(t) /\ ClockFirst(t)
  BY DEF WellOrdered
<1>2. \A i \in DOMAIN t : \A v \in Vectors :
        t[i].word = EnWord(v) /\ v \in DOMAIN t[i].to =>
          \E j \in 1 .. i - 1 : t[j] = Put(IsrEntry(v), Field(0, 1))
  BY <1>1 DEF HandlerFirst
<1>3. \A i \in DOMAIN t :
        t[i].word = ResetWord(Uart2) /\ 22 \in DOMAIN t[i].to /\ t[i].to[22] = 1 =>
          \E j \in 1 .. i - 1 : t[j] = Wr(GateWord(Uart2), Field(22, 1))
  BY <1>1 DEF ClockFirst
<1>4. QED BY <1>1, <1>2, <1>3, OrderGrows

\* Words on which nothing depends but their own fields.
Plain == {"cfg", "pull", "drive", "irqcfg", "ctrl", "deb", "mask", "pend", "dramgate"}

LEMMA Kinds ==
  ASSUME NEW p
  PROVE  /\ CfgWord("E", p).kind = "cfg" /\ DataWord("E").kind = "data"
         /\ PullWord("E", p).kind = "pull" /\ DriveWord("E", p).kind = "drive"
         /\ IrqCfgWord("E", p).kind = "irqcfg" /\ CtrlWord("E").kind = "ctrl"
         /\ StaWord("E").kind = "sta" /\ DebWord("E").kind = "deb"
         /\ GateWord(p).kind = "gate" /\ ResetWord(p).kind = "reset" /\ DramWord.kind = "dramgate"
         /\ MaskWord(p).kind = "mask" /\ EnWord(p).kind = "en" /\ PendWord(p).kind = "pend"
         /\ IsrEntry(p).kind = "isr" /\ PwmCtrl.kind = "pwm" /\ PwmPrd(p).kind = "prd"
BY DEF CfgWord, DataWord, PullWord, DriveWord, IrqCfgWord, CtrlWord, StaWord, DebWord, GateWord,
       ResetWord, DramWord, MaskWord, EnWord, PendWord, IsrEntry, PwmCtrl, PwmPrd, Word

LEMMA FieldIs ==
  ASSUME NEW f, NEW v
  PROVE  DOMAIN Field(f, v) = {f} /\ Field(f, v)[f] = v
BY DEF Field

LEMMA AccessIs ==
  ASSUME NEW w, NEW to
  PROVE  /\ Rd(w).op = "rd" /\ Rd(w).word = w /\ DOMAIN Rd(w).to = {}
         /\ Wr(w, to).op = "wr" /\ Wr(w, to).word = w /\ Wr(w, to).to = to
         /\ Put(w, to).op = "put" /\ Put(w, to).word = w /\ Put(w, to).to = to
         /\ Clear(w, to).op = "clear" /\ Clear(w, to).word = w /\ Clear(w, to).to = to
         /\ Look(w, to).op = "look" /\ Look(w, to).word = w /\ Look(w, to).to = to
         /\ Flip(w, to).op = "flip" /\ Flip(w, to).word = w /\ Flip(w, to).to = to
BY DEF Rd, Wr, Put, Clear, Look, Flip

\* A read and a write back of the same word.
LEMMA PairRereads ==
  ASSUME NEW s, NEW a, NEW b, s = <<a, b>>, a.op = "rd", a.word = b.word, DOMAIN a.to = {},
         Lawful(a), Lawful(b), b.op \in {"wr", "clear"},
         a.word = PwmCtrl => Prescal(0) \notin DOMAIN b.to /\ Prescal(1) \notin DOMAIN b.to
  PROVE  Rereads(s) /\ s \in Seq({a, b}) /\ DOMAIN s = {1, 2} /\ s[1] = a /\ s[2] = b
<1>1. s \in Seq({a, b}) /\ Len(s) = 2 /\ DOMAIN s = {1, 2} /\ s[1] = a /\ s[2] = b
  OBVIOUS
<1>2. \A i \in DOMAIN s : Lawful(s[i])
  BY <1>1
<1>3. ReadFirst(s)
  BY <1>1 DEF ReadFirst, WritesBack
<1>4. AckedOnce(s)
  BY <1>1 DEF AckedOnce, WritesBack
<1>5. GateFirst(s)
  BY <1>1 DEF GateFirst
<1>6. QED BY <1>1, <1>2, <1>3, <1>4, <1>5 DEF Rereads

LEMMA PairOrdered ==
  ASSUME NEW s, NEW a, NEW b, s = <<a, b>>, a.op = "rd", a.word = b.word, DOMAIN a.to = {},
         Lawful(a), Lawful(b), b.op \in {"wr", "clear"}, a.word.kind # "en",
         a.word = PwmCtrl => Prescal(0) \notin DOMAIN b.to /\ Prescal(1) \notin DOMAIN b.to,
         a.word = ResetWord(Uart2) /\ 22 \in DOMAIN b.to => b.to[22] # 1
  PROVE  WellOrdered(s)
<1>1. Rereads(s) /\ DOMAIN s = {1, 2} /\ s[1] = a /\ s[2] = b
  BY PairRereads
<1>2. HandlerFirst(s)
  BY <1>1, Kinds DEF HandlerFirst
<1>3. ClockFirst(s)
  BY <1>1 DEF ClockFirst
<1>4. QED BY <1>1, <1>2, <1>3 DEF WellOrdered

LEMMA ModifyOrdered ==
  ASSUME NEW w, NEW f, NEW v,
         \/ w.kind \in Plain
         \/ w.kind = "data" /\ v \in {0, 1}
         \/ w.kind = "gate" /\ (f = 22 => v = 1)
         \/ w.kind = "reset" /\ (f = 22 => v # 1)
  PROVE  WellOrdered(Modify(w, f, v))
<1> DEFINE a == Rd(w)
           b == Wr(w, Field(f, v))
<1>0. /\ a.op = "rd" /\ a.word = w /\ DOMAIN a.to = {} /\ b.op = "wr" /\ b.word = w
      /\ b.to = Field(f, v)
  BY AccessIs
<1>2. Modify(w, f, v) = <<a, b>>
  BY DEF Modify
<1> HIDE DEF a, b
<1>1. /\ a.op = "rd" /\ a.word = w /\ DOMAIN a.to = {} /\ b.op = "wr" /\ b.word = w
      /\ b.to = Field(f, v) /\ DOMAIN b.to = {f} /\ b.to[f] = v
  <2>1. DOMAIN Field(f, v) = {f} /\ Field(f, v)[f] = v
    BY FieldIs
  <2>2. QED BY <1>0, <2>1
<1>3. w.kind \notin {"en", "pwm", "isr", "prd", "sta"} /\ w # PwmCtrl
  BY Kinds DEF Plain
<1>4. w = GateWord(Uart2) => w.kind = "gate"
  BY Kinds
<1>5. w = ResetWord(Uart2) => w.kind = "reset"
  BY Kinds
<1>6. Lawful(a)
  BY <1>1, <1>3 DEF Lawful, WritesBack
<1>7. Lawful(b)
  BY <1>1, <1>3, <1>4 DEF Lawful, WritesBack, Plain
<1>8. a.word = ResetWord(Uart2) /\ 22 \in DOMAIN b.to => b.to[22] # 1
  BY <1>1, <1>5 DEF Plain
<1>9. QED BY <1>1, <1>2, <1>3, <1>6, <1>7, <1>8, PairOrdered

LEMMA OneOrdered ==
  ASSUME NEW s, NEW a, s = <<a>>, Lawful(a), a.op \in {"put", "look"}
  PROVE  WellOrdered(s)
<1>1. s \in Seq({a}) /\ Len(s) = 1 /\ DOMAIN s = {1} /\ s[1] = a
  OBVIOUS
<1>2. a.word.kind \in {"isr", "prd", "data"}
  BY DEF Lawful
<1>3. ReadFirst(s) /\ AckedOnce(s)
  BY <1>1 DEF ReadFirst, AckedOnce, WritesBack
<1>4. HandlerFirst(s)
  BY <1>1, <1>2, Kinds DEF HandlerFirst
<1>5. ClockFirst(s)
  BY <1>1, <1>2, Kinds DEF ClockFirst
<1>6. GateFirst(s)
  BY <1>1, <1>2, Kinds DEF GateFirst
<1>7. QED BY <1>1, <1>3, <1>4, <1>5, <1>6 DEF WellOrdered, Rereads

-----------------------------------------------------------------------------
(* The calls of each driver.                                               *)

LEMMA TripleIs ==
  ASSUME NEW a, NEW b, NEW c
  PROVE  /\ <<a, b, c>> \in Seq({a, b, c}) /\ DOMAIN <<a, b, c>> = {1, 2, 3} /\ Len(<<a, b, c>>) = 3
         /\ <<a, b, c>>[1] = a /\ <<a, b, c>>[2] = b /\ <<a, b, c>>[3] = c
OBVIOUS

LEMMA ToggleOrdered ==
  ASSUME NEW p
  PROVE  WellOrdered(Toggle("E", p))
<1> DEFINE w == DataWord("E")
           a == Look(w, Field(p, 0))
           b == Rd(w)
           c == Flip(w, Field(p, 0))
           s == Toggle("E", p)
<1>1. s = <<a, b, c>>
  BY DEF Toggle
<1>3. /\ a.op = "look" /\ a.word = w /\ a.to = Field(p, 0)
      /\ b.op = "rd" /\ b.word = w /\ DOMAIN b.to = {}
      /\ c.op = "flip" /\ c.word = w
  BY AccessIs
<1>4. w.kind = "data"
  BY Kinds
<1>5. w # PwmCtrl /\ w # GateWord(Uart2) /\ w # ResetWord(Uart2) /\ \A v \in Vectors : w # EnWord(v)
  BY <1>4, Kinds
<1> HIDE DEF a, b, c, w, s
<1>2. s \in Seq({a, b, c}) /\ DOMAIN s = {1, 2, 3} /\ Len(s) = 3 /\ s[1] = a /\ s[2] = b /\ s[3] = c
  BY <1>1, TripleIs
<1>6. \E f : DOMAIN a.to = {f}
  <2>1. DOMAIN Field(p, 0) = {p}
    BY FieldIs
  <2>2. QED BY <1>3, <2>1
<1>7. Lawful(a) /\ Lawful(b) /\ Lawful(c)
  BY <1>3, <1>4, <1>5, <1>6 DEF Lawful, WritesBack
<1>8. ReadFirst(s)
  BY <1>2, <1>3 DEF ReadFirst, WritesBack
<1>9. AckedOnce(s)
  BY <1>2, <1>3 DEF AckedOnce, WritesBack
<1>10. \A i \in DOMAIN s : s[i].word = w
  BY <1>2, <1>3
<1>11. HandlerFirst(s) /\ ClockFirst(s) /\ GateFirst(s)
  BY <1>5, <1>10 DEF HandlerFirst, ClockFirst, GateFirst
<1>12. \A i \in DOMAIN s : Lawful(s[i])
  BY <1>2, <1>7
<1>13. QED BY <1>2, <1>8, <1>9, <1>11, <1>12 DEF WellOrdered, Rereads, s

LEMMA AckOrdered ==
  ASSUME NEW p
  PROVE  WellOrdered(IrqAck("E", p))
<1> DEFINE w == StaWord("E")
           a == Rd(w)
           b == Clear(w, Field(p, 1))
<1>1. IrqAck("E", p) = <<a, b>>
  BY DEF IrqAck
<1>2. /\ a.op = "rd" /\ a.word = w /\ DOMAIN a.to = {}
      /\ b.op = "clear" /\ b.word = w
  BY AccessIs
<1>3. w.kind = "sta" /\ w # PwmCtrl /\ w # GateWord(Uart2) /\ w # ResetWord(Uart2)
  BY Kinds
<1>4. Lawful(a) /\ Lawful(b)
  BY <1>2, <1>3 DEF Lawful, WritesBack
<1> HIDE DEF a, b
<1>5. QED BY <1>1, <1>2, <1>3, <1>4, PairOrdered

\* The port's calls but init_default.
LEMMA GpioOrdered ==
  ASSUME NEW P, NEW k \in GpioCalls("E", P)
  PROVE  WellOrdered(k.does)
<1>1. \A p, v : WellOrdered(SetFunction("E", p, v)) /\ WellOrdered(SetPullMode("E", p, v))
                /\ WellOrdered(SetDriveLevel("E", p, v)) /\ WellOrdered(SetIrqType("E", p, v))
  BY ModifyOrdered, Kinds DEF SetFunction, SetPullMode, SetDriveLevel, SetIrqType, Plain
<1>2. \A p, v : v \in {0, 1} => WellOrdered(SetValue("E", p, v))
  BY ModifyOrdered, Kinds DEF SetValue
<1>3. \A p, v : WellOrdered(Modify(CtrlWord("E"), p, v)) /\ WellOrdered(Modify(DebWord("E"), p, v))
  BY ModifyOrdered, Kinds DEF Plain
<1>4. \A p, v : v \in {0, 1} => WellOrdered(DirectionOutput("E", p, v))
  BY <1>1, <1>2, OrderJoins DEF DirectionOutput
<1>5. \A p : WellOrdered(IrqDisable("E", p))
  BY <1>3, AckOrdered, OrderJoins DEF IrqDisable
<1>6. WellOrdered(SelectIrqClock("E", 1)) /\ WellOrdered(SetDebounce("E", 3))
  BY <1>3 DEF SelectIrqClock, SetDebounce
<1>7. \A p : WellOrdered(IrqEnable("E", p)) /\ WellOrdered(DirectionInput("E", p))
  BY <1>1, <1>3 DEF IrqEnable, DirectionInput
<1>8. CASE k \in PortCalls("E")
  BY <1>6, <1>8 DEF PortCalls, Call
<1>9. ASSUME NEW p \in P, k \in PinCalls("E", p)
      PROVE  WellOrdered(k.does)
  <2>1. k.does \in {DirectionInput("E", p), SetFunction("E", p, 2), DirectionOutput("E", p, 0),
                    DirectionOutput("E", p, 1), Toggle("E", p), SetPullMode("E", p, 1),
                    SetDriveLevel("E", p, 3), SetIrqType("E", p, 4), IrqEnable("E", p),
                    IrqDisable("E", p), IrqAck("E", p)}
    BY <1>9 DEF PinCalls, Call
  <2>2. WellOrdered(DirectionOutput("E", p, 0)) /\ WellOrdered(DirectionOutput("E", p, 1))
    BY <1>4
  <2>3. /\ WellOrdered(DirectionInput("E", p)) /\ WellOrdered(SetFunction("E", p, 2))
        /\ WellOrdered(Toggle("E", p)) /\ WellOrdered(SetPullMode("E", p, 1))
        /\ WellOrdered(SetDriveLevel("E", p, 3)) /\ WellOrdered(SetIrqType("E", p, 4))
        /\ WellOrdered(IrqEnable("E", p)) /\ WellOrdered(IrqDisable("E", p))
        /\ WellOrdered(IrqAck("E", p))
    BY <1>1, <1>5, <1>7, ToggleOrdered, AckOrdered
  <2>4. QED BY <2>1, <2>2, <2>3
<1>10. QED BY <1>8, <1>9 DEF GpioCalls

LEMMA FourIs ==
  ASSUME NEW a, NEW b, NEW c, NEW d
  PROVE  <<a, b, c, d>> = <<a, b>> \o <<c, d>>
<1>1. /\ <<a, b>> \in Seq({a, b}) /\ <<c, d>> \in Seq({c, d})
      /\ Len(<<a, b>>) = 2 /\ Len(<<c, d>>) = 2
  OBVIOUS
<1>2. /\ <<a, b>> \o <<c, d>> \in Seq({a, b} \cup {c, d}) /\ Len(<<a, b>> \o <<c, d>>) = 4
      /\ \A i \in 1 .. 2 : (<<a, b>> \o <<c, d>>)[i] = <<a, b>>[i]
      /\ \A i \in 1 .. 2 : (<<a, b>> \o <<c, d>>)[2 + i] = <<c, d>>[i]
  BY <1>1, Joined
<1>3. <<a, b, c, d>> \in Seq({a, b} \cup {c, d}) /\ Len(<<a, b, c, d>>) = 4
  OBVIOUS
<1>4. ASSUME NEW i \in 1 .. 4 PROVE <<a, b, c, d>>[i] = (<<a, b>> \o <<c, d>>)[i]
  <2>1. CASE i \in 1 .. 2
    BY <1>2, <2>1
  <2>2. CASE i \in 3 .. 4
    <3>1. i - 2 \in 1 .. 2 /\ i = 2 + (i - 2)
      BY <2>2
    <3>2. (<<a, b>> \o <<c, d>>)[i] = <<c, d>>[i - 2]
      BY <1>2, <3>1
    <3>3. <<c, d>>[i - 2] = <<a, b, c, d>>[i]
      BY <2>2
    <3>4. QED BY <3>2, <3>3
  <2>3. QED BY <2>1, <2>2
<1>5. QED BY <1>2, <1>3, <1>4, SeqEqual

LEMMA BootOrdered == WellOrdered(InitDefault(Pins))
<1> DEFINE w == CfgWord("E", 7)
           x == CfgWord("E", 8)
           a == Rd(w)
           b == Wr(w, Disabled({p \in Pins : p < 7}))
           c == Rd(x)
           d == Wr(x, Disabled({p \in Pins : p > 8}))
<1>1. InitDefault(Pins) = <<a, b, c, d>>
  BY DEF InitDefault
<1>2. /\ a.op = "rd" /\ a.word = w /\ DOMAIN a.to = {} /\ b.op = "wr" /\ b.word = w
      /\ c.op = "rd" /\ c.word = x /\ DOMAIN c.to = {} /\ d.op = "wr" /\ d.word = x
  <2>1. a.op = "rd" /\ a.word = w /\ DOMAIN a.to = {} /\ b.op = "wr" /\ b.word = w
    BY AccessIs
  <2>2. c.op = "rd" /\ c.word = x /\ DOMAIN c.to = {} /\ d.op = "wr" /\ d.word = x
    BY AccessIs
  <2>3. QED BY <2>1, <2>2
<1>3. /\ w.kind = "cfg" /\ w # PwmCtrl /\ w # GateWord(Uart2) /\ w # ResetWord(Uart2)
      /\ x.kind = "cfg" /\ x # PwmCtrl /\ x # GateWord(Uart2) /\ x # ResetWord(Uart2)
  BY Kinds
<1> HIDE DEF a, b, c, d, w, x
<1>4. Lawful(a) /\ Lawful(b) /\ Lawful(c) /\ Lawful(d)
  BY <1>2, <1>3 DEF Lawful, WritesBack
<1>5. WellOrdered(<<a, b>>) /\ WellOrdered(<<c, d>>)
  BY <1>2, <1>3, <1>4, PairOrdered
<1>6. <<a, b, c, d>> = <<a, b>> \o <<c, d>>
  BY FourIs
<1>7. WellOrdered(<<a, b>> \o <<c, d>>)
  BY <1>5, OrderJoins
<1>8. QED BY <1>1, <1>6, <1>7

LEMMA GatesOrdered ==
  ASSUME NEW k \in GateCalls
  PROVE  WellOrdered(k.does)
<1>1. Uart2[2] = 22 /\ Twi0[2] = 16
  BY DEF Uart2, Twi0
<1>2. /\ WellOrdered(BusGateEnable(Uart2)) /\ WellOrdered(BusGateEnable(Twi0))
      /\ WellOrdered(BusGateDisable(Twi0))
      /\ WellOrdered(SwResetAssert(Uart2)) /\ WellOrdered(SwResetAssert(Twi0))
      /\ WellOrdered(SwResetDeassert(Twi0))
  BY <1>1, Kinds, ModifyOrdered DEF BusGateEnable, BusGateDisable, SwResetAssert, SwResetDeassert
<1>3. \A g : WellOrdered(DramGateEnable(g)) /\ WellOrdered(DramGateDisable(g))
  BY Kinds, ModifyOrdered DEF DramGateEnable, DramGateDisable, Plain
<1>4. WellOrdered(BusClkInit(Twi0))
  BY <1>2, OrderJoins DEF BusClkInit, SwResetPeripheral
<1>5. WellOrdered(BusClkInit(Uart2))
  <2> DEFINE w == GateWord(Uart2)
             x == ResetWord(Uart2)
             a == Rd(w)
             b == Wr(w, Field(22, 1))
             c == Rd(x)
             d == Wr(x, Field(22, 0))
             e == Wr(x, Field(22, 1))
             s == <<a, b>>
             t == <<c, d>>
             u == <<c, e>>
  <2>1. BusGateEnable(Uart2) = s /\ SwResetAssert(Uart2) = t /\ SwResetDeassert(Uart2) = u
    BY <1>1 DEF BusGateEnable, SwResetAssert, SwResetDeassert, Modify
  <2>2. BusClkInit(Uart2) = s \o (t \o u)
    BY <2>1 DEF BusClkInit, SwResetPeripheral
  <2>3. /\ c.op = "rd" /\ c.word = x /\ DOMAIN c.to = {}
        /\ d.op = "wr" /\ d.word = x /\ d.to = Field(22, 0)
        /\ e.op = "wr" /\ e.word = x /\ e.to = Field(22, 1)
    BY AccessIs
  <2>4. x.kind = "reset" /\ x # PwmCtrl /\ x # w /\ \A v \in Vectors : x # EnWord(v)
    BY Kinds
  <2>5. s \in Seq({a, b}) /\ DOMAIN s = {1, 2} /\ s[2] = b
    OBVIOUS
  <2>6. b = Wr(GateWord(Uart2), Field(22, 1)) /\ x = ResetWord(Uart2) /\ w = GateWord(Uart2)
    OBVIOUS
  <2>7. DOMAIN Field(22, 0) = {22} /\ Field(22, 0)[22] = 0
    BY FieldIs
  <2>8. WellOrdered(s) /\ WellOrdered(t)
    BY <1>2, <2>1
  <2> HIDE DEF a, b, c, d, e, s, w, x
  <2>9. Lawful(c) /\ Lawful(d) /\ Lawful(e)
    BY <2>3, <2>4, <2>6 DEF Lawful, WritesBack
  <2>10. Rereads(t) /\ t \in Seq({c, d}) /\ DOMAIN t = {1, 2} /\ t[1] = c /\ t[2] = d
    BY <2>3, <2>4, <2>9, PairRereads
  <2>11. Rereads(u) /\ u \in Seq({c, e}) /\ DOMAIN u = {1, 2} /\ u[1] = c /\ u[2] = e
    BY <2>3, <2>4, <2>9, PairRereads
  <2> HIDE DEF t, u
  <2>12. WellOrdered(s \o t)
    BY <2>8, OrderJoins
  <2>13. s \o t \in Seq({a, b} \cup {c, d}) /\ 2 \in DOMAIN (s \o t) /\ (s \o t)[2] = b
    <3>1. Len(s) = 2 /\ Len(t) = 2
      BY <2>5, <2>10, LenProperties
    <3>2. QED BY <2>5, <2>10, <3>1, Joined
  <2>14. \A i \in DOMAIN u : u[i].word = x
    BY <2>3, <2>11
  <2>15. WellOrdered((s \o t) \o u)
    <3>1. \E j \in DOMAIN (s \o t) : (s \o t)[j] = Wr(GateWord(Uart2), Field(22, 1))
      BY <2>6, <2>13
    <3>2. \A i \in DOMAIN u : \A v \in Vectors : u[i].word # EnWord(v)
      BY <2>4, <2>14
    <3>3. QED BY <2>11, <2>12, <3>1, <3>2, OrderGrows
  <2>16. (s \o t) \o u = s \o (t \o u)
    <3>1. s \in Seq({a, b, c, d, e}) /\ t \in Seq({a, b, c, d, e}) /\ u \in Seq({a, b, c, d, e})
      BY <2>5, <2>10, <2>11
    <3>2. QED BY <3>1, ConcatAssociative
  <2>17. QED BY <2>2, <2>15, <2>16
<1>6. QED BY <1>2, <1>3, <1>4, <1>5 DEF GateCalls, Call

LEMMA DispatchPair ==
  ASSUME NEW v
  PROVE  WellOrdered(<<Look(IsrEntry(v), Field(0, 0))>>) /\ WellOrdered(Modify(PendWord(v), v, 0))
<1> DEFINE w == IsrEntry(v)
           a == Look(w, Field(0, 0))
<1>1. a.op = "look" /\ a.word = w /\ a.to = Field(0, 0) /\ w.kind = "isr"
  BY AccessIs, Kinds
<1>2. w # PwmCtrl /\ w # GateWord(Uart2)
  BY Kinds
<1>3. DOMAIN Field(0, 0) = {0}
  BY FieldIs
<1> HIDE DEF a, w
<1>4. Lawful(a)
  BY <1>1, <1>2, <1>3 DEF Lawful, WritesBack
<1>5. WellOrdered(<<a>>)
  BY <1>1, <1>4, OneOrdered
<1>6. WellOrdered(Modify(PendWord(v), v, 0))
  BY Kinds, ModifyOrdered DEF Plain
<1>7. QED BY <1>5, <1>6 DEF a, w

LEMMA InstallOrdered ==
  ASSUME NEW v
  PROVE  WellOrdered(Install(v, 1))
<1> DEFINE w == EnWord(v)
           x == IsrEntry(v)
           h == Put(x, Field(0, 1))
           a == Rd(w)
           b == Wr(w, Field(v, 1))
           s == <<h>>
           t == Modify(PendWord(v), v, 0)
           u == <<a, b>>
<1>1. Install(v, 1) = (s \o t) \o u
  BY DEF Install, Modify
<1>2. h.op = "put" /\ h.word = x /\ h.to = Field(0, 1)
  BY AccessIs
<1>3. a.op = "rd" /\ a.word = w /\ DOMAIN a.to = {} /\ b.op = "wr" /\ b.word = w /\ b.to = Field(v, 1)
  BY AccessIs
<1>4. /\ w.kind = "en" /\ w # PwmCtrl /\ w # GateWord(Uart2) /\ w # ResetWord(Uart2)
      /\ x.kind = "isr" /\ x # PwmCtrl /\ x # GateWord(Uart2)
  BY Kinds
<1>5. DOMAIN Field(0, 1) = {0} /\ DOMAIN Field(v, 1) = {v}
  BY FieldIs
<1>6. WellOrdered(t)
  BY DispatchPair
<1>7. s \in Seq({h}) /\ Len(s) = 1 /\ s[1] = h
  OBVIOUS
<1>8. h = Put(IsrEntry(v), Field(0, 1)) /\ w = EnWord(v)
  OBVIOUS
<1> HIDE DEF a, b, h, w, x, t
<1>9. Lawful(h) /\ Lawful(a) /\ Lawful(b)
  <2>1. Lawful(h)
    BY <1>2, <1>4, <1>5 DEF Lawful, WritesBack
  <2>2. Lawful(a) /\ Lawful(b)
    BY <1>3, <1>4, <1>5 DEF Lawful, WritesBack
  <2>3. QED BY <2>1, <2>2
<1>10. WellOrdered(s)
  BY <1>2, <1>9, OneOrdered
<1>11. Rereads(u) /\ DOMAIN u = {1, 2} /\ u[1] = a /\ u[2] = b
  BY <1>3, <1>4, <1>9, PairRereads
<1> HIDE DEF s, u
<1>12. WellOrdered(s \o t)
  BY <1>6, <1>10, OrderJoins
<1>13. 1 \in DOMAIN (s \o t) /\ (s \o t)[1] = h
  <2>1. PICK T : t \in Seq(T)
    BY <1>6 DEF WellOrdered, Rereads
  <2>2. QED BY <1>7, <2>1, Joined
<1>14. \A i \in DOMAIN u : \A z \in Vectors :
         u[i].word = EnWord(z) /\ z \in DOMAIN u[i].to => z = v
  BY <1>3, <1>5, <1>11
<1>15. \A i \in DOMAIN u : u[i].word # ResetWord(Uart2)
  BY <1>3, <1>4, <1>11
<1>16. \E j \in DOMAIN (s \o t) : (s \o t)[j] = Put(IsrEntry(v), Field(0, 1))
  BY <1>8, <1>13
<1>17. WellOrdered((s \o t) \o u)
  BY <1>11, <1>12, <1>14, <1>15, <1>16, OrderGrows
<1>18. QED BY <1>1, <1>17

LEMMA FiveIs ==
  ASSUME NEW a, NEW b, NEW c, NEW d, NEW e
  PROVE  <<a, b, c, d, e>> = (<<a>> \o <<b, c>>) \o <<d, e>>
<1>1. <<a>> \o <<b, c>> = <<a, b, c>>
  <2>1. /\ <<a>> \in Seq({a}) /\ <<b, c>> \in Seq({b, c})
        /\ Len(<<a>>) = 1 /\ Len(<<b, c>>) = 2
    OBVIOUS
  <2>2. /\ <<a>> \o <<b, c>> \in Seq({a} \cup {b, c}) /\ Len(<<a>> \o <<b, c>>) = 3
        /\ \A i \in 1 .. 1 : (<<a>> \o <<b, c>>)[i] = <<a>>[i]
        /\ \A i \in 1 .. 2 : (<<a>> \o <<b, c>>)[1 + i] = <<b, c>>[i]
    BY <2>1, Joined
  <2>3. <<a, b, c>> \in Seq({a} \cup {b, c}) /\ Len(<<a, b, c>>) = 3
    OBVIOUS
  <2>4. ASSUME NEW i \in 1 .. 3 PROVE <<a, b, c>>[i] = (<<a>> \o <<b, c>>)[i]
    <3>1. CASE i = 1
      BY <2>2, <3>1
    <3>2. CASE i \in 2 .. 3
      <4>1. i - 1 \in 1 .. 2 /\ i = 1 + (i - 1)
        BY <3>2
      <4>2. (<<a>> \o <<b, c>>)[i] = <<b, c>>[i - 1]
        BY <2>2, <4>1
      <4>3. <<b, c>>[i - 1] = <<a, b, c>>[i]
        BY <3>2
      <4>4. QED BY <4>2, <4>3
    <3>3. QED BY <3>1, <3>2
  <2>5. QED BY <2>2, <2>3, <2>4, SeqEqual
<1>2. <<a, b, c, d, e>> = <<a, b, c>> \o <<d, e>>
  <2>1. /\ <<a, b, c>> \in Seq({a, b, c}) /\ <<d, e>> \in Seq({d, e})
        /\ Len(<<a, b, c>>) = 3 /\ Len(<<d, e>>) = 2
    OBVIOUS
  <2>2. /\ <<a, b, c>> \o <<d, e>> \in Seq({a, b, c} \cup {d, e})
        /\ Len(<<a, b, c>> \o <<d, e>>) = 5
        /\ \A i \in 1 .. 3 : (<<a, b, c>> \o <<d, e>>)[i] = <<a, b, c>>[i]
        /\ \A i \in 1 .. 2 : (<<a, b, c>> \o <<d, e>>)[3 + i] = <<d, e>>[i]
    BY <2>1, Joined
  <2>3. /\ <<a, b, c, d, e>> \in Seq({a, b, c} \cup {d, e})
        /\ Len(<<a, b, c, d, e>>) = 5
    OBVIOUS
  <2>4. ASSUME NEW i \in 1 .. 5
        PROVE  <<a, b, c, d, e>>[i] = (<<a, b, c>> \o <<d, e>>)[i]
    <3>1. CASE i \in 1 .. 3
      BY <2>2, <3>1
    <3>2. CASE i \in 4 .. 5
      <4>1. i - 3 \in 1 .. 2 /\ i = 3 + (i - 3)
        BY <3>2
      <4>2. (<<a, b, c>> \o <<d, e>>)[i] = <<d, e>>[i - 3]
        BY <2>2, <4>1
      <4>3. <<d, e>>[i - 3] = <<a, b, c, d, e>>[i]
        BY <3>2
      <4>4. QED BY <4>2, <4>3
    <3>3. QED BY <3>1, <3>2
  <2>5. QED BY <2>2, <2>3, <2>4, SeqEqual
<1>3. QED BY <1>1, <1>2

LEMMA InstallIs ==
  ASSUME NEW v
  PROVE  /\ DOMAIN Install(v, 1) = 1 .. 5
         /\ Install(v, 1)[1] = Put(IsrEntry(v), Field(0, 1))
         /\ Install(v, 1)[4] = Rd(EnWord(v))
         /\ Install(v, 1)[5] = Wr(EnWord(v), Field(v, 1))
<1> DEFINE h == Put(IsrEntry(v), Field(0, 1))
           a == Rd(EnWord(v))
           b == Wr(EnWord(v), Field(v, 1))
           c == Rd(PendWord(v))
           d == Wr(PendWord(v), Field(v, 0))
<1>1. Install(v, 1) = (<<h>> \o <<c, d>>) \o <<a, b>>
  BY DEF Install, Modify
<1> HIDE DEF h, a, b, c, d
<1>2. Install(v, 1) = <<h, c, d, a, b>>
  BY <1>1, FiveIs
<1>3. DOMAIN Install(v, 1) = 1 .. 5 /\ Install(v, 1)[1] = h
      /\ Install(v, 1)[4] = a /\ Install(v, 1)[5] = b
  BY <1>2
<1>4. QED BY <1>3 DEF h, a, b

LEMMA IntcOrdered ==
  ASSUME NEW k \in IntcCalls(Vectors)
  PROVE  WellOrdered(k.does)
<1>1. \A v : WellOrdered(Mask(v)) /\ WellOrdered(Unmask(v))
  BY Kinds, ModifyOrdered DEF Mask, Unmask, Plain
<1>2. QED BY <1>1, InstallOrdered DEF IntcCalls, Call

\* A handler's call in dispatch.
LEMMA DispatchOrdered ==
  ASSUME NEW v, NEW s, WellOrdered(s)
  PROVE  WellOrdered(Dispatch(v, s))
BY DispatchPair, OrderJoins DEF Dispatch

LEMMA OverlayIs ==
  ASSUME NEW g, NEW h
  PROVE  /\ DOMAIN Overlay(g, h) = DOMAIN g \cup DOMAIN h
         /\ \A f \in DOMAIN g : Overlay(g, h)[f] = g[f]
         /\ \A f \in DOMAIN h \ DOMAIN g : Overlay(g, h)[f] = h[f]
BY DEF Overlay

LEMMA ChannelBits ==
  /\ Prescal(0) = 0 /\ Prescal(1) = 15 /\ Gating(0) = 6 /\ Gating(1) = 21
  /\ En(0) = 4 /\ En(1) = 19 /\ ActState(0) = 5 /\ ActState(1) = 20
  /\ SingleMode(0) = 7 /\ SingleMode(1) = 22
BY DEF Prescal, Gating, En, ActState, SingleMode, CH_OFFSET

LEMMA SettingsAre ==
  ASSUME NEW ch \in {0, 1}, NEW c
  PROVE  /\ DOMAIN PwmSettings(ch, c) = {ActState(ch), SingleMode(ch), Prescal(ch)}
         /\ PwmSettings(ch, c)[Prescal(ch)] = c.prescal
         /\ \A x \in {0, 1} : Prescal(x) \in DOMAIN PwmSettings(ch, c) => x = ch
         /\ \A x \in {0, 1} : Gating(x) \notin DOMAIN PwmSettings(ch, c)
<1> DEFINE a == Field(ActState(ch), c.act)
           m == Field(SingleMode(ch), c.mode)
           p == Field(Prescal(ch), c.prescal)
<1>2. PwmSettings(ch, c) = Overlay(a, Overlay(m, p))
  BY DEF PwmSettings
<1>3. /\ DOMAIN a = {ActState(ch)} /\ DOMAIN m = {SingleMode(ch)}
      /\ DOMAIN p = {Prescal(ch)} /\ p[Prescal(ch)] = c.prescal
  BY FieldIs
<1> HIDE DEF a, m, p
<1> DEFINE q == Overlay(m, p)
<1>4. DOMAIN PwmSettings(ch, c) = {ActState(ch), SingleMode(ch), Prescal(ch)}
  <2>1. DOMAIN q = DOMAIN m \cup DOMAIN p
    BY OverlayIs
  <2>2. DOMAIN Overlay(a, q) = DOMAIN a \cup DOMAIN q
    BY OverlayIs
  <2> HIDE DEF q
  <2>3. QED BY <1>2, <1>3, <2>1, <2>2 DEF q
<1>5. Prescal(ch) \notin {ActState(ch), SingleMode(ch)}
  BY ChannelBits
<1>6. q[Prescal(ch)] = c.prescal /\ Prescal(ch) \in DOMAIN q
  <2>1. DOMAIN q = DOMAIN m \cup DOMAIN p /\ \A f \in DOMAIN p \ DOMAIN m : q[f] = p[f]
    BY OverlayIs
  <2> HIDE DEF q
  <2>2. QED BY <1>3, <1>5, <2>1
<1>7. PwmSettings(ch, c)[Prescal(ch)] = c.prescal
  <2>1. \A f \in DOMAIN q \ DOMAIN a : Overlay(a, q)[f] = q[f]
    BY OverlayIs
  <2> HIDE DEF q
  <2>2. QED BY <1>2, <1>3, <1>5, <1>6, <2>1 DEF q
<1>8. QED BY <1>4, <1>7, ChannelBits

LEMMA ConfigureOrdered ==
  ASSUME NEW ch \in {0, 1}, NEW k
  PROVE  WellOrdered(Configure(ch, k))
<1> DEFINE w == PwmCtrl
           x == PwmPrd(ch)
           a == Rd(w)
           b == WrUnless(w, Prescal(ch), k.prescal, Field(Gating(ch), 0))
           p == Overlay(Field(0, k.dty), Field(16, k.prd))
           c == Put(x, p)
           g == PwmSettings(ch, k)
           d == Wr(w, g)
           s == Configure(ch, k)
<1>1. s = <<a, b, c, d>>
  BY DEF Configure
<1>2. a.op = "rd" /\ a.word = w /\ DOMAIN a.to = {}
  BY AccessIs
<1>3. /\ b.op = "unless" /\ b.word = w /\ b.f = Prescal(ch) /\ b.v = k.prescal
      /\ b.to = Field(Gating(ch), 0)
  BY DEF WrUnless
<1>4. c.op = "put" /\ c.word = x /\ c.to = p
  BY AccessIs
<1>5. d.op = "wr" /\ d.word = w /\ d.to = g
  BY AccessIs
<1>6. w.kind = "pwm" /\ w # GateWord(Uart2) /\ w # ResetWord(Uart2) /\ w = PwmCtrl
  BY Kinds
<1>7. x.kind = "prd" /\ x # PwmCtrl /\ x # GateWord(Uart2) /\ x # ResetWord(Uart2)
  BY Kinds
<1>8. \A v \in Vectors : w # EnWord(v) /\ x # EnWord(v)
  BY Kinds
<1>9. DOMAIN p = {0, 16} /\ DOMAIN Field(Gating(ch), 0) = {Gating(ch)}
  <2>1. DOMAIN Field(0, k.dty) = {0} /\ DOMAIN Field(16, k.prd) = {16}
    BY FieldIs
  <2>2. DOMAIN p = DOMAIN Field(0, k.dty) \cup DOMAIN Field(16, k.prd)
    BY OverlayIs
  <2>3. DOMAIN Field(Gating(ch), 0) = {Gating(ch)}
    BY FieldIs
  <2>4. QED BY <2>1, <2>2, <2>3
<1>10. /\ g[Prescal(ch)] = k.prescal /\ Prescal(0) # Gating(ch) /\ Prescal(1) # Gating(ch)
       /\ \A y \in {0, 1} : Prescal(y) \in DOMAIN g => y = ch
  BY SettingsAre, ChannelBits
<1>11. b = WrUnless(PwmCtrl, Prescal(ch), k.prescal, Field(Gating(ch), 0))
  OBVIOUS
<1> HIDE DEF a, b, c, d, p, g, w, x, s
<1>12. s \in Seq({a, b, c, d}) /\ DOMAIN s = 1 .. 4 /\ Len(s) = 4
       /\ s[1] = a /\ s[2] = b /\ s[3] = c /\ s[4] = d
  BY <1>1
<1>13. Lawful(a) /\ Lawful(d)
  BY <1>2, <1>5, <1>6 DEF Lawful, WritesBack
<1>14. Lawful(b)
  BY <1>3, <1>6, <1>9 DEF Lawful, WritesBack
<1>15. Lawful(c)
  BY <1>4, <1>7, <1>9 DEF Lawful, WritesBack
<1>16. \A i \in DOMAIN s : Lawful(s[i])
  BY <1>12, <1>13, <1>14, <1>15
<1>17. ReadFirst(s)
  <2>1. ASSUME NEW i \in DOMAIN s, s[i].op \in WritesBack
        PROVE  /\ s[1].op = "rd" /\ s[1].word = s[i].word /\ 1 \in 1 .. i - 1
               /\ \A m \in 1 + 1 .. i - 1 : s[m].op # "rd"
    BY <1>2, <1>3, <1>4, <1>5, <1>12, <2>1 DEF WritesBack
  <2>2. QED BY <2>1 DEF ReadFirst
<1>18. AckedOnce(s)
  BY <1>2, <1>3, <1>4, <1>5, <1>12 DEF AckedOnce
<1>19. \A i \in DOMAIN s : s[i].word \in {w, x}
  BY <1>2, <1>3, <1>4, <1>5, <1>12
<1>20. HandlerFirst(s) /\ ClockFirst(s)
  BY <1>6, <1>7, <1>8, <1>19 DEF HandlerFirst, ClockFirst
<1>21. GateFirst(s)
  <2>1. ASSUME NEW i \in DOMAIN s, NEW y \in {0, 1}, s[i].word = PwmCtrl,
               Prescal(y) \in DOMAIN s[i].to
        PROVE  i = 4 /\ y = ch
    BY <1>2, <1>3, <1>4, <1>5, <1>7, <1>9, <1>10, <1>12, <2>1
  <2>2. /\ s[2] = WrUnless(PwmCtrl, Prescal(ch), s[4].to[Prescal(ch)], Field(Gating(ch), 0))
        /\ \A m \in 2 + 1 .. 4 - 1 : s[m].op = "put"
    BY <1>4, <1>5, <1>10, <1>11, <1>12
  <2>3. 2 \in 1 .. 4 - 1
    OBVIOUS
  <2>4. QED BY <2>1, <2>2, <2>3 DEF GateFirst
<1>22. QED BY <1>12, <1>16, <1>17, <1>18, <1>20, <1>21 DEF WellOrdered, Rereads, s

LEMMA PwmOrdered ==
  ASSUME NEW k \in PwmCalls(Configs)
  PROVE  WellOrdered(k.does)
<1>1. ASSUME NEW ch \in {0, 1}, NEW v
      PROVE  WellOrdered(<<Rd(PwmCtrl), Wr(PwmCtrl, [f \in {Gating(ch), En(ch)} |-> v])>>)
  <2> DEFINE w == PwmCtrl
             a == Rd(w)
             g == [f \in {Gating(ch), En(ch)} |-> v]
             b == Wr(w, g)
  <2>2. w.kind = "pwm" /\ w # GateWord(Uart2) /\ w # ResetWord(Uart2)
    BY Kinds
  <2>3. Prescal(0) \notin DOMAIN g /\ Prescal(1) \notin DOMAIN g
    <3>1. DOMAIN g = {Gating(ch), En(ch)}
      OBVIOUS
    <3> HIDE DEF g
    <3>2. QED BY <3>1, ChannelBits
  <2> HIDE DEF g
  <2> HIDE DEF w
  <2>1. /\ a.op = "rd" /\ a.word = w /\ DOMAIN a.to = {} /\ b.op = "wr" /\ b.word = w
        /\ b.to = g
    <3>1. a.op = "rd" /\ a.word = w /\ DOMAIN a.to = {}
      BY AccessIs
    <3>2. b.op = "wr" /\ b.word = w /\ b.to = g
      BY DEF Wr
    <3>3. QED BY <3>1, <3>2
  <2> HIDE DEF a, b
  <2>4. Lawful(a) /\ Lawful(b)
    BY <2>1, <2>2 DEF Lawful, WritesBack
  <2>5. WellOrdered(<<a, b>>)
    BY <2>1, <2>2, <2>3, <2>4, PairOrdered
  <2>6. QED BY <2>5 DEF a, b, g, w
<1>2. \A ch \in {0, 1} : WellOrdered(Enable(ch)) /\ WellOrdered(Disable(ch))
  BY <1>1 DEF Enable, Disable
<1>3. WellOrdered(SetFunction("E", 6, 2)) /\ WellOrdered(SetPullMode("E", 6, 0))
  BY ModifyOrdered, Kinds DEF SetFunction, SetPullMode, Plain
<1>4. \A ch \in {0, 1} : WellOrdered(PwmInit(ch, "E", 6))
  BY <1>2, <1>3, OrderJoins DEF PwmInit
<1>5. PICK ch \in {0, 1} : k \in ChannelCalls(ch, Configs)
  BY DEF PwmCalls
<1>6. CASE \E c \in Configs : k = Call("configure", ch, Configure(ch, c))
  BY <1>6, ConfigureOrdered DEF Call
<1>7. CASE k.does \in {Enable(ch), Disable(ch), PwmInit(ch, "E", 6)}
  BY <1>2, <1>4, <1>7
<1>8. QED BY <1>5, <1>6, <1>7 DEF ChannelCalls, Call

\* Every call of every driver, and init_default.
LEMMA CallsOrdered ==
  ASSUME NEW a \in Areas, NEW k \in Begun(a)
  PROVE  WellOrdered(k.does)
<1>1. CASE a = "gpio"
  <2>1. CallsOf["gpio"] = GpioCalls("E", Pins) /\ BootCall.does = InitDefault(Pins)
    BY DEF CallsOf, BootCall, Call
  <2>2. QED BY <1>1, <2>1, GpioOrdered, BootOrdered DEF Begun
<1>2. CASE a = "gates"
  <2>1. CallsOf["gates"] = GateCalls
    BY DEF CallsOf
  <2>2. QED BY <1>2, <2>1, GatesOrdered DEF Begun
<1>3. CASE a = "intc"
  <2>1. CallsOf["intc"] = IntcCalls(Vectors)
    BY DEF CallsOf
  <2>2. QED BY <1>3, <2>1, IntcOrdered DEF Begun
<1>4. CASE a = "pwm"
  <2>1. CallsOf["pwm"] = PwmCalls(Configs)
    BY DEF CallsOf
  <2>2. QED BY <1>4, <2>1, PwmOrdered DEF Begun
<1>5. QED BY <1>1, <1>2, <1>3, <1>4 DEF Areas

LEMMA EmptyOrdered == WellOrdered(<<>>)
<1>1. <<>> \in Seq({}) /\ DOMAIN <<>> = {}
  OBVIOUS
<1>2. QED BY <1>1 DEF WellOrdered, Rereads, ReadFirst, AckedOnce, GateFirst, HandlerFirst, ClockFirst

-----------------------------------------------------------------------------
(* The words of a driver.                                                  *)

LEMMA DispatchIs ==
  ASSUME NEW v, NEW s, NEW S, s \in Seq(S)
  PROVE  /\ Dispatch(v, s) \in Seq({Look(IsrEntry(v), Field(0, 0)), Rd(PendWord(v)),
                                    Wr(PendWord(v), Field(v, 0))} \cup S)
         /\ Len(Dispatch(v, s)) = Len(s) + 3 /\ Len(s) \in Nat
         /\ DOMAIN Dispatch(v, s) = 1 .. Len(s) + 3
         /\ Dispatch(v, s)[1] = Look(IsrEntry(v), Field(0, 0))
         /\ \A i \in 1 .. Len(s) : Dispatch(v, s)[1 + i] = s[i]
         /\ Dispatch(v, s)[Len(s) + 2] = Rd(PendWord(v))
         /\ Dispatch(v, s)[Len(s) + 3] = Wr(PendWord(v), Field(v, 0))
<1> DEFINE a == Look(IsrEntry(v), Field(0, 0))
           b == Rd(PendWord(v))
           c == Wr(PendWord(v), Field(v, 0))
           h == <<a>>
           t == <<b, c>>
           u == h \o s
           n == Len(s)
<1>1. Dispatch(v, s) = u \o t
  BY DEF Dispatch, Modify
<1> HIDE DEF a, b, c
<1>2. /\ h \in Seq({a}) /\ Len(h) = 1 /\ h[1] = a
      /\ t \in Seq({b, c}) /\ Len(t) = 2 /\ t[1] = b /\ t[2] = c
  OBVIOUS
<1> HIDE DEF h, t
<1>3. /\ u \in Seq({a} \cup S) /\ n \in Nat /\ Len(u) = 1 + n
      /\ \A i \in 1 .. 1 : u[i] = h[i]
      /\ \A i \in 1 .. n : u[1 + i] = s[i]
  BY <1>2, Joined
<1> HIDE DEF u
<1>4. /\ u \o t \in Seq(({a} \cup S) \cup {b, c}) /\ Len(u \o t) = 1 + n + 2
      /\ DOMAIN (u \o t) = 1 .. 1 + n + 2
      /\ \A i \in 1 .. 1 + n : (u \o t)[i] = u[i]
      /\ \A i \in 1 .. 2 : (u \o t)[1 + n + i] = t[i]
  BY <1>2, <1>3, Joined, SMTT(30)
<1>5. ({a} \cup S) \cup {b, c} = {a, b, c} \cup S
  OBVIOUS
<1>6. 1 + n + 2 = n + 3 /\ 1 + n + 1 = n + 2
  BY <1>3
<1>7. (u \o t)[1] = a
  BY <1>2, <1>3, <1>4
<1>8. \A i \in 1 .. n : (u \o t)[1 + i] = s[i]
  BY <1>3, <1>4
<1>9. (u \o t)[n + 2] = b /\ (u \o t)[n + 3] = c
  BY <1>2, <1>3, <1>4, <1>6
<1>10. QED BY <1>1, <1>3, <1>4, <1>5, <1>6, <1>7, <1>8, <1>9 DEF a, b, c

\* The parts of an area's accesses.
LEMMA AccessParts ==
  ASSUME NEW a \in Areas
  PROVE  /\ \A k \in Begun(a) : Made(k.does) \subseteq AccessesOf[a]
         /\ \A v \in Vectors : /\ Made(Dispatch(v, <<>>)) \subseteq AccessesOf[a]
                              /\ Made(Install(v, 1)) \subseteq AccessesOf[a]
                              /\ Made(Mask(v)) \subseteq AccessesOf[a]
         /\ \A x \in AccessesOf[a] :
              \/ \E k \in Begun(a) : x \in Made(k.does)
              \/ \E v \in Vectors : \/ x \in Made(Dispatch(v, <<>>))
                                  \/ x \in Made(Install(v, 1))
                                  \/ x \in Made(Mask(v))
<1>1. AccessesOf[a] = AllOfCalls(a) \cup AllOfVectors
  BY DEF AccessesOf
<1>2. \A k \in Begun(a) : Made(k.does) \subseteq AllOfCalls(a)
  BY DEF AllOfCalls
<1>3. \A v \in Vectors : ForVector(v) \subseteq AllOfVectors
  BY DEF AllOfVectors
<1>4. \A x \in AllOfCalls(a) : \E k \in Begun(a) : x \in Made(k.does)
  BY DEF AllOfCalls
<1>5. \A x \in AllOfVectors : \E v \in Vectors : x \in ForVector(v)
  BY DEF AllOfVectors
<1>6. \A v \in Vectors : ForVector(v) \subseteq AccessesOf[a]
  BY <1>1, <1>3
<1>7. \A x \in AccessesOf[a] : (\E k \in Begun(a) : x \in Made(k.does))
                               \/ (\E v \in Vectors : x \in ForVector(v))
  BY <1>1, <1>4, <1>5
<1>8. QED BY <1>1, <1>2, <1>6, <1>7 DEF ForVector

\* What a call of a driver does, and a handler's, is made of the driver's accesses.
LEMMA CallsAccess ==
  ASSUME NEW a \in Areas, NEW k \in Begun(a)
  PROVE  /\ k.does \in Seq(AccessesOf[a])
         /\ \A v \in Vectors : Dispatch(v, k.does) \in Seq(AccessesOf[a])
<1>1. PICK S : k.does \in Seq(S)
  BY CallsOrdered DEF WellOrdered, Rereads
<1>2. \A i \in DOMAIN k.does : k.does[i] \in AccessesOf[a]
  BY AccessParts DEF Made
<1>3. k.does \in Seq(AccessesOf[a])
  BY <1>1, <1>2, ElementOfSeq, LenProperties, IsASeq
<1>4. ASSUME NEW v \in Vectors
      PROVE  Dispatch(v, k.does) \in Seq(AccessesOf[a])
  <2> DEFINE x == Look(IsrEntry(v), Field(0, 0))
             y == Rd(PendWord(v))
             z == Wr(PendWord(v), Field(v, 0))
  <2>1. <<>> \in Seq({}) /\ Len(<<>>) = 0
    OBVIOUS
  <2>2. /\ DOMAIN Dispatch(v, <<>>) = 1 .. 3 /\ Dispatch(v, <<>>)[1] = x
        /\ Dispatch(v, <<>>)[2] = y /\ Dispatch(v, <<>>)[3] = z
    <3> DEFINE e == <<>>
    <3>1. e \in Seq({}) /\ Len(e) = 0
      BY <2>1
    <3> HIDE DEF e
    <3>2. /\ DOMAIN Dispatch(v, e) = 1 .. Len(e) + 3 /\ Dispatch(v, e)[1] = x
          /\ Dispatch(v, e)[Len(e) + 2] = y /\ Dispatch(v, e)[Len(e) + 3] = z
      BY <3>1, DispatchIs
    <3>3. QED BY <3>1, <3>2 DEF e
  <2> HIDE DEF x, y, z
  <2>3. x \in AccessesOf[a] /\ y \in AccessesOf[a] /\ z \in AccessesOf[a]
    BY <2>2, AccessParts DEF Made
  <2>4. Dispatch(v, k.does) \in Seq({x, y, z} \cup AccessesOf[a])
    BY <1>3, DispatchIs DEF x, y, z
  <2>5. {x, y, z} \cup AccessesOf[a] = AccessesOf[a]
    BY <2>3
  <2>6. QED BY <2>4, <2>5
<1>5. QED BY <1>3, <1>4

LEMMA AccessesLawful ==
  ASSUME NEW a \in Areas, NEW x \in AccessesOf[a]
  PROVE  Lawful(x)
<1>1. \A s : WellOrdered(s) /\ x \in Made(s) => Lawful(x)
  BY DEF WellOrdered, Rereads, Made
<1>2. \A k \in Begun(a) : WellOrdered(k.does)
  BY CallsOrdered
<1>3. \A v : /\ WellOrdered(Dispatch(v, <<>>)) /\ WellOrdered(Install(v, 1))
             /\ WellOrdered(Mask(v))
  BY EmptyOrdered, DispatchOrdered, InstallOrdered, ModifyOrdered, Kinds DEF Mask, Plain
<1>4. QED BY <1>1, <1>2, <1>3, AccessParts, SMTT(30)

-----------------------------------------------------------------------------
(* What is left of a call.                                                 *)

LEMMA TailIs ==
  ASSUME NEW S, NEW s \in Seq(S), s # <<>>
  PROVE  /\ Head(s) \in S /\ Head(s) = s[1] /\ Len(s) \in Nat /\ Len(s) >= 1
         /\ DOMAIN s = 1 .. Len(s)
         /\ Tail(s) \in Seq(S) /\ Len(Tail(s)) = Len(s) - 1
         /\ DOMAIN Tail(s) = 1 .. Len(s) - 1
         /\ \A i \in 1 .. Len(s) - 1 : Tail(s)[i] = s[i + 1]
         /\ (Len(s) = 1 <=> Tail(s) = <<>>) /\ Tail(s) # s
<1>1. Head(s) \in S /\ Head(s) = s[1] /\ Len(s) \in Nat /\ Len(s) >= 1 /\ DOMAIN s = 1 .. Len(s)
  BY HeadTailProperties, LenProperties, EmptySeq
<1>2. Tail(s) \in Seq(S) /\ Len(Tail(s)) = Len(s) - 1
      /\ \A i \in 1 .. Len(s) - 1 : Tail(s)[i] = s[i + 1]
  BY HeadTailProperties, LenProperties
<1>3. DOMAIN Tail(s) = 1 .. Len(s) - 1
  BY <1>2, LenProperties
<1>4. Len(s) = 1 <=> Tail(s) = <<>>
  BY <1>1, <1>2, EmptySeq, LenProperties, SMTT(30)
<1>5. Tail(s) # s
  <2> DEFINE t == Tail(s)
  <2>1. Len(t) = Len(s) - 1
    BY <1>2
  <2> HIDE DEF t
  <2>0. Len(s) \in Nat /\ \A n \in Nat : n - 1 # n
    BY <1>1
  <2>2. Len(t) # Len(s)
    BY <2>0, <2>1, Zenon
  <2>3. t # s
    BY <2>2
  <2>4. QED BY <2>3 DEF t
<1>6. QED BY <1>1, <1>2, <1>3, <1>4, <1>5

\* A copy of w is written back before anything else is read.
Held(s, w) ==
  \E i \in DOMAIN s : /\ s[i].word = w /\ s[i].op \in WritesBack
                      /\ \A j \in 1 .. i : s[j].op # "rd"

\* A copy is written back to the word it was read from; w is the word read last.
Formed(s, w) ==
  \A i \in DOMAIN s : s[i].op \in WritesBack =>
    \/ w = s[i].word /\ \A m \in 1 .. i - 1 : s[m].op # "rd"
    \/ \E j \in 1 .. i - 1 : /\ s[j].op = "rd" /\ s[j].word = s[i].word
                             /\ \A m \in j + 1 .. i - 1 : s[m].op # "rd"

LEMMA FormedFirst ==
  ASSUME NEW S, NEW s \in Seq(S), NEW w, ReadFirst(s)
  PROVE  Formed(s, w) /\ ~Held(s, w)
<1>1. Formed(s, w)
  BY DEF ReadFirst, Formed
<1>2. ASSUME Held(s, w) PROVE FALSE
  <2>1. PICK i \in DOMAIN s : s[i].op \in WritesBack /\ \A j \in 1 .. i : s[j].op # "rd"
    BY <1>2 DEF Held
  <2>2. PICK j \in 1 .. i - 1 : s[j].op = "rd"
    BY <2>1 DEF ReadFirst
  <2>3. DOMAIN s = 1 .. Len(s) /\ Len(s) \in Nat
    BY LenProperties
  <2>4. j \in 1 .. i
    BY <2>2, <2>3
  <2>5. QED BY <2>1, <2>2, <2>4
<1>3. QED BY <1>1, <1>2

LEMMA FormedTail ==
  ASSUME NEW S, NEW s \in Seq(S), s # <<>>, NEW w, NEW x, Formed(s, w),
         x = IF Head(s).op = "rd" THEN Head(s).word ELSE w
  PROVE  Formed(Tail(s), x)
<1> DEFINE t == Tail(s)
           n == Len(s)
<1>1. /\ Head(s) = s[1] /\ n \in Nat /\ DOMAIN s = 1 .. n /\ DOMAIN t = 1 .. n - 1
      /\ \A i \in 1 .. n - 1 : t[i] = s[i + 1]
  BY TailIs
<1> HIDE DEF t, n
<1> SUFFICES ASSUME NEW i \in DOMAIN t, t[i].op \in WritesBack
             PROVE  \/ x = t[i].word /\ \A m \in 1 .. i - 1 : t[m].op # "rd"
                    \/ \E j \in 1 .. i - 1 : /\ t[j].op = "rd" /\ t[j].word = t[i].word
                                             /\ \A m \in j + 1 .. i - 1 : t[m].op # "rd"
  BY DEF Formed, t
<1>2. i + 1 \in DOMAIN s /\ t[i] = s[i + 1] /\ i \in Nat /\ i >= 1 /\ i <= n - 1
  BY <1>1
<1>3. \A m \in 1 .. i - 1 : m + 1 \in 2 .. i /\ t[m] = s[m + 1]
  BY <1>1, <1>2
<1>4. \/ w = s[i + 1].word /\ \A m \in 1 .. (i + 1) - 1 : s[m].op # "rd"
      \/ \E j \in 1 .. (i + 1) - 1 :
           /\ s[j].op = "rd" /\ s[j].word = s[i + 1].word
           /\ \A m \in j + 1 .. (i + 1) - 1 : s[m].op # "rd"
  BY <1>2 DEF Formed
<1>5. CASE w = s[i + 1].word /\ \A m \in 1 .. (i + 1) - 1 : s[m].op # "rd"
  <2>1. Head(s).op # "rd" /\ \A m \in 1 .. i - 1 : t[m].op # "rd"
    BY <1>1, <1>2, <1>3, <1>5
  <2>2. QED BY <1>2, <1>5, <2>1
<1>6. CASE \E j \in 1 .. (i + 1) - 1 :
             /\ s[j].op = "rd" /\ s[j].word = s[i + 1].word
             /\ \A m \in j + 1 .. (i + 1) - 1 : s[m].op # "rd"
  <2>1. PICK j \in 1 .. (i + 1) - 1 :
          /\ s[j].op = "rd" /\ s[j].word = s[i + 1].word
          /\ \A m \in j + 1 .. (i + 1) - 1 : s[m].op # "rd"
    BY <1>6
  <2>2. CASE j = 1
    <3>1. ASSUME NEW m \in 1 .. i - 1 PROVE t[m].op # "rd"
      <4>1. m + 1 \in j + 1 .. (i + 1) - 1
        BY <1>2, <2>2
      <4>2. QED BY <1>3, <2>1, <4>1
    <3>2. x = t[i].word
      BY <1>1, <1>2, <2>1, <2>2
    <3>3. QED BY <3>1, <3>2
  <2>3. CASE j # 1
    <3>1. j - 1 \in 1 .. i - 1 /\ t[j - 1] = s[j]
      <4>1. j - 1 \in 1 .. i - 1 /\ (j - 1) + 1 = j
        BY <1>2, <2>1, <2>3
      <4>2. QED BY <1>3, <4>1
    <3>2. \A m \in (j - 1) + 1 .. i - 1 : t[m].op # "rd"
      <4>1. ASSUME NEW m \in (j - 1) + 1 .. i - 1 PROVE t[m].op # "rd"
        <5>1. m \in 1 .. i - 1 /\ m + 1 \in j + 1 .. (i + 1) - 1
          BY <1>2, <2>1
        <5>2. QED BY <1>3, <2>1, <5>1
      <4>2. QED BY <4>1
    <3>3. QED BY <1>2, <2>1, <3>1, <3>2
  <2>4. QED BY <2>2, <2>3
<1>7. QED BY <1>4, <1>5, <1>6

\* A write back that is next has its copy.
LEMMA FormedHead ==
  ASSUME NEW S, NEW s \in Seq(S), s # <<>>, NEW w, Formed(s, w), Head(s).op \in WritesBack
  PROVE  w = Head(s).word /\ Held(s, Head(s).word)
<1>1. Head(s) = s[1] /\ 1 \in DOMAIN s /\ \A j \in 1 .. 1 : s[j] = Head(s)
  BY TailIs
<1>2. w = Head(s).word
  BY <1>1 DEF Formed
<1>3. \A j \in 1 .. 1 : s[j].op # "rd"
  BY <1>1 DEF WritesBack
<1>4. QED BY <1>1, <1>2, <1>3 DEF Held

LEMMA HeldTail ==
  ASSUME NEW S, NEW s \in Seq(S), s # <<>>, NEW w, Held(Tail(s), w)
  PROVE  /\ Head(s).op # "rd" => Held(s, w)
         /\ AckedOnce(s) => Head(s).op # "clear"
<1>1. /\ Head(s) = s[1] /\ Len(s) \in Nat /\ DOMAIN s = 1 .. Len(s)
      /\ DOMAIN Tail(s) = 1 .. Len(s) - 1
      /\ \A i \in 1 .. Len(s) - 1 : Tail(s)[i] = s[i + 1]
  BY TailIs
<1>2. PICK i \in DOMAIN Tail(s) : /\ Tail(s)[i].word = w /\ Tail(s)[i].op \in WritesBack
                                  /\ \A j \in 1 .. i : Tail(s)[j].op # "rd"
  BY DEF Held
<1>3. i + 1 \in DOMAIN s /\ s[i + 1] = Tail(s)[i] /\ i \in Nat
  BY <1>1, <1>2
<1>4. \A j \in 2 .. i + 1 : s[j].op # "rd"
  <2>1. ASSUME NEW j \in 2 .. i + 1 PROVE s[j].op # "rd"
    <3>1. j - 1 \in 1 .. i /\ Tail(s)[j - 1] = s[j]
      <4>1. j - 1 \in 1 .. i /\ j - 1 \in 1 .. Len(s) - 1 /\ (j - 1) + 1 = j
        BY <1>1, <1>2
      <4>2. QED BY <1>1, <4>1
    <3>2. QED BY <1>2, <3>1
  <2>2. QED BY <2>1
<1>5. ASSUME Head(s).op # "rd" PROVE Held(s, w)
  <2>1. \A j \in 1 .. i + 1 : s[j].op # "rd"
    BY <1>1, <1>3, <1>4, <1>5
  <2>2. QED BY <1>2, <1>3, <2>1 DEF Held
<1>6. ASSUME AckedOnce(s), Head(s).op = "clear" PROVE FALSE
  <2>1. 1 \in DOMAIN s /\ i + 1 \in 1 + 1 .. Len(s)
    BY <1>1, <1>3, <1>2
  <2>2. \E m \in 1 + 1 .. (i + 1) - 1 : s[m].op = "rd"
    BY <1>1, <1>2, <1>3, <1>6, <2>1 DEF AckedOnce
  <2>3. QED BY <1>3, <1>4, <2>2
<1>7. QED BY <1>5, <1>6

LEMMA AckedTail ==
  ASSUME NEW S, NEW s \in Seq(S), s # <<>>, AckedOnce(s)
  PROVE  AckedOnce(Tail(s))
<1> DEFINE t == Tail(s)
           n == Len(s)
<1>1. /\ n \in Nat /\ DOMAIN s = 1 .. n /\ DOMAIN t = 1 .. n - 1 /\ Len(t) = n - 1
      /\ \A i \in 1 .. n - 1 : t[i] = s[i + 1]
  BY TailIs
<1>2. \A i \in DOMAIN s : \A j \in i + 1 .. n :
        s[i].op = "clear" /\ s[j].op \in WritesBack => \E m \in i + 1 .. j - 1 : s[m].op = "rd"
  BY DEF AckedOnce
<1> HIDE DEF t, n
<1> SUFFICES ASSUME NEW i \in DOMAIN t, NEW j \in i + 1 .. Len(t),
                    t[i].op = "clear", t[j].op \in WritesBack
             PROVE  \E m \in i + 1 .. j - 1 : t[m].op = "rd"
  BY DEF AckedOnce, t
<1>3. i + 1 \in DOMAIN s /\ j + 1 \in (i + 1) + 1 .. n /\ t[i] = s[i + 1] /\ t[j] = s[j + 1]
  BY <1>1
<1>4. PICK m \in (i + 1) + 1 .. (j + 1) - 1 : s[m].op = "rd"
  BY <1>2, <1>3
<1>5. m - 1 \in i + 1 .. j - 1 /\ m - 1 \in 1 .. n - 1 /\ (m - 1) + 1 = m
  BY <1>1, <1>4
<1>6. QED BY <1>1, <1>4, <1>5

-----------------------------------------------------------------------------
(* The words, and what an access does to them.                             *)

LEMMA AreaWords ==
  ASSUME NEW a \in Areas, NEW x \in AccessesOf[a]
  PROVE  /\ x.word \in Words[a] /\ DOMAIN x.to \subseteq Fields[a][x.word]
         /\ x.op = "put" => DOMAIN x.to = Fields[a][x.word]
<1>1. Words[a] = {y.word : y \in AccessesOf[a]}
  BY DEF Words
<1>2. x.word \in Words[a]
  BY <1>1
<1> DEFINE S == {y \in AccessesOf[a] : y.word = x.word}
<1>3. Fields[a][x.word] = UNION {DOMAIN y.to : y \in S}
  <2>1. Fields[a] = [w \in Words[a] |-> UNION {DOMAIN y.to : y \in {b \in AccessesOf[a] : b.word = w}}]
    BY DEF Fields
  <2>2. QED BY <1>2, <2>1
<1>4. x \in S /\ \A y \in S : y.word = x.word /\ Lawful(y)
  BY AccessesLawful
<1> HIDE DEF S
<1>5. DOMAIN x.to \subseteq Fields[a][x.word]
  BY <1>3, <1>4
<1>6. ASSUME x.op = "put" PROVE DOMAIN x.to = Fields[a][x.word]
  <2>1. x.word.kind = "isr" \/ x.word.kind = "prd"
    BY <1>4, <1>6 DEF Lawful
  <2>2. \A y \in S : DOMAIN y.to = DOMAIN x.to
    <3>1. CASE x.word.kind = "isr"
      BY <1>4, <3>1 DEF Lawful
    <3>2. CASE x.word.kind = "prd"
      <4>1. \A y \in S : y.op = "put" /\ DOMAIN y.to = {0, 16}
        BY <1>4, <3>2 DEF Lawful
      <4>2. QED BY <1>4, <4>1
    <3>3. QED BY <2>1, <3>1, <3>2
  <2>3. QED BY <1>3, <1>4, <2>2
<1>7. QED BY <1>2, <1>5, <1>6

LEMMA HoldsIs ==
  ASSUME NEW c, NEW w
  PROVE  HoldsCopy(c, w) <=> readWord[c].word = w /\ Held(todo[c], w)
BY DEF HoldsCopy, Held, WritesBack

\* What a behaviour is made of, and that each copy is of the word it is written to.
Shaped ==
  /\ area \in Areas
  /\ DOMAIN reg = Words[area] /\ \A w \in Words[area] : DOMAIN reg[w] = Fields[area][w]
  /\ DOMAIN asked = Words[area] /\ \A w \in Words[area] : DOMAIN asked[w] = Fields[area][w]
  /\ DOMAIN todo = Contexts /\ DOMAIN call = Contexts /\ DOMAIN readWord = Contexts
  /\ \A c \in Contexts :
       /\ todo[c] \in Seq(AccessesOf[area])
       /\ readWord[c] = [word |-> readWord[c].word, bits |-> readWord[c].bits]
       /\ Formed(todo[c], readWord[c].word) /\ AckedOnce(todo[c])
       /\ \A w \in Words[area] : HoldsCopy(c, w) => DOMAIN readWord[c].bits = Fields[area][w]

\* The access that is next.
LEMMA NextIs ==
  ASSUME Shaped, NEW c \in Contexts, ~Idle(c)
  PROVE  /\ Next(c) \in AccessesOf[area] /\ Lawful(Next(c)) /\ Next(c).word \in Words[area]
         /\ DOMAIN Next(c).to \subseteq Fields[area][Next(c).word]
         /\ Next(c).op = "put" => DOMAIN Next(c).to = Fields[area][Next(c).word]
         /\ Next(c).op \in WritesBack =>
              /\ readWord[c].word = Next(c).word /\ HoldsCopy(c, Next(c).word)
              /\ DOMAIN readWord[c].bits = Fields[area][Next(c).word]
<1> DEFINE s == todo[c]
           a == Head(s)
<1>1. s \in Seq(AccessesOf[area]) /\ s # <<>> /\ area \in Areas
  BY DEF Shaped, Idle
<1>2. a \in AccessesOf[area] /\ Next(c) = a
  BY <1>1, TailIs DEF Next
<1>3. Formed(s, readWord[c].word)
  BY DEF Shaped
<1> HIDE DEF s, a
<1>4. /\ Lawful(a) /\ a.word \in Words[area] /\ DOMAIN a.to \subseteq Fields[area][a.word]
      /\ a.op = "put" => DOMAIN a.to = Fields[area][a.word]
  BY <1>1, <1>2, AccessesLawful, AreaWords
<1>5. ASSUME a.op \in WritesBack
      PROVE  /\ readWord[c].word = a.word /\ HoldsCopy(c, a.word)
             /\ DOMAIN readWord[c].bits = Fields[area][a.word]
  <2>1. readWord[c].word = a.word /\ Held(s, a.word)
    BY <1>1, <1>3, <1>5, FormedHead DEF a
  <2>2. HoldsCopy(c, a.word)
    BY <2>1, HoldsIs DEF s
  <2>3. QED BY <1>4, <2>1, <2>2 DEF Shaped
<1>6. QED BY <1>2, <1>4, <1>5

\* What an access leaves, and whose copies there are after it.
LEMMA TakenIs ==
  ASSUME Shaped, NEW c \in Contexts, Access(c)
  PROVE  /\ todo[c] # <<>> /\ area' = area /\ clash \subseteq clash' /\ calls' = calls
         /\ todo' = [todo EXCEPT ![c] = Tail(todo[c])]
         /\ DOMAIN readWord' = Contexts
         /\ \A d \in Contexts \ {c} :
              readWord'[d] = readWord[d] /\ \A w : HoldsCopy(d, w)' <=> HoldsCopy(d, w)
         /\ readWord'[c] = [word |-> readWord'[c].word, bits |-> readWord'[c].bits]
         /\ \/ todo'[c] = <<>>
            \/ readWord'[c].word = IF Next(c).op = "rd" THEN Next(c).word ELSE readWord[c].word
         /\ \A w : HoldsCopy(c, w)' => /\ \/ Next(c).op = "rd" /\ w = Next(c).word
                                          \/ Next(c).op # "rd" /\ HoldsCopy(c, w)
                                       /\ Next(c).op # "clear"
<1> DEFINE s == todo[c]
<1>1. /\ s \in Seq(AccessesOf[area]) /\ s # <<>> /\ DOMAIN todo = Contexts
      /\ DOMAIN readWord = Contexts /\ Formed(s, readWord[c].word) /\ AckedOnce(s)
      /\ readWord[c] = [word |-> readWord[c].word, bits |-> readWord[c].bits]
  BY DEF Shaped, Access, Idle
<1>2. todo' = [todo EXCEPT ![c] = Tail(s)] /\ area' = area /\ calls' = calls
  BY DEF Access, Reads, Looks, Writes, Clears, Advance
<1>3. clash \subseteq clash'
  BY DEF Access, Reads, Looks, Writes, Clears
<1>4. todo'[c] = Tail(s) /\ \A d \in Contexts \ {c} : todo'[d] = todo[d]
  BY <1>1, <1>2
<1>5. Len(s) = 1 <=> Tail(s) = <<>>
  BY <1>1, TailIs
<1>6. /\ DOMAIN readWord' = Contexts
      /\ \A d \in Contexts \ {c} : readWord'[d] = readWord[d]
      /\ readWord'[c] = [word |-> readWord'[c].word, bits |-> readWord'[c].bits]
      /\ \/ Tail(s) = <<>>
         \/ readWord'[c].word = IF Next(c).op = "rd" THEN Next(c).word ELSE readWord[c].word
  <2>1. CASE Reads(c)
    BY <1>1, <2>1 DEF Reads
  <2>2. CASE Looks(c)
    BY <1>1, <2>2 DEF Looks
  <2>3. CASE Writes(c)
    <3>1. Next(c).op # "rd"
      BY <2>3 DEF Writes
    <3>2. CASE readWord' = readWord
      BY <1>1, <3>1, <3>2
    <3>3. CASE readWord' = [readWord EXCEPT ![c] = NoCopy] /\ Len(s) = 1
      BY <1>1, <1>5, <3>3 DEF NoCopy
    <3>4. CASE readWord' = [readWord EXCEPT ![c] = [@ EXCEPT !.bits = reg'[Next(c).word]]]
      BY <1>1, <3>1, <3>4
    <3>5. CASE readWord' = [readWord EXCEPT ![c] = @]
      BY <1>1, <3>1, <3>5
    <3>6. \/ readWord' = readWord
          \/ readWord' = [readWord EXCEPT ![c] = NoCopy] /\ Len(s) = 1
          \/ readWord' = [readWord EXCEPT ![c] = [@ EXCEPT !.bits = reg'[Next(c).word]]]
          \/ readWord' = [readWord EXCEPT ![c] = @]
      <4>1. CASE Skips(c)
        BY <2>3, <4>1 DEF Writes
      <4>2. CASE ~Skips(c)
        <5>1. readWord' = [readWord EXCEPT ![c] = IF Len(s) = 1 THEN NoCopy
                             ELSE IF Next(c).op = "put" THEN @
                             ELSE [@ EXCEPT !.bits = reg'[Next(c).word]]]
          BY <2>3, <4>2 DEF Writes
        <5>2. CASE Len(s) = 1
          BY <5>1, <5>2
        <5>3. CASE Len(s) # 1 /\ Next(c).op = "put"
          BY <5>1, <5>3
        <5>4. CASE Len(s) # 1 /\ Next(c).op # "put"
          BY <5>1, <5>4
        <5>5. QED BY <5>2, <5>3, <5>4
      <4>3. QED BY <4>1, <4>2
    <3>7. QED BY <3>2, <3>3, <3>4, <3>5, <3>6
  <2>4. CASE Clears(c)
    <3>1. Next(c).op # "rd"
      BY <2>4 DEF Clears
    <3>2. CASE readWord' = readWord
      BY <1>1, <3>1, <3>2
    <3>3. CASE readWord' = [readWord EXCEPT ![c] = NoCopy] /\ Len(s) = 1
      BY <1>1, <1>5, <3>3 DEF NoCopy
    <3>4. QED BY <2>4, <3>2, <3>3 DEF Clears
  <2>5. QED BY <2>1, <2>2, <2>3, <2>4 DEF Access
<1>7. ASSUME NEW d \in Contexts \ {c}, NEW w
      PROVE  HoldsCopy(d, w)' <=> HoldsCopy(d, w)
  BY <1>4, <1>6 DEF HoldsCopy
<1>8. ASSUME NEW w, HoldsCopy(c, w)'
      PROVE  /\ \/ Next(c).op = "rd" /\ w = Next(c).word
                \/ Next(c).op # "rd" /\ HoldsCopy(c, w)
             /\ Next(c).op # "clear"
  <2>1. readWord'[c].word = w /\ Held(Tail(s), w)
    BY <1>4, <1>8 DEF HoldsCopy, Held, WritesBack
  <2>2. Tail(s) # <<>>
    <3>1. \A t : t = <<>> => ~Held(t, w)
      BY DEF Held
    <3>2. QED BY <2>1, <3>1
  <2>3. readWord'[c].word = IF Next(c).op = "rd" THEN Next(c).word ELSE readWord[c].word
    BY <1>6, <2>2
  <2>4. /\ Head(s).op # "rd" => Held(s, w)
        /\ Head(s).op # "clear"
    BY <1>1, <2>1, HeldTail
  <2>5. QED BY <2>1, <2>3, <2>4, HoldsIs DEF Next
<1>9. QED BY <1>1, <1>2, <1>3, <1>4, <1>6, <1>7, <1>8

\* What a write does to the word and to the copies of it.
LEMMA WroteIs ==
  ASSUME Shaped, NEW c \in Contexts, Access(c), Writes(c), ~Skips(c), NEW w, w = Next(c).word
  PROVE  /\ Next(c).op \in {"wr", "put", "flip", "unless"} /\ fresh' = fresh
         /\ w \in Words[area] /\ DOMAIN reg' = Words[area] /\ DOMAIN asked' = Words[area]
         /\ \A x \in Words[area] \ {w} : reg'[x] = reg[x] /\ asked'[x] = asked[x]
         /\ DOMAIN reg'[w] = Fields[area][w] /\ DOMAIN asked'[w] = Fields[area][w]
         /\ DOMAIN Next(c).to \subseteq Fields[area][w]
         /\ \A f \in DOMAIN Next(c).to : reg'[w][f] = Given(c)[f]
         /\ Next(c).op # "flip" => Given(c) = Next(c).to
         /\ Next(c).op = "put" => reg'[w] = asked'[w]
         /\ Next(c).op # "put" =>
              /\ readWord[c].word = w /\ HoldsCopy(c, w)
              /\ DOMAIN readWord[c].bits = Fields[area][w]
              /\ \A f \in Fields[area][w] \ DOMAIN Next(c).to : reg'[w][f] = readWord[c].bits[f]
              /\ readWord[c].bits = asked[w] => reg'[w] = asked'[w]
         /\ \/ todo'[c] = <<>>
            \/ Next(c).op = "put" /\ readWord'[c] = readWord[c]
            \/ Next(c).op # "put" /\ readWord'[c].word = w /\ readWord'[c].bits = reg'[w]
         /\ \A d \in Contexts \ {c} : HoldsCopy(d, w) => w \in clash'
         /\ clash' = clash \/ (clash' = clash \cup {w} /\ \E d \in Contexts \ {c} : HoldsCopy(d, w))
<1> DEFINE a == Next(c)
           g == Given(c)
           value == Overlay(g, Others(c))
           n == [f \in DOMAIN reg[w] |-> value[f]]
<1>1. /\ a.op \in {"wr", "put", "flip", "unless"} /\ fresh' = fresh
      /\ reg' = [reg EXCEPT ![w] = [f \in DOMAIN @ |-> value[f]]]
      /\ readWord' = [readWord EXCEPT ![c] = IF Len(todo[c]) = 1 THEN NoCopy
                        ELSE IF a.op = "put" THEN @ ELSE [@ EXCEPT !.bits = reg'[w]]]
      /\ asked' = [asked EXCEPT ![w] = Overlay(g, @)]
      /\ clash' = IF \E d \in Contexts \ {c} : HoldsCopy(d, w) THEN clash \cup {w} ELSE clash
  BY DEF Writes
<1>2. /\ a \in AccessesOf[area] /\ Lawful(a) /\ w \in Words[area]
      /\ DOMAIN a.to \subseteq Fields[area][w]
      /\ a.op = "put" => DOMAIN a.to = Fields[area][w]
      /\ a.op \in WritesBack => /\ readWord[c].word = w /\ HoldsCopy(c, w)
                                /\ DOMAIN readWord[c].bits = Fields[area][w]
  BY NextIs DEF Access
<1>3. /\ DOMAIN reg = Words[area] /\ DOMAIN reg[w] = Fields[area][w]
      /\ DOMAIN asked = Words[area] /\ DOMAIN asked[w] = Fields[area][w]
      /\ DOMAIN readWord = Contexts
      /\ readWord[c] = [word |-> readWord[c].word, bits |-> readWord[c].bits]
      /\ todo[c] \in Seq(AccessesOf[area]) /\ todo[c] # <<>> /\ DOMAIN todo = Contexts
  BY <1>2 DEF Shaped, Access, Idle
<1>4. DOMAIN g = DOMAIN a.to /\ (a.op # "flip" => g = a.to)
  BY DEF Given
<1>5. a.op # "put" => Others(c) = readWord[c].bits
  BY DEF Others
<1>6. a.op # "put" => a.op \in WritesBack
  BY <1>1 DEF WritesBack
<1>7. /\ DOMAIN value = DOMAIN g \cup DOMAIN Others(c)
      /\ \A f \in DOMAIN g : value[f] = g[f]
      /\ \A f \in DOMAIN Others(c) \ DOMAIN g : value[f] = Others(c)[f]
  BY OverlayIs
<1>8. Len(todo[c]) = 1 => todo'[c] = <<>>
  <2>1. todo'[c] = Tail(todo[c])
    <3>1. todo' = [todo EXCEPT ![c] = Tail(todo[c])]
      BY TakenIs
    <3>2. QED BY ONLY c \in Contexts, <1>3, <3>1
  <2>2. QED BY <1>3, <2>1, TailIs
<1>9. asked'[w] = Overlay(g, asked[w]) /\ \A x \in Words[area] \ {w} : asked'[x] = asked[x]
  BY <1>1, <1>2, <1>3
<1> HIDE DEF a, g, value
<1>10. reg'[w] = n /\ \A x \in Words[area] \ {w} : reg'[x] = reg[x]
  BY <1>1, <1>2, <1>3
<1>11. DOMAIN n = Fields[area][w] /\ \A f \in Fields[area][w] : n[f] = value[f]
  BY <1>3
<1> DEFINE o == Overlay(g, asked[w])
<1>20. /\ DOMAIN o = Fields[area][w]
       /\ \A f \in DOMAIN g : o[f] = g[f]
       /\ \A f \in Fields[area][w] \ DOMAIN g : o[f] = asked[w][f]
  <2>1. /\ DOMAIN o = DOMAIN g \cup DOMAIN asked[w]
        /\ \A f \in DOMAIN g : o[f] = g[f]
        /\ \A f \in DOMAIN asked[w] \ DOMAIN g : o[f] = asked[w][f]
    BY OverlayIs, ZenonT(40)
  <2> HIDE DEF o
  <2>2. QED BY <1>2, <1>3, <1>4, <2>1 DEF a
<1>21. (\A f \in Fields[area][w] : n[f] = o[f]) => n = o
  <2>1. o = [f \in Fields[area][w] |-> o[f]]
    BY <1>20 DEF Overlay
  <2> HIDE DEF o
  <2>2. n = [f \in Fields[area][w] |-> n[f]]
    BY <1>3
  <2> HIDE DEF n
  <2>3. QED BY <2>1, <2>2
<1> HIDE DEF o, n
<1>12. a.op = "put" => n = o
  <2> SUFFICES ASSUME a.op = "put", NEW f \in Fields[area][w] PROVE n[f] = o[f]
    BY <1>21
  <2>1. DOMAIN g = Fields[area][w]
    BY <1>2, <1>4 DEF a
  <2>2. QED BY <1>7, <1>11, <1>20, <2>1
<1>13. a.op # "put" /\ readWord[c].bits = asked[w] => n = o
  <2> SUFFICES ASSUME a.op # "put", readWord[c].bits = asked[w], NEW f \in Fields[area][w]
               PROVE  n[f] = o[f]
    BY <1>21
  <2>1. Others(c) = asked[w] /\ DOMAIN asked[w] = Fields[area][w]
    BY <1>3, <1>5
  <2>2. QED BY <1>7, <1>11, <1>20, <2>1
<1>14. \A f \in DOMAIN g : n[f] = g[f]
  BY <1>2, <1>4, <1>7, <1>11 DEF a
<1>15. a.op # "put" => \A f \in Fields[area][w] \ DOMAIN g : n[f] = readWord[c].bits[f]
  BY <1>2, <1>5, <1>6, <1>7, <1>11 DEF a
<1>16. \/ todo'[c] = <<>>
       \/ a.op = "put" /\ readWord'[c] = readWord[c]
       \/ a.op # "put" /\ readWord'[c].word = w /\ readWord'[c].bits = reg'[w]
  <2>1. CASE Len(todo[c]) = 1
    BY <1>8, <2>1
  <2>2. CASE Len(todo[c]) # 1 /\ a.op = "put"
    BY <1>1, <1>3, <2>2
  <2>3. CASE Len(todo[c]) # 1 /\ a.op # "put"
    <3>1. readWord'[c] = [readWord[c] EXCEPT !.bits = reg'[w]]
      BY <1>1, <1>3, <2>3
    <3>2. readWord[c].word = w
      BY <1>2, <1>6, <2>3 DEF a
    <3>3. QED BY <1>3, <2>3, <3>1, <3>2
  <2>4. QED BY <2>1, <2>2, <2>3
<1>17. /\ \A d \in Contexts \ {c} : HoldsCopy(d, w) => w \in clash'
       /\ clash' = clash \/ (clash' = clash \cup {w} /\ \E d \in Contexts \ {c} : HoldsCopy(d, w))
  BY <1>1
<1>18. DOMAIN reg' = Words[area] /\ DOMAIN asked' = Words[area]
  BY <1>1, <1>3
<1>22. asked'[w] = o
  BY <1>9 DEF o
<1>19. a.op # "put" =>
         /\ readWord[c].word = w /\ HoldsCopy(c, w)
         /\ DOMAIN readWord[c].bits = Fields[area][w]
         /\ \A f \in Fields[area][w] \ DOMAIN a.to : reg'[w][f] = readWord[c].bits[f]
         /\ readWord[c].bits = asked[w] => reg'[w] = asked'[w]
  <2> SUFFICES ASSUME a.op # "put"
               PROVE  /\ readWord[c].word = w /\ HoldsCopy(c, w)
                      /\ DOMAIN readWord[c].bits = Fields[area][w]
                      /\ \A f \in Fields[area][w] \ DOMAIN a.to : reg'[w][f] = readWord[c].bits[f]
                      /\ readWord[c].bits = asked[w] => reg'[w] = asked'[w]
    OBVIOUS
  <2>1. /\ readWord[c].word = w /\ HoldsCopy(c, w)
        /\ DOMAIN readWord[c].bits = Fields[area][w]
    BY <1>2, <1>6
  <2>2. \A f \in Fields[area][w] \ DOMAIN a.to : reg'[w][f] = readWord[c].bits[f]
    BY <1>4, <1>10, <1>15
  <2>3. readWord[c].bits = asked[w] => reg'[w] = asked'[w]
    BY <1>10, <1>13, <1>22
  <2>4. QED BY <2>1, <2>2, <2>3
<1>23. /\ a.op \in {"wr", "put", "flip", "unless"} /\ fresh' = fresh
       /\ w \in Words[area] /\ DOMAIN reg' = Words[area] /\ DOMAIN asked' = Words[area]
       /\ \A x \in Words[area] \ {w} : reg'[x] = reg[x] /\ asked'[x] = asked[x]
       /\ DOMAIN reg'[w] = Fields[area][w] /\ DOMAIN asked'[w] = Fields[area][w]
       /\ DOMAIN a.to \subseteq Fields[area][w]
       /\ \A f \in DOMAIN a.to : reg'[w][f] = g[f]
       /\ a.op # "flip" => g = a.to
       /\ a.op = "put" => reg'[w] = asked'[w]
  BY <1>1, <1>2, <1>4, <1>9, <1>10, <1>11, <1>12, <1>14, <1>18, <1>20, <1>22
<1>24. QED BY <1>16, <1>17, <1>19, <1>23 DEF a, g

\* A call begins, an edge comes, or an access is made.
Started(c, k, s) ==
  /\ c \in Contexts /\ k \in CallsOf[area] /\ todo[c] = <<>> /\ Runs(c) /\ ~Booting
  /\ \/ c \in Callers /\ s = k.does
     \/ c = Isr /\ \E v \in Vectors : s = Dispatch(v, k.does)
  /\ Begin(c, k, s)

LEMMA StepIs ==
  ASSUME RegStep
  PROVE  \/ \E c, k, s : Started(c, k, s)
         \/ Edge
         \/ \E c \in Contexts : Access(c)
<1>1. CASE \E c \in Callers : ThreadCalls(c)
  <2>1. PICK c \in Callers : ThreadCalls(c)
    BY <1>1
  <2>2. PICK k \in CallsOf[area] : Begin(c, k, k.does)
    BY <2>1 DEF ThreadCalls
  <2>3. Started(c, k, k.does)
    BY <2>1, <2>2 DEF Started, ThreadCalls, Contexts, Idle
  <2>4. QED BY <2>3
<1>2. CASE IrqTaken
  <2>1. PICK v \in Vectors, k \in CallsOf[area] : Begin(Isr, k, Dispatch(v, k.does))
    BY <1>2 DEF IrqTaken
  <2>2. Started(Isr, k, Dispatch(v, k.does))
    BY <1>2, <2>1 DEF Started, IrqTaken, Contexts, Idle, Runs
  <2>3. QED BY <2>2
<1>3. QED BY <1>1, <1>2 DEF RegStep

LEMMA StartedIs ==
  ASSUME Shaped, NEW c, NEW k, NEW s, Started(c, k, s)
  PROVE  /\ c \in Contexts /\ k \in Begun(area) /\ area \in Areas
         /\ s \in Seq(AccessesOf[area]) /\ WellOrdered(s)
         /\ todo' = [todo EXCEPT ![c] = s] /\ call' = [call EXCEPT ![c] = k]
         /\ todo'[c] = s /\ call'[c] = k
         /\ \A d \in Contexts \ {c} : todo'[d] = todo[d] /\ call'[d] = call[d]
         /\ UNCHANGED <<area, reg, readWord, got, asked, clash, fresh>>
         /\ \A w : ~HoldsCopy(c, w)'
         /\ \A d \in Contexts \ {c} : \A w : HoldsCopy(d, w)' <=> HoldsCopy(d, w)
<1>1. /\ c \in Contexts /\ k \in Begun(area) /\ area \in Areas
      /\ todo' = [todo EXCEPT ![c] = s] /\ call' = [call EXCEPT ![c] = k]
      /\ UNCHANGED <<area, reg, readWord, got, asked, clash, fresh>>
  BY DEF Started, Begin, Begun, Shaped
<1>2. s \in Seq(AccessesOf[area]) /\ WellOrdered(s)
  <2>1. k.does \in Seq(AccessesOf[area]) /\ WellOrdered(k.does)
    BY <1>1, CallsAccess, CallsOrdered
  <2>2. ASSUME NEW v \in Vectors
        PROVE  Dispatch(v, k.does) \in Seq(AccessesOf[area]) /\ WellOrdered(Dispatch(v, k.does))
    BY <1>1, <2>1, CallsAccess, DispatchOrdered
  <2>3. QED BY <2>1, <2>2 DEF Started
<1>3. /\ todo'[c] = s /\ call'[c] = k
      /\ \A d \in Contexts \ {c} : todo'[d] = todo[d] /\ call'[d] = call[d]
  BY <1>1 DEF Shaped
<1>4. ASSUME NEW w PROVE ~HoldsCopy(c, w)'
  <2>1. ~Held(s, w)
    BY <1>2, FormedFirst DEF WellOrdered, Rereads
  <2>2. HoldsCopy(c, w)' => Held(s, w)
    BY <1>3 DEF HoldsCopy, Held, WritesBack
  <2>3. QED BY <2>1, <2>2
<1>5. ASSUME NEW d \in Contexts \ {c}, NEW w
      PROVE  HoldsCopy(d, w)' <=> HoldsCopy(d, w)
  BY <1>1, <1>3 DEF HoldsCopy
<1>6. QED BY <1>1, <1>2, <1>3, <1>4, <1>5

LEMMA ReadIs ==
  ASSUME Shaped, NEW c \in Contexts, Access(c), Reads(c)
  PROVE  /\ Next(c).op = "rd" /\ UNCHANGED <<reg, asked, clash>>
         /\ readWord'[c].word = Next(c).word /\ readWord'[c].bits = reg[Next(c).word]
         /\ fresh' = IF Next(c).word.kind = "sta" THEN {} ELSE fresh
BY DEF Shaped, Reads

\* Neither a look nor a write that finds its value there already changes anything.
LEMMA PassedIs ==
  ASSUME Shaped, NEW c \in Contexts, Access(c), Looks(c) \/ (Writes(c) /\ Skips(c))
  PROVE  Next(c).op \in {"look", "unless"} /\ UNCHANGED <<reg, readWord, asked, clash, fresh>>
<1>1. CASE Looks(c)
  BY <1>1 DEF Looks
<1>2. CASE Writes(c) /\ Skips(c)
  BY <1>2 DEF Writes, Skips
<1>3. QED BY <1>1, <1>2

LEMMA ClearedIs ==
  ASSUME Shaped, NEW c \in Contexts, Access(c), Clears(c)
  PROVE  /\ Next(c).op = "clear" /\ Next(c).word = StaWord("E") /\ StaWord("E") \in Words[area]
         /\ DOMAIN reg' = Words[area] /\ \A w \in Words[area] : DOMAIN reg'[w] = DOMAIN reg[w]
         /\ \A w \in Words[area] \ {StaWord("E")} : reg'[w] = reg[w]
         /\ asked' = asked
         /\ (readWord'[c] = readWord[c] \/ todo'[c] = <<>>)
         /\ fresh' = fresh \ (DOMAIN Next(c).to
                              \cup {f \in DOMAIN reg[StaWord("E")] : readWord[c].bits[f] = 1})
         /\ \A d \in Contexts \ {c} : HoldsCopy(d, StaWord("E")) => StaWord("E") \in clash'
         /\ clash' \subseteq clash \cup {StaWord("E")}
<1> DEFINE w == Next(c).word
           ones == DOMAIN Next(c).to \cup {f \in DOMAIN reg[w] : readWord[c].bits[f] = 1}
<1>1. /\ Next(c).op = "clear"
      /\ reg' = [reg EXCEPT ![w] = [f \in DOMAIN @ |-> IF f \in ones THEN 0 ELSE @[f]]]
      /\ fresh' = fresh \ ones
      /\ clash' = IF \E d \in Contexts \ {c} : HoldsCopy(d, w) THEN clash \cup {w} ELSE clash
      /\ readWord' = IF Len(todo[c]) = 1 THEN [readWord EXCEPT ![c] = NoCopy] ELSE readWord
      /\ asked' = asked
  BY DEF Clears
<1>2. w = StaWord("E") /\ w \in Words[area]
  <2>1. Lawful(Next(c)) /\ w \in Words[area]
    BY NextIs DEF Access
  <2>2. QED BY <1>1, <2>1 DEF Lawful
<1> HIDE DEF ones
<1>3. /\ DOMAIN reg' = Words[area] /\ \A x \in Words[area] : DOMAIN reg'[x] = DOMAIN reg[x]
      /\ \A x \in Words[area] \ {w} : reg'[x] = reg[x]
  BY <1>1 DEF Shaped
<1>4. readWord'[c] = readWord[c] \/ todo'[c] = <<>>
  <2>1. /\ todo[c] \in Seq(AccessesOf[area]) /\ todo[c] # <<>> /\ DOMAIN todo = Contexts
        /\ DOMAIN readWord = Contexts
    BY DEF Shaped, Access, Idle
  <2>2. todo'[c] = Tail(todo[c])
    BY <2>1, TakenIs
  <2>3. Len(todo[c]) = 1 => todo'[c] = <<>>
    BY <2>1, <2>2, TailIs
  <2>4. QED BY <1>1, <2>3
<1> HIDE DEF w
<1>5. fresh' = fresh \ (DOMAIN Next(c).to
                        \cup {f \in DOMAIN reg[StaWord("E")] : readWord[c].bits[f] = 1})
  BY <1>1, <1>2 DEF ones
<1>6. /\ \A d \in Contexts \ {c} : HoldsCopy(d, w) => w \in clash'
      /\ clash' \subseteq clash \cup {w}
  BY <1>1
<1>7. QED BY <1>1, <1>2, <1>3, <1>4, <1>5, <1>6 DEF w

LEMMA EdgeIs ==
  ASSUME Shaped, Edge
  PROVE  /\ area = "gpio" /\ UNCHANGED <<area, call, todo, readWord, got, asked, clash>>
         /\ DOMAIN reg' = Words[area] /\ \A w \in Words[area] : DOMAIN reg'[w] = DOMAIN reg[w]
         /\ \A w \in Words[area] \ {StaWord("E")} : reg'[w] = reg[w]
         /\ \E p \in Pins : /\ \A f \in DOMAIN reg[StaWord("E")] : StaWord("E") \in Words[area] =>
                                 reg'[StaWord("E")][f] = IF f = p THEN 1 ELSE reg[StaWord("E")][f]
                            /\ fresh' = IF reg[StaWord("E")][p] = 0 THEN fresh \cup {p} ELSE fresh
<1> DEFINE w == StaWord("E")
<1>1. PICK p \in Pins : /\ reg' = [reg EXCEPT ![w][p] = 1]
                        /\ fresh' = IF reg[w][p] = 0 THEN fresh \cup {p} ELSE fresh
  BY DEF Edge
<1>2. DOMAIN reg = Words[area]
  BY DEF Shaped
<1> HIDE DEF w
<1>3. /\ DOMAIN reg' = Words[area] /\ \A x \in Words[area] : DOMAIN reg'[x] = DOMAIN reg[x]
      /\ \A x \in Words[area] \ {w} : reg'[x] = reg[x]
      /\ w \in Words[area] => \A f \in DOMAIN reg[w] : reg'[w][f] = IF f = p THEN 1 ELSE reg[w][f]
  BY <1>1, <1>2
<1>4. area = "gpio" /\ UNCHANGED <<area, call, todo, readWord, got, asked, clash>>
  BY DEF Edge
<1>5. QED BY <1>1, <1>3, <1>4 DEF w

LEMMA ShapedKept ==
  ASSUME Shaped, [RegStep]_regVars
  PROVE  Shaped'
<1>1. CASE UNCHANGED regVars
  BY <1>1 DEF Shaped, regVars, HoldsCopy
<1>2. ASSUME NEW c, NEW k, NEW s, Started(c, k, s) PROVE Shaped'
  <2>1. /\ c \in Contexts /\ s \in Seq(AccessesOf[area]) /\ WellOrdered(s)
        /\ todo' = [todo EXCEPT ![c] = s] /\ call' = [call EXCEPT ![c] = k] /\ todo'[c] = s
        /\ \A d \in Contexts \ {c} : todo'[d] = todo[d]
        /\ UNCHANGED <<area, reg, readWord, got, asked, clash, fresh>>
        /\ \A w : ~HoldsCopy(c, w)'
        /\ \A d \in Contexts \ {c} : \A w : HoldsCopy(d, w)' <=> HoldsCopy(d, w)
    BY <1>2, StartedIs
  <2>2. /\ area' \in Areas
        /\ DOMAIN reg' = Words[area'] /\ \A w \in Words[area'] : DOMAIN reg'[w] = Fields[area'][w]
        /\ DOMAIN asked' = Words[area']
        /\ \A w \in Words[area'] : DOMAIN asked'[w] = Fields[area'][w]
        /\ DOMAIN todo' = Contexts /\ DOMAIN call' = Contexts /\ DOMAIN readWord' = Contexts
    BY <2>1 DEF Shaped
  <2>3. ASSUME NEW d \in Contexts
        PROVE  /\ todo'[d] \in Seq(AccessesOf[area'])
               /\ readWord'[d] = [word |-> readWord'[d].word, bits |-> readWord'[d].bits]
               /\ Formed(todo'[d], readWord'[d].word) /\ AckedOnce(todo'[d])
    <3>1. CASE d = c
      <4>1. Formed(s, readWord[c].word) /\ AckedOnce(s)
        BY <2>1, FormedFirst DEF WellOrdered, Rereads
      <4>2. QED BY <2>1, <3>1, <4>1 DEF Shaped
    <3>2. CASE d # c
      BY <2>1, <3>2 DEF Shaped
    <3>3. QED BY <3>1, <3>2
  <2>4. ASSUME NEW d \in Contexts, NEW w \in Words[area'], HoldsCopy(d, w)'
        PROVE  DOMAIN readWord'[d].bits = Fields[area'][w]
    BY <2>1, <2>4 DEF Shaped
  <2>5. QED BY <2>2, <2>3, <2>4 DEF Shaped
<1>3. CASE Edge
  <2>1. /\ UNCHANGED <<area, call, todo, readWord, asked>> /\ DOMAIN reg' = Words[area]
        /\ \A w \in Words[area] : DOMAIN reg'[w] = DOMAIN reg[w]
    BY <1>3, EdgeIs
  <2>2. \A d, w : HoldsCopy(d, w)' <=> HoldsCopy(d, w)
    BY <2>1 DEF HoldsCopy
  <2>3. QED BY <2>1, <2>2 DEF Shaped
<1>4. ASSUME NEW c \in Contexts, Access(c) PROVE Shaped'
  <2>1. /\ todo[c] # <<>> /\ area' = area
        /\ todo' = [todo EXCEPT ![c] = Tail(todo[c])]
        /\ DOMAIN readWord' = Contexts
        /\ \A d \in Contexts \ {c} :
             readWord'[d] = readWord[d] /\ \A w : HoldsCopy(d, w)' <=> HoldsCopy(d, w)
        /\ readWord'[c] = [word |-> readWord'[c].word, bits |-> readWord'[c].bits]
        /\ \/ todo'[c] = <<>>
           \/ readWord'[c].word = IF Next(c).op = "rd" THEN Next(c).word ELSE readWord[c].word
        /\ \A w : HoldsCopy(c, w)' => \/ Next(c).op = "rd" /\ w = Next(c).word
                                      \/ Next(c).op # "rd" /\ HoldsCopy(c, w)
    BY <1>4, TakenIs
  <2>2. /\ DOMAIN reg' = Words[area] /\ \A w \in Words[area] : DOMAIN reg'[w] = Fields[area][w]
        /\ DOMAIN asked' = Words[area]
        /\ \A w \in Words[area] : DOMAIN asked'[w] = Fields[area][w]
    <3>1. CASE Reads(c)
      BY <1>4, <3>1, ReadIs DEF Shaped
    <3>2. CASE Looks(c) \/ (Writes(c) /\ Skips(c))
      BY <1>4, <3>2, PassedIs DEF Shaped
    <3>3. CASE Writes(c) /\ ~Skips(c)
      <4>1. /\ DOMAIN reg' = Words[area] /\ DOMAIN asked' = Words[area]
            /\ \A x \in Words[area] \ {Next(c).word} : reg'[x] = reg[x] /\ asked'[x] = asked[x]
            /\ DOMAIN reg'[Next(c).word] = Fields[area][Next(c).word]
            /\ DOMAIN asked'[Next(c).word] = Fields[area][Next(c).word]
        BY <1>4, <3>3, WroteIs
      <4>2. QED BY <4>1 DEF Shaped
    <3>4. CASE Clears(c)
      <4>1. /\ DOMAIN reg' = Words[area] /\ \A w \in Words[area] : DOMAIN reg'[w] = DOMAIN reg[w]
            /\ asked' = asked
        BY <1>4, <3>4, ClearedIs
      <4>2. QED BY <4>1 DEF Shaped
    <3>5. QED BY <1>4, <3>1, <3>2, <3>3, <3>4 DEF Access
  <2>3. DOMAIN todo' = Contexts /\ DOMAIN call' = Contexts
    BY <1>4, <2>1 DEF Shaped, Access, Reads, Looks, Writes, Clears, Advance
  <2>4. todo'[c] = Tail(todo[c]) /\ \A d \in Contexts \ {c} : todo'[d] = todo[d]
    BY <2>1 DEF Shaped
  <2>5. ASSUME NEW d \in Contexts
        PROVE  /\ todo'[d] \in Seq(AccessesOf[area])
               /\ readWord'[d] = [word |-> readWord'[d].word, bits |-> readWord'[d].bits]
               /\ Formed(todo'[d], readWord'[d].word) /\ AckedOnce(todo'[d])
    <3>1. CASE d = c
      <4>1. /\ todo[c] \in Seq(AccessesOf[area]) /\ Formed(todo[c], readWord[c].word)
            /\ AckedOnce(todo[c])
        BY DEF Shaped
      <4>2. Tail(todo[c]) \in Seq(AccessesOf[area]) /\ AckedOnce(Tail(todo[c]))
        BY <2>1, <4>1, TailIs, AckedTail
      <4>3. Formed(Tail(todo[c]), readWord'[c].word)
        <5>1. CASE todo'[c] = <<>>
          <6>1. \A w : Formed(<<>>, w)
            BY DEF Formed
          <6>2. QED BY <2>4, <5>1, <6>1
        <5>2. CASE readWord'[c].word = IF Next(c).op = "rd" THEN Next(c).word ELSE readWord[c].word
          BY <2>1, <4>1, <5>2, FormedTail DEF Next
        <5>3. QED BY <2>1, <5>1, <5>2
      <4>4. QED BY <2>1, <2>4, <3>1, <4>2, <4>3
    <3>2. CASE d # c
      BY <2>1, <2>4, <3>2 DEF Shaped
    <3>3. QED BY <3>1, <3>2
  <2>6. ASSUME NEW d \in Contexts, NEW w \in Words[area], HoldsCopy(d, w)'
        PROVE  DOMAIN readWord'[d].bits = Fields[area][w]
    <3>1. CASE d # c
      BY <2>1, <2>6, <3>1 DEF Shaped
    <3>2. CASE d = c
      <4>0. readWord'[c].word = w /\ todo'[c] # <<>>
        <5>1. HoldsCopy(c, w)'
          BY <2>6, <3>2
        <5>2. \A t : t = <<>> => DOMAIN t = {}
          OBVIOUS
        <5>3. QED BY <5>1, <5>2 DEF HoldsCopy
      <4>1. CASE Reads(c)
        <5>1. readWord'[c].word = Next(c).word /\ readWord'[c].bits = reg[Next(c).word]
          BY <1>4, <4>1, ReadIs
        <5>2. QED BY <3>2, <4>0, <5>1 DEF Shaped
      <4>2. CASE Looks(c) \/ (Writes(c) /\ Skips(c))
        <5>1. Next(c).op \in {"look", "unless"} /\ readWord' = readWord
          BY <1>4, <4>2, PassedIs
        <5>2. HoldsCopy(c, w)
          BY <2>1, <2>6, <3>2, <5>1
        <5>3. QED BY <3>2, <5>1, <5>2 DEF Shaped
      <4>3. CASE Writes(c) /\ ~Skips(c)
        <5>1. /\ Next(c).op \in {"wr", "put", "flip", "unless"}
              /\ \/ todo'[c] = <<>>
                 \/ Next(c).op = "put" /\ readWord'[c] = readWord[c]
                 \/ Next(c).op # "put" /\ readWord'[c].word = Next(c).word
                    /\ readWord'[c].bits = reg'[Next(c).word]
          BY <1>4, <4>3, WroteIs
        <5>2. HoldsCopy(c, w)
          BY <2>1, <2>6, <3>2, <5>1
        <5>3. QED BY <2>2, <3>2, <4>0, <5>1, <5>2 DEF Shaped
      <4>4. CASE Clears(c)
        <5>1. Next(c).op = "clear" /\ (readWord'[c] = readWord[c] \/ todo'[c] = <<>>)
          BY <1>4, <4>4, ClearedIs
        <5>2. HoldsCopy(c, w)
          BY <2>1, <2>6, <3>2, <5>1
        <5>3. QED BY <3>2, <4>0, <5>1, <5>2 DEF Shaped
      <4>5. QED BY <1>4, <4>1, <4>2, <4>3, <4>4 DEF Access
    <3>3. QED BY <3>1, <3>2
  <2>7. area \in Areas
    BY DEF Shaped
  <2>8. QED BY <2>1, <2>2, <2>3, <2>5, <2>6, <2>7 DEF Shaped
<1>5. QED BY <1>1, <1>2, <1>3, <1>4, StepIs

-----------------------------------------------------------------------------
(* No update is undone.                                                    *)

\* A copy that is to be written back is what the register holds.
CopiesTrue ==
  \A c \in Contexts : \A w \in Words[area] \ clash :
    w.kind # "sta" /\ HoldsCopy(c, w) => readWord[c].bits = reg[w]

\* No copy is held of what is only ever put.
LEMMA PutOnly ==
  ASSUME Shaped, NEW c \in Contexts, NEW w, HoldsCopy(c, w)
  PROVE  w.kind # "isr" /\ w.kind # "prd" /\ todo[c] # <<>>
<1>1. PICK i \in DOMAIN todo[c] : todo[c][i].word = w /\ todo[c][i].op \in WritesBack
  BY HoldsIs DEF Held
<1>2. todo[c][i] \in AccessesOf[area] /\ area \in Areas
  BY <1>1, ElementOfSeq, LenProperties DEF Shaped
<1>3. Lawful(todo[c][i])
  BY <1>2, AccessesLawful
<1>4. todo[c] # <<>>
  <2>1. \A t : t = <<>> => DOMAIN t = {}
    OBVIOUS
  <2>2. QED BY <1>1, <2>1
<1>5. QED BY <1>1, <1>3, <1>4 DEF Lawful, WritesBack

LEMMA UpdatesKept ==
  ASSUME Shaped, CopiesTrue, UpdatesSurvive, [RegStep]_regVars
  PROVE  CopiesTrue' /\ UpdatesSurvive'
<1>0. Shaped' /\ DOMAIN reg = Words[area]
  BY ShapedKept DEF Shaped
<1>1. CASE UNCHANGED regVars
  BY <1>1 DEF CopiesTrue, UpdatesSurvive, regVars, HoldsCopy
<1>2. ASSUME NEW c, NEW k, NEW s, Started(c, k, s) PROVE CopiesTrue' /\ UpdatesSurvive'
  <2>1. /\ c \in Contexts /\ UNCHANGED <<area, reg, readWord, got, asked, clash, fresh>>
        /\ \A w : ~HoldsCopy(c, w)'
        /\ \A d \in Contexts \ {c} : \A w : HoldsCopy(d, w)' <=> HoldsCopy(d, w)
    BY <1>2, StartedIs
  <2>2. QED BY <2>1 DEF CopiesTrue, UpdatesSurvive
<1>3. CASE Edge
  <2>1. /\ UNCHANGED <<area, call, todo, readWord, got, asked, clash>> /\ DOMAIN reg' = Words[area]
        /\ \A w \in Words[area] \ {StaWord("E")} : reg'[w] = reg[w]
    BY <1>3, EdgeIs
  <2>2. \A d, w : HoldsCopy(d, w)' <=> HoldsCopy(d, w)
    BY <2>1 DEF HoldsCopy
  <2>3. StaWord("E").kind = "sta"
    BY Kinds
  <2>4. QED BY <1>0, <2>1, <2>2, <2>3 DEF CopiesTrue, UpdatesSurvive
<1>4. ASSUME NEW c \in Contexts, Access(c) PROVE CopiesTrue' /\ UpdatesSurvive'
  <2> DEFINE w == Next(c).word
  <2>1. /\ area' = area /\ clash \subseteq clash'
        /\ \A d \in Contexts \ {c} :
             readWord'[d] = readWord[d] /\ \A x : HoldsCopy(d, x)' <=> HoldsCopy(d, x)
        /\ \A x : HoldsCopy(c, x)' => /\ \/ Next(c).op = "rd" /\ x = w
                                         \/ Next(c).op # "rd" /\ HoldsCopy(c, x)
                                      /\ Next(c).op # "clear"
    BY <1>4, TakenIs
  <2>2. CASE Reads(c)
    <3>1. /\ UNCHANGED <<reg, asked, clash>> /\ Next(c).op = "rd"
          /\ readWord'[c].word = w /\ readWord'[c].bits = reg[w]
      BY <1>4, <2>2, ReadIs
    <3>2. CopiesTrue'
      BY <2>1, <3>1 DEF CopiesTrue
    <3>3. QED BY <3>1, <3>2 DEF UpdatesSurvive
  <2>3. CASE Looks(c) \/ (Writes(c) /\ Skips(c))
    <3>1. Next(c).op \in {"look", "unless"} /\ UNCHANGED <<reg, readWord, asked, clash, fresh>>
      BY <1>4, <2>3, PassedIs
    <3>2. CopiesTrue'
      BY <2>1, <3>1 DEF CopiesTrue
    <3>3. QED BY <3>1, <3>2 DEF UpdatesSurvive
  <2>4. CASE Writes(c) /\ ~Skips(c)
    <3>1. /\ Next(c).op \in {"wr", "put", "flip", "unless"}
          /\ w \in Words[area] /\ DOMAIN reg' = Words[area]
          /\ \A x \in Words[area] \ {w} : reg'[x] = reg[x] /\ asked'[x] = asked[x]
          /\ Next(c).op = "put" => reg'[w] = asked'[w]
          /\ Next(c).op # "put" => /\ HoldsCopy(c, w)
                                   /\ readWord[c].bits = asked[w] => reg'[w] = asked'[w]
          /\ \/ todo'[c] = <<>>
             \/ Next(c).op = "put" /\ readWord'[c] = readWord[c]
             \/ Next(c).op # "put" /\ readWord'[c].word = w /\ readWord'[c].bits = reg'[w]
          /\ \A d \in Contexts \ {c} : HoldsCopy(d, w) => w \in clash'
      BY <1>4, <2>4, WroteIs
    <3>2. Lawful(Next(c))
      BY <1>4, NextIs DEF Access
    <3> HIDE DEF w
    <3>3. UpdatesSurvive'
      <4> SUFFICES ASSUME NEW x \in Words[area] \ clash', x.kind # "sta"
                   PROVE  reg'[x] = asked'[x]
        BY <3>1 DEF UpdatesSurvive
      <4>1. x \in DOMAIN reg \ clash /\ reg[x] = asked[x]
        BY <1>0, <2>1 DEF UpdatesSurvive
      <4>2. CASE x # w
        BY <3>1, <4>1, <4>2
      <4>3. CASE x = w
        <5>1. Next(c).op # "put" => readWord[c].bits = asked[w]
          BY <1>0, <3>1, <4>1, <4>3 DEF CopiesTrue
        <5>2. QED BY <3>1, <4>3, <5>1
      <4>4. QED BY <4>2, <4>3
    <3>4. CopiesTrue'
      <4> SUFFICES ASSUME NEW d \in Contexts, NEW x \in Words[area] \ clash', x.kind # "sta",
                          HoldsCopy(d, x)'
                   PROVE  readWord'[d].bits = reg'[x]
        BY <2>1 DEF CopiesTrue
      <4>1. x \notin clash
        BY <2>1
      <4>2. CASE d # c
        <5>1. HoldsCopy(d, x) /\ readWord'[d] = readWord[d]
          BY <2>1, <4>2
        <5>2. x # w
          BY <3>1, <4>2, <5>1
        <5>3. QED BY <3>1, <4>1, <5>1, <5>2 DEF CopiesTrue
      <4>3. CASE d = c
        <5>1. HoldsCopy(c, x) /\ readWord'[c].word = x /\ todo'[c] # <<>>
          <6>1. HoldsCopy(c, x) /\ HoldsCopy(c, x)'
            BY <2>1, <3>1, <4>3
          <6>2. readWord'[c].word = x
            BY <6>1 DEF HoldsCopy
          <6>3. todo'[c] # <<>>
            <7>1. \A t : t = <<>> => DOMAIN t = {}
              OBVIOUS
            <7>2. QED BY <6>1, <7>1 DEF HoldsCopy
          <6>4. QED BY <6>1, <6>2, <6>3
        <5>2. CASE Next(c).op = "put"
          <6>1. w.kind = "isr" \/ w.kind = "prd"
            BY <3>2, <5>2 DEF Lawful, w
          <6>2. x # w
            BY <5>1, <6>1, PutOnly
          <6>3. readWord[c].bits = reg[x]
            BY <4>1, <5>1 DEF CopiesTrue
          <6>4. QED BY <3>1, <4>3, <5>1, <5>2, <6>2, <6>3
        <5>3. CASE Next(c).op # "put"
          BY <3>1, <4>3, <5>1, <5>3
        <5>4. QED BY <5>2, <5>3
      <4>4. QED BY <4>2, <4>3
    <3>5. QED BY <3>3, <3>4
  <2>5. CASE Clears(c)
    <3>1. /\ Next(c).op = "clear" /\ DOMAIN reg' = Words[area] /\ asked' = asked
          /\ \A x \in Words[area] \ {StaWord("E")} : reg'[x] = reg[x]
      BY <1>4, <2>5, ClearedIs
    <3>2. StaWord("E").kind = "sta"
      BY Kinds
    <3>3. CopiesTrue'
      BY <2>1, <3>1, <3>2 DEF CopiesTrue
    <3>4. UpdatesSurvive'
      BY <1>0, <2>1, <3>1, <3>2 DEF UpdatesSurvive
    <3>5. QED BY <3>3, <3>4
  <2>6. QED BY <1>4, <2>2, <2>3, <2>4, <2>5 DEF Access
<1>5. QED BY <1>1, <1>2, <1>3, <1>4, StepIs

-----------------------------------------------------------------------------
(* No interrupt lacks a handler.                                           *)

\* An access of A comes only after b.
After(s, A, b) == \A i \in DOMAIN s : s[i] \in A => \E j \in 1 .. i - 1 : s[j] = b

LEMMA AfterTail ==
  ASSUME NEW S, NEW s \in Seq(S), s # <<>>, NEW A, NEW b, After(s, A, b)
  PROVE  /\ Head(s) \notin A
         /\ Head(s) # b => After(Tail(s), A, b)
<1> DEFINE t == Tail(s)
           n == Len(s)
<1>1. /\ Head(s) = s[1] /\ n \in Nat /\ n >= 1 /\ DOMAIN s = 1 .. n /\ DOMAIN t = 1 .. n - 1
      /\ \A i \in 1 .. n - 1 : t[i] = s[i + 1]
  BY TailIs
<1> HIDE DEF t, n
<1>2. Head(s) \notin A
  BY <1>1 DEF After
<1>3. ASSUME Head(s) # b, NEW i \in DOMAIN t, t[i] \in A
      PROVE  \E j \in 1 .. i - 1 : t[j] = b
  <2>1. i + 1 \in DOMAIN s /\ s[i + 1] \in A
    BY <1>1, <1>3
  <2>2. PICK j \in 1 .. (i + 1) - 1 : s[j] = b
    BY <2>1 DEF After
  <2>3. j # 1
    BY <1>1, <1>3, <2>2
  <2>4. j - 1 \in 1 .. i - 1 /\ j - 1 \in 1 .. n - 1 /\ (j - 1) + 1 = j
    BY <1>1, <1>3, <2>2, <2>3
  <2>5. QED BY <1>1, <2>2, <2>4
<1>4. QED BY <1>2, <1>3 DEF After, t

LEMMA HeldNext ==
  ASSUME NEW c, NEW w, HoldsCopy(c, w)'
  PROVE  readWord'[c].word = w /\ todo'[c] # <<>>
<1>1. \A t : t = <<>> => DOMAIN t = {}
  OBVIOUS
<1>2. QED BY <1>1 DEF HoldsCopy

LEMMA VectorFields ==
  ASSUME NEW a \in Areas, NEW v \in Vectors
  PROVE  /\ IsrEntry(v) \in Words[a] /\ 0 \in Fields[a][IsrEntry(v)]
         /\ EnWord(v) \in Words[a] /\ v \in Fields[a][EnWord(v)]
<1> DEFINE x == Put(IsrEntry(v), Field(0, 1))
           y == Wr(EnWord(v), Field(v, 1))
<1>1. x \in AccessesOf[a] /\ y \in AccessesOf[a]
  <2>1. x \in Made(Install(v, 1)) /\ y \in Made(Install(v, 1))
    BY InstallIs DEF Made
  <2>2. QED BY <2>1, AccessParts
<1>2. x.word = IsrEntry(v) /\ x.to = Field(0, 1) /\ y.word = EnWord(v) /\ y.to = Field(v, 1)
  BY AccessIs
<1>3. DOMAIN Field(0, 1) = {0} /\ DOMAIN Field(v, 1) = {v}
  BY FieldIs
<1> HIDE DEF x, y
<1>4. /\ x.word \in Words[a] /\ DOMAIN x.to \subseteq Fields[a][x.word]
      /\ y.word \in Words[a] /\ DOMAIN y.to \subseteq Fields[a][y.word]
  BY <1>1, AreaWords
<1>5. QED BY <1>2, <1>3, <1>4

Enables(v) == {x \in AccessesOf[area] : x.word = EnWord(v) /\ v \in DOMAIN x.to}
Handler(v) == Put(IsrEntry(v), Field(0, 1))

\* A vector without a handler is enabled nowhere: not in the register, not in a
\* copy of it, and not by what a call has still to do, short of giving it one.
HandlersAhead ==
  \A v \in Vectors :
    \/ reg[IsrEntry(v)][0] # 0
    \/ /\ reg[EnWord(v)][v] # 1
       /\ \A c \in Contexts : HoldsCopy(c, EnWord(v)) => readWord[c].bits[v] # 1
       /\ \A c \in Contexts : After(todo[c], Enables(v), Handler(v))

LEMMA HandlersKept ==
  ASSUME Shaped, HandlersAhead, [RegStep]_regVars
  PROVE  HandlersAhead'
<1> SUFFICES ASSUME NEW v \in Vectors
             PROVE  \/ reg'[IsrEntry(v)][0] # 0
                    \/ /\ reg'[EnWord(v)][v] # 1
                       /\ \A c \in Contexts : HoldsCopy(c, EnWord(v))' => readWord'[c].bits[v] # 1
                       /\ \A c \in Contexts : After(todo'[c], Enables(v)', Handler(v))
  BY DEF HandlersAhead, After, Handler
<1> DEFINE e == EnWord(v)
           r == IsrEntry(v)
<1>0. /\ r \in Words[area] /\ 0 \in Fields[area][r] /\ e \in Words[area] /\ v \in Fields[area][e]
      /\ e.kind = "en" /\ r.kind = "isr"
  BY VectorFields, Kinds DEF Shaped
<1>10. \/ reg[r][0] # 0
       \/ /\ reg[e][v] # 1
          /\ \A c \in Contexts : HoldsCopy(c, e) => readWord[c].bits[v] # 1
          /\ \A c \in Contexts : After(todo[c], Enables(v), Handler(v))
  BY DEF HandlersAhead
<1>11. area' = area => Enables(v)' = Enables(v)
  BY DEF Enables
<1> HIDE DEF e, r
<1> SUFFICES \/ reg'[r][0] # 0
             \/ /\ reg'[e][v] # 1
                /\ \A c \in Contexts : HoldsCopy(c, e)' => readWord'[c].bits[v] # 1
                /\ \A c \in Contexts : After(todo'[c], Enables(v)', Handler(v))
  BY DEF e, r
<1>1. CASE UNCHANGED regVars
  BY <1>1, <1>10 DEF regVars, HoldsCopy, Enables
<1>2. ASSUME NEW c, NEW k, NEW s, Started(c, k, s)
      PROVE  \/ reg'[r][0] # 0
             \/ /\ reg'[e][v] # 1
                /\ \A d \in Contexts : HoldsCopy(d, e)' => readWord'[d].bits[v] # 1
                /\ \A d \in Contexts : After(todo'[d], Enables(v)', Handler(v))
  <2>1. /\ c \in Contexts /\ UNCHANGED <<area, reg, readWord, got, asked, clash, fresh>>
        /\ todo'[c] = s /\ WellOrdered(s)
        /\ \A d \in Contexts \ {c} : todo'[d] = todo[d]
        /\ \A w : ~HoldsCopy(c, w)'
        /\ \A d \in Contexts \ {c} : \A w : HoldsCopy(d, w)' <=> HoldsCopy(d, w)
    BY <1>2, StartedIs
  <2>2. After(s, Enables(v), Handler(v))
    BY <2>1 DEF WellOrdered, HandlerFirst, After, Enables, Handler
  <2>3. QED BY <1>10, <1>11, <2>1, <2>2
<1>3. CASE Edge
  <2>1. /\ UNCHANGED <<area, call, todo, readWord, got, asked, clash>>
        /\ \A w \in Words[area] \ {StaWord("E")} : reg'[w] = reg[w]
    BY <1>3, EdgeIs
  <2>2. \A d, w : HoldsCopy(d, w)' <=> HoldsCopy(d, w)
    BY <2>1 DEF HoldsCopy
  <2>3. StaWord("E").kind = "sta"
    BY Kinds
  <2>4. reg'[e] = reg[e] /\ reg'[r] = reg[r]
    BY <1>0, <2>1, <2>3
  <2>5. QED BY <1>10, <1>11, <2>1, <2>2, <2>4
<1>4. ASSUME NEW c \in Contexts, Access(c)
      PROVE  \/ reg'[r][0] # 0
             \/ /\ reg'[e][v] # 1
                /\ \A d \in Contexts : HoldsCopy(d, e)' => readWord'[d].bits[v] # 1
                /\ \A d \in Contexts : After(todo'[d], Enables(v)', Handler(v))
  <2> DEFINE a == Next(c)
             w == Next(c).word
  <2>1. /\ area' = area /\ todo[c] # <<>> /\ todo' = [todo EXCEPT ![c] = Tail(todo[c])]
        /\ \A d \in Contexts \ {c} :
             readWord'[d] = readWord[d] /\ \A x : HoldsCopy(d, x)' <=> HoldsCopy(d, x)
        /\ \A x : HoldsCopy(c, x)' => /\ \/ a.op = "rd" /\ x = w
                                         \/ a.op # "rd" /\ HoldsCopy(c, x)
                                      /\ a.op # "clear"
    BY <1>4, TakenIs
  <2>2. /\ a \in AccessesOf[area] /\ Lawful(a) /\ todo[c] \in Seq(AccessesOf[area])
        /\ DOMAIN todo = Contexts
    BY <1>4, NextIs DEF Access, Shaped
  <2>3. todo'[c] = Tail(todo[c]) /\ \A d \in Contexts \ {c} : todo'[d] = todo[d]
    BY <2>1, <2>2
  <2>4. ASSUME \A d \in Contexts : After(todo[d], Enables(v), Handler(v)), a # Handler(v)
        PROVE  \A d \in Contexts : After(todo'[d], Enables(v)', Handler(v))
    <3>1. After(Tail(todo[c]), Enables(v), Handler(v))
      BY <2>1, <2>2, <2>4, AfterTail DEF Next
    <3>2. QED BY <1>11, <2>1, <2>3, <2>4, <3>1
  <2>5. ASSUME \A d \in Contexts : After(todo[d], Enables(v), Handler(v))
        PROVE  ~(w = e /\ v \in DOMAIN a.to)
    <3>1. a \notin Enables(v)
      BY <2>1, <2>2, <2>5, AfterTail DEF Next
    <3>2. QED BY <2>2, <3>1 DEF Enables, e
  <2>6. Handler(v).op = "put"
    BY AccessIs DEF Handler
  <2> HIDE DEF a, w
  <2>7. CASE Reads(c)
    <3>1. /\ UNCHANGED <<reg, asked, clash>> /\ a.op = "rd"
          /\ readWord'[c].word = w /\ readWord'[c].bits = reg[w]
      BY <1>4, <2>7, ReadIs DEF a, w
    <3>2. QED BY <1>10, <2>1, <2>4, <2>6, <3>1
  <2>8. CASE Looks(c) \/ (Writes(c) /\ Skips(c))
    <3>1. a.op \in {"look", "unless"} /\ UNCHANGED <<reg, readWord, asked, clash, fresh>>
      BY <1>4, <2>8, PassedIs DEF a
    <3>2. QED BY <1>10, <2>1, <2>4, <2>6, <3>1
  <2>9. CASE Writes(c) /\ ~Skips(c)
    <3>1. /\ a.op \in {"wr", "put", "flip", "unless"}
          /\ \A x \in Words[area] \ {w} : reg'[x] = reg[x]
          /\ \A f \in DOMAIN a.to : reg'[w][f] = Given(c)[f]
          /\ a.op # "flip" => Given(c) = a.to
          /\ a.op # "put" =>
               /\ HoldsCopy(c, w)
               /\ \A f \in Fields[area][w] \ DOMAIN a.to : reg'[w][f] = readWord[c].bits[f]
          /\ \/ todo'[c] = <<>>
             \/ a.op = "put" /\ readWord'[c] = readWord[c]
             \/ a.op # "put" /\ readWord'[c].word = w /\ readWord'[c].bits = reg'[w]
      BY <1>4, <2>9, WroteIs DEF a, w
    <3>2. w = r => reg'[r][0] = 1
      <4> SUFFICES ASSUME w = r PROVE reg'[r][0] = 1
        OBVIOUS
      <4>1. a.op = "put" /\ a.to = Field(0, 1)
        BY <1>0, <2>2, <3>1 DEF Lawful, w, a
      <4>2. DOMAIN Field(0, 1) = {0} /\ Field(0, 1)[0] = 1
        BY FieldIs
      <4>3. QED BY <3>1, <4>1, <4>2
    <3>3. a = Handler(v) => w = r
      BY AccessIs DEF Handler, w, a, r
    <3>4. CASE reg[r][0] # 0 \/ w = r
      BY <1>0, <3>1, <3>2, <3>4
    <3>5. CASE w # r /\ reg[r][0] = 0
      <4>1. a # Handler(v)
        BY <3>3, <3>5
      <4>2. /\ reg[e][v] # 1
            /\ \A d \in Contexts : HoldsCopy(d, e) => readWord[d].bits[v] # 1
            /\ \A d \in Contexts : After(todo[d], Enables(v), Handler(v))
        BY <1>10, <3>5
      <4>3. reg'[e][v] # 1
        <5>1. CASE w # e
          BY <1>0, <3>1, <4>2, <5>1
        <5>2. CASE w = e
          <6>1. v \notin DOMAIN a.to /\ a.op # "put"
            BY <1>0, <2>2, <2>5, <4>2, <5>2 DEF Lawful, w, a
          <6>2. QED BY <1>0, <3>1, <4>2, <5>2, <6>1
        <5>3. QED BY <5>1, <5>2
      <4>4. ASSUME NEW d \in Contexts, HoldsCopy(d, e)' PROVE readWord'[d].bits[v] # 1
        <5>1. CASE d # c
          BY <2>1, <4>2, <4>4, <5>1
        <5>2. CASE d = c
          <6>1. readWord'[c].word = e /\ todo'[c] # <<>> /\ HoldsCopy(c, e)
            BY <2>1, <3>1, <4>4, <5>2, HeldNext
          <6>2. CASE a.op = "put"
            BY <3>1, <4>2, <5>2, <6>1, <6>2
          <6>3. CASE a.op # "put"
            BY <3>1, <4>3, <5>2, <6>1, <6>3
          <6>4. QED BY <6>2, <6>3
        <5>3. QED BY <5>1, <5>2
      <4>5. QED BY <2>4, <4>1, <4>2, <4>3, <4>4
    <3>6. QED BY <3>4, <3>5
  <2>10. CASE Clears(c)
    <3>1. /\ a.op = "clear" /\ \A x \in Words[area] \ {StaWord("E")} : reg'[x] = reg[x]
      BY <1>4, <2>10, ClearedIs DEF a
    <3>2. StaWord("E").kind = "sta"
      BY Kinds
    <3>3. reg'[e] = reg[e] /\ reg'[r] = reg[r]
      BY <1>0, <3>1, <3>2
    <3>4. QED BY <1>10, <2>1, <2>4, <2>6, <3>1, <3>3
  <2>11. QED BY <1>4, <2>7, <2>8, <2>9, <2>10 DEF Access
<1>5. QED BY <1>1, <1>2, <1>3, <1>4, StepIs

-----------------------------------------------------------------------------
(* The console keeps its pins.                                             *)

LEMMA CfgField ==
  ASSUME NEW p \in Pins
  PROVE  CfgWord("E", p) \in Words["gpio"] /\ p \in Fields["gpio"][CfgWord("E", p)]
<1> DEFINE k == Call("set_function", p, SetFunction("E", p, 2))
           x == Wr(CfgWord("E", p), Field(p, 2))
<1>1. k \in Begun("gpio") /\ "gpio" \in Areas
  <2>1. k \in PinCalls("E", p)
    BY DEF PinCalls
  <2> HIDE DEF k
  <2>2. k \in GpioCalls("E", Pins)
    BY <2>1 DEF GpioCalls
  <2>3. CallsOf["gpio"] = GpioCalls("E", Pins)
    BY DEF CallsOf
  <2>4. QED BY <2>2, <2>3 DEF Begun, Areas
<1>2. x \in Made(k.does)
  <2>1. k.does = <<Rd(CfgWord("E", p)), x>>
    BY DEF Call, SetFunction, Modify
  <2> HIDE DEF x, k
  <2>2. 2 \in DOMAIN k.does /\ k.does[2] = x
    BY <2>1
  <2>3. QED BY <2>2 DEF Made
<1> HIDE DEF k
<1>3. x \in AccessesOf["gpio"]
  BY <1>1, <1>2, AccessParts
<1>4. x.word = CfgWord("E", p) /\ x.to = Field(p, 2)
  BY AccessIs
<1> HIDE DEF x
<1>5. x.word \in Words["gpio"] /\ DOMAIN x.to \subseteq Fields["gpio"][x.word]
  BY <1>1, <1>3, AreaWords
<1>6. DOMAIN Field(p, 2) = {p}
  BY FieldIs
<1>7. QED BY <1>4, <1>5, <1>6

\* Of all the calls, init_default is Boot's first alone.
LEMMA CallNames ==
  ASSUME NEW a \in Areas, NEW k \in CallsOf[a]
  PROVE  k.name # "init_default" /\ (k.name = "direction_output" => a = "gpio")
<1>1. CASE a = "gpio"
  <2>1. k \in GpioCalls("E", Pins)
    BY <1>1 DEF CallsOf
  <2>2. \A p : k \in PinCalls("E", p) => k.name # "init_default"
    BY DEF PinCalls, Call
  <2>3. k \in PortCalls("E") => k.name # "init_default"
    BY DEF PortCalls, Call
  <2>4. QED BY <1>1, <2>1, <2>2, <2>3 DEF GpioCalls
<1>2. CASE a = "gates"
  BY <1>2 DEF CallsOf, GateCalls, Call
<1>3. CASE a = "intc"
  BY <1>3 DEF CallsOf, IntcCalls, Call
<1>4. CASE a = "pwm"
  <2>1. k \in PwmCalls(Configs)
    BY <1>4 DEF CallsOf
  <2>2. \A ch : k \in ChannelCalls(ch, Configs) =>
                  k.name \in {"enable", "disable", "init", "configure"}
    BY DEF ChannelCalls, Call
  <2>3. QED BY <2>1, <2>2 DEF PwmCalls
<1>5. QED BY <1>1, <1>2, <1>3, <1>4 DEF Areas

\* An access of init_default.
Spares(a) ==
  /\ a.op \in {"rd", "wr"}
  /\ a.word = CfgWord("E", 7) => 7 \notin DOMAIN a.to
  /\ a.word = CfgWord("E", 8) => 8 \notin DOMAIN a.to

LEMMA BootSpares ==
  ASSUME NEW i \in DOMAIN InitDefault(Pins)
  PROVE  Spares(InitDefault(Pins)[i])
<1> DEFINE w == CfgWord("E", 7)
           x == CfgWord("E", 8)
           f == Disabled({p \in Pins : p < 7})
           g == Disabled({p \in Pins : p > 8})
           a == Rd(w)
           b == Wr(w, f)
           c == Rd(x)
           d == Wr(x, g)
<1>1. InitDefault(Pins) = <<a, b, c, d>>
  BY DEF InitDefault
<1>2. 7 \notin DOMAIN f /\ 8 \notin DOMAIN f /\ 7 \notin DOMAIN g /\ 8 \notin DOMAIN g
  <2>1. DOMAIN f = {p \in Pins : p < 7} /\ DOMAIN g = {p \in Pins : p > 8}
    BY DEF Disabled
  <2> HIDE DEF f, g
  <2>2. QED BY <2>1
<1> HIDE DEF f, g
<1>3. a.op = "rd" /\ DOMAIN a.to = {} /\ c.op = "rd" /\ DOMAIN c.to = {}
  BY AccessIs
<1>4. b.op = "wr" /\ b.to = f /\ d.op = "wr" /\ d.to = g
  BY AccessIs
<1> HIDE DEF a, b, c, d
<1>5. Spares(a) /\ Spares(b) /\ Spares(c) /\ Spares(d)
  BY <1>2, <1>3, <1>4 DEF Spares
<1>6. QED BY <1>1, <1>5

LEMMA CallIs ==
  ASSUME Shaped, NEW c \in Contexts, Access(c)
  PROVE  /\ \A d \in Contexts \ {c} : call'[d] = call[d]
         /\ call'[c] = call[c] \/ (call'[c] = None /\ todo'[c] = <<>>)
<1>1. call' = IF Len(todo[c]) = 1 THEN [call EXCEPT ![c] = None] ELSE call
  BY DEF Access, Reads, Looks, Writes, Clears, Advance
<1>2. /\ todo[c] \in Seq(AccessesOf[area]) /\ todo[c] # <<>> /\ DOMAIN todo = Contexts
      /\ DOMAIN call = Contexts
  BY DEF Shaped, Access, Idle
<1>3. todo'[c] = Tail(todo[c])
  BY <1>2, TakenIs
<1>4. Len(todo[c]) = 1 => todo'[c] = <<>>
  BY <1>2, <1>3, TailIs
<1>5. QED BY <1>1, <1>2, <1>4

\* init_default runs alone, and leaves PE7 and PE8 to its copies.
ConsoleSafe ==
  Booting =>
    /\ area = "gpio" /\ clash = {}
    /\ \A c \in Contexts \ {Boot} : todo[c] = <<>>
    /\ reg[CfgWord("E", 7)][7] = 5 /\ reg[CfgWord("E", 8)][8] = 5
    /\ \A i \in DOMAIN todo[Boot] : Spares(todo[Boot][i])

LEMMA ConsoleSafeKept ==
  ASSUME Shaped, CopiesTrue, ConsoleSafe, [RegStep]_regVars
  PROVE  ConsoleSafe'
<1>0. Boot \in Contexts /\ 7 \in Pins /\ 8 \in Pins
  BY RegistersAssumption DEF Contexts
<1>1. CASE UNCHANGED regVars
  BY <1>1 DEF ConsoleSafe, Booting, Idle, regVars
<1>2. ASSUME NEW c, NEW k, NEW s, Started(c, k, s) PROVE ConsoleSafe'
  <2>1. /\ c \in Contexts /\ k \in CallsOf[area] /\ area \in Areas
        /\ ~Booting /\ call'[c] = k
        /\ \A d \in Contexts \ {c} : todo'[d] = todo[d] /\ call'[d] = call[d]
    BY <1>2, StartedIs DEF Started
  <2>2. k.name # "init_default"
    BY <2>1, CallNames
  <2>3. ~Booting'
    BY <1>0, <2>1, <2>2 DEF Booting, Idle
  <2>4. QED BY <2>3 DEF ConsoleSafe
<1>3. CASE Edge
  <2>1. /\ UNCHANGED <<area, call, todo, readWord, got, asked, clash>> /\ area = "gpio"
        /\ \A w \in Words[area] \ {StaWord("E")} : reg'[w] = reg[w]
    BY <1>3, EdgeIs
  <2>2. /\ StaWord("E").kind = "sta" /\ CfgWord("E", 7).kind = "cfg"
        /\ CfgWord("E", 8).kind = "cfg"
    BY Kinds
  <2>3. CfgWord("E", 7) \in Words[area] /\ CfgWord("E", 8) \in Words[area]
    BY <1>0, <2>1, CfgField
  <2>4. reg'[CfgWord("E", 7)] = reg[CfgWord("E", 7)] /\ reg'[CfgWord("E", 8)] = reg[CfgWord("E", 8)]
    BY <2>1, <2>2, <2>3
  <2>5. QED BY <2>1, <2>4 DEF ConsoleSafe, Booting, Idle
<1>4. ASSUME NEW c \in Contexts, Access(c) PROVE ConsoleSafe'
  <2> SUFFICES ASSUME Booting'
               PROVE  /\ area' = "gpio" /\ clash' = {}
                      /\ \A d \in Contexts \ {Boot} : todo'[d] = <<>>
                      /\ reg'[CfgWord("E", 7)][7] = 5 /\ reg'[CfgWord("E", 8)][8] = 5
                      /\ \A i \in DOMAIN todo'[Boot] : Spares(todo'[Boot][i])
    BY DEF ConsoleSafe
  <2>1. /\ area' = area /\ todo[c] # <<>> /\ todo' = [todo EXCEPT ![c] = Tail(todo[c])]
        /\ todo[c] \in Seq(AccessesOf[area]) /\ DOMAIN todo = Contexts
    BY <1>4, TakenIs DEF Shaped
  <2>2. Booting
    <3>1. call'[Boot].name = "init_default" /\ todo'[Boot] # <<>>
      BY DEF Booting, Idle
    <3>2. call'[Boot] = call[Boot]
      BY <1>0, <1>4, <3>1, CallIs
    <3>3. todo[Boot] # <<>>
      BY <1>0, <2>1, <3>1
    <3>4. QED BY <3>1, <3>2, <3>3 DEF Booting, Idle
  <2>3. /\ area = "gpio" /\ clash = {}
        /\ \A d \in Contexts \ {Boot} : todo[d] = <<>>
        /\ reg[CfgWord("E", 7)][7] = 5 /\ reg[CfgWord("E", 8)][8] = 5
        /\ \A i \in DOMAIN todo[Boot] : Spares(todo[Boot][i])
    BY <2>2 DEF ConsoleSafe
  <2>4. c = Boot
    BY <2>1, <2>3
  <2>5. /\ \A d \in Contexts \ {Boot} : todo'[d] = <<>>
        /\ \A i \in DOMAIN todo'[Boot] : Spares(todo'[Boot][i])
    <3>1. /\ todo'[c] = Tail(todo[c]) /\ \A d \in Contexts \ {c} : todo'[d] = todo[d]
      BY <2>1
    <3>2. /\ DOMAIN Tail(todo[c]) = 1 .. Len(todo[c]) - 1 /\ DOMAIN todo[c] = 1 .. Len(todo[c])
          /\ Len(todo[c]) \in Nat
          /\ \A i \in 1 .. Len(todo[c]) - 1 : Tail(todo[c])[i] = todo[c][i + 1]
      BY <2>1, TailIs
    <3>3. ASSUME NEW i \in DOMAIN Tail(todo[c]) PROVE Spares(Tail(todo[c])[i])
      <4>1. Tail(todo[c])[i] = todo[c][i + 1] /\ i + 1 \in DOMAIN todo[c]
        BY <3>2
      <4>2. QED BY <2>3, <2>4, <4>1
    <3>4. QED BY <2>3, <2>4, <3>1, <3>3
  <2>6. Next(c) = todo[c][1] /\ 1 \in DOMAIN todo[c]
    BY <2>1, TailIs DEF Next
  <2>7. Spares(Next(c))
    BY <2>3, <2>4, <2>6
  <2>8. CASE Reads(c)
    BY <1>4, <2>1, <2>3, <2>5, <2>8, ReadIs
  <2>9. CASE Writes(c) /\ ~Skips(c)
    <3> DEFINE w == Next(c).word
    <3>1. /\ \A x \in Words[area] \ {w} : reg'[x] = reg[x]
          /\ Next(c).op # "put" =>
               /\ HoldsCopy(c, w)
               /\ \A f \in Fields[area][w] \ DOMAIN Next(c).to : reg'[w][f] = readWord[c].bits[f]
          /\ clash' = clash \/ (clash' = clash \cup {w} /\ \E d \in Contexts \ {c} : HoldsCopy(d, w))
          /\ w \in Words[area]
      BY <1>4, <2>9, WroteIs
    <3>2. clash' = {}
      <4>1. \A d \in Contexts \ {c} : ~HoldsCopy(d, w)
        BY <2>3, <2>4, PutOnly
      <4>2. QED BY <2>3, <3>1, <4>1
    <3> HIDE DEF w
    <3>3. ASSUME NEW p \in Pins, reg[CfgWord("E", p)][p] = 5,
                 w = CfgWord("E", p) => p \notin DOMAIN Next(c).to
          PROVE  reg'[CfgWord("E", p)][p] = 5
      <4>1. CfgWord("E", p) \in Words[area] /\ p \in Fields[area][CfgWord("E", p)]
        BY <2>3, CfgField
      <4>2. CASE w # CfgWord("E", p)
        BY <3>1, <3>3, <4>1, <4>2
      <4>3. CASE w = CfgWord("E", p)
        <5>1. w.kind = "cfg"
          BY <4>3, Kinds
        <5>2. HoldsCopy(c, w) /\ reg'[w][p] = readWord[c].bits[p]
          BY <2>7, <3>1, <3>3, <4>1, <4>3 DEF Spares
        <5>3. readWord[c].bits = reg[w]
          BY <2>3, <3>1, <5>1, <5>2 DEF CopiesTrue
        <5>4. QED BY <3>3, <4>3, <5>2, <5>3
      <4>4. QED BY <4>2, <4>3
    <3>4. reg'[CfgWord("E", 7)][7] = 5 /\ reg'[CfgWord("E", 8)][8] = 5
      BY <1>0, <2>3, <2>7, <3>3 DEF Spares, w
    <3>5. QED BY <2>1, <2>3, <2>5, <3>2, <3>4
  <2>10. CASE Looks(c) \/ (Writes(c) /\ Skips(c))
    BY <1>4, <2>7, <2>10, PassedIs DEF Spares
  <2>11. CASE Clears(c)
    BY <1>4, <2>7, <2>11, ClearedIs DEF Spares
  <2>12. QED BY <1>4, <2>8, <2>9, <2>10, <2>11 DEF Access
<1>5. QED BY <1>1, <1>2, <1>3, <1>4, StepIs

-----------------------------------------------------------------------------
(* RegistersKept.                                                          *)

LEMMA RegInitIs ==
  ASSUME RegInit
  PROVE  /\ area \in Areas /\ clash = {} /\ fresh = {} /\ asked = reg
         /\ \A w \in Words[area] : \A f \in Fields[area][w] : reg[w][f] = Reset(area, w, f)
         /\ \A c \in Contexts :
              /\ todo[c] = IF c = Boot /\ area = "gpio" THEN InitDefault(Pins) ELSE <<>>
              /\ call[c] = IF c = Boot /\ area = "gpio" THEN BootCall ELSE None
              /\ WellOrdered(todo[c]) /\ todo[c] \in Seq(AccessesOf[area])
              /\ \A w : ~HoldsCopy(c, w)
<1>1. /\ area \in Areas /\ clash = {} /\ fresh = {} /\ asked = reg
      /\ \A w \in Words[area] : \A f \in Fields[area][w] : reg[w][f] = Reset(area, w, f)
  BY DEF RegInit
<1>2. None.does = <<>> /\ BootCall.does = InitDefault(Pins)
  BY DEF None, BootCall, Call
<1>3. ASSUME NEW c \in Contexts
      PROVE  /\ todo[c] = IF c = Boot /\ area = "gpio" THEN InitDefault(Pins) ELSE <<>>
             /\ call[c] = IF c = Boot /\ area = "gpio" THEN BootCall ELSE None
             /\ WellOrdered(todo[c]) /\ todo[c] \in Seq(AccessesOf[area])
             /\ \A w : ~HoldsCopy(c, w)
  <2>1. /\ todo[c] = call[c].does
        /\ call[c] = IF c = Boot /\ area = "gpio" THEN BootCall ELSE None
    BY <1>3 DEF RegInit
  <2>2. todo[c] = IF c = Boot /\ area = "gpio" THEN InitDefault(Pins) ELSE <<>>
    BY <1>2, <2>1
  <2>3. area = "gpio" => InitDefault(Pins) \in Seq(AccessesOf[area])
    <3>1. BootCall \in Begun("gpio") /\ "gpio" \in Areas
      BY DEF Begun, Areas
    <3>2. BootCall.does \in Seq(AccessesOf["gpio"])
      BY <3>1, CallsAccess
    <3>3. QED BY <1>2, <3>2
  <2>4. WellOrdered(todo[c])
    BY <2>2, BootOrdered, EmptyOrdered
  <2>5. <<>> \in Seq(AccessesOf[area])
    OBVIOUS
  <2>6. todo[c] \in Seq(AccessesOf[area])
    BY <2>2, <2>3, <2>5
  <2>7. \A w : ~HoldsCopy(c, w)
    BY <2>4, <2>6, FormedFirst, HoldsIs DEF WellOrdered, Rereads
  <2>8. QED BY <2>1, <2>2, <2>4, <2>6, <2>7
<1>4. QED BY <1>1, <1>3

LEMMA KeptAtFirst ==
  ASSUME RegInit
  PROVE  Shaped /\ CopiesTrue /\ UpdatesSurvive /\ HandlersAhead /\ ConsoleSafe
<1>0. /\ area \in Areas /\ clash = {} /\ asked = reg
      /\ \A w \in Words[area] : \A f \in Fields[area][w] : reg[w][f] = Reset(area, w, f)
      /\ \A c \in Contexts :
           /\ todo[c] = IF c = Boot /\ area = "gpio" THEN InitDefault(Pins) ELSE <<>>
           /\ call[c] = IF c = Boot /\ area = "gpio" THEN BootCall ELSE None
           /\ WellOrdered(todo[c]) /\ todo[c] \in Seq(AccessesOf[area])
           /\ \A w : ~HoldsCopy(c, w)
  BY RegInitIs
<1>1. Shaped
  <2>1. /\ DOMAIN reg = Words[area] /\ \A w \in Words[area] : DOMAIN reg[w] = Fields[area][w]
        /\ DOMAIN todo = Contexts /\ DOMAIN call = Contexts /\ DOMAIN readWord = Contexts
    BY DEF RegInit
  <2>2. ASSUME NEW c \in Contexts
        PROVE  /\ readWord[c] = [word |-> readWord[c].word, bits |-> readWord[c].bits]
               /\ Formed(todo[c], readWord[c].word) /\ AckedOnce(todo[c])
    <3>1. readWord[c] = NoCopy
      BY DEF RegInit
    <3>2. readWord[c] = [word |-> readWord[c].word, bits |-> readWord[c].bits]
      BY <3>1 DEF NoCopy
    <3>3. Formed(todo[c], readWord[c].word) /\ AckedOnce(todo[c])
      BY <1>0, FormedFirst DEF WellOrdered, Rereads
    <3>4. QED BY <3>2, <3>3
  <2>3. QED BY <1>0, <2>1, <2>2 DEF Shaped
<1>2. CopiesTrue /\ UpdatesSurvive
  BY <1>0 DEF CopiesTrue, UpdatesSurvive
<1>3. HandlersAhead
  <2> SUFFICES ASSUME NEW v \in Vectors
               PROVE  \/ reg[IsrEntry(v)][0] # 0
                      \/ /\ reg[EnWord(v)][v] # 1
                         /\ \A c \in Contexts : HoldsCopy(c, EnWord(v)) => readWord[c].bits[v] # 1
                         /\ \A c \in Contexts : After(todo[c], Enables(v), Handler(v))
    BY DEF HandlersAhead
  <2>1. /\ reg[IsrEntry(v)][0] = Reset(area, IsrEntry(v), 0)
        /\ reg[EnWord(v)][v] = Reset(area, EnWord(v), v)
    BY <1>0, VectorFields
  <2>2. IsrEntry(v).kind = "isr" /\ EnWord(v).kind = "en"
    BY Kinds
  <2>3. CASE area = "intc"
    <3>1. Reset(area, EnWord(v), v) = 0
      BY <2>2, <2>3 DEF Reset
    <3>2. \A c \in Contexts : todo[c] = <<>>
      BY <1>0, <2>3
    <3>3. \A t : t = <<>> => After(t, Enables(v), Handler(v))
      BY DEF After
    <3>4. QED BY <1>0, <2>1, <3>1, <3>2, <3>3
  <2>4. CASE area # "intc"
    <3>1. Reset(area, IsrEntry(v), 0) = 1
      BY <2>2, <2>4 DEF Reset
    <3>2. QED BY <2>1, <3>1
  <2>5. QED BY <2>3, <2>4
<1>4. ConsoleSafe
  <2> SUFFICES ASSUME Booting
               PROVE  /\ area = "gpio" /\ clash = {}
                      /\ \A c \in Contexts \ {Boot} : todo[c] = <<>>
                      /\ reg[CfgWord("E", 7)][7] = 5 /\ reg[CfgWord("E", 8)][8] = 5
                      /\ \A i \in DOMAIN todo[Boot] : Spares(todo[Boot][i])
    BY DEF ConsoleSafe
  <2>0. Boot \in Contexts /\ 7 \in Pins /\ 8 \in Pins
    BY RegistersAssumption DEF Contexts
  <2>1. area = "gpio"
    BY <1>0, <2>0 DEF Booting, Idle
  <2>2. ASSUME NEW p \in {7, 8} PROVE reg[CfgWord("E", p)][p] = 5
    <3>1. reg[CfgWord("E", p)][p] = Reset(area, CfgWord("E", p), p)
      BY <1>0, <2>0, <2>1, CfgField
    <3>2. CfgWord("E", p).kind = "cfg"
      BY Kinds
    <3>3. QED BY <3>1, <3>2 DEF Reset
  <2>3. QED BY <1>0, <2>0, <2>1, <2>2, BootSpares
<1>5. QED BY <1>1, <1>2, <1>3, <1>4

\* The inductive invariant of what holds at every moment.
RegInv == Shaped /\ CopiesTrue /\ UpdatesSurvive /\ HandlersAhead /\ ConsoleSafe

LEMMA RegInvKept ==
  ASSUME RegInv, [RegStep]_regVars
  PROVE  RegInv'
BY ShapedKept, UpdatesKept, HandlersKept, ConsoleSafeKept DEF RegInv

LEMMA RegInvMeans == RegInv => RegistersKept
<1>1. ConsoleSafe => ConsoleKept
  BY DEF ConsoleSafe, ConsoleKept
<1>2. HandlersAhead => HandledIfEnabled
  BY DEF HandlersAhead, HandledIfEnabled
<1>3. QED BY <1>1, <1>2 DEF RegInv, RegistersKept

-----------------------------------------------------------------------------
(* An output does not glitch.                                              *)

\* The access with which a pin becomes an output.
Turn(p) == Wr(CfgWord("E", p), Field(p, OUTPUT))

LEMMA DirectionIs ==
  ASSUME NEW a \in Areas, NEW k \in CallsOf[a], k.name = "direction_output"
  PROVE  /\ a = "gpio" /\ k.of \in Pins /\ Len(k.does) = 4 /\ k.does[4] = Turn(k.of)
         /\ DataWord("E") \in Words[a]
<1>1. a = "gpio"
  BY CallNames
<1>2. k \in GpioCalls("E", Pins)
  BY <1>1 DEF CallsOf
<1>3. k \notin PortCalls("E")
  BY DEF PortCalls, Call
<1>4. PICK p \in Pins : k \in PinCalls("E", p)
  BY <1>2, <1>3 DEF GpioCalls
<1>5. PICK v : k = Call("direction_output", p, DirectionOutput("E", p, v))
  BY <1>4 DEF PinCalls, Call
<1> DEFINE x == Rd(DataWord("E"))
           y == Wr(DataWord("E"), Field(p, v))
           z == Rd(CfgWord("E", p))
<1>6. k.of = p /\ k.does = <<x, y>> \o <<z, Turn(p)>>
  BY <1>5 DEF Call, DirectionOutput, SetValue, SetFunction, Modify, Turn
<1>7. x.word = DataWord("E")
  BY AccessIs
<1> HIDE DEF x, y, z
<1> DEFINE q == Turn(p)
<1> HIDE DEF q
<1>8. k.does = <<x, y, z, q>>
  <2>1. <<x, y, z, q>> = <<x, y>> \o <<z, q>>
    BY FourIs
  <2>2. k.does = <<x, y>> \o <<z, q>>
    BY <1>6 DEF q
  <2>3. QED BY <2>1, <2>2
<1>9. Len(k.does) = 4 /\ k.does[4] = Turn(p) /\ 1 \in DOMAIN k.does /\ k.does[1] = x
  BY <1>8 DEF q
<1>10. x \in AccessesOf[a]
  <2>1. x \in Made(k.does)
    BY <1>9 DEF Made
  <2>2. k \in Begun(a)
    BY DEF Begun
  <2>3. QED BY <2>1, <2>2, AccessParts
<1>11. DataWord("E") \in Words[a]
  BY <1>7, <1>10, AreaWords
<1>12. QED BY <1>1, <1>6, <1>9, <1>11

\* A pin becomes an output, and the words of its function are left alone from there.
LastTurn(s, p) ==
  \E i \in DOMAIN s : s[i] = Turn(p) /\ \A m \in i + 1 .. Len(s) : s[m].word.kind # "cfg"

\* direction_output ends with it, or, when a handler calls it, has done it already.
Directing ==
  \A c \in Contexts : call[c].name = "direction_output" /\ todo[c] # <<>> =>
    /\ area = "gpio" /\ call[c].of \in Pins /\ DataWord("E") \in Words[area]
    /\ c # Isr => todo[c][Len(todo[c])] = Turn(call[c].of)
    /\ c = Isr => \/ LastTurn(todo[c], call[c].of)
                  \/ /\ reg[CfgWord("E", call[c].of)][call[c].of] = OUTPUT
                     /\ \A i \in DOMAIN todo[c] : todo[c][i].word.kind # "cfg"

LEMMA TurnInHandler ==
  ASSUME NEW v, NEW t, NEW S, t \in Seq(S), NEW p, Len(t) = 4, t[4] = Turn(p)
  PROVE  LastTurn(Dispatch(v, t), p)
<1> DEFINE s == Dispatch(v, t)
           x == Rd(PendWord(v))
           y == Wr(PendWord(v), Field(v, 0))
<1>1. /\ DOMAIN s = 1 .. Len(t) + 3 /\ Len(s) = Len(t) + 3
      /\ \A i \in 1 .. Len(t) : s[1 + i] = t[i]
      /\ s[Len(t) + 2] = x /\ s[Len(t) + 3] = y
  <2>1. DOMAIN s = 1 .. Len(t) + 3
    BY DispatchIs
  <2>2. Len(s) = Len(t) + 3
    BY DispatchIs
  <2>3. \A i \in 1 .. Len(t) : s[1 + i] = t[i]
    <3>1. ASSUME NEW i \in 1 .. Len(t) PROVE s[1 + i] = t[i]
      BY DispatchIs, ZenonT(60)
    <3>2. QED BY <3>1
  <2>4. s[Len(t) + 2] = x
    BY DispatchIs
  <2>5. s[Len(t) + 3] = y
    BY DispatchIs
  <2>6. QED BY <2>1, <2>2, <2>3, <2>4, <2>5
<1>2. x.word.kind = "pend" /\ y.word.kind = "pend"
  BY AccessIs, Kinds
<1> HIDE DEF s, x, y
<1>3. /\ DOMAIN s = 1 .. 7 /\ Len(s) = 7 /\ s[1 + 4] = Turn(p) /\ s[6] = x /\ s[7] = y
  BY <1>1
<1>4. \A m \in 5 + 1 .. Len(s) : s[m].word.kind # "cfg"
  BY <1>2, <1>3
<1>5. s[5] = Turn(p) /\ 5 \in DOMAIN s
  BY <1>3
<1>6. LastTurn(s, p)
  BY <1>4, <1>5 DEF LastTurn
<1>7. QED BY <1>6 DEF s

LEMMA TurnTail ==
  ASSUME NEW S, NEW s \in Seq(S), s # <<>>, NEW p, LastTurn(s, p)
  PROVE  \/ Head(s) = Turn(p) /\ \A i \in DOMAIN Tail(s) : Tail(s)[i].word.kind # "cfg"
         \/ Tail(s) # <<>> /\ LastTurn(Tail(s), p)
<1> DEFINE t == Tail(s)
           n == Len(s)
<1>1. /\ Head(s) = s[1] /\ n \in Nat /\ n >= 1 /\ DOMAIN s = 1 .. n /\ DOMAIN t = 1 .. n - 1
      /\ Len(t) = n - 1 /\ (n = 1 <=> t = <<>>)
      /\ \A i \in 1 .. n - 1 : t[i] = s[i + 1]
  BY TailIs
<1>2. PICK i \in DOMAIN s : s[i] = Turn(p) /\ \A m \in i + 1 .. n : s[m].word.kind # "cfg"
  BY DEF LastTurn
<1> HIDE DEF t, n
<1>3. CASE i = 1
  <2>1. ASSUME NEW j \in DOMAIN t PROVE t[j].word.kind # "cfg"
    <3>1. t[j] = s[j + 1] /\ j + 1 \in i + 1 .. n
      BY <1>1, <1>3
    <3>2. QED BY <1>2, <3>1
  <2>2. QED BY <1>1, <1>2, <1>3, <2>1 DEF t
<1>4. CASE i # 1
  <2>1. i - 1 \in DOMAIN t /\ t[i - 1] = s[i]
    <3>1. i - 1 \in 1 .. n - 1 /\ (i - 1) + 1 = i
      BY <1>1, <1>2, <1>4
    <3>2. QED BY <1>1, <3>1
  <2>2. ASSUME NEW m \in (i - 1) + 1 .. Len(t) PROVE t[m].word.kind # "cfg"
    <3>1. m \in 1 .. n - 1 /\ m + 1 \in i + 1 .. n
      BY <1>1, <1>2
    <3>2. QED BY <1>1, <1>2, <3>1
  <2>3. LastTurn(t, p)
    BY <1>2, <2>1, <2>2 DEF LastTurn
  <2>4. t # <<>>
    BY <1>1, <1>2, <1>4
  <2>5. QED BY <2>3, <2>4 DEF t
<1>5. QED BY <1>3, <1>4

\* Turning the pin makes it an output.
LEMMA TurnedIs ==
  ASSUME Shaped, NEW c \in Contexts, Access(c), NEW p \in Pins, area = "gpio", Next(c) = Turn(p)
  PROVE  reg'[CfgWord("E", p)][p] = OUTPUT
<1>1. Next(c).op = "wr" /\ Next(c).word = CfgWord("E", p) /\ Next(c).to = Field(p, OUTPUT)
  BY AccessIs DEF Turn
<1>2. Writes(c) /\ ~Skips(c)
  BY <1>1 DEF Access, Reads, Looks, Clears, Skips
<1>3. /\ \A f \in DOMAIN Next(c).to : reg'[CfgWord("E", p)][f] = Given(c)[f]
      /\ Given(c) = Next(c).to
  BY <1>1, <1>2, WroteIs
<1>4. DOMAIN Field(p, OUTPUT) = {p} /\ Field(p, OUTPUT)[p] = OUTPUT
  BY FieldIs
<1>5. QED BY <1>1, <1>3, <1>4

\* An access to another word leaves a function word alone.
LEMMA CfgStays ==
  ASSUME Shaped, NEW c \in Contexts, Access(c), NEW p \in Pins, area = "gpio",
         Next(c).word.kind # "cfg"
  PROVE  reg'[CfgWord("E", p)] = reg[CfgWord("E", p)]
<1>1. CfgWord("E", p) \in Words[area] /\ CfgWord("E", p) # Next(c).word
  BY CfgField, Kinds
<1>2. CASE Reads(c)
  BY <1>2, ReadIs
<1>3. CASE Looks(c) \/ (Writes(c) /\ Skips(c))
  BY <1>3, PassedIs
<1>4. CASE Writes(c) /\ ~Skips(c)
  BY <1>1, <1>4, WroteIs
<1>5. CASE Clears(c)
  BY <1>1, <1>5, ClearedIs
<1>6. QED BY <1>2, <1>3, <1>4, <1>5 DEF Access

LEMMA DirectingKept ==
  ASSUME Shaped, Directing, [RegStep]_regVars
  PROVE  Directing'
<1>1. CASE UNCHANGED regVars
  BY <1>1 DEF Directing, regVars
<1>2. ASSUME NEW c, NEW k, NEW s, Started(c, k, s) PROVE Directing'
  <2>1. /\ c \in Contexts /\ k \in CallsOf[area] /\ k \in Begun(area) /\ area \in Areas
        /\ \/ c \in Callers /\ s = k.does
           \/ c = Isr /\ \E v \in Vectors : s = Dispatch(v, k.does)
        /\ todo'[c] = s /\ call'[c] = k
        /\ \A d \in Contexts \ {c} : todo'[d] = todo[d] /\ call'[d] = call[d]
        /\ UNCHANGED <<area, reg, readWord, got, asked, clash, fresh>>
    BY <1>2, StartedIs DEF Started
  <2>2. ASSUME k.name = "direction_output"
        PROVE  /\ area = "gpio" /\ k.of \in Pins /\ DataWord("E") \in Words[area]
               /\ c # Isr => s[Len(s)] = Turn(k.of)
               /\ c = Isr => LastTurn(s, k.of)
    <3>1. /\ area = "gpio" /\ k.of \in Pins /\ Len(k.does) = 4 /\ k.does[4] = Turn(k.of)
          /\ DataWord("E") \in Words[area]
      BY <2>1, <2>2, DirectionIs
    <3>2. c # Isr => s[Len(s)] = Turn(k.of)
      BY <2>1, <3>1
    <3>3. c = Isr => LastTurn(s, k.of)
      <4> SUFFICES ASSUME c = Isr PROVE LastTurn(s, k.of)
        OBVIOUS
      <4>1. PICK v \in Vectors : s = Dispatch(v, k.does)
        BY <2>1, RegistersAssumption
      <4>2. PICK S : k.does \in Seq(S)
        BY <2>1, CallsAccess
      <4>3. LastTurn(Dispatch(v, k.does), k.of)
        BY <3>1, <4>2, TurnInHandler
      <4>4. QED BY <4>1, <4>3
    <3>4. QED BY <3>1, <3>2, <3>3
  <2>3. QED BY <2>1, <2>2 DEF Directing
<1>3. CASE Edge
  <2>1. /\ UNCHANGED <<area, call, todo>> /\ \A w \in Words[area] \ {StaWord("E")} : reg'[w] = reg[w]
    BY <1>3, EdgeIs
  <2>2. ASSUME area = "gpio", NEW p \in Pins
        PROVE  reg'[CfgWord("E", p)] = reg[CfgWord("E", p)]
    <3>1. StaWord("E").kind = "sta" /\ CfgWord("E", p).kind = "cfg"
      BY Kinds
    <3>2. QED BY <2>1, <2>2, <3>1, CfgField
  <2>3. QED BY <2>1, <2>2 DEF Directing
<1>4. ASSUME NEW c \in Contexts, Access(c) PROVE Directing'
  <2>1. /\ area' = area /\ todo[c] # <<>> /\ todo' = [todo EXCEPT ![c] = Tail(todo[c])]
        /\ todo[c] \in Seq(AccessesOf[area]) /\ DOMAIN todo = Contexts
    BY <1>4, TakenIs DEF Shaped
  <2>2. todo'[c] = Tail(todo[c]) /\ \A d \in Contexts \ {c} : todo'[d] = todo[d]
    BY <2>1
  <2>3. /\ \A d \in Contexts \ {c} : call'[d] = call[d]
        /\ call'[c] = call[c] \/ (call'[c] = None /\ todo'[c] = <<>>)
    BY <1>4, CallIs
  <2>4. c # Isr => todo[Isr] = <<>>
    BY <1>4 DEF Access, Runs, Idle
  <2> SUFFICES ASSUME NEW d \in Contexts, call'[d].name = "direction_output", todo'[d] # <<>>
               PROVE  /\ area = "gpio" /\ call'[d].of \in Pins /\ DataWord("E") \in Words[area]
                      /\ d # Isr => todo'[d][Len(todo'[d])] = Turn(call'[d].of)
                      /\ d = Isr => \/ LastTurn(todo'[d], call'[d].of)
                                    \/ /\ reg'[CfgWord("E", call'[d].of)][call'[d].of] = OUTPUT
                                       /\ \A i \in DOMAIN todo'[d] : todo'[d][i].word.kind # "cfg"
    BY <2>1 DEF Directing
  <2>5. CASE d # c
    <3>1. d # Isr
      BY <2>2, <2>4, <2>5
    <3>2. QED BY <2>2, <2>3, <2>5, <3>1 DEF Directing
  <2>6. CASE d = c
    <3> DEFINE p == call[c].of
               s == todo[c]
    <3>1. /\ call'[c] = call[c] /\ area = "gpio" /\ p \in Pins /\ DataWord("E") \in Words[area]
          /\ c # Isr => s[Len(s)] = Turn(p)
          /\ c = Isr => \/ LastTurn(s, p)
                        \/ /\ reg[CfgWord("E", p)][p] = OUTPUT
                           /\ \A i \in DOMAIN s : s[i].word.kind # "cfg"
      BY <2>1, <2>3, <2>6 DEF Directing
    <3>2. /\ Head(s) = s[1] /\ Len(s) \in Nat /\ DOMAIN s = 1 .. Len(s) /\ Len(s) >= 1
          /\ Len(Tail(s)) = Len(s) - 1 /\ DOMAIN Tail(s) = 1 .. Len(s) - 1
          /\ (Len(s) = 1 <=> Tail(s) = <<>>)
          /\ \A i \in 1 .. Len(s) - 1 : Tail(s)[i] = s[i + 1]
      BY <2>1, TailIs
    <3>3. Tail(s) # <<>> /\ Len(s) - 1 \in 1 .. Len(s) - 1
      <4>1. Tail(s) # <<>>
        BY <2>2, <2>6
      <4> DEFINE n == Len(s)
      <4>2. n # 1 /\ n \in Nat /\ n >= 1
        BY <3>2, <4>1
      <4> HIDE DEF n
      <4>3. n - 1 \in 1 .. n - 1
        BY <4>2
      <4>4. QED BY <4>1, <4>3 DEF n
    <3>4. c # Isr => Tail(s)[Len(Tail(s))] = Turn(p)
      <4>1. Tail(s)[Len(s) - 1] = s[Len(s)]
        <5>1. (Len(s) - 1) + 1 = Len(s)
          BY <3>2
        <5>2. QED BY <3>2, <3>3, <5>1
      <4>2. QED BY <3>1, <3>2, <4>1
    <3>5. ASSUME c = Isr, LastTurn(s, p)
          PROVE  \/ LastTurn(Tail(s), p)
                 \/ /\ reg'[CfgWord("E", p)][p] = OUTPUT
                    /\ \A i \in DOMAIN Tail(s) : Tail(s)[i].word.kind # "cfg"
      <4>1. \/ Head(s) = Turn(p) /\ \A i \in DOMAIN Tail(s) : Tail(s)[i].word.kind # "cfg"
            \/ LastTurn(Tail(s), p)
        BY <2>1, <3>5, TurnTail
      <4>2. Head(s) = Turn(p) => reg'[CfgWord("E", p)][p] = OUTPUT
        BY <1>4, <3>1, TurnedIs DEF Next
      <4>3. QED BY <4>1, <4>2
    <3>6. ASSUME c = Isr, reg[CfgWord("E", p)][p] = OUTPUT,
                 \A i \in DOMAIN s : s[i].word.kind # "cfg"
          PROVE  /\ reg'[CfgWord("E", p)][p] = OUTPUT
                 /\ \A i \in DOMAIN Tail(s) : Tail(s)[i].word.kind # "cfg"
      <4>1. Next(c).word.kind # "cfg"
        BY <3>2, <3>6 DEF Next
      <4>2. reg'[CfgWord("E", p)][p] = OUTPUT
        BY <1>4, <3>1, <3>6, <4>1, CfgStays
      <4>3. ASSUME NEW i \in DOMAIN Tail(s) PROVE Tail(s)[i].word.kind # "cfg"
        <5>1. Tail(s)[i] = s[i + 1] /\ i + 1 \in DOMAIN s
          BY <3>2
        <5>2. QED BY <3>6, <5>1
      <4>4. QED BY <4>2, <4>3
    <3> HIDE DEF s
    <3>7. QED BY <2>2, <2>6, <3>1, <3>4, <3>5, <3>6 DEF s
  <2>7. QED BY <2>5, <2>6
<1>5. QED BY <1>1, <1>2, <1>3, <1>4, StepIs

\* The step of NoGlitch.
LEMMA NoGlitchStep ==
  ASSUME Shaped, UpdatesSurvive, Directing, [RegStep]_regVars, NEW c \in Contexts,
         call[c].name = "direction_output", todo'[c] = <<>>, todo[c] # <<>>,
         DataWord("E") \notin clash
  PROVE  /\ reg[DataWord("E")][call[c].of] = asked[DataWord("E")][call[c].of]
         /\ reg'[CfgWord("E", call[c].of)][call[c].of] = OUTPUT
<1> DEFINE p == call[c].of
           s == todo[c]
<1>1. /\ area = "gpio" /\ p \in Pins /\ DataWord("E") \in Words[area]
      /\ c # Isr => s[Len(s)] = Turn(p)
      /\ c = Isr => \/ LastTurn(s, p)
                    \/ /\ reg[CfgWord("E", p)][p] = OUTPUT
                       /\ \A i \in DOMAIN s : s[i].word.kind # "cfg"
  BY DEF Directing
<1>2. reg[DataWord("E")][p] = asked[DataWord("E")][p]
  <2>1. DataWord("E").kind = "data" /\ DataWord("E") \in DOMAIN reg
    BY <1>1, Kinds DEF Shaped
  <2>2. QED BY <2>1 DEF UpdatesSurvive
<1>3. Access(c)
  <2>1. ASSUME NEW d, NEW k, NEW t, Started(d, k, t) PROVE FALSE
    <3>1. d \in Contexts /\ todo[d] = <<>> /\ \A e \in Contexts \ {d} : todo'[e] = todo[e]
      BY <2>1, StartedIs DEF Started
    <3>2. QED BY <3>1
  <2>2. ~Edge
    BY EdgeIs
  <2>3. ASSUME NEW d \in Contexts, Access(d) PROVE d = c
    <3>1. todo' = [todo EXCEPT ![d] = Tail(todo[d])] /\ DOMAIN todo = Contexts
      BY <2>3, TakenIs DEF Shaped
    <3>2. QED BY <3>1
  <2>4. RegStep
    BY DEF regVars
  <2>5. QED BY <2>1, <2>2, <2>3, <2>4, StepIs
<1>4. /\ s \in Seq(AccessesOf[area]) /\ DOMAIN todo = Contexts
      /\ todo' = [todo EXCEPT ![c] = Tail(s)]
  BY <1>3, TakenIs DEF Shaped
<1>5. /\ Head(s) = s[1] /\ Len(s) \in Nat /\ DOMAIN s = 1 .. Len(s) /\ Len(s) = 1
  BY <1>4, TailIs
<1>6. CASE Head(s) = Turn(p)
  <2>1. Next(c) = Turn(p)
    BY <1>6 DEF Next
  <2>2. QED BY <1>1, <1>2, <1>3, <2>1, TurnedIs
<1>7. CASE Head(s) # Turn(p)
  <2>1. c = Isr /\ ~LastTurn(s, p)
    BY <1>1, <1>5, <1>7 DEF LastTurn
  <2>2. Next(c).word.kind # "cfg" /\ reg[CfgWord("E", p)][p] = OUTPUT
    BY <1>1, <1>5, <2>1 DEF Next
  <2>3. QED BY <1>1, <1>2, <1>3, <2>2, CfgStays
<1>8. QED BY <1>6, <1>7

-----------------------------------------------------------------------------
(* The accesses that some calls make.                                      *)

LEMMA MadeJoined ==
  ASSUME NEW s, NEW t, NEW S, NEW T, s \in Seq(S), t \in Seq(T)
  PROVE  Made(s \o t) = Made(s) \cup Made(t)
<1> DEFINE u == s \o t
           n == Len(s)
           k == Len(t)
<1>1. /\ n \in Nat /\ k \in Nat /\ DOMAIN s = 1 .. n /\ DOMAIN t = 1 .. k /\ DOMAIN u = 1 .. n + k
      /\ \A i \in 1 .. n : u[i] = s[i]
      /\ \A i \in 1 .. k : u[n + i] = t[i]
  BY Joined
<1> HIDE DEF u, n, k
<1>2. ASSUME NEW x \in Made(u) PROVE x \in Made(s) \cup Made(t)
  <2>1. PICK i \in DOMAIN u : x = u[i]
    BY <1>2 DEF Made
  <2>2. CASE i \in 1 .. n
    BY <1>1, <2>1, <2>2 DEF Made
  <2>3. CASE i \notin 1 .. n
    <3>1. i - n \in 1 .. k /\ n + (i - n) = i
      BY <1>1, <2>1, <2>3
    <3>2. x = t[i - n]
      BY <1>1, <2>1, <3>1
    <3>3. QED BY <1>1, <3>1, <3>2 DEF Made
  <2>4. QED BY <2>2, <2>3
<1>3. ASSUME NEW x \in Made(s) PROVE x \in Made(u)
  <2>1. PICK i \in 1 .. n : x = s[i]
    BY <1>1 DEF Made
  <2>2. i \in 1 .. n + k
    BY <1>1
  <2>3. QED BY <1>1, <2>1, <2>2 DEF Made
<1>4. ASSUME NEW x \in Made(t) PROVE x \in Made(u)
  <2>1. PICK i \in 1 .. k : x = t[i]
    BY <1>1 DEF Made
  <2>2. n + i \in 1 .. n + k
    BY <1>1
  <2>3. QED BY <1>1, <2>1, <2>2 DEF Made
<1>5. QED BY <1>2, <1>3, <1>4 DEF u

LEMMA ModifyMakes ==
  ASSUME NEW w, NEW f, NEW v
  PROVE  /\ Modify(w, f, v) \in Seq({Rd(w), Wr(w, Field(f, v))})
         /\ Made(Modify(w, f, v)) = {Rd(w), Wr(w, Field(f, v))}
<1> DEFINE x == Rd(w)
           y == Wr(w, Field(f, v))
           s == <<x, y>>
<1>1. Modify(w, f, v) = s
  BY DEF Modify
<1> HIDE DEF x, y
<1>2. s \in Seq({x, y}) /\ DOMAIN s = {1, 2} /\ s[1] = x /\ s[2] = y
  OBVIOUS
<1> HIDE DEF s
<1>3. Made(s) = {x, y}
  BY <1>2 DEF Made
<1>4. QED BY <1>1, <1>2, <1>3 DEF x, y

\* The accesses of a handler are its own and those of the dispatch around it.
LEMMA DispatchMakes ==
  ASSUME NEW v, NEW s, NEW S, s \in Seq(S)
  PROVE  Made(Dispatch(v, s)) \subseteq
           {Look(IsrEntry(v), Field(0, 0)), Rd(PendWord(v)), Wr(PendWord(v), Field(v, 0))}
           \cup Made(s)
<1> DEFINE d == Dispatch(v, s)
           D == {Look(IsrEntry(v), Field(0, 0)), Rd(PendWord(v)), Wr(PendWord(v), Field(v, 0))}
<1>1. s \in Seq(Made(s))
  BY IsASeq, LenProperties DEF Made
<1>2. d \in Seq(D \cup Made(s))
  BY <1>1, DispatchIs
<1> HIDE DEF d, D
<1>3. \A i \in DOMAIN d : d[i] \in D \cup Made(s)
  BY <1>2, ElementOfSeq, LenProperties
<1>4. Made(d) \subseteq D \cup Made(s)
  BY <1>3 DEF Made
<1>5. QED BY <1>4 DEF d, D

-----------------------------------------------------------------------------
(* A reset is released onto a running clock.                               *)

LEMMA ClockFields ==
  /\ GateWord(Uart2) \in Words["gates"] /\ 22 \in Fields["gates"][GateWord(Uart2)]
  /\ ResetWord(Uart2) \in Words["gates"] /\ 22 \in Fields["gates"][ResetWord(Uart2)]
  /\ Uart2[2] = 22
<1> DEFINE x == Wr(GateWord(Uart2), Field(22, 1))
           y == Wr(ResetWord(Uart2), Field(22, 1))
           k == Call("bus_clk_init", 22, BusClkInit(Uart2))
           r == BusGateEnable(Uart2)
           s == SwResetAssert(Uart2)
           t == SwResetDeassert(Uart2)
<1>1. Uart2[2] = 22
  BY DEF Uart2
<1>2. k \in Begun("gates") /\ "gates" \in Areas /\ k.does = r \o (s \o t)
  BY <1>1 DEF Begun, CallsOf, GateCalls, Areas, Call, BusClkInit, SwResetPeripheral
<1>3. /\ \E S : r \in Seq(S) /\ s \in Seq(S) /\ t \in Seq(S)
      /\ x \in Made(r) /\ y \in Made(t)
  <2>1. /\ r = Modify(GateWord(Uart2), 22, 1) /\ s = Modify(ResetWord(Uart2), 22, 0)
        /\ t = Modify(ResetWord(Uart2), 22, 1)
    BY <1>1 DEF BusGateEnable, SwResetAssert, SwResetDeassert
  <2> HIDE DEF r, s, t
  <2>2. PICK R, S, T : r \in Seq(R) /\ s \in Seq(S) /\ t \in Seq(T)
    BY <2>1, ModifyMakes, ZenonT(60)
  <2>3. r \in Seq(R \cup S \cup T) /\ s \in Seq(R \cup S \cup T) /\ t \in Seq(R \cup S \cup T)
    BY <2>2
  <2>4. x \in Made(r)
    <3>1. Made(Modify(GateWord(Uart2), 22, 1)) = {Rd(GateWord(Uart2)), x}
      BY ModifyMakes
    <3>2. QED BY <2>1, <3>1
  <2>5. y \in Made(t)
    <3>1. Made(Modify(ResetWord(Uart2), 22, 1)) = {Rd(ResetWord(Uart2)), y}
      BY ModifyMakes
    <3>2. QED BY <2>1, <3>1
  <2> HIDE DEF x, y
  <2>6. QED BY <2>3, <2>4, <2>5
<1> HIDE DEF k, r, s, t, x, y
<1>4. x \in Made(k.does) /\ y \in Made(k.does)
  <2>1. PICK S : r \in Seq(S) /\ s \in Seq(S) /\ t \in Seq(S)
    BY <1>3
  <2> DEFINE q == s \o t
  <2>2. q \in Seq(S) /\ Made(q) = Made(s) \cup Made(t)
    BY <2>1, MadeJoined, ConcatProperties
  <2> HIDE DEF q
  <2>3. Made(r \o q) = Made(r) \cup Made(q)
    BY <2>1, <2>2, MadeJoined
  <2>4. QED BY <1>2, <1>3, <2>2, <2>3 DEF q
<1>5. x \in AccessesOf["gates"] /\ y \in AccessesOf["gates"]
  BY <1>2, <1>4, AccessParts
<1>6. /\ x.word = GateWord(Uart2) /\ x.to = Field(22, 1)
      /\ y.word = ResetWord(Uart2) /\ y.to = Field(22, 1)
  BY AccessIs DEF x, y
<1>7. /\ x.word \in Words["gates"] /\ DOMAIN x.to \subseteq Fields["gates"][x.word]
      /\ y.word \in Words["gates"] /\ DOMAIN y.to \subseteq Fields["gates"][y.word]
  BY <1>2, <1>5, AreaWords
<1>8. DOMAIN Field(22, 1) = {22}
  BY FieldIs
<1>9. QED BY <1>1, <1>6, <1>7, <1>8

Releases == {x \in AccessesOf[area] : x.word = ResetWord(Uart2) /\ 22 \in DOMAIN x.to /\ x.to[22] = 1}
Clocking == Wr(GateWord(Uart2), Field(22, 1))

\* A peripheral whose clock does not run is released nowhere: not in the register,
\* not in a copy of it, and not by what a call has still to do, short of its clock.
ClockAhead ==
  area = "gates" =>
    \/ GateWord(Uart2) \in clash
    \/ reg[GateWord(Uart2)][22] = 1
    \/ /\ reg[ResetWord(Uart2)][22] # 1
       /\ \A c \in Contexts : HoldsCopy(c, ResetWord(Uart2)) => readWord[c].bits[22] # 1
       /\ \A c \in Contexts : After(todo[c], Releases, Clocking)

LEMMA ClockAheadKept ==
  ASSUME Shaped, CopiesTrue, ClockAhead, [RegStep]_regVars
  PROVE  ClockAhead'
<1> DEFINE g == GateWord(Uart2)
           r == ResetWord(Uart2)
<1>0. area' = area
  BY StepIs, StartedIs, EdgeIs, TakenIs DEF regVars
<1>11. Releases' = Releases
  BY <1>0 DEF Releases
<1> SUFFICES ASSUME area = "gates"
             PROVE  \/ g \in clash'
                    \/ reg'[g][22] = 1
                    \/ /\ reg'[r][22] # 1
                       /\ \A c \in Contexts : HoldsCopy(c, r)' => readWord'[c].bits[22] # 1
                       /\ \A c \in Contexts : After(todo'[c], Releases, Clocking)
  BY <1>0, <1>11 DEF ClockAhead, After, Clocking
<1>9. /\ r \in Words[area] /\ 22 \in Fields[area][r] /\ g \in Words[area] /\ 22 \in Fields[area][g]
      /\ g.kind = "gate" /\ r.kind = "reset" /\ StaWord("E").kind = "sta"
  BY ClockFields, Kinds
<1>10. \/ g \in clash
       \/ reg[g][22] = 1
       \/ /\ reg[r][22] # 1
          /\ \A c \in Contexts : HoldsCopy(c, r) => readWord[c].bits[22] # 1
          /\ \A c \in Contexts : After(todo[c], Releases, Clocking)
  BY DEF ClockAhead
<1> HIDE DEF g, r
<1>1. CASE UNCHANGED regVars
  BY <1>1, <1>10 DEF regVars, HoldsCopy
<1>2. ASSUME NEW c, NEW k, NEW s, Started(c, k, s)
      PROVE  \/ g \in clash'
             \/ reg'[g][22] = 1
             \/ /\ reg'[r][22] # 1
                /\ \A d \in Contexts : HoldsCopy(d, r)' => readWord'[d].bits[22] # 1
                /\ \A d \in Contexts : After(todo'[d], Releases, Clocking)
  <2>1. /\ c \in Contexts /\ UNCHANGED <<area, reg, readWord, got, asked, clash, fresh>>
        /\ todo'[c] = s /\ WellOrdered(s)
        /\ \A d \in Contexts \ {c} : todo'[d] = todo[d]
        /\ \A w : ~HoldsCopy(c, w)'
        /\ \A d \in Contexts \ {c} : \A w : HoldsCopy(d, w)' <=> HoldsCopy(d, w)
    BY <1>2, StartedIs
  <2>2. After(s, Releases, Clocking)
    BY <2>1 DEF WellOrdered, ClockFirst, After, Releases, Clocking
  <2>3. QED BY <1>10, <2>1, <2>2
<1>3. CASE Edge
  BY <1>3, EdgeIs
<1>4. ASSUME NEW c \in Contexts, Access(c)
      PROVE  \/ g \in clash'
             \/ reg'[g][22] = 1
             \/ /\ reg'[r][22] # 1
                /\ \A d \in Contexts : HoldsCopy(d, r)' => readWord'[d].bits[22] # 1
                /\ \A d \in Contexts : After(todo'[d], Releases, Clocking)
  <2> DEFINE a == Next(c)
             w == Next(c).word
  <2>1. /\ area' = area /\ todo[c] # <<>> /\ todo' = [todo EXCEPT ![c] = Tail(todo[c])]
        /\ clash \subseteq clash'
        /\ \A d \in Contexts \ {c} :
             readWord'[d] = readWord[d] /\ \A x : HoldsCopy(d, x)' <=> HoldsCopy(d, x)
        /\ \A x : HoldsCopy(c, x)' => /\ \/ a.op = "rd" /\ x = w
                                         \/ a.op # "rd" /\ HoldsCopy(c, x)
                                      /\ a.op # "clear"
    BY <1>4, TakenIs
  <2>2. /\ a \in AccessesOf[area] /\ Lawful(a) /\ todo[c] \in Seq(AccessesOf[area])
        /\ DOMAIN todo = Contexts
    BY <1>4, NextIs DEF Access, Shaped
  <2>3. todo'[c] = Tail(todo[c]) /\ \A d \in Contexts \ {c} : todo'[d] = todo[d]
    BY <2>1, <2>2
  <2>4. ASSUME \A d \in Contexts : After(todo[d], Releases, Clocking), a # Clocking
        PROVE  \A d \in Contexts : After(todo'[d], Releases, Clocking)
    <3>1. After(Tail(todo[c]), Releases, Clocking)
      BY <2>1, <2>2, <2>4, AfterTail DEF Next
    <3>2. QED BY <2>1, <2>3, <2>4, <3>1
  <2>5. ASSUME \A d \in Contexts : After(todo[d], Releases, Clocking)
        PROVE  ~(w = r /\ 22 \in DOMAIN a.to /\ a.to[22] = 1)
    <3>1. a \notin Releases
      BY <2>1, <2>2, <2>5, AfterTail DEF Next
    <3>2. QED BY <2>2, <3>1 DEF Releases, r
  <2>6. Clocking.op = "wr" /\ Clocking.word = g /\ Clocking.to = Field(22, 1)
    BY AccessIs DEF Clocking, g
  <2> HIDE DEF a, w
  <2>7. CASE Reads(c)
    <3>1. /\ UNCHANGED <<reg, asked, clash>> /\ a.op = "rd"
          /\ readWord'[c].word = w /\ readWord'[c].bits = reg[w]
      BY <1>4, <2>7, ReadIs DEF a, w
    <3>2. QED BY <1>10, <2>1, <2>4, <2>6, <3>1
  <2>8. CASE Looks(c) \/ (Writes(c) /\ Skips(c))
    <3>1. a.op \in {"look", "unless"} /\ UNCHANGED <<reg, readWord, asked, clash, fresh>>
      BY <1>4, <2>8, PassedIs DEF a
    <3>2. QED BY <1>10, <2>1, <2>4, <2>6, <3>1
  <2>9. CASE Writes(c) /\ ~Skips(c)
    <3>1. /\ a.op \in {"wr", "put", "flip", "unless"}
          /\ \A x \in Words[area] \ {w} : reg'[x] = reg[x]
          /\ \A f \in DOMAIN a.to : reg'[w][f] = Given(c)[f]
          /\ a.op # "flip" => Given(c) = a.to
          /\ a.op # "put" =>
               /\ HoldsCopy(c, w)
               /\ \A f \in Fields[area][w] \ DOMAIN a.to : reg'[w][f] = readWord[c].bits[f]
          /\ \/ todo'[c] = <<>>
             \/ a.op = "put" /\ readWord'[c] = readWord[c]
             \/ a.op # "put" /\ readWord'[c].word = w /\ readWord'[c].bits = reg'[w]
      BY <1>4, <2>9, WroteIs DEF a, w
    <3>2. w \in {g, r} => a.op # "put" /\ a.op # "flip"
      BY <1>9, <2>2 DEF Lawful, w, a
    <3>3. w = g /\ 22 \in DOMAIN a.to => reg'[g][22] = 1
      <4>1. w = g /\ 22 \in DOMAIN a.to => a.to[22] = 1
        BY <2>2 DEF Lawful, w, a, g
      <4>2. QED BY <3>1, <3>2, <4>1
    <3>4. CASE g \in clash
      BY <2>1, <3>4
    <3>5. CASE g \notin clash /\ reg[g][22] = 1
      <4>1. CASE w # g
        BY <1>9, <3>1, <3>5, <4>1
      <4>2. CASE w = g /\ 22 \notin DOMAIN a.to
        <5>1. HoldsCopy(c, g) /\ reg'[g][22] = readWord[c].bits[22]
          BY <1>9, <3>1, <3>2, <4>2
        <5>2. readWord[c].bits = reg[g]
          BY <1>9, <3>5, <5>1 DEF CopiesTrue
        <5>3. QED BY <3>5, <5>1, <5>2
      <4>3. QED BY <3>3, <4>1, <4>2
    <3>6. CASE /\ reg[g][22] # 1 /\ reg[r][22] # 1
               /\ \A d \in Contexts : HoldsCopy(d, r) => readWord[d].bits[22] # 1
               /\ \A d \in Contexts : After(todo[d], Releases, Clocking)
      <4>1. CASE w = g /\ 22 \in DOMAIN a.to
        BY <3>3, <4>1
      <4>2. CASE ~(w = g /\ 22 \in DOMAIN a.to)
        <5>1. a # Clocking
          <6>1. DOMAIN Field(22, 1) = {22}
            BY FieldIs
          <6>2. QED BY <2>6, <4>2, <6>1 DEF w, a
        <5>2. reg'[r][22] # 1
          <6>1. CASE w # r
            BY <1>9, <3>1, <3>6, <6>1
          <6>2. CASE w = r /\ 22 \in DOMAIN a.to
            <7>1. a.to[22] # 1
              BY <2>5, <3>6, <6>2
            <7>2. QED BY <3>1, <3>2, <6>2, <7>1
          <6>3. CASE w = r /\ 22 \notin DOMAIN a.to
            BY <1>9, <3>1, <3>2, <3>6, <6>3
          <6>4. QED BY <6>1, <6>2, <6>3
        <5>3. ASSUME NEW d \in Contexts, HoldsCopy(d, r)' PROVE readWord'[d].bits[22] # 1
          <6>1. CASE d # c
            BY <2>1, <3>6, <5>3, <6>1
          <6>2. CASE d = c
            <7>1. readWord'[c].word = r /\ todo'[c] # <<>> /\ HoldsCopy(c, r)
              BY <2>1, <3>1, <5>3, <6>2, HeldNext
            <7>2. CASE a.op = "put"
              BY <3>1, <3>6, <6>2, <7>1, <7>2
            <7>3. CASE a.op # "put"
              BY <3>1, <5>2, <6>2, <7>1, <7>3
            <7>4. QED BY <7>2, <7>3
          <6>3. QED BY <6>1, <6>2
        <5>4. QED BY <2>4, <3>6, <5>1, <5>2, <5>3
      <4>3. QED BY <4>1, <4>2
    <3>7. QED BY <1>10, <3>4, <3>5, <3>6
  <2>10. CASE Clears(c)
    <3>1. /\ a.op = "clear" /\ \A x \in Words[area] \ {StaWord("E")} : reg'[x] = reg[x]
      BY <1>4, <2>10, ClearedIs DEF a
    <3>2. reg'[g] = reg[g] /\ reg'[r] = reg[r]
      BY <1>9, <3>1
    <3>3. QED BY <1>10, <2>1, <2>4, <2>6, <3>1, <3>2
  <2>11. QED BY <1>4, <2>7, <2>8, <2>9, <2>10 DEF Access
<1>5. QED BY <1>1, <1>2, <1>3, <1>4, StepIs

\* The step of ResetWhileClocked.
LEMMA ResetStep ==
  ASSUME Shaped, ClockAhead, [RegStep]_regVars, area = "gates", GateWord(Uart2) \notin clash,
         reg[ResetWord(Uart2)][22] = 0, reg'[ResetWord(Uart2)][22] = 1
  PROVE  reg[GateWord(Uart2)][22] = 1
<1> DEFINE g == GateWord(Uart2)
           r == ResetWord(Uart2)
<1>1. /\ r \in Words[area] /\ 22 \in Fields[area][r]
      /\ r.kind = "reset" /\ StaWord("E").kind = "sta"
  BY ClockFields, Kinds
<1> SUFFICES ASSUME /\ reg[r][22] # 1
                    /\ \A c \in Contexts : HoldsCopy(c, r) => readWord[c].bits[22] # 1
                    /\ \A c \in Contexts : After(todo[c], Releases, Clocking)
             PROVE  FALSE
  BY DEF ClockAhead
<1> HIDE DEF g, r
<1>2. reg' # reg
  BY DEF r
<1>3. ASSUME NEW c \in Contexts, Access(c), Writes(c), ~Skips(c), Next(c).word = r PROVE FALSE
  <2> DEFINE a == Next(c)
  <2>1. /\ a \in AccessesOf[area] /\ Lawful(a) /\ todo[c] \in Seq(AccessesOf[area]) /\ todo[c] # <<>>
    BY <1>3, NextIs DEF Access, Shaped, Idle
  <2>2. a \notin Releases
    BY <2>1, AfterTail DEF Next
  <2>3. ~(22 \in DOMAIN a.to /\ a.to[22] = 1)
    BY <1>3, <2>1, <2>2 DEF Releases, r
  <2>4. a.op # "put" /\ a.op # "flip"
    BY <1>1, <1>3, <2>1 DEF Lawful, a
  <2>5. /\ \A f \in DOMAIN a.to : reg'[r][f] = Given(c)[f]
        /\ a.op # "flip" => Given(c) = a.to
        /\ a.op # "put" =>
             /\ HoldsCopy(c, r)
             /\ \A f \in Fields[area][r] \ DOMAIN a.to : reg'[r][f] = readWord[c].bits[f]
    BY <1>3, WroteIs
  <2>6. reg'[r][22] = 1
    BY DEF r
  <2> HIDE DEF a
  <2>7. QED BY <1>1, <2>3, <2>4, <2>5, <2>6
<1>4. ASSUME NEW c \in Contexts, Access(c) PROVE reg'[r] = reg[r]
  <2>1. CASE Reads(c)
    BY <1>4, <2>1, ReadIs
  <2>2. CASE Looks(c) \/ (Writes(c) /\ Skips(c))
    BY <1>4, <2>2, PassedIs
  <2>3. CASE Writes(c) /\ ~Skips(c)
    <3>1. Next(c).word # r
      BY <1>3, <1>4, <2>3
    <3>2. QED BY <1>1, <1>4, <2>3, <3>1, WroteIs
  <2>4. CASE Clears(c)
    BY <1>1, <1>4, <2>4, ClearedIs
  <2>5. QED BY <1>4, <2>1, <2>2, <2>3, <2>4 DEF Access
<1>5. \A c, k, s : Started(c, k, s) => reg' = reg
  BY StartedIs
<1>6. ~Edge
  BY EdgeIs
<1>7. RegStep
  BY <1>2 DEF regVars
<1>8. reg'[r] # reg[r]
  BY DEF r
<1>9. QED BY <1>4, <1>5, <1>6, <1>7, <1>8, StepIs

-----------------------------------------------------------------------------
(* An edge that nobody has seen is not cleared.                            *)

\* What acknowledges, acknowledges pin p.
Acks(s, p) == \A x \in Made(s) : x.op = "clear" => x.to = Field(p, 1)

LEMMA PlainAcks ==
  ASSUME NEW p
  PROVE  /\ \A w, f, v : Acks(Modify(w, f, v), p)
         /\ \A S, T : \A s \in Seq(S), t \in Seq(T) :
              Acks(s, p) /\ Acks(t, p) => Acks(s \o t, p)
<1>1. ASSUME NEW w, NEW f, NEW v PROVE Acks(Modify(w, f, v), p)
  <2>1. Made(Modify(w, f, v)) = {Rd(w), Wr(w, Field(f, v))}
    BY ModifyMakes
  <2>2. Rd(w).op = "rd" /\ Wr(w, Field(f, v)).op = "wr"
    BY AccessIs
  <2>3. QED BY <2>1, <2>2 DEF Acks
<1>2. ASSUME NEW S, NEW T, NEW s \in Seq(S), NEW t \in Seq(T), Acks(s, p), Acks(t, p)
      PROVE  Acks(s \o t, p)
  <2>1. Made(s \o t) = Made(s) \cup Made(t)
    BY MadeJoined
  <2>2. QED BY <1>2, <2>1 DEF Acks
<1>3. QED BY <1>1, <1>2

LEMMA AckMakes ==
  ASSUME NEW p
  PROVE  Acks(IrqAck("E", p), p) /\ \E S : IrqAck("E", p) \in Seq(S)
<1> DEFINE x == Rd(StaWord("E"))
           y == Clear(StaWord("E"), Field(p, 1))
           s == <<x, y>>
<1>1. IrqAck("E", p) = s
  BY DEF IrqAck
<1>2. x.op = "rd" /\ y.op = "clear" /\ y.to = Field(p, 1)
  BY AccessIs
<1> HIDE DEF x, y
<1>3. s \in Seq({x, y}) /\ DOMAIN s = {1, 2} /\ s[1] = x /\ s[2] = y
  OBVIOUS
<1> HIDE DEF s
<1>4. Made(s) = {x, y}
  BY <1>3 DEF Made
<1>5. Acks(s, p)
  BY <1>2, <1>4 DEF Acks
<1>6. QED BY <1>1, <1>3, <1>5

LEMMA ToggleAcks ==
  ASSUME NEW p
  PROVE  Acks(Toggle("E", p), p)
<1> DEFINE x == Look(DataWord("E"), Field(p, 0))
           y == Rd(DataWord("E"))
           z == Flip(DataWord("E"), Field(p, 0))
           s == <<x, y, z>>
<1>1. Toggle("E", p) = s
  BY DEF Toggle
<1>2. x.op = "look" /\ y.op = "rd" /\ z.op = "flip"
  BY AccessIs
<1> HIDE DEF x, y, z
<1>3. DOMAIN s = {1, 2, 3} /\ s[1] = x /\ s[2] = y /\ s[3] = z
  OBVIOUS
<1> HIDE DEF s
<1>4. Made(s) = {x, y, z}
  BY <1>3 DEF Made
<1>5. Acks(s, p)
  BY <1>2, <1>4 DEF Acks
<1>6. QED BY <1>1, <1>5

LEMMA CallsAck ==
  ASSUME NEW k \in CallsOf["gpio"]
  PROVE  Acks(k.does, k.of)
<1>1. k \in GpioCalls("E", Pins)
  BY DEF CallsOf
<1>2. CASE k \in PortCalls("E")
  <2>1. k.does = SelectIrqClock("E", 1) \/ k.does = SetDebounce("E", 3)
    BY <1>2 DEF PortCalls, Call
  <2>2. QED BY <2>1, PlainAcks DEF SelectIrqClock, SetDebounce
<1>3. ASSUME NEW p \in Pins, k \in PinCalls("E", p)
      PROVE  Acks(k.does, k.of)
  <2>1. k.of = p
    BY <1>3 DEF PinCalls, Call
  <2>2. \/ \E w, f, v : k.does = Modify(w, f, v)
        \/ k.does = Toggle("E", p)
        \/ k.does = IrqAck("E", p)
        \/ k.does = IrqDisable("E", p)
        \/ \E v : k.does = DirectionOutput("E", p, v)
    BY <1>3 DEF PinCalls, Call, DirectionInput, SetFunction, SetPullMode, SetDriveLevel,
                SetIrqType, IrqEnable
  <2>3. \A w, f, v : \E S : Modify(w, f, v) \in Seq(S)
    BY ModifyMakes
  <2>4. ASSUME NEW v PROVE Acks(DirectionOutput("E", p, v), p)
    BY <2>3, PlainAcks DEF DirectionOutput, SetValue, SetFunction
  <2>5. Acks(IrqDisable("E", p), p)
    BY <2>3, AckMakes, PlainAcks DEF IrqDisable
  <2>6. QED BY <2>1, <2>2, <2>4, <2>5, AckMakes, ToggleAcks, PlainAcks
<1>4. QED BY <1>1, <1>2, <1>3 DEF GpioCalls

LEMMA BootAcks == Acks(InitDefault(Pins), 0)
<1> DEFINE s == InitDefault(Pins)
<1>1. \A i \in DOMAIN s : s[i].op # "clear"
  BY BootSpares DEF Spares
<1> HIDE DEF s
<1>2. Acks(s, 0)
  BY <1>1 DEF Acks, Made
<1>3. QED BY <1>2 DEF s

LEMMA DispatchAcks ==
  ASSUME NEW v, NEW s, NEW S, s \in Seq(S), NEW p, Acks(s, p)
  PROVE  Acks(Dispatch(v, s), p)
<1> DEFINE x == Look(IsrEntry(v), Field(0, 0))
           y == Rd(PendWord(v))
           z == Wr(PendWord(v), Field(v, 0))
<1>1. Made(Dispatch(v, s)) \subseteq {x, y, z} \cup Made(s)
  BY DispatchMakes
<1>2. x.op = "look" /\ y.op = "rd" /\ z.op = "wr"
  BY AccessIs
<1> HIDE DEF x, y, z
<1>3. QED BY <1>1, <1>2 DEF Acks

\* A bit that is set in a copy of the status is set in it, and had been seen.
Seen ==
  /\ area # "gpio" => fresh = {}
  /\ StaWord("E") \in Words[area] \ clash =>
       \A c \in Contexts : HoldsCopy(c, StaWord("E")) =>
         \A f \in DOMAIN reg[StaWord("E")] : readWord[c].bits[f] = 1 =>
           f \notin fresh /\ reg[StaWord("E")][f] = 1
  /\ area = "gpio" => \A c \in Contexts : Acks(todo[c], call[c].of)

LEMMA SeenKept ==
  ASSUME Shaped, Seen, [RegStep]_regVars
  PROVE  Seen'
<1> DEFINE sta == StaWord("E")
<1>0. area' = area
  BY StepIs, StartedIs, EdgeIs, TakenIs DEF regVars
<1>1. /\ area # "gpio" => fresh = {}
      /\ sta \in Words[area] \ clash =>
           \A c \in Contexts : HoldsCopy(c, sta) =>
             \A f \in DOMAIN reg[sta] : readWord[c].bits[f] = 1 => f \notin fresh /\ reg[sta][f] = 1
      /\ area = "gpio" => \A c \in Contexts : Acks(todo[c], call[c].of)
      /\ sta.kind = "sta"
  BY Kinds DEF Seen
<1> HIDE DEF sta
<1> SUFFICES /\ area # "gpio" => fresh' = {}
             /\ sta \in Words[area] \ clash' =>
                  \A c \in Contexts : HoldsCopy(c, sta)' =>
                    \A f \in DOMAIN reg'[sta] : readWord'[c].bits[f] = 1 =>
                      f \notin fresh' /\ reg'[sta][f] = 1
             /\ area = "gpio" => \A c \in Contexts : Acks(todo'[c], call'[c].of)
  BY <1>0 DEF Seen, Acks, sta
<1>2. CASE UNCHANGED regVars
  BY <1>1, <1>2 DEF regVars, HoldsCopy
<1>3. ASSUME NEW c, NEW k, NEW s, Started(c, k, s)
      PROVE  /\ area # "gpio" => fresh' = {}
             /\ sta \in Words[area] \ clash' =>
                  \A d \in Contexts : HoldsCopy(d, sta)' =>
                    \A f \in DOMAIN reg'[sta] : readWord'[d].bits[f] = 1 =>
                      f \notin fresh' /\ reg'[sta][f] = 1
             /\ area = "gpio" => \A d \in Contexts : Acks(todo'[d], call'[d].of)
  <2>1. /\ c \in Contexts /\ UNCHANGED <<area, reg, readWord, got, asked, clash, fresh>>
        /\ todo'[c] = s /\ call'[c] = k /\ k \in CallsOf[area] /\ k \in Begun(area) /\ area \in Areas
        /\ \/ s = k.does
           \/ \E v \in Vectors : s = Dispatch(v, k.does)
        /\ \A d \in Contexts \ {c} : todo'[d] = todo[d] /\ call'[d] = call[d]
        /\ \A w : ~HoldsCopy(c, w)'
        /\ \A d \in Contexts \ {c} : \A w : HoldsCopy(d, w)' <=> HoldsCopy(d, w)
    BY <1>3, StartedIs DEF Started
  <2>2. area = "gpio" => Acks(s, k.of)
    <3> SUFFICES ASSUME area = "gpio" PROVE Acks(s, k.of)
      OBVIOUS
    <3>1. Acks(k.does, k.of) /\ k.does \in Seq(AccessesOf[area])
      BY <2>1, CallsAck, CallsAccess
    <3>2. \A v : Acks(Dispatch(v, k.does), k.of)
      BY <3>1, DispatchAcks
    <3>3. QED BY <2>1, <3>1, <3>2
  <2>3. QED BY <1>1, <2>1, <2>2
<1>4. CASE Edge
  <2>1. /\ area = "gpio" /\ UNCHANGED <<area, call, todo, readWord, got, asked, clash>>
        /\ \A w \in Words[area] : DOMAIN reg'[w] = DOMAIN reg[w]
    BY <1>4, EdgeIs
  <2>2. PICK p \in Pins :
          /\ \A f \in DOMAIN reg[sta] : sta \in Words[area] =>
               reg'[sta][f] = IF f = p THEN 1 ELSE reg[sta][f]
          /\ fresh' = IF reg[sta][p] = 0 THEN fresh \cup {p} ELSE fresh
    BY <1>4, EdgeIs DEF sta
  <2>3. \A d, w : HoldsCopy(d, w)' <=> HoldsCopy(d, w)
    BY <2>1 DEF HoldsCopy
  <2>4. ASSUME sta \in Words[area] \ clash', NEW d \in Contexts, HoldsCopy(d, sta)',
               NEW f \in DOMAIN reg'[sta], readWord'[d].bits[f] = 1
        PROVE  f \notin fresh' /\ reg'[sta][f] = 1
    <3>1. f \in DOMAIN reg[sta] /\ f \notin fresh /\ reg[sta][f] = 1
      BY <1>1, <2>1, <2>3, <2>4
    <3>2. QED BY <2>2, <2>4, <3>1
  <2>5. QED BY <1>1, <2>1, <2>4
<1>5. ASSUME NEW c \in Contexts, Access(c)
      PROVE  /\ area # "gpio" => fresh' = {}
             /\ sta \in Words[area] \ clash' =>
                  \A d \in Contexts : HoldsCopy(d, sta)' =>
                    \A f \in DOMAIN reg'[sta] : readWord'[d].bits[f] = 1 =>
                      f \notin fresh' /\ reg'[sta][f] = 1
             /\ area = "gpio" => \A d \in Contexts : Acks(todo'[d], call'[d].of)
  <2> DEFINE a == Next(c)
             w == Next(c).word
  <2>1. /\ todo[c] # <<>> /\ todo' = [todo EXCEPT ![c] = Tail(todo[c])]
        /\ clash \subseteq clash'
        /\ \A d \in Contexts \ {c} :
             readWord'[d] = readWord[d] /\ \A x : HoldsCopy(d, x)' <=> HoldsCopy(d, x)
        /\ \A x : HoldsCopy(c, x)' => /\ \/ a.op = "rd" /\ x = w
                                         \/ a.op # "rd" /\ HoldsCopy(c, x)
                                      /\ a.op # "clear"
    BY <1>5, TakenIs
  <2>2. /\ a \in AccessesOf[area] /\ Lawful(a) /\ todo[c] \in Seq(AccessesOf[area])
        /\ DOMAIN todo = Contexts /\ DOMAIN reg = Words[area]
    BY <1>5, NextIs DEF Access, Shaped
  <2>3. todo'[c] = Tail(todo[c]) /\ \A d \in Contexts \ {c} : todo'[d] = todo[d]
    BY <2>1, <2>2
  <2>4. /\ \A d \in Contexts \ {c} : call'[d] = call[d]
        /\ call'[c] = call[c] \/ (call'[c] = None /\ todo'[c] = <<>>)
    BY <1>5, CallIs
  <2>5. area = "gpio" => \A d \in Contexts : Acks(todo'[d], call'[d].of)
    <3> SUFFICES ASSUME area = "gpio", NEW d \in Contexts PROVE Acks(todo'[d], call'[d].of)
      OBVIOUS
    <3>1. CASE d # c
      BY <1>1, <2>3, <2>4, <3>1
    <3>2. CASE d = c /\ todo'[c] = <<>>
      <4>1. \A t : t = <<>> => DOMAIN t = {}
        OBVIOUS
      <4>2. QED BY <3>2, <4>1 DEF Acks, Made
    <3>3. CASE d = c /\ todo'[c] # <<>>
      <4> DEFINE s == todo[c]
                 t == Tail(s)
                 n == Len(s)
      <4>1. /\ n \in Nat /\ DOMAIN s = 1 .. n /\ DOMAIN t = 1 .. n - 1
            /\ \A i \in 1 .. n - 1 : t[i] = s[i + 1]
        BY <2>1, <2>2, TailIs
      <4>2. todo'[c] = t
        BY <2>3
      <4> HIDE DEF s, t, n
      <4>3. Made(t) \subseteq Made(s)
        <5>1. ASSUME NEW i \in 1 .. n - 1 PROVE t[i] \in Made(s)
          <6>1. i + 1 \in 1 .. n
            BY <4>1
          <6>2. QED BY <4>1, <6>1 DEF Made
        <5>2. QED BY <4>1, <5>1 DEF Made
      <4>4. Acks(s, call[c].of)
        BY <1>1 DEF s
      <4>5. QED BY <2>4, <3>3, <4>2, <4>3, <4>4 DEF Acks
    <3>4. QED BY <3>1, <3>2, <3>3
  <2> HIDE DEF a, w
  <2>6. CASE Reads(c)
    <3>1. /\ UNCHANGED <<reg, asked, clash>> /\ a.op = "rd"
          /\ readWord'[c].word = w /\ readWord'[c].bits = reg[w]
          /\ fresh' = IF w.kind = "sta" THEN {} ELSE fresh
      BY <1>5, <2>6, ReadIs DEF a, w
    <3>2. ASSUME sta \in Words[area] \ clash', NEW d \in Contexts, HoldsCopy(d, sta)',
                 NEW f \in DOMAIN reg'[sta], readWord'[d].bits[f] = 1
          PROVE  f \notin fresh' /\ reg'[sta][f] = 1
      <4>1. CASE d # c
        BY <1>1, <2>1, <3>1, <3>2, <4>1
      <4>2. CASE d = c
        BY <1>1, <2>1, <3>1, <3>2, <4>2
      <4>3. QED BY <4>1, <4>2
    <3>3. QED BY <1>1, <2>5, <3>1, <3>2
  <2>7. CASE Looks(c) \/ (Writes(c) /\ Skips(c))
    <3>1. a.op \in {"look", "unless"} /\ UNCHANGED <<reg, readWord, asked, clash, fresh>>
      BY <1>5, <2>7, PassedIs DEF a
    <3>2. \A d \in Contexts : HoldsCopy(d, sta)' => HoldsCopy(d, sta)
      BY <2>1, <3>1
    <3>3. QED BY <1>1, <2>5, <3>1, <3>2
  <2>8. CASE Writes(c) /\ ~Skips(c)
    <3>1. /\ a.op \in {"wr", "put", "flip", "unless"} /\ fresh' = fresh
          /\ \A x \in Words[area] \ {w} : reg'[x] = reg[x]
          /\ \/ todo'[c] = <<>>
             \/ a.op = "put" /\ readWord'[c] = readWord[c]
             \/ a.op # "put" /\ readWord'[c].word = w /\ readWord'[c].bits = reg'[w]
      BY <1>5, <2>8, WroteIs DEF a, w
    <3>2. w # sta
      BY <1>1, <2>2, <3>1 DEF Lawful, w, a
    <3>3. ASSUME sta \in Words[area] \ clash', NEW d \in Contexts, HoldsCopy(d, sta)',
                 NEW f \in DOMAIN reg'[sta], readWord'[d].bits[f] = 1
          PROVE  f \notin fresh' /\ reg'[sta][f] = 1
      <4>1. reg'[sta] = reg[sta] /\ sta \notin clash
        BY <2>1, <3>1, <3>2, <3>3
      <4>2. CASE d # c
        BY <1>1, <2>1, <3>1, <3>3, <4>1, <4>2
      <4>3. CASE d = c
        <5>1. readWord'[c].word = sta /\ todo'[c] # <<>> /\ HoldsCopy(c, sta)
          BY <2>1, <3>1, <3>3, <4>3, HeldNext
        <5>2. readWord'[c] = readWord[c]
          BY <3>1, <3>2, <5>1
        <5>3. QED BY <1>1, <3>1, <3>3, <4>1, <4>3, <5>1, <5>2
      <4>4. QED BY <4>2, <4>3
    <3>4. QED BY <1>1, <2>5, <3>1, <3>3
  <2>9. CASE Clears(c)
    <3>1. /\ a.op = "clear" /\ \E D : fresh' = fresh \ D
          /\ \A d \in Contexts \ {c} : HoldsCopy(d, sta) => sta \in clash'
      BY <1>5, <2>9, ClearedIs DEF a, sta
    <3>2. \A d \in Contexts : HoldsCopy(d, sta)' => sta \in clash'
      BY <2>1, <3>1
    <3>3. QED BY <1>1, <2>5, <3>1, <3>2
  <2>10. QED BY <1>5, <2>6, <2>7, <2>8, <2>9 DEF Access
<1>6. QED BY <1>2, <1>3, <1>4, <1>5, StepIs

\* The step of UnseenEdgesKept.
LEMMA UnseenStep ==
  ASSUME Shaped, Seen, [RegStep]_regVars, StaWord("E") \notin clash, NEW p \in fresh \ fresh'
  PROVE  \E c \in Contexts :
           /\ todo'[c] # todo[c] /\ ~Idle(c)
           /\ Next(c).op = "rd" \/ (Next(c).op = "clear" /\ call[c].of = p)
<1>1. area = "gpio" /\ fresh' # fresh
  BY DEF Seen
<1>2. ASSUME NEW c \in Contexts, Access(c)
      PROVE  /\ todo'[c] # todo[c] /\ ~Idle(c)
             /\ Next(c).op = "rd" \/ (Next(c).op = "clear" /\ call[c].of = p)
  <2>1. /\ todo[c] # <<>> /\ todo' = [todo EXCEPT ![c] = Tail(todo[c])] /\ ~Idle(c)
        /\ todo[c] \in Seq(AccessesOf[area]) /\ DOMAIN todo = Contexts
    BY <1>2, TakenIs DEF Shaped, Access
  <2>2. todo'[c] # todo[c]
    BY <2>1, TailIs
  <2>3. CASE Reads(c)
    BY <1>2, <2>1, <2>2, <2>3, ReadIs
  <2>4. CASE Looks(c) \/ (Writes(c) /\ Skips(c))
    BY <1>1, <1>2, <2>4, PassedIs
  <2>5. CASE Writes(c) /\ ~Skips(c)
    BY <1>1, <1>2, <2>5, WroteIs
  <2>6. CASE Clears(c)
    <3>1. /\ Next(c).op = "clear" /\ Next(c).word = StaWord("E") /\ StaWord("E") \in Words[area]
          /\ fresh' = fresh \ (DOMAIN Next(c).to
                               \cup {f \in DOMAIN reg[StaWord("E")] : readWord[c].bits[f] = 1})
      BY <1>2, <2>6, ClearedIs
    <3>2. HoldsCopy(c, StaWord("E"))
      BY <2>1, <3>1, NextIs DEF WritesBack
    <3>3. p \in DOMAIN Next(c).to
      BY <3>1, <3>2 DEF Seen
    <3>4. Next(c).to = Field(call[c].of, 1)
      <4>1. Next(c) \in Made(todo[c])
        <5>1. Next(c) = todo[c][1] /\ 1 \in DOMAIN todo[c]
          BY <2>1, TailIs DEF Next
        <5>2. QED BY <5>1 DEF Made
      <4>2. QED BY <1>1, <3>1, <4>1 DEF Seen, Acks
    <3>5. DOMAIN Field(call[c].of, 1) = {call[c].of}
      BY FieldIs
    <3>6. QED BY <2>1, <2>2, <3>1, <3>3, <3>4, <3>5
  <2>7. QED BY <1>2, <2>3, <2>4, <2>5, <2>6 DEF Access
<1>3. \A c, k, s : Started(c, k, s) => fresh' = fresh
  BY StartedIs
<1>4. ~Edge
  <2>1. Edge => fresh \subseteq fresh'
    BY EdgeIs
  <2>2. QED BY <2>1
<1>5. RegStep
  BY <1>1 DEF regVars
<1>6. QED BY <1>1, <1>2, <1>3, <1>4, <1>5, StepIs

-----------------------------------------------------------------------------
(* A running prescaler is not changed.                                     *)

\* The write that gates a channel's clock, unless its prescaler is v already.
Gates(ch, v) == WrUnless(PwmCtrl, Prescal(ch), v, Field(Gating(ch), 0))

\* It is still to come before access i, with nothing between but the period.
GatesAhead(s, i, ch, v) ==
  \E j \in 1 .. i - 1 : s[j] = Gates(ch, v) /\ \A m \in j + 1 .. i - 1 : s[m].op = "put"

LEMMA GatesTail ==
  ASSUME NEW S, NEW s \in Seq(S), s # <<>>, NEW i \in DOMAIN Tail(s), NEW ch, NEW v,
         GatesAhead(s, i + 1, ch, v)
  PROVE  \/ GatesAhead(Tail(s), i, ch, v)
         \/ Head(s) = Gates(ch, v) /\ \A m \in 1 .. i - 1 : Tail(s)[m].op = "put"
<1> DEFINE t == Tail(s)
           n == Len(s)
           b == Gates(ch, v)
<1>1. /\ Head(s) = s[1] /\ n \in Nat /\ n >= 1 /\ DOMAIN s = 1 .. n /\ DOMAIN t = 1 .. n - 1
      /\ \A m \in 1 .. n - 1 : t[m] = s[m + 1]
  BY TailIs
<1>2. PICK j \in 1 .. (i + 1) - 1 : s[j] = b /\ \A m \in j + 1 .. (i + 1) - 1 : s[m].op = "put"
  BY DEF GatesAhead
<1>3. i \in 1 .. n - 1
  BY <1>1
<1> HIDE DEF t, n, b
<1>4. CASE j = 1
  <2>1. ASSUME NEW m \in 1 .. i - 1 PROVE t[m].op = "put"
    <3>1. m \in 1 .. n - 1 /\ m + 1 \in j + 1 .. (i + 1) - 1
      BY <1>1, <1>3, <1>4
    <3>2. QED BY <1>1, <1>2, <3>1
  <2>2. QED BY <1>1, <1>2, <1>4, <2>1 DEF t, b
<1>5. CASE j # 1
  <2>1. j - 1 \in 1 .. i - 1 /\ j - 1 \in 1 .. n - 1 /\ (j - 1) + 1 = j
    BY <1>1, <1>2, <1>3, <1>5
  <2>2. t[j - 1] = b
    BY <1>1, <1>2, <2>1
  <2>3. ASSUME NEW m \in (j - 1) + 1 .. i - 1 PROVE t[m].op = "put"
    <3>1. m \in 1 .. n - 1 /\ m + 1 \in j + 1 .. (i + 1) - 1
      BY <1>1, <1>2, <1>3, <2>1
    <3>2. QED BY <1>1, <1>2, <3>1
  <2>4. \E x \in 1 .. i - 1 : t[x] = b /\ \A m \in x + 1 .. i - 1 : t[m].op = "put"
    BY <2>1, <2>2, <2>3
  <2>5. QED BY <2>4 DEF GatesAhead, t, b
<1>6. QED BY <1>4, <1>5

LEMMA PwmFields ==
  ASSUME NEW ch \in {0, 1}
  PROVE  /\ PwmCtrl \in Words["pwm"]
         /\ Gating(ch) \in Fields["pwm"][PwmCtrl] /\ Prescal(ch) \in Fields["pwm"][PwmCtrl]
<1>1. PICK c : c \in Configs
  BY RegistersAssumption
<1> DEFINE f == [x \in {Gating(ch), En(ch)} |-> 1]
           g == PwmSettings(ch, c)
           x == Wr(PwmCtrl, f)
           y == Wr(PwmCtrl, g)
           k == Call("enable", ch, Enable(ch))
           l == Call("configure", ch, Configure(ch, c))
<1>2. k \in Begun("pwm") /\ l \in Begun("pwm") /\ "pwm" \in Areas
  <2>1. k \in ChannelCalls(ch, Configs) /\ l \in ChannelCalls(ch, Configs)
    BY <1>1 DEF ChannelCalls
  <2>2. k \in PwmCalls(Configs) /\ l \in PwmCalls(Configs)
    BY <2>1 DEF PwmCalls
  <2>3. QED BY <2>2 DEF Begun, CallsOf, Areas
<1>3. Gating(ch) \in DOMAIN f /\ Prescal(ch) \in DOMAIN g
  <2>1. Prescal(ch) \in DOMAIN g
    BY SettingsAre
  <2>2. QED BY <2>1
<1>4. k.does = <<Rd(PwmCtrl), x>>
  BY DEF Call, Enable
<1>5. \E a, b, d : l.does = <<a, b, d, y>>
  BY DEF Call, Configure
<1>6. x.word = PwmCtrl /\ x.to = f /\ y.word = PwmCtrl /\ y.to = g
  BY AccessIs
<1> HIDE DEF f, g, x, y, k, l
<1>7. x \in Made(k.does) /\ y \in Made(l.does)
  <2>1. k.does[2] = x /\ 2 \in DOMAIN k.does
    BY <1>4
  <2>2. l.does[4] = y /\ 4 \in DOMAIN l.does
    BY <1>5
  <2>3. QED BY <2>1, <2>2 DEF Made
<1>8. x \in AccessesOf["pwm"] /\ y \in AccessesOf["pwm"]
  BY <1>2, <1>7, AccessParts
<1>9. /\ x.word \in Words["pwm"] /\ DOMAIN x.to \subseteq Fields["pwm"][x.word]
      /\ DOMAIN y.to \subseteq Fields["pwm"][y.word]
  BY <1>2, <1>8, AreaWords
<1>10. QED BY <1>3, <1>6, <1>9

\* The access writes a channel's prescaler.
Sets(a, ch) == a.op \in WritesBack /\ a.word = PwmCtrl /\ Prescal(ch) \in DOMAIN a.to

\* A write of a prescaler has the write that gates the channel before it, or the
\* channel is gated, or has that prescaler, and nothing is read again before.
Prescaled ==
  area = "pwm" /\ PwmCtrl \notin clash =>
    \A c \in Contexts, ch \in {0, 1} : \A i \in DOMAIN todo[c] : Sets(todo[c][i], ch) =>
      LET v == todo[c][i].to[Prescal(ch)] IN
      \/ GatesAhead(todo[c], i, ch, v)
      \/ /\ reg[PwmCtrl][Gating(ch)] = 0 \/ reg[PwmCtrl][Prescal(ch)] = v
         /\ \A m \in 1 .. i - 1 : todo[c][m].op = "put"

\* Who is to write a prescaler with nothing but the period before it, holds a copy.
LEMMA SetsHeld ==
  ASSUME Shaped, NEW c \in Contexts, NEW ch, NEW i \in DOMAIN todo[c], Sets(todo[c][i], ch),
         \A m \in 1 .. i - 1 : todo[c][m].op = "put"
  PROVE  HoldsCopy(c, PwmCtrl)
<1>1. i \in Nat
  BY LenProperties DEF Shaped
<1>2. \A j \in 1 .. i : todo[c][j].op # "rd"
  BY <1>1 DEF Sets, WritesBack
<1>3. Formed(todo[c], readWord[c].word)
  BY DEF Shaped
<1>4. readWord[c].word = PwmCtrl
  <2>1. \A j \in 1 .. i - 1 : todo[c][j].op # "rd"
    BY <1>1, <1>2
  <2>2. QED BY <1>3, <2>1 DEF Formed, Sets
<1>5. Held(todo[c], PwmCtrl)
  BY <1>2 DEF Held, Sets
<1>6. QED BY <1>4, <1>5, HoldsIs

\* An access that does not write the control word, or a write that clashes.
LEMMA CtrlStays ==
  ASSUME Shaped, NEW c \in Contexts, Access(c), area = "pwm"
  PROVE  \/ reg'[PwmCtrl] = reg[PwmCtrl]
         \/ /\ Writes(c) /\ ~Skips(c) /\ Next(c).word = PwmCtrl
            /\ \A d \in Contexts \ {c} : HoldsCopy(d, PwmCtrl) => PwmCtrl \in clash'
<1>1. PwmCtrl \in Words[area] /\ PwmCtrl.kind = "pwm" /\ StaWord("E").kind = "sta"
  BY PwmFields, Kinds
<1>2. CASE Reads(c)
  BY <1>2, ReadIs
<1>3. CASE Looks(c) \/ (Writes(c) /\ Skips(c))
  BY <1>3, PassedIs
<1>4. CASE Writes(c) /\ ~Skips(c)
  BY <1>1, <1>4, WroteIs
<1>5. CASE Clears(c)
  BY <1>1, <1>5, ClearedIs
<1>6. QED BY <1>2, <1>3, <1>4, <1>5 DEF Access

\* Taking the gating write leaves the channel gated, or with that prescaler.
LEMMA GatedIs ==
  ASSUME Shaped, CopiesTrue, NEW c \in Contexts, Access(c), area = "pwm", PwmCtrl \notin clash,
         NEW ch \in {0, 1}, NEW v, Next(c) = Gates(ch, v)
  PROVE  reg'[PwmCtrl][Gating(ch)] = 0 \/ reg'[PwmCtrl][Prescal(ch)] = v
<1>1. /\ Next(c).op = "unless" /\ Next(c).word = PwmCtrl /\ Next(c).to = Field(Gating(ch), 0)
      /\ Next(c).f = Prescal(ch) /\ Next(c).v = v
  BY DEF Gates, WrUnless
<1>2. Writes(c)
  BY <1>1 DEF Access, Reads, Looks, Clears
<1>3. HoldsCopy(c, PwmCtrl) /\ PwmCtrl \in Words[area] /\ PwmCtrl.kind = "pwm"
  BY <1>1, NextIs, PwmFields, Kinds DEF Access, WritesBack
<1>4. readWord[c].bits = reg[PwmCtrl]
  BY <1>3 DEF CopiesTrue
<1>5. CASE Skips(c)
  <2>1. readWord[c].bits[Prescal(ch)] = v
    BY <1>1, <1>5 DEF Skips
  <2>2. reg' = reg
    BY <1>2, <1>5, PassedIs
  <2>3. QED BY <1>4, <2>1, <2>2
<1>6. CASE ~Skips(c)
  <2>1. /\ \A f \in DOMAIN Next(c).to : reg'[PwmCtrl][f] = Given(c)[f]
        /\ Given(c) = Next(c).to
    BY <1>1, <1>2, <1>6, WroteIs
  <2>2. DOMAIN Field(Gating(ch), 0) = {Gating(ch)} /\ Field(Gating(ch), 0)[Gating(ch)] = 0
    BY FieldIs
  <2>3. QED BY <1>1, <2>1, <2>2
<1>7. QED BY <1>5, <1>6

LEMMA PrescaledKept ==
  ASSUME Shaped, CopiesTrue, Prescaled, [RegStep]_regVars
  PROVE  Prescaled'
<1>0. area' = area /\ clash \subseteq clash'
  BY StepIs, StartedIs, EdgeIs, TakenIs DEF regVars
<1> SUFFICES ASSUME area = "pwm", PwmCtrl \notin clash', NEW d \in Contexts, NEW ch \in {0, 1},
                    NEW i \in DOMAIN todo'[d], Sets(todo'[d][i], ch)
             PROVE  \/ GatesAhead(todo'[d], i, ch, todo'[d][i].to[Prescal(ch)])
                    \/ /\ \/ reg'[PwmCtrl][Gating(ch)] = 0
                          \/ reg'[PwmCtrl][Prescal(ch)] = todo'[d][i].to[Prescal(ch)]
                       /\ \A m \in 1 .. i - 1 : todo'[d][m].op = "put"
  BY <1>0 DEF Prescaled, Sets, GatesAhead
<1> DEFINE v == todo'[d][i].to[Prescal(ch)]
<1>1. PwmCtrl \notin clash
  BY <1>0
<1>2. ASSUME NEW j \in DOMAIN todo[d], Sets(todo[d][j], ch)
      PROVE  \/ GatesAhead(todo[d], j, ch, todo[d][j].to[Prescal(ch)])
             \/ /\ \/ reg[PwmCtrl][Gating(ch)] = 0
                   \/ reg[PwmCtrl][Prescal(ch)] = todo[d][j].to[Prescal(ch)]
                /\ \A m \in 1 .. j - 1 : todo[d][m].op = "put"
  BY <1>1, <1>2 DEF Prescaled
<1>3. CASE UNCHANGED regVars
  <2>1. todo' = todo /\ reg' = reg
    BY <1>3 DEF regVars
  <2>2. QED BY <1>2, <2>1
<1>4. ASSUME NEW c, NEW k, NEW s, Started(c, k, s)
      PROVE  \/ GatesAhead(todo'[d], i, ch, v)
             \/ /\ reg'[PwmCtrl][Gating(ch)] = 0 \/ reg'[PwmCtrl][Prescal(ch)] = v
                /\ \A m \in 1 .. i - 1 : todo'[d][m].op = "put"
  <2>1. /\ reg' = reg /\ todo'[c] = s /\ WellOrdered(s)
        /\ \A x \in Contexts \ {c} : todo'[x] = todo[x]
    BY <1>4, StartedIs
  <2>2. CASE d # c
    <3>1. todo'[d] = todo[d]
      BY <2>1, <2>2
    <3>2. QED BY <1>2, <2>1, <3>1
  <2>3. CASE d = c
    <3>1. GateFirst(s) /\ i \in DOMAIN s /\ s[i].word = PwmCtrl /\ Prescal(ch) \in DOMAIN s[i].to
          /\ v = s[i].to[Prescal(ch)]
      BY <2>1, <2>3 DEF WellOrdered, Rereads, Sets
    <3>2. \E j \in 1 .. i - 1 :
            /\ s[j] = WrUnless(PwmCtrl, Prescal(ch), s[i].to[Prescal(ch)], Field(Gating(ch), 0))
            /\ \A m \in j + 1 .. i - 1 : s[m].op = "put"
      BY <3>1 DEF GateFirst
    <3>3. GatesAhead(s, i, ch, v)
      BY <3>1, <3>2 DEF GatesAhead, Gates
    <3>4. QED BY <2>1, <2>3, <3>3
  <2>4. QED BY <2>2, <2>3
<1>5. CASE Edge
  BY <1>5, EdgeIs
<1>6. ASSUME NEW c \in Contexts, Access(c)
      PROVE  \/ GatesAhead(todo'[d], i, ch, v)
             \/ /\ reg'[PwmCtrl][Gating(ch)] = 0 \/ reg'[PwmCtrl][Prescal(ch)] = v
                /\ \A m \in 1 .. i - 1 : todo'[d][m].op = "put"
  <2>1. /\ todo[c] # <<>> /\ todo' = [todo EXCEPT ![c] = Tail(todo[c])]
        /\ todo[c] \in Seq(AccessesOf[area]) /\ DOMAIN todo = Contexts
    BY <1>6, TakenIs DEF Shaped
  <2>2. todo'[c] = Tail(todo[c]) /\ \A x \in Contexts \ {c} : todo'[x] = todo[x]
    BY <2>1
  <2>3. Lawful(Next(c))
    BY <1>6, NextIs DEF Access
  <2>4. \/ reg'[PwmCtrl] = reg[PwmCtrl]
        \/ /\ Writes(c) /\ ~Skips(c) /\ Next(c).word = PwmCtrl
           /\ \A x \in Contexts \ {c} : ~HoldsCopy(x, PwmCtrl)
    BY <1>6, CtrlStays
  <2>5. CASE d # c
    <3>1. todo'[d] = todo[d]
      BY <2>2, <2>5
    <3>2. CASE GatesAhead(todo[d], i, ch, v)
      BY <3>1, <3>2
    <3>3. CASE /\ reg[PwmCtrl][Gating(ch)] = 0 \/ reg[PwmCtrl][Prescal(ch)] = v
               /\ \A m \in 1 .. i - 1 : todo[d][m].op = "put"
      <4>1. HoldsCopy(d, PwmCtrl)
        BY <3>1, <3>3, SetsHeld
      <4>2. reg'[PwmCtrl] = reg[PwmCtrl]
        BY <2>4, <2>5, <4>1
      <4>3. QED BY <3>1, <3>3, <4>2
    <3>4. QED BY <1>2, <3>1, <3>2, <3>3
  <2>6. CASE d = c
    <3> DEFINE s == todo[c]
               t == Tail(s)
               n == Len(s)
    <3>1. /\ Head(s) = s[1] /\ n \in Nat /\ n >= 1 /\ DOMAIN s = 1 .. n /\ DOMAIN t = 1 .. n - 1
          /\ \A m \in 1 .. n - 1 : t[m] = s[m + 1]
      BY <2>1, TailIs
    <3>2. todo'[d] = t /\ i \in DOMAIN t
      BY <2>2, <2>6
    <3> HIDE DEF n
    <3>3. i \in 1 .. n - 1 /\ i + 1 \in DOMAIN s /\ t[i] = s[i + 1]
      <4>1. i \in 1 .. n - 1
        BY <3>1, <3>2
      <4>2. QED BY <3>1, <4>1
    <3>4. Sets(s[i + 1], ch) /\ v = s[i + 1].to[Prescal(ch)]
      BY <3>2, <3>3
    <3>5. \/ GatesAhead(s, i + 1, ch, v)
          \/ /\ reg[PwmCtrl][Gating(ch)] = 0 \/ reg[PwmCtrl][Prescal(ch)] = v
             /\ \A m \in 1 .. (i + 1) - 1 : s[m].op = "put"
      BY <1>2, <2>6, <3>3, <3>4
    <3> HIDE DEF v
    <3>6. CASE GatesAhead(s, i + 1, ch, v)
      <4>1. \/ GatesAhead(t, i, ch, v)
            \/ Head(s) = Gates(ch, v) /\ \A m \in 1 .. i - 1 : t[m].op = "put"
        BY <2>1, <3>2, <3>6, GatesTail
      <4>2. Head(s) = Gates(ch, v) =>
              reg'[PwmCtrl][Gating(ch)] = 0 \/ reg'[PwmCtrl][Prescal(ch)] = v
        BY <1>1, <1>6, GatedIs DEF Next
      <4>3. QED BY <3>2, <4>1, <4>2
    <3>7. CASE /\ reg[PwmCtrl][Gating(ch)] = 0 \/ reg[PwmCtrl][Prescal(ch)] = v
               /\ \A m \in 1 .. (i + 1) - 1 : s[m].op = "put"
      <4>1. Next(c).op = "put"
        <5>1. 1 \in 1 .. (i + 1) - 1
          BY <3>1, <3>3
        <5>2. QED BY <3>1, <3>7, <5>1 DEF Next
      <4>2. PwmCtrl.kind = "pwm"
        BY Kinds
      <4>3. reg'[PwmCtrl] = reg[PwmCtrl]
        BY <2>3, <2>4, <4>1, <4>2 DEF Lawful
      <4>4. ASSUME NEW m \in 1 .. i - 1 PROVE t[m].op = "put"
        <5>1. m \in 1 .. n - 1 /\ m + 1 \in 1 .. (i + 1) - 1
          BY <3>1, <3>3
        <5>2. QED BY <3>1, <3>7, <5>1
      <4>5. QED BY <3>2, <3>7, <4>3, <4>4
    <3>8. QED BY <3>5, <3>6, <3>7
  <2>7. QED BY <2>5, <2>6
<1>7. QED BY <1>3, <1>4, <1>5, <1>6, StepIs

\* The step of PrescalerChangesGated.
LEMMA PrescalerStep ==
  ASSUME Shaped, CopiesTrue, Prescaled, [RegStep]_regVars, area = "pwm", PwmCtrl \notin clash',
         NEW ch \in {0, 1}, reg'[PwmCtrl][Prescal(ch)] # reg[PwmCtrl][Prescal(ch)]
  PROVE  reg[PwmCtrl][Gating(ch)] = 0
<1>1. ASSUME NEW c \in Contexts, Access(c) PROVE reg[PwmCtrl][Gating(ch)] = 0
  <2> DEFINE a == Next(c)
  <2>1. /\ Writes(c) /\ ~Skips(c) /\ a.word = PwmCtrl
    BY <1>1, CtrlStays
  <2>2. PwmCtrl \notin clash
    BY <1>1, TakenIs
  <2>3. /\ a.op \in {"wr", "put", "flip", "unless"}
        /\ \A f \in DOMAIN a.to : reg'[PwmCtrl][f] = Given(c)[f]
        /\ a.op # "flip" => Given(c) = a.to
        /\ a.op # "put" =>
             /\ HoldsCopy(c, PwmCtrl)
             /\ \A f \in Fields[area][PwmCtrl] \ DOMAIN a.to :
                  reg'[PwmCtrl][f] = readWord[c].bits[f]
    BY <1>1, <2>1, WroteIs
  <2>4. /\ Lawful(a) /\ PwmCtrl.kind = "pwm" /\ PwmCtrl \in Words[area]
        /\ Prescal(ch) \in Fields[area][PwmCtrl]
    BY <1>1, NextIs, Kinds, PwmFields DEF Access
  <2>5. a.op # "put" /\ a.op # "flip"
    BY <2>1, <2>4 DEF Lawful, a
  <2>6. readWord[c].bits = reg[PwmCtrl]
    BY <2>2, <2>3, <2>4, <2>5 DEF CopiesTrue
  <2>7. a = todo[c][1] /\ 1 \in DOMAIN todo[c]
    <3>1. todo[c] \in Seq(AccessesOf[area]) /\ todo[c] # <<>>
      BY <1>1 DEF Shaped, Access, Idle
    <3>2. QED BY <3>1, TailIs DEF Next
  <2> HIDE DEF a
  <2>8. Prescal(ch) \in DOMAIN a.to
    BY <2>3, <2>4, <2>5, <2>6
  <2>9. Sets(todo[c][1], ch)
    BY <2>1, <2>3, <2>5, <2>7, <2>8 DEF Sets, WritesBack, a
  <2>10. \/ GatesAhead(todo[c], 1, ch, a.to[Prescal(ch)])
         \/ reg[PwmCtrl][Gating(ch)] = 0 \/ reg[PwmCtrl][Prescal(ch)] = a.to[Prescal(ch)]
    BY <2>2, <2>7, <2>9 DEF Prescaled
  <2>11. ~GatesAhead(todo[c], 1, ch, a.to[Prescal(ch)])
    BY DEF GatesAhead
  <2>12. reg'[PwmCtrl][Prescal(ch)] = a.to[Prescal(ch)]
    BY <2>3, <2>5, <2>8
  <2>13. QED BY <2>10, <2>11, <2>12
<1>2. \A c, k, s : Started(c, k, s) => reg' = reg
  BY StartedIs
<1>3. ~Edge
  BY EdgeIs
<1>4. RegStep
  BY DEF regVars
<1>5. QED BY <1>1, <1>2, <1>3, <1>4, StepIs

-----------------------------------------------------------------------------
(* The inductive invariant of the accesses.                                *)

AccessInv == RegInv /\ Directing /\ Seen /\ Prescaled /\ ClockAhead

LEMMA AccessAtFirst ==
  ASSUME RegInit
  PROVE  Directing /\ Seen /\ Prescaled /\ ClockAhead
<1>1. /\ area \in Areas /\ clash = {} /\ fresh = {}
      /\ \A w \in Words[area] : \A f \in Fields[area][w] : reg[w][f] = Reset(area, w, f)
      /\ \A c \in Contexts :
           /\ todo[c] = IF c = Boot /\ area = "gpio" THEN InitDefault(Pins) ELSE <<>>
           /\ call[c] = IF c = Boot /\ area = "gpio" THEN BootCall ELSE None
           /\ \A w : ~HoldsCopy(c, w)
  BY RegInitIs
<1>2. \A t : t = <<>> => DOMAIN t = {}
  OBVIOUS
<1>3. Directing
  <2>1. BootCall.name # "direction_output" /\ None.name # "direction_output"
    BY DEF BootCall, None, Call
  <2>2. QED BY <1>1, <2>1 DEF Directing
<1>4. Seen
  <2>1. ASSUME NEW c \in Contexts PROVE Acks(todo[c], call[c].of)
    <3>1. CASE c = Boot /\ area = "gpio"
      <4>1. BootCall.of = 0
        BY DEF BootCall, Call
      <4>2. QED BY <1>1, <3>1, <4>1, BootAcks
    <3>2. CASE ~(c = Boot /\ area = "gpio")
      BY <1>1, <1>2, <3>2 DEF Acks, Made
    <3>3. QED BY <3>1, <3>2
  <2>2. QED BY <1>1, <2>1 DEF Seen
<1>5. Prescaled
  BY <1>1, <1>2 DEF Prescaled
<1>6. ClockAhead
  <2> SUFFICES ASSUME area = "gates"
               PROVE  /\ reg[ResetWord(Uart2)][22] # 1
                      /\ \A c \in Contexts : HoldsCopy(c, ResetWord(Uart2)) => readWord[c].bits[22] # 1
                      /\ \A c \in Contexts : After(todo[c], Releases, Clocking)
    BY DEF ClockAhead
  <2>1. reg[ResetWord(Uart2)][22] = Reset(area, ResetWord(Uart2), 22)
    BY <1>1, ClockFields
  <2>2. ResetWord(Uart2).kind = "reset"
    BY Kinds
  <2>3. Reset(area, ResetWord(Uart2), 22) = 0
    BY <2>2 DEF Reset
  <2>4. \A c \in Contexts : After(todo[c], Releases, Clocking)
    BY <1>1, <1>2 DEF After
  <2>5. QED BY <1>1, <2>1, <2>3, <2>4
<1>7. QED BY <1>3, <1>4, <1>5, <1>6

LEMMA AccessInvKept ==
  ASSUME AccessInv, [RegStep]_regVars
  PROVE  AccessInv'
BY RegInvKept, DirectingKept, SeenKept, PrescaledKept, ClockAheadKept DEF AccessInv, RegInv

-----------------------------------------------------------------------------
(* What words hold, and how much of a call is left.                        *)

Levels == {"data", "isr"}

\* Pins' data and handlers' presence are bits, in the registers, in the copies
\* that are to be written back, and in what was looked at.
BitsOnly ==
  /\ \A w \in Words[area] : w.kind \in Levels => \A f \in Fields[area][w] : reg[w][f] \in {0, 1}
  /\ \A w \in Words[area] : \A c \in Contexts :
       w.kind = "data" /\ HoldsCopy(c, w) => \A f \in Fields[area][w] : readWord[c].bits[f] \in {0, 1}
  /\ DOMAIN got = Contexts /\ \A c \in Contexts : got[c] \in {0, 1}

\* What is left is no more than the call and the dispatch around it, and what
\* clashes and what is fresh are words and pins of the driver's.
PartsOnly ==
  /\ clash \subseteq Words[area] /\ fresh \subseteq Pins
  /\ \A c \in Contexts : /\ call[c].does \in Seq(AccessesOf[area])
                         /\ Len(todo[c]) <= Len(call[c].does) + 3

LEMMA BitsAtFirst ==
  ASSUME RegInit
  PROVE  BitsOnly /\ PartsOnly
<1>0. /\ area \in Areas /\ clash = {} /\ fresh = {}
      /\ \A w \in Words[area] : \A f \in Fields[area][w] : reg[w][f] = Reset(area, w, f)
      /\ \A c \in Contexts : todo[c] \in Seq(AccessesOf[area]) /\ \A w : ~HoldsCopy(c, w)
  BY RegInitIs
<1>1. \A w, f : w.kind \in Levels => Reset(area, w, f) \in {0, 1}
  BY DEF Reset, Levels
<1>2. got = [c \in Contexts |-> 0]
  BY DEF RegInit
<1>3. BitsOnly
  BY <1>0, <1>1, <1>2 DEF BitsOnly
<1>4. ASSUME NEW c \in Contexts
      PROVE  call[c].does \in Seq(AccessesOf[area]) /\ Len(todo[c]) <= Len(call[c].does) + 3
  <2>1. todo[c] = call[c].does /\ todo[c] \in Seq(AccessesOf[area])
    BY <1>0 DEF RegInit
  <2>2. Len(todo[c]) \in Nat
    BY <2>1, LenProperties
  <2>3. QED BY <2>1, <2>2
<1>5. PartsOnly
  BY <1>0, <1>4 DEF PartsOnly
<1>6. QED BY <1>3, <1>5

\* What an access gives to a field of such a word is a bit.
LEMMA BitsGiven ==
  ASSUME Shaped, BitsOnly, NEW c \in Contexts, Access(c), Writes(c), ~Skips(c),
         NEW w, w = Next(c).word, w.kind \in Levels, NEW f \in Fields[area][w]
  PROVE  reg'[w][f] \in {0, 1}
<1>0. /\ Lawful(Next(c)) /\ Next(c).op \in {"wr", "put", "flip", "unless"}
      /\ w \in Words[area] /\ DOMAIN Next(c).to \subseteq Fields[area][w]
      /\ Next(c).op = "put" => DOMAIN Next(c).to = Fields[area][w]
  BY NextIs DEF Access, Writes
<1>1. CASE Next(c).op = "flip"
  <2>1. w.kind = "data"
    BY <1>0, <1>1 DEF Lawful
  <2>2. CASE f \in DOMAIN Next(c).to
    <3>1. reg'[w][f] = Given(c)[f] /\ Given(c) = [x \in DOMAIN Next(c).to |-> 1 - got[c]]
      BY <1>1, <2>2, WroteIs DEF Given
    <3>2. QED BY <2>2, <3>1 DEF BitsOnly
  <2>3. CASE f \notin DOMAIN Next(c).to
    <3>1. reg'[w][f] = readWord[c].bits[f] /\ HoldsCopy(c, w)
      BY <1>1, <2>3, WroteIs
    <3>2. QED BY <1>0, <2>1, <3>1 DEF BitsOnly
  <2>4. QED BY <2>2, <2>3
<1>2. CASE Next(c).op = "put"
  <2>1. w.kind = "isr" /\ Next(c).to = Field(0, 1)
    BY <1>0, <1>2 DEF Lawful, Levels
  <2>2. f = 0 /\ f \in DOMAIN Next(c).to /\ Next(c).to[f] = 1
    BY <1>0, <1>2, <2>1 DEF Field
  <2>3. reg'[w][f] = Next(c).to[f]
    BY <1>2, <2>2, WroteIs
  <2>4. QED BY <2>2, <2>3
<1>3. CASE Next(c).op = "wr"
  <2>1. w.kind = "data" /\ \A x \in DOMAIN Next(c).to : Next(c).to[x] \in {0, 1}
    BY <1>0, <1>3 DEF Lawful, Levels
  <2>2. CASE f \in DOMAIN Next(c).to
    <3>1. reg'[w][f] = Next(c).to[f]
      BY <1>3, <2>2, WroteIs
    <3>2. QED BY <2>1, <2>2, <3>1
  <2>3. CASE f \notin DOMAIN Next(c).to
    <3>1. reg'[w][f] = readWord[c].bits[f] /\ HoldsCopy(c, w)
      BY <1>3, <2>3, WroteIs
    <3>2. QED BY <1>0, <2>1, <3>1 DEF BitsOnly
  <2>4. QED BY <2>2, <2>3
<1>4. CASE Next(c).op = "unless"
  <2>1. w = PwmCtrl
    BY <1>0, <1>4 DEF Lawful
  <2>2. w.kind = "pwm"
    BY <2>1, Kinds
  <2>3. QED BY <2>2 DEF Levels
<1>5. QED BY <1>0, <1>1, <1>2, <1>3, <1>4

LEMMA BitsKept ==
  ASSUME Shaped, BitsOnly, [RegStep]_regVars
  PROVE  BitsOnly'
<1>0. StaWord("E").kind = "sta"
  BY DEF StaWord, Word
<1>1. CASE UNCHANGED regVars
  BY <1>1 DEF regVars, BitsOnly, HoldsCopy
<1>2. ASSUME NEW c, NEW k, NEW s, Started(c, k, s) PROVE BitsOnly'
  <2>1. /\ UNCHANGED <<area, reg, readWord, got>> /\ \A w : ~HoldsCopy(c, w)'
        /\ \A d \in Contexts \ {c} : \A w : HoldsCopy(d, w)' <=> HoldsCopy(d, w)
    BY <1>2, StartedIs
  <2>2. QED BY <2>1 DEF BitsOnly
<1>3. CASE Edge
  <2>1. /\ UNCHANGED <<area, todo, readWord, got>>
        /\ \A w \in Words[area] \ {StaWord("E")} : reg'[w] = reg[w]
    BY <1>3, EdgeIs
  <2>2. \A d, w : HoldsCopy(d, w)' <=> HoldsCopy(d, w)
    BY <2>1 DEF HoldsCopy
  <2>3. QED BY <1>0, <2>1, <2>2 DEF BitsOnly, Levels
<1>4. ASSUME NEW c \in Contexts, Access(c) PROVE BitsOnly'
  <2>0. /\ area' = area
        /\ \A d \in Contexts \ {c} :
             readWord'[d] = readWord[d] /\ \A w : HoldsCopy(d, w)' <=> HoldsCopy(d, w)
        /\ \A w : HoldsCopy(c, w)' => /\ \/ Next(c).op = "rd" /\ w = Next(c).word
                                         \/ Next(c).op # "rd" /\ HoldsCopy(c, w)
                                      /\ Next(c).op # "clear"
        /\ \A w : HoldsCopy(c, w)' => readWord'[c].word = w /\ todo'[c] # <<>>
    <3>1. \A w : HoldsCopy(c, w)' => readWord'[c].word = w /\ todo'[c] # <<>>
      BY DEF HoldsCopy
    <3>2. QED BY <1>4, <3>1, TakenIs
  \* It is enough to know of the words, of the caller's copy and of what it saw.
  <2>1. ASSUME \A w \in Words[area] : w.kind \in Levels => \A f \in Fields[area][w] : reg'[w][f] \in {0, 1},
               \A w \in Words[area] : w.kind = "data" /\ HoldsCopy(c, w)' =>
                 \A f \in Fields[area][w] : readWord'[c].bits[f] \in {0, 1},
               UNCHANGED got \/ \E x \in {0, 1} : got' = [got EXCEPT ![c] = x]
        PROVE  BitsOnly'
    BY <2>0, <2>1 DEF BitsOnly
  <2>2. CASE Reads(c)
    <3>1. /\ Next(c).op = "rd" /\ reg' = reg /\ readWord'[c].bits = reg[Next(c).word]
          /\ UNCHANGED got
      BY <1>4, <2>2, ReadIs DEF Reads
    <3>2. QED BY <2>0, <2>1, <3>1 DEF BitsOnly, Levels
  <2>3. CASE Looks(c)
    <3>1. /\ Next(c).op = "look" /\ reg' = reg /\ readWord' = readWord
          /\ got' = [got EXCEPT ![c] = reg[Next(c).word][CHOOSE f \in DOMAIN Next(c).to : TRUE]]
      BY <2>3 DEF Looks
    <3>2. /\ Next(c).word \in Words[area] /\ Lawful(Next(c))
          /\ DOMAIN Next(c).to \subseteq Fields[area][Next(c).word]
      BY <1>4, NextIs DEF Access
    <3>3. Next(c).word.kind \in Levels /\ \E f : DOMAIN Next(c).to = {f}
      BY <3>1, <3>2 DEF Lawful, Levels
    <3>4. (CHOOSE f \in DOMAIN Next(c).to : TRUE) \in Fields[area][Next(c).word]
      BY <3>2, <3>3
    <3>5. \E x \in {0, 1} : got' = [got EXCEPT ![c] = x]
      BY <3>1, <3>2, <3>3, <3>4 DEF BitsOnly
    <3>6. \A w \in Words[area] : w.kind \in Levels => \A f \in Fields[area][w] : reg'[w][f] \in {0, 1}
      BY <3>1 DEF BitsOnly
    <3>7. ASSUME NEW w \in Words[area], w.kind = "data", HoldsCopy(c, w)', NEW f \in Fields[area][w]
          PROVE  readWord'[c].bits[f] \in {0, 1}
      <4>1. HoldsCopy(c, w) /\ readWord' = readWord
        BY <2>0, <3>1, <3>7
      <4>2. QED BY <3>7, <4>1 DEF BitsOnly
    <3>8. QED BY <2>1, <3>5, <3>6, <3>7
  <2>4. CASE Writes(c) /\ Skips(c)
    <3>1. Next(c).op = "unless" /\ UNCHANGED <<reg, readWord, got>>
      BY <1>4, <2>4 DEF Writes, Skips
    <3>2. QED BY <2>0, <2>1, <3>1 DEF BitsOnly
  <2>5. CASE Writes(c) /\ ~Skips(c)
    <3>1. PICK w : w = Next(c).word
      OBVIOUS
    <3>2. /\ Next(c).op \in {"wr", "put", "flip", "unless"} /\ w \in Words[area]
          /\ \A x \in Words[area] \ {w} : reg'[x] = reg[x]
          /\ \/ todo'[c] = <<>>
             \/ Next(c).op = "put" /\ readWord'[c] = readWord[c]
             \/ Next(c).op # "put" /\ readWord'[c].word = w /\ readWord'[c].bits = reg'[w]
      BY <1>4, <2>5, <3>1, WroteIs
    <3>3. w.kind \in Levels => \A f \in Fields[area][w] : reg'[w][f] \in {0, 1}
      BY <1>4, <2>5, <3>1, BitsGiven
    <3>4. \A x \in Words[area] : x.kind \in Levels => \A f \in Fields[area][x] : reg'[x][f] \in {0, 1}
      BY <3>2, <3>3 DEF BitsOnly
    <3>5. ASSUME NEW x \in Words[area], x.kind = "data", HoldsCopy(c, x)', NEW f \in Fields[area][x]
          PROVE  readWord'[c].bits[f] \in {0, 1}
      <4>1. CASE Next(c).op = "put"
        BY <2>0, <3>2, <3>5, <4>1 DEF BitsOnly
      <4>2. CASE Next(c).op # "put"
        <5>1. x = w /\ readWord'[c].bits = reg'[w]
          BY <2>0, <3>2, <3>5, <4>2
        <5>2. QED BY <3>3, <3>5, <5>1 DEF Levels
      <4>3. QED BY <4>1, <4>2
    <3>6. UNCHANGED got
      BY <2>5 DEF Writes
    <3>7. QED BY <2>1, <3>4, <3>5, <3>6
  <2>6. CASE Clears(c)
    <3>1. /\ Next(c).op = "clear" /\ \A w \in Words[area] \ {StaWord("E")} : reg'[w] = reg[w]
      BY <1>4, <2>6, ClearedIs
    <3>2. UNCHANGED got
      BY <2>6 DEF Clears
    <3>3. \A w : ~HoldsCopy(c, w)'
      BY <2>0, <3>1
    <3>4. \A w \in Words[area] : w.kind \in Levels => reg'[w] = reg[w]
      BY <1>0, <3>1 DEF Levels
    <3>5. QED BY <2>1, <3>2, <3>3, <3>4 DEF BitsOnly
  <2>7. QED BY <1>4, <2>2, <2>3, <2>4, <2>5, <2>6 DEF Access
<1>5. QED BY <1>1, <1>2, <1>3, <1>4, StepIs

LEMMA PartsKept ==
  ASSUME Shaped, PartsOnly, [RegStep]_regVars
  PROVE  PartsOnly'
<1>1. CASE UNCHANGED regVars
  BY <1>1 DEF regVars, PartsOnly
<1>2. ASSUME NEW c, NEW k, NEW s, Started(c, k, s) PROVE PartsOnly'
  <2>1. /\ c \in Contexts /\ k \in Begun(area) /\ area \in Areas
        /\ todo'[c] = s /\ call'[c] = k
        /\ \A d \in Contexts \ {c} : todo'[d] = todo[d] /\ call'[d] = call[d]
        /\ UNCHANGED <<area, clash, fresh>>
    BY <1>2, StartedIs
  <2>2. k.does \in Seq(AccessesOf[area]) /\ Len(k.does) \in Nat
    BY <2>1, CallsAccess, LenProperties
  <2>3. Len(s) <= Len(k.does) + 3
    <3>1. \A v \in Vectors : Len(Dispatch(v, k.does)) = Len(k.does) + 3
      BY <2>2, DispatchIs
    <3>2. s = k.does \/ \E v \in Vectors : s = Dispatch(v, k.does)
      BY <1>2 DEF Started
    <3>3. QED BY <2>2, <3>1, <3>2
  <2>4. QED BY <2>1, <2>2, <2>3 DEF PartsOnly
<1>3. CASE Edge
  <2>1. /\ UNCHANGED <<area, call, todo, clash>>
        /\ \E p \in Pins : fresh' = IF reg[StaWord("E")][p] = 0 THEN fresh \cup {p} ELSE fresh
    BY <1>3, EdgeIs
  <2>2. QED BY <2>1 DEF PartsOnly
<1>4. ASSUME NEW c \in Contexts, Access(c) PROVE PartsOnly'
  <2>1. /\ todo[c] # <<>> /\ area' = area /\ todo' = [todo EXCEPT ![c] = Tail(todo[c])]
    BY <1>4, TakenIs
  <2>2. /\ todo[c] \in Seq(AccessesOf[area]) /\ DOMAIN todo = Contexts /\ DOMAIN call = Contexts
    BY DEF Shaped
  <2>3. call' = IF Len(todo[c]) = 1 THEN [call EXCEPT ![c] = None] ELSE call
    BY <1>4 DEF Access, Reads, Looks, Writes, Clears, Advance
  <2>4. /\ todo'[c] = Tail(todo[c]) /\ \A d \in Contexts \ {c} : todo'[d] = todo[d] /\ call'[d] = call[d]
        /\ call'[c] = IF Len(todo[c]) = 1 THEN None ELSE call[c]
    BY <2>1, <2>2, <2>3
  <2>5. Len(todo[c]) \in Nat /\ Len(todo'[c]) = Len(todo[c]) - 1
    BY <2>1, <2>2, <2>4, TailIs
  <2>6. call'[c].does \in Seq(AccessesOf[area]) /\ Len(todo'[c]) <= Len(call'[c].does) + 3
    <3>1. CASE Len(todo[c]) = 1
      <4>1. call'[c].does = <<>>
        BY <2>4, <3>1 DEF None, Call
      <4>2. <<>> \in Seq(AccessesOf[area]) /\ Len(<<>>) = 0
        OBVIOUS
      <4>3. QED BY <2>5, <3>1, <4>1, <4>2
    <3>2. CASE Len(todo[c]) # 1
      <4>1. call[c].does \in Seq(AccessesOf[area]) /\ Len(todo[c]) <= Len(call[c].does) + 3
        BY DEF PartsOnly
      <4>2. Len(call[c].does) \in Nat
        BY <4>1, LenProperties
      <4>3. QED BY <2>4, <2>5, <3>2, <4>1, <4>2
    <3>3. QED BY <3>1, <3>2
  <2>7. clash' \subseteq Words[area] /\ fresh' \subseteq Pins
    <3>1. CASE Reads(c)
      BY <1>4, <3>1, ReadIs DEF PartsOnly
    <3>2. CASE Looks(c) \/ (Writes(c) /\ Skips(c))
      BY <1>4, <3>2, PassedIs DEF PartsOnly
    <3>3. CASE Writes(c) /\ ~Skips(c)
      <4>1. PICK w : w = Next(c).word
        OBVIOUS
      <4>2. fresh' = fresh /\ w \in Words[area] /\ clash' \subseteq clash \cup {w}
        BY <1>4, <3>3, <4>1, WroteIs
      <4>3. QED BY <4>2 DEF PartsOnly
    <3>4. CASE Clears(c)
      <4>1. fresh' \subseteq fresh /\ StaWord("E") \in Words[area] /\ clash' \subseteq clash \cup {StaWord("E")}
        BY <1>4, <3>4, ClearedIs
      <4>2. QED BY <4>1 DEF PartsOnly
    <3>5. QED BY <1>4, <3>1, <3>2, <3>3, <3>4 DEF Access
  <2>8. QED BY <2>1, <2>4, <2>6, <2>7 DEF PartsOnly
<1>5. QED BY <1>1, <1>2, <1>3, <1>4, StepIs

LEMMA RegTypes ==
  ASSUME Shaped, BitsOnly, PartsOnly
  PROVE  RegTypeOK
BY DEF Shaped, BitsOnly, PartsOnly, RegTypeOK, Levels
=============================================================================
