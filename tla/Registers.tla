------------------------------ MODULE Registers ------------------------------
(***************************************************************************)
(* Driver calls run against one another.  Every read and every write of a  *)
(* register is one access; between two of a thread's, another thread or    *)
(* the interrupt handler may run its own, and none of the drivers masks    *)
(* IRQs.  An interrupt handler runs to its end before a thread continues.  *)
(***************************************************************************)
EXTENDS Gpio, Gates, Intc, Pwm

CONSTANTS
  Callers,    \* the threads that call drivers; the first call is Boot's
  Boot,       \* the thread that runs init_default
  Isr,        \* the interrupt handler
  Pins,       \* the pins of port E
  Vectors,    \* the interrupts
  Configs,    \* the PWM configurations: [prescal, prd, dty, act, mode]
  MaxCalls,   \* bound: calls made in a behaviour
  MaxEdges    \* bound: edges on the pins

ASSUME RegistersAssumption ==
  /\ Boot \in Callers /\ Isr \notin Callers
  /\ {6, 7, 8} \subseteq Pins /\ Configs # {} /\ MaxCalls \in Nat /\ MaxEdges \in Nat

Contexts == Callers \cup {Isr}

\* Calls of different drivers have no words in common, except that PWM has pins:
\* a behaviour stays with one driver.
Areas == {"gpio", "gates", "intc", "pwm"}

CallsOf == [gpio |-> GpioCalls("E", Pins), gates |-> GateCalls,
            intc |-> IntcCalls(Vectors), pwm |-> PwmCalls(Configs)]

BootCall == Call("init_default", 0, InitDefault(Pins))
None == Call("none", 0, <<>>)
NoCopy == [word |-> DramWord, bits |-> <<>>]

\* Every access of an area: of its calls, and of the interrupts taken meanwhile.
Begun(area) == CallsOf[area] \cup (IF area = "gpio" THEN {BootCall} ELSE {})
Made(does) == {does[i] : i \in DOMAIN does}

ForVector(v) == Made(Dispatch(v, <<>>)) \cup Made(Install(v, 1)) \cup Made(Mask(v))

AllOfCalls(area) == UNION {Made(k.does) : k \in Begun(area)}
AllOfVectors == UNION {ForVector(v) : v \in Vectors}

AccessesOf == [area \in Areas |-> AllOfCalls(area) \cup AllOfVectors]

\* The words of an area, and the fields of a word that are modelled.
Words == [area \in Areas |-> {a.word : a \in AccessesOf[area]}]
Fields == [area \in Areas |-> [w \in Words[area] |->
             UNION {DOMAIN a.to : a \in {b \in AccessesOf[area] : b.word = w}}]]

VARIABLES
  area,     \* the driver this behaviour is about
  reg,      \* the registers: word -> field -> value
  call,     \* [Contexts -> the call under way, or None]
  todo,     \* [Contexts -> its accesses still to be made]
  readWord, \* [Contexts -> [word, bits]: the word it has read]
  got,      \* [Contexts -> the bit it has looked at]
  asked,    \* the value last given to each field by any call
  clash,    \* the words written while another call held a copy it wrote back
  fresh,    \* pins whose status bit rose after the last read of the status
  calls, edges

regVars == <<area, reg, call, todo, readWord, got, asked, clash, fresh, calls, edges>>

\* Out of reset nothing is enabled; while a driver other than intc is looked at,
\* the interrupts are installed.  The SPL's console is on PE7 and PE8.
Reset(a, w, f) ==
  CASE w.kind = "cfg" -> IF f \in {7, 8} THEN 5 ELSE 0
    [] w.kind \in {"en", "isr"} -> IF a = "intc" THEN 0 ELSE 1
    [] w.kind = "mask" -> IF a = "intc" THEN 1 ELSE 0
    [] OTHER -> 0

RegInit ==
  /\ area \in Areas
  /\ reg = [w \in Words[area] |-> [f \in Fields[area][w] |-> Reset(area, w, f)]]
  /\ asked = reg
  /\ call = [c \in Contexts |-> IF c = Boot /\ area = "gpio" THEN BootCall ELSE None]
  /\ todo = [c \in Contexts |-> call[c].does]
  /\ readWord = [c \in Contexts |-> NoCopy]
  /\ got = [c \in Contexts |-> 0]
  /\ clash = {} /\ fresh = {} /\ calls = 0 /\ edges = 0

-----------------------------------------------------------------------------
Idle(c) == todo[c] = <<>>
Runs(c) == c = Isr \/ Idle(Isr)
Booting == ~Idle(Boot) /\ call[Boot].name = "init_default"

Begin(c, k, does) ==
  /\ calls < MaxCalls /\ calls' = calls + 1
  /\ call' = [call EXCEPT ![c] = k]
  /\ todo' = [todo EXCEPT ![c] = does]
  /\ UNCHANGED <<area, reg, readWord, got, asked, clash, fresh, edges>>

\* A thread calls a driver.
ThreadCalls(c) ==
  /\ Idle(c) /\ Runs(c) /\ ~Booting
  /\ \E k \in CallsOf[area] : Begin(c, k, k.does)

\* An interrupt is taken, and its handler calls a driver.
IrqTaken ==
  /\ Idle(Isr) /\ ~Booting
  /\ \E v \in Vectors, k \in CallsOf[area] :
       /\ reg[EnWord(v)][v] = 1 /\ reg[MaskWord(v)][v] = 0
       /\ Begin(Isr, k, Dispatch(v, k.does))

\* An edge on a pin of the port sets its status bit.
Edge ==
  /\ area = "gpio" /\ edges < MaxEdges /\ edges' = edges + 1
  /\ \E p \in Pins :
       /\ reg' = [reg EXCEPT ![StaWord("E")][p] = 1]
       /\ fresh' = IF reg[StaWord("E")][p] = 0 THEN fresh \cup {p} ELSE fresh
  /\ UNCHANGED <<area, call, todo, readWord, got, asked, clash, calls>>

-----------------------------------------------------------------------------
Next(c) == Head(todo[c])

\* The access is made; with the last one the call returns.
Advance(c) ==
  /\ todo' = [todo EXCEPT ![c] = Tail(@)]
  /\ call' = IF Len(todo[c]) = 1 THEN [call EXCEPT ![c] = None] ELSE call

Reads(c) ==
  /\ Next(c).op = "rd"
  /\ readWord' = [readWord EXCEPT ![c] = [word |-> Next(c).word, bits |-> reg[Next(c).word]]]
  /\ fresh' = IF Next(c).word.kind = "sta" THEN {} ELSE fresh
  /\ Advance(c) /\ UNCHANGED <<area, reg, got, asked, clash, calls, edges>>

Looks(c) ==
  /\ Next(c).op = "look"
  /\ got' = [got EXCEPT ![c] = reg[Next(c).word][CHOOSE f \in DOMAIN Next(c).to : TRUE]]
  /\ Advance(c) /\ UNCHANGED <<area, reg, readWord, asked, clash, fresh, calls, edges>>

Skips(c) == Next(c).op = "unless" /\ readWord[c].bits[Next(c).f] = Next(c).v

\* What a writing access gives to the fields it is about, and to the others.
MutGiven(c) ==                                      \* !current as an integer
  IF Next(c).op = "flip" THEN [f \in DOMAIN Next(c).to |-> 2 - got[c]] ELSE Next(c).to

Given(c) == IF Next(c).op = "flip" THEN [f \in DOMAIN Next(c).to |-> 1 - got[c]] ELSE Next(c).to
Others(c) == IF Next(c).op = "put" THEN [f \in DOMAIN reg[Next(c).word] |-> 0] ELSE readWord[c].bits

HoldsCopy(d, w) ==
  /\ readWord[d].word = w
  /\ \E i \in DOMAIN todo[d] :
       /\ todo[d][i].word = w /\ todo[d][i].op \in {"wr", "flip", "unless", "clear"}
       /\ \A j \in 1 .. i : todo[d][j].op # "rd"

Writes(c) ==
  LET w == Next(c).word
      value == Overlay(Given(c), Others(c))
  IN  /\ Next(c).op \in {"wr", "put", "flip", "unless"}
      /\ IF Skips(c) THEN UNCHANGED <<reg, readWord, asked, clash>>
         ELSE /\ reg' = [reg EXCEPT ![w] = [f \in DOMAIN @ |-> value[f]]]
              /\ readWord' = [readWord EXCEPT ![c] = IF Len(todo[c]) = 1 THEN NoCopy
                             ELSE IF Next(c).op = "put" THEN @ ELSE [@ EXCEPT !.bits = reg'[w]]]
              /\ asked' = [asked EXCEPT ![w] = Overlay(Given(c), @)]
              /\ clash' = IF \E d \in Contexts \ {c} : HoldsCopy(d, w)
                          THEN clash \cup {w} ELSE clash
      /\ Advance(c) /\ UNCHANGED <<area, got, fresh, calls, edges>>

\* The status register: a one clears, a zero does nothing.
Clears(c) ==
  LET w == Next(c).word
      ones == DOMAIN Next(c).to \cup {f \in DOMAIN reg[w] : readWord[c].bits[f] = 1}
  IN  /\ Next(c).op = "clear"
      /\ reg' = [reg EXCEPT ![w] = [f \in DOMAIN @ |-> IF f \in ones THEN 0 ELSE @[f]]]
      /\ fresh' = fresh \ ones
      /\ clash' = IF \E d \in Contexts \ {c} : HoldsCopy(d, w) THEN clash \cup {w} ELSE clash
      /\ readWord' = IF Len(todo[c]) = 1 THEN [readWord EXCEPT ![c] = NoCopy] ELSE readWord
      /\ Advance(c) /\ UNCHANGED <<area, got, asked, calls, edges>>

Access(c) == ~Idle(c) /\ Runs(c) /\ (Reads(c) \/ Looks(c) \/ Writes(c) \/ Clears(c))

RegStep == (\E c \in Callers : ThreadCalls(c)) \/ IrqTaken \/ Edge \/ (\E c \in Contexts : Access(c))

-----------------------------------------------------------------------------
\* No access invents a field or a word, a pin's data is a bit, and what is left to
\* do is an end of the call, and of the dispatch around it.
RegTypeOK ==
  /\ \A w \in DOMAIN reg : DOMAIN asked[w] = DOMAIN reg[w]
  /\ \A w \in DOMAIN reg : w.kind = "data" => \A f \in DOMAIN reg[w] : reg[w][f] \in {0, 1}
  /\ \A c \in Contexts : Len(todo[c]) <= Len(call[c].does) + 3
  /\ clash \subseteq DOMAIN reg /\ fresh \subseteq Pins

\* A field holds what it was last given, by whichever call, as long as no call
\* wrote its word while another had read it and not yet written it back: the
\* calls change their own pin, vector, gate or channel and nothing else.
UpdatesSurvive ==
  \A w \in DOMAIN reg \ clash : w.kind # "sta" => reg[w] = asked[w]

\* gpio::init_default never takes PE7 and PE8 from the console, not even between
\* two of its writes (gpio.rs:333, "disabling the TX pin mid-frame truncates
\* output").
ConsoleKept ==
  Booting => reg[CfgWord("E", 7)][7] = 5 /\ reg[CfgWord("E", 8)][8] = 5

\* A pin that direction_output turns into an output drives the value asked for
\* from the first moment, unless its data word was given another value meanwhile.
NoGlitch ==
  [][\A c \in Contexts :
       (/\ call[c].name = "direction_output" /\ todo'[c] = <<>> /\ todo[c] # <<>>
        /\ DataWord("E") \notin clash)
       => reg[DataWord("E")][call[c].of] = asked[DataWord("E")][call[c].of]
          /\ reg'[CfgWord("E", call[c].of)][call[c].of] = OUTPUT]_regVars

\* A status bit that rose after the last read of the status is cleared only by
\* the acknowledgement of its own pin, as long as one call at a time acknowledges
\* pins of the port.  (The bits that the acknowledging call did read are lost, and
\* a further edge on them: it writes every one of them back.)
UnseenEdgesKept ==
  [][StaWord("E") \notin clash => \A p \in fresh \ fresh' :
       \E c \in Contexts :
         /\ todo'[c] # todo[c] /\ ~Idle(c)
         /\ Next(c).op = "rd" \/ (Next(c).op = "clear" /\ call[c].of = p)]_regVars

\* No interrupt can be taken before it has a handler, at any point of install
\* and whoever else is changing the tables.
HandledIfEnabled ==
  \A v \in Vectors : reg[EnWord(v)][v] = 1 => reg[IsrEntry(v)][0] # 0

\* A channel's prescaler changes only while its clock is gated (pwm.rs:306),
\* whatever the other channel's calls do, short of a clash on the control word.
PrescalerChangesGated ==
  [][area = "pwm" => \A ch \in {0, 1} :
       (/\ PwmCtrl \notin clash'
        /\ reg'[PwmCtrl][Prescal(ch)] # reg[PwmCtrl][Prescal(ch)])
       => reg[PwmCtrl][Gating(ch)] = 0]_regVars

\* A peripheral that only bus_clk_init touches leaves reset with its clock running,
\* whatever is done to the neighbours in its words, short of a clash on the gates.
ResetWhileClocked ==
  [][(/\ area = "gates" /\ GateWord(Uart2) \notin clash
      /\ reg[ResetWord(Uart2)][Uart2[2]] = 0 /\ reg'[ResetWord(Uart2)][Uart2[2]] = 1)
     => reg[GateWord(Uart2)][Uart2[2]] = 1]_regVars

\* What holds at every moment of the drivers' calls, whoever else calls one: no
\* update is undone, the console keeps its pins, no interrupt lacks a handler.
RegistersKept == UpdatesSurvive /\ ConsoleKept /\ HandledIfEnabled

\* What no single access may do: glitch an output, drop an edge nobody has seen,
\* change a running prescaler, leave reset without a clock.
AccessesKept == NoGlitch /\ UnseenEdgesKept /\ PrescalerChangesGated /\ ResetWhileClocked
=============================================================================
