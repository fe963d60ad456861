--------------------------------- MODULE Clock ---------------------------------
(***************************************************************************)
(* The clock tree of src/src/clock.rs: init_default, register by register, *)
(* and what the getters read back.  The PLLs are external: one that is     *)
(* enabled locks after a while, and loses its lock when it is programmed.  *)
(* Rates are in kHz.                                                       *)
(***************************************************************************)
EXTENDS Integers, FiniteSets

CONSTANTS
  Ratios   \* [mul, div] asked of the CPU's PLL; init_default asks for 17 and 1

ASSUME ClockAssumption == Ratios \subseteq [mul : 1 .. 128, div : 1 .. 16]

Plls == {"CPU", "PERIPH", "VIDEO"}
Sources == {"LOSC", "OSC24M", "PLL"}

VARIABLES
  pll,     \* [Plls -> [on, n, k, m, p]]: the fields as they are encoded
  locked,  \* [Plls -> BOOLEAN]
  cpuSrc,  \* CPU_CFG
  bus,     \* AHB_APB_CFG: [src, pre, div, apb], encoded
  step,    \* of init_default
  ratio,   \* what this behaviour asks of the CPU's PLL
  refused, \* pll_cpu_init has no encoding of it
  gaveUp   \* a wait_pll_stable has timed out

clockVars == <<pll, locked, cpuSrc, bus, step, ratio, refused, gaveUp>>

Off == [on |-> FALSE, n |-> 0, k |-> 0, m |-> 0, p |-> 0]
Warm == [CPU    |-> [Off EXCEPT !.on = TRUE, !.n = 16],
         PERIPH |-> [Off EXCEPT !.on = TRUE, !.n = 24],
         VIDEO  |-> [Off EXCEPT !.on = TRUE, !.n = 98, !.m = 7]]

\* The boot ROM leaves the CPU on any source and the buses on the oscillator, or
\* an earlier init_default has left its settings.
ClockInit ==
  /\ cpuSrc \in Sources
  /\ \/ /\ pll = [c \in Plls |-> [Off EXCEPT !.on = (c = "CPU" /\ cpuSrc = "PLL")]]
        /\ bus = [src |-> 1, pre |-> 0, div |-> 0, apb |-> 0]
     \/ /\ pll = Warm /\ cpuSrc = "PLL"
        /\ bus = [src |-> 3, pre |-> 2, div |-> 0, apb |-> 1]
  /\ locked = [c \in Plls |-> pll[c].on]
  /\ step = "cpu to 24M" /\ ratio \in Ratios /\ refused = FALSE /\ gaveUp = FALSE

-----------------------------------------------------------------------------
\* The getters.
Hz24M == 24000
PllKhz(c) ==
  IF ~pll[c].on THEN 0
  ELSE CASE c = "CPU" -> (Hz24M * (pll[c].n + 1) * (pll[c].k + 1))
                           \div ((pll[c].m + 1) * 2 ^ pll[c].p)
         [] c = "PERIPH" -> Hz24M * (pll[c].n + 1) * (pll[c].k + 1)
         [] c = "VIDEO" -> (Hz24M * (pll[c].n + 1)) \div (pll[c].m + 1)

CpuKhz == CASE cpuSrc = "PLL" -> PllKhz("CPU") [] cpuSrc = "OSC24M" -> Hz24M [] OTHER -> 32

AhbKhz ==
  (CASE bus.src = 0 -> 32 [] bus.src = 1 -> Hz24M [] bus.src = 2 -> PllKhz("CPU")
     [] bus.src = 3 -> PllKhz("PERIPH") \div (bus.pre + 1)) \div 2 ^ bus.div

ApbKhz == AhbKhz \div (CASE bus.apb = 2 -> 4 [] bus.apb = 3 -> 8 [] OTHER -> 2)

-----------------------------------------------------------------------------
Goes(from, to) == step = from /\ step' = to

\* A PLL is programmed; its enable bit is kept.
SetPll(c, fields) ==
  /\ pll' = [pll EXCEPT ![c] = [fields EXCEPT !.on = pll[c].on]]
  /\ locked' = [locked EXCEPT ![c] = FALSE]

MutClkCpuConfig(src) == UNCHANGED cpuSrc            \* the source field left as it is

ClkCpuConfig(src) == cpuSrc' = src

MutFactorK(mul) ==                                  \* n not compared with 32
  LET ks == {k \in 1 .. 4 : (mul \div k) * k = mul}
  IN  CHOOSE k \in ks : \A j \in ks : k <= j

\* The first k of 1 to 4 for which mul is k times an n below 32, or else 4; and
\* the like for div.
FactorK(mul) ==
  LET ks == {k \in 1 .. 4 : mul \div k < 32 /\ (mul \div k) * k = mul}
  IN  IF ks = {} THEN 4 ELSE CHOOSE k \in ks : \A j \in ks : k <= j

FactorM(div) ==
  LET ms == {m \in 1 .. 4 : div \div m \in {1, 2, 4} /\ (div \div m) * m = div}
  IN  IF ms = {} THEN 4 ELSE CHOOSE m \in ms : \A j \in ms : m <= j

Encodable(mul, div) ==
  /\ (mul \div FactorK(mul)) * FactorK(mul) = mul
  /\ (div \div FactorM(div)) * FactorM(div) = div

MutEncodeP(p) == p - 1                              \* the third setting is 4 too

EncodeP(p) == IF p - 1 = 3 THEN 2 ELSE p - 1

PllCpuInit(mul, div) ==
  IF Encodable(mul, div)
  THEN /\ SetPll("CPU", [on |-> FALSE, n |-> (mul \div FactorK(mul)) - 1, k |-> FactorK(mul) - 1,
                         m |-> FactorM(div) - 1, p |-> EncodeP(div \div FactorM(div))])
       /\ UNCHANGED refused
  ELSE refused' = TRUE /\ UNCHANGED <<pll, locked>>

MutPllPeriphInit(mul, div) ==                       \* the field is not less one
  SetPll("PERIPH", [Off EXCEPT !.n = mul - 1, !.k = div])

\* div goes to the field of a factor.
PllPeriphInit(mul, div) == SetPll("PERIPH", [Off EXCEPT !.n = mul - 1, !.k = div - 1])

PllVideoInit(mul, div) == SetPll("VIDEO", [Off EXCEPT !.n = mul - 1, !.m = div - 1])

ClkEnable(c) == pll' = [pll EXCEPT ![c].on = TRUE] /\ UNCHANGED locked

MutClkAhbConfig(src, pre, div) ==                   \* the pre-divider less two
  bus' = [bus EXCEPT !.src = src, !.pre = pre - 2, !.div = div - 1]

\* clk_ahb_config: the field of the divider is an exponent, yet div - 1 is put
\* there, with 3 for both 4 and 8.
ClkAhbConfig(src, pre, div) ==
  bus' = [bus EXCEPT !.src = src, !.pre = pre - 1, !.div = IF div = 8 THEN 3 ELSE div - 1]

ClkApbConfig(div) ==
  bus' = [bus EXCEPT !.apb = CASE div \in {1, 2} -> 1 [] div = 4 -> 2 [] div = 8 -> 3]

SetCpu(from, src, to) ==
  /\ Goes(from, to) /\ ClkCpuConfig(src)
  /\ UNCHANGED <<pll, locked, bus, ratio, refused, gaveUp>>

ProgramPlls ==
  /\ \/ Goes("periph", "periph on") /\ PllPeriphInit(25, 1) /\ UNCHANGED refused
     \/ Goes("video", "video on") /\ PllVideoInit(99, 8) /\ UNCHANGED refused
     \/ Goes("cpu", "cpu on") /\ PllCpuInit(ratio.mul, ratio.div)
  /\ UNCHANGED <<cpuSrc, bus, ratio, gaveUp>>

ClkPllEnable ==
  /\ \/ Goes("periph on", "periph wait") /\ ClkEnable("PERIPH")
     \/ Goes("video on", "video wait") /\ ClkEnable("VIDEO")
     \/ Goes("cpu on", "cpu wait") /\ ClkEnable("CPU")
  /\ UNCHANGED <<cpuSrc, bus, ratio, refused, gaveUp>>

MutPolled(c) == UNCHANGED gaveUp                    \* the bit is not looked at

\* wait_pll_stable polls so many times; init_default goes on whatever it returns.
Polled(c) == IF locked[c] THEN UNCHANGED gaveUp ELSE gaveUp' = TRUE

WaitPllStable ==
  /\ \/ Goes("periph wait", "ahb") /\ Polled("PERIPH")
     \/ Goes("video wait", "cpu") /\ Polled("VIDEO")
     \/ Goes("cpu wait", "cpu to PLL") /\ Polled("CPU")
  /\ UNCHANGED <<pll, locked, cpuSrc, bus, ratio, refused>>

SetBus ==
  /\ \/ Goes("ahb", "apb") /\ ClkAhbConfig(3, 3, 1)
     \/ Goes("apb", "video") /\ ClkApbConfig(2)
  /\ UNCHANGED <<pll, locked, cpuSrc, ratio, refused, gaveUp>>

PllLocks ==
  /\ \E c \in Plls : pll[c].on /\ ~locked[c] /\ locked' = [locked EXCEPT ![c] = TRUE]
  /\ UNCHANGED <<pll, cpuSrc, bus, step, ratio, refused, gaveUp>>

ClockStep ==
  \/ SetCpu("cpu to 24M", "OSC24M", "periph") \/ SetCpu("cpu to PLL", "PLL", "done")
  \/ ProgramPlls \/ ClkPllEnable \/ WaitPllStable \/ SetBus \/ PllLocks

-----------------------------------------------------------------------------
\* Every field fits the bits it is written to.
ClockTypeOK ==
  /\ \A c \in Plls : pll[c].k \in 0 .. 3 /\ pll[c].m \in 0 .. 15 /\ pll[c].p \in 0 .. 3
  /\ pll["CPU"].n \in 0 .. 31 /\ pll["PERIPH"].n \in 0 .. 31 /\ pll["VIDEO"].n \in 0 .. 127
  /\ bus \in [src : 0 .. 3, pre : 0 .. 3, div : 0 .. 3, apb : 0 .. 3]

\* The PLL the CPU runs on is never programmed under it, also when the boot ROM or
\* an earlier init_default has left the CPU on it.
CpuPllStill == [][pll'["CPU"] # pll["CPU"] => cpuSrc # "PLL"]_clockVars

\* The CPU is moved to a PLL that has locked, unless a wait has timed out.
CpuOnLockedPll == [][cpuSrc # "PLL" /\ cpuSrc' = "PLL" => locked["CPU"] \/ gaveUp]_clockVars

\* The buses never run faster than the rates the tree is drawn with, at any step
\* (clock.rs:13, "(200 MHz)", "(100 MHz)").
BusInLimits == AhbKhz <= 200000 /\ ApbKhz <= 100000

\* At the end the getters report what was asked: 600, 297, 200 and 100 MHz
\* (clock.rs:667), and for the CPU's PLL any ratio that was not refused, exactly.
RatesAsAsked ==
  step = "done" =>
    /\ PllKhz("PERIPH") = 600000 /\ PllKhz("VIDEO") = 297000
    /\ AhbKhz = 200000 /\ ApbKhz = 100000
    /\ ~refused => CpuKhz = (Hz24M * ratio.mul) \div ratio.div

\* The tree runs in its limits on the way, and at the rates asked for at its end
\* (clock.rs:666-701).
ClocksKept == BusInLimits /\ RatesAsAsked
=============================================================================
