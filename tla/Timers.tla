-------------------------------- MODULE Timers --------------------------------
(***************************************************************************)
(* The timer channels of src/src/timer.rs, the interrupts they raise, and  *)
(* the 1 kHz system tick on channel 0.  A channel has one owner            *)
(* (timer.rs:160), who makes its calls one after the other; an interrupt   *)
(* may come between any two steps of a call.  Channels share the IRQ_EN    *)
(* word, whose updates are one step each here.                             *)
(***************************************************************************)
EXTENDS Naturals, FiniteSets

CONSTANTS
  Channels,     \* the channels in use
  Intervals,    \* the intervals they are started with
  CurvModulus,  \* the width of the counter registers
  MaxShots      \* bound: underflows counted after a start

ASSUME TimersAssumption ==
  /\ 0 \in Channels /\ Intervals \subseteq 1 .. CurvModulus - 1
  /\ CurvModulus \in Nat \ {0, 1} /\ MaxShots \in Nat \ {0}

Modes == {"Periodic", "OneShot"}
Isrs == {"default_handler", "timer_isr", "systick_isr"}

VARIABLES
  ctrl,      \* [Channels -> [en, oneshot]]
  intv,      \* [Channels -> the interval to reload]
  curv,      \* [Channels -> the counter]
  irqEn,     \* IRQ_EN
  irqSta,    \* IRQ_STA
  isrOf,     \* ISR_TABLE; default_handler also stands for not enabled in INTC
  unmasked,  \* the channels whose vector is unmasked in INTC
  callback,  \* [Channels -> BOOLEAN]: TIMER_CALLBACKS is set
  doing,     \* [Channels -> the owner's call, "none" between calls]
  old,       \* [Channels -> the counter stop has read]
  wanted,    \* [Channels -> the configuration still to be written]
  modeAsked, \* [Channels -> the mode of the last start]
  shots,     \* [Channels -> underflows since then]
  dropped,   \* an interrupt was cleared without anybody being told
  rearms     \* the application's callbacks start their channel again

timerVars == <<ctrl, intv, curv, irqEn, irqSta, isrOf, unmasked, callback, doing,
               old, wanted, modeAsked, shots, dropped, rearms>>

Settings == [mode : Modes, interval : Intervals]

TimersInit ==
  /\ ctrl = [c \in Channels |-> [en |-> FALSE, oneshot |-> FALSE]]
  /\ intv = [c \in Channels |-> 1] /\ curv = [c \in Channels |-> 0]
  /\ irqEn = {} /\ irqSta = {} /\ unmasked = {}
  /\ isrOf = [c \in Channels |-> "default_handler"]
  /\ callback = [c \in Channels |-> FALSE]
  /\ doing = [c \in Channels |-> "none"]
  /\ old = [c \in Channels |-> 0]
  /\ wanted = [c \in Channels |-> [mode |-> "Periodic", interval |-> 1]]
  /\ modeAsked = [c \in Channels |-> "Periodic"]
  /\ shots = [c \in Channels |-> 0]
  /\ dropped = FALSE /\ rearms \in BOOLEAN

TimerMoves(c, from, to) == doing[c] = from /\ doing' = [doing EXCEPT ![c] = to]

-----------------------------------------------------------------------------
\* stop: the channel is disabled and its counter read.
BeginStop(c, then) ==
  /\ ctrl' = [ctrl EXCEPT ![c].en = FALSE]
  /\ old' = [old EXCEPT ![c] = curv[c]]
  /\ doing' = [doing EXCEPT ![c] = then]

Stop(c) ==
  /\ doing[c] = "none" /\ BeginStop(c, "stop")
  /\ UNCHANGED <<intv, curv, irqEn, irqSta, isrOf, unmasked, callback, wanted, modeAsked, shots, dropped, rearms>>

\* stop returns once the counter it has just disabled is three ticks further.
StopDone(c) ==
  /\ (old[c] + CurvModulus - curv[c]) % CurvModulus >= 3
  /\ \/ TimerMoves(c, "stop", "none")
     \/ TimerMoves(c, "configure-stop", "configure")
     \/ TimerMoves(c, "oneshot-stop", "oneshot")
     \/ TimerMoves(c, "systick-stop", "systick")
  /\ UNCHANGED <<ctrl, intv, curv, irqEn, irqSta, isrOf, unmasked, callback, old, wanted,
                 modeAsked, shots, dropped, rearms>>

Stopping == [configure |-> "configure-stop", oneshot |-> "oneshot-stop", systick |-> "systick-stop"]

MutBeginConfigure(c) ==                             \* the channel is left running
  /\ doing[c] = "none"
  /\ \E call \in {"configure", "oneshot"}, k \in Settings :
       /\ call = "oneshot" => k.mode = "OneShot"
       /\ wanted' = [wanted EXCEPT ![c] = k]
       /\ doing' = [doing EXCEPT ![c] = call]
  /\ UNCHANGED <<ctrl, intv, curv, irqEn, irqSta, isrOf, unmasked, callback, old, modeAsked,
                 shots, dropped, rearms>>

\* configure, start_oneshot_us and systick_init begin alike: a channel that runs
\* is stopped first.
BeginConfigure(c) ==
  /\ doing[c] = "none"
  /\ \E call \in {"configure", "oneshot", "systick"}, k \in Settings :
       /\ call = "systick" => c = 0 /\ k.mode = "Periodic"
       /\ call = "oneshot" => k.mode = "OneShot"
       /\ wanted' = [wanted EXCEPT ![c] = k]
       /\ IF ctrl[c].en THEN BeginStop(c, Stopping[call])
          ELSE doing' = [doing EXCEPT ![c] = call] /\ UNCHANGED <<ctrl, old>>
  /\ UNCHANGED <<intv, curv, irqEn, irqSta, isrOf, unmasked, callback, modeAsked, shots, dropped, rearms>>

\* The control word and the interval are written.
MutConfigureRegs(c) ==                              \* the mode bit is only ever set
  /\ ctrl' = [ctrl EXCEPT ![c] = [en |-> FALSE, oneshot |-> FALSE]]
  /\ intv' = [intv EXCEPT ![c] = wanted[c].interval]

ConfigureRegs(c) ==
  /\ ctrl' = [ctrl EXCEPT ![c] = [en |-> FALSE, oneshot |-> wanted[c].mode = "OneShot"]]
  /\ intv' = [intv EXCEPT ![c] = wanted[c].interval]

TimerConfigure(c) ==
  /\ \/ TimerMoves(c, "configure", "none")
     \/ TimerMoves(c, "oneshot", "oneshot-enable")
     \/ TimerMoves(c, "systick", "systick-install")
  /\ ConfigureRegs(c)
  /\ UNCHANGED <<curv, irqEn, irqSta, isrOf, unmasked, callback, old, wanted, modeAsked, shots, dropped, rearms>>

\* The channel is enabled; RELOAD loads the counter.
Enabled(c, mode) ==
  /\ curv' = [curv EXCEPT ![c] = intv'[c]]
  /\ modeAsked' = [modeAsked EXCEPT ![c] = mode]
  /\ shots' = [shots EXCEPT ![c] = 0]

\* start, by the application or at the end of systick_init.
StartRegs(c, interval, mode) ==
  /\ intv' = [intv EXCEPT ![c] = interval]
  /\ ctrl' = [ctrl EXCEPT ![c] = [en |-> TRUE, oneshot |-> mode = "OneShot"]]
  /\ Enabled(c, mode)

Start(c) ==
  /\ doing[c] = "none"
  /\ \E k \in Settings : StartRegs(c, k.interval, k.mode)
  /\ UNCHANGED <<irqEn, irqSta, isrOf, unmasked, callback, doing, old, wanted, dropped, rearms>>

\* start_oneshot_us relies on the mode that its configure has written.
OneshotEnable(c) ==
  /\ TimerMoves(c, "oneshot-enable", "none")
  /\ ctrl' = [ctrl EXCEPT ![c].en = TRUE]
  /\ UNCHANGED intv /\ Enabled(c, "OneShot")
  /\ UNCHANGED <<irqEn, irqSta, isrOf, unmasked, callback, old, wanted, dropped, rearms>>

-----------------------------------------------------------------------------
SetEntry(c, isr) == isrOf' = [isrOf EXCEPT ![c] = isr]

MutInstallCallback(c) ==                            \* the ISR goes in first
  /\ \/ TimerMoves(c, "none", "install-isr") /\ SetEntry(c, "timer_isr")
     \/ doing[c] = "none" /\ UNCHANGED <<doing, isrOf>>
  /\ UNCHANGED <<ctrl, intv, curv, irqEn, irqSta, unmasked, callback, old, wanted,
                 modeAsked, shots, dropped, rearms>>

\* install_interrupt, or set_callback alone: the callback is stored.
InstallCallback(c) ==
  /\ callback' = [callback EXCEPT ![c] = TRUE]
  /\ TimerMoves(c, "none", "install-isr") \/ TimerMoves(c, "none", "none")
  /\ UNCHANGED <<ctrl, intv, curv, irqEn, irqSta, isrOf, unmasked, old, wanted,
                 modeAsked, shots, dropped, rearms>>

\* Then the ISR of the channel, and then the channel's bit of IRQ_EN.
InstallIsr(c) ==
  /\ TimerMoves(c, "install-isr", "install-enable") /\ SetEntry(c, "timer_isr")
  /\ UNCHANGED <<ctrl, intv, curv, irqEn, irqSta, unmasked, callback, old, wanted,
                 modeAsked, shots, dropped, rearms>>

\* enable_interrupt, on its own or at the end of install_interrupt.
EnableInterrupt(c) ==
  /\ irqEn' = irqEn \cup {c}
  /\ TimerMoves(c, "install-enable", "none") \/ TimerMoves(c, "none", "none")
  /\ UNCHANGED <<ctrl, intv, curv, irqSta, isrOf, unmasked, callback, old, wanted,
                 modeAsked, shots, dropped, rearms>>

DisableInterrupt(c) ==
  /\ irqEn' = irqEn \ {c} /\ TimerMoves(c, "none", "none")
  /\ UNCHANGED <<ctrl, intv, curv, irqSta, isrOf, unmasked, callback, old, wanted,
                 modeAsked, shots, dropped, rearms>>

\* clear_interrupt is the owner's way to poll the channel.
ClearInterrupt(c) ==
  /\ irqSta' = irqSta \ {c} /\ TimerMoves(c, "none", "none")
  /\ UNCHANGED <<ctrl, intv, curv, irqEn, isrOf, unmasked, callback, old, wanted,
                 modeAsked, shots, dropped, rearms>>

\* interrupt::unmask of the channel's vector: systick_init does it, and for the
\* other users the application has to.
UnmaskVector(c) ==
  /\ unmasked' = unmasked \cup {c} /\ TimerMoves(c, "none", "none")
  /\ UNCHANGED <<ctrl, intv, curv, irqEn, irqSta, isrOf, callback, old, wanted,
                 modeAsked, shots, dropped, rearms>>

SystickInstall ==
  /\ TimerMoves(0, "systick-install", "systick-start") /\ SetEntry(0, "systick_isr")
  /\ unmasked' = unmasked \cup {0}
  /\ UNCHANGED <<ctrl, intv, curv, irqEn, irqSta, callback, old, wanted, modeAsked, shots, dropped, rearms>>

SystickStart ==
  /\ TimerMoves(0, "systick-start", "none")
  /\ StartRegs(0, wanted[0].interval, "Periodic")
  /\ UNCHANGED <<irqEn, irqSta, isrOf, unmasked, callback, old, wanted, dropped, rearms>>

-----------------------------------------------------------------------------
\* The counter goes down; at zero it flags the channel, and reloads or stops.
Count(c) ==
  /\ ctrl[c].en
  /\ IF curv[c] > 0
     THEN /\ curv' = [curv EXCEPT ![c] = @ - 1]
          /\ UNCHANGED <<ctrl, irqSta, shots>>
     ELSE /\ irqSta' = irqSta \cup {c}
          /\ shots' = [shots EXCEPT ![c] = IF @ < MaxShots THEN @ + 1 ELSE @]
          /\ IF ctrl[c].oneshot
             THEN ctrl' = [ctrl EXCEPT ![c].en = FALSE] /\ UNCHANGED curv
             ELSE curv' = [curv EXCEPT ![c] = intv[c]] /\ UNCHANGED ctrl
  /\ UNCHANGED <<intv, irqEn, isrOf, unmasked, callback, doing, old, wanted, modeAsked, dropped, rearms>>

Raised(c) == c \in irqSta /\ c \in irqEn /\ c \in unmasked /\ isrOf[c] # "default_handler"

\* timer0_isr to timer2_isr: the flag is cleared, and the callback called if there
\* is one.  A callback may start its channel again.
TimerIsr(c) ==
  /\ Raised(c) /\ isrOf[c] = "timer_isr"
  /\ irqSta' = irqSta \ {c}
  /\ dropped' = (dropped \/ ~callback[c])
  /\ IF rearms /\ callback[c]
     THEN \E n \in Intervals : StartRegs(c, n, "OneShot")
     ELSE UNCHANGED <<ctrl, intv, curv, modeAsked, shots>>
  /\ UNCHANGED <<irqEn, isrOf, unmasked, callback, doing, old, wanted, rearms>>

\* systick_isr counts the tick.
SystickIsr ==
  /\ Raised(0) /\ isrOf[0] = "systick_isr"
  /\ irqSta' = irqSta \ {0}
  /\ UNCHANGED <<ctrl, intv, curv, irqEn, isrOf, unmasked, callback, doing, old, wanted,
                 modeAsked, shots, dropped, rearms>>

TimersStep ==
  \/ \E c \in Channels :
       \/ Stop(c) \/ StopDone(c) \/ BeginConfigure(c) \/ TimerConfigure(c) \/ Start(c)
       \/ OneshotEnable(c) \/ InstallCallback(c) \/ InstallIsr(c) \/ EnableInterrupt(c)
       \/ DisableInterrupt(c) \/ ClearInterrupt(c) \/ UnmaskVector(c) \/ Count(c) \/ TimerIsr(c)
  \/ SystickInstall \/ SystickStart \/ SystickIsr

-----------------------------------------------------------------------------
TimersTypeOK ==
  /\ ctrl \in [Channels -> [en : BOOLEAN, oneshot : BOOLEAN]]
  /\ intv \in [Channels -> Intervals \cup {1}] /\ curv \in [Channels -> 0 .. CurvModulus - 1]
  /\ isrOf \in [Channels -> Isrs]
  /\ wanted \in [Channels -> [mode : Modes, interval : Intervals \cup {1}]]

\* A channel started for one shot flags at most one underflow until the next
\* start, through whatever calls of its owner and interrupts.
OneShotIsOne ==
  \A c \in Channels : modeAsked[c] = "OneShot" => shots[c] <= 1

\* An interrupt is never taken and cleared before there is a callback to tell:
\* the order callback, handler, enable matters because the channel may be enabled
\* and flagged already.
NoneDropped == ~dropped

\* While a channel is being stopped or configured it does not run (timer.rs:218,
\* "Must stop before reconfiguring"), unless its callback starts it again.
StillWhileConfigured ==
  rearms \/ \A c \in Channels :
    doing[c] \in {"stop", "configure", "configure-stop", "oneshot", "oneshot-stop", "oneshot-enable",
                  "systick", "systick-stop", "systick-install"} => ~ctrl[c].en

\* What may disturb a channel does not: no second shot, no interrupt lost in an
\* installation, no running while it is set up.  How often a periodic channel
\* interrupts is not said here, nor that it does at all: after systick_init it does
\* not, since nobody sets its bit of IRQ_EN (timer.rs:496).
TimersKept == OneShotIsOne /\ NoneDropped /\ StillWhileConfigured
=============================================================================
