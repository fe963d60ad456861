---------------------------------- MODULE Lcd ----------------------------------
(***************************************************************************)
(* The display of src/src/lcd.rs: bring-up, framebuffer flips, and the     *)
(* vertical blanking seen by polling and by interrupt.  The timing         *)
(* controller and the display engine run on their own: frames begin and    *)
(* end between any two accesses of a thread.                               *)
(***************************************************************************)
EXTENDS Naturals, Sequences

CONSTANTS
  Buffers,        \* addresses of framebuffers
  LowModulus,     \* 2^29: what is left of an address in LAY_ADDR_L
  TIMEOUT_TICKS,  \* of wait_for_vsync
  MaxWatch,       \* bound: AVS ticks counted in one wait
  Pollers         \* the threads that call wait_for_vsync

ASSUME LcdAssumption ==
  /\ Buffers \subseteq Nat \ {0} /\ LowModulus \in Nat \ {0}
  /\ TIMEOUT_TICKS \in Nat /\ MaxWatch \in Nat /\ MaxWatch > TIMEOUT_TICKS

VARIABLES
  bringUp,   \* where init_all and start_display have got to
  inReset,   \* the blocks held in reset
  clocked,   \* the blocks whose clocks and gates are on
  timing,    \* the TCON0 timing registers are those of the panel
  layer,     \* layer 0: [lo, hi, set, on]
  tconOn, debeOn,
  blank,     \* the panel is in vertical blanking
  flag,      \* INT0 bit 15
  armed,     \* INT0 bit 31
  readback,  \* whether bit 31 reads as it was written
  polling,   \* [Pollers -> "out", "clear" or "poll"]
  sinceClear,\* [Pollers -> a blanking has begun since the poller cleared the flag]
  watch,     \* [Pollers -> ticks since then]
  saw,       \* how the last wait ended: "edge", "timeout" or "none"
  polled     \* a wait has written INT0 since the interrupt was last armed

lcdVars == <<bringUp, inReset, clocked, timing, layer, tconOn, debeOn, blank, flag, armed,
             readback, polling, sinceClear, watch, saw, polled>>

displayVars == <<bringUp, inReset, clocked, timing, layer, tconOn, debeOn>>
vblankVars == <<armed, readback, polling, sinceClear, watch, saw, polled>>

\* The front end, which scales a source no layer here takes; the back end, which
\* fetches the layers; the timing controller, which drives the panel.
Blocks == {"defe", "debe", "tcon"}

Blanked == [lo |-> 0, hi |-> 0, set |-> FALSE, on |-> FALSE]

LcdInit ==
  /\ bringUp = "off" /\ inReset = Blocks /\ clocked = {} /\ timing = FALSE
  /\ layer = Blanked /\ tconOn = FALSE /\ debeOn = FALSE
  /\ blank = FALSE /\ flag = FALSE /\ armed = FALSE /\ readback \in BOOLEAN
  /\ polling = [t \in Pollers |-> "out"] /\ watch = [t \in Pollers |-> 0]
  /\ sinceClear = [t \in Pollers |-> FALSE] /\ saw = "none" /\ polled = FALSE

-----------------------------------------------------------------------------
\* Bring-up: init resets, clocks and releases one block after the other.
Moves(from, to) == bringUp = from /\ bringUp' = to

\* The first of init's three resets, at the start or on a display that is on.
ResetDefe ==
  /\ Moves("off", "defe reset") \/ Moves("shown", "defe reset")
  /\ inReset' = inReset \cup {"defe"}
  /\ UNCHANGED <<clocked, timing, layer, tconOn, debeOn, blank, flag>> /\ UNCHANGED vblankVars

\* The back end loses its layers; a TCON that is on drives the panel from nothing.
ResetDebe ==
  /\ Moves("defe reset", "debe reset") /\ inReset' = inReset \cup {"debe"}
  /\ layer' = Blanked /\ debeOn' = FALSE
  /\ UNCHANGED <<clocked, timing, tconOn, blank, flag>> /\ UNCHANGED vblankVars

\* Now the panel goes dark, and INT0 is zero.
ResetTcon ==
  /\ Moves("debe reset", "reset") /\ inReset' = inReset \cup {"tcon"}
  /\ timing' = FALSE /\ tconOn' = FALSE /\ flag' = FALSE /\ armed' = FALSE
  /\ UNCHANGED <<clocked, layer, debeOn, blank, readback, polling, sinceClear, watch, saw, polled>>

ClockBlock(b, from, to) ==
  /\ Moves(from, to) /\ clocked' = clocked \cup {b}
  /\ UNCHANGED <<inReset, timing, layer, tconOn, debeOn, blank, flag>> /\ UNCHANGED vblankVars

\* defe_clk_enable, debe_clk_enable, tcon_clk_enable.
EnableClocks ==
  \/ ClockBlock("defe", "reset", "defe clocked")
  \/ ClockBlock("debe", "defe clocked", "debe clocked")
  \/ ClockBlock("tcon", "debe clocked", "clocked")

ReleaseBlock(b, from, to) ==
  /\ Moves(from, to) /\ inReset' = inReset \ {b}
  /\ UNCHANGED <<clocked, timing, layer, tconOn, debeOn, blank, flag>> /\ UNCHANGED vblankVars

DeassertResets ==
  \/ ReleaseBlock("defe", "clocked", "defe released")
  \/ ReleaseBlock("debe", "defe released", "debe released")
  \/ ReleaseBlock("tcon", "debe released", "running")

\* The DEBE is cleared and its layers set up, and tcon0_init programs the panel;
\* tcon_deinit writes into the DEBE's block and changes nothing of the TCON.
ProgramPanel ==
  /\ Moves("running", "programmed")
  /\ layer' = Blanked /\ debeOn' = FALSE /\ timing' = TRUE
  /\ UNCHANGED <<inReset, clocked, tconOn, blank, flag>> /\ UNCHANGED vblankVars

MutSetAddr(fb) ==                                   \* the low word not shifted
  [layer EXCEPT !.lo = fb, !.hi = fb \div LowModulus, !.set = TRUE]

\* debe_layer_set_addr: the address in bits, low word and high bits apart.
SetAddr(fb) == [layer EXCEPT !.lo = fb % LowModulus, !.hi = fb \div LowModulus, !.set = TRUE]

MutLayerInit ==                                     \* the layer enabled, its address later
  /\ Moves("programmed", "layered")
  /\ layer' = [layer EXCEPT !.on = TRUE]
  /\ UNCHANGED <<inReset, clocked, timing, tconOn, debeOn, blank, flag>> /\ UNCHANGED vblankVars

\* start_display: debe_layer_init, then output_enable, then the register update.
LayerInit ==
  /\ Moves("programmed", "layered")
  /\ \E fb \in Buffers : layer' = [SetAddr(fb) EXCEPT !.on = TRUE]
  /\ UNCHANGED <<inReset, clocked, timing, tconOn, debeOn, blank, flag>> /\ UNCHANGED vblankVars

OutputEnable ==
  /\ Moves("layered", "shown") \/ Moves("shown", "shown")
  /\ tconOn' = TRUE /\ debeOn' = TRUE
  /\ UNCHANGED <<inReset, clocked, timing, layer, blank, flag>> /\ UNCHANGED vblankVars

OutputDisable ==
  /\ Moves("shown", "shown") /\ tconOn' = FALSE /\ debeOn' = FALSE
  /\ UNCHANGED <<inReset, clocked, timing, layer, blank, flag>> /\ UNCHANGED vblankVars

\* flip_framebuffer: the new address, in effect at once.
FlipFramebuffer ==
  /\ bringUp = "shown" /\ \E fb \in Buffers : layer' = SetAddr(fb)
  /\ UNCHANGED <<bringUp, inReset, clocked, timing, tconOn, debeOn, blank, flag>>
  /\ UNCHANGED vblankVars

-----------------------------------------------------------------------------
\* INT0 is written: the status bit cleared, the enable bit as given.
WriteInt0(enable) == flag' = FALSE /\ armed' = enable

WaitCall(t) ==
  /\ polling[t] = "out" /\ polling' = [polling EXCEPT ![t] = "clear"]
  /\ UNCHANGED displayVars
  /\ UNCHANGED <<blank, flag, armed, readback, sinceClear, watch, saw, polled>>

MutWaitClear(t) ==                                  \* a stale flag is taken for an edge
  /\ polling[t] = "clear" /\ polling' = [polling EXCEPT ![t] = "poll"]
  /\ sinceClear' = [sinceClear EXCEPT ![t] = FALSE] /\ watch' = [watch EXCEPT ![t] = 0]
  /\ UNCHANGED displayVars /\ UNCHANGED <<blank, flag, armed, readback, saw, polled>>

\* wait_for_vsync writes zero to INT0, enable bit and all.
WaitClear(t) ==
  /\ polling[t] = "clear" /\ polling' = [polling EXCEPT ![t] = "poll"]
  /\ WriteInt0(FALSE) /\ polled' = TRUE
  /\ sinceClear' = [sinceClear EXCEPT ![t] = FALSE] /\ watch' = [watch EXCEPT ![t] = 0]
  /\ UNCHANGED displayVars /\ UNCHANGED <<blank, readback, saw>>

Returns(t, how) ==
  /\ polling[t] = "poll" /\ polling' = [polling EXCEPT ![t] = "out"]
  /\ saw' = how /\ watch' = [watch EXCEPT ![t] = 0]
  /\ UNCHANGED displayVars /\ UNCHANGED <<blank, flag, armed, readback, sinceClear, polled>>

WaitSees(t) == flag /\ Returns(t, "edge")

\* The flag is looked at before the watchdog.
WaitGivesUp(t) == ~flag /\ watch[t] >= TIMEOUT_TICKS /\ Returns(t, "timeout")

EnableVblankIrq ==
  /\ WriteInt0(TRUE) /\ polled' = FALSE
  /\ UNCHANGED displayVars /\ UNCHANGED <<blank, readback, polling, sinceClear, watch, saw>>

MutVblankIsr ==                                     \* acknowledged by read-modify-write
  /\ flag /\ armed
  /\ flag' = FALSE /\ armed' = readback
  /\ UNCHANGED displayVars
  /\ UNCHANGED <<blank, readback, polling, sinceClear, watch, saw, polled>>

\* The handler: vblank_irq_pending, then clear_vblank_irq, which writes the enable
\* bit and does not trust its readback.
VblankIsr ==
  /\ flag /\ armed
  /\ WriteInt0(TRUE)
  /\ UNCHANGED displayVars
  /\ UNCHANGED <<blank, readback, polling, sinceClear, watch, saw, polled>>

\* The panel: blanking begins and sets the flag, enabled or not, and ends.
BlankBegins ==
  /\ tconOn /\ "tcon" \notin inReset /\ ~blank /\ blank' = TRUE /\ flag' = TRUE
  /\ sinceClear' = [t \in Pollers |-> polling[t] = "poll" \/ sinceClear[t]]
  /\ UNCHANGED displayVars /\ UNCHANGED <<armed, readback, polling, watch, saw, polled>>

BlankEnds ==
  /\ blank /\ blank' = FALSE
  /\ UNCHANGED displayVars /\ UNCHANGED flag /\ UNCHANGED vblankVars

\* A tick of AVS_CNT1, which delay_us does not reset.
WatchTick ==
  /\ \A t \in Pollers : watch[t] < MaxWatch
  /\ watch' = [t \in Pollers |-> IF polling[t] = "poll" THEN watch[t] + 1 ELSE 0]
  /\ UNCHANGED displayVars /\ UNCHANGED <<blank, flag, armed, readback, polling, sinceClear, saw, polled>>

LcdStep ==
  \/ ResetDefe \/ ResetDebe \/ ResetTcon \/ EnableClocks \/ DeassertResets \/ ProgramPanel \/ LayerInit
  \/ OutputEnable \/ OutputDisable \/ FlipFramebuffer
  \/ \E t \in Pollers : WaitCall(t) \/ WaitClear(t) \/ WaitSees(t) \/ WaitGivesUp(t)
  \/ EnableVblankIrq \/ VblankIsr \/ BlankBegins \/ BlankEnds \/ WatchTick

-----------------------------------------------------------------------------
LcdTypeOK ==
  /\ bringUp \in {"off", "defe reset", "debe reset", "reset", "defe clocked", "debe clocked",
                 "clocked", "defe released", "debe released", "running", "programmed",
                 "layered", "shown"}
  /\ inReset \subseteq Blocks /\ clocked \subseteq Blocks
  /\ layer.lo \in 0 .. LowModulus - 1
  /\ watch \in [Pollers -> 0 .. MaxWatch] /\ saw \in {"none", "edge", "timeout"}

\* What the panel is driven with: the back end and the TCON run, with their clocks,
\* the panel's timing and a layer that has a framebuffer.
DrivenWell ==
  /\ {"debe", "tcon"} \cap inReset = {} /\ clocked = Blocks
  /\ timing /\ layer.set /\ layer.on

\* In every order of init, start_display, flips, output on and off and further
\* initialisations the back end is on only with all that the panel needs, and so is
\* the TCON, but for one moment: init on a display that is on resets the DEBE before
\* the TCON (lcd.rs:640-641), and between the two the panel is driven from a block in
\* reset.  The moment lasts one step of init and comes at no other place.
ShowsABuffer ==
  /\ debeOn => DrivenWell
  /\ tconOn => DrivenWell \/ bringUp = "debe reset"

\* A wait that ends on the flag ends on a blanking that began after it was called
\* (lcd.rs:525, "returns at the *next* vblank edge rather than on a stale flag"),
\* whatever other pollers and the interrupt handler do to the flag.
EdgeIsFresh ==
  [][\A t \in Pollers :
       polling[t] = "poll" /\ polling'[t] = "out" /\ saw' = "edge" => sinceClear[t]]_lcdVars

\* The vblank interrupt, once armed, is armed after any number of interrupts, even
\* if its bit does not read back, until somebody polls (lcd.rs:573) or init resets the
\* TCON.
StaysArmed ==
  [][armed /\ ~armed' => polled' \/ "tcon" \in inReset']_lcdVars
=============================================================================
