--------------------------------- MODULE Pwm ---------------------------------
(***************************************************************************)
(* The two PWM channels of src/src/pwm.rs, which share the control word.   *)
(* A channel's fields lie CH_OFFSET bits apart: its prescaler, and the     *)
(* bits below.                                                             *)
(***************************************************************************)
EXTENDS Gpio

CH_OFFSET == 15
Prescal(ch) == ch * CH_OFFSET
En(ch) == ch * CH_OFFSET + 4
ActState(ch) == ch * CH_OFFSET + 5
Gating(ch) == ch * CH_OFFSET + 6
SingleMode(ch) == ch * CH_OFFSET + 7

PwmCtrl == Word("pwm", "", 0)
PwmPrd(ch) == Word("prd", "", ch)

Disable(ch) == <<Rd(PwmCtrl), Wr(PwmCtrl, [f \in {Gating(ch), En(ch)} |-> 0])>>
Enable(ch) == <<Rd(PwmCtrl), Wr(PwmCtrl, [f \in {Gating(ch), En(ch)} |-> 1])>>

\* init: the pin's function and pull, then the channel off.
PwmInit(ch, port, pin) ==
  SetFunction(port, pin, 2) \o SetPullMode(port, pin, 0) \o Disable(ch)

\* The last write of configure: polarity and mode, and the prescaler if it is
\* another one.
PwmSettings(ch, c) ==
  Overlay(Field(ActState(ch), c.act),
          Overlay(Field(SingleMode(ch), c.mode), Field(Prescal(ch), c.prescal)))

MutConfigure(ch, c) ==                              \* the prescaler changed under way
  <<Rd(PwmCtrl), Put(PwmPrd(ch), Overlay(Field(0, c.dty), Field(16, c.prd))),
    Wr(PwmCtrl, PwmSettings(ch, c))>>

\* configure: another prescaler is written only after a write that gates the
\* channel's clock.
Configure(ch, c) ==
  <<Rd(PwmCtrl), WrUnless(PwmCtrl, Prescal(ch), c.prescal, Field(Gating(ch), 0)),
    Put(PwmPrd(ch), Overlay(Field(0, c.dty), Field(16, c.prd))), Wr(PwmCtrl, PwmSettings(ch, c))>>

ChannelCalls(ch, configs) ==
  {Call("enable", ch, Enable(ch)), Call("disable", ch, Disable(ch)),
   Call("init", ch, PwmInit(ch, "E", 6))}
  \cup {Call("configure", ch, Configure(ch, c)) : c \in configs}

PwmCalls(configs) == UNION {ChannelCalls(ch, configs) : ch \in {0, 1}}
=============================================================================
