--------------------------------- MODULE Gpio ---------------------------------
(***************************************************************************)
(* src/src/gpio.rs: what each call reads and writes.  A port has four      *)
(* function words of eight pins, one data word, two words each for pulls   *)
(* and drive strength, and, on ports D to F, interrupt words.              *)
(***************************************************************************)
EXTENDS Access

INPUT == 0
OUTPUT == 1
DISABLE == 7

CfgWord(port, pin) == Word("cfg", port, pin \div 8)
DataWord(port) == Word("data", port, 0)
PullWord(port, pin) == Word("pull", port, pin \div 16)
DriveWord(port, pin) == Word("drive", port, pin \div 16)
IrqCfgWord(port, pin) == Word("irqcfg", port, pin \div 8)
CtrlWord(port) == Word("ctrl", port, 0)
StaWord(port) == Word("sta", port, 0)
DebWord(port) == Word("deb", port, 0)

MutSetFunction(port, pin, func) ==                  \* the other pins' bits not kept
  <<Put(CfgWord(port, pin), Field(pin, func))>>

SetFunction(port, pin, func) == Modify(CfgWord(port, pin), pin, func)
SetValue(port, pin, value) == Modify(DataWord(port), pin, value)

DirectionInput(port, pin) == SetFunction(port, pin, INPUT)

MutDirectionOutput(port, pin, value) ==             \* the pin drives too early
  SetFunction(port, pin, OUTPUT) \o SetValue(port, pin, value)

DirectionOutput(port, pin, value) ==
  SetValue(port, pin, value) \o SetFunction(port, pin, OUTPUT)

\* get_value, then set_value with the opposite, which reads the word again.
Toggle(port, pin) ==
  <<Look(DataWord(port), Field(pin, 0)), Rd(DataWord(port)), Flip(DataWord(port), Field(pin, 0))>>

SetPullMode(port, pin, mode) == Modify(PullWord(port, pin), pin, mode)
SetDriveLevel(port, pin, level) == Modify(DriveWord(port, pin), pin, level)

SetIrqType(port, pin, type) == Modify(IrqCfgWord(port, pin), pin, type)
IrqEnable(port, pin) == Modify(CtrlWord(port), pin, 1)

MutIrqAck(port, pin) ==                             \* the whole port acknowledged
  <<Rd(StaWord(port)), Clear(StaWord(port), [p \in 0 .. 27 |-> 1])>>

\* The status is read, the pin's bit added, and all of it written back.
IrqAck(port, pin) == <<Rd(StaWord(port)), Clear(StaWord(port), Field(pin, 1))>>

IrqDisable(port, pin) == IrqAck(port, pin) \o Modify(CtrlWord(port), pin, 0)

SelectIrqClock(port, clock) == Modify(DebWord(port), 0, clock)
SetDebounce(port, prescaler) == Modify(DebWord(port), 4, prescaler)

\* init_default for port E, over the pins given: every function word becomes
\* DISABLE but for the console's PE7 and PE8, whose words are read and kept.
Disabled(pins) == [p \in pins |-> DISABLE]

MutInitDefault(pins) ==                             \* disabled, then restored
  <<Rd(CfgWord("E", 7)), Put(CfgWord("E", 7), Disabled({p \in pins : p < 8})),
    Wr(CfgWord("E", 7), Disabled({p \in pins : p < 7})),
    Rd(CfgWord("E", 8)), Wr(CfgWord("E", 8), Disabled({p \in pins : p > 8}))>>

InitDefault(pins) ==
  <<Rd(CfgWord("E", 7)), Wr(CfgWord("E", 7), Disabled({p \in pins : p < 7})),
    Rd(CfgWord("E", 8)), Wr(CfgWord("E", 8), Disabled({p \in pins : p > 8}))>>

PinCalls(port, p) ==
  {Call("direction_input", p, DirectionInput(port, p)),
   Call("set_function", p, SetFunction(port, p, 2)),
   Call("direction_output", p, DirectionOutput(port, p, 0)),
   Call("direction_output", p, DirectionOutput(port, p, 1)),
   Call("toggle", p, Toggle(port, p)),
   Call("set_pull_mode", p, SetPullMode(port, p, 1)),
   Call("set_drive_level", p, SetDriveLevel(port, p, 3)),
   Call("set_irq_type", p, SetIrqType(port, p, 4)),
   Call("irq_enable", p, IrqEnable(port, p)),
   Call("irq_disable", p, IrqDisable(port, p)),
   Call("irq_ack", p, IrqAck(port, p))}

PortCalls(port) ==
  {Call("select_irq_clock", 0, SelectIrqClock(port, 1)),
   Call("set_debounce", 0, SetDebounce(port, 3))}

GpioCalls(port, pins) == PortCalls(port) \cup UNION {PinCalls(port, p) : p \in pins}
=============================================================================
