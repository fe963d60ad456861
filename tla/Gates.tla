-------------------------------- MODULE Gates --------------------------------
(***************************************************************************)
(* The clock gates and reset lines of src/src/clock.rs.  A BusGate is its  *)
(* register number and its bit; the reset registers have the same layout,  *)
(* and a reset bit of 1 is a peripheral that runs.                         *)
(***************************************************************************)
EXTENDS Access

GateWord(gate) == Word("gate", "", gate[1])
ResetWord(gate) == Word("reset", "", gate[1])
DramWord == Word("dramgate", "", 0)

Uart2 == <<2, 22>>
Twi0 == <<2, 16>>
BE == 26
FE == 24

BusGateEnable(gate) == Modify(GateWord(gate), gate[2], 1)
BusGateDisable(gate) == Modify(GateWord(gate), gate[2], 0)

SwResetAssert(gate) == Modify(ResetWord(gate), gate[2], 0)
SwResetDeassert(gate) == Modify(ResetWord(gate), gate[2], 1)
SwResetPeripheral(gate) == SwResetAssert(gate) \o SwResetDeassert(gate)

MutBusClkInit(gate) == SwResetPeripheral(gate) \o BusGateEnable(gate)

BusClkInit(gate) == BusGateEnable(gate) \o SwResetPeripheral(gate)

DramGateEnable(gate) == Modify(DramWord, gate, 1)
DramGateDisable(gate) == Modify(DramWord, gate, 0)

\* Nobody in the crate turns a UART's clock off again; the TWI driver does.
GateCalls ==
  {Call("bus_clk_init", g[2], BusClkInit(g)) : g \in {Uart2, Twi0}}
  \cup {Call("bus_gate_enable", Twi0[2], BusGateEnable(Twi0)),
        Call("bus_gate_disable", Twi0[2], BusGateDisable(Twi0)),
        Call("sw_reset_assert", Twi0[2], SwResetAssert(Twi0)),
        Call("sw_reset_deassert", Twi0[2], SwResetDeassert(Twi0))}
  \cup UNION {
    {Call("dram_gate_enable", g, DramGateEnable(g)),
     Call("dram_gate_disable", g, DramGateDisable(g))} : g \in {BE, FE}}
=============================================================================
