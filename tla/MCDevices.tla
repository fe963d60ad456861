------------------------------- MODULE MCDevices -------------------------------
(* Instances of the parts in Devices for TLC.                                  *)
EXTENDS Devices

\* Two PWM configurations that differ in everything.
TwoConfigs == {[prescal |-> 15, prd |-> 3, dty |-> 1, act |-> 0, mode |-> 0],
               [prescal |-> 8, prd |-> 3, dty |-> 2, act |-> 1, mode |-> 1]}

\* Every ratio the CPU's PLL may be asked for.
AllRatios == [mul : 1 .. 128, div : 1 .. 16]

\* Periods around every border of a count of eight, and the longest a u32 may ask for
\* in proportion.
SomePeriods == 0 .. 2 \cup {120 * c + d : c \in 1 .. 9, d \in {0, 60, 119}} \cup {12600}

\* Around the borders of both dividers at both rates of the bus.
SomeLimits == {1, 1000, 1525, 1526, 46000, 46875, 390000, 390625, 400000, 12000000, 23999999,
               24000000, 24000001, 30000000, 100000000}
=============================================================================
