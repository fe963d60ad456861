--------------------------------- MODULE MCI2c ---------------------------------
(* Two threads on the bus, with every shape of transfer, for TLC.              *)
EXTENDS I2c

Out(n) == [read |-> FALSE, len |-> n]
In(n)  == [read |-> TRUE, len |-> n]

\* Nothing, a write, a read of one byte, a register read of two.
Shapes == {<<>>, <<Out(2)>>, <<In(1)>>, <<Out(1), In(2)>>}
=============================================================================
