----------------------------- MODULE MCRoundRobin -----------------------------
(* An instance of the observed scheduler for TLC.                            *)
EXTENDS RoundRobin

\* Peers of one priority above the idle thread, with slices of one tick.
Peers == {[priority |-> 0, tick |-> 1], [priority |-> 1, tick |-> 1]}
=============================================================================
