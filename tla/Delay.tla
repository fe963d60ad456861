-------------------------------- MODULE Delay --------------------------------
(***************************************************************************)
(* delay_us of src/src/timer.rs.  Every caller resets the one AVS counter, *)
(* and then polls it; threads may do so at the same time.                  *)
(***************************************************************************)
EXTENDS Naturals, FiniteSets

CONSTANTS
  Delayers,     \* the threads
  MaxUs,        \* the longest delay asked for, in counter ticks
  CntModulus,   \* the width of AVS_CNT0
  MaxLate       \* bound: ticks a thread may be late for its next poll

ASSUME DelayAssumption ==
  MaxUs \in Nat /\ CntModulus \in Nat /\ MaxUs < CntModulus /\ MaxLate \in Nat

VARIABLES
  cnt,     \* AVS_CNT0
  us,      \* [Delayers -> the delay under way, 0 if there is none]
  at,      \* [Delayers -> "out", "reset" or "poll"]
  elapsed  \* [Delayers -> ticks since the call]

delayVars == <<cnt, us, at, elapsed>>

DelayInit ==
  /\ cnt = 0 /\ us = [t \in Delayers |-> 0]
  /\ at = [t \in Delayers |-> "out"] /\ elapsed = [t \in Delayers |-> 0]

DelayCall(t) ==
  /\ at[t] = "out"
  /\ \E n \in 0 .. MaxUs : us' = [us EXCEPT ![t] = n]
  /\ at' = [at EXCEPT ![t] = "reset"] /\ elapsed' = [elapsed EXCEPT ![t] = 0]
  /\ UNCHANGED cnt

MutDelayReset(t) ==                                 \* the counter is left running
  /\ at[t] = "reset" /\ at' = [at EXCEPT ![t] = "poll"]
  /\ UNCHANGED <<cnt, us, elapsed>>

DelayReset(t) ==
  /\ at[t] = "reset" /\ at' = [at EXCEPT ![t] = "poll"]
  /\ cnt' = 0 /\ UNCHANGED <<us, elapsed>>

\* The poll that sees the counter at us or beyond ends the call.
DelayPoll(t) ==
  /\ at[t] = "poll" /\ cnt >= us[t]
  /\ at' = [at EXCEPT ![t] = "out"]
  /\ us' = [us EXCEPT ![t] = 0] /\ elapsed' = [elapsed EXCEPT ![t] = 0]
  /\ UNCHANGED cnt

AvsTick ==
  /\ \A t \in Delayers : elapsed[t] < us[t] + MaxLate
  /\ cnt' = (cnt + 1) % CntModulus
  /\ elapsed' = [t \in Delayers |-> IF at[t] = "out" THEN 0 ELSE elapsed[t] + 1]
  /\ UNCHANGED <<us, at>>

DelayStep == (\E t \in Delayers : DelayCall(t) \/ DelayReset(t) \/ DelayPoll(t)) \/ AvsTick

\* Threads that share the counter may lengthen one another's delays, but no call
\* returns before its time (timer.rs:424).
DelayAtLeast ==
  [][\A t \in Delayers : at[t] = "poll" /\ at'[t] = "out" => elapsed[t] >= us[t]]_delayVars
=============================================================================
