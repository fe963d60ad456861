------------------------------ MODULE RoundRobin ------------------------------
(***************************************************************************)
(* The scheduler observed by a history variable: for every Ready thread,   *)
(* which threads of its priority were given the CPU while it waited.       *)
(***************************************************************************)
EXTENDS Scheduler

VARIABLE served   \* [ThreadIds -> SUBSET ThreadIds]

rrVars == <<sched, served>>

\* The step gives the CPU to another thread, of priority p.
GivesCpuAt(p) == /\ sched'.current_id # sched.current_id
                 /\ sched'.priority[sched'.current_id] = p

RRInit == Init /\ served = [t \in ThreadIds |-> {}]

RRNext ==
  /\ Next
  /\ served' = [t \in ThreadIds |->
       IF sched'.state[t] # "Ready" THEN {}
       ELSE IF GivesCpuAt(sched'.priority[t])
            THEN served[t] \cup {sched'.current_id}
            ELSE served[t]]

RRSpec == RRInit /\ [][RRNext]_rrVars

\* No deletion, suspension or preemption hides a Ready thread from pick_next or
\* leaves an empty slot to be switched to (thread.rs:144, 246).
NothingHidden == ReadyHasBit /\ NoPanic

\* Round robin within a priority (docs/THREADING.md:59): while a thread stays
\* Ready, no other thread of its priority is given the CPU twice, however
\* threads block, wake, are suspended, deleted or created in between.
BoundedBypass ==
  [][\A t \in ThreadIds :
       /\ sched.state[t] = "Ready" /\ sched'.state[t] = "Ready"
       /\ GivesCpuAt(sched'.priority[t])
       => sched'.current_id \notin served[t]]_rrVars
=============================================================================
