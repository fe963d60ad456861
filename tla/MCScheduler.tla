----------------------------- MODULE MCScheduler -----------------------------
(* Instances of the scheduler for TLC: the thread profiles of the runs.      *)
EXTENDS Scheduler

\* A worker and the idle thread of docs/THREADING.md:263-266, scaled down.
TwoPriorities   == {[priority |-> 0, tick |-> 2], [priority |-> 1, tick |-> 1]}
\* A worker that a better one can preempt in the middle of its slice.
ThreePriorities == {[priority |-> 0, tick |-> 1], [priority |-> 1, tick |-> 2],
                    [priority |-> 2, tick |-> 1]}
=============================================================================
