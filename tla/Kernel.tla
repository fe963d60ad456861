-------------------------------- MODULE Kernel --------------------------------
(***************************************************************************)
(* The scheduler as the IPC objects of src/src/ipc meet it: booted with    *)
(* some threads, each thread either in application code or inside a        *)
(* blocking IPC call.  What the application is made of is chosen in the    *)
(* initial state and does not change.                                      *)
(*                                                                         *)
(* A blocking call is two atomic halves.  The first masks IRQs, tests the  *)
(* object, registers the caller in the object's waiter bitmask and ends in *)
(* block_current, which switches to another thread.  The second starts     *)
(* when the caller has the CPU again: it masks IRQs and reads ipc_error.   *)
(* Ticks, ISRs and the calls of other threads fall between the halves.     *)
(***************************************************************************)
EXTENDS Scheduler

CONSTANTS
  ThreadProfile,  \* [ThreadIds -> Profiles]: what main creates in each slot
  Applications    \* the applications to look at

Forever == -1   \* None

Objects == {"semaphore", "mutex", "queue", "events", "signals"}

\* An application: the objects it uses, the slots main fills, the timeouts its
\* calls pass, and whether its threads delete and create one another.
Application ==
  [objects : SUBSET Objects, threads : SUBSET ThreadIds,
   timeouts : SUBSET (Nat \cup {Forever}), reuses : BOOLEAN]

ASSUME KernelAssumption ==
  /\ ThreadProfile \in [ThreadIds -> Profiles]
  /\ \A a \in Applications :
       /\ DOMAIN a = {"objects", "threads", "timeouts", "reuses"}
       /\ a.objects \subseteq Objects /\ a.threads \subseteq ThreadIds
       /\ a.timeouts \subseteq Nat \cup {Forever} /\ a.reuses \in BOOLEAN
       /\ \E t \in a.threads : ThreadProfile[t].priority = IdlePriority
  /\ KeepIdle

VARIABLES
  pc,   \* [ThreadIds -> STRING]: "app", or the call the thread is inside
  app   \* the application that runs

Uses(object) == object \in app.objects

\* No wait of the application times out.
Untimed == app.timeouts = {Forever}

\* main: thread_create for the slots of T, then sched_start.
Booted(T) ==
  StartScheduler(
    [NewScheduler EXCEPT
       !.state        = [t \in ThreadIds |-> IF t \in T THEN "Ready" ELSE @[t]],
       !.priority     = [t \in ThreadIds |->
                           IF t \in T THEN ThreadProfile[t].priority ELSE @[t]],
       !.tick         = [t \in ThreadIds |->
                           IF t \in T THEN ThreadProfile[t].tick ELSE @[t]],
       !.init_tick    = [t \in ThreadIds |->
                           IF t \in T THEN ThreadProfile[t].tick ELSE @[t]],
       !.ready_bitmap = {ThreadProfile[t].priority : t \in T}])

KernelInit ==
  /\ app \in Applications
  /\ sched = Booted(app.threads)
  /\ pc = [t \in ThreadIds |-> "app"]

Self == sched.current_id

\* The executing thread is in application code and may make a call ...
InApp == Executing(sched) /\ pc[Self] = "app"

\* ... one that may block, if it is not the idle thread ...
MayBlock == InApp /\ MayStop(sched, Self)

\* ... or it is back from block_current inside the call named c.
BackIn(c) == Executing(sched) /\ pc[Self] = c

\* block_current(timeout), inside the call named c.
BlockSelf(c) ==
  /\ pc' = [pc EXCEPT ![Self] = c]
  /\ \E timeout \in app.timeouts :
       /\ timeout # Forever => sched.tick_count + timeout <= MaxTick
       /\ sched' = IF timeout = Forever THEN BlockCurrent(sched)
                   ELSE BlockCurrentFor(sched, timeout)

\* The call returns.
ReturnSelf == pc' = [pc EXCEPT ![Self] = "app"]

\* current_ipc_error() == IPC_OK
Granted(t) == sched.ipc_error[t] = "OK"

\* Thread t is blocked inside the call named c ...
WaitsIn(c, t) == pc[t] = c /\ sched.is_ipc_wait[t]
\* ... or was released from its wait and has not run since ...
GrantedIn(c, t) == pc[t] = c /\ ~sched.is_ipc_wait[t] /\ Granted(t)
\* ... or was timed out by a tick and has not run since.
ExpiredIn(c, t) == pc[t] = c /\ ~sched.is_ipc_wait[t] /\ ~Granted(t)

\* Some thread of a better priority than t's has something to execute.
BetterWork(t) ==
  \E u \in ThreadIds : /\ sched.priority[u] < sched.priority[t]
                       /\ sched.state[u] \in {"Ready", "Running"}

\* Scheduler steps that touch no IPC object: the timer, and what threads do
\* in application code.
KernelStep ==
  /\ \/ Tick
     \/ InApp /\ Yield
     \/ InApp /\ Sleep
  /\ UNCHANGED pc

\* A thread deletes another one, wherever that one is, or fills its slot again
\* (bound: only the slots main filled, with the threads main put there).
DeleteOther(id) ==
  /\ app.reuses /\ InApp /\ Delete
  /\ sched.state[id] # "Dead" /\ sched'.state[id] = "Dead"
  /\ pc' = [pc EXCEPT ![id] = "app"]

CreateOther(id) ==
  /\ app.reuses /\ InApp /\ Create
  /\ id \in app.threads
  /\ sched.state[id] = "Dead" /\ sched'.state[id] # "Dead"
  /\ sched'.priority[id] = ThreadProfile[id].priority
  /\ sched'.tick[id] = ThreadProfile[id].tick
  /\ UNCHANGED pc
=============================================================================
