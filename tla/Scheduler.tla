------------------------------ MODULE Scheduler ------------------------------
(***************************************************************************)
(* The preemptive priority scheduler of src/src/thread.rs.                 *)
(*                                                                         *)
(* Every API call masks IRQs from its first statement to its return or to  *)
(* the context switch it makes, so each call is one atomic action; the     *)
(* timer interrupt (sched_tick) and ISR-side wake-ups fall between calls.  *)
(* The scheduler's functions are operators from a scheduler record to the  *)
(* next one, so that the IPC modules can call them the way the code does.  *)
(*                                                                         *)
(* An operator whose name begins with Mut is a seeded fault: the operator  *)
(* after it with a plausible mistake in it.  No behaviour uses one; the    *)
(* runs use them to show that each property can fail.                      *)
(***************************************************************************)
EXTENDS Integers, FiniteSetsExt

CONSTANTS
  MAX_THREADS,   \* slots of the thread table (32 in the code)
  MAX_PRIORITY,  \* number of priorities (32 in the code); the last is idle's
  Profiles,      \* the [priority, tick] pairs given to thread_create
  Durations,     \* the tick counts given to thread_sleep and as IPC timeouts
  MaxTick,       \* bound: tick_count stops counting here
  Api,           \* the calls the application makes, a subset of ApiCalls
  KeepIdle       \* TRUE: an idle thread exists and never stops

ApiCalls == {"create", "yield", "sleep", "delete", "suspend", "resume",
             "exit", "ipc", "early_tick"}

ThreadIds    == 0 .. MAX_THREADS - 1
Priorities   == 0 .. MAX_PRIORITY - 1
IdlePriority == MAX_PRIORITY - 1
NULL_ID      == 255

ASSUME SchedulerAssumption ==
  /\ MAX_THREADS \in 1 .. NULL_ID
  /\ MAX_PRIORITY \in Nat \ {0}
  /\ Profiles \subseteq [priority : Priorities, tick : Nat]
  /\ Durations \subseteq Nat
  /\ MaxTick \in Nat
  /\ Api \subseteq ApiCalls
  /\ KeepIdle \in BOOLEAN

VARIABLE sched   \* the static SCHEDULER

vars == <<sched>>

\* "Dead" is a slot of the table that holds None.
ThreadStates == {"Dead", "Ready", "Running", "Sleeping", "Blocked",
                 "BlockedTimeout"}
IpcResults   == {"OK", "TIMEOUT", "SENTINEL"}

-----------------------------------------------------------------------------
(* The scheduler's record.  The fields of struct Thread are functions of   *)
(* the slot; a Dead slot holds the values thread_create starts from.       *)

Scheduler ==
  [state        : [ThreadIds -> ThreadStates],
   priority     : [ThreadIds -> Priorities],
   tick         : [ThreadIds -> Nat],
   init_tick    : [ThreadIds -> Nat],
   sleep_until  : [ThreadIds -> Nat],
   ipc_error    : [ThreadIds -> IpcResults],
   is_ipc_wait  : [ThreadIds -> BOOLEAN],
   ready_bitmap : SUBSET Priorities,
   rr_cursor    : [Priorities -> ThreadIds \cup {NULL_ID}],
   tick_count   : Nat,
   current_id   : ThreadIds \cup {NULL_ID},
   started      : BOOLEAN,
   irq_masked   : BOOLEAN,      \* CPSR.I between calls
   panicked     : BOOLEAN]      \* the panic handler took over: nothing runs

\* sched_init: an empty table.
NewScheduler ==
  [state        |-> [t \in ThreadIds |-> "Dead"],
   priority     |-> [t \in ThreadIds |-> 0],
   tick         |-> [t \in ThreadIds |-> 0],
   init_tick    |-> [t \in ThreadIds |-> 0],
   sleep_until  |-> [t \in ThreadIds |-> 0],
   ipc_error    |-> [t \in ThreadIds |-> "OK"],
   is_ipc_wait  |-> [t \in ThreadIds |-> FALSE],
   ready_bitmap |-> {},
   rr_cursor    |-> [p \in Priorities |-> NULL_ID],
   tick_count   |-> 0,
   current_id   |-> NULL_ID,
   started      |-> FALSE,
   irq_masked   |-> FALSE,
   panicked     |-> FALSE]

MutPutThread(s, id, prof) ==                        \* bit forgotten
  [s EXCEPT !.state[id]     = "Ready",
            !.priority[id]  = prof.priority,
            !.tick[id]      = prof.tick,
            !.init_tick[id] = prof.tick]

\* Fill slot id of the table (thread_create_inner).
PutThread(s, id, prof) ==
  [s EXCEPT !.state[id]       = "Ready",
            !.priority[id]    = prof.priority,
            !.tick[id]        = prof.tick,
            !.init_tick[id]   = prof.tick,
            !.sleep_until[id] = 0,
            !.ipc_error[id]   = "OK",
            !.is_ipc_wait[id] = FALSE,
            !.ready_bitmap    = @ \cup {prof.priority}]

\* threads[id] = None.
EmptySlot(s, id) ==
  [s EXCEPT !.state[id]       = "Dead",
            !.priority[id]    = 0,
            !.tick[id]        = 0,
            !.init_tick[id]   = 0,
            !.sleep_until[id] = 0,
            !.ipc_error[id]   = "OK",
            !.is_ipc_wait[id] = FALSE]

Panic(s) == [s EXCEPT !.panicked = TRUE]

-----------------------------------------------------------------------------
(* The ready bitmap and the choice of the next thread.                     *)

ReadyAt(s, p) == {t \in ThreadIds : s.state[t] = "Ready" /\ s.priority[t] = p}

MutSetReady(s, id) == [s EXCEPT !.state[id] = "Ready"]   \* bit forgotten

SetReady(s, id) ==
  [s EXCEPT !.state[id]    = "Ready",
            !.ready_bitmap = @ \cup {s.priority[id]}]

MutClearReadyIfEmpty(s, p) == s

ClearReadyIfEmpty(s, p) ==
  IF ReadyAt(s, p) = {} THEN [s EXCEPT !.ready_bitmap = @ \ {p}] ELSE s

MutNextAfter(cursor, T) == Min(T)                   \* cursor ignored

\* The first member of the nonempty set T in the cyclic order of the ids
\* that begins after the cursor.
NextAfter(cursor, T) ==
  LET later == {t \in T : cursor # NULL_ID /\ t > cursor}
  IN  IF later # {} THEN Min(later) ELSE Min(T)

MutPickNext(s) ==                                   \* priorities ignored
  LET ready == {t \in ThreadIds : s.state[t] = "Ready"}
  IN  IF ready = {} THEN NULL_ID ELSE Min(ready)

\* pick_next looks at the best priority of the bitmap only.
PickNext(s) ==
  IF s.ready_bitmap = {} THEN NULL_ID
  ELSE LET p == Min(s.ready_bitmap)
       IN  IF ReadyAt(s, p) = {} THEN NULL_ID
           ELSE NextAfter(s.rr_cursor[p], ReadyAt(s, p))

MutDispatch(s, id) ==                               \* next start, not wrapped
  [s EXCEPT !.state[id] = "Running",
            !.rr_cursor[s.priority[id]] = id + 1]

\* Mark id Running and remember it as the last of its priority to run.
Dispatch(s, id) ==
  [s EXCEPT !.state[id] = "Running",
            !.rr_cursor[s.priority[id]] = id]

\* do_schedule, and do_schedule_from_isr, whose switch is taken at IRQ exit.
\* The state of the thread switched out is left as the caller set it; an
\* empty slot of the outgoing thread fails its unwrap.  Every switch resumes
\* with IRQs enabled (asm/context.s:26).
DoSchedule(s) ==
  LET next == PickNext(s)
  IN  IF next = NULL_ID THEN s
      ELSE IF next = s.current_id THEN [s EXCEPT !.state[next] = "Running"]
      ELSE IF s.current_id = NULL_ID \/ s.state[s.current_id] = "Dead"
           THEN Panic(Dispatch(s, next))
      ELSE [Dispatch(s, next) EXCEPT !.current_id = next, !.irq_masked = FALSE]

-----------------------------------------------------------------------------
(* What the calls and the tick do to the record.                           *)

CreateThread(s, prof) ==
  PutThread(s, Min({t \in ThreadIds : s.state[t] = "Dead"}), prof)

StartScheduler(s) ==
  LET next == PickNext(s)
  IN  IF next = NULL_ID THEN Panic(s)
      ELSE [Dispatch(s, next) EXCEPT !.current_id = next, !.started = TRUE]

MutYieldCurrent(s) == DoSchedule(s)                 \* caller not requeued

\* thread_yield: Running -> Ready without touching the bitmap.
YieldCurrent(s) ==
  LET cur == s.current_id
  IN  DoSchedule(IF s.state[cur] = "Running"
                 THEN [s EXCEPT !.state[cur] = "Ready"] ELSE s)

SleepCurrent(s, d) ==
  LET cur == s.current_id
      asleep == [s EXCEPT !.state[cur]       = "Sleeping",
                          !.is_ipc_wait[cur] = FALSE,
                          !.sleep_until[cur] = s.tick_count + d]
  IN  DoSchedule(ClearReadyIfEmpty(asleep, s.priority[cur]))

DeleteThread(s, id) ==
  ClearReadyIfEmpty(EmptySlot(s, id), s.priority[id])

\* thread_suspend makes no scheduling decision, even for the caller itself.
SuspendThread(s, id) ==
  IF s.state[id] \in {"Ready", "Running"}
  THEN ClearReadyIfEmpty([s EXCEPT !.state[id] = "Blocked"], s.priority[id])
  ELSE s

\* thread_resume reschedules at once; the caller is not made Ready first.
ResumeThread(s, id) ==
  IF s.state[id] = "Blocked" /\ ~s.is_ipc_wait[id]
  THEN IF s.started THEN DoSchedule(SetReady(s, id)) ELSE SetReady(s, id)
  ELSE s

ExitCurrent(s) ==
  LET cur == s.current_id
  IN  DoSchedule(ClearReadyIfEmpty(EmptySlot(s, cur), s.priority[cur]))

\* block_current(None) and block_current(Some(d)).  With nothing Ready there
\* is no switch: it returns at once, and the caller's second half takes the
\* masked CPSR for the one to restore.
BlockOn(s, st, until) ==
  LET cur == s.current_id
      blocked == [s EXCEPT !.state[cur]       = st,
                           !.ipc_error[cur]   = "SENTINEL",
                           !.is_ipc_wait[cur] = TRUE,
                           !.sleep_until[cur] = until]
      cleared == ClearReadyIfEmpty(blocked, s.priority[cur])
  IN  IF PickNext(cleared) = NULL_ID THEN [cleared EXCEPT !.irq_masked = TRUE]
      ELSE DoSchedule(cleared)

BlockCurrent(s) == BlockOn(s, "Blocked", s.sleep_until[s.current_id])
BlockCurrentFor(s, d) == BlockOn(s, "BlockedTimeout", s.tick_count + d)

MutUnblockThread(s, id) ==                          \* any blocked thread
  IF s.state[id] \in {"Blocked", "BlockedTimeout", "Sleeping"}
  THEN SetReady([s EXCEPT !.sleep_until[id] = 0], id)
  ELSE s

\* unblock_thread: Ready, but no scheduling decision.
UnblockThread(s, id) ==
  IF /\ s.state[id] \in {"Blocked", "BlockedTimeout", "Sleeping"}
     /\ s.is_ipc_wait[id]
  THEN SetReady([s EXCEPT !.ipc_error[id]   = "OK",
                          !.is_ipc_wait[id] = FALSE,
                          !.sleep_until[id] = 0], id)
  ELSE s

MutDue(s, now) ==                                   \* timed waiters forgotten
  {t \in ThreadIds : /\ s.state[t] = "Sleeping"
                     /\ s.sleep_until[t] # 0
                     /\ now >= s.sleep_until[t]}

\* The first loop of sched_tick: whoever's deadline has come is Ready.  A
\* deadline of 0 means "no deadline".
Due(s, now) ==
  {t \in ThreadIds : /\ s.state[t] \in {"Sleeping", "BlockedTimeout"}
                     /\ s.sleep_until[t] # 0
                     /\ now >= s.sleep_until[t]}

\* The wake-up loop with the record's fields it writes; mark is the new
\* is_ipc_wait.
Wake(s, now, due, mark) ==
  [s EXCEPT
    !.tick_count   = now,
    !.state        = [t \in ThreadIds |-> IF t \in due THEN "Ready" ELSE @[t]],
    !.ipc_error    = [t \in ThreadIds |->
                        IF t \in due /\ s.is_ipc_wait[t] THEN "TIMEOUT" ELSE @[t]],
    !.is_ipc_wait  = mark,
    !.sleep_until  = [t \in ThreadIds |-> IF t \in due THEN 0 ELSE @[t]],
    !.ready_bitmap = @ \cup {s.priority[t] : t \in due}]

NextTick(s) == IF s.tick_count < MaxTick THEN s.tick_count + 1 ELSE MaxTick

MutWakeDue(s) ==                                    \* IPC mark left behind
  Wake(s, NextTick(s), Due(s, NextTick(s)), s.is_ipc_wait)

WakeDue(s) ==
  LET due == Due(s, NextTick(s))
  IN  Wake(s, NextTick(s), due,
           [t \in ThreadIds |-> t \notin due /\ s.is_ipc_wait[t]])

MutPreempt(s) ==                                    \* requeued as yield does
  LET cur == s.current_id
  IN  DoSchedule(IF s.state[cur] = "Running"
                 THEN [s EXCEPT !.state[cur] = "Ready"] ELSE s)

\* A Running current thread goes back to Ready and the switch is requested.
Preempt(s) ==
  LET cur == s.current_id
  IN  DoSchedule(IF s.state[cur] = "Running" THEN SetReady(s, cur) ELSE s)

MutPreemptIfBetter(s) == s                          \* check dropped

\* The last part of sched_tick.  threads[current_id] is an unguarded index;
\* an empty slot counts as the lowest priority.
PreemptIfBetter(s) ==
  LET cur == s.current_id
      curPriority == IF s.state[cur] = "Dead" THEN IdlePriority
                     ELSE s.priority[cur]
  IN  IF s.ready_bitmap = {} THEN s
      ELSE IF cur = NULL_ID THEN Panic(s)
      ELSE IF Min(s.ready_bitmap) < curPriority THEN Preempt(s)
      ELSE s

\* sched_tick after the wake-up loop: the time slice, then preemption.
TickAwake(w) ==
  LET cur  == w.current_id
      left == IF w.tick[cur] > 0 THEN w.tick[cur] - 1 ELSE 0
  IN  IF cur # NULL_ID /\ w.state[cur] = "Running"
      THEN IF left = 0
           THEN Preempt([w EXCEPT !.tick[cur] = w.init_tick[cur]])
           ELSE PreemptIfBetter([w EXCEPT !.tick[cur] = left])
      ELSE PreemptIfBetter(w)

SchedTick(s) == TickAwake(WakeDue(s))

-----------------------------------------------------------------------------
(* The actions.                                                            *)

\* The thread the CPU executes: it makes the calls below, whatever its state
\* field says.  A thread that exited only waits for interrupts.
Executing(s) ==
  /\ s.started /\ ~s.panicked
  /\ s.state[s.current_id] # "Dead"

\* main, before sched_start, or the executing thread.
CanCall(s) == ~s.panicked /\ (~s.started \/ Executing(s))

\* The application's side of KeepIdle: the thread at the lowest priority
\* loops for ever (docs/THREADING.md:279).
MayStop(s, id) == ~KeepIdle \/ s.priority[id] # IdlePriority

\* Under KeepIdle main creates the idle thread first (docs/THREADING.md:263).
Create ==
  /\ CanCall(sched)
  /\ sched.started => "create" \in Api
  /\ \E t \in ThreadIds : sched.state[t] = "Dead"
  /\ \E prof \in Profiles :
        /\ KeepIdle /\ ReadyAt(sched, IdlePriority) = {} /\ ~sched.started
             => prof.priority = IdlePriority
        /\ sched' = CreateThread(sched, prof)

Start ==
  /\ ~sched.panicked /\ ~sched.started
  /\ KeepIdle => ReadyAt(sched, IdlePriority) # {}
  /\ sched' = StartScheduler(sched)

Yield ==
  /\ "yield" \in Api
  /\ Executing(sched)
  /\ sched' = YieldCurrent(sched)

Sleep ==
  /\ "sleep" \in Api
  /\ Executing(sched) /\ MayStop(sched, sched.current_id)
  /\ \E d \in Durations : /\ sched.tick_count + d <= MaxTick
                          /\ sched' = SleepCurrent(sched, d)

MutDelete ==                                        \* the caller itself too
  /\ "delete" \in Api
  /\ CanCall(sched)
  /\ \E id \in ThreadIds : /\ sched.state[id] # "Dead" /\ MayStop(sched, id)
                           /\ sched' = DeleteThread(sched, id)

\* thread_delete's contract: not the current thread.
Delete ==
  /\ "delete" \in Api
  /\ CanCall(sched)
  /\ \E id \in ThreadIds \ {sched.current_id} :
        /\ sched.state[id] # "Dead" /\ MayStop(sched, id)
        /\ sched' = DeleteThread(sched, id)

Suspend ==
  /\ "suspend" \in Api
  /\ CanCall(sched)
  /\ \E id \in ThreadIds : /\ MayStop(sched, id)
                           /\ sched' = SuspendThread(sched, id)

Resume ==
  /\ "resume" \in Api
  /\ CanCall(sched)
  /\ \E id \in ThreadIds : sched' = ResumeThread(sched, id)

Exit ==
  /\ "exit" \in Api
  /\ Executing(sched) /\ MayStop(sched, sched.current_id)
  /\ sched' = ExitCurrent(sched)

\* What an IPC call of the executing thread does to the scheduler ...
Block ==
  /\ "ipc" \in Api
  /\ Executing(sched) /\ MayStop(sched, sched.current_id)
  /\ \/ sched' = BlockCurrent(sched)
     \/ \E d \in Durations : /\ sched.tick_count + d <= MaxTick
                             /\ sched' = BlockCurrentFor(sched, d)

\* ... and what the call or ISR that ends its wait does.
Unblock ==
  /\ "ipc" \in Api
  /\ sched.started /\ ~sched.panicked
  /\ \E id \in ThreadIds : sched' = UnblockThread(sched, id)

\* The timer interrupt.  "early_tick": it is enabled before sched_start, as
\* in docs/THREADING.md:268-276.  (\E evaluates the first half once.)
Tick ==
  /\ ~sched.panicked /\ ~sched.irq_masked
  /\ sched.started \/ "early_tick" \in Api
  /\ \E woken \in {WakeDue(sched)} : sched' = TickAwake(woken)

Init == sched = NewScheduler

Next == \/ Create \/ Start \/ Yield \/ Sleep \/ Delete \/ Suspend \/ Resume
        \/ Exit \/ Block \/ Unblock \/ Tick

Spec == Init /\ [][Next]_vars

\* The timer keeps interrupting (unmasked at every return from a call), and
\* main reaches sched_start.
FairSpec == Spec /\ WF_vars(Tick) /\ WF_vars(Start)

-----------------------------------------------------------------------------
(* Properties.                                                             *)

\* The scheduler's record keeps its shape: the current thread, the cursors
\* and the waiters always name slots of the table (thread.rs:139-150).
TypeOK == sched \in Scheduler

\* "Bit N = at least one thread at priority N is Ready" (thread.rs:144), the
\* half pick_next depends on: a Ready thread without its bit is never picked.
ReadyHasBit ==
  \A t \in ThreadIds :
    sched.state[t] = "Ready" => sched.priority[t] \in sched.ready_bitmap

\* The other half, as far as it holds under every call: a bit outlives the last
\* Ready thread of its priority only over one that is Running.  That need not be
\* the thread on the CPU: a caller that thread_resume has left Running keeps its
\* bit, and pick_next then finds nobody there and does not look further down
\* (thread.rs:208-215), for good.  What is promised without that is BitIsServed.
BitHasRunnable ==
  \A p \in sched.ready_bitmap :
    \E t \in ThreadIds : /\ sched.priority[t] = p
                         /\ sched.state[t] \in {"Ready", "Running"}

\* Between calls, exactly the thread on the CPU is Running: nobody is switched
\* out without being requeued (docs/THREADING.md:49, "On CPU").
OneRunning ==
  Executing(sched) =>
    \A t \in ThreadIds : sched.state[t] = "Running" <=> t = sched.current_id

\* Between calls, a bit with no Ready thread is that of the thread on the CPU, which
\* clears it when it blocks and is Ready when it yields or is preempted: no bit
\* makes pick_next give up with lower priorities waiting (thread.rs:181-215).
BitIsServed ==
  Executing(sched) =>
    \A p \in sched.ready_bitmap :
      p = sched.priority[sched.current_id] \/ \E t \in ThreadIds :
        sched.priority[t] = p /\ sched.state[t] = "Ready"

\* No index into the thread table fails and no empty slot is unwrapped.
NoPanic == ~sched.panicked

\* The timer can always interrupt: no call returns to the application with
\* IRQs masked ("re-enables them after the switch", thread.rs:562).
IrqsComeBack == ~sched.irq_masked

\* sched_tick misses no deadline: a thread still waiting for one has it ahead
\* of it, or asked for it at this very tick (thread.rs:484-500).
NoOversleep ==
  \A t \in ThreadIds :
    /\ sched.state[t] \in {"Sleeping", "BlockedTimeout"}
    /\ sched.sleep_until[t] # 0
    => sched.sleep_until[t] >= sched.tick_count

\* A thread marked as waiting on an IPC object is blocked: suspend, resume,
\* sleep and the tick never leave the mark on a thread that runs.
IpcWaitIsBlocked ==
  \A t \in ThreadIds :
    sched.is_ipc_wait[t] => sched.state[t] \in {"Blocked", "BlockedTimeout"}

\* Whenever the CPU changes hands, no Ready thread has a better priority than
\* the one that gets it (docs/THREADING.md:58).
SwitchToBest ==
  [][sched'.current_id # sched.current_id =>
       \A t \in ThreadIds :
         sched'.state[t] = "Ready" =>
           sched'.priority[sched'.current_id] <= sched'.priority[t]]_vars

\* After every tick the CPU runs a best-priority thread: a thread woken by an
\* ISR or by the tick itself waits for at most one tick (thread.rs:539-555).
Ticked == sched' = SchedTick(sched)
TickPreempts ==
  [][Ticked /\ Executing(sched') =>
       \A t \in ThreadIds :
         sched'.state[t] = "Ready" =>
           sched'.priority[sched'.current_id] <= sched'.priority[t]]_vars

\* A wait ends for a reason: a sleeper or a timed waiter becomes Ready at its
\* deadline, an IPC waiter also by unblock_thread, and the result its call
\* will read says which of the two it was (thread.rs:486-496, 582-597).
WaitEnded(t) == /\ sched.state[t] \in {"Sleeping", "Blocked", "BlockedTimeout"}
                /\ sched'.state[t] = "Ready"
DeadlineCame(t) == /\ sched.sleep_until[t] # 0
                   /\ sched'.tick_count >= sched.sleep_until[t]
WaitEndsForAReason ==
  [][\A t \in ThreadIds : WaitEnded(t) =>
       /\ sched.state[t] = "Sleeping" => DeadlineCame(t)
       /\ sched.is_ipc_wait[t] =>
            \/ sched'.ipc_error[t] = "OK"
            \/ sched'.ipc_error[t] = "TIMEOUT" /\ DeadlineCame(t)]_vars

\* Round robin starves nobody: a Ready thread gets the CPU unless it stops
\* being Ready or a better priority has work, again and again.
ReadyRuns ==
  \A t \in ThreadIds :
    []<>(\/ sched.state[t] # "Ready"
         \/ \E u \in ThreadIds : /\ sched.priority[u] < sched.priority[t]
                                 /\ sched.state[u] \in {"Ready", "Running"})

\* A wait with a deadline ends, asleep or blocked (thread.rs:484-500).
TimedWaitEnds ==
  \A t \in ThreadIds :
    []<>(sched.state[t] \in {"Sleeping", "BlockedTimeout"}
           => sched.sleep_until[t] = 0)
=============================================================================
