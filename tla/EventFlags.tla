------------------------------ MODULE EventFlags ------------------------------
(***************************************************************************)
(* The event flags of src/src/ipc/event.rs: a word of flag bits, and for   *)
(* every waiting thread the bits it waits for.  set() may be called by any *)
(* thread or interrupt handler (docs/THREADING.md:173).                    *)
(***************************************************************************)
EXTENDS Kernel

CONSTANTS
  Bits,    \* the flag bits in use
  Waits    \* the parameters given to wait

\* struct Waiter.  mode is EventMode.
Waiter == [flags : SUBSET Bits, mode : {"Or", "And"}, clear_on_exit : BOOLEAN]

ASSUME EventAssumption == Waits \subseteq Waiter

VARIABLES
  flags,         \* EventFlags.flags, the word as a set of bits
  event_waiters, \* the bitmask as a set of thread ids
  wait_params,   \* [ThreadIds -> Waits, or NoWait for None]
  told,          \* history: the wait that has just returned Ok, its word, and the
                 \* bits that went out while it lasted
  gone,          \* history: [ThreadIds -> the bits that went out during its wait]
  unseen         \* history: bits set, and not since cleared, told, or taken by
                 \* set() for a waiter it woke

eventVars == <<flags, event_waiters, wait_params, told, gone, unseen>>

NoWait == [flags |-> {}, mode |-> "None", clear_on_exit |-> FALSE]

NotTold == [wait |-> NoWait, word |-> {}, gone |-> {}]

EventInit ==
  /\ flags = {} /\ event_waiters = {} /\ told = NotTold /\ unseen = {}
  /\ wait_params = [t \in ThreadIds |-> NoWait] /\ gone = [t \in ThreadIds |-> {}]

-----------------------------------------------------------------------------
\* condition_met.
Met(f, w) ==
  CASE w.mode = "Or"   -> f \cap w.flags # {}
    [] w.mode = "And"  -> w.flags \subseteq f
    [] w.mode = "None" -> FALSE

MutConsume(f, w) == f \ w.flags                     \* always cleared

\* The flags after a wait on w is satisfied.
Consume(f, w) == IF w.clear_on_exit THEN f \ w.flags ELSE f

MutCheckWaiter(e, t) ==                             \* any of the flags, whatever the mode
  IF t \in event_waiters /\ e.flags \cap wait_params[t].flags # {}
  THEN [flags   |-> Consume(e.flags, wait_params[t]),
        waiters |-> e.waiters \ {t},
        sched   |-> UnblockThread(e.sched, t)]
  ELSE e

\* One round of the loop of check_waiters: thread t, after e of the others.
CheckWaiter(e, t) ==
  IF t \in event_waiters /\ Met(e.flags, wait_params[t])
  THEN [flags   |-> Consume(e.flags, wait_params[t]),
        waiters |-> e.waiters \ {t},
        sched   |-> UnblockThread(e.sched, t)]
  ELSE e

MutCheckWaiters(f) ==                               \* only the first waiter
  LET start == [flags |-> f, waiters |-> event_waiters, sched |-> sched]
  IN  CheckWaiter(start, IF event_waiters = {} THEN 0 ELSE Min(event_waiters))

\* check_waiters, begun with the flags f: one pass over the waiters in
\* the order of their ids, each seeing what the ones before it left.
CheckWaiters(f) ==
  LET after[n \in 0 .. MAX_THREADS] ==
        IF n = 0 THEN [flags |-> f, waiters |-> event_waiters, sched |-> sched]
        ELSE CheckWaiter(after[n - 1], n - 1)
  IN  after[MAX_THREADS]

\* The waiters a pass woke, and the bits it consumed on their behalf.
Woken(e) == {t \in event_waiters \ e.waiters : sched.is_ipc_wait[t]}
ConsumedFor(T) ==
  UNION {wait_params[t].flags : t \in {u \in T : wait_params[u].clear_on_exit}}

\* A step that begins with the flags f takes those out that it does not leave set.
TakesOut(f) ==
  gone' = [t \in ThreadIds |-> IF pc'[t] = "wait" THEN gone[t] \cup (f \ flags') ELSE {}]

SetFlags ==
  /\ ~sched.panicked
  /\ \E f \in SUBSET Bits \ {{}} :
       LET e == CheckWaiters(flags \cup f)
       IN  /\ flags' = e.flags /\ event_waiters' = e.waiters /\ sched' = e.sched
           /\ unseen' = (unseen \cup f) \ ConsumedFor(Woken(e))
           /\ UNCHANGED pc /\ TakesOut(flags \cup f)
  /\ told' = NotTold
  /\ UNCHANGED wait_params

ClearFlags ==
  /\ InApp
  /\ \E f \in SUBSET Bits \ {{}} : flags' = flags \ f /\ unseen' = unseen \ f
  /\ told' = NotTold
  /\ UNCHANGED <<sched, pc, event_waiters, wait_params>> /\ TakesOut(flags)

\* The way out of a granted wait on w: Ok is the word as it is by then.
Tell(w) ==
  /\ told' = [wait |-> w, word |-> flags \cap w.flags, gone |-> gone[Self]]
  /\ unseen' = unseen \ told'.word
  /\ flags' = Consume(flags, w)

\* wait whose condition holds already ...
WaitAtOnce ==
  /\ InApp
  /\ \E w \in Waits : Met(flags, w) /\ Tell(w)
  /\ UNCHANGED <<sched, pc, event_waiters, wait_params>> /\ TakesOut(flags)

\* ... and the first ...
WaitBlock ==
  /\ MayBlock
  /\ \E w \in Waits : /\ ~Met(flags, w)
                      /\ wait_params' = [wait_params EXCEPT ![Self] = w]
  /\ event_waiters' = event_waiters \cup {Self}
  /\ BlockSelf("wait")
  /\ told' = NotTold
  /\ UNCHANGED <<flags, gone, unseen>>

MutWaitReturn ==                                    \* parameters left behind
  /\ BackIn("wait")
  /\ ReturnSelf
  /\ IF Granted(Self) THEN Tell(wait_params[Self])
     ELSE told' = NotTold /\ UNCHANGED <<flags, unseen>>
  /\ UNCHANGED <<sched, event_waiters, wait_params>> /\ TakesOut(flags)

\* ... and second half of a wait that blocks.  Ok reads the flags, and clears
\* them once more, as they are by then; otherwise Err(Timeout).
WaitReturn ==
  /\ BackIn("wait")
  /\ ReturnSelf
  /\ wait_params' = [wait_params EXCEPT ![Self] = NoWait]
  /\ IF Granted(Self) THEN Tell(wait_params[Self]) /\ UNCHANGED event_waiters
     ELSE /\ event_waiters' = event_waiters \ {Self}
          /\ told' = NotTold /\ UNCHANGED <<flags, unseen>>
  /\ UNCHANGED sched /\ TakesOut(flags)

EventStep == SetFlags \/ ClearFlags \/ WaitAtOnce \/ WaitBlock \/ WaitReturn

\* Deletion and creation of a thread do not touch the object.
EventForget == UNCHANGED eventVars

-----------------------------------------------------------------------------
EventTypeOK ==
  /\ flags \subseteq Bits /\ unseen \subseteq Bits
  /\ event_waiters \subseteq ThreadIds
  /\ wait_params \in [ThreadIds -> Waits \cup {NoWait}]
  /\ told \in [wait : Waits \cup {NoWait}, word : SUBSET Bits, gone : SUBSET Bits]
  /\ gone \in [ThreadIds -> SUBSET Bits]

\* No lost wake-up: nobody is blocked while its condition holds, whatever
\* other waiters consumed in the pass and whatever was cleared since
\* (event.rs:50, "Wakes any thread whose wait condition is now satisfied").
NoneLeftWaiting ==
  \A t \in ThreadIds : WaitsIn("wait", t) => ~Met(flags, wait_params[t])

\* Every blocked thread can be found by the next set(), with its parameters;
\* a thread outside wait is never woken by one (event.rs:40-42).
RegisteredExactly ==
  \A t \in ThreadIds :
    /\ WaitsIn("wait", t) => t \in event_waiters /\ wait_params[t] # NoWait
    /\ t \in event_waiters => WaitsIn("wait", t) \/ ExpiredIn("wait", t)
    /\ pc[t] # "wait" => wait_params[t] = NoWait

\* A bit goes out only when somebody clears it, a wait returns it, or set() takes
\* it for a waiter it woke: no event goes by unnoticed (event.rs:50).  What a
\* waiter that was woken is told is the question of OkHasCause.
NoEventLost == unseen \subseteq flags
NoEventLostUntimed == Untimed => NoEventLost

\* Nobody is told Ok without a cause: the flags returned satisfy the wait, or would
\* with those that went out while it lasted.  The comment at event.rs:72 promises
\* more, "the flags that caused the wakeup (before optional clear)": set() clears
\* them for a waiter with clear_on_exit before it reads the word, which is then
\* empty, and other threads may clear or consume them first.
OkHasCause == told.wait # NoWait => Met(told.word \cup told.gone, told.wait)

\* What set() promises its waiters, together: no flag goes out unless it is
\* cleared, returned, or taken for a thread that is woken; nobody whose condition
\* holds is left blocked, everybody blocked can be found, and nobody is woken
\* without its condition having held (event.rs:50).
EventsKept ==
  NoEventLostUntimed /\ NoneLeftWaiting /\ RegisteredExactly /\ OkHasCause
=============================================================================
