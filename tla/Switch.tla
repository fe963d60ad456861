-------------------------------- MODULE Switch --------------------------------
(***************************************************************************)
(* Who is physically on the CPU: the context switches of                   *)
(* src/src/asm/context.s, the IRQ entry and exit of src/src/asm/startup.s, *)
(* the two halves of sched_start, and the critical sections of             *)
(* src/src/ipc/spinlock.rs.  Which thread is next is Scheduler's business; *)
(* here every choice of it is possible.                                    *)
(*                                                                         *)
(* The context of a thread is its registers.  While it is off the CPU they *)
(* lie in a frame on its stack, found through threads[t].sp.               *)
(***************************************************************************)
EXTENDS Naturals, Sequences, FiniteSets

CONSTANTS
  Threads,   \* the created threads
  Main,      \* the context that calls sched_start
  MaxGuards, \* bound: critical sections that are open at a time
  Manners    \* what the application does, see Manner

\* masked_start: main calls sched_start with IRQs masked.  scoped: guards are
\* dropped in the reverse of the order they were made.  calls: a thread inside a
\* critical section may still yield, sleep or block.
Manner == [masked_start : BOOLEAN, scoped : BOOLEAN, calls : BOOLEAN]

ASSUME SwitchAssumption == Main \notin Threads /\ Manners \subseteq Manner

VARIABLES
  on,       \* the context on the CPU
  masked,   \* CPSR.I of that context, outside the IRQ handler
  irq,      \* the IRQ handler runs, over the context on the CPU
  where,    \* [Threads \cup {Main} -> STRING]: "code", or the call that switched
  kept,     \* [Threads -> BOOLEAN]: the CPSR.I a yield or sleep has saved
  guards,   \* [Threads -> Seq(BOOLEAN)]: the CPSR.I saved by each open guard
  frame,    \* [Threads -> [ctx, masked]]: what threads[t].sp points to
  current,  \* Scheduler.current_id, or Main before sched_start sets it
  pending,  \* switch_interrupt_flag
  leaving,  \* interrupt_from_thread
  entering, \* interrupt_to_thread
  manner    \* the application's

switchVars == <<on, masked, irq, where, kept, guards, frame, current, pending,
                leaving, entering, manner>>

SwitchInit ==
  /\ manner \in Manners
  /\ on = Main /\ masked = manner.masked_start /\ irq = FALSE
  /\ where = [c \in Threads \cup {Main} |-> "code"]
  /\ kept = [t \in Threads |-> FALSE]
  /\ guards = [t \in Threads |-> <<>>]
  /\ frame = [t \in Threads |-> [ctx |-> t, masked |-> FALSE]]
  /\ current = Main
  /\ pending = FALSE /\ leaving = Main /\ entering = Main

InThread == on \in Threads /\ ~irq

-----------------------------------------------------------------------------
OpenGuards == UNION {{<<t, i>> : i \in DOMAIN guards[t]} : t \in Threads}

\* SpinLockGuard::new, or the first half of critical.
Lock ==
  /\ InThread /\ where[on] = "code" /\ Cardinality(OpenGuards) < MaxGuards
  /\ guards' = [guards EXCEPT ![on] = Append(@, masked)]
  /\ masked' = TRUE
  /\ UNCHANGED <<on, irq, where, kept, frame, current, pending, leaving, entering, manner>>

MutDrop ==                                          \* IRQs enabled whatever was saved
  /\ InThread /\ where[on] = "code" /\ guards[on] # <<>>
  /\ guards' = [guards EXCEPT ![on] = SubSeq(@, 1, Len(@) - 1)]
  /\ masked' = FALSE
  /\ UNCHANGED <<on, irq, where, kept, frame, current, pending, leaving, entering, manner>>

\* A guard is dropped: CPSR is what that guard saved.
Drop ==
  /\ InThread /\ where[on] = "code"
  /\ \E i \in DOMAIN guards[on] :
       /\ manner.scoped => i = Len(guards[on])
       /\ masked' = guards[on][i]
       /\ guards' = [guards EXCEPT ![on] = SubSeq(@, 1, i - 1) \o SubSeq(@, i + 1, Len(@))]
  /\ UNCHANGED <<on, irq, where, kept, frame, current, pending, leaving, entering, manner>>

-----------------------------------------------------------------------------
\* context_switch_to and the loads at the end of the other switches.
Load(f) == on' = f.ctx /\ masked' = f.masked

MutContextSwitch(next) ==                           \* the live I bit is saved
  /\ frame' = [frame EXCEPT ![current] = [ctx |-> on, masked |-> TRUE]]
  /\ Load(frame[next]) /\ current' = next

\* do_schedule and context_switch: the frame of the thread the scheduler takes
\* for current, to resume with IRQs on whatever they are now.
ContextSwitch(next) ==
  /\ frame' = [frame EXCEPT ![current] = [ctx |-> on, masked |-> FALSE]]
  /\ Load(frame[next]) /\ current' = next

\* thread_yield and thread_sleep keep the CPSR they found; block_current's
\* callers mask IRQs again when they are back, and then enable them.
CallSwitches(kind) ==
  /\ InThread /\ where[on] = "code"
  /\ guards[on] # <<>> => manner.calls
  /\ where' = [where EXCEPT ![on] = kind]
  /\ kept' = [kept EXCEPT ![on] = IF kind = "yield" THEN masked ELSE FALSE]
  /\ \E next \in Threads \ {current} : ContextSwitch(next)
  /\ UNCHANGED <<irq, guards, pending, leaving, entering, manner>>

\* interrupt_enable at the end of the call that switched.
CallReturns ==
  /\ InThread /\ where[on] # "code"
  /\ masked' = kept[on]
  /\ where' = [where EXCEPT ![on] = "code"]
  /\ UNCHANGED <<on, irq, kept, guards, frame, current, pending, leaving, entering, manner>>

-----------------------------------------------------------------------------
\* sched_start: current_id and started are set ...
StartSets ==
  /\ on = Main /\ ~irq /\ where[Main] = "code"
  /\ current' \in Threads
  /\ where' = [where EXCEPT ![Main] = "starting"]
  /\ UNCHANGED <<on, masked, irq, kept, guards, frame, pending, leaving, entering, manner>>

\* ... and the first thread's frame is loaded; main's context is dropped.
StartSwitches ==
  /\ on = Main /\ ~irq /\ where[Main] = "starting"
  /\ where' = [where EXCEPT ![Main] = "gone"]
  /\ Load(frame[current])
  /\ UNCHANGED <<irq, kept, guards, frame, current, pending, leaving, entering, manner>>

-----------------------------------------------------------------------------
\* An interrupt; the interrupted CPSR has IRQs on.
EnterIrq ==
  /\ ~irq /\ ~masked
  /\ irq' = TRUE
  /\ UNCHANGED <<on, masked, where, kept, guards, frame, current, pending, leaving, entering, manner>>

MutRequestSwitch ==                                 \* the first thread forgotten
  /\ irq /\ current \in Threads
  /\ \E next \in Threads \ {current} : current' = next /\ entering' = next
  /\ pending' = TRUE /\ leaving' = current
  /\ UNCHANGED <<on, masked, irq, where, kept, guards, frame, manner>>

\* do_schedule_from_isr and context_switch_interrupt, any number of times in one
\* handler: the thread to leave is the one of the first time.
RequestSwitch ==
  /\ irq /\ current \in Threads
  /\ \E next \in Threads \ {current} : current' = next /\ entering' = next
  /\ pending' = TRUE
  /\ leaving' = IF pending THEN leaving ELSE current
  /\ UNCHANGED <<on, masked, irq, where, kept, guards, frame, manner>>

MutExitIrq ==                                       \* the flag is left set
  /\ irq /\ irq' = FALSE
  /\ IF pending THEN /\ frame' = [frame EXCEPT ![leaving] = [ctx |-> on, masked |-> FALSE]]
                     /\ Load(frame'[entering])
     ELSE UNCHANGED <<on, masked, frame>>
  /\ UNCHANGED <<where, kept, guards, current, manner, pending, leaving, entering>>

\* irq: back to the interrupted context, or the deferred switch, its save before
\* its load.  (The two pointers mean nothing without the flag.)
ExitIrq ==
  /\ irq /\ irq' = FALSE
  /\ IF pending THEN /\ frame' = [frame EXCEPT ![leaving] = [ctx |-> on, masked |-> FALSE]]
                     /\ Load(frame'[entering])
     ELSE UNCHANGED <<on, masked, frame>>
  /\ pending' = FALSE /\ leaving' = Main /\ entering' = Main
  /\ UNCHANGED <<where, kept, guards, current, manner>>

SwitchStep ==
  \/ Lock \/ Drop \/ CallSwitches("yield") \/ CallSwitches("block") \/ CallReturns
  \/ StartSets \/ StartSwitches \/ EnterIrq \/ RequestSwitch \/ ExitIrq

-----------------------------------------------------------------------------
SwitchTypeOK ==
  /\ on \in Threads \cup {Main} /\ current \in Threads \cup {Main}
  /\ masked \in BOOLEAN /\ irq \in BOOLEAN /\ pending \in BOOLEAN
  /\ where \in [Threads \cup {Main} -> {"code", "yield", "block", "starting", "gone"}]
  /\ kept \in [Threads -> BOOLEAN]
  /\ guards \in [Threads -> Seq(BOOLEAN)]
  /\ frame \in [Threads -> [ctx : Threads \cup {Main}, masked : BOOLEAN]]
  /\ IF pending THEN {leaving, entering} \subseteq Threads ELSE leaving = Main /\ entering = Main

\* If main starts the scheduler with IRQs masked, no context is lost or doubled:
\* every thread is on the CPU or in its own frame, to resume with IRQs on; and
\* main never comes back (thread.rs:361, "Never returns").
ContextsIntact ==
  manner.masked_start =>
    /\ \A t \in Threads : on # t => frame[t] = [ctx |-> t, masked |-> FALSE]
    /\ where[Main] = "gone" => on # Main

\* Then the thread the scheduler takes for current is the one on the CPU, or the
\* one the handler's exit is about to put there.
CurrentIsOn ==
  manner.masked_start /\ where[Main] = "gone" =>
    IF pending THEN leaving = on /\ entering = current ELSE current = on

\* A thread that keeps to its critical section has the CPU to itself: no other
\* thread and no handler runs (ipc/spinlock.rs:5).
GuardExcludes ==
  manner.scoped /\ ~manner.calls =>
    \A t \in Threads : guards[t] # <<>> => on = t /\ ~irq

\* A thread without an open guard runs with IRQs on, whatever it called inside
\* its guards and whoever ran meanwhile (asm/context.s:28): they are not lost.
IrqsRestored ==
  manner.scoped /\ InThread /\ where[on] = "code" /\ guards[on] = <<>> => ~masked

\* Together: every context is where the scheduler will look for it, and critical
\* sections and IRQs are given back to the thread they were taken from.
ThreadsIntact == ContextsIntact /\ CurrentIsOn /\ GuardExcludes /\ IrqsRestored
=============================================================================
