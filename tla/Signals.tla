-------------------------------- MODULE Signals --------------------------------
(***************************************************************************)
(* The software signals of src/src/ipc/signal.rs: a pending word and a     *)
(* mask in every thread, and global tables indexed by thread slot.  The    *)
(* handler a thread installs is application code that its own thread       *)
(* calls; the table of handlers is left out.                               *)
(***************************************************************************)
EXTENDS Kernel

CONSTANTS
  MAX_SIGNALS,   \* 32 in the code
  WaitMasks      \* the masks given to signal_wait

SignalNumbers == 0 .. MAX_SIGNALS - 1

ASSUME SignalAssumption ==
  /\ MAX_SIGNALS \in Nat \ {0}
  /\ WaitMasks \subseteq SUBSET SignalNumbers

VARIABLES
  sig_pending, sig_mask,   \* fields of struct Thread, as sets of signals
  sig_waiters,             \* SIG_WAITERS as a set of thread ids
  sig_wait_mask,           \* SIG_WAIT_MASK
  sent                     \* history: signals sent to the slot's thread and
                           \* not yet returned or delivered to it

sigVars == <<sig_pending, sig_mask, sig_waiters, sig_wait_mask, sent>>

NoSignals == [t \in ThreadIds |-> {}]

SigInit ==
  /\ sig_pending = NoSignals /\ sig_mask = NoSignals /\ sent = NoSignals
  /\ sig_waiters = {} /\ sig_wait_mask = NoSignals

-----------------------------------------------------------------------------
\* *pending & !*mask & wait_mask
Deliverable(t, wait) == (sig_pending[t] \ sig_mask[t]) \cap wait

SetMask ==
  /\ InApp
  /\ \E m \in SUBSET SignalNumbers : sig_mask' = [sig_mask EXCEPT ![Self] = m]
  /\ UNCHANGED <<sched, pc, sig_pending, sig_waiters, sig_wait_mask, sent>>

MutWakesMasked(t, pending) ==                       \* mask forgotten
  /\ t \in sig_waiters
  /\ pending \cap sig_wait_mask[t] # {}

MutWakesTarget(t, pending) ==                       \* all of them, not any
  /\ t \in sig_waiters
  /\ sig_wait_mask[t] \subseteq pending \ sig_mask[t]

\* The target is registered and something it waits for is now deliverable.
WakesTarget(t, pending) ==
  /\ t \in sig_waiters
  /\ (pending \ sig_mask[t]) \cap sig_wait_mask[t] # {}

\* signal_send, and signal_send_from_isr: an ISR may send at any moment, as
\* may any thread.  A handle of an empty slot is ignored.
SendSignal ==
  /\ ~sched.panicked
  /\ \E t \in ThreadIds, s \in SignalNumbers :
       /\ sched.state[t] # "Dead"
       /\ sig_pending' = [sig_pending EXCEPT ![t] = @ \cup {s}]
       /\ sent' = [sent EXCEPT ![t] = @ \cup {s}]
       /\ IF WakesTarget(t, sig_pending'[t])
          THEN sig_waiters' = sig_waiters \ {t} /\ sched' = UnblockThread(sched, t)
          ELSE UNCHANGED <<sig_waiters, sched>>
  /\ UNCHANGED <<pc, sig_mask, sig_wait_mask>>

MutTakeSignal(s) ==                                 \* the whole word cleared
  /\ sig_pending' = [sig_pending EXCEPT ![Self] = {}]
  /\ sent' = [sent EXCEPT ![Self] = @ \ {s}]

\* Self takes signal s out of its pending word, to return or deliver it.
TakeSignal(s) ==
  /\ sig_pending' = [sig_pending EXCEPT ![Self] = @ \ {s}]
  /\ sent' = [sent EXCEPT ![Self] = @ \ {s}]

\* signal_wait with a signal there: the lowest number is taken ...
SignalAtOnce ==
  /\ InApp
  /\ \E wait \in WaitMasks : /\ Deliverable(Self, wait) # {}
                             /\ TakeSignal(Min(Deliverable(Self, wait)))
  /\ UNCHANGED <<sched, pc, sig_mask, sig_waiters, sig_wait_mask>>

\* ... and the first half ...
SignalBlock ==
  /\ MayBlock
  /\ \E wait \in WaitMasks :
       /\ Deliverable(Self, wait) = {}
       /\ sig_wait_mask' = [sig_wait_mask EXCEPT ![Self] = wait]
  /\ sig_waiters' = sig_waiters \cup {Self}
  /\ BlockSelf("signal_wait")
  /\ UNCHANGED <<sig_pending, sig_mask, sent>>

\* ... and second half of one that blocks.  Released with nothing deliverable,
\* it returns Ok(0); not released, Err(Timeout).
SignalReturn ==
  /\ BackIn("signal_wait")
  /\ ReturnSelf
  /\ LET found == Deliverable(Self, sig_wait_mask[Self])
     IN  IF Granted(Self) /\ found # {} THEN TakeSignal(Min(found))
         ELSE UNCHANGED <<sig_pending, sent>>
  /\ sig_waiters' = IF Granted(Self) THEN sig_waiters ELSE sig_waiters \ {Self}
  /\ UNCHANGED <<sched, sig_mask, sig_wait_mask>>

\* One round of the loop of signal_check.
CheckSignals ==
  /\ InApp
  /\ Deliverable(Self, SignalNumbers) # {}
  /\ TakeSignal(Min(Deliverable(Self, SignalNumbers)))
  /\ UNCHANGED <<sched, pc, sig_mask, sig_waiters, sig_wait_mask>>

SigStep == \/ SetMask \/ SendSignal \/ SignalAtOnce \/ SignalBlock
           \/ SignalReturn \/ CheckSignals

\* What deletion and creation of thread id do to the signals: the fields of
\* struct Thread start empty, the global tables are not touched.
SigForget(id) ==
  /\ sig_pending' = [sig_pending EXCEPT ![id] = {}]
  /\ sig_mask' = [sig_mask EXCEPT ![id] = {}]
  /\ sent' = [sent EXCEPT ![id] = {}]
  /\ UNCHANGED <<sig_waiters, sig_wait_mask>>

-----------------------------------------------------------------------------
SigTypeOK ==
  /\ \A w \in {sig_pending, sig_mask, sig_wait_mask, sent} :
       w \in [ThreadIds -> SUBSET SignalNumbers]
  /\ sig_waiters \subseteq ThreadIds

\* Nobody sleeps on a signal: a thread blocked in signal_wait has nothing
\* deliverable to it (signal.rs:85, "If the thread is waiting in signal_wait
\* with a matching mask, it is woken").
NoneWaitsSignalled ==
  \A t \in ThreadIds :
    WaitsIn("signal_wait", t) => Deliverable(t, sig_wait_mask[t]) = {}

\* A signal sent to a thread stays pending until the thread is told of it,
\* through other signals, timeouts and wake-ups (signal.rs:84).
NoSignalLost == \A t \in ThreadIds : sent[t] \subseteq sig_pending[t]

\* signal_wait returns Ok only for a signal that is there; its unwrap_or(0)
\* never invents signal 0 (signal.rs:132, 186).
OkMeansSignal ==
  \A t \in ThreadIds :
    GrantedIn("signal_wait", t) => Deliverable(t, sig_wait_mask[t]) # {}

\* What a sender can rely on: its signal stays, ends the wait for it, and
\* nothing else ends that wait with Ok (signal.rs:84-192).
SignalsKept == NoneWaitsSignalled /\ NoSignalLost /\ OkMeansSignal
=============================================================================
