------------------------------ MODULE Semaphore ------------------------------
(***************************************************************************)
(* The counting semaphore of src/src/ipc/semaphore.rs.                     *)
(***************************************************************************)
EXTENDS Kernel

CONSTANTS
  Initial,   \* Semaphore::new(initial)
  MaxTokens  \* bound: no release beyond this many outstanding tokens

ASSUME SemaphoreAssumption ==
  /\ Initial \in Nat
  /\ MaxTokens \in Nat
  /\ Initial <= MaxTokens

VARIABLES
  sem_count,    \* Semaphore.count
  sem_waiters,  \* Semaphore.waiters, the bitmask as a set of thread ids
  owed          \* history: initial tokens + releases - takes that returned Ok

semVars == <<sem_count, sem_waiters, owed>>

SemInit ==
  /\ sem_count = Initial /\ sem_waiters = {} /\ owed = Initial

-----------------------------------------------------------------------------
\* try_take, and take when a token is there ...
TakeAtOnce ==
  /\ InApp
  /\ sem_count > 0
  /\ sem_count' = sem_count - 1 /\ owed' = owed - 1
  /\ UNCHANGED <<sched, pc, sem_waiters>>

\* ... and when there is none: the first half of the blocking call ...
TakeBlock ==
  /\ MayBlock
  /\ sem_count <= 0
  /\ sem_waiters' = sem_waiters \cup {Self}
  /\ BlockSelf("take")
  /\ UNCHANGED <<sem_count, owed>>

MutTakeReturn ==                                    \* bit left behind
  /\ BackIn("take")
  /\ ReturnSelf
  /\ owed' = IF Granted(Self) THEN owed - 1 ELSE owed
  /\ UNCHANGED <<sched, sem_count, sem_waiters>>

\* ... and the second.  Ok: release handed its token over, count is not
\* touched again.  Otherwise the call returns Err(Timeout).
TakeReturn ==
  /\ BackIn("take")
  /\ ReturnSelf
  /\ IF Granted(Self)
     THEN owed' = owed - 1 /\ UNCHANGED sem_waiters
     ELSE sem_waiters' = sem_waiters \ {Self} /\ UNCHANGED owed
  /\ UNCHANGED <<sched, sem_count>>

MutReleaseLocked ==                                 \* counts and hands over
  /\ sem_count' = sem_count + 1
  /\ IF sem_waiters = {} THEN UNCHANGED <<sched, sem_waiters>>
     ELSE /\ sem_waiters' = sem_waiters \ {Min(sem_waiters)}
          /\ sched' = UnblockThread(sched, Min(sem_waiters))

\* release_locked: the token goes to the lowest waiter id, or to count.
ReleaseLocked ==
  IF sem_waiters # {}
  THEN /\ sem_waiters' = sem_waiters \ {Min(sem_waiters)}
       /\ sched' = UnblockThread(sched, Min(sem_waiters))
       /\ UNCHANGED sem_count
  ELSE /\ sem_count' = sem_count + 1
       /\ UNCHANGED <<sched, sem_waiters>>

Release ==
  /\ InApp
  /\ owed < MaxTokens
  /\ ReleaseLocked
  /\ owed' = owed + 1
  /\ UNCHANGED pc

\* From an interrupt handler: whatever the interrupted thread is doing.
ReleaseFromIsr ==
  /\ ~sched.panicked
  /\ owed < MaxTokens
  /\ ReleaseLocked
  /\ owed' = owed + 1
  /\ UNCHANGED pc

SemStep == TakeAtOnce \/ TakeBlock \/ TakeReturn \/ Release \/ ReleaseFromIsr

\* Deletion and creation of a thread do not touch the object.
SemForget == UNCHANGED semVars

-----------------------------------------------------------------------------
SemTypeOK ==
  /\ sem_count \in Nat /\ owed \in Nat
  /\ sem_waiters \subseteq ThreadIds

Handed == {t \in ThreadIds : GrantedIn("take", t)}

\* No token is invented: tokens in the semaphore, and those handed to a taker
\* that has yet to run, never exceed what was released and not taken.  So at
\* most Initial + releases takes return Ok, whatever the ticks time out.
NoTokenInvented == sem_count + Cardinality(Handed) <= owed

\* No token is lost either (semaphore.rs:74-84, "Release one slot, wakes
\* blocked waiter", docs/THREADING.md:138).
TokensConserved == sem_count + Cardinality(Handed) = owed
TokensConservedUntimed == Untimed => TokensConserved

\* Nobody waits next to a token, and the waiter bitmask is exact for blocked
\* threads: one that blocks in take can be found by the next release, one
\* outside take is never handed a token it does not know of.
TakersExact ==
  /\ sem_count > 0 => sem_waiters = {}
  /\ \A t \in ThreadIds : WaitsIn("take", t) => t \in sem_waiters
  /\ \A t \in sem_waiters : WaitsIn("take", t) \/ ExpiredIn("take", t)

\* What the semaphore promises: none of its tokens is invented, lost or waited
\* next to (semaphore.rs:27-84).
SemaphoreKept == NoTokenInvented /\ TokensConservedUntimed /\ TakersExact

\* A taker whose wait ended, by a token or by a timeout, gets to return from
\* take, unless a better priority has work again and again.
WokenReturns ==
  \A t \in ThreadIds :
    []<>(pc[t] # "take" \/ WaitsIn("take", t) \/ BetterWork(t))
=============================================================================
