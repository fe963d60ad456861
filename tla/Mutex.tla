-------------------------------- MODULE Mutex --------------------------------
(***************************************************************************)
(* The recursive mutex of src/src/ipc/mutex.rs.                            *)
(***************************************************************************)
EXTENDS Kernel

CONSTANT MaxNest   \* bound: how often a thread enters without leaving

ASSUME MutexAssumption == MaxNest \in Nat \ {0}

NO_OWNER == NULL_ID   \* both are 0xFF in the code

VARIABLES
  locked, owner, nest,   \* the fields of struct Mutex
  mutex_waiters,         \* its bitmask as a set of thread ids
  depth                  \* history: Ok results of lock - Ok results of unlock

mutexVars == <<locked, owner, nest, mutex_waiters, depth>>

MutexInit ==
  /\ locked = FALSE /\ owner = NO_OWNER /\ nest = 0 /\ mutex_waiters = {}
  /\ depth = [t \in ThreadIds |-> 0]

-----------------------------------------------------------------------------
\* lock and try_lock succeed at once: the mutex is free, or already Self's.
Acquire ==
  /\ InApp
  /\ depth[Self] < MaxNest
  /\ IF locked THEN /\ owner = Self
                    /\ nest' = nest + 1
                    /\ UNCHANGED <<locked, owner>>
     ELSE locked' = TRUE /\ owner' = Self /\ nest' = 1
  /\ depth' = [depth EXCEPT ![Self] = @ + 1]
  /\ UNCHANGED <<sched, pc, mutex_waiters>>

\* lock blocks: its first half ...
LockBlock ==
  /\ MayBlock
  /\ locked /\ owner # Self
  /\ mutex_waiters' = mutex_waiters \cup {Self}
  /\ BlockSelf("lock")
  /\ UNCHANGED <<locked, owner, nest, depth>>

MutLockReturn ==                                    \* bit left behind
  /\ BackIn("lock")
  /\ ReturnSelf
  /\ depth' = IF Granted(Self) THEN [depth EXCEPT ![Self] = @ + 1] ELSE depth
  /\ UNCHANGED <<sched, locked, owner, nest, mutex_waiters>>

\* ... and its second.  Ok: unlock made Self the owner.
LockReturn ==
  /\ BackIn("lock")
  /\ ReturnSelf
  /\ IF Granted(Self)
     THEN depth' = [depth EXCEPT ![Self] = @ + 1] /\ UNCHANGED mutex_waiters
     ELSE mutex_waiters' = mutex_waiters \ {Self} /\ UNCHANGED depth
  /\ UNCHANGED <<sched, locked, owner, nest>>

MutHandOver ==                                      \* freed, nobody woken
  /\ locked' = FALSE /\ owner' = NO_OWNER /\ nest' = 0
  /\ UNCHANGED <<sched, mutex_waiters>>

\* The last unlock makes the lowest waiter id the owner, or frees the mutex.
HandOver ==
  IF mutex_waiters # {}
  THEN /\ mutex_waiters' = mutex_waiters \ {Min(mutex_waiters)}
       /\ owner' = Min(mutex_waiters) /\ nest' = 1
       /\ sched' = UnblockThread(sched, Min(mutex_waiters))
       /\ UNCHANGED locked
  ELSE /\ locked' = FALSE /\ owner' = NO_OWNER /\ nest' = 0
       /\ UNCHANGED <<sched, mutex_waiters>>

MutUnlock ==                                        \* owner not compared
  /\ InApp
  /\ locked
  /\ IF nest > 1
     THEN nest' = nest - 1 /\ UNCHANGED <<sched, locked, owner, mutex_waiters>>
     ELSE HandOver
  /\ depth' = [depth EXCEPT ![Self] = IF @ > 0 THEN @ - 1 ELSE 0]
  /\ UNCHANGED pc

\* unlock by the owner; by anyone else it returns NotOwner and does nothing.
Unlock ==
  /\ InApp
  /\ owner = Self
  /\ IF nest > 1
     THEN nest' = nest - 1 /\ UNCHANGED <<sched, locked, owner, mutex_waiters>>
     ELSE HandOver
  /\ depth' = [depth EXCEPT ![Self] = IF @ > 0 THEN @ - 1 ELSE 0]
  /\ UNCHANGED pc

MutexStep == Acquire \/ LockBlock \/ LockReturn \/ Unlock

\* Deletion and creation of thread id do not touch the object.
MutexForget(id) ==
  /\ depth' = [depth EXCEPT ![id] = 0]
  /\ UNCHANGED <<locked, owner, nest, mutex_waiters>>

-----------------------------------------------------------------------------
MutexTypeOK ==
  /\ locked \in BOOLEAN
  /\ owner \in ThreadIds \cup {NO_OWNER}
  /\ nest \in Nat
  /\ mutex_waiters \subseteq ThreadIds
  /\ depth \in [ThreadIds -> Nat]

\* The mutex, seen through the Ok results its users got, is a recursive lock:
\* no interleaving of ticks, timeouts and hand-overs lets two threads in
\* (mutex.rs:15, "Only one thread may hold the mutex at a time").
Lock == INSTANCE AbstractLock WITH Clients <- ThreadIds
ImplementsLock == Lock!LockSpec

\* A free mutex has no waiters, and whoever blocks in lock is in the bitmask
\* the next unlock looks at: no lost wake-up.
NoLostWaiter ==
  /\ ~locked => mutex_waiters = {}
  /\ \A t \in ThreadIds : WaitsIn("lock", t) => t \in mutex_waiters
  /\ \A t \in mutex_waiters : WaitsIn("lock", t) \/ ExpiredIn("lock", t)

\* The bookkeeping agrees with what the callers were told: the owner has
\* entered nest times, or was just handed the mutex and has yet to return
\* from lock (docs/THREADING.md:162, "each lock() needs a matching unlock()").
OwnerEntered ==
  owner # NO_OWNER =>
    \/ nest = depth[owner] /\ pc[owner] # "lock"
    \/ nest = 1 /\ depth[owner] = 0 /\ GrantedIn("lock", owner)
OwnerEnteredUntimed == Untimed => OwnerEntered

\* What unlock finds is what lock left: every waiter, and an owner that knows
\* it is one (mutex.rs:81-109).
MutexKept == NoLostWaiter /\ OwnerEnteredUntimed

\* The mutex keeps changing hands: while somebody waits, some waiter is made
\* the owner, unless the owner itself is kept from the CPU by a better
\* priority (the mutex lends no priority to its owner).
WaitersProgress ==
  []<>(\/ ~\E t \in ThreadIds : WaitsIn("lock", t)
       \/ \E t \in ThreadIds : GrantedIn("lock", t)
       \/ owner # NO_OWNER /\ BetterWork(owner))
=============================================================================
