---------------------------------- MODULE Ipc ----------------------------------
(***************************************************************************)
(* The scheduler and the IPC objects of src/src/ipc together: one object   *)
(* of each kind the application uses.  The objects meet in the thread      *)
(* record, whose ipc_error and is_ipc_wait every one of them reads or      *)
(* writes through block_current and unblock_thread, and in the thread      *)
(* slots their waiter bitmasks name.                                       *)
(***************************************************************************)
EXTENDS Semaphore, Mutex, MsgQueue, EventFlags, Signals

ipcVars == <<sched, pc, app, semVars, mutexVars, queueVars, eventVars, sigVars>>

IpcInit ==
  /\ KernelInit
  /\ SemInit /\ MutexInit /\ QueueInit /\ EventInit /\ SigInit

-----------------------------------------------------------------------------
\* The steps of one object leave the others alone.
SemaphoreOp ==
  /\ Uses("semaphore") /\ SemStep
  /\ UNCHANGED <<app, mutexVars, queueVars, eventVars, sigVars>>

MutexOp ==
  /\ Uses("mutex") /\ MutexStep
  /\ UNCHANGED <<app, semVars, queueVars, eventVars, sigVars>>

QueueOp ==
  /\ Uses("queue") /\ QueueStep
  /\ UNCHANGED <<app, semVars, mutexVars, eventVars, sigVars>>

EventOp ==
  /\ Uses("events") /\ EventStep
  /\ UNCHANGED <<app, semVars, mutexVars, queueVars, sigVars>>

SignalOp ==
  /\ Uses("signals") /\ SigStep
  /\ UNCHANGED <<app, semVars, mutexVars, queueVars, eventVars>>

\* The timer, and what threads do in application code.
KernelOp ==
  /\ KernelStep
  /\ UNCHANGED <<app, semVars, mutexVars, queueVars, eventVars, sigVars>>

\* A slot of the thread table is emptied or filled: no object is told.
SlotOp ==
  /\ \E id \in ThreadIds :
       /\ DeleteOther(id) \/ CreateOther(id)
       /\ MutexForget(id) /\ QueueForget(id) /\ SigForget(id)
  /\ SemForget /\ EventForget
  /\ UNCHANGED app

IpcNext == \/ SemaphoreOp \/ MutexOp \/ QueueOp \/ EventOp \/ SignalOp
           \/ KernelOp \/ SlotOp

IpcSpec == IpcInit /\ [][IpcNext]_ipcVars

\* The timer keeps interrupting.
TimerFair ==
  WF_ipcVars(/\ Tick
             /\ UNCHANGED <<pc, app, semVars, mutexVars, queueVars, eventVars, sigVars>>)

\* A thread that gets the CPU again and again executes what is left of the
\* call it is in: that takes microseconds, a tick milliseconds.
CallReturns(t) ==
  SF_ipcVars(/\ Self = t
             /\ \/ SemaphoreOp /\ TakeReturn
                \/ MutexOp /\ LockReturn
                \/ QueueOp /\ (SendReturn \/ RecvReturn))

\* The application's side: critical sections end, and it goes on sending and
\* receiving.
KeepsUsing(t) ==
  SF_ipcVars(/\ Self = t
             /\ \/ MutexOp /\ Unlock
                \/ QueueOp /\ (SendAtOnce \/ RecvAtOnce))

IpcFairSpec ==
  IpcSpec /\ TimerFair /\ \A t \in ThreadIds : CallReturns(t) /\ KeepsUsing(t)

-----------------------------------------------------------------------------
Calls == {"app", "take", "lock", "send", "recv", "wait", "signal_wait"}

\* Every object and every thread record keeps its shape.
IpcTypeOK ==
  /\ TypeOK
  /\ pc \in [ThreadIds -> Calls]
  /\ app \in Applications
  /\ SemTypeOK /\ MutexTypeOK /\ QueueTypeOK /\ EventTypeOK /\ SigTypeOK
=============================================================================
