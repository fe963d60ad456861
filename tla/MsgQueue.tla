------------------------------- MODULE MsgQueue -------------------------------
(***************************************************************************)
(* The message queue of src/src/ipc/msgqueue.rs: a ring of fixed-size      *)
(* slots, with one waiter bitmask for each end.  A message is a value; the *)
(* size check at the head of each call is on its type and is left out.     *)
(***************************************************************************)
EXTENDS Kernel, Sequences

CONSTANTS
  Messages,       \* what is sent
  NoMessage,      \* the content of a slot never written
  Capacity,       \* buf.len() / msg_size
  UsizeModulus,   \* 2^32 in the code: the counters wrap
  Senders,        \* the threads that call send and try_send
  Receivers       \* the threads that call recv and try_recv

ASSUME QueueAssumption ==
  /\ NoMessage \notin Messages
  /\ Capacity \in Nat \ {0}
  /\ UsizeModulus \in Nat /\ UsizeModulus > Capacity
  /\ Senders \subseteq ThreadIds /\ Receivers \subseteq ThreadIds

VARIABLES
  slots,                       \* buf, one cell per message
  head, tail, count,           \* MsgQueue.head, .tail, .count
  recv_waiters, send_waiters,  \* the bitmasks as sets of thread ids
  msg,                         \* [ThreadIds -> what a blocked send carries]
  delivered                    \* history: what the last receive copied out

ring == <<slots, head, tail, count>>
queueVars == <<ring, recv_waiters, send_waiters, msg, delivered>>

SlotIds == 0 .. Capacity - 1

QueueInit ==
  /\ slots = [i \in SlotIds |-> NoMessage]
  /\ head = 0 /\ tail = 0 /\ count = 0
  /\ recv_waiters = {} /\ send_waiters = {}
  /\ msg = [t \in ThreadIds |-> NoMessage]
  /\ delivered = NoMessage

-----------------------------------------------------------------------------
(* The ring and the wake-ups.                                              *)

MutEnqueue(m) ==                                    \* advanced, then written
  /\ tail' = (tail + 1) % Capacity
  /\ slots' = [slots EXCEPT ![tail'] = m]
  /\ count' = (count + 1) % UsizeModulus
  /\ UNCHANGED <<head, delivered>>

Enqueue(m) ==
  /\ slots' = [slots EXCEPT ![tail] = m]
  /\ tail' = (tail + 1) % Capacity
  /\ count' = (count + 1) % UsizeModulus
  /\ UNCHANGED <<head, delivered>>

Dequeue ==
  /\ delivered' = slots[head]
  /\ head' = (head + 1) % Capacity
  /\ count' = (count - 1) % UsizeModulus
  /\ UNCHANGED <<slots, tail>>

MutWakeWaiter(waiters) == sched                     \* nobody woken

\* wake_recv_waiter and wake_send_waiter: the lowest waiter id.
WakeWaiter(waiters) ==
  IF waiters = {} THEN sched ELSE UnblockThread(sched, Min(waiters))

Unlisted(waiters) == IF waiters = {} THEN {} ELSE waiters \ {Min(waiters)}

\* A message in, and one receiver told.
EnqueueAndWake(m) ==
  /\ Enqueue(m)
  /\ recv_waiters' = Unlisted(recv_waiters)
  /\ sched' = WakeWaiter(recv_waiters)

\* A message out, and one sender told.
DequeueAndWake ==
  /\ Dequeue
  /\ send_waiters' = Unlisted(send_waiters)
  /\ sched' = WakeWaiter(send_waiters)

-----------------------------------------------------------------------------
(* The calls.                                                              *)

\* send and try_send with room ...
SendAtOnce ==
  /\ InApp /\ Self \in Senders
  /\ count < Capacity
  /\ \E m \in Messages : EnqueueAndWake(m)
  /\ UNCHANGED <<pc, send_waiters, msg>>

\* ... send on a full queue: the first half ...
SendBlock ==
  /\ MayBlock /\ Self \in Senders
  /\ count >= Capacity
  /\ send_waiters' = send_waiters \cup {Self}
  /\ \E m \in Messages : msg' = [msg EXCEPT ![Self] = m]
  /\ BlockSelf("send")
  /\ UNCHANGED <<ring, recv_waiters, delivered>>

\* ... and the second, which does not look at count again.
SendReturn ==
  /\ BackIn("send")
  /\ ReturnSelf
  /\ msg' = [msg EXCEPT ![Self] = NoMessage]
  /\ IF Granted(Self)
     THEN EnqueueAndWake(msg[Self]) /\ UNCHANGED send_waiters
     ELSE /\ send_waiters' = send_waiters \ {Self}
          /\ UNCHANGED <<sched, ring, recv_waiters, delivered>>

\* recv and try_recv with a message there ...
RecvAtOnce ==
  /\ InApp /\ Self \in Receivers
  /\ count > 0
  /\ DequeueAndWake
  /\ UNCHANGED <<pc, recv_waiters, msg>>

\* ... recv on an empty queue: the first half ...
RecvBlock ==
  /\ MayBlock /\ Self \in Receivers
  /\ count = 0
  /\ recv_waiters' = recv_waiters \cup {Self}
  /\ BlockSelf("recv")
  /\ UNCHANGED <<ring, send_waiters, msg, delivered>>

MutRecvReturn ==                                    \* senders not told
  /\ BackIn("recv")
  /\ ReturnSelf
  /\ IF Granted(Self)
     THEN Dequeue /\ UNCHANGED <<sched, recv_waiters>>
     ELSE /\ recv_waiters' = recv_waiters \ {Self}
          /\ UNCHANGED <<sched, ring, delivered>>
  /\ UNCHANGED <<msg, send_waiters>>

\* ... and the second.
RecvReturn ==
  /\ BackIn("recv")
  /\ ReturnSelf
  /\ IF Granted(Self)
     THEN DequeueAndWake /\ UNCHANGED recv_waiters
     ELSE /\ recv_waiters' = recv_waiters \ {Self}
          /\ UNCHANGED <<sched, ring, send_waiters, delivered>>
  /\ UNCHANGED msg

QueueStep == \/ SendAtOnce \/ SendBlock \/ SendReturn
             \/ RecvAtOnce \/ RecvBlock \/ RecvReturn

\* Deletion and creation of thread id do not touch the object.
QueueForget(id) ==
  /\ msg' = [msg EXCEPT ![id] = NoMessage]
  /\ UNCHANGED <<ring, recv_waiters, send_waiters, delivered>>

-----------------------------------------------------------------------------
QueueTypeOK ==
  /\ slots \in [SlotIds -> Messages \cup {NoMessage}]
  /\ head \in SlotIds /\ tail \in SlotIds /\ count \in 0 .. UsizeModulus - 1
  /\ recv_waiters \subseteq Receivers /\ send_waiters \subseteq Senders
  /\ msg \in [ThreadIds -> Messages \cup {NoMessage}]
  /\ delivered \in Messages \cup {NoMessage}

\* The ring between head and tail, oldest first.
Contents == [i \in 1 .. count |-> slots[(head + i - 1) % Capacity]]

\* The queue is a bounded FIFO: no message is lost, duplicated, overwritten or
\* overtaken, whatever waits time out (docs/THREADING.md:189-217).
Fifo == INSTANCE AbstractQueue WITH contents <- Contents
ImplementsFifo == Fifo!QueueSpec

\* The occupancy stays what it says: a woken sender still finds its slot free,
\* a woken receiver its message there (msgqueue.rs:91, "Space was made
\* available by a receive").
CountInRange == count \in 0 .. Capacity

\* "Both senders and receivers block when queue is full/empty respectively"
\* (docs/THREADING.md:216), and at no other time: nobody is left waiting next
\* to what it waits for, unless a thread that was woken for it is on its way.
NoReceiverLeft ==
  (\E t \in ThreadIds : WaitsIn("recv", t)) /\ count > 0
    => \E t \in ThreadIds : GrantedIn("recv", t)
NoSenderLeft ==
  (\E t \in ThreadIds : WaitsIn("send", t)) /\ count < Capacity
    => \E t \in ThreadIds : GrantedIn("send", t)

\* Both directions together (msgqueue.rs:65-128).
QueueServes == NoReceiverLeft /\ NoSenderLeft

\* Data flows: a sender that waits is let in, as long as the receivers keep
\* receiving and no better priority keeps them from the CPU.
SendersProgress ==
  []<>(\/ ~\E t \in ThreadIds : WaitsIn("send", t)
       \/ \E t \in Receivers : BetterWork(t))
=============================================================================
