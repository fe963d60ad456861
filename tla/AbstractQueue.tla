----------------------------- MODULE AbstractQueue -----------------------------
(***************************************************************************)
(* What a message queue promises its users: a bounded FIFO.                *)
(***************************************************************************)
EXTENDS Naturals, Sequences

CONSTANTS Messages, Capacity

VARIABLES
  contents,   \* the messages sent and not yet received, oldest first
  delivered   \* the message the last receive returned

QueueInit == contents = <<>> /\ delivered \notin Messages

Put(m) == /\ Len(contents) < Capacity
          /\ contents' = Append(contents, m)
          /\ UNCHANGED delivered

Get == /\ contents # <<>>
       /\ delivered' = Head(contents)
       /\ contents' = Tail(contents)

QueueNext == Get \/ \E m \in Messages : Put(m)

QueueSpec == QueueInit /\ [][QueueNext]_<<contents, delivered>>
=============================================================================
