--------------------------------- MODULE MCIpc ---------------------------------
(* Applications of the IPC objects for TLC.                                    *)
EXTENDS Ipc, TLC

Idle == [priority |-> 2, tick |-> 1]
Low  == [priority |-> 1, tick |-> 1]
High == [priority |-> 0, tick |-> 2]
AllProfiles == {Idle, Low, High}

\* Slot 0 is the idle thread, 1 and 2 are peers, 3 is better than both.
Slots == 0 :> Idle @@ 1 :> Low @@ 2 :> Low @@ 3 :> High
FirstThree == 0 :> Idle @@ 1 :> Low @@ 2 :> Low

Runs(objects, threads, timeouts) ==
  [objects |-> objects, threads |-> threads, timeouts |-> timeouts,
   reuses |-> FALSE]
Reuses(objects, threads, timeouts) ==
  [Runs(objects, threads, timeouts) EXCEPT !.reuses = TRUE]

Untimely == {{Forever}, {Forever, 1}}

\* Every object with peers and, where order matters, a better thread, with and
\* without timeouts; two objects at once; and threads that come and go.
AllApplications ==
       {Runs({"semaphore"}, 0..3, w) : w \in Untimely}
  \cup {Runs({"mutex"}, 0..3, w) : w \in Untimely}
  \cup {Runs({"semaphore", "mutex"}, 0..3, w) : w \in Untimely}
  \cup {Runs({"queue"}, 0..2, {Forever, 1}),
        Runs({"events"}, 0..3, {Forever}),
        Runs({"events"}, {0, 2, 3}, {Forever, 1}),
        Runs({"signals"}, 0..1, {Forever, 1}),
        Runs({"mutex", "queue"}, 0..2, {Forever, 1}),
        Runs({"semaphore", "signals"}, 0..1, {Forever, 1}),
        Reuses({"signals"}, 0..1, {Forever, 1})}

LiveApplications ==
  {Runs({"semaphore"}, 0..2, {Forever, 1}),
   Runs({"mutex"}, 0..2, {Forever}),
   Runs({"queue"}, 0..2, {Forever})}

LateOwner  == {Runs({"mutex"}, 0..2, {Forever, 1})}
TwoReaders == {Runs({"queue"}, 0..3, {Forever})}

\* The parameters of EventFlags.wait: both modes, with and without clear_on_exit.
AnyOf == [flags |-> Bits, mode |-> "Or", clear_on_exit |-> TRUE]
AllOf == [flags |-> Bits, mode |-> "And", clear_on_exit |-> TRUE]
Peek  == [flags |-> {CHOOSE b \in Bits : TRUE}, mode |-> "Or", clear_on_exit |-> FALSE]
AllWaits == {AnyOf, AllOf, Peek}

\* The masks of signal_wait: any signal, and signal 1 alone.
AnyOr1 == {SignalNumbers, {1}}
=============================================================================
