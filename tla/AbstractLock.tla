----------------------------- MODULE AbstractLock -----------------------------
(***************************************************************************)
(* What a recursive lock promises its users: only one thread at a time is  *)
(* inside, it may enter again, and leaves as often as it entered.          *)
(***************************************************************************)
EXTENDS Naturals

CONSTANT Clients

VARIABLE depth   \* [Clients -> Nat]: how often each client is inside

LockInit == depth = [c \in Clients |-> 0]

Enter(c) == /\ \A d \in Clients \ {c} : depth[d] = 0
            /\ depth' = [depth EXCEPT ![c] = @ + 1]

Leave(c) == /\ depth[c] > 0
            /\ depth' = [depth EXCEPT ![c] = @ - 1]

LockNext == \E c \in Clients : Enter(c) \/ Leave(c)

LockSpec == LockInit /\ [][LockNext]_depth
=============================================================================
