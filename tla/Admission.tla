----------------------------- MODULE Admission -----------------------------
(***************************************************************************)
(* What the git admission queue promises its clients, without goroutines,  *)
(* sockets or channels: a client arrives, waits, is admitted while fewer   *)
(* than Capacity admitted clients are connected, and leaves whenever it    *)
(* hangs up.  GoQueue implements this specification.                       *)
(***************************************************************************)
EXTENDS Naturals, FiniteSets

CONSTANTS
    Clients,    \* the connections made to the queue: a finite set
    Capacity    \* the number of slots: a positive natural

VARIABLE status

Statuses == {"outside", "waiting", "active", "left"}

Active == {c \in Clients : status[c] = "active"}

Init == status = [c \in Clients |-> "outside"]

Arrive(c) == /\ status[c] = "outside"
             /\ status' = [status EXCEPT ![c] = "waiting"]

Admit(c) == /\ status[c] = "waiting"
            /\ Cardinality(Active) < Capacity
            /\ status' = [status EXCEPT ![c] = "active"]

Leave(c) == /\ status[c] \in {"waiting", "active"}
            /\ status' = [status EXCEPT ![c] = "left"]

Next == \E c \in Clients : Arrive(c) \/ Admit(c) \/ Leave(c)

Spec == Init /\ [][Next]_status

----------------------------------------------------------------------------
TypeInv == status \in [Clients -> Statuses]

\* At most Capacity admitted clients are connected at a time.
WithinCapacity == Cardinality(Active) <= Capacity

\* Whoever waits is admitted, or gives up by itself.
EveryoneServed == \A c \in Clients : status[c] = "waiting" ~> status[c] # "waiting"
=============================================================================
