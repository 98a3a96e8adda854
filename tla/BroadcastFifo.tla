--------------------------- MODULE BroadcastFifo ---------------------------
(***************************************************************************)
(* What a broadcast ring promises: every consumer has a FIFO of its own, an*)
(* item is put in all of them at once, and only while each has room.       *)
(***************************************************************************)
EXTENDS Naturals, Sequences

CONSTANTS Items, FanCap, Consumers

VARIABLES
  queues,  \* consumer -> items published and not yet received, oldest first
  got      \* consumer -> the item it received last

Init == queues = [c \in Consumers |-> <<>>] /\ got \in [Consumers -> Items]

Publish == \E v \in Items : /\ \A c \in Consumers : Len(queues[c]) < FanCap
                            /\ queues' = [c \in Consumers |-> Append(queues[c], v)]
                            /\ UNCHANGED got

Receive == \E c \in Consumers : /\ queues[c] # <<>>
                                /\ got' = [got EXCEPT ![c] = Head(queues[c])]
                                /\ queues' = [queues EXCEPT ![c] = Tail(@)]

Spec == Init /\ [][Publish \/ Receive]_<<queues, got>>
=============================================================================
