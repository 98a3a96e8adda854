----------------------------- MODULE BoundedFifo -----------------------------
(***************************************************************************)
(* What a ring buffer promises: a FIFO of at most Cap items.  A push that  *)
(* finds it full and a pop that finds it empty change nothing.             *)
(***************************************************************************)
EXTENDS Naturals, Sequences

CONSTANTS Values, Cap

VARIABLES
  queue,   \* items pushed and not yet popped, oldest first
  got      \* the item the last successful pop returned

Init == queue = <<>> /\ got \in Values

Push == \E v \in Values : /\ Len(queue) < Cap
                          /\ queue' = Append(queue, v)
                          /\ UNCHANGED got

Pop == /\ queue # <<>>
       /\ got' = Head(queue)
       /\ queue' = Tail(queue)

Spec == Init /\ [][Push \/ Pop]_<<queue, got>>
=============================================================================
