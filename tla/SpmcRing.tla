------------------------------ MODULE SpmcRing ------------------------------
(***************************************************************************)
(* The broadcast ring: crates/ring-buffer/spmc.rs.  One thread calls       *)
(* try_push, one thread per consumer calls try_pop, and every consumer     *)
(* receives every item.                                                    *)
(*                                                                         *)
(* Every shared access is a step.  A load returns any value the cursor had *)
(* since the thread's previous load of it.  The cursors are usize; min_tail*)
(* takes a plain minimum of them, so the model stops (MaxPushes) before    *)
(* they wrap at 2^64.                                                      *)
(***************************************************************************)
EXTENDS Integers, Sequences, FiniteSetsExt

CONSTANTS
  Items,        \* items
  FanCap,       \* CAP, a power of two
  NConsumers,   \* n_consumers
  MaxPushes     \* bound: items published

\* CAP is a power of two; every caller of spmc_queue has at least one consumer.
ASSUME SpmcAssumption ==
  /\ Items # {} /\ FanCap \in Nat \ {0} /\ NConsumers \in Nat \ {0}
  /\ MaxPushes \in Nat

VARIABLES
  f_head,      \* items published
  f_tails,     \* consumer -> its tail cursor
  f_slots,     \* ring position -> set of at most one item
  f_pc,        \* producer: position in try_push
  f_next,      \* producer: the tail min_tail loads next
  f_seen,      \* consumer -> the tail the producer loaded last
  f_item,      \* the argument of try_push
  r_pc,        \* consumer -> position in try_pop
  r_head,      \* consumer -> the head it loaded last
  r_got        \* consumer -> the item it cloned last

fan_producer == <<f_head, f_pc, f_next, f_seen, f_item>>
fan_consumer == <<f_tails, r_pc, r_head, r_got>>
fan_vars     == <<fan_producer, fan_consumer, f_slots>>

Consumers == 1 .. NConsumers

fan_mask(idx) == idx % FanCap

\* Stands for an argument or a result before the first call.
NoFanItem == CHOOSE v \in Items : TRUE

\* spmc_queue.
FanInit ==
  /\ f_head = 0 /\ f_tails = [c \in Consumers |-> 0]
  /\ f_slots = [i \in 0 .. FanCap - 1 |-> {}]
  /\ f_pc = "idle" /\ f_next = 1 /\ f_seen = [c \in Consumers |-> 0] /\ f_item = NoFanItem
  /\ r_pc = [c \in Consumers |-> "idle"] /\ r_head = [c \in Consumers |-> 0]
  /\ r_got = [c \in Consumers |-> NoFanItem]

(***************************************************************************)
(* try_push.                                                               *)
(***************************************************************************)
FanCall ==
  /\ f_pc = "idle" /\ f_head < MaxPushes
  /\ f_item' \in Items
  /\ f_pc' = "load" /\ f_next' = 1
  /\ UNCHANGED <<f_head, f_seen, fan_consumer, f_slots>>

\* The loads of min_tail, in the order of the vector.
FanLoadTail ==
  /\ f_pc = "load"
  /\ \E t \in f_seen[f_next] .. f_tails[f_next] : f_seen' = [f_seen EXCEPT ![f_next] = t]
  /\ f_next' = f_next + 1
  /\ f_pc' = IF f_next = NConsumers THEN "check" ELSE "load"
  /\ UNCHANGED <<f_head, f_item, fan_consumer, f_slots>>

min_tail == Min({f_seen[c] : c \in Consumers})

FanFull ==
  /\ f_pc = "check"
  /\ f_head - min_tail = FanCap
  /\ f_pc' = "idle"
  /\ UNCHANGED <<f_head, f_next, f_seen, f_item, fan_consumer, f_slots>>

FanWrite ==
  /\ f_pc = "check"
  /\ f_head - min_tail # FanCap
  /\ f_slots' = [f_slots EXCEPT ![fan_mask(f_head)] = {f_item}]
  /\ f_pc' = "written"
  /\ UNCHANGED <<f_head, f_next, f_seen, f_item, fan_consumer>>

FanStoreHead ==
  /\ f_pc = "written"
  /\ f_head' = f_head + 1
  /\ f_pc' = "idle"
  /\ UNCHANGED <<f_next, f_seen, f_item, fan_consumer, f_slots>>

(***************************************************************************)
(* try_pop of consumer c.                                                  *)
(***************************************************************************)
\* Faulty variant: no test for an empty ring.
FanLoadHeadAny(c) ==
  /\ r_pc[c] = "idle"
  /\ \E h \in r_head[c] .. f_head : r_head' = [r_head EXCEPT ![c] = h]
  /\ r_pc' = [r_pc EXCEPT ![c] = "clone"]
  /\ UNCHANGED <<f_tails, r_got, fan_producer, f_slots>>

FanLoadHead(c) ==
  /\ r_pc[c] = "idle"
  /\ \E h \in r_head[c] .. f_head :
       /\ r_head' = [r_head EXCEPT ![c] = h]
       /\ r_pc' = [r_pc EXCEPT ![c] = IF h = f_tails[c] THEN "idle" ELSE "clone"]
  /\ UNCHANGED <<f_tails, r_got, fan_producer, f_slots>>

\* assume_init_ref().clone(): of an uninitialized slot it returns any value.
FanClone(c) ==
  /\ r_pc[c] = "clone"
  /\ LET slot == f_slots[fan_mask(f_tails[c])]
     IN  \E v \in IF slot = {} THEN Items ELSE slot : r_got' = [r_got EXCEPT ![c] = v]
  /\ r_pc' = [r_pc EXCEPT ![c] = "read"]
  /\ UNCHANGED <<f_tails, r_head, fan_producer, f_slots>>

FanStoreTail(c) ==
  /\ r_pc[c] = "read"
  /\ f_tails' = [f_tails EXCEPT ![c] = @ + 1]
  /\ r_pc' = [r_pc EXCEPT ![c] = "idle"]
  /\ UNCHANGED <<r_head, r_got, fan_producer, f_slots>>

FanNext ==
  \/ FanCall \/ FanLoadTail \/ FanFull \/ FanWrite \/ FanStoreHead
  \/ \E c \in Consumers : FanLoadHead(c) \/ FanClone(c) \/ FanStoreTail(c)

FanSpec == FanInit /\ [][FanNext]_fan_vars

(***************************************************************************)
(* Properties.                                                             *)
(***************************************************************************)

\* The producer writes a slot only when no consumer still has to clone it:
\* the SAFETY comment of try_push.  A consumer cloning the slot would race.
NoSlotOverwritten ==
  f_pc = "check" /\ f_head - min_tail # FanCap =>
    \A c \in Consumers : f_head - f_tails[c] < FanCap

\* How many items consumer c has received, and those it has not, oldest first.
Received(c) == IF r_pc[c] = "read" THEN f_tails[c] + 1 ELSE f_tails[c]

Backlog(c) ==
  [i \in 1 .. f_head - Received(c) |->
     CHOOSE v \in f_slots[fan_mask(Received(c) + i - 1)] : TRUE]

Backlogs == [c \in Consumers |-> Backlog(c)]

Broadcast == INSTANCE BroadcastFifo WITH queues <- Backlogs, got <- r_got

\* Each consumer, whatever the others do, sees a bounded FIFO of everything
\* published: no consumer misses, repeats or reorders an item.
ImplementsBroadcast == Broadcast!Spec
=============================================================================
