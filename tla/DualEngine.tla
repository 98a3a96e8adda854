----------------------------- MODULE DualEngine -----------------------------
(***************************************************************************)
(* The dual-engine pipeline: crates dual-log (DualLog, PendingRing),       *)
(* sorter (Sorter::scan_once), second-engine (worker_loop) and core-types  *)
(* (LogEntry, OrderStatus).                                                *)
(*                                                                         *)
(* The writer logs an order and puts its entry into the pending ring.  The *)
(* primary engine claims pending entries; sorters escalate the ones that   *)
(* have timed out; workers of the second engine process those.  All of     *)
(* them run concurrently and meet only in the entry's status byte, changed *)
(* by compare-and-swap, in the ring and in the channel.  Each access to    *)
(* these is a step.  The primary's side of the protocol is not in the      *)
(* repository: it is modelled from OrderStatus and PendingRing.            *)
(***************************************************************************)
EXTENDS Integers, FiniteSets, Sequences, Functions

CONSTANTS
  MaxSeq,    \* bound: orders written
  Sorters,   \* sorter threads
  Workers    \* worker threads of the second engine

ASSUME PipelineAssumption == MaxSeq \in Nat /\ IsFiniteSet(Sorters) /\ IsFiniteSet(Workers)

VARIABLES
  status,      \* entry -> status byte, "None" before the entry exists
  handled_by,  \* entry -> engine that recorded the fill, 0 if none
  applied,     \* entry -> how often an engine carried out its command
  aged,        \* entries older than every timeout the sorter may choose
  log_a, log_b, written,  \* orders in either log; orders the writer was given
  ring, len,   \* the pending ring: its map and its counter
  channel,     \* escalated entries on their way to the workers
  writer,      \* TRUE between the map insert and the counter update of a push
  primary,     \* [pc, entry] of the primary engine
  sorter,      \* sorter -> [pc, entry, todo, late]: the entry in hand, the rest of
               \*   the snapshot, and what was past the timeout when the scan began
  worker       \* worker -> [pc, entry]

entries == <<status, handled_by, applied, aged>>
logs    == <<log_a, log_b, written>>
pending == <<ring, len>>
actors  == <<writer, primary, sorter, worker>>
vars    == <<entries, logs, pending, channel, actors>>

Entries == 1 .. MaxSeq

\* The oldest of a set of entries, if there is one.
Oldest(S) == {e \in S : \A d \in S : e <= d}

Idle    == [pc |-> "idle", entry |-> 0]
Resting == [pc |-> "idle", entry |-> 0, todo |-> {}, late |-> {}]

Init ==
  /\ status = [e \in Entries |-> "None"]
  /\ handled_by = [e \in Entries |-> 0]
  /\ applied = [e \in Entries |-> 0]
  /\ aged = {}
  /\ log_a = {} /\ log_b = {} /\ written = 0
  /\ ring = {} /\ len = 0
  /\ channel = <<>>
  /\ writer = FALSE
  /\ primary = Idle
  /\ sorter = [s \in Sorters |-> Resting]
  /\ worker = [w \in Workers |-> Idle]

\* The compare-and-swap of try_claim: its success, and the new status.
Wins(e, from) == status[e] = from
Become(e, to) == status' = [status EXCEPT ![e] = to]

IsTerminal(e) == status[e] \in {"Addressed", "FinallyHandled"}

(***************************************************************************)
(* DualLog::write.                                                         *)
(***************************************************************************)

\* Both appends succeed and the entry is inserted into the ring's map.
Write ==
  /\ ~writer /\ written < MaxSeq
  /\ LET e == written + 1
     IN  /\ written' = e
         /\ log_a' = log_a \cup {e} /\ log_b' = log_b \cup {e}
         /\ Become(e, "Pending")
         /\ ring' = ring \cup {e}
  /\ writer' = TRUE
  /\ UNCHANGED <<handled_by, applied, aged, len, channel, primary, sorter, worker>>

\* Faulty variant: one log is taken to be enough.
WriteFailsAccepted ==
  /\ ~writer /\ written < MaxSeq
  /\ written' = written + 1
  /\ log_a' = log_a \cup {written'}
  /\ Become(written', "Pending")
  /\ ring' = ring \cup {written'}
  /\ writer' = TRUE
  /\ UNCHANGED <<handled_by, applied, aged, log_b, len, channel, primary, sorter, worker>>

\* An append fails: what the other log holds stays, no entry is made.
WriteFails ==
  /\ ~writer /\ written < MaxSeq
  /\ written' = written + 1
  /\ \/ UNCHANGED <<log_a, log_b>>
     \/ log_a' = log_a \cup {written'} /\ UNCHANGED log_b
     \/ log_b' = log_b \cup {written'} /\ UNCHANGED log_a
  /\ UNCHANGED <<entries, pending, channel, actors>>

CountPush ==
  /\ writer
  /\ writer' = FALSE
  /\ len' = len + 1
  /\ UNCHANGED <<entries, logs, ring, channel, primary, sorter, worker>>

\* The clock passes the longest timeout.
Age(e) ==
  /\ status[e] # "None" /\ e \notin aged
  /\ aged' = aged \cup {e}
  /\ UNCHANGED <<status, handled_by, applied, logs, pending, channel, actors>>

(***************************************************************************)
(* The primary engine (external): next_pending, claim, process, record.    *)
(***************************************************************************)
PrimaryNext ==
  /\ primary = Idle
  /\ \E e \in Oldest({d \in ring : status[d] = "Pending"}) :
       primary' = [pc |-> "claim", entry |-> e]
  /\ UNCHANGED <<entries, logs, pending, channel, writer, sorter, worker>>

PrimaryClaim ==
  /\ primary.pc = "claim"
  /\ IF Wins(primary.entry, "Pending")
       THEN /\ Become(primary.entry, "Addressed")
            /\ primary' = [primary EXCEPT !.pc = "apply"]
       ELSE /\ primary' = Idle
            /\ UNCHANGED status
  /\ UNCHANGED <<handled_by, applied, aged, logs, pending, channel, writer, sorter, worker>>

PrimaryApply ==
  /\ primary.pc = "apply"
  /\ applied' = [applied EXCEPT ![primary.entry] = @ + 1]
  /\ primary' = [primary EXCEPT !.pc = "record"]
  /\ UNCHANGED <<status, handled_by, aged, logs, pending, channel, writer, sorter, worker>>

PrimaryRecord ==
  /\ primary.pc = "record"
  /\ handled_by' = [handled_by EXCEPT ![primary.entry] = 1]
  /\ primary' = Idle
  /\ UNCHANGED <<status, applied, aged, logs, pending, channel, writer, sorter, worker>>

(***************************************************************************)
(* Sorter::scan_once.                                                      *)
(***************************************************************************)

\* The clock is read, the timeout chosen and the snapshot taken.  A younger
\* entry may be late too: the timeout depends on the load, and the sorter's
\* clock has another origin than the one that stamped the entry.  A snapshot
\* that the map changes under acts on its entries as several scans would.
Scan(s) ==
  /\ sorter[s].pc = "idle"
  /\ \E e \in Oldest(ring), young \in SUBSET (ring \ aged) :
       sorter' = [sorter EXCEPT ![s] = [pc |-> "load", entry |-> e, todo |-> ring \ {e},
                                        late |-> young \cup (ring \cap aged)]]
  /\ UNCHANGED <<entries, logs, pending, channel, writer, primary, worker>>

\* The entry in hand is done with: the snapshot is gone through by sequence number.
Advance(s) ==
  \/ sorter[s].todo = {} /\ sorter' = [sorter EXCEPT ![s] = Resting]
  \/ \E e \in Oldest(sorter[s].todo) :
       sorter' = [sorter EXCEPT ![s].pc = "load", ![s].entry = e, ![s].todo = @ \ {e}]
Then(s, label) == sorter' = [sorter EXCEPT ![s].pc = label]

SorterLoad(s) ==
  /\ sorter[s].pc = "load"
  /\ LET e == sorter[s].entry
     IN  \/ status[e] = "Pending" /\ e \in sorter[s].late /\ Then(s, "claim")
         \/ status[e] = "Pending" /\ e \notin sorter[s].late /\ Advance(s)
         \/ status[e] = "Unaddressed" /\ Advance(s)
         \/ IsTerminal(e) /\ Then(s, "remove")
  /\ UNCHANGED <<entries, logs, pending, channel, writer, primary, worker>>

\* Faulty variant: the status is stored without looking whether it changed.
SorterClaimStores(s) ==
  /\ sorter[s].pc = "claim"
  /\ Become(sorter[s].entry, "Unaddressed") /\ Then(s, "send")
  /\ UNCHANGED <<handled_by, applied, aged, logs, pending, channel, writer, primary, worker>>

SorterClaim(s) ==
  /\ sorter[s].pc = "claim"
  /\ LET e == sorter[s].entry
     IN  IF Wins(e, "Pending") THEN Become(e, "Unaddressed") /\ Then(s, "send")
                               ELSE UNCHANGED status /\ Advance(s)
  /\ UNCHANGED <<handled_by, applied, aged, logs, pending, channel, writer, primary, worker>>

\* Faulty variant: the winner of the claim forgets to send.
SorterSendNothing(s) ==
  /\ sorter[s].pc = "send"
  /\ Advance(s)
  /\ UNCHANGED <<entries, logs, pending, channel, writer, primary, worker>>

SorterSend(s) ==
  /\ sorter[s].pc = "send"
  /\ channel' = Append(channel, sorter[s].entry)
  /\ Advance(s)
  /\ UNCHANGED <<entries, logs, pending, writer, primary, worker>>

\* PendingRing::remove: only who takes the entry out of the map counts it.
SorterRemove(s) ==
  /\ sorter[s].pc = "remove"
  /\ LET e == sorter[s].entry
     IN  /\ ring' = ring \ {e}
         /\ IF e \in ring THEN Then(s, "count") ELSE Advance(s)
  /\ UNCHANGED <<entries, logs, len, channel, writer, primary, worker>>

SorterCount(s) ==
  /\ sorter[s].pc = "count"
  /\ len' = len - 1
  /\ Advance(s)
  /\ UNCHANGED <<entries, logs, ring, channel, writer, primary, worker>>

(***************************************************************************)
(* worker_loop of the second engine.                                       *)
(***************************************************************************)
Goto(w, label) == worker' = [worker EXCEPT ![w].pc = label]
Done(w)        == worker' = [worker EXCEPT ![w] = Idle]

Receive(w) ==
  /\ worker[w] = Idle /\ channel # <<>>
  /\ worker' = [worker EXCEPT ![w] = [pc |-> "load", entry |-> Head(channel)]]
  /\ channel' = Tail(channel)
  /\ UNCHANGED <<entries, logs, pending, writer, primary, sorter>>

WorkerLoad(w) ==
  /\ worker[w].pc = "load"
  /\ IF status[worker[w].entry] = "Unaddressed" THEN Goto(w, "claim") ELSE Done(w)
  /\ UNCHANGED <<entries, logs, pending, channel, writer, primary, sorter>>

WorkerClaim(w) ==
  /\ worker[w].pc = "claim"
  /\ IF Wins(worker[w].entry, "Unaddressed")
       THEN Become(worker[w].entry, "FinallyHandled") /\ Goto(w, "apply")
       ELSE UNCHANGED status /\ Done(w)
  /\ UNCHANGED <<handled_by, applied, aged, logs, pending, channel, writer, primary, sorter>>

\* apply_escalated; of a symbol without a book it is done at once.
WorkerApply(w) ==
  /\ worker[w].pc = "apply"
  /\ applied' = [applied EXCEPT ![worker[w].entry] = @ + 1]
  /\ Goto(w, "record")
  /\ UNCHANGED <<status, handled_by, aged, logs, pending, channel, writer, primary, sorter>>

\* record_fill
WorkerRecord(w) ==
  /\ worker[w].pc = "record"
  /\ handled_by' = [handled_by EXCEPT ![worker[w].entry] = 2]
  /\ Goto(w, "remove")
  /\ UNCHANGED <<status, applied, aged, logs, pending, channel, writer, primary, sorter>>

\* Faulty variant: the entry is counted out whether or not it was in the map.
WorkerRemoveCounts(w) ==
  /\ worker[w].pc = "remove"
  /\ ring' = ring \ {worker[w].entry}
  /\ Goto(w, "count")
  /\ UNCHANGED <<entries, logs, len, channel, writer, primary, sorter>>

WorkerRemove(w) ==
  /\ worker[w].pc = "remove"
  /\ ring' = ring \ {worker[w].entry}
  /\ IF worker[w].entry \in ring THEN Goto(w, "count") ELSE Done(w)
  /\ UNCHANGED <<entries, logs, len, channel, writer, primary, sorter>>

WorkerCount(w) ==
  /\ worker[w].pc = "count"
  /\ len' = len - 1
  /\ Done(w)
  /\ UNCHANGED <<entries, logs, ring, channel, writer, primary, sorter>>

(***************************************************************************)
(* Specification.                                                          *)
(***************************************************************************)
PrimaryFinish == PrimaryClaim \/ PrimaryApply \/ PrimaryRecord
SorterStep(s) == Scan(s) \/ SorterLoad(s) \/ SorterClaim(s) \/ SorterSend(s)
                 \/ SorterRemove(s) \/ SorterCount(s)
WorkerStep(w) == Receive(w) \/ WorkerLoad(w) \/ WorkerClaim(w) \/ WorkerApply(w)
                 \/ WorkerRecord(w) \/ WorkerRemove(w) \/ WorkerCount(w)

Next ==
  \/ Write \/ WriteFails \/ CountPush
  \/ \E e \in Entries : Age(e)
  \/ PrimaryNext \/ PrimaryFinish
  \/ \E s \in Sorters : SorterStep(s)
  \/ \E w \in Workers : WorkerStep(w)

Spec == Init /\ [][Next]_vars

\* Threads run and time passes.  The primary may never look for an order, but
\* one it has picked it finishes.
FairSpec ==
  /\ Spec
  /\ WF_vars(CountPush) /\ WF_vars(PrimaryFinish)
  /\ \A e \in Entries : WF_vars(Age(e))
  /\ \A s \in Sorters : WF_vars(SorterStep(s))
  /\ \A w \in Workers : WF_vars(WorkerStep(w))

(***************************************************************************)
(* Properties.                                                             *)
(***************************************************************************)

\* Who applies an entry holds the claim: the status names the engine that
\* applied it and that recorded the fill.
ClaimMatchesEngine ==
  \A e \in Entries :
    /\ handled_by[e] = 1 => status[e] = "Addressed" /\ applied[e] = 1
    /\ handled_by[e] = 2 => status[e] = "FinallyHandled" /\ applied[e] = 1
    /\ applied[e] > 0 => IsTerminal(e)

\* "the mathematical guarantee that prevents double-fills" (order_status.rs):
\* no order is applied to a book twice, whoever races for it, nor by an engine
\* that does not hold its claim.
AppliedOnce == ClaimMatchesEngine /\ \A e \in Entries : applied[e] <= 1

\* An order leaves the ring only once an engine has claimed it; an escalated
\* order that no worker has claimed is in the channel or in somebody's hands.
NothingForgotten ==
  \A e \in Entries :
    /\ status[e] \in {"Pending", "Unaddressed"} => e \in ring
    /\ status[e] = "Unaddressed" =>
         \/ e \in Range(channel)
         \/ \E s \in Sorters : sorter[s].pc = "send" /\ sorter[s].entry = e
         \/ \E w \in Workers : worker[w].entry = e /\ worker[w].pc \in {"load", "claim"}

\* An engine carries out only what both logs hold, although a write that
\* fails half way leaves its order in one of them.
AppliedIsLogged == \A e \in Entries : applied[e] > 0 => e \in log_a \cap log_b

\* The counter of the ring equals the size of its map once the updates that
\* are under way are made: no entry is counted out twice.
LenSettles ==
  len + (IF writer THEN 1 ELSE 0)
      - Cardinality({s \in Sorters : sorter[s].pc = "count"})
      - Cardinality({w \in Workers : worker[w].pc = "count"}) = Cardinality(ring)

\* Every logged order is handled and leaves the ring, even if the primary
\* never looks for one: the sorter and the second engine take all of them.
EveryOrderHandled ==
  \A e \in Entries : status[e] = "Pending" ~> applied[e] = 1 /\ e \notin ring

\* "Second Engine handled it -- remove from ring and record" (sorter.rs): an
\* order the second engine claimed is out of the ring only when processed.
RemovedMeansProcessed ==
  \A e \in Entries : status[e] = "FinallyHandled" /\ e \notin ring => applied[e] = 1
=============================================================================
