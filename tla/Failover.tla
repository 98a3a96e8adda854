------------------------------ MODULE Failover ------------------------------
(***************************************************************************)
(* Leader election of the sequencer: crates/sequencer/failover.rs, and the *)
(* role check of Sequencer::run.                                           *)
(*                                                                         *)
(* Each process has an election thread (FailoverController::spawn) and a   *)
(* dispatching thread (Sequencer::run) that share a RoleHandle.  The lease *)
(* file is the flock holder and the term on disk.  The OS releases the     *)
(* lock of a process that dies.  A process that restarts is a new process  *)
(* with fresh memory; the lease file survives.                             *)
(***************************************************************************)
EXTENDS Naturals, FiniteSets

CONSTANTS
  Nodes,      \* hosts that contend for the lease
  NoNode,     \* nobody holds the flock
  MaxTerm     \* bound: acquisitions of the lease

ASSUME FailoverAssumption == MaxTerm \in Nat /\ NoNode \notin Nodes

VARIABLES
  lock,       \* flock holder
  disk_term,  \* term in the lease file
  alive,      \* node -> its process runs
  pc,         \* node -> position of the election thread
  acquired,   \* node -> the term acquire() returned
  role, term, \* node -> the RoleHandle's two atomics
  shutdown,   \* node -> the controller was dropped
  sending     \* node -> the dispatching thread has passed the role check

election == <<lock, disk_term, pc, acquired>>
handle   == <<role, term>>
vars == <<election, handle, alive, shutdown, sending>>

Init ==
  /\ lock = NoNode /\ disk_term = 0
  /\ alive = [n \in Nodes |-> TRUE]
  /\ pc = [n \in Nodes |-> "contending"]
  /\ acquired = [n \in Nodes |-> 0]
  /\ role = [n \in Nodes |-> "Standby"] /\ term = [n \in Nodes |-> 0]
  /\ shutdown = [n \in Nodes |-> FALSE]
  /\ sending = [n \in Nodes |-> FALSE]

At(n, label) == alive[n] /\ pc[n] = label

(***************************************************************************)
(* The election thread.                                                    *)
(***************************************************************************)

\* Faulty variant: the lock taken is a shared one.
TryLockShared(n) ==
  /\ At(n, "contending") /\ ~shutdown[n]
  /\ disk_term < MaxTerm
  /\ lock' = n
  /\ pc' = [pc EXCEPT ![n] = "locked"]
  /\ UNCHANGED <<disk_term, acquired, handle, alive, shutdown, sending>>

\* acquire(): the shutdown flag is not set and try_lock_exclusive succeeds, in
\* one step; it is retried every 50 ms.
TryLock(n) ==
  /\ At(n, "contending") /\ ~shutdown[n]
  /\ lock = NoNode /\ disk_term < MaxTerm
  /\ lock' = n
  /\ pc' = [pc EXCEPT ![n] = "locked"]
  /\ UNCHANGED <<disk_term, acquired, handle, alive, shutdown, sending>>

\* acquire() sees the shutdown flag before it gets the lock.
GiveUp(n) ==
  /\ At(n, "contending") /\ shutdown[n]
  /\ pc' = [pc EXCEPT ![n] = "stopped"]
  /\ UNCHANGED <<lock, disk_term, acquired, handle, alive, shutdown, sending>>

\* Faulty variant: the term is taken over, not advanced.
WriteTermAgain(n) ==
  /\ At(n, "locked")
  /\ acquired' = [acquired EXCEPT ![n] = IF disk_term = 0 THEN 1 ELSE disk_term]
  /\ disk_term' = acquired'[n]
  /\ pc' = [pc EXCEPT ![n] = "persisted"]
  /\ UNCHANGED <<lock, handle, alive, shutdown, sending>>

\* read_term, + 1, write_term.  The lease file is readable (read_term takes one
\* that is not for term 0); a process that cannot write it panics, a Crash here.
WriteTerm(n) ==
  /\ At(n, "locked")
  /\ acquired' = [acquired EXCEPT ![n] = disk_term + 1]
  /\ disk_term' = disk_term + 1
  /\ pc' = [pc EXCEPT ![n] = "persisted"]
  /\ UNCHANGED <<lock, handle, alive, shutdown, sending>>

\* Faulty variant: the two stores of the handle are swapped.
StoreRoleFirst(n) ==
  /\ At(n, "persisted")
  /\ role' = [role EXCEPT ![n] = "Leader"]
  /\ pc' = [pc EXCEPT ![n] = "term_stored"]
  /\ UNCHANGED <<lock, disk_term, acquired, term, alive, shutdown, sending>>

StoreTerm(n) ==
  /\ At(n, "persisted")
  /\ term' = [term EXCEPT ![n] = acquired[n]]
  /\ pc' = [pc EXCEPT ![n] = "term_stored"]
  /\ UNCHANGED <<lock, disk_term, acquired, role, alive, shutdown, sending>>

StoreRole(n) ==
  /\ At(n, "term_stored")
  /\ role' = [role EXCEPT ![n] = "Leader"]
  /\ pc' = [pc EXCEPT ![n] = "parked"]
  /\ UNCHANGED <<lock, disk_term, acquired, term, alive, shutdown, sending>>

\* The parked thread sees the shutdown flag and calls release().
Release(n) ==
  /\ At(n, "parked") /\ shutdown[n]
  /\ lock' = IF lock = n THEN NoNode ELSE lock
  /\ pc' = [pc EXCEPT ![n] = "stopped"]
  /\ UNCHANGED <<disk_term, acquired, handle, alive, shutdown, sending>>

(***************************************************************************)
(* The rest of the process.                                                *)
(***************************************************************************)

\* Drop for FailoverController sets the flag (and joins the election thread).
DropController(n) ==
  /\ alive[n] /\ ~shutdown[n]
  /\ shutdown' = [shutdown EXCEPT ![n] = TRUE]
  /\ UNCHANGED <<election, handle, alive, sending>>

\* Sequencer::run: the role check of one iteration ...
CheckRole(n) ==
  /\ alive[n] /\ ~sending[n]
  /\ role[n] = "Leader"
  /\ sending' = [sending EXCEPT ![n] = TRUE]
  /\ UNCHANGED <<election, handle, alive, shutdown>>

\* ... and the end of the dispatch it allowed, which reads the term.
Dispatched(n) ==
  /\ alive[n] /\ sending[n]
  /\ sending' = [sending EXCEPT ![n] = FALSE]
  /\ UNCHANGED <<election, handle, alive, shutdown>>

\* Faulty variant: the lock outlives the process.
CrashHoldingLock(n) ==
  /\ alive[n]
  /\ alive' = [alive EXCEPT ![n] = FALSE]
  /\ sending' = [sending EXCEPT ![n] = FALSE]
  /\ UNCHANGED <<election, handle, shutdown>>

Crash(n) ==
  /\ alive[n]
  /\ alive' = [alive EXCEPT ![n] = FALSE]
  /\ sending' = [sending EXCEPT ![n] = FALSE]
  /\ lock' = IF lock = n THEN NoNode ELSE lock
  /\ UNCHANGED <<disk_term, pc, acquired, handle, shutdown>>

\* Supervision starts a fresh contender.
Restart(n) ==
  /\ ~alive[n]
  /\ alive' = [alive EXCEPT ![n] = TRUE]
  /\ pc' = [pc EXCEPT ![n] = "contending"]
  /\ acquired' = [acquired EXCEPT ![n] = 0]
  /\ role' = [role EXCEPT ![n] = "Standby"]
  /\ term' = [term EXCEPT ![n] = 0]
  /\ shutdown' = [shutdown EXCEPT ![n] = FALSE]
  /\ UNCHANGED <<lock, disk_term, sending>>

Elect(n) == TryLock(n) \/ GiveUp(n) \/ WriteTerm(n) \/ StoreTerm(n) \/ StoreRole(n)
            \/ Release(n)

Next ==
  \E n \in Nodes : \/ Elect(n) \/ DropController(n)
                   \/ CheckRole(n) \/ Dispatched(n)
                   \/ Crash(n) \/ Restart(n)

Spec == Init /\ [][Next]_vars

\* The election thread polls for as long as its process runs.
FairSpec == Spec /\ \A n \in Nodes : WF_vars(Elect(n))

(***************************************************************************)
(* Properties.                                                             *)
(***************************************************************************)
Labels == {"contending", "locked", "persisted", "term_stored", "parked", "stopped"}

TypeOK ==
  /\ lock \in Nodes \cup {NoNode} /\ disk_term \in Nat
  /\ alive \in [Nodes -> BOOLEAN] /\ shutdown \in [Nodes -> BOOLEAN]
  /\ sending \in [Nodes -> BOOLEAN]
  /\ pc \in [Nodes -> Labels]
  /\ acquired \in [Nodes -> Nat] /\ term \in [Nodes -> Nat]
  /\ role \in [Nodes -> {"Standby", "Leader"}]

\* No two processes ever work under the same term, though the lease changes
\* hands by crash, restart and step-down, and none is ahead of the disk.
TermsDistinct ==
  /\ \A n \in Nodes : term[n] <= acquired[n] /\ acquired[n] <= disk_term
  /\ \A m, n \in Nodes : m # n /\ acquired[m] > 0 => acquired[m] # acquired[n]

\* A process that may dispatch has its term in place: the election thread
\* stores the term before the role, the dispatching thread reads the role
\* before the term.
LeaderHasTerm ==
  \A n \in Nodes : role[n] = "Leader" \/ sending[n] => term[n] > 0

\* "Exactly one `Sequencer` process may dispatch commands at a time"
\* (failover.rs): at most one live process is past its role check or may pass.
Leads(n) == alive[n] /\ (role[n] = "Leader" \/ sending[n])
OneLeader == \A m, n \in Nodes : Leads(m) /\ Leads(n) => m = n

\* What the code does guarantee: of the processes that have not dropped their
\* controller, at most one leads, wherever the others crashed or stepped down.
OneIncumbent ==
  \A m, n \in Nodes : Leads(m) /\ Leads(n) /\ ~shutdown[m] /\ ~shutdown[n] => m = n

\* A process past the lock holds it, and a process that leads is past it or has
\* been told to stop: what OneIncumbent rests on.
LockBacksLeader ==
  \A n \in Nodes :
    /\ alive[n] /\ pc[n] \in {"locked", "persisted", "term_stored", "parked"} => lock = n
    /\ Leads(n) => pc[n] \in {"parked", "stopped"}
    /\ At(n, "stopped") => shutdown[n]
    /\ sending[n] => alive[n]

\* The election keeps lock, terms and roles together, whichever of its steps a
\* crash or a dropped controller interrupts: the invariant behind failover.rs.
ElectionInv == TypeOK /\ TermsDistinct /\ LeaderHasTerm /\ LockBacksLeader

\* A term on disk is never taken back, and a new leader's term exceeds every
\* term a process has been given before.
TermsAdvance ==
  [][ /\ disk_term' >= disk_term
      /\ \A n \in Nodes : acquired'[n] > acquired[n] =>
           \A m \in Nodes : acquired[m] < acquired'[n] ]_vars

\* Failover completes: once processes stop coming and going, a contender does
\* not wait for ever; it or another process leads, unless the terms of this
\* model are used up.
Settled == \A n \in Nodes : <>[]alive[n] \/ <>[]~alive[n]

LeaseTaken ==
  Settled => ((\E n \in Nodes : At(n, "contending"))
                ~> \/ \E n \in Nodes : Leads(n)
                   \/ \A n \in Nodes : ~At(n, "contending")
                   \/ disk_term = MaxTerm)
=============================================================================
