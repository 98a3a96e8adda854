---------------------------- MODULE MCSequencer ----------------------------
(***************************************************************************)
(* Failover of the Sequencer: the election among three processes, and the  *)
(* log that one leader after another takes over, in a file of three records *)
(* behind a WAL queue of one.  A behaviour runs one of the two, so the     *)
(* state space is the sum of theirs and not the product.                   *)
(***************************************************************************)
EXTENDS Failover

CONSTANTS n1, n2, n3, Parts,
          FileSlots, Media, QueueCap, Interval, MaxDispatch   \* Takeover

VARIABLES
  part,
  medium, memory, disk, snapshots, renamed, leading, log_term, seq, queue, writing, cursor,
  highest_term, standby, dispatched, acked, base, caught_up

Log == INSTANCE Takeover WITH term <- log_term

\* Markers and queues have room for at least one command.
ASSUME TakeoverAssumption == Interval \in Nat \ {0} /\ QueueCap \in Nat \ {0}

log_vars == <<medium, memory, disk, snapshots, renamed, leading, log_term, seq, queue, writing,
              cursor, highest_term, standby, dispatched, acked, base, caught_up>>
all_vars == <<part, vars, log_vars>>

RunElection == part = "election" /\ Next /\ UNCHANGED <<part, log_vars>>
RunLog == /\ part = "log" /\ Log!Next
          /\ UNCHANGED <<part, lock, disk_term, pc, acquired, role, term, alive, shutdown, sending>>

\* The election knows nothing of the log's medium: one is enough for it.
SeqInit == part \in Parts /\ Init /\ Log!Init /\ (part = "election" => medium = "sync")
SeqSpec == SeqInit /\ [][RunElection \/ RunLog]_all_vars

SeqFairSpec ==
  /\ SeqSpec
  /\ \A n \in Nodes : WF_all_vars(part = "election" /\ Elect(n) /\ UNCHANGED <<part, log_vars>>)

\* Recovery (recovery.rs) replays by term and sequence number, each once.
ReplayInOrder == part = "log" => Log!ReplayInOrder

\* What an append returned for (log.rs, pmem.rs) survives crashes: a writer
\* that reopens the file keeps it, and with sync_on_write it is replayed.
AckedSurvives == part = "log" => Log!AckedKept /\ Log!AckedReplayed

\* A hole that a full WAL queue (sequencer.rs) left is reported by recovery.
GapsReported == part = "log" => Log!GapsReported

\* A promoted standby (standby.rs) gives out no number it would replay.
ReplayedNotRenumbered == part = "log" => Log!ReplayedNotRenumbered

\* standby.rs: "promotion can resume numbering without a gap or collision".
PromotionResumesNumbering == Log!PromotionResumesNumbering

\* Failover completes (failover.rs): a contender does not wait for ever.
ElectionCompletes == part = "election" => LeaseTaken

MCNodes == {n1, n2, n3}
=============================================================================
