------------------------------ MODULE Takeover ------------------------------
(***************************************************************************)
(* Durability and takeover: the leader's Sequencer numbers commands and    *)
(* hands them to the WAL thread; the WAL file and the snapshots survive a  *)
(* crash; a StandbyReplicator follows the file and, once promoted, gives   *)
(* the next leader the number to continue from.                            *)
(*   crates/sequencer: sequencer.rs (dispatch), standby.rs                 *)
(*   crates/wal: log.rs, pmem.rs, snapshot.rs, recovery.rs (module Wal)    *)
(*                                                                         *)
(* One process leads at a time (module Failover).  The WAL thread and the  *)
(* caller of SnapshotWriter::write are outside the crates: the thread      *)
(* appends what it pops, a snapshot is written when a marker is due.       *)
(***************************************************************************)
EXTENDS Wal

CONSTANTS
  Media,         \* subset of {"sync", "async", "pmem"}: how the log is written
  QueueCap,      \* capacity of the sequencer's WAL queue
  Interval,      \* SnapshotMarkerSchedule::interval_seq
  MaxDispatch,   \* bound: commands
  MaxTerm        \* bound: promotions

VARIABLES
  medium,       \* how the log is written
  memory,       \* the file as the leader has it mapped
  disk,         \* the file as another process sees it and as a crash leaves it
  snapshots,    \* sequence numbers of the snapshot files
  renamed,      \* the newest snapshot, while its rename may not be durable
  leading,      \* a leader runs
  term, seq,    \* its term and its last sequence number
  queue,        \* its WAL queue
  writing,      \* the record being written, at most one
  cursor, highest_term,        \* its FileWalWriter
  standby,      \* the follower: [last_seq, highest_term]
  dispatched,   \* history: commands dispatched, as [seq, term]
  acked,        \* history: records whose append returned, in order
  base,         \* history: the number this leader continued from
  caught_up     \* history: no promotion so far lost its last pass

log      == <<memory, disk, writing, cursor, highest_term>>
history  == <<dispatched, acked, base, caught_up>>
takeover == <<medium, snapshots, renamed, leading, term, seq, queue, standby, history>>
vars     == <<log, takeover>>

Blank == [i \in Slots |-> NoRecord]

NewStandby == [last_seq |-> 0, highest_term |-> 0]

Init ==
  /\ medium \in Media
  /\ memory = Blank /\ disk = Blank
  /\ snapshots = {} /\ renamed = {}
  /\ leading = TRUE /\ term = 1 /\ seq = 0 /\ queue = <<>>
  /\ writing = {} /\ cursor = 1 /\ highest_term = 0
  /\ standby = NewStandby
  /\ dispatched = {} /\ acked = <<>> /\ base = 0 /\ caught_up = TRUE

(***************************************************************************)
(* The leader.                                                             *)
(***************************************************************************)
\* dispatch, up to the routing: a full WAL queue is only reported.
Dispatch ==
  /\ leading /\ Cardinality(dispatched) < MaxDispatch
  /\ seq' = seq + 1
  /\ dispatched' = dispatched \cup {[seq |-> seq + 1, term |-> term]}
  /\ queue' = IF Len(queue) < QueueCap
                THEN Append(queue, [seq |-> seq + 1, term |-> term]) ELSE queue
  /\ UNCHANGED <<log, medium, snapshots, renamed, leading, term, standby, acked, base,
                 caught_up>>

\* append fails: StaleTerm, or CapacityExhausted after the term was raised.
\* PmemWalWriter has no term and no fence.
Stale(sc) == medium # "pmem" /\ sc.term < highest_term

Raised(sc) == IF medium = "pmem" \/ Stale(sc) THEN highest_term ELSE sc.term

WalRefuse ==
  /\ leading /\ queue # <<>> /\ writing = {}
  /\ Stale(Head(queue)) \/ cursor \notin Slots
  /\ highest_term' = Raised(Head(queue))
  /\ queue' = Tail(queue)
  /\ UNCHANGED <<memory, disk, writing, cursor, medium, snapshots, renamed, leading, term, seq,
                 standby, history>>

\* What write_record copies into the mapped file.
file_record(sc) == Record(sc.seq, sc.term, 2)
pmem_record(sc) == Record(sc.seq, sc.term, 1)

\* append and write_record up to the copy.
WalWrite ==
  /\ leading /\ queue # <<>> /\ writing = {}
  /\ ~Stale(Head(queue)) /\ cursor \in Slots
  /\ highest_term' = Raised(Head(queue))
  /\ memory' = [memory EXCEPT ![cursor] = IF medium = "pmem" THEN pmem_record(Head(queue))
                                           ELSE file_record(Head(queue))]
  /\ writing' = {Head(queue)}
  /\ queue' = Tail(queue)
  /\ UNCHANGED <<disk, cursor, medium, snapshots, renamed, leading, term, seq, standby,
                 history>>

\* Faulty variant: the record is acknowledged without being made durable.
WalReturnUnsynced ==
  /\ leading /\ writing # {}
  /\ disk' = disk
  /\ cursor' = cursor + 1
  /\ acked' = acked \o <<CHOOSE sc \in writing : TRUE>>
  /\ writing' = {}
  /\ UNCHANGED <<memory, highest_term, medium, snapshots, renamed, leading, term, seq, queue,
                 standby, dispatched, base, caught_up>>

\* msync of the record if sync_on_write.
file_sync == IF medium = "async" THEN disk ELSE [disk EXCEPT ![cursor] = memory[cursor]]

\* clwb of the record's cache lines and sfence.
flush_range(i) == [disk EXCEPT ![i] = memory[i]]

\* The rest of write_record: the record is made durable, the cursor moves.
WalReturn ==
  /\ leading /\ writing # {}
  /\ disk' = IF medium = "pmem" THEN flush_range(cursor) ELSE file_sync
  /\ cursor' = cursor + 1
  /\ acked' = acked \o <<CHOOSE sc \in writing : TRUE>>
  /\ writing' = {}
  /\ UNCHANGED <<memory, highest_term, medium, snapshots, renamed, leading, term, seq, queue,
                 standby, dispatched, base, caught_up>>

\* What has reached the file of record r: all of it, or a part (see Wal).
Reached(r) == {r, [r EXCEPT !.kind = "torn"], [r EXCEPT !.kind = "empty", !.term = 0]}

\* The kernel writes back a dirty page, in any order, whole or in part; the
\* same goes for the copy a killed process leaves half done.
Writeback ==
  /\ leading
  /\ \E i \in Slots :
       /\ memory[i] # disk[i]
       /\ \E r \in Reached(memory[i]) \ {disk[i]} : disk' = [disk EXCEPT ![i] = r]
  /\ UNCHANGED <<memory, writing, cursor, highest_term, takeover>>

\* FileWalWriter::flush.
Flush ==
  /\ leading /\ writing = {} /\ disk # memory
  /\ disk' = memory
  /\ UNCHANGED <<memory, writing, cursor, highest_term, takeover>>

\* The file as read.  An empty record is one header long, so behind one that
\* was cut off comes its own unwritten payload, and a scan ends there.
file ==
  [i \in Slots |->
     IF \E j \in 1 .. i - 1 : disk[j].kind = "empty" /\ disk[j] # memory[j]
       THEN NoRecord ELSE disk[i]]

\* SnapshotWriter::write for the marker at the last multiple of Interval.
\* The rename is atomic; it is durable at the latest at the next snapshot.
Snapshot ==
  /\ leading
  /\ LET marker == (seq \div Interval) * Interval
     IN  /\ marker > 0 /\ marker \notin snapshots
         /\ snapshots' = snapshots \cup {marker}
         /\ renamed' = {marker}
  /\ UNCHANGED <<log, medium, leading, term, seq, queue, standby, history>>

(***************************************************************************)
(* The standby.                                                            *)
(***************************************************************************)
poll_once(s, out) ==
  IF out.highest_term < s.highest_term THEN s
  ELSE [highest_term |-> out.highest_term, last_seq |-> Max({s.last_seq, out.last_recovered_seq})]

\* The loop of run_until_promoted; a poll that fails changes nothing.
Poll ==
  /\ standby' = poll_once(standby, recover(file, snapshots))
  /\ UNCHANGED <<log, medium, snapshots, renamed, leading, term, seq, queue, history>>

(***************************************************************************)
(* Crash and promotion.                                                    *)
(***************************************************************************)
\* The leader stops: what was not written back is lost, and the rename of a
\* snapshot may be.
Crash ==
  /\ leading
  /\ leading' = FALSE /\ queue' = <<>> /\ writing' = {}
  /\ memory' = file /\ disk' = file
  /\ snapshots' \in {snapshots, snapshots \ renamed}
  /\ renamed' = {}
  /\ UNCHANGED <<cursor, highest_term, medium, term, seq, standby, history>>

\* Faulty variant: no catch-up pass after the lease flips.
last_pass_skipped == standby

\* run_until_promoted once the lease is held: one last poll.
last_pass == poll_once(standby, recover(file, snapshots))

\* FileWalWriter::open and PmemWalWriter::open on the file.
file_open == scan_to_end(file)
pmem_open == pmem_scan_to_end(file)

\* The standby becomes leader: Sequencer::new with its number.  The error of a
\* last pass that fails is discarded, and the number is that of an earlier
\* poll.  A fresh standby replaces it.
Promote ==
  /\ ~leading /\ term < MaxTerm
  /\ leading' = TRUE /\ term' = term + 1
  /\ \E pass \in {last_pass, standby} :
       /\ seq' = pass.last_seq /\ base' = pass.last_seq
       /\ caught_up' = (caught_up /\ pass = last_pass)
  /\ LET opened == IF medium = "pmem" THEN pmem_open ELSE file_open
     IN  cursor' = opened.cursor /\ highest_term' = opened.highest_term
  /\ standby' = NewStandby
  /\ UNCHANGED <<memory, disk, writing, medium, snapshots, renamed, queue, dispatched, acked>>

Next == \/ Dispatch \/ WalWrite \/ WalRefuse \/ WalReturn \/ Writeback \/ Flush \/ Snapshot
        \/ Poll \/ Crash \/ Promote

Spec == Init /\ [][Next]_vars

(***************************************************************************)
(* Properties.                                                             *)
(***************************************************************************)

Recovered == recover(file, snapshots)

\* What recovery replays is in the order of SequencedCommand::order_key, term
\* first and then sequence number, each once, whatever a crash left behind
\* the end of the log: a record of an older term that a lost one had hidden
\* is not replayed after the records of a newer leader.
ReplayInOrder ==
  \A i, j \in DOMAIN Recovered.commands : i < j =>
    LET a == Recovered.commands[i]
        b == Recovered.commands[j]
    IN  a.term < b.term \/ (a.term = b.term /\ a.seq < b.seq)

\* A leader killed within its very first record can leave an empty one, which
\* open skips and recovery stops at: nothing behind it is ever replayed.
FirstRecordCut == file[1].kind = "empty"

Key(r) == [seq |-> r.seq, term |-> r.term]

\* With sync_on_write every record whose append returned is replayed, in
\* order, unless its number is within the snapshot; all else that is replayed
\* was dispatched.
AckedReplayed ==
  medium = "sync" /\ ~FirstRecordCut =>
    LET want == SelectSeq(acked, LAMBDA r : r.seq > Recovered.snapshot_seq)
        have == Recovered.commands
        new  == SelectSeq(have, LAMBDA r : Key(r) \notin {want[i] : i \in DOMAIN want})
    IN  /\ SelectSeq(have, LAMBDA r : Key(r) \in {want[i] : i \in DOMAIN want})
              = [i \in DOMAIN want |-> Record(want[i].seq, want[i].term, 2)]
        /\ \A i \in DOMAIN new : Key(new[i]) \in dispatched

\* A writer that opens the file again writes behind every record whose append
\* returned, on disk and on persistent memory: none is overwritten.
AckedKept ==
  medium \in {"sync", "pmem"} =>
    \A i \in DOMAIN acked :
      \E n \in Slots : disk[n].kind = "ok" /\ Key(disk[n]) = acked[i]

\* Recovery that reports no gap replays consecutive numbers: a command that a
\* full WAL queue dropped between two replayed ones is always reported.
GapsReported ==
  Recovered.seq_gaps = 0 =>
    \A i \in 1 .. Len(Recovered.commands) - 1 :
      Recovered.commands[i + 1].seq = Recovered.commands[i].seq + 1

\* A command replayed from before the takeover has a number the new leader
\* does not assign again: the catch-up pass of run_until_promoted saw it.  Not
\* so after a pass that failed to read the log, whose error is discarded.
ReplayedNotRenumbered ==
  caught_up /\ ~FirstRecordCut =>
    \A i \in DOMAIN Recovered.commands :
      Recovered.commands[i].term < term => Recovered.commands[i].seq <= base

\* standby.rs: "promotion can resume numbering without a gap or collision" -
\* the new leader continues above every number that is in the log, at least
\* if it could read it.
PromotionResumesNumbering ==
  leading /\ caught_up => \A i \in Slots : disk[i].kind = "ok" /\ disk[i].term < term => disk[i].seq <= base
=============================================================================
