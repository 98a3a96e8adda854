------------------------------ MODULE Seqlock ------------------------------
(***************************************************************************)
(* The per-account seqlock: crates/seqlock, account_risk_state.rs.  One    *)
(* writer (the risk shard that owns the account) calls update; any number  *)
(* of readers (matching engines, the gateway's check) call read.           *)
(*                                                                         *)
(* Every load and store of one word is a step; the fields race, and a racy *)
(* load returns the word as it is at that moment.  The fences keep the     *)
(* order of the program.  balance and frozen stand for the six fields: the *)
(* others are stored and loaded in the same way.                           *)
(***************************************************************************)
EXTENDS Integers, Sequences

CONSTANTS
  Readers,
  MaxUpdates   \* bound: calls of update

VARIABLES
  s_seq,      \* the sequence word: odd while an update is in progress
  s_cell,     \* the fields, [balance, frozen]
  w_pc,       \* writer: position in update
  w_new,      \* writer: the arguments of update
  s_pc,       \* reader -> position in read
  s_seq1,     \* reader -> the first load of the sequence word
  s_copy,     \* reader -> the fields loaded so far, then the snapshot returned
  published,  \* history: every state an update completed, oldest first
  s_from      \* reader -> history: how many were published when its read began

seqlock_writer == <<s_seq, s_cell, w_pc, w_new, published>>
seqlock_reader == <<s_pc, s_seq1, s_copy, s_from>>
seqlock_vars   == <<seqlock_writer, seqlock_reader>>

Fresh == [balance |-> 0, frozen |-> FALSE]

SeqlockInit ==
  /\ s_seq = 0 /\ s_cell = Fresh
  /\ w_pc = "idle" /\ w_new = Fresh
  /\ s_pc = [r \in Readers |-> "idle"]
  /\ s_seq1 = [r \in Readers |-> 0]
  /\ s_copy = [r \in Readers |-> Fresh]
  /\ published = <<Fresh>>
  /\ s_from = [r \in Readers |-> 1]

(***************************************************************************)
(* update.                                                                 *)
(***************************************************************************)
\* The arguments: a new balance, or the old state with the flag flipped
\* (set_frozen; set_halted and set_position preserve in the same way).  The
\* writer's own read of the state comes first and sees its last update.
UpdateArgs == {[s_cell EXCEPT !.balance = Len(published)], [s_cell EXCEPT !.frozen = ~@]}

UpdateBegin ==
  /\ w_pc = "idle" /\ Len(published) <= MaxUpdates
  /\ w_new' \in UpdateArgs
  /\ s_seq' = s_seq + 1
  /\ w_pc' = "balance"
  /\ UNCHANGED <<s_cell, published, seqlock_reader>>

StoreBalance ==
  /\ w_pc = "balance"
  /\ s_cell' = [s_cell EXCEPT !.balance = w_new.balance]
  /\ w_pc' = "frozen"
  /\ UNCHANGED <<s_seq, w_new, published, seqlock_reader>>

StoreFrozen ==
  /\ w_pc = "frozen"
  /\ s_cell' = [s_cell EXCEPT !.frozen = w_new.frozen]
  /\ w_pc' = "end"
  /\ UNCHANGED <<s_seq, w_new, published, seqlock_reader>>

UpdateEnd ==
  /\ w_pc = "end"
  /\ s_seq' = s_seq + 1
  /\ published' = Append(published, w_new)
  /\ w_pc' = "idle"
  /\ UNCHANGED <<s_cell, w_new, seqlock_reader>>

(***************************************************************************)
(* read, with its retry loop.                                              *)
(***************************************************************************)
ReadCall(r) ==
  /\ s_pc[r] \in {"idle", "returned"}
  /\ s_from' = [s_from EXCEPT ![r] = Len(published)]
  /\ s_pc' = [s_pc EXCEPT ![r] = "seq1"]
  /\ UNCHANGED <<s_seq1, s_copy, seqlock_writer>>

\* Faulty variant: an odd sequence word is not waited out.
LoadSeq1Any(r) ==
  /\ s_pc[r] = "seq1"
  /\ s_seq1' = [s_seq1 EXCEPT ![r] = s_seq]
  /\ s_pc' = [s_pc EXCEPT ![r] = "balance"]
  /\ UNCHANGED <<s_copy, s_from, seqlock_writer>>

LoadSeq1(r) ==
  /\ s_pc[r] = "seq1"
  /\ s_seq % 2 = 0
  /\ s_seq1' = [s_seq1 EXCEPT ![r] = s_seq]
  /\ s_pc' = [s_pc EXCEPT ![r] = "balance"]
  /\ UNCHANGED <<s_copy, s_from, seqlock_writer>>

LoadBalance(r) ==
  /\ s_pc[r] = "balance"
  /\ s_copy' = [s_copy EXCEPT ![r].balance = s_cell.balance]
  /\ s_pc' = [s_pc EXCEPT ![r] = "frozen"]
  /\ UNCHANGED <<s_seq1, s_from, seqlock_writer>>

LoadFrozen(r) ==
  /\ s_pc[r] = "frozen"
  /\ s_copy' = [s_copy EXCEPT ![r].frozen = s_cell.frozen]
  /\ s_pc' = [s_pc EXCEPT ![r] = "seq2"]
  /\ UNCHANGED <<s_seq1, s_from, seqlock_writer>>

LoadSeq2(r) ==
  /\ s_pc[r] = "seq2"
  /\ s_pc' = [s_pc EXCEPT ![r] = IF s_seq = s_seq1[r] THEN "returned" ELSE "seq1"]
  /\ UNCHANGED <<s_seq1, s_copy, s_from, seqlock_writer>>

SeqlockNext ==
  \/ UpdateBegin \/ StoreBalance \/ StoreFrozen \/ UpdateEnd
  \/ \E r \in Readers : \/ ReadCall(r) \/ LoadSeq1(r) \/ LoadBalance(r)
                        \/ LoadFrozen(r) \/ LoadSeq2(r)

SeqlockSpec == SeqlockInit /\ [][SeqlockNext]_seqlock_vars

(***************************************************************************)
(* Properties.                                                             *)
(***************************************************************************)

\* read returns one state that update published, whole, and one no older than
\* the newest published when the read began: a tier-0 check never combines the
\* balance of one update with the flag of another.  The snapshot may already
\* be stale when the check uses it.
ReadsAreSnapshots ==
  \A r \in Readers : s_pc[r] = "returned" =>
    \E i \in s_from[r] .. Len(published) : s_copy[r] = published[i]
=============================================================================
