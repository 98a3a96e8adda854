-------------------------------- MODULE Wal --------------------------------
(***************************************************************************)
(* What the bytes of a write-ahead log mean: crates/wal, recovery.rs, the  *)
(* scan_to_end of log.rs and pmem.rs, latest_snapshot of snapshot.rs.      *)
(*                                                                         *)
(* A file is a function from record positions; all records have the same   *)
(* size.  What a position can hold:                                        *)
(*   "zero"   the sequence number reads as 0: never written;               *)
(*   "ok"     a whole record, readable with the header of its format;      *)
(*   "torn"   part of a record: the CRC32 of the payload does not match;   *)
(*   "empty"  the sequence number and nothing else: length 0 and CRC 0,    *)
(*            which is the CRC32 of no bytes, so the check passes; term 0. *)
(***************************************************************************)
EXTENDS Integers, Sequences, FiniteSets, FiniteSetsExt

CONSTANT FileSlots     \* file_capacity, in records

Slots == 1 .. FileSlots

NoRecord == [kind |-> "zero", seq |-> 0, term |-> 0, format |-> 2]

Record(seq, term, format) ==
  [kind |-> "ok", seq |-> seq, term |-> term, format |-> format]

\* FileWalWriter has a 32-byte record header with the term, PmemWalWriter a
\* 24-byte one without: read with the other's header the payload starts at
\* the wrong byte and its CRC32 does not match.
Passes(r, format) == r.kind = "empty" \/ (r.kind = "ok" /\ r.format = format)

\* The records a scan goes through before the first it stops at.
Scanned(file, format) ==
  LET stops == {i \in Slots : ~Passes(file[i], format)}
      end   == Min(stops \cup {FileSlots + 1})
  IN  [i \in 1 .. end - 1 |-> file[i]]

\* Where the next record goes, and the term of the last one.
scan_to_end(file) ==
  LET r == Scanned(file, 2)
  IN  [cursor |-> Len(r) + 1,
       highest_term |-> IF r = <<>> THEN 0 ELSE r[Len(r)].term]

pmem_scan_to_end(file) == [cursor |-> Len(Scanned(file, 1)) + 1, highest_term |-> 0]

\* Faulty variant: records of an older term are replayed.
UnfencedRecords(r) == r

\* Records are dropped whose term is below the highest seen so far.
FencedRecords(r) ==
  LET kept == {i \in DOMAIN r : \A j \in 1 .. i - 1 : r[j].term <= r[i].term}
      nth(n) == CHOOSE i \in kept : Cardinality({j \in kept : j <= i}) = n
  IN  [n \in 1 .. Cardinality(kept) |-> r[nth(n)]]

\* Faulty variant: a jump of one number is not a gap.
IsGapLoose(last_seq, seq, after_seq) ==
  seq \notin {last_seq + 1, last_seq + 2} /\ last_seq # 0 /\ last_seq # after_seq

IsGap(last_seq, seq, after_seq) ==
  seq # last_seq + 1 /\ last_seq # 0 /\ last_seq # after_seq

\* A record with an empty payload does not deserialise: the scan ends there.
scan_wal(file, after_seq) ==
  LET fenced == FencedRecords(Scanned(file, 2))
      broken == {i \in DOMAIN fenced : fenced[i].kind = "empty" /\ fenced[i].seq > after_seq}
      end    == Min(broken \cup {Len(fenced) + 1})
      kept   == SubSeq(fenced, 1, end - 1)
      seen   == SubSeq(fenced, 1, Min({end, Len(fenced)}))
      last(i) == IF i = 1 THEN after_seq ELSE fenced[i - 1].seq
  IN  [commands |-> SelectSeq(kept, LAMBDA r : r.seq > after_seq),
       seq_gaps |-> Cardinality({i \in DOMAIN seen : IsGap(last(i), seen[i].seq, after_seq)}),
       highest_term |-> Max({seen[i].term : i \in DOMAIN seen} \cup {0})]

\* latest_snapshot; a file that does not validate counts as absent.
latest_snapshot(snapshots) == Max(snapshots \cup {0})

recover(file, snapshots) ==
  LET snapshot_seq == latest_snapshot(snapshots)
      records      == scan_wal(file, snapshot_seq)
  IN  [snapshot_seq |-> snapshot_seq,
       commands |-> records.commands,
       seq_gaps |-> records.seq_gaps,
       highest_term |-> records.highest_term,
       last_recovered_seq |-> IF records.commands = <<>> THEN 0
                              ELSE records.commands[Len(records.commands)].seq]
=============================================================================
