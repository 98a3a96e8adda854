-------------------------- MODULE DualEngineProofs --------------------------
(***************************************************************************)
(* Proofs about DualEngine, for any number of orders, sorters and workers. *)
(***************************************************************************)
EXTENDS DualEngine, TLAPS

Statuses == {"None", "Pending", "Addressed", "Unaddressed", "FinallyHandled"}

SorterState == [pc : {"idle", "load", "claim", "send", "remove", "count"},
                entry : Nat, todo : SUBSET Entries, late : SUBSET Entries]
WorkerState == [pc : {"idle", "load", "claim", "apply", "record", "remove", "count"}, entry : Nat]

TypeOK ==
  /\ status \in [Entries -> Statuses]
  /\ handled_by \in [Entries -> {0, 1, 2}] /\ applied \in [Entries -> Nat]
  /\ aged \subseteq Entries /\ ring \subseteq Entries
  /\ written \in 0 .. MaxSeq /\ len \in Int /\ channel \in Seq(Entries)
  /\ writer \in BOOLEAN
  /\ primary \in [pc : {"idle", "claim", "apply", "record"}, entry : Nat]
  /\ sorter \in [Sorters -> SorterState] /\ worker \in [Workers -> WorkerState]

\* An entry exists once both logs hold its order; it is applied and recorded
\* under a terminal status, by the engine that status names.
EntryInv(e) ==
  /\ status[e] # "None" => e <= written /\ e \in log_a \cap log_b
  /\ ~IsTerminal(e) => applied[e] = 0 /\ handled_by[e] = 0
  /\ handled_by[e] = 1 => status[e] = "Addressed" /\ applied[e] = 1
  /\ handled_by[e] = 2 => status[e] = "FinallyHandled" /\ applied[e] = 1
  /\ e \in ring => status[e] # "None"
  /\ status[e] \in {"Pending", "Unaddressed"} => e \in ring
  /\ applied[e] <= 1

\* An engine between its claim and its record has the status to show for it.
PrimaryInv ==
  /\ primary.pc # "idle" => primary.entry \in Entries
  /\ primary.pc \in {"apply", "record"} => status[primary.entry] = "Addressed"
  /\ primary.pc = "apply" => applied[primary.entry] = 0 /\ handled_by[primary.entry] = 0
  /\ primary.pc = "record" => applied[primary.entry] = 1

Claimed(w) == worker[w].pc \in {"apply", "record"}

WorkerInv(w) ==
  /\ worker[w].pc # "idle" => worker[w].entry \in Entries
  /\ worker[w].pc \in {"apply", "record", "remove"} =>
       status[worker[w].entry] = "FinallyHandled"
  /\ worker[w].pc = "apply" => applied[worker[w].entry] = 0 /\ handled_by[worker[w].entry] = 0
  /\ worker[w].pc = "record" => applied[worker[w].entry] = 1

\* Two workers never hold the claim of one entry.
ClaimsDistinct ==
  \A v, w \in Workers : Claimed(v) /\ Claimed(w) /\ worker[v].entry = worker[w].entry => v = w

SorterInv(s) ==
  /\ sorter[s].pc # "idle" => sorter[s].entry \in Entries
  /\ sorter[s].pc = "remove" => IsTerminal(sorter[s].entry)

\* An escalated order that no worker has claimed is on its way to one.
OnItsWay(e) ==
  \/ e \in Range(channel)
  \/ \E s \in Sorters : sorter[s].pc = "send" /\ sorter[s].entry = e
  \/ \E w \in Workers : worker[w].entry = e /\ worker[w].pc \in {"load", "claim"}

DualInv ==
  /\ TypeOK /\ PrimaryInv /\ ClaimsDistinct
  /\ \A e \in Entries : EntryInv(e)
  /\ \A e \in Entries : status[e] = "Unaddressed" => OnItsWay(e)
  /\ \A s \in Sorters : SorterInv(s)
  /\ \A w \in Workers : WorkerInv(w)

\* DualInv holds of an empty ring with every engine idle.
LEMMA InitDualInv == Init => DualInv
  <1> SUFFICES ASSUME Init PROVE DualInv
    OBVIOUS
  <1>1. TypeOK
    <2>1. /\ status \in [Entries -> Statuses] /\ handled_by \in [Entries -> {0, 1, 2}]
          /\ applied \in [Entries -> Nat] /\ aged \subseteq Entries /\ ring \subseteq Entries
      BY DEF Init, Statuses
    <2>2. written \in 0 .. MaxSeq /\ len \in Int /\ channel \in Seq(Entries)
      BY PipelineAssumption DEF Init
    <2>3. writer \in BOOLEAN /\ primary \in [pc : {"idle", "claim", "apply", "record"}, entry : Nat]
      BY Zenon DEF Init, Idle
    <2>4. sorter \in [Sorters -> SorterState]
      BY DEF Init, Resting, SorterState
    <2>5. worker \in [Workers -> WorkerState]
      BY DEF Init, Idle, WorkerState
    <2> QED BY <2>1, <2>2, <2>3, <2>4, <2>5 DEF TypeOK
  <1>2. PrimaryInv /\ ClaimsDistinct /\ (\A s \in Sorters : SorterInv(s)) /\ \A w \in Workers : WorkerInv(w)
    BY DEF Init, PrimaryInv, SorterInv, WorkerInv, ClaimsDistinct, Claimed, Idle, Resting
  <1>3. \A e \in Entries : EntryInv(e) /\ status[e] # "Unaddressed"
    BY DEF Init, EntryInv, IsTerminal
  <1> QED BY <1>1, <1>2, <1>3 DEF DualInv

\* What a step that changes neither entries nor logs, ring, channel or actors keeps.
LEMMA StillDualInv ==
  ASSUME DualInv, TypeOK',
         UNCHANGED <<status, handled_by, applied, ring, channel, primary, sorter, worker,
                     log_a, log_b, written>>
  PROVE  DualInv'
  <1>1. \A e \in Entries : EntryInv(e)'
    BY DEF DualInv, EntryInv, IsTerminal
  <1>2. /\ PrimaryInv' /\ ClaimsDistinct' /\ (\A w \in Workers : WorkerInv(w)')
        /\ \A s \in Sorters : SorterInv(s)'
    BY DEF DualInv, PrimaryInv, WorkerInv, ClaimsDistinct, Claimed, SorterInv, IsTerminal
  <1>3. \A e \in Entries : status'[e] = "Unaddressed" => OnItsWay(e)'
    BY DEF DualInv, OnItsWay
  <1> QED BY <1>1, <1>2, <1>3 DEF DualInv

\* An entry that a step leaves alone.
LEMMA EntrySame ==
  ASSUME NEW d, EntryInv(d), UNCHANGED <<ring, log_a, log_b, written>>,
         status'[d] = status[d], applied'[d] = applied[d], handled_by'[d] = handled_by[d]
  PROVE  EntryInv(d)'
  BY DEF EntryInv, IsTerminal

\* The entries after one of them is claimed, its command carried out or its fill
\* recorded.
LEMMA ClaimEntry ==
  ASSUME NEW e \in Entries, NEW to \in {"Addressed", "Unaddressed", "FinallyHandled"},
         \A d \in Entries : EntryInv(d), status[e] \in {"Pending", "Unaddressed"},
         \A d \in Entries : status'[d] = IF d = e THEN to ELSE status[d],
         UNCHANGED <<applied, handled_by, ring, log_a, log_b, written>>
  PROVE  \A d \in Entries : EntryInv(d)'
  <1>1. ASSUME NEW d \in Entries, d # e PROVE EntryInv(d)'
    BY <1>1, EntrySame
  <1>2. status'[e] = to /\ status[e] # "None" /\ ~IsTerminal(e) /\ EntryInv(e)
    BY DEF IsTerminal
  <1>3. EntryInv(e)'
    BY <1>2 DEF EntryInv, IsTerminal
  <1> QED BY <1>1, <1>3

\* Applying an entry that was claimed and never applied keeps every entry sound.
LEMMA ApplyEntry ==
  ASSUME NEW e \in Entries, \A d \in Entries : EntryInv(d),
         status[e] \in {"Addressed", "FinallyHandled"}, handled_by[e] = 0,
         \A d \in Entries : applied'[d] = IF d = e THEN 1 ELSE applied[d],
         UNCHANGED <<status, handled_by, ring, log_a, log_b, written>>
  PROVE  \A d \in Entries : EntryInv(d)'
  <1>1. ASSUME NEW d \in Entries, d # e PROVE EntryInv(d)'
    BY <1>1, EntrySame
  <1>2. applied'[e] = 1 /\ EntryInv(e)
    OBVIOUS
  <1>3. EntryInv(e)'
    BY <1>2 DEF EntryInv, IsTerminal
  <1> QED BY <1>1, <1>3

\* So does recording who applied it, after it was applied.
LEMMA RecordEntry ==
  ASSUME NEW e \in Entries, \A d \in Entries : EntryInv(d), NEW engine \in {1, 2},
         status[e] = IF engine = 1 THEN "Addressed" ELSE "FinallyHandled", applied[e] = 1,
         \A d \in Entries : handled_by'[d] = IF d = e THEN engine ELSE handled_by[d],
         UNCHANGED <<status, applied, ring, log_a, log_b, written>>
  PROVE  \A d \in Entries : EntryInv(d)'
  <1>1. ASSUME NEW d \in Entries, d # e PROVE EntryInv(d)'
    BY <1>1, EntrySame
  <1>2. handled_by'[e] = engine /\ EntryInv(e)
    OBVIOUS
  <1>3. EntryInv(e)'
    BY <1>2 DEF EntryInv, IsTerminal
  <1> QED BY <1>1, <1>3

(***************************************************************************)
(* The writer and the clock.                                               *)
(***************************************************************************)
LEMMA WriterDualInv ==
  ASSUME DualInv, Write \/ WriteFails \/ CountPush \/ \E e \in Entries : Age(e)
  PROVE  DualInv'
  <1> USE PipelineAssumption DEF DualInv
  <1>1. CASE Write
    <2>1. PICK e \in Entries : /\ e = written + 1 /\ written' = e
                               /\ log_a' = log_a \cup {e} /\ log_b' = log_b \cup {e}
                               /\ status' = [status EXCEPT ![e] = "Pending"]
                               /\ ring' = ring \cup {e}
      <3>1. written + 1 \in Entries
        BY <1>1 DEF Write, TypeOK, Entries
      <3> QED BY <1>1, <3>1, Zenon DEF Write, Become
    <2>2. /\ status[e] = "None" /\ status \in [Entries -> Statuses]
          /\ UNCHANGED <<handled_by, applied, aged, len, channel, primary, sorter, worker>>
      BY <1>1, <2>1 DEF Write, EntryInv, TypeOK
    <2>3. TypeOK'
      BY <1>1, <2>1, <2>2 DEF Write, TypeOK, Statuses, Entries
    <2>4. PrimaryInv' /\ ClaimsDistinct' /\ \A w \in Workers : WorkerInv(w)'
      BY <2>1, <2>2 DEF PrimaryInv, WorkerInv, ClaimsDistinct, Claimed
    <2>5. ASSUME NEW s \in Sorters PROVE SorterInv(s)'
      BY <2>1, <2>2 DEF SorterInv, IsTerminal
    <2>6. ASSUME NEW d \in Entries
          PROVE  EntryInv(d)' /\ (status'[d] = "Unaddressed" => OnItsWay(d)')
      <3>0. /\ d \in Nat /\ written \in Nat /\ applied[d] \in Nat
            /\ status'[d] = (IF d = e THEN "Pending" ELSE status[d])
            /\ applied'[d] = applied[d] /\ handled_by'[d] = handled_by[d]
        <4>1. d \in Nat /\ written \in Nat
          BY DEF TypeOK, Entries
        <4>2. applied[d] \in Nat /\ status'[d] = (IF d = e THEN "Pending" ELSE status[d])
          BY <2>1, <2>2 DEF TypeOK
        <4> QED BY <2>2, <4>1, <4>2
      <3>1. CASE d = e
        BY <2>1, <2>2, <3>0, <3>1 DEF EntryInv, IsTerminal
      <3>2. CASE d # e
        <4>1. EntryInv(d)'
          BY <2>1, <2>2, <3>0, <3>2 DEF EntryInv, IsTerminal
        <4>2. status'[d] = "Unaddressed" => OnItsWay(d)'
          BY <2>1, <2>2, <3>0, <3>2 DEF OnItsWay
        <4> QED BY <4>1, <4>2
      <3> QED BY <3>1, <3>2
    <2> QED BY <2>3, <2>4, <2>5, <2>6
  <1>2. CASE WriteFails
    <2>1. /\ UNCHANGED <<status, handled_by, applied, aged, ring, len, channel, writer, primary,
                         sorter, worker>>
          /\ written' = written + 1 /\ written < MaxSeq
          /\ log_a \subseteq log_a' /\ log_b \subseteq log_b'
      BY <1>2 DEF WriteFails, entries, pending, actors
    <2>2. TypeOK'
      BY <2>1 DEF TypeOK
    <2>3. \A e \in Entries : EntryInv(e)'
      BY <2>1 DEF EntryInv, IsTerminal, TypeOK, Entries
    <2>4. /\ PrimaryInv' /\ ClaimsDistinct' /\ (\A w \in Workers : WorkerInv(w)')
        /\ \A s \in Sorters : SorterInv(s)'
      BY <2>1 DEF PrimaryInv, WorkerInv, ClaimsDistinct, Claimed, SorterInv, IsTerminal
    <2>5. \A e \in Entries : status'[e] = "Unaddressed" => OnItsWay(e)'
      BY <2>1 DEF OnItsWay
    <2> QED BY <2>2, <2>3, <2>4, <2>5
  <1>3. CASE CountPush
    <2>1. /\ UNCHANGED <<status, handled_by, applied, aged, ring, channel, primary, sorter,
                         worker, log_a, log_b, written>>
          /\ writer' = FALSE /\ len' = len + 1
      BY <1>3 DEF CountPush, entries, logs
    <2>2. TypeOK'
      <3>1. len' \in Int
        BY <2>1 DEF TypeOK
      <3>2. writer' \in BOOLEAN
        BY <2>1, Zenon
      <3> QED BY <2>1, <3>1, <3>2 DEF TypeOK
    <2> QED BY <2>1, <2>2, StillDualInv
  <1>4. CASE \E e \in Entries : Age(e)
    <2>1. /\ UNCHANGED <<status, handled_by, applied, ring, len, channel, writer, primary, sorter,
                         worker, log_a, log_b, written>>
          /\ aged' \subseteq Entries
      BY <1>4 DEF Age, logs, pending, actors, TypeOK
    <2>2. TypeOK'
      BY <2>1 DEF TypeOK
    <2> QED BY <2>1, <2>2, StillDualInv
  <1> QED BY <1>1, <1>2, <1>3, <1>4

(***************************************************************************)
(* The primary engine.                                                     *)
(***************************************************************************)
LEMMA PrimaryDualInv ==
  ASSUME DualInv, PrimaryNext \/ PrimaryFinish
  PROVE  DualInv'
  <1>t. TypeOK
    BY DEF DualInv
  <1>p. PrimaryInv /\ ClaimsDistinct
    BY DEF DualInv
  <1>e. \A d \in Entries : EntryInv(d)
    BY DEF DualInv
  <1>u. \A d \in Entries : status[d] = "Unaddressed" => OnItsWay(d)
    BY DEF DualInv
  <1>s. \A q \in Sorters : SorterInv(q)
    BY DEF DualInv
  <1>w. \A v \in Workers : WorkerInv(v)
    BY DEF DualInv
  <1>0. /\ UNCHANGED <<aged, ring, len, channel, writer, sorter, worker, log_a, log_b, written>>
        /\ primary \in [pc : {"idle", "claim", "apply", "record"}, entry : Nat]
    BY <1>t DEF PrimaryNext, PrimaryFinish, PrimaryClaim, PrimaryApply, PrimaryRecord, entries,
                logs, pending, TypeOK
  <1>1. CASE PrimaryNext
    <2>1. PICK e \in Entries : primary' = [pc |-> "claim", entry |-> e]
      BY <1>t, <1>1 DEF PrimaryNext, Oldest, TypeOK
    <2>2. UNCHANGED <<status, handled_by, applied>>
      BY <1>1 DEF PrimaryNext, entries
    <2>3. e \in Nat
      BY PipelineAssumption DEF Entries
    <2>4. TypeOK'
      BY <1>t, <1>0, <2>1, <2>2, <2>3 DEF TypeOK
    <2>5. PrimaryInv'
      BY <1>p, <2>1 DEF PrimaryInv
    <2>6. /\ ClaimsDistinct' /\ (\A w \in Workers : WorkerInv(w)')
          /\ \A s \in Sorters : SorterInv(s)'
      BY <1>p, <1>s, <1>w, <1>0, <2>2 DEF WorkerInv, ClaimsDistinct, Claimed, SorterInv,
                                          IsTerminal
    <2>7. \A d \in Entries : EntryInv(d)' /\ (status'[d] = "Unaddressed" => OnItsWay(d)')
      BY <1>e, <1>u, <1>0, <2>2 DEF EntryInv, IsTerminal, OnItsWay
    <2> QED BY <2>4, <2>5, <2>6, <2>7 DEF DualInv
  <1>2. CASE PrimaryClaim /\ status[primary.entry] = "Pending"
    <2>1. PICK e \in Entries : e = primary.entry /\ status[e] = "Pending"
      BY <1>p, <1>2 DEF PrimaryClaim, PrimaryInv
    <2>2. /\ status' = [status EXCEPT ![e] = "Addressed"]
          /\ primary' = [primary EXCEPT !.pc = "apply"]
          /\ UNCHANGED <<handled_by, applied>>
      BY <1>2, <2>1 DEF PrimaryClaim, Wins, Become
    <2>3. \A d \in Entries : status'[d] = IF d = e THEN "Addressed" ELSE status[d]
      BY <1>t, <2>2 DEF TypeOK
    <2>4. TypeOK'
      <3>1. status' \in [Entries -> Statuses]
        BY <1>t, <2>2 DEF TypeOK, Statuses
      <3>2. primary' \in [pc : {"idle", "claim", "apply", "record"}, entry : Nat]
        BY <1>0, <2>2
      <3> QED BY <1>t, <1>0, <2>2, <3>1, <3>2 DEF TypeOK
    <2>5. PrimaryInv'
      <3>1. primary'.pc = "apply" /\ primary'.entry = e
        BY <1>0, <2>1, <2>2
      <3>2. applied[e] = 0 /\ handled_by[e] = 0
        BY <1>e, <2>1 DEF EntryInv, IsTerminal
      <3> QED BY <1>p, <2>2, <2>3, <3>1, <3>2 DEF PrimaryInv
    <2>6. ClaimsDistinct' /\ \A w \in Workers : WorkerInv(w)'
      BY <1>p, <1>w, <1>0, <2>1, <2>2, <2>3 DEF WorkerInv, ClaimsDistinct, Claimed
    <2>7. ASSUME NEW s \in Sorters PROVE SorterInv(s)'
      BY <1>s, <1>0, <2>1, <2>3, Zenon DEF SorterInv, IsTerminal
    <2>8. \A d \in Entries : EntryInv(d)'
      BY <1>e, <1>0, <2>1, <2>2, <2>3, ClaimEntry
    <2>9. ASSUME NEW d \in Entries, status'[d] = "Unaddressed" PROVE OnItsWay(d)'
      BY <1>u, <1>0, <2>3, <2>9 DEF OnItsWay
    <2> QED BY <2>4, <2>5, <2>6, <2>7, <2>8, <2>9 DEF DualInv
  <1>3. CASE PrimaryClaim /\ status[primary.entry] # "Pending"
    <2>1. primary' = Idle /\ UNCHANGED <<status, handled_by, applied>>
      BY <1>3 DEF PrimaryClaim, Wins
    <2>2. TypeOK' /\ PrimaryInv'
      BY <1>t, <1>p, <1>0, <2>1 DEF TypeOK, Idle, PrimaryInv
    <2>3. /\ ClaimsDistinct' /\ (\A w \in Workers : WorkerInv(w)')
          /\ \A s \in Sorters : SorterInv(s)'
      BY <1>p, <1>s, <1>w, <1>0, <2>1 DEF WorkerInv, ClaimsDistinct, Claimed, SorterInv,
                                          IsTerminal
    <2>4. \A d \in Entries : EntryInv(d)' /\ (status'[d] = "Unaddressed" => OnItsWay(d)')
      BY <1>e, <1>u, <1>0, <2>1 DEF EntryInv, IsTerminal, OnItsWay
    <2> QED BY <2>2, <2>3, <2>4 DEF DualInv
  <1>4. CASE PrimaryApply
    <2>1. PICK e \in Entries : /\ e = primary.entry /\ status[e] = "Addressed" /\ applied[e] = 0
                               /\ handled_by[e] = 0
      BY <1>p, <1>4 DEF PrimaryApply, PrimaryInv
    <2>2. /\ applied' = [applied EXCEPT ![e] = @ + 1]
          /\ primary' = [primary EXCEPT !.pc = "record"]
          /\ UNCHANGED <<status, handled_by>>
      BY <1>4, <2>1 DEF PrimaryApply
    <2>3. \A d \in Entries : applied'[d] = IF d = e THEN 1 ELSE applied[d]
      BY <1>t, <2>1, <2>2 DEF TypeOK
    <2>4. TypeOK'
      <3>1. applied' \in [Entries -> Nat]
        BY <1>t, <2>2 DEF TypeOK
      <3>2. primary' \in [pc : {"idle", "claim", "apply", "record"}, entry : Nat]
        BY <1>0, <2>2
      <3> QED BY <1>t, <1>0, <2>2, <3>1, <3>2 DEF TypeOK
    <2>5. PrimaryInv'
      <3>1. primary'.pc = "record" /\ primary'.entry = e
        BY <1>0, <2>1, <2>2
      <3> QED BY <1>p, <2>1, <2>2, <2>3, <3>1 DEF PrimaryInv
    <2>6. ClaimsDistinct' /\ \A w \in Workers : WorkerInv(w)'
      BY <1>p, <1>w, <1>0, <2>1, <2>2, <2>3 DEF WorkerInv, ClaimsDistinct, Claimed
    <2>7. ASSUME NEW s \in Sorters PROVE SorterInv(s)'
      BY <1>s, <1>0, <2>2 DEF SorterInv, IsTerminal
    <2>8. \A d \in Entries : EntryInv(d)'
      BY <1>e, <1>0, <2>1, <2>2, <2>3, ApplyEntry
    <2>9. ASSUME NEW d \in Entries, status'[d] = "Unaddressed" PROVE OnItsWay(d)'
      BY <1>u, <1>0, <2>2, <2>9 DEF OnItsWay
    <2> QED BY <2>4, <2>5, <2>6, <2>7, <2>8, <2>9 DEF DualInv
  <1>5. CASE PrimaryRecord
    <2>1. PICK e \in Entries : e = primary.entry /\ status[e] = "Addressed" /\ applied[e] = 1
      BY <1>p, <1>5 DEF PrimaryRecord, PrimaryInv
    <2>2. /\ handled_by' = [handled_by EXCEPT ![e] = 1] /\ primary' = Idle
          /\ UNCHANGED <<status, applied>>
      BY <1>5, <2>1 DEF PrimaryRecord
    <2>3. \A d \in Entries : handled_by'[d] = IF d = e THEN 1 ELSE handled_by[d]
      BY <1>t, <2>2 DEF TypeOK
    <2>4. TypeOK' /\ PrimaryInv'
      BY <1>t, <1>p, <1>0, <2>2 DEF TypeOK, Idle, PrimaryInv
    <2>5. ClaimsDistinct' /\ \A w \in Workers : WorkerInv(w)'
      BY <1>p, <1>w, <1>0, <2>1, <2>2, <2>3 DEF WorkerInv, ClaimsDistinct, Claimed
    <2>6. ASSUME NEW s \in Sorters PROVE SorterInv(s)'
      BY <1>s, <1>0, <2>2 DEF SorterInv, IsTerminal
    <2>7. ASSUME NEW d \in Entries PROVE EntryInv(d)'
      BY <1>e, <1>0, <2>1, <2>2, <2>3 DEF EntryInv, IsTerminal
    <2>8. ASSUME NEW d \in Entries, status'[d] = "Unaddressed" PROVE OnItsWay(d)'
      BY <1>u, <1>0, <2>2, <2>8 DEF OnItsWay
    <2> QED BY <2>4, <2>5, <2>6, <2>7, <2>8 DEF DualInv
  <1> QED BY <1>1, <1>2, <1>3, <1>4, <1>5 DEF PrimaryFinish

(***************************************************************************)
(* A sorter.                                                               *)
(***************************************************************************)
LEMMA AdvanceMoves ==
  ASSUME TypeOK, NEW s \in Sorters, Advance(s)
  PROVE  /\ sorter' \in [Sorters -> SorterState]
         /\ \A q \in Sorters \ {s} : sorter'[q] = sorter[q]
         /\ sorter'[s].pc \in {"idle", "load"} /\ SorterInv(s)'
  <1>1. sorter \in [Sorters -> SorterState] /\ sorter[s] \in SorterState
    BY DEF TypeOK
  <1>2. CASE sorter' = [sorter EXCEPT ![s] = Resting]
    <2>1. Resting \in SorterState /\ Resting.pc = "idle"
      BY DEF SorterState, Resting
    <2> HIDE DEF Resting
    <2> QED BY <1>1, <1>2, <2>1 DEF SorterInv
  <1>3. ASSUME NEW e \in sorter[s].todo,
               sorter' = [sorter EXCEPT ![s].pc = "load", ![s].entry = e, ![s].todo = @ \ {e}]
        PROVE  /\ sorter' \in [Sorters -> SorterState]
               /\ \A q \in Sorters \ {s} : sorter'[q] = sorter[q]
               /\ sorter'[s].pc = "load" /\ sorter'[s].entry = e /\ e \in Entries
    <2>1. e \in Entries /\ e \in Nat
      BY <1>1, PipelineAssumption DEF SorterState, Entries
    <2>2. sorter' = [sorter EXCEPT ![s] = [sorter[s] EXCEPT !.pc = "load", !.entry = e,
                                                           !.todo = @ \ {e}]]
      BY <1>1, <1>3
    <2>3. /\ [sorter[s] EXCEPT !.pc = "load", !.entry = e, !.todo = @ \ {e}] \in SorterState
          /\ [sorter[s] EXCEPT !.pc = "load", !.entry = e, !.todo = @ \ {e}].pc = "load"
          /\ [sorter[s] EXCEPT !.pc = "load", !.entry = e, !.todo = @ \ {e}].entry = e
      BY <1>1, <2>1 DEF SorterState
    <2> QED BY <1>1, <2>1, <2>2, <2>3
  <1> QED BY <1>2, <1>3 DEF Advance, Oldest, SorterInv

\* A sorter that goes on to a later label keeps its entry in hand.
LEMMA ThenMoves ==
  ASSUME TypeOK, NEW s \in Sorters, SorterInv(s), sorter[s].pc # "idle",
         NEW label \in {"claim", "send", "remove", "count"}, Then(s, label),
         label = "remove" => IsTerminal(sorter[s].entry) /\ status' = status
  PROVE  /\ sorter' \in [Sorters -> SorterState]
         /\ \A q \in Sorters \ {s} : sorter'[q] = sorter[q]
         /\ sorter'[s].pc = label /\ sorter'[s].entry = sorter[s].entry /\ SorterInv(s)'
  <1>1. sorter \in [Sorters -> SorterState] /\ sorter[s] \in SorterState
    BY DEF TypeOK
  <1>2. sorter' = [sorter EXCEPT ![s] = [sorter[s] EXCEPT !.pc = label]]
    BY <1>1 DEF Then
  <1>3. /\ [sorter[s] EXCEPT !.pc = label] \in SorterState
        /\ [sorter[s] EXCEPT !.pc = label].pc = label
        /\ [sorter[s] EXCEPT !.pc = label].entry = sorter[s].entry
    BY <1>1 DEF SorterState
  <1>4. /\ sorter' \in [Sorters -> SorterState]
        /\ \A q \in Sorters \ {s} : sorter'[q] = sorter[q]
        /\ sorter'[s].pc = label /\ sorter'[s].entry = sorter[s].entry
    BY <1>1, <1>2, <1>3
  <1> QED BY <1>4 DEF SorterInv, IsTerminal

\* A step of a sorter in which it touches only itself and the counter.
LEMMA SorterStill ==
  ASSUME DualInv, NEW s \in Sorters, sorter' \in [Sorters -> SorterState], SorterInv(s)',
         \A q \in Sorters \ {s} : sorter'[q] = sorter[q],
         sorter[s].pc # "send", len' \in Int,
         UNCHANGED <<status, handled_by, applied, aged, ring, channel, written, log_a, log_b,
                     writer, primary, worker>>
  PROVE  DualInv'
  <1>t. TypeOK
    BY DEF DualInv
  <1>p. PrimaryInv /\ ClaimsDistinct
    BY DEF DualInv
  <1>e. \A d \in Entries : EntryInv(d)
    BY DEF DualInv
  <1>u. \A d \in Entries : status[d] = "Unaddressed" => OnItsWay(d)
    BY DEF DualInv
  <1>s. \A q \in Sorters : SorterInv(q)
    BY DEF DualInv
  <1>w. \A v \in Workers : WorkerInv(v)
    BY DEF DualInv
  <1>1. TypeOK'
    BY <1>t DEF TypeOK
  <1>2. PrimaryInv' /\ ClaimsDistinct' /\ \A w \in Workers : WorkerInv(w)'
    BY <1>p, <1>w DEF PrimaryInv, ClaimsDistinct, WorkerInv, Claimed
  <1>3. \A e \in Entries : EntryInv(e)'
    BY <1>e DEF EntryInv, IsTerminal
  <1>4. ASSUME NEW q \in Sorters PROVE SorterInv(q)'
    <2>1. CASE q # s
      BY <1>s, <2>1 DEF SorterInv, IsTerminal
    <2> QED BY <2>1 DEF DualInv
  <1>5. ASSUME NEW e \in Entries, status'[e] = "Unaddressed" PROVE OnItsWay(e)'
    <2>1. OnItsWay(e)
      BY <1>u, <1>5
    <2> QED BY <2>1 DEF OnItsWay
  <1> QED BY <1>1, <1>2, <1>3, <1>4, <1>5 DEF DualInv

\* Every step of a sorter keeps DualInv.
LEMMA SorterDualInv ==
  ASSUME DualInv, NEW s \in Sorters, SorterStep(s)
  PROVE  DualInv'
  <1>t. TypeOK
    BY DEF DualInv
  <1>p. PrimaryInv /\ ClaimsDistinct
    BY DEF DualInv
  <1>e. \A d \in Entries : EntryInv(d)
    BY DEF DualInv
  <1>u. \A d \in Entries : status[d] = "Unaddressed" => OnItsWay(d)
    BY DEF DualInv
  <1>s. \A q \in Sorters : SorterInv(q)
    BY DEF DualInv
  <1>w. \A v \in Workers : WorkerInv(v)
    BY DEF DualInv
  <1>0. UNCHANGED <<handled_by, applied, aged, written, log_a, log_b, writer, primary, worker>>
    BY DEF SorterStep, Scan, SorterLoad, SorterClaim, SorterSend, SorterRemove, SorterCount,
           entries, logs
  <1>1. sorter[s] \in SorterState /\ TypeOK /\ SorterInv(s)
    BY <1>s, <1>t DEF TypeOK
  <1>2. CASE Scan(s)
    <2>1. PICK e \in ring, young \in SUBSET (ring \ aged) :
            sorter' = [sorter EXCEPT ![s] = [pc |-> "load", entry |-> e, todo |-> ring \ {e},
                                             late |-> young \cup (ring \cap aged)]]
      BY <1>2 DEF Scan, Oldest
    <2>2. /\ sorter[s].pc = "idle" /\ UNCHANGED <<status, ring, len, channel>>
          /\ len' \in Int
      BY <1>t, <1>2 DEF Scan, entries, pending, TypeOK
    <2>3. sorter' \in [Sorters -> SorterState] /\ e \in Entries
      BY <1>t, <2>1, PipelineAssumption DEF TypeOK, SorterState, Entries
    <2>4. /\ \A q \in Sorters \ {s} : sorter'[q] = sorter[q]
          /\ sorter'[s].pc = "load" /\ sorter'[s].entry = e
      BY <1>t, <2>1 DEF TypeOK
    <2>5. SorterInv(s)'
      BY <1>s, <2>3, <2>4 DEF SorterInv
    <2> QED BY <1>0, <2>2, <2>3, <2>4, <2>5, SorterStill
  <1>3. CASE SorterLoad(s)
    <2>1. sorter[s].pc = "load" /\ UNCHANGED <<status, ring, len, channel>> /\ len' \in Int
      BY <1>t, <1>3, Zenon DEF SorterLoad, entries, pending, TypeOK
    <2>2. \/ Advance(s) \/ Then(s, "claim") \/ (Then(s, "remove") /\ IsTerminal(sorter[s].entry))
      BY <1>3 DEF SorterLoad
    <2>3. /\ sorter' \in [Sorters -> SorterState] /\ SorterInv(s)'
          /\ \A q \in Sorters \ {s} : sorter'[q] = sorter[q]
      BY <1>1, <2>1, <2>2, AdvanceMoves, ThenMoves
    <2> QED BY <1>0, <2>1, <2>3, SorterStill, Zenon
  <1>4. CASE SorterClaim(s) /\ status[sorter[s].entry] # "Pending"
    <2>1. /\ sorter[s].pc = "claim" /\ UNCHANGED <<status, ring, len, channel>> /\ len' \in Int
          /\ Advance(s)
      BY <1>t, <1>4 DEF SorterClaim, Wins, pending, TypeOK
    <2>2. /\ sorter' \in [Sorters -> SorterState] /\ SorterInv(s)'
          /\ \A q \in Sorters \ {s} : sorter'[q] = sorter[q]
      BY <1>1, <2>1, AdvanceMoves
    <2> QED BY <1>0, <2>1, <2>2, SorterStill
  <1>5. CASE SorterClaim(s) /\ status[sorter[s].entry] = "Pending"
    <2>1. PICK e \in Entries : e = sorter[s].entry /\ status[e] = "Pending"
      BY <1>1, <1>5 DEF SorterClaim, SorterInv
    <2>2. /\ status' = [status EXCEPT ![e] = "Unaddressed"] /\ sorter[s].pc = "claim"
          /\ Then(s, "send") /\ UNCHANGED <<ring, len, channel>>
      BY <1>5, <2>1 DEF SorterClaim, Wins, Become, pending
    <2>3. \A d \in Entries : status'[d] = IF d = e THEN "Unaddressed" ELSE status[d]
      BY <1>t, <2>2 DEF TypeOK
    <2>4. /\ sorter' \in [Sorters -> SorterState] /\ sorter'[s].pc = "send" /\ SorterInv(s)'
          /\ sorter'[s].entry = e /\ \A q \in Sorters \ {s} : sorter'[q] = sorter[q]
      BY <1>1, <2>1, <2>2, ThenMoves
    <2>5. TypeOK'
      <3>1. status' \in [Entries -> Statuses]
        BY <1>t, <2>2 DEF TypeOK, Statuses
      <3> QED BY <1>t, <1>0, <2>2, <2>4, <3>1 DEF TypeOK
    <2>6. PrimaryInv' /\ ClaimsDistinct' /\ \A w \in Workers : WorkerInv(w)'
      BY <1>p, <1>w, <1>0, <2>1, <2>3 DEF PrimaryInv, WorkerInv, ClaimsDistinct, Claimed
    <2>7. ASSUME NEW q \in Sorters PROVE SorterInv(q)'
      <3>1. CASE q # s
        BY <1>s, <2>1, <2>3, <2>4, <3>1 DEF SorterInv, IsTerminal
      <3> QED BY <3>1, <2>4
    <2>8. \A d \in Entries : EntryInv(d)'
      BY <1>e, <1>0, <2>1, <2>2, <2>3, ClaimEntry
    <2>9. ASSUME NEW d \in Entries, status'[d] = "Unaddressed" PROVE OnItsWay(d)'
      <3>1. CASE d = e
        BY <2>4, <3>1 DEF OnItsWay
      <3>2. CASE d # e
        <4>1. OnItsWay(d) /\ \A q \in Sorters : sorter[q].pc = "send" => q # s
          BY <1>u, <2>2, <2>3, <2>9, <3>2
        <4>2. CASE \E q \in Sorters : sorter[q].pc = "send" /\ sorter[q].entry = d
          <5>1. PICK q \in Sorters \ {s} : sorter[q].pc = "send" /\ sorter[q].entry = d
            BY <4>1, <4>2
          <5>2. sorter'[q].pc = "send" /\ sorter'[q].entry = d
            BY <2>4, <5>1
          <5> QED BY <1>u, <5>2 DEF OnItsWay
        <4> QED BY <1>0, <2>2, <4>1, <4>2, Zenon DEF OnItsWay
      <3> QED BY <3>1, <3>2
    <2> QED BY <2>5, <2>6, <2>7, <2>8, <2>9 DEF DualInv
  <1>6. CASE SorterSend(s)
    <2>1. /\ sorter[s].pc = "send" /\ channel' = Append(channel, sorter[s].entry) /\ Advance(s)
          /\ UNCHANGED <<status, ring, len>>
      BY <1>6 DEF SorterSend, entries, pending
    <2>2. PICK e \in Entries : e = sorter[s].entry
      BY <1>1, <2>1 DEF SorterInv
    <2>3. /\ sorter' \in [Sorters -> SorterState] /\ SorterInv(s)'
          /\ \A q \in Sorters \ {s} : sorter'[q] = sorter[q]
      BY <1>1, <2>1, AdvanceMoves
    <2>4. channel' \in Seq(Entries) /\ Range(channel') = Range(channel) \cup {e}
      <3>1. channel \in Seq(Entries) /\ channel' = Append(channel, e)
        BY <1>t, <2>1, <2>2 DEF TypeOK
      <3>2. /\ channel' \in Seq(Entries) /\ Len(channel') = Len(channel) + 1
            /\ channel'[Len(channel) + 1] = e
            /\ \A i \in 1 .. Len(channel) : channel'[i] = channel[i]
        BY <3>1
      <3>3. /\ Range(channel) = {channel[i] : i \in 1 .. Len(channel)}
            /\ Range(channel') = {channel'[i] : i \in 1 .. Len(channel')}
        BY <3>1, <3>2 DEF Range
      <3>4. ASSUME NEW i \in 1 .. Len(channel')
            PROVE  channel'[i] \in Range(channel) \cup {e}
        <4>1. CASE i \in 1 .. Len(channel)
          BY <3>2, <3>3, <4>1
        <4>2. CASE i = Len(channel) + 1
          BY <3>2, <4>2
        <4> QED BY <3>1, <3>2, <4>1, <4>2
      <3>5. 1 .. Len(channel) \subseteq 1 .. Len(channel') /\ Len(channel) + 1 \in 1 .. Len(channel')
        BY <3>1, <3>2
      <3>6. Range(channel) \cup {e} \subseteq Range(channel')
        BY <3>2, <3>3, <3>5
      <3> QED BY <3>2, <3>3, <3>4, <3>6
    <2>5. TypeOK'
      BY <1>t, <1>0, <2>1, <2>3, <2>4 DEF TypeOK
    <2>6. PrimaryInv' /\ ClaimsDistinct' /\ \A w \in Workers : WorkerInv(w)'
      BY <1>p, <1>w, <1>0, <2>1 DEF PrimaryInv, WorkerInv, ClaimsDistinct, Claimed
    <2>7. ASSUME NEW q \in Sorters PROVE SorterInv(q)'
      <3>1. CASE q # s
        BY <1>s, <2>1, <2>3, <3>1 DEF SorterInv, IsTerminal
      <3> QED BY <3>1, <2>3
    <2>8. \A d \in Entries : EntryInv(d)'
      BY <1>e, <1>0, <2>1, Zenon DEF EntryInv, IsTerminal
    <2>9. ASSUME NEW d \in Entries, status'[d] = "Unaddressed" PROVE OnItsWay(d)'
      <3>1. CASE d = e
        BY <2>4, <3>1, Zenon DEF OnItsWay
      <3>2. CASE d # e
        <4>1. OnItsWay(d)
          BY <1>u, <2>1, <2>9
        <4> QED BY <1>0, <2>2, <2>3, <2>4, <3>2, <4>1 DEF OnItsWay
      <3> QED BY <3>1, <3>2
    <2> QED BY <2>5, <2>6, <2>7, <2>8, <2>9 DEF DualInv
  <1>7. CASE SorterRemove(s)
    <2>1. /\ sorter[s].pc = "remove" /\ ring' = ring \ {sorter[s].entry}
          /\ Then(s, "count") \/ Advance(s)
          /\ UNCHANGED <<status, len, channel>>
      BY <1>7 DEF SorterRemove, entries
    <2>2. IsTerminal(sorter[s].entry)
      BY <1>s, <2>1 DEF SorterInv
    <2>3. /\ sorter' \in [Sorters -> SorterState] /\ SorterInv(s)'
          /\ \A q \in Sorters \ {s} : sorter'[q] = sorter[q]
      BY <1>1, <2>1, AdvanceMoves, ThenMoves
    <2>4. TypeOK'
      BY <1>t, <1>0, <2>1, <2>3 DEF TypeOK
    <2>5. PrimaryInv' /\ ClaimsDistinct' /\ \A w \in Workers : WorkerInv(w)'
      BY <1>p, <1>w, <1>0, <2>1 DEF PrimaryInv, WorkerInv, ClaimsDistinct, Claimed
    <2>6. ASSUME NEW q \in Sorters PROVE SorterInv(q)'
      <3>1. CASE q # s
        BY <1>s, <2>1, <2>3, <3>1 DEF SorterInv, IsTerminal
      <3> QED BY <3>1, <2>3
    <2>7. \A d \in Entries : EntryInv(d)'
      BY <1>e, <1>0, <2>1, <2>2 DEF EntryInv, IsTerminal
    <2>8. ASSUME NEW d \in Entries, status'[d] = "Unaddressed" PROVE OnItsWay(d)'
      <3>1. OnItsWay(d)
        BY <1>u, <2>1, <2>8
      <3> QED BY <1>0, <2>1, <2>3, <3>1 DEF OnItsWay
    <2> QED BY <2>4, <2>5, <2>6, <2>7, <2>8 DEF DualInv
  <1>8. CASE SorterCount(s)
    <2>1. /\ sorter[s].pc = "count" /\ len' = len - 1 /\ Advance(s)
          /\ UNCHANGED <<status, ring, channel>>
      BY <1>8, Zenon DEF SorterCount, entries
    <2>2. len' \in Int
      BY <1>t, <2>1 DEF TypeOK
    <2>3. /\ sorter' \in [Sorters -> SorterState] /\ SorterInv(s)'
          /\ \A q \in Sorters \ {s} : sorter'[q] = sorter[q]
      BY <1>1, <2>1, AdvanceMoves
    <2> QED BY <1>0, <2>1, <2>2, <2>3, SorterStill
  <1> QED BY <1>2, <1>3, <1>4, <1>5, <1>6, <1>7, <1>8, Zenon DEF SorterStep

(***************************************************************************)
(* A worker of the second engine.                                          *)
(***************************************************************************)
LEMMA WorkerMoves ==
  ASSUME TypeOK, NEW w \in Workers,
         NEW label \in {"claim", "apply", "record", "remove", "count"},
         Goto(w, label) \/ Done(w)
  PROVE  /\ worker' \in [Workers -> WorkerState]
         /\ \A v \in Workers \ {w} : worker'[v] = worker[v]
         /\ Goto(w, label) => worker'[w].pc = label /\ worker'[w].entry = worker[w].entry
         /\ Done(w) => worker'[w].pc = "idle"
  <1>1. worker \in [Workers -> WorkerState] /\ worker[w] \in WorkerState
    BY DEF TypeOK
  <1>2. CASE Goto(w, label)
    <2>1. worker' = [worker EXCEPT ![w] = [worker[w] EXCEPT !.pc = label]]
      BY <1>1, <1>2 DEF Goto
    <2>2. /\ [worker[w] EXCEPT !.pc = label] \in WorkerState
          /\ [worker[w] EXCEPT !.pc = label].pc = label
          /\ [worker[w] EXCEPT !.pc = label].entry = worker[w].entry
      BY <1>1 DEF WorkerState
    <2>3. ~Done(w)
      <3>1. worker'[w].pc # "idle"
        BY <1>1, <2>1, <2>2
      <3> QED BY <1>1, <3>1 DEF Done, Idle
    <2> QED BY <1>1, <2>1, <2>2, <2>3
  <1>3. CASE Done(w)
    <2>1. worker' = [worker EXCEPT ![w] = Idle] /\ Idle \in WorkerState /\ Idle.pc = "idle"
      BY <1>3 DEF Done, Idle, WorkerState
    <2>2. ~Goto(w, label)
      <3>1. worker'[w].pc = "idle"
        BY <1>1, <2>1
      <3> QED BY <1>1, <3>1 DEF Goto, WorkerState
    <2> QED BY <1>1, <2>1, <2>2
  <1> QED BY <1>2, <1>3

\* A step of a worker in which it touches only itself and the counter.
LEMMA WorkerStill ==
  ASSUME DualInv, NEW w \in Workers, worker' \in [Workers -> WorkerState],
         \A v \in Workers \ {w} : worker'[v] = worker[v],
         WorkerInv(w)', ~Claimed(w)', len' \in Int,
         \/ worker[w].pc \notin {"load", "claim"}
         \/ status[worker[w].entry] # "Unaddressed"
         \/ worker'[w].entry = worker[w].entry /\ worker'[w].pc = "claim",
         UNCHANGED <<status, handled_by, applied, aged, ring, channel, written, log_a, log_b,
                     writer, primary, sorter>>
  PROVE  DualInv'
  <1>t. TypeOK
    BY DEF DualInv
  <1>p. PrimaryInv /\ ClaimsDistinct
    BY DEF DualInv
  <1>e. \A d \in Entries : EntryInv(d)
    BY DEF DualInv
  <1>u. \A d \in Entries : status[d] = "Unaddressed" => OnItsWay(d)
    BY DEF DualInv
  <1>s. \A q \in Sorters : SorterInv(q)
    BY DEF DualInv
  <1>w. \A v \in Workers : WorkerInv(v)
    BY DEF DualInv
  <1>1. TypeOK'
    BY <1>t DEF TypeOK
  <1>2. PrimaryInv' /\ \A s \in Sorters : SorterInv(s)'
    BY <1>p, <1>s DEF PrimaryInv, SorterInv, IsTerminal
  <1>3. \A e \in Entries : EntryInv(e)'
    BY <1>e DEF EntryInv, IsTerminal
  <1>4. ASSUME NEW v \in Workers PROVE WorkerInv(v)'
    <2>1. CASE v # w
      BY <1>w, <2>1, Zenon DEF WorkerInv
    <2> QED BY <2>1, Zenon DEF DualInv
  <1>5. ClaimsDistinct'
    BY <1>p DEF ClaimsDistinct, Claimed
  <1>6. ASSUME NEW e \in Entries, status'[e] = "Unaddressed" PROVE OnItsWay(e)'
    <2>1. OnItsWay(e)
      BY <1>u, <1>6, Zenon
    <2>2. CASE \E v \in Workers : worker[v].entry = e /\ worker[v].pc \in {"load", "claim"}
      <3>1. PICK v \in Workers : worker[v].entry = e /\ worker[v].pc \in {"load", "claim"}
        BY <2>2
      <3>2. worker'[v].entry = e /\ worker'[v].pc \in {"load", "claim"}
        BY <1>6, <3>1
      <3> QED BY <3>2 DEF OnItsWay
    <2> QED BY <2>1, <2>2, Zenon DEF OnItsWay
  <1> QED BY <1>1, <1>2, <1>3, <1>4, <1>5, <1>6 DEF DualInv

\* Every step of a worker of the final engine keeps DualInv.
LEMMA WorkerDualInv ==
  ASSUME DualInv, NEW w \in Workers, WorkerStep(w)
  PROVE  DualInv'
  <1>t. TypeOK
    BY DEF DualInv
  <1>p. PrimaryInv /\ ClaimsDistinct
    BY DEF DualInv
  <1>e. \A d \in Entries : EntryInv(d)
    BY DEF DualInv
  <1>u. \A d \in Entries : status[d] = "Unaddressed" => OnItsWay(d)
    BY DEF DualInv
  <1>s. \A q \in Sorters : SorterInv(q)
    BY DEF DualInv
  <1>w. \A v \in Workers : WorkerInv(v)
    BY DEF DualInv
  <1>0. /\ UNCHANGED <<aged, written, log_a, log_b, writer, primary, sorter>>
        /\ TypeOK /\ WorkerInv(w) /\ worker[w] \in WorkerState
    BY <1>w, <1>t DEF WorkerStep, Receive, WorkerLoad, WorkerClaim, WorkerApply, WorkerRecord,
                      WorkerRemove, WorkerCount, entries, logs, TypeOK
  <1>1. CASE Receive(w)
    <2>1. /\ worker[w].pc = "idle" /\ channel # <<>> /\ channel' = Tail(channel)
          /\ worker' = [worker EXCEPT ![w] = [pc |-> "load", entry |-> Head(channel)]]
          /\ UNCHANGED <<status, handled_by, applied, ring, len>>
      <3>1. /\ worker[w] = Idle /\ channel # <<>> /\ channel' = Tail(channel)
            /\ worker' = [worker EXCEPT ![w] = [pc |-> "load", entry |-> Head(channel)]]
            /\ UNCHANGED <<status, handled_by, applied, ring, len>>
        BY <1>1, Zenon DEF Receive, entries, pending
      <3> QED BY <3>1 DEF Idle
    <2>2. /\ channel \in Seq(Entries) /\ Head(channel) \in Entries /\ Tail(channel) \in Seq(Entries)
          /\ Range(channel) \subseteq Range(channel') \cup {Head(channel)}
      <3>1. channel \in Seq(Entries)
        BY <1>t DEF TypeOK
      <3>2. /\ Head(channel) = channel[1] /\ channel' \in Seq(Entries) /\ Head(channel) \in Entries
            /\ Len(channel') = Len(channel) - 1
            /\ \A i \in 1 .. Len(channel) - 1 : channel'[i] = channel[i + 1]
        BY <2>1, <3>1
      <3>3. ASSUME NEW i \in 1 .. Len(channel), i # 1
            PROVE  channel[i] \in Range(channel')
        <4>1. i - 1 \in 1 .. Len(channel) - 1 /\ (i - 1) + 1 = i
          BY <3>1, <3>3
        <4>2. channel'[i - 1] = channel[i] /\ i - 1 \in DOMAIN channel'
          BY <3>2, <4>1
        <4> QED BY <4>2 DEF Range
      <3>4. Range(channel) = {channel[i] : i \in 1 .. Len(channel)}
        BY <3>1 DEF Range
      <3> QED BY <2>1, <3>1, <3>2, <3>3, <3>4
    <2>3. PICK e \in Entries : e = Head(channel)
      BY <2>2
    <2>4. e \in Nat
      BY PipelineAssumption DEF Entries
    <2>5. /\ worker' \in [Workers -> WorkerState] /\ \A v \in Workers \ {w} : worker'[v] = worker[v]
          /\ worker'[w].pc = "load" /\ worker'[w].entry = e
      BY <1>t, <2>1, <2>3, <2>4 DEF TypeOK, WorkerState
    <2>6. TypeOK'
      BY <1>t, <1>0, <2>1, <2>2, <2>5 DEF TypeOK
    <2>7. PrimaryInv' /\ \A s \in Sorters : SorterInv(s)'
      BY <1>p, <1>s, <1>0, <2>1 DEF PrimaryInv, SorterInv, IsTerminal
    <2>8. \A d \in Entries : EntryInv(d)'
      BY <1>e, <1>0, <2>1 DEF EntryInv, IsTerminal
    <2>9. ASSUME NEW v \in Workers PROVE WorkerInv(v)'
      <3>1. CASE v # w
        BY <1>w, <2>1, <2>5, <3>1 DEF WorkerInv
      <3>2. CASE v = w
        BY <1>w, <2>5, <3>2, Zenon DEF WorkerInv
      <3> QED BY <3>1, <3>2
    <2>10. ClaimsDistinct'
      BY <1>p, <2>5 DEF ClaimsDistinct, Claimed
    <2>11. ASSUME NEW d \in Entries, status'[d] = "Unaddressed" PROVE OnItsWay(d)'
      <3>1. OnItsWay(d)
        BY <1>u, <2>1, <2>11
      <3>2. CASE d = e
        BY <2>5, <3>2, Zenon DEF OnItsWay
      <3>3. CASE d # e /\ d \in Range(channel)
        BY <1>u, <2>2, <2>3, <3>3 DEF OnItsWay
      <3>4. CASE \E v \in Workers : worker[v].entry = d /\ worker[v].pc \in {"load", "claim"}
        BY <1>u, <2>1, <2>5, <3>4, Zenon DEF OnItsWay
      <3> QED BY <1>0, <3>1, <3>2, <3>3, <3>4, Zenon DEF OnItsWay
    <2> QED BY <2>6, <2>7, <2>8, <2>9, <2>10, <2>11 DEF DualInv
  <1>2. CASE WorkerLoad(w)
    <2>1. /\ worker[w].pc = "load" /\ UNCHANGED <<status, handled_by, applied, ring, channel, len>>
          /\ \/ status[worker[w].entry] = "Unaddressed" /\ Goto(w, "claim")
             \/ status[worker[w].entry] # "Unaddressed" /\ Done(w)
          /\ len' \in Int
      BY <1>t, <1>2 DEF WorkerLoad, entries, pending, TypeOK
    <2>2. /\ worker' \in [Workers -> WorkerState] /\ \A v \in Workers \ {w} : worker'[v] = worker[v]
          /\ \/ status[worker[w].entry] # "Unaddressed" /\ worker'[w].pc = "idle"
             \/ worker'[w].entry = worker[w].entry /\ worker'[w].pc = "claim"
      BY <1>0, <2>1, WorkerMoves
    <2>3. WorkerInv(w)' /\ ~Claimed(w)'
      BY <1>w, <2>1, <2>2, Zenon DEF WorkerInv, Claimed
    <2> QED BY <1>0, <2>1, <2>2, <2>3, WorkerStill, Zenon
  <1>3. CASE WorkerClaim(w) /\ status[worker[w].entry] # "Unaddressed"
    <2>1. /\ UNCHANGED <<status, handled_by, applied, ring, channel, len>> /\ Done(w)
          /\ len' \in Int
      BY <1>t, <1>3 DEF WorkerClaim, Wins, pending, TypeOK
    <2>2. /\ worker' \in [Workers -> WorkerState] /\ \A v \in Workers \ {w} : worker'[v] = worker[v]
          /\ worker'[w].pc = "idle"
      BY <1>0, <2>1, WorkerMoves
    <2>3. WorkerInv(w)' /\ ~Claimed(w)'
      BY <1>w, <2>2 DEF WorkerInv, Claimed
    <2> QED BY <1>0, <1>3, <2>1, <2>2, <2>3, WorkerStill, Zenon
  <1>4. CASE WorkerClaim(w) /\ status[worker[w].entry] = "Unaddressed"
    <2>1. PICK e \in Entries : e = worker[w].entry /\ status[e] = "Unaddressed"
      BY <1>w, <1>4 DEF WorkerClaim, WorkerInv
    <2>2. /\ status' = [status EXCEPT ![e] = "FinallyHandled"] /\ Goto(w, "apply")
          /\ UNCHANGED <<handled_by, applied, ring, channel, len>>
      BY <1>4, <2>1, Zenon DEF WorkerClaim, Wins, Become, pending
    <2>3. \A d \in Entries : status'[d] = IF d = e THEN "FinallyHandled" ELSE status[d]
      BY <1>t, <2>2 DEF TypeOK
    <2>4. /\ worker' \in [Workers -> WorkerState] /\ \A v \in Workers \ {w} : worker'[v] = worker[v]
          /\ worker'[w].pc = "apply" /\ worker'[w].entry = e
      BY <1>0, <2>1, <2>2, WorkerMoves, Zenon
    <2>5. TypeOK'
      <3>1. status' \in [Entries -> Statuses]
        BY <1>t, <2>2 DEF TypeOK, Statuses
      <3> QED BY <1>t, <1>0, <2>2, <2>4, <3>1 DEF TypeOK
    <2>6. PrimaryInv'
      BY <1>p, <1>0, <2>1, <2>2, <2>3, Zenon DEF PrimaryInv
    <2>7. ASSUME NEW v \in Workers PROVE WorkerInv(v)'
      <3>1. CASE v # w
        <4>1. WorkerInv(v) /\ worker'[v] = worker[v]
          BY <1>w, <2>4, <3>1
        <4> QED BY <2>1, <2>2, <2>3, <4>1 DEF WorkerInv
      <3>2. CASE v = w
        <4>1. applied[e] = 0 /\ handled_by[e] = 0
          BY <1>e, <2>1, Zenon DEF EntryInv, IsTerminal
        <4> QED BY <1>w, <2>2, <2>3, <2>4, <3>2, <4>1 DEF WorkerInv
      <3> QED BY <3>1, <3>2
    <2>8. ClaimsDistinct'
      <3>1. ASSUME NEW v \in Workers \ {w}, Claimed(v)' PROVE worker'[v].entry # e
        BY <1>w, <2>1, <2>4, <3>1 DEF Claimed, WorkerInv
      <3> QED BY <1>p, <2>4, <3>1 DEF ClaimsDistinct, Claimed
    <2>9. ASSUME NEW s \in Sorters PROVE SorterInv(s)'
      BY <1>s, <1>0, <2>1, <2>3, Zenon DEF SorterInv, IsTerminal
    <2>10. \A d \in Entries : EntryInv(d)'
      BY <1>e, <1>0, <2>1, <2>2, <2>3, ClaimEntry
    <2>11. ASSUME NEW d \in Entries, status'[d] = "Unaddressed" PROVE OnItsWay(d)'
      <3>1. OnItsWay(d) /\ d # e
        BY <1>u, <2>3, <2>11, Zenon
      <3>2. CASE \E v \in Workers : worker[v].entry = d /\ worker[v].pc \in {"load", "claim"}
        BY <2>1, <2>4, <3>1, <3>2 DEF OnItsWay
      <3> QED BY <1>0, <2>2, <3>1, <3>2, Zenon DEF OnItsWay
    <2> QED BY <2>5, <2>6, <2>7, <2>8, <2>9, <2>10, <2>11, Zenon DEF DualInv
  <1>5. CASE WorkerApply(w)
    <2>1. PICK e \in Entries : /\ e = worker[w].entry /\ status[e] = "FinallyHandled"
                               /\ applied[e] = 0 /\ handled_by[e] = 0
      BY <1>w, <1>5 DEF WorkerApply, WorkerInv
    <2>2. /\ applied' = [applied EXCEPT ![e] = @ + 1] /\ Goto(w, "record")
          /\ worker[w].pc = "apply"
          /\ UNCHANGED <<status, handled_by, ring, channel, len>>
      BY <1>5, <2>1, Zenon DEF WorkerApply, pending
    <2>3. \A d \in Entries : applied'[d] = IF d = e THEN 1 ELSE applied[d]
      BY <1>t, <2>1, <2>2 DEF TypeOK
    <2>4. /\ worker' \in [Workers -> WorkerState] /\ \A v \in Workers \ {w} : worker'[v] = worker[v]
          /\ worker'[w].pc = "record" /\ worker'[w].entry = e
      BY <1>0, <2>1, <2>2, WorkerMoves, Zenon
    <2>5. TypeOK'
      <3>1. applied' \in [Entries -> Nat]
        BY <1>t, <2>2 DEF TypeOK
      <3> QED BY <1>t, <1>0, <2>2, <2>4, <3>1 DEF TypeOK
    <2>6. PrimaryInv'
      BY <1>p, <1>0, <2>1, <2>2, <2>3, Zenon DEF PrimaryInv
    <2>7. ASSUME NEW v \in Workers PROVE WorkerInv(v)'
      <3>1. CASE v # w
        <4>1. Claimed(v) => worker[v].entry # e
          BY <1>p, <2>1, <2>2, <3>1, Zenon DEF ClaimsDistinct, Claimed
        <4>2. WorkerInv(v) /\ worker'[v] = worker[v]
          BY <1>w, <2>4, <3>1
        <4> QED BY <1>w, <2>1, <2>2, <2>3, <4>1, <4>2 DEF WorkerInv, Claimed
      <3>2. CASE v = w
        BY <1>w, <2>1, <2>2, <2>3, <2>4, <3>2 DEF WorkerInv
      <3> QED BY <3>1, <3>2
    <2>8. ClaimsDistinct'
      <3>1. ASSUME NEW v \in Workers
            PROVE  (Claimed(v)' => Claimed(v)) /\ worker'[v].entry = worker[v].entry
        <4> QED BY <2>1, <2>2, <2>4 DEF Claimed
      <3> QED BY <1>p, <3>1 DEF ClaimsDistinct
    <2>9. ASSUME NEW s \in Sorters PROVE SorterInv(s)'
      BY <1>s, <1>0, <2>2, Zenon DEF SorterInv, IsTerminal
    <2>10. \A d \in Entries : EntryInv(d)'
      BY <1>e, <1>0, <2>1, <2>2, <2>3, ApplyEntry
    <2>11. ASSUME NEW d \in Entries, status'[d] = "Unaddressed" PROVE OnItsWay(d)'
      <3>1. OnItsWay(d)
        BY <1>u, <2>2, <2>11, Zenon
      <3> QED BY <1>0, <2>2, <2>4, <3>1, Zenon DEF OnItsWay
    <2> QED BY <2>5, <2>6, <2>7, <2>8, <2>9, <2>10, <2>11, Zenon DEF DualInv
  <1>6. CASE WorkerRecord(w)
    <2>1. PICK e \in Entries : /\ e = worker[w].entry /\ status[e] = "FinallyHandled"
                               /\ applied[e] = 1
      BY <1>w, <1>6, Zenon DEF WorkerRecord, WorkerInv
    <2>2. /\ handled_by' = [handled_by EXCEPT ![e] = 2] /\ Goto(w, "remove")
          /\ worker[w].pc = "record"
          /\ UNCHANGED <<status, applied, ring, channel, len>>
      BY <1>6, <2>1, Zenon DEF WorkerRecord, pending
    <2>3. \A d \in Entries : handled_by'[d] = IF d = e THEN 2 ELSE handled_by[d]
      BY <1>t, <2>2 DEF TypeOK
    <2>4. /\ worker' \in [Workers -> WorkerState] /\ \A v \in Workers \ {w} : worker'[v] = worker[v]
          /\ worker'[w].pc = "remove" /\ worker'[w].entry = e
      BY <1>0, <2>1, <2>2, WorkerMoves
    <2>5. TypeOK'
      <3>1. handled_by' \in [Entries -> {0, 1, 2}]
        BY <1>t, <2>2 DEF TypeOK
      <3> QED BY <1>t, <1>0, <2>2, <2>4, <3>1 DEF TypeOK
    <2>6. PrimaryInv'
      BY <1>p, <1>0, <2>1, <2>2, <2>3, Zenon DEF PrimaryInv
    <2>7. ASSUME NEW v \in Workers PROVE WorkerInv(v)'
      <3>1. CASE v # w
        <4>1. WorkerInv(v) /\ worker'[v] = worker[v]
          BY <1>w, <2>4, <3>1
        <4> QED BY <2>1, <2>2, <2>3, <4>1, Zenon DEF WorkerInv
      <3>2. CASE v = w
        BY <1>w, <2>1, <2>2, <2>4, <3>2, Zenon DEF WorkerInv
      <3> QED BY <3>1, <3>2
    <2>8. ClaimsDistinct'
      BY <1>p, <2>4 DEF ClaimsDistinct, Claimed
    <2>9. ASSUME NEW s \in Sorters PROVE SorterInv(s)'
      BY <1>s, <1>0, <2>2, Zenon DEF SorterInv, IsTerminal
    <2>10. \A d \in Entries : EntryInv(d)'
      <3>1. status[e] = IF 2 = 1 THEN "Addressed" ELSE "FinallyHandled"
        BY <2>1
      <3> QED BY <1>e, <1>0, <2>1, <2>2, <2>3, <3>1, RecordEntry
    <2>11. ASSUME NEW d \in Entries, status'[d] = "Unaddressed" PROVE OnItsWay(d)'
      <3>1. OnItsWay(d)
        BY <1>u, <2>2, <2>11
      <3> QED BY <1>0, <2>2, <2>4, <3>1, Zenon DEF OnItsWay
    <2> QED BY <2>5, <2>6, <2>7, <2>8, <2>9, <2>10, <2>11, Zenon DEF DualInv
  <1>7. CASE WorkerRemove(w)
    <2>1. /\ worker[w].pc = "remove" /\ ring' = ring \ {worker[w].entry}
          /\ Goto(w, "count") \/ Done(w)
          /\ UNCHANGED <<status, handled_by, applied, channel, len>>
      BY <1>7 DEF WorkerRemove, entries
    <2>2. status[worker[w].entry] = "FinallyHandled" /\ worker[w].entry \in Entries
      BY <1>w, <2>1 DEF WorkerInv
    <2>3. /\ worker' \in [Workers -> WorkerState] /\ \A v \in Workers \ {w} : worker'[v] = worker[v]
          /\ \/ worker'[w].pc = "count" /\ worker'[w].entry = worker[w].entry
             \/ worker'[w].pc = "idle"
      BY <1>0, <2>1, WorkerMoves, Zenon
    <2>4. TypeOK'
      BY <1>t, <1>0, <2>1, <2>3 DEF TypeOK
    <2>5. PrimaryInv' /\ \A s \in Sorters : SorterInv(s)'
      BY <1>p, <1>s, <1>0, <2>1, Zenon DEF PrimaryInv, SorterInv, IsTerminal
    <2>6. ASSUME NEW v \in Workers PROVE WorkerInv(v)'
      <3>1. CASE v # w
        BY <1>w, <2>1, <2>3, <3>1, Zenon DEF WorkerInv
      <3>2. CASE v = w
        BY <1>w, <2>2, <2>3, <3>2, Zenon DEF WorkerInv
      <3> QED BY <3>1, <3>2
    <2>7. ClaimsDistinct'
      BY <1>p, <2>3 DEF ClaimsDistinct, Claimed
    <2>8. \A d \in Entries : EntryInv(d)'
      BY <1>e, <1>0, <2>1, <2>2, Zenon DEF EntryInv, IsTerminal
    <2>9. ASSUME NEW d \in Entries, status'[d] = "Unaddressed" PROVE OnItsWay(d)'
      <3>1. OnItsWay(d)
        BY <1>u, <2>1, <2>9
      <3> QED BY <1>0, <2>1, <2>3, <3>1, Zenon DEF OnItsWay
    <2> QED BY <2>4, <2>5, <2>6, <2>7, <2>8, <2>9 DEF DualInv
  <1>8. CASE WorkerCount(w)
    <2>1. /\ worker[w].pc = "count" /\ len' = len - 1 /\ Done(w)
          /\ UNCHANGED <<status, handled_by, applied, ring, channel>>
      BY <1>8, Zenon DEF WorkerCount, entries
    <2>2. len' \in Int
      BY <1>t, <2>1 DEF TypeOK
    <2>3. /\ worker' \in [Workers -> WorkerState] /\ \A v \in Workers \ {w} : worker'[v] = worker[v]
          /\ worker'[w].pc = "idle"
      BY <1>0, <2>1, WorkerMoves, Zenon
    <2>4. WorkerInv(w)' /\ ~Claimed(w)'
      BY <1>w, <2>3, Zenon DEF WorkerInv, Claimed
    <2> QED BY <1>0, <2>1, <2>2, <2>3, <2>4, WorkerStill, Zenon
  <1> QED BY <1>1, <1>2, <1>3, <1>4, <1>5, <1>6, <1>7, <1>8, Zenon DEF WorkerStep

\* DualInv is inductive.
LEMMA NextDualInv ==
  ASSUME DualInv, [Next]_vars
  PROVE  DualInv'
  <1>1. CASE UNCHANGED vars
    <2>1. TypeOK'
      BY <1>1 DEF vars, entries, logs, pending, actors, DualInv, TypeOK
    <2> QED BY <1>1, <2>1, StillDualInv DEF vars, entries, logs, pending, actors
  <1> QED BY <1>1, WriterDualInv, PrimaryDualInv, SorterDualInv, WorkerDualInv DEF Next

\* No order is applied to a book twice, nor by an engine that does not hold its
\* claim, however many sorters and workers race with the primary for it: the
\* compare-and-swap of try_claim is the only way to a terminal status.
THEOREM AlwaysAppliedOnce == Spec => []AppliedOnce
  <1>1. DualInv => AppliedOnce
    BY DEF DualInv, EntryInv, AppliedOnce, ClaimMatchesEngine, IsTerminal, TypeOK
  <1> QED BY InitDualInv, NextDualInv, <1>1, PTL DEF Spec

\* No order is lost between the ring, the channel and the hands of a sorter or
\* a worker: scan_once and worker_loop leave no entry behind unclaimed.
THEOREM NeverForgotten == Spec => []NothingForgotten
  <1>1. DualInv => NothingForgotten
    BY DEF DualInv, EntryInv, NothingForgotten, OnItsWay
  <1> QED BY InitDualInv, NextDualInv, <1>1, PTL DEF Spec

\* What an engine applies both logs hold, because DualLog::write makes the entry
\* only after both appends.
THEOREM AlwaysAppliedIsLogged == Spec => []AppliedIsLogged
  <1>1. DualInv => AppliedIsLogged
    <2> SUFFICES ASSUME DualInv, NEW e \in Entries, applied[e] > 0
                 PROVE  e \in log_a \cap log_b
      BY DEF AppliedIsLogged
    <2>1. status[e] # "None"
      BY DEF DualInv, EntryInv, IsTerminal
    <2> QED BY <2>1 DEF DualInv, EntryInv
  <1> QED BY InitDualInv, NextDualInv, <1>1, PTL DEF Spec

=============================================================================
