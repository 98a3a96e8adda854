-------------------------- MODULE SorterCountProofs --------------------------
(***************************************************************************)
(* Proofs about how many there are: the counter of the pending ring in     *)
(* DualEngine, and the holders of the token in SorterLeader.               *)
(***************************************************************************)
EXTENDS DualEngineProofs, SorterLeader, FiniteSetTheorems

(***************************************************************************)
(* The counter of the pending ring.                                        *)
(***************************************************************************)

\* Those who have taken an entry out of the map and not yet counted it.
SorterCounting == {s \in Sorters : sorter[s].pc = "count"}
WorkerCounting == {w \in Workers : worker[w].pc = "count"}
Uncounted == IF writer THEN 1 ELSE 0

\* Adding and removing one element, for the three sets the counter is about.
LEMMA OneMore ==
  ASSUME NEW T, IsFiniteSet(T), NEW x
  PROVE  /\ x \notin T => Cardinality(T \cup {x}) = Cardinality(T) + 1
         /\ x \in T => Cardinality(T \ {x}) = Cardinality(T) - 1
         /\ Cardinality(T) \in Nat
  BY FS_AddElement, FS_RemoveElement, FS_CardinalityType

\* The sets that LenSettles counts are finite.
LEMMA Finite ==
  ASSUME TypeOK
  PROVE  IsFiniteSet(ring) /\ IsFiniteSet(SorterCounting) /\ IsFiniteSet(WorkerCounting)
  <1>1. IsFiniteSet(Entries)
    BY FS_Interval, PipelineAssumption DEF Entries
  <1> QED BY <1>1, FS_Subset, PipelineAssumption DEF TypeOK, SorterCounting, WorkerCounting

\* Every step moves len and the counted sets together.
LEMMA NextLenSettles ==
  ASSUME DualInv, LenSettles, [Next]_vars
  PROVE  LenSettles'
  <1>0. TypeOK
    BY DEF DualInv
  <1> DEFINE S == Cardinality(SorterCounting)
             W == Cardinality(WorkerCounting)
             R == Cardinality(ring)
  <1>1. /\ S \in Nat /\ W \in Nat /\ R \in Nat /\ len \in Int /\ Uncounted \in Nat
        /\ len + Uncounted - S - W = R
    <2>1. S \in Nat /\ W \in Nat /\ R \in Nat
      BY <1>0, Finite, FS_CardinalityType
    <2>2. len \in Int /\ Uncounted \in Nat
      BY <1>0 DEF TypeOK, Uncounted
    <2> QED BY <2>1, <2>2 DEF LenSettles, Uncounted, SorterCounting, WorkerCounting
  <1>2. ASSUME len' + Uncounted' - S' - W' = R' PROVE LenSettles'
    BY <1>2 DEF LenSettles, Uncounted, SorterCounting, WorkerCounting
  <1> HIDE DEF S, W, R
  <1>3. ASSUME len' = len, writer' = writer, ring' = ring, SorterCounting' = SorterCounting,
               WorkerCounting' = WorkerCounting
        PROVE  LenSettles'
    BY <1>1, <1>2, <1>3 DEF S, W, R, Uncounted
  <1>4. CASE Write
    <2>1. /\ ring' = ring \cup {written + 1} /\ ~writer /\ writer' /\ len' = len
          /\ sorter' = sorter /\ worker' = worker
      BY <1>4 DEF Write
    <2>2. written + 1 \notin ring
      <3> SUFFICES ASSUME written + 1 \in ring PROVE FALSE
        OBVIOUS
      <3>1. written + 1 \in Entries /\ written \in Nat
        BY <1>0 DEF TypeOK, Entries
      <3>2. EntryInv(written + 1)
        BY <3>1 DEF DualInv
      <3> QED BY <3>1, <3>2 DEF EntryInv
    <2>3. R' = R + 1 /\ S' = S /\ W' = W
      BY <1>0, <2>1, <2>2, Finite, OneMore DEF S, W, R, SorterCounting, WorkerCounting
    <2>4. Uncounted = 0 /\ Uncounted' = 1
      BY <2>1 DEF Uncounted
    <2> QED BY <1>1, <1>2, <2>1, <2>3, <2>4
  <1>5. CASE CountPush
    <2>1. writer /\ ~writer' /\ len' = len + 1 /\ UNCHANGED <<ring, sorter, worker>>
      BY <1>5 DEF CountPush
    <2>2. R' = R /\ S' = S /\ W' = W
      BY <2>1 DEF S, W, R, SorterCounting, WorkerCounting
    <2>3. Uncounted = 1 /\ Uncounted' = 0
      BY <2>1 DEF Uncounted
    <2> QED BY <1>1, <1>2, <2>1, <2>2, <2>3
  <1>6. CASE WriteFails \/ (\E e \in Entries : Age(e)) \/ PrimaryNext \/ PrimaryFinish \/ UNCHANGED vars
    <2>1. UNCHANGED <<len, writer, ring, sorter, worker>>
      BY <1>6 DEF WriteFails, Age, PrimaryNext, PrimaryFinish, PrimaryClaim, PrimaryApply,
                  PrimaryRecord, vars, pending, actors
    <2> QED BY <1>3, <2>1 DEF SorterCounting, WorkerCounting
  <1>7. ASSUME NEW s \in Sorters, SorterStep(s) PROVE LenSettles'
    <2>0. /\ SorterInv(s) /\ worker' = worker /\ writer' = writer /\ Uncounted' = Uncounted
          /\ W' = W /\ WorkerCounting' = WorkerCounting
      <3>1. worker' = worker /\ writer' = writer
        BY <1>7 DEF SorterStep, Scan, SorterLoad, SorterClaim, SorterSend, SorterRemove,
                    SorterCount
      <3> QED BY <3>1 DEF DualInv, W, WorkerCounting, Uncounted
    <2>1. CASE Scan(s) \/ SorterLoad(s) \/ SorterClaim(s) \/ SorterSend(s)
      <3>1. len' = len /\ ring' = ring /\ sorter[s].pc # "count"
        BY <2>1 DEF Scan, SorterLoad, SorterClaim, SorterSend, pending
      <3>2. sorter'[s].pc # "count" /\ \A q \in Sorters \ {s} : sorter'[q] = sorter[q]
        <4>1. CASE Scan(s)
          BY <1>0, <4>1 DEF Scan, TypeOK
        <4>2. CASE SorterLoad(s)
          <5>1. /\ sorter[s].pc = "load" /\ status' = status
                /\ \/ Advance(s) \/ Then(s, "claim") \/ (Then(s, "remove") /\ IsTerminal(sorter[s].entry))
            BY <4>2, Zenon DEF SorterLoad, entries
          <5> QED BY <1>0, <2>0, <5>1, AdvanceMoves, ThenMoves
        <4>3. CASE SorterClaim(s)
          <5>1. sorter[s].pc = "claim" /\ (Then(s, "send") \/ Advance(s))
            BY <4>3 DEF SorterClaim
          <5> QED BY <1>0, <2>0, <5>1, AdvanceMoves, ThenMoves
        <4>4. CASE SorterSend(s)
          BY <1>0, <4>4, AdvanceMoves DEF SorterSend
        <4> QED BY <2>1, <4>1, <4>2, <4>3, <4>4, Zenon
      <3>3. SorterCounting' = SorterCounting
        BY <3>1, <3>2 DEF SorterCounting
      <3> QED BY <1>3, <2>0, <3>1, <3>3
    <2>2. CASE SorterRemove(s) /\ sorter[s].entry \in ring
      <3>1. sorter[s].pc = "remove" /\ len' = len /\ ring' = ring \ {sorter[s].entry} /\ Then(s, "count")
        BY <2>2 DEF SorterRemove
      <3>2. sorter'[s].pc = "count" /\ \A q \in Sorters \ {s} : sorter'[q] = sorter[q]
        BY <1>0, <2>0, <3>1, ThenMoves
      <3>3. SorterCounting' = SorterCounting \cup {s} /\ s \notin SorterCounting
        BY <3>1, <3>2 DEF SorterCounting
      <3>4. S' = S + 1 /\ R' = R - 1
        BY <1>0, <2>2, <3>1, <3>3, Finite, OneMore DEF S, R
      <3>5. len' + Uncounted' - S' - W' = R'
        BY <1>1, <2>0, <3>1, <3>4
      <3> QED BY <1>2, <3>5
    <2>3. CASE SorterRemove(s) /\ sorter[s].entry \notin ring
      <3>1. sorter[s].pc = "remove" /\ len' = len /\ ring' = ring /\ Advance(s)
        BY <2>3 DEF SorterRemove
      <3>2. sorter'[s].pc # "count" /\ \A q \in Sorters \ {s} : sorter'[q] = sorter[q]
        BY <1>0, <3>1, AdvanceMoves
      <3>3. SorterCounting' = SorterCounting
        BY <3>1, <3>2 DEF SorterCounting
      <3> QED BY <1>3, <2>0, <3>1, <3>3
    <2>4. CASE SorterCount(s)
      <3>1. sorter[s].pc = "count" /\ len' = len - 1 /\ ring' = ring /\ Advance(s)
        BY <2>4 DEF SorterCount
      <3>2. sorter'[s].pc # "count" /\ \A q \in Sorters \ {s} : sorter'[q] = sorter[q]
        BY <1>0, <3>1, AdvanceMoves
      <3>3. SorterCounting' = SorterCounting \ {s} /\ s \in SorterCounting
        BY <3>1, <3>2 DEF SorterCounting
      <3>4. S' = S - 1 /\ R' = R
        BY <1>0, <3>1, <3>3, Finite, OneMore DEF S, R
      <3>5. len' + Uncounted' - S' - W' = R'
        BY <1>1, <2>0, <3>1, <3>4
      <3> QED BY <1>2, <3>5
    <2> QED BY <1>7, <2>1, <2>2, <2>3, <2>4 DEF SorterStep
  <1>8. ASSUME NEW w \in Workers, WorkerStep(w) PROVE LenSettles'
    <2>0. /\ WorkerInv(w) /\ sorter' = sorter /\ writer' = writer /\ Uncounted' = Uncounted
          /\ S' = S /\ SorterCounting' = SorterCounting
      <3>1. sorter' = sorter /\ writer' = writer
        BY <1>8 DEF WorkerStep, Receive, WorkerLoad, WorkerClaim, WorkerApply, WorkerRecord,
                    WorkerRemove, WorkerCount
      <3> QED BY <3>1 DEF DualInv, S, SorterCounting, Uncounted
    <2>1. CASE Receive(w) \/ WorkerLoad(w) \/ WorkerClaim(w) \/ WorkerApply(w) \/ WorkerRecord(w)
      <3>1. len' = len /\ ring' = ring /\ worker[w].pc # "count"
        <4>1. CASE Receive(w)
          BY <4>1 DEF Receive, Idle, pending
        <4>2. CASE WorkerLoad(w)
          BY <4>2 DEF WorkerLoad, pending
        <4>3. CASE WorkerClaim(w)
          BY <4>3 DEF WorkerClaim, pending
        <4>4. CASE WorkerApply(w)
          BY <4>4 DEF WorkerApply, pending
        <4>5. CASE WorkerRecord(w)
          BY <4>5 DEF WorkerRecord, pending
        <4> QED BY <2>1, <4>1, <4>2, <4>3, <4>4, <4>5
      <3>2. worker'[w].pc # "count" /\ \A v \in Workers \ {w} : worker'[v] = worker[v]
        <4>1. CASE Receive(w)
          BY <1>0, <4>1 DEF Receive, TypeOK
        <4>2. CASE ~Receive(w)
          <5>1. \E label \in {"claim", "apply", "record", "remove"} : Goto(w, label) \/ Done(w)
            BY <2>1, <4>2 DEF WorkerLoad, WorkerClaim, WorkerApply, WorkerRecord
          <5> QED BY <1>0, <5>1, WorkerMoves
        <4> QED BY <4>1, <4>2
      <3>3. WorkerCounting' = WorkerCounting
        BY <3>1, <3>2 DEF WorkerCounting
      <3> QED BY <1>3, <2>0, <3>1, <3>3
    <2>2. CASE WorkerRemove(w) /\ worker[w].entry \in ring
      <3>1. /\ worker[w].pc = "remove" /\ len' = len /\ ring' = ring \ {worker[w].entry}
            /\ Goto(w, "count")
        BY <2>2 DEF WorkerRemove
      <3>2. worker'[w].pc = "count" /\ \A v \in Workers \ {w} : worker'[v] = worker[v]
        BY <1>0, <3>1, WorkerMoves
      <3>3. WorkerCounting' = WorkerCounting \cup {w} /\ w \notin WorkerCounting
        BY <3>1, <3>2 DEF WorkerCounting
      <3>4. W' = W + 1 /\ R' = R - 1
        BY <1>0, <2>2, <3>1, <3>3, Finite, OneMore DEF W, R
      <3>5. len' + Uncounted' - S' - W' = R'
        BY <1>1, <2>0, <3>1, <3>4
      <3> QED BY <1>2, <3>5
    <2>3. CASE WorkerRemove(w) /\ worker[w].entry \notin ring
      <3>1. worker[w].pc = "remove" /\ len' = len /\ ring' = ring /\ Done(w)
        BY <2>3 DEF WorkerRemove
      <3>2. worker'[w].pc # "count" /\ \A v \in Workers \ {w} : worker'[v] = worker[v]
        BY <1>0, <3>1, WorkerMoves
      <3>3. WorkerCounting' = WorkerCounting
        BY <3>1, <3>2 DEF WorkerCounting
      <3> QED BY <1>3, <2>0, <3>1, <3>3
    <2>4. CASE WorkerCount(w)
      <3>1. worker[w].pc = "count" /\ len' = len - 1 /\ ring' = ring /\ Done(w)
        BY <2>4 DEF WorkerCount
      <3>2. worker'[w].pc # "count" /\ \A v \in Workers \ {w} : worker'[v] = worker[v]
        BY <1>0, <3>1, WorkerMoves
      <3>3. WorkerCounting' = WorkerCounting \ {w} /\ w \in WorkerCounting
        BY <3>1, <3>2 DEF WorkerCounting
      <3>4. W' = W - 1 /\ R' = R
        BY <1>0, <3>1, <3>3, Finite, OneMore DEF W, R
      <3>5. len' + Uncounted' - S' - W' = R'
        BY <1>1, <2>0, <3>1, <3>4
      <3> QED BY <1>2, <3>5
    <2> QED BY <1>8, <2>1, <2>2, <2>3, <2>4 DEF WorkerStep
  <1> QED BY <1>4, <1>5, <1>6, <1>7, <1>8 DEF Next

\* The length of the pending ring settles at the number of its entries, however
\* many sorters and workers remove the same entry: only who takes it out of the
\* map counts it.
THEOREM LenAlwaysSettles == Spec => []LenSettles
  <1>1. Init => LenSettles
    <2> SUFFICES ASSUME Init PROVE LenSettles
      OBVIOUS
    <2>1. /\ {s \in Sorters : sorter[s].pc = "count"} = {} /\ ring = {} /\ len = 0 /\ ~writer
          /\ {w \in Workers : worker[w].pc = "count"} = {}
      BY DEF Init, Idle, Resting
    <2> QED BY <2>1, FS_EmptySet DEF LenSettles
  <1> QED BY InitDualInv, NextDualInv, NextLenSettles, <1>1, PTL DEF Spec

(***************************************************************************)
(* The election between sorters.                                           *)
(***************************************************************************)

\* Nobody holds a token that is clear, one instance and no other one that is set.
OneHolder ==
  /\ token => \E i \in Instances : {j \in Instances : Holds(j)} = {i}
  /\ ~token => {j \in Instances : Holds(j)} = {}

LeaderInv ==
  /\ token \in BOOLEAN /\ is_leader \in [Instances -> BOOLEAN]
  /\ l_pc \in [Instances -> {"idle", "won", "resigning", "gone"}]
  /\ OneHolder
  /\ \A i \in Instances : /\ l_pc[i] = "won" => ~is_leader[i]
                          /\ l_pc[i] = "resigning" => is_leader[i]
                          /\ l_pc[i] = "gone" => ~is_leader[i]

\* The token of the sorters is set just when exactly one of them, of any number,
\* holds it, through every interleaving of try_become_leader, resign and drop.
THEOREM TokenAlwaysHasOneHolder == LeaderSpec => []TokenHasOneHolder
  <1>1. LeaderInit => LeaderInv
    BY Zenon DEF LeaderInit, LeaderInv, OneHolder, Holds
  <1>2. LeaderInv /\ [LeaderNext]_leader_vars => LeaderInv'
    <2> SUFFICES ASSUME LeaderInv, [LeaderNext]_leader_vars PROVE LeaderInv'
      OBVIOUS
    <2> USE DEF LeaderInv, OneHolder, Holds
    <2>1. CASE UNCHANGED leader_vars
      BY <2>1 DEF leader_vars
    <2>2. ASSUME NEW i \in Instances, TryBecomeLeader(i) PROVE LeaderInv'
      BY <2>2 DEF TryBecomeLeader, At
    <2>3. ASSUME NEW i \in Instances, Won(i) PROVE LeaderInv'
      BY <2>3 DEF Won, At
    <2>4. ASSUME NEW i \in Instances, Resigned(i) PROVE LeaderInv'
      BY <2>4 DEF Resigned, At
    <2>5. ASSUME NEW i \in Instances, Drop(i) PROVE LeaderInv'
      BY <2>5 DEF Drop, MustResign, At
    <2>6. ASSUME NEW i \in Instances, NEW drop \in BOOLEAN, Resign(i, drop) PROVE LeaderInv'
      <3>1. /\ is_leader[i] /\ l_pc[i] = "idle" /\ l_pc' = [l_pc EXCEPT ![i] = "resigning"]
            /\ token' = FALSE /\ is_leader' = is_leader
        BY <2>6 DEF Resign, MustResign, At
      <3>2. Holds(i)
        BY <3>1
      <3>3. {j \in Instances : Holds(j)} = {i}
        BY <3>2
      <3>4. ASSUME NEW j \in Instances PROVE ~Holds(j)'
        BY <3>1, <3>3
      <3>5. l_pc' \in [Instances -> {"idle", "won", "resigning", "gone"}] /\ token' \in BOOLEAN
        BY <3>1, Zenon
      <3> QED BY <3>1, <3>4, <3>5
    <2> QED BY <2>1, <2>2, <2>3, <2>4, <2>5, <2>6, Zenon DEF LeaderNext
  <1>3. LeaderInv => TokenHasOneHolder
    BY FS_Singleton, FS_EmptySet DEF LeaderInv, OneHolder, TokenHasOneHolder
  <1> QED BY <1>1, <1>2, <1>3, PTL DEF LeaderSpec

==============================================================================
