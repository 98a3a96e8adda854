---------------------------- MODULE SorterLeader ----------------------------
(***************************************************************************)
(* Election between redundant sorters: a shared atomic token, and in each  *)
(* SorterLeader its own belief to be the leader.                           *)
(*   crates/sorter/src/leader.rs                                           *)
(* The token and the belief are written one after the other, and the       *)
(* instances interleave in between.                                        *)
(***************************************************************************)
EXTENDS Integers, FiniteSets

CONSTANT Instances

VARIABLES
  token,       \* TRUE: someone is leader
  is_leader,   \* instance -> it believes to lead
  l_pc,        \* instance -> "idle", "won" (between the two writes), "resigning",
               \*   "gone" (dropped)
  retiring     \* instance -> resign was called by drop

leader_vars == <<token, is_leader, l_pc, retiring>>

LeaderInit ==
  /\ token = FALSE
  /\ is_leader = [i \in Instances |-> FALSE]
  /\ l_pc = [i \in Instances |-> "idle"]
  /\ retiring = [i \in Instances |-> FALSE]

At(i, from, to) == l_pc[i] = from /\ l_pc' = [l_pc EXCEPT ![i] = to]

\* try_become_leader: the compare-and-swap succeeds ...
TryBecomeLeader(i) ==
  /\ ~is_leader[i]
  /\ At(i, "idle", "won")
  /\ ~token
  /\ token' = TRUE
  /\ UNCHANGED <<is_leader, retiring>>

\* ... and the belief.
Won(i) ==
  /\ At(i, "won", "idle")
  /\ is_leader' = [is_leader EXCEPT ![i] = TRUE]
  /\ UNCHANGED <<token, retiring>>

\* Faulty variant: drop clears the token whoever holds it.
MustResignAlways(i) == TRUE

\* The guard of resign.
MustResign(i) == is_leader[i]

\* resign, called by its owner or by drop: the store to the token ...
Resign(i, drop) ==
  /\ MustResign(i)
  /\ At(i, "idle", "resigning")
  /\ token' = FALSE
  /\ retiring' = [retiring EXCEPT ![i] = drop]
  /\ UNCHANGED is_leader

\* ... and the belief.
Resigned(i) ==
  /\ At(i, "resigning", IF retiring[i] THEN "gone" ELSE "idle")
  /\ is_leader' = [is_leader EXCEPT ![i] = FALSE]
  /\ UNCHANGED <<token, retiring>>

\* drop of an instance that does not lead.
Drop(i) ==
  /\ ~MustResign(i)
  /\ At(i, "idle", "gone")
  /\ UNCHANGED <<token, is_leader, retiring>>

LeaderNext ==
  \E i \in Instances : \/ TryBecomeLeader(i) \/ Won(i) \/ Resigned(i) \/ Drop(i)
                       \/ \E drop \in BOOLEAN : Resign(i, drop)

LeaderSpec == LeaderInit /\ [][LeaderNext]_leader_vars

(***************************************************************************)
(* Properties.                                                             *)
(***************************************************************************)
Holds(i) == l_pc[i] = "won" \/ (is_leader[i] /\ l_pc[i] # "resigning")

\* "Exactly one Sorter can hold leadership at a time": the token is set just
\* when one instance holds it, through every interleaving of elections,
\* resignations and drops; a leader that has cleared the token no longer
\* counts, although it still says is_leader until its second write.
TokenHasOneHolder == Cardinality({i \in Instances : Holds(i)}) = IF token THEN 1 ELSE 0
=============================================================================
