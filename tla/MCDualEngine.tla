---------------------------- MODULE MCDualEngine ----------------------------
(***************************************************************************)
(* DualEngine with two workers, in two parts: two sorters that race for    *)
(* one order, and one sorter that escalates two orders.  A behaviour runs  *)
(* one of them.                                                            *)
(***************************************************************************)
EXTENDS DualEngine

CONSTANTS s1, s2, w1, w2, Parts

VARIABLE part

dual_vars == <<part, vars>>

TwoSorters == {s1, s2}
TwoWorkers == {w1, w2}

\* A step of the part that runs.
Within(A) ==
  /\ A /\ UNCHANGED part
  /\ part = "race"     => written' <= 1
  /\ part = "escalate" => sorter'[s2] = Resting

DualInit == part \in Parts /\ Init
DualSpec == DualInit /\ [][Within(Next)]_dual_vars

\* FairSpec of DualEngine, for the sorters that run.
DualFairSpec ==
  /\ DualSpec
  /\ WF_dual_vars(Within(CountPush)) /\ WF_dual_vars(Within(PrimaryFinish))
  /\ \A e \in Entries : WF_dual_vars(Within(Age(e)))
  /\ \A s \in Sorters : WF_dual_vars(Within(SorterStep(s)))
  /\ \A w \in Workers : WF_dual_vars(Within(WorkerStep(w)))
=============================================================================
