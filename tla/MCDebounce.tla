----------------------------- MODULE MCDebounce -----------------------------
(* An instance of Debounce for TLC: a pipeline that is edited for ever,    *)
(* into a broken spec and back, channels of one event, and two workloads,  *)
(* one of which may appear at any time.                                    *)
EXTENDS Debounce

CONSTANTS k1, k2

MCWorkload == {k1, k2}

(* k2 is there from the start.                                             *)
MCInit == Init /\ k2 \in exists

(* FairSpec with as little fairness as the property below needs: nobody    *)
(* competes with the only pipeline for a slot, and k2 may be starved.      *)
MCFairSpec ==
    /\ MCInit /\ [][Next]_vars
    /\ \A p \in Pipeline : WF_vars(Send(p))
    /\ WF_vars(Receive) /\ WF_vars(TickerFires \/ Flush) /\ WF_vars(Enqueue)
    /\ SF_vars(StartRound(k1))
    /\ WF_vars(FinishRound)

(* Under a stream of edits that never ends an event for a workload leads   *)
(* to a round of it; the workloads are interchangeable, so one of them is  *)
(* enough (main.go, reconcileWithDelay).                                   *)
WorkloadIsServed == EventReachesRound(k1)
=============================================================================
