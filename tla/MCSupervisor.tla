----------------------------- MODULE MCSupervisor -----------------------------
(***************************************************************************)
(* Supervisor for TLC: its properties, the invariants of its proofs and    *)
(* the reply channel it implements.  The sets of requests and the bounds   *)
(* are given by the configurations.                                        *)
(***************************************************************************)
EXTENDS SupervisorInvariants

\* CoverInv under the assumptions of its theorem, which the runs satisfy.
ASSUME CoverHolds == CoverAssumption

\* Bound: a third fault comes only while a pump waits to replace its child, no
\* spawn has raised, and initialize is the only request sent, then and later.
ThirdFaultEarly ==
  faults' = 3 => /\ sent' \subseteq {InitReq} /\ spawnFails' = 0
                 /\ faults = 2 => \E g \in Gens : pump[g] = "delay"
===============================================================================
