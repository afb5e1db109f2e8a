----------------------------- MODULE MCOrderOcr -----------------------------
(***************************************************************************)
(* Instances of OrderOcr for TLC: one order, one field, requests that all  *)
(* reach the first worker.                                                 *)
(***************************************************************************)
EXTENDS OrderOcr

CONSTANTS p1, p2, q1, q2, o1, f1

AllByFirst == [q \in Requests |-> p1]

OneWorker == [procs |-> {p1}, requests |-> {q1, q2}]
TwoWorkers == [procs |-> {p1, p2}, requests |-> {q1}]

JustOne == {OneWorker}
Either == {OneWorker, TwoWorkers}
=============================================================================
