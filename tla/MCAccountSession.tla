------------------------- MODULE MCAccountSession -------------------------
(***************************************************************************)
(* Instances of AccountSession for TLC: tasks t1, t2 and t3 in one worker   *)
(* process or in two.                                                      *)
(***************************************************************************)
EXTENDS AccountSession

CONSTANTS t1, t2, t3, n1, n2

OneProcess == [t \in Tasks |-> n1]
TwoProcesses == [t \in Tasks |-> IF t = t2 THEN n2 ELSE n1]
=============================================================================
