---------------------------- MODULE MCQuoteTask ----------------------------
(***************************************************************************)
(* Instances of QuoteTask for TLC.                                         *)
(***************************************************************************)
EXTENDS QuoteTask

CONSTANTS r1, r2, r3, n1, n2, a1, a2

OneProcess == [r \in Requests |-> n1]
TwoProcesses == [r \in Requests |-> IF r = r2 THEN n2 ELSE n1]
=============================================================================
