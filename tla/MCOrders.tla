------------------------------- MODULE MCOrders -------------------------------
(***************************************************************************)
(* Three parts of an order for TLC, one of them chosen at the start: its   *)
(* recognition (OrderOcr), its papers (OrderImages) and its money          *)
(* (OrderMoney).  The parts that are not chosen stand still.               *)
(***************************************************************************)
EXTENDS MCOrderOcr

CONSTANTS i1, i2, m1

VARIABLES
  part,
  shown, files, binds, bindPc, asked, bindSaw, held, gone,
  order, info, deskPc, deskSaw, writes, reopened, mixed

Slots == [i \in {i1, i2, m1} |-> IF i = m1 THEN "related" ELSE "idcard_front"]

Shelf == INSTANCE OrderImages WITH
  Uploads <- {q1, q2}, Papers <- {i1, i2, m1}, slotOf <- Slots, MultiSlots <- {"related"},
  MaxBinds <- 3, pc <- bindPc, saw <- bindSaw

Money == INSTANCE OrderMoney WITH
  Desks <- {q1, q2}, Amounts <- {0, 1}, MaxWrites <- 5,
  pc <- deskPc, saw <- deskSaw, excused <- reopened

boundVars == <<shown, files, binds, bindPc, asked, bindSaw, held, gone>>
moneyVars == <<order, info, deskPc, deskSaw, writes, reopened, mixed>>

PartsInit ==
  /\ Init
  /\ Shelf!Init
  /\ Money!Init
  /\ part \in {"recognition", "papers", "money"}
  /\ part # "recognition" => layout = TwoWorkers

PartsNext ==
  /\ UNCHANGED part
  /\ \/ part = "recognition" /\ Next /\ UNCHANGED <<boundVars, moneyVars>>
     \/ part = "papers" /\ Shelf!Next /\ UNCHANGED <<vars, moneyVars>>
     \/ part = "money" /\ Money!Next /\ UNCHANGED <<vars, boundVars>>

Fairly(A) == part = "recognition" /\ A

\* OrderOcr!Fairness, while its part is chosen.
PartsSpec ==
  /\ PartsInit /\ [][PartsNext]_<<part, vars, boundVars, moneyVars>>
  /\ \A w \in Runs : WF_vars(Fairly(RunStep(w)))
  /\ \A p \in Procs : WF_vars(Fairly(PollStep(p)))
  /\ WF_vars(Fairly(OrphanExpires))

(* OrderOcr!TypeOK, OrderImages!TypeOK and OrderMoney!TypeOK *)
PartsTypeOK == TypeOK /\ Shelf!TypeOK /\ Money!TypeOK

(* OrderImages!BindShows *)
BindShows == Shelf!BindShows

(* OrderMoney!MoneyFitsTogether *)
MoneyFitsTogether == Money!MoneyFitsTogether
===============================================================================
