-------------------------------- MODULE MCLife --------------------------------
(***************************************************************************)
(* The life of one account's session where nothing fails (AccountSession   *)
(* with the constants of the configuration, or logins and codes in two     *)
(* processes); or a second account whose operations must end whatever      *)
(* fault comes between.  One of the three is chosen at the start.          *)
(***************************************************************************)
EXTENDS AccountSession

CONSTANTS t1, t2, n1, n2

VARIABLES
  deployment, pc2, op2, view2, prev2, cur2, next2, then2, held2, db2, dirty2, rowOwner2,
  mirror2, lease2, localLock2, redisUp2, codeTask2, gens2, started2, faults2

OneProcess == [t \in Tasks |-> n1]
TwoProcesses == [t \in Tasks |-> IF t = t2 THEN n2 ELSE n1]

Two == INSTANCE AccountSession WITH
  NodeOf <- TwoProcesses, Nodes <- {n1, n2}, Ops <- {"login", "challenge"}, Excluded <- {"restart"}

Second == INSTANCE AccountSession WITH
  Tasks <- {t1, t2}, NodeOf <- [t \in {t1, t2} |-> n1],
  Ops <- {"login", "challenge", "keepalive", "clear"}, Excluded <- {},
  FaultKinds <- {"crash", "stall", "failover", "down"}, MaxOps <- 3, MaxFaults <- 1,
  pc <- pc2, op <- op2, view <- view2, prev <- prev2, cur <- cur2, next <- next2,
  then <- then2, held <- held2, db <- db2, dirty <- dirty2, rowOwner <- rowOwner2,
  mirror <- mirror2, lease <- lease2, localLock <- localLock2, redisUp <- redisUp2,
  codeTask <- codeTask2, gens <- gens2, started <- started2, faults <- faults2

secondVars ==
  <<pc2, op2, view2, prev2, cur2, next2, then2, held2, db2, dirty2, rowOwner2,
    mirror2, lease2, localLock2, redisUp2, codeTask2, gens2, started2, faults2>>

LifeInit ==
  /\ Init /\ Second!Init
  /\ deployment \in {"one process", "two processes", "faulty"}

LifeNext ==
  /\ UNCHANGED deployment
  /\ \/ deployment = "one process" /\ Next /\ UNCHANGED secondVars
     \/ deployment = "two processes" /\ Two!Next /\ UNCHANGED secondVars
     \/ deployment = "faulty" /\ Second!Next /\ UNCHANGED vars

LifeSpec ==
  /\ LifeInit /\ [][LifeNext]_<<deployment, vars, secondVars>>
  /\ \A t \in {t1, t2} : WF_<<secondVars>>(deployment = "faulty" /\ Second!Step(t))

(* AccountSession!OpsFinish *)
OpsFinishHere == Second!OpsFinish
=============================================================================
