----------------------------- MODULE MCSessions -----------------------------
(***************************************************************************)
(* One account in two worker processes with a fault (AccountSession), the  *)
(* users of the backend (Users), the sessions of one of them               *)
(* (UserSessions), the start of the workers (Startup) or the forms they    *)
(* show (FieldConfig).  One of these is chosen at the start.               *)
(***************************************************************************)
EXTENDS AccountSession

CONSTANTS t1, t2, n1, n2, east, west, o1, g1, NoOne, Gone

VARIABLES
  deployment,
  users, orders, groups, requests, writes, crossed,
  rows, userPc, userView, call, now, begun, opened,
  past, cache, reading, saving, answered, given, mixed, clock,
  setup, schema, boot, found, online, keys, skipped, batches, data, fact, overwritten, starts, lapses

TwoProcesses == [t \in Tasks |-> IF t = t2 THEN n2 ELSE n1]

People == INSTANCE Users WITH
  Requests <- {t1, t2}, Roles <- {"manager", "sales", "finance"}, MaxUsers <- 3, Teams <- {east, west},
  Orders <- {o1}, Groups <- {g1}, None <- NoOne, MaxWrites <- 4

Logged == INSTANCE UserSessions WITH
  Logins <- 1 .. 3, Calls <- {t1}, MaxActive <- 2, Timeout <- 1, Heartbeat <- 0,
  Never <- NoOne, LastTime <- 3, pc <- userPc, view <- userView

\* An edit of either field, for a role or for all of them.
FieldEdits == {
  [field |-> "vin",
   row |-> [label |-> "own", extra |-> "in list", visible |-> TRUE, view |-> {"manager"}, edit |-> NoOne]],
  [field |-> "id_name",
   row |-> [label |-> "own", extra |-> "none", visible |-> FALSE, view |-> NoOne, edit |-> {"manager"}]]}

\* Forms are read in one worker: caches are apart, so the other matters for its edits.
OneReads == [w \in Nodes |-> IF w = n1 THEN 1 ELSE 0]
NoneReads == [w \in Nodes |-> 0]

Forms == INSTANCE FieldConfig WITH
  Workers <- Nodes, Roles <- {"manager", "sales"}, Edits <- FieldEdits, None <- NoOne,
  TTL <- 1, LastTime <- 1, MaxCommits <- 3, MaxReads <- OneReads

\* All is switched on, over an empty database; the default, with a column missing; strict mode;
\* and nothing but indexes.
AllOn == [adds |-> {"table", "column", "index"}, had |-> {}, refuses |-> FALSE, sows |-> TRUE, fills |-> TRUE]
ByDefault == [AllOn EXCEPT !.adds = {}, !.had = {"table", "index"}]
SomeSetups == {
  AllOn, ByDefault, [AllOn EXCEPT !.refuses = TRUE],
  [ByDefault EXCEPT !.adds = {"index"}, !.had = {"table"}, !.sows = FALSE, !.fills = FALSE]}

Backend == INSTANCE Startup WITH
  Workers <- Nodes, Roles <- {"manager", "sales"}, Edits <- FieldEdits, None <- NoOne,
  TTL <- 1, LastTime <- 0, MaxCommits <- 3, MaxReads <- NoneReads,
  Setups <- SomeSetups, Orders <- 1 .. 2, BatchSize <- 1, MaxBatches <- 1,
  NoKey <- o1, Ghost <- g1, MaxStarts <- 3, MaxLapses <- 1, MaxChanges <- 1

userVars == <<users, orders, groups, requests, writes, crossed>>
sessionVars == <<rows, userPc, userView, call, now, begun, opened>>

configVars == <<past, cache, reading, saving, answered, given, mixed, clock>>
bootVars == <<setup, schema, boot, found, online, keys, skipped, batches, data, fact, overwritten, starts, lapses>>

DeployInit ==
  /\ Init /\ People!Init /\ Logged!Init /\ Backend!StartInit
  /\ deployment \in {"faulty", "users", "user sessions", "forms", "starts"}
  /\ deployment # "starts" => setup = ByDefault

DeployNext ==
  /\ UNCHANGED deployment
  /\ \/ deployment = "faulty" /\ Next /\ UNCHANGED <<userVars, sessionVars, configVars, bootVars>>
     \/ deployment = "users" /\ People!Next /\ UNCHANGED <<vars, sessionVars, configVars, bootVars>>
     \/ deployment = "user sessions" /\ Logged!Next /\ UNCHANGED <<vars, userVars, configVars, bootVars>>
     \/ deployment = "forms" /\ Forms!ConfigNext /\ UNCHANGED <<vars, userVars, sessionVars, bootVars>>
     \/ deployment = "starts" /\ Backend!StartNext /\ UNCHANGED <<vars, userVars, sessionVars>>

DeploySpec ==
  DeployInit /\ [][DeployNext]_<<deployment, vars, userVars, sessionVars, configVars, bootVars>>

(* The type invariants of AccountSession, Users, UserSessions, FieldConfig and Startup *)
PartsTypeOK ==
  /\ TypeOK /\ People!TypeOK /\ Logged!TypeOK
  /\ Forms!ConfigTypeOK /\ Backend!StartTypeOK

(* Users!TeamsConsistent *)
TeamsConsistent == People!TeamsConsistent

(* Users!ListsMatch *)
ListsMatch == People!ListsMatch

(* UserSessions!SessionsKept *)
SessionsKept == Logged!SessionsKept

(* Startup!StartsSound *)
StartsSound == Backend!StartsSound
=============================================================================
