------------------------------ MODULE MCAccounts ------------------------------
(***************************************************************************)
(* Four parts for TLC, one of them chosen at the start: the quota of a      *)
(* platform account (AccountQuota), its login tasks (LoginTask), the quote *)
(* tasks that wait for a code or a word (WaitingTask) and its session at   *)
(* the platform (PiccLogin).  The parts that are not chosen stand still.   *)
(***************************************************************************)
EXTENDS AccountQuota

CONSTANTS r1, r2, r3, k1

VARIABLES
  part, session, account, tasks, late, actor, rowLock, taskPc, job, taskSeen, taskMem, loaded, outrun,
  cases, attempts, calls, config, messages, tooLate,
  kept, webs, issued, op, code, webPc, client, before, ops, restarted, received, dropped, lapses, trouble

Logins == INSTANCE LoginTask WITH
  Requests <- {r1, r2}, Passes <- {k1}, pc <- taskPc, seen <- taskSeen, mem <- taskMem

Waiting == INSTANCE WaitingTask WITH
  MaxTasks <- 3, MaxCases <- 2, MaxMessages <- 3, tasks <- attempts, late <- tooLate

Platform == INSTANCE PiccLogin WITH
  None <- NoOne, MaxOps <- 3, MaxWebs <- 5, MaxTokens <- 4, pc <- webPc, seen <- received

quotaVars == vars
loginVars == <<session, account, tasks, late, actor, rowLock, taskPc, job, taskSeen, taskMem, loaded, outrun>>
waitingVars == <<cases, attempts, calls, config, messages, tooLate>>
platformVars ==
  <<kept, webs, issued, op, code, webPc, client, before, ops, restarted, received, dropped, lapses, trouble>>

Overlapping == [concurrent |-> TRUE, limit |-> 2, lastDay |-> 0]
Successive == [concurrent |-> FALSE, limit |-> 1, lastDay |-> 2]
PastMidnight == [concurrent |-> TRUE, limit |-> 2, lastDay |-> 1]

TwoLayouts == {Overlapping, Successive}
JustPastMidnight == {PastMidnight}

\* The login tasks start in the second state, so that they do not multiply the first.
PartsInit ==
  /\ Init
  /\ Logins!Init
  /\ Waiting!Init
  /\ Platform!Init
  /\ part \in {"quota", "logins", "waiting", "platform"}
  /\ part # "quota" => layout = Overlapping /\ period = "none" /\ db.used = 0
  /\ part # "logins" => session = "none"
  /\ part # "waiting" => cases[1].st = "waiting_sms" /\ attempts[1].mat = 1
  /\ part # "platform" => kept.st = "none"

PartsNext ==
  /\ UNCHANGED part
  /\ \/ part = "quota" /\ Next /\ UNCHANGED <<loginVars, waitingVars, platformVars>>
     \/ part = "logins" /\ Logins!Next /\ UNCHANGED <<quotaVars, waitingVars, platformVars>>
     \/ part = "waiting" /\ Waiting!Next /\ UNCHANGED <<quotaVars, loginVars, platformVars>>
     \/ part = "platform" /\ Platform!Next /\ UNCHANGED <<quotaVars, loginVars, waitingVars>>

Fairly(A) == part = "logins" /\ A

PartsSpec ==
  /\ PartsInit /\ [][PartsNext]_<<part, quotaVars, loginVars, waitingVars, platformVars>>
  /\ \A q \in {r1, r2} : SF_<<loginVars>>(Fairly(Logins!RequestStep(q)))
  /\ \A q \in {r1, r2} : WF_<<loginVars>>(Fairly(Logins!GiveUp(q)))
  /\ WF_<<loginVars>>(Fairly(Logins!PassStep(k1)))
  /\ WF_<<loginVars>>(Fairly(Logins!PassFails(k1)))

(* AccountQuota!TypeOK, LoginTask!TypeOK, WaitingTask!TypeOK and PiccLogin!TypeOK *)
PartsTypeOK ==
  /\ part = "quota" => TypeOK
  /\ part = "logins" => Logins!TypeOK
  /\ part = "waiting" => Waiting!TypeOK
  /\ part = "platform" => Platform!TypeOK

(* LoginTask!TasksSound *)
TasksSound == Logins!TasksSound

(* PiccLogin!SessionSound *)
SessionSound == Platform!SessionSound

(* WaitingTask!WaitingEndsWell *)
WaitingEndsWell == Waiting!WaitingEndsWell

(* LoginTask!LoggedInIsShown *)
LoggedInIsShown == Logins!LoggedInIsShown
=============================================================================
