----------------------------- MODULE QuoteTask -----------------------------
(***************************************************************************)
(* The quote attempts of one conversation: handle_quote_message,           *)
(* _complete_quote_without_sms and the retries behind it                   *)
(* (services/quote_assistant_service.py), run by chat requests of several  *)
(* gunicorn workers (ai_chat in api/v1/ai_assistant.py).                   *)
(*                                                                         *)
(* A request holds a lock of its process, the chat lock or, when it means  *)
(* to supersede a running quote, the interrupt lock.  It cancels the       *)
(* running tasks of the case, inserts one of its own, reserves one use of  *)
(* the account's quota, asks the platform (the chat lock put aside         *)
(* meanwhile) and looks again at task and material before it records a     *)
(* result.  What it sees then depends on the isolation level of MySQL.     *)
(***************************************************************************)
EXTENDS Naturals, FiniteSets

CONSTANTS
  Requests,    \* chat requests of the conversation
  Nodes,       \* worker processes
  NodeOf,      \* the process that serves each request
  Kinds,       \* the messages users send in this instance
  Accounts,    \* logged-in platform accounts
  QuotaLimit,  \* quotes an account may make in its period
  Isolation,   \* of the MySQL server: the code leaves its default alone
  MaySlow,     \* a quote may run past QUOTE_RUNNING_TASK_STALE_SECONDS
  MaxTasks,    \* bound on task rows
  MaxCrashes,  \* bound on worker crashes
  NoOne        \* nobody, as the owner of a lock, and no account

TaskIds == 1..MaxTasks
AllKinds == {"quote", "adjust", "requote", "status"}

ASSUME QuoteAssumption ==
  /\ NodeOf \in [Requests -> Nodes]
  /\ Kinds \subseteq AllKinds
  /\ Isolation \in {"repeatable read", "read committed"}
  /\ MaySlow \in BOOLEAN
  /\ QuotaLimit \in Nat /\ MaxTasks \in Nat /\ MaxCrashes \in Nat
  /\ NoOne \notin Requests \cup Accounts

VARIABLES
  pc,           \* where each request is
  kind,         \* the message it handles
  which,        \* the session lock it uses: "chat" or "interrupt"
  tried,        \* accounts it has tried
  account,      \* the account of its current attempt
  task,         \* the task of its current attempt, 0: none
  submitted,    \* the material it quotes
  loaded,       \* case.current_task_id as it last read it
  answer,       \* what the platform answered
  wrote,        \* the status it has written to its task, uncommitted
  reserved,     \* it has reserved a use of the account, uncommitted
  view,         \* its transaction's snapshot, if it has opened one
  db,           \* committed: task statuses and accounts, the case, the quotas
  caseLock,     \* owner of the lock on the case row
  taskLock,     \* task -> owner of its row lock
  quotaLock,    \* account -> owner of the lock on its quota row
  sessionLock,  \* node and kind of lock -> the request that holds it
  crashes       \* crashes so far

attemptVars == <<tried, account, task, submitted, loaded, answer>>
txVars == <<wrote, reserved, view>>
rowLocks == <<caseLock, taskLock, quotaLock>>
vars == <<pc, kind, which, attemptVars, txVars, db, rowLocks, sessionLock, crashes>>

Statuses == {"absent", "running", "success", "failed", "cancelled"}

Database ==
  [status : [TaskIds -> Statuses], account : [TaskIds -> Accounts \cup {NoOne}],
   current : TaskIds \cup {0}, material : Nat, used : [Accounts -> Nat]]

Cancels(k) == k # "status"
Changes(k) == k \in {"adjust", "requote"}
Quotes(k) == k \in {"quote", "requote"}

Running == {t \in TaskIds : db.status[t] = "running"}

\* Requests that work on a task.
Working(t) == {r \in Requests : task[r] = t /\ pc[r] # "ended"}

NoView == [open |-> FALSE, rows |-> <<>>]

\* What a plain read returns.
Visible(r) == IF view[r].open THEN view[r].rows ELSE db

OpenView(r) ==
  view' = IF Isolation = "repeatable read" /\ ~view[r].open
          THEN [view EXCEPT ![r] = [open |-> TRUE, rows |-> db]] ELSE view

Goto(r, place) == pc' = [pc EXCEPT ![r] = place]

\* Mutant: the cancellation is looked for where it is never recorded.
CancelSeen_Never(r) == FALSE

\* _quote_task_was_cancelled().
CancelSeen(r) == Visible(r).status[task[r]] = "cancelled"

\* Mutant: the fingerprint of the snapshot is not compared any more.
MaterialCurrent_Always(r) == TRUE

\* _quote_snapshot_material_is_current(); a transaction that has updated the
\* case row reads its latest version.
MaterialCurrent(r) ==
  submitted[r] = IF wrote[r] # "none" THEN db.material ELSE Visible(r).material

-----------------------------------------------------------------------------

Init ==
  /\ pc = [r \in Requests |-> "new"]
  /\ kind = [r \in Requests |-> "status"]
  /\ which = [r \in Requests |-> "chat"]
  /\ tried = [r \in Requests |-> {}]
  /\ account = [r \in Requests |-> NoOne]
  /\ task = [r \in Requests |-> 0]
  /\ submitted = [r \in Requests |-> 0]
  /\ loaded = [r \in Requests |-> 0]
  /\ answer = [r \in Requests |-> "none"]
  /\ wrote = [r \in Requests |-> "none"]
  /\ reserved = [r \in Requests |-> FALSE]
  /\ view = [r \in Requests |-> NoView]
  /\ db = [status |-> [t \in TaskIds |-> "absent"], account |-> [t \in TaskIds |-> NoOne],
           current |-> 0, material |-> 0, used |-> [a \in Accounts |-> 0]]
  /\ caseLock = NoOne
  /\ taskLock = [t \in TaskIds |-> NoOne]
  /\ quotaLock = [a \in Accounts |-> NoOne]
  /\ sessionLock = [l \in Nodes \X {"chat", "interrupt"} |-> NoOne]
  /\ crashes = 0

\* ai_chat: a message that may interrupt looks for a running task, in a fresh
\* transaction, and chooses its lock by that.
Arrive(r, k) ==
  /\ pc[r] = "new"
  /\ kind' = [kind EXCEPT ![r] = k]
  /\ which' = [which EXCEPT ![r] =
       IF Cancels(k) /\ Running # {} THEN "interrupt" ELSE "chat"]
  /\ Goto(r, "lock")
  /\ UNCHANGED <<attemptVars, txVars, db, rowLocks, sessionLock, crashes>>

MyLock(r) == <<NodeOf[r], which[r]>>

TakeSessionLock(r, from, to) ==
  /\ pc[r] = from /\ sessionLock[MyLock(r)] = NoOne
  /\ sessionLock' = [sessionLock EXCEPT ![MyLock(r)] = r]
  /\ Goto(r, to)
  /\ UNCHANGED <<kind, which, attemptVars, txVars, db, rowLocks, crashes>>

EnterSession(r) == TakeSessionLock(r, "lock", "case")

\* _lock_quote_case(): SELECT ... FOR UPDATE.
LockCase(r) ==
  /\ pc[r] = "case" /\ caseLock = NoOne
  /\ caseLock' = r
  /\ Goto(r, "sweep")
  /\ UNCHANGED <<kind, which, attemptVars, txVars, db, taskLock, quotaLock, sessionLock, crashes>>

\* A running task whose clock has run out: its request is gone, or slow.
Stale(t) == t \in Running /\ (MaySlow \/ Working(t) = {})

\* Mutant: the case keeps naming the task that was cancelled.
CurrentAfter_Kept(stale, cancelled) == db.current

\* case.current_task_id once some tasks are expired and others cancelled.
CurrentAfter(stale, cancelled) ==
  IF db.current \in stale \/ cancelled # {} THEN 0 ELSE db.current

\* The running tasks are read FOR UPDATE: stale ones fail, a message that
\* supersedes cancels the others; the material changes in the same transaction.
Sweep(r) ==
  /\ pc[r] = "sweep"
  /\ \A t \in Running : taskLock[t] = NoOne
  /\ \E stale \in SUBSET {t \in Running : Stale(t)} :
       LET cancelled == IF Cancels(kind[r]) THEN Running \ stale ELSE {} IN
       db' = [db EXCEPT
         !.status = [t \in TaskIds |-> IF t \in stale THEN "failed"
                                       ELSE IF t \in cancelled THEN "cancelled"
                                       ELSE db.status[t]],
         !.current = CurrentAfter(stale, cancelled),
         !.material = IF Changes(kind[r]) THEN @ + 1 ELSE @]
  /\ submitted' = [submitted EXCEPT ![r] = db'.material]
  /\ caseLock' = NoOne
  /\ Goto(r, IF Quotes(kind[r]) THEN "select" ELSE "done")
  /\ UNCHANGED <<kind, which, tried, account, task, loaded, answer, txVars, taskLock,
                 quotaLock, sessionLock, crashes>>

\* _continue_quote_with_platform_account: the next account with quota left,
\* then the first look at the material.
Select(r) ==
  LET free == {a \in Accounts \ tried[r] : Visible(r).used[a] < QuotaLimit} IN
  /\ pc[r] = "select"
  /\ OpenView(r)
  /\ \/ /\ free = {}
        /\ Goto(r, "done")
        /\ UNCHANGED <<tried, account>>
     \/ \E a \in free :
          /\ account' = [account EXCEPT ![r] = a]
          /\ tried' = [tried EXCEPT ![r] = @ \cup {a}]
          /\ Goto(r, IF MaterialCurrent(r) THEN "insert" ELSE "done")
  /\ UNCHANGED <<kind, which, task, submitted, loaded, answer, wrote, reserved, db, rowLocks,
                 sessionLock, crashes>>

\* Mutant: an attempt gives back a use that it never committed.
Committed_ReleasesTwice(r) ==
  [db EXCEPT !.used = [a \in Accounts |-> IF a # account[r] THEN @[a]
                                          ELSE IF reserved[r] THEN @[a] + 1 ELSE @[a] - 1]]

\* What a commit of r makes of the rows: of the case only the columns that
\* differ from what r last read.
Committed(r) ==
  [db EXCEPT
    !.status = [t \in TaskIds |-> IF wrote[r] # "none" /\ t = task[r] THEN wrote[r] ELSE @[t]],
    !.current = IF wrote[r] # "none" /\ loaded[r] # task[r] THEN task[r] ELSE @,
    !.used = [a \in Accounts |-> IF reserved[r] /\ a = account[r] THEN @[a] + 1 ELSE @[a]]]

ReleaseRows(r) ==
  /\ caseLock' = IF caseLock = r THEN NoOne ELSE caseLock
  /\ taskLock' = [t \in TaskIds |-> IF taskLock[t] = r THEN NoOne ELSE taskLock[t]]
  /\ quotaLock' = [a \in Accounts |-> IF quotaLock[a] = r THEN NoOne ELSE quotaLock[a]]

\* The running task is inserted, the case names it, and both are committed
\* with whatever a failed attempt before it has left to commit.
InsertTask(r) ==
  /\ pc[r] = "insert" /\ caseLock \in {NoOne, r}
  /\ \E t \in TaskIds :
       /\ db.status[t] = "absent" /\ \A u \in 1..(t - 1) : db.status[u] # "absent"
       /\ db' = [Committed(r) EXCEPT !.status[t] = "running", !.account[t] = account[r],
                                     !.current = t]
       /\ task' = [task EXCEPT ![r] = t]
       /\ loaded' = [loaded EXCEPT ![r] = t]
  /\ wrote' = [wrote EXCEPT ![r] = "none"]
  /\ view' = [view EXCEPT ![r] = NoView]
  /\ ReleaseRows(r)
  /\ Goto(r, "reserve")
  /\ UNCHANGED <<kind, which, tried, account, submitted, answer, reserved, sessionLock, crashes>>

\* Mutant: the reservation of a superseded quote is not released.
Superseded_KeepsReservation(r) == Goto(r, "done") /\ UNCHANGED reserved

\* _release_account_quota_reservation(), then the silent response.
Superseded(r) ==
  /\ reserved' = [reserved EXCEPT ![r] = FALSE]
  /\ Goto(r, "done")

\* _reserve_account_quota_for_quote(), whose row lock stays until the commit,
\* and the first look at the task; the chat lock is then put aside.
Reserve(r) ==
  /\ pc[r] = "reserve" /\ quotaLock[account[r]] = NoOne
  /\ quotaLock' = [quotaLock EXCEPT ![account[r]] = r]
  /\ OpenView(r)
  /\ \/ /\ CancelSeen(r)
        /\ Superseded(r)
        /\ UNCHANGED <<answer, sessionLock>>
     \/ /\ ~CancelSeen(r) /\ db.used[account[r]] >= QuotaLimit
        /\ answer' = [answer EXCEPT ![r] = "switch"]
        /\ Goto(r, "write")
        /\ UNCHANGED <<reserved, sessionLock>>
     \/ /\ ~CancelSeen(r) /\ db.used[account[r]] < QuotaLimit
        /\ reserved' = [reserved EXCEPT ![r] = TRUE]
        /\ sessionLock' = IF which[r] = "chat"
                          THEN [sessionLock EXCEPT ![MyLock(r)] = NoOne] ELSE sessionLock
        /\ Goto(r, "io")
        /\ UNCHANGED answer
  /\ UNCHANGED <<kind, which, tried, account, task, submitted, loaded, wrote, db, caseLock,
                 taskLock, crashes>>

\* The platform answers: a quote, a failure, or one that is worth another
\* account (session expired, platform quota used up).
PlatformAnswers(r, a) ==
  /\ pc[r] = "io"
  /\ answer' = [answer EXCEPT ![r] = a]
  /\ Goto(r, IF which[r] = "chat" THEN "relock" ELSE "check")
  /\ UNCHANGED <<kind, which, tried, account, task, submitted, loaded, txVars, db, rowLocks,
                 sessionLock, crashes>>

ReenterSession(r) == TakeSessionLock(r, "relock", "check")

\* Mutant: a failed attempt keeps its reservation.
Fails_KeepsReservation(r, a) ==
  answer' = [answer EXCEPT ![r] = a] /\ Goto(r, "write") /\ UNCHANGED reserved

\* The attempt ends in a failure: the reservation is released, then the rows
\* are written; a switch goes on to the next account.
Fails(r, a) ==
  /\ reserved' = [reserved EXCEPT ![r] = FALSE]
  /\ answer' = [answer EXCEPT ![r] = a]
  /\ Goto(r, "write")

\* After the answer: cancelled meanwhile, material changed, failed, or quoted.
Check(r) ==
  /\ pc[r] = "check"
  /\ loaded' = [loaded EXCEPT ![r] = Visible(r).current]
  /\ \/ CancelSeen(r) /\ Superseded(r) /\ UNCHANGED answer
     \/ ~CancelSeen(r) /\ ~MaterialCurrent(r) /\ Fails(r, "stop")
     \/ ~CancelSeen(r) /\ MaterialCurrent(r) /\ answer[r] # "ok" /\ Fails(r, answer[r])
     \/ /\ ~CancelSeen(r) /\ MaterialCurrent(r) /\ answer[r] = "ok"
        /\ Goto(r, "locktask")
        /\ UNCHANGED <<reserved, answer>>
  /\ UNCHANGED <<kind, which, tried, account, task, submitted, wrote, view, db, rowLocks,
                 sessionLock, crashes>>

\* _lock_quote_task(): SELECT ... FOR UPDATE, whose fresher row is not looked at.
LockTask(r) ==
  /\ pc[r] = "locktask" /\ taskLock[task[r]] = NoOne
  /\ taskLock' = [taskLock EXCEPT ![task[r]] = r]
  /\ Goto(r, "recheck")
  /\ UNCHANGED <<kind, which, attemptVars, txVars, db, caseLock, quotaLock, sessionLock, crashes>>

\* The same looks under the task's lock, then the result is made presentable,
\* which may fail (_fail_quote_after_result_materialization).
Recheck(r) ==
  /\ pc[r] = "recheck"
  /\ loaded' = [loaded EXCEPT ![r] = Visible(r).current]
  /\ \/ CancelSeen(r) /\ Superseded(r) /\ UNCHANGED answer
     \/ ~CancelSeen(r) /\ Fails(r, "stop")
     \/ ~CancelSeen(r) /\ MaterialCurrent(r) /\ Goto(r, "write") /\ UNCHANGED <<reserved, answer>>
  /\ UNCHANGED <<kind, which, tried, account, task, submitted, wrote, view, db, rowLocks,
                 sessionLock, crashes>>

\* The flush of the outcome takes the rows of task and case one by one.
TakeTaskRow(r) ==
  /\ pc[r] = "write" /\ taskLock[task[r]] = NoOne
  /\ taskLock' = [taskLock EXCEPT ![task[r]] = r]
  /\ UNCHANGED <<pc, kind, which, attemptVars, txVars, db, caseLock, quotaLock, sessionLock, crashes>>

TakeCaseRow(r) ==
  /\ pc[r] = "write" /\ caseLock = NoOne
  /\ caseLock' = r
  /\ UNCHANGED <<pc, kind, which, attemptVars, txVars, db, taskLock, quotaLock, sessionLock, crashes>>

Write(r) ==
  /\ pc[r] = "write" /\ caseLock = r /\ taskLock[task[r]] = r
  /\ wrote' = [wrote EXCEPT ![r] = IF answer[r] = "ok" THEN "success" ELSE "failed"]
  /\ Goto(r, IF answer[r] = "switch" THEN "select" ELSE "done")
  /\ UNCHANGED <<kind, which, attemptVars, reserved, view, db, rowLocks, sessionLock, crashes>>

LeaveSession(r) ==
  sessionLock' = [l \in DOMAIN sessionLock |-> IF sessionLock[l] = r THEN NoOne ELSE sessionLock[l]]

\* The request commits and releases its session lock.
Finish(r) ==
  /\ pc[r] = "done"
  /\ db' = Committed(r)
  /\ ReleaseRows(r)
  /\ LeaveSession(r)
  /\ Goto(r, "ended")
  /\ UNCHANGED <<kind, which, attemptVars, txVars, crashes>>

WaitsForRow(r) ==
  \/ pc[r] = "case" /\ caseLock # NoOne
  \/ pc[r] = "sweep" /\ \E t \in Running : taskLock[t] # NoOne
  \/ pc[r] = "insert" /\ caseLock \notin {NoOne, r}
  \/ pc[r] = "reserve" /\ quotaLock[account[r]] # NoOne
  \/ pc[r] = "locktask" /\ taskLock[task[r]] # NoOne
  \/ pc[r] = "write" /\ ({caseLock, taskLock[task[r]]} \ {NoOne, r}) # {}

\* Mutant: a row lock is awaited for ever.
RowLockError_Never(r) == FALSE

\* InnoDB refuses the lock, as a deadlock victim or after
\* innodb_lock_wait_timeout; the exception rolls the request back and its task
\* stays as committed.
RowLockError(r) ==
  /\ WaitsForRow(r)
  /\ wrote' = [wrote EXCEPT ![r] = "none"]
  /\ reserved' = [reserved EXCEPT ![r] = FALSE]
  /\ ReleaseRows(r)
  /\ Goto(r, "done")
  /\ UNCHANGED <<kind, which, attemptVars, view, db, sessionLock, crashes>>

\* A worker dies; MySQL rolls its transactions back.
Crash(n) ==
  LET dead == {r \in Requests : NodeOf[r] = n /\ pc[r] \notin {"new", "ended"}} IN
  /\ crashes < MaxCrashes /\ dead # {}
  /\ crashes' = crashes + 1
  /\ pc' = [r \in Requests |-> IF r \in dead THEN "ended" ELSE pc[r]]
  /\ caseLock' = IF caseLock \in dead THEN NoOne ELSE caseLock
  /\ taskLock' = [t \in TaskIds |-> IF taskLock[t] \in dead THEN NoOne ELSE taskLock[t]]
  /\ quotaLock' = [a \in Accounts |-> IF quotaLock[a] \in dead THEN NoOne ELSE quotaLock[a]]
  /\ sessionLock' = [l \in DOMAIN sessionLock |->
                       IF sessionLock[l] \in dead THEN NoOne ELSE sessionLock[l]]
  /\ UNCHANGED <<kind, which, attemptVars, txVars, db>>

-----------------------------------------------------------------------------

Step(r) ==
  \/ EnterSession(r) \/ LockCase(r) \/ Sweep(r)
  \/ Select(r) \/ InsertTask(r) \/ Reserve(r)
  \/ \E a \in {"ok", "fail", "switch"} : PlatformAnswers(r, a)
  \/ ReenterSession(r) \/ Check(r) \/ LockTask(r) \/ Recheck(r)
  \/ TakeTaskRow(r) \/ TakeCaseRow(r) \/ Write(r)
  \/ Finish(r) \/ RowLockError(r)

Next ==
  \/ \E r \in Requests, k \in Kinds : Arrive(r, k)
  \/ \E r \in Requests : Step(r)
  \/ \E n \in Nodes : Crash(n)

Spec == Init /\ [][Next]_vars

\* Ready coroutines run, asyncio locks are handed on in order, the platform
\* answers or its HTTP calls time out, InnoDB ends every lock wait.
FairSpec == Spec /\ \A r \in Requests : WF_vars(Step(r))

-----------------------------------------------------------------------------
(***************************************************************************)
(* Properties.                                                             *)
(***************************************************************************)

\* Every variable stays in its type.
TypeOK ==
  /\ pc \in [Requests -> {"new", "lock", "case", "sweep", "select", "insert", "reserve", "io",
                          "relock", "check", "locktask", "recheck", "write", "done", "ended"}]
  /\ kind \in [Requests -> AllKinds]
  /\ which \in [Requests -> {"chat", "interrupt"}]
  /\ tried \in [Requests -> SUBSET Accounts]
  /\ account \in [Requests -> Accounts \cup {NoOne}]
  /\ task \in [Requests -> TaskIds \cup {0}]
  /\ submitted \in [Requests -> Nat]
  /\ loaded \in [Requests -> TaskIds \cup {0}]
  /\ answer \in [Requests -> {"none", "ok", "fail", "switch", "stop"}]
  /\ wrote \in [Requests -> {"none", "success", "failed"}]
  /\ reserved \in [Requests -> BOOLEAN]
  /\ \A r \in Requests : view[r] = NoView \/ (view[r].open /\ view[r].rows \in Database)
  /\ db \in Database
  /\ caseLock \in Requests \cup {NoOne}
  /\ taskLock \in [TaskIds -> Requests \cup {NoOne}]
  /\ quotaLock \in [Accounts -> Requests \cup {NoOne}]
  /\ sessionLock \in [Nodes \X {"chat", "interrupt"} -> Requests \cup {NoOne}]
  /\ crashes \in Nat

\* The uses counted against an account are its successful quotes: nothing is
\* charged for a quote that failed, was superseded, crashed or was rolled back,
\* and no success goes uncharged (the reservation and its release).
UsedMatchesSuccesses ==
  \A a \in Accounts :
    db.used[a] = Cardinality({t \in TaskIds : db.status[t] = "success" /\ db.account[t] = a})

\* The case never names a cancelled task as its current one, whoever inserts,
\* cancels, expires and finishes tasks in between
\* (_cancel_active_quote_tasks_for_case and the writers of current_task_id).
CurrentNotCancelled == db.current # 0 => db.status[db.current] # "cancelled"

\* A quote that a newer message has cancelled is never recorded as successful
\* (_quote_task_was_cancelled).
CancelledNeverSucceeds ==
  [][\A t \in TaskIds : db.status[t] = "cancelled" => db'.status[t] # "success"]_vars

\* A quote is recorded as successful only for the material the case has at that
\* moment (_quote_snapshot_material_is_current).
SuccessIsCurrent ==
  [][\A t \in TaskIds : db.status[t] # "success" /\ db'.status[t] = "success" =>
       \E r \in Working(t) : submitted[r] = db'.material]_vars

\* Every request ends, although row locks and session locks are taken in
\* different orders.
RequestsEnd == \A r \in Requests : pc[r] # "new" ~> pc[r] = "ended"
=============================================================================
