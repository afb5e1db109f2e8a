------------------------------- MODULE LoginTask -------------------------------
(***************************************************************************)
(* The login tasks of one platform account: requests that start a login,   *)
(* submit a code or change the credentials, and the keepalive passes       *)
(* (services/quote_assistant_service.py), all of them over one session.    *)
(*                                                                         *)
(* The session manager is reduced to what its operations make of the       *)
(* session and to the locks they wait for: its own (`actor`) and the row   *)
(* lock of the account, which a login takes first and the others second.   *)
(* A request writes to tasks and account what differs from its snapshot.   *)
(***************************************************************************)
EXTENDS Naturals, Sequences, FiniteSets

CONSTANTS
  Requests,  \* each starts a login, submits a code or resets the account, once
  Passes,    \* the keepalive loops that may be inside a pass
  NoOne

VARIABLES
  session,   \* what store.load() returns
  account,   \* the account row: login_status, and whether last_login_at is set
  tasks,     \* status of the committed login tasks, in the order of ids
  late,      \* the tasks whose expires_at has passed
  actor,     \* who is inside the session manager
  rowLock,   \* who has written the account row
  pc,
  job,       \* what a request came for, with the task whose code it submits
  seen,      \* the snapshot of a transaction, with the account status it has flushed
  mem,       \* its rows in memory, flushed or not
  loaded,    \* the session it works on
  outrun     \* history: no task has the code the account asks for, since a request did not
             \* send what it took for unchanged

vars == <<session, account, tasks, late, actor, rowLock, pc, job, seen, mem, loaded, outrun>>

Actors == Requests \cup Passes
TaskIds == 1 .. Cardinality(Requests)
NoTask == 0

\* "kept": waits for a code and preserves a usable session.
Sessions == {"none", "failed", "waiting", "kept", "usable"}
\* "logging_in" is flushed by the start of a login and replaced before it commits.
LoginStatuses ==
  {"not_logged_in", "logging_in", "needs_code", "authenticated", "degraded", "expired", "failed"}
Accounts == [status : LoginStatuses, everIn : BOOLEAN]

TaskEnded == {"success", "failed", "expired"}
Statuses == {"running", "needs_code"} \cup TaskEnded
Open(status) == status \notin TaskEnded
OpenIn(ts) == {i \in DOMAIN ts : Open(ts[i])}
Newest(S) == CHOOSE i \in S : \A j \in S : j <= i

Jobs == [kind : {"start", "submit", "reset"}, task : {NoTask} \cup TaskIds]
NoJob == [kind |-> "reset", task |-> NoTask]

Snapshot == [account |-> account, tasks |-> tasks]
Goto(a, where) == pc' = [pc EXCEPT ![a] = where]

Init ==
  /\ session \in {"none", "usable"}
  /\ account = [status |-> IF session = "usable" THEN "authenticated" ELSE "not_logged_in",
                everIn |-> session = "usable"]
  /\ tasks = <<>> /\ late = {}
  /\ actor = NoOne /\ rowLock = NoOne
  /\ pc = [a \in Actors |-> "idle"]
  /\ job = [q \in Requests |-> NoJob]
  /\ seen = [a \in Actors |-> Snapshot]
  /\ mem = seen
  /\ loaded = [a \in Actors |-> session]
  /\ outrun = FALSE

-----------------------------------------------------------------------------
(* Rows                                                                     *)

\* The ORM sends a column that differs from the value it loaded.
Written(now, old, new) == [c \in DOMAIN now |-> IF new[c] = old[c] THEN now[c] ELSE new[c]]

\* Mutant: the status of a task is written in any case.
WrittenTasks_Always(old, new) ==
  [i \in 1 .. Len(tasks) + Len(new) - Len(old) |->
     IF i > Len(tasks) THEN new[Len(new)] ELSE IF i > Len(old) THEN tasks[i] ELSE new[i]]

\* The same for the tasks; a new one comes after those of others.
WrittenTasks(old, new) ==
  [i \in 1 .. Len(tasks) + Len(new) - Len(old) |->
     IF i > Len(tasks) THEN new[Len(new)]
     ELSE IF i > Len(old) \/ new[i] = old[i] THEN tasks[i] ELSE new[i]]

\* The account asks for a code that nobody can submit.
CodeMissing == account.status = "needs_code" /\ OpenIn(tasks) = {}

\* Others have changed the status since it was read, and it is not sent: it stays as read.
Unsent(now, old, new) == new = old /\ now # old

\* The end of a request or pass: commit.  It may have answered the code of a task.
Commit(a, rows, answered) ==
  /\ account' = Written(account, seen[a].account, rows.account)
  /\ tasks' = WrittenTasks(seen[a].tasks, rows.tasks)
  /\ rowLock' = IF rowLock = a THEN NoOne ELSE rowLock
  /\ Goto(a, "done")
  /\ outrun' = (CodeMissing' /\
       \/ outrun
       \/ Unsent(account.status, seen[a].account.status, rows.account.status)
       \/ \E i \in answered : Unsent(tasks[i], seen[a].tasks[i], rows.tasks[i]))

Begin(q) ==
  /\ pc[q] = "idle"
  /\ \E kind \in {"start", "submit", "reset"}, i \in {NoTask} \cup DOMAIN tasks :
       /\ kind = "submit" <=> i # NoTask
       /\ job' = [job EXCEPT ![q] = [kind |-> kind, task |-> i]]
       /\ Goto(q, kind)
  /\ seen' = [seen EXCEPT ![q] = Snapshot]
  /\ mem' = [mem EXCEPT ![q] = Snapshot]
  /\ UNCHANGED <<session, account, tasks, late, actor, rowLock, loaded, outrun>>

\* The wait for the row lock takes too long: rolled back.
GiveUp(a) ==
  /\ pc[a] \in {"start", "reset", "call", "write"} /\ rowLock \notin {NoOne, a}
  /\ actor' = IF actor = a THEN NoOne ELSE actor
  /\ Goto(a, "done")
  /\ UNCHANGED <<session, account, tasks, late, rowLock, job, seen, mem, loaded, outrun>>

-----------------------------------------------------------------------------
(* Requests                                                                 *)

\* start_platform_account_login: the newest open task is returned as it is, unless it
\* is late; otherwise a task is inserted, which writes the account row: whatever status
\* follows differs from the one flushed here.
Start(q) ==
  LET open == OpenIn(mem[q].tasks) IN
  /\ pc[q] = "start"
  /\ \/ /\ open # {} /\ Newest(open) \notin late
        /\ Goto(q, "done")
        /\ UNCHANGED <<rowLock, seen, mem>>
     \/ /\ open # {} => Newest(open) \in late
        /\ rowLock = NoOne
        /\ rowLock' = q
        /\ seen' = [seen EXCEPT ![q].account.status = "logging_in"]
        /\ mem' = [mem EXCEPT ![q].tasks =
             Append([i \in DOMAIN @ |-> IF i \in open /\ i = Newest(open) THEN "expired" ELSE @[i]], "running")]
        /\ Goto(q, "enter")
  /\ UNCHANGED <<session, account, tasks, late, actor, job, loaded, outrun>>

\* submit_platform_account_login_challenge: a task that does not wait, or is late, is
\* an error, which also rolls back the note that it is late.
Submit(q) ==
  /\ pc[q] = "submit"
  /\ Goto(q, IF mem[q].tasks[job[q].task] = "needs_code" /\ job[q].task \notin late THEN "enter" ELSE "done")
  /\ UNCHANGED <<session, account, tasks, late, actor, rowLock, job, seen, mem, loaded, outrun>>

\* Mutant: the account keeps its status.
ResetAccount_Kept(row) == row

ResetAccount(row) == [row EXCEPT !.status = "not_logged_in"]

\* update_platform_account_profile with new credentials: open tasks end, the session is
\* cleared without the session manager's lock.
Reset(q) ==
  /\ pc[q] = "reset" /\ rowLock = NoOne
  /\ session' = "none"
  /\ Commit(q, [account |-> ResetAccount(mem[q].account),
                tasks |-> [i \in DOMAIN mem[q].tasks |->
                             IF Open(mem[q].tasks[i]) THEN "expired" ELSE mem[q].tasks[i]]], {})
  /\ UNCHANGED <<late, actor, job, seen, mem, loaded>>

\* The session manager's lock, then load().
Enter(a) ==
  /\ pc[a] = "enter" /\ actor = NoOne
  /\ actor' = a
  /\ loaded' = [loaded EXCEPT ![a] = session]
  /\ Goto(a, "call")
  /\ UNCHANGED <<session, account, tasks, late, rowLock, job, seen, mem, outrun>>

\* AccountSessionActor.login: the session it makes of the one it found, and its answer.
LoginAnswers(found) ==
  LET fallback == found \in {"usable", "kept"} IN
  {<<"usable", "success">>, <<IF fallback THEN "kept" ELSE "waiting", "code">>,
   IF fallback THEN <<"usable", "degraded">> ELSE <<"failed", "failed">>}

\* AccountSessionActor.submit_challenge: where no code is awaited the answer is "expired" and
\* nothing is saved.
SubmitAnswers(found) ==
  IF found \notin {"waiting", "kept"} THEN {<<session, "expired">>}
  ELSE {<<"usable", "success">>, <<found, "code">>}
       \cup IF found = "kept" THEN {<<"usable", "degraded">>}
            ELSE {<<"failed", "failed">>, <<"failed", "expired">>}

StatusAfter(answer) ==
  CASE answer = "success" -> "authenticated" [] answer = "code" -> "needs_code" [] OTHER -> answer

\* Mutant: the answer itself becomes the task's status.
TaskAfter_Raw(kind, answer) == answer

TaskAfter(kind, answer) ==
  CASE answer = "success" -> "success"
    [] answer = "code" -> "needs_code"
    [] answer = "expired" /\ kind = "submit" -> "expired"
    [] OTHER -> "failed"

\* The platform's answer: the session is saved, which needs the row lock, unless
\* another has saved one meanwhile; then task and account are written and committed.
Answer(q) ==
  LET start == job[q].kind = "start"
      i == IF start THEN Len(mem[q].tasks) ELSE job[q].task IN
  /\ q \in Requests /\ pc[q] = "call"
  /\ rowLock \in {NoOne, q}
  /\ \E answer \in (IF start THEN LoginAnswers(loaded[q]) ELSE SubmitAnswers(loaded[q]))
                  \cup {<<session, "failed">>} :
       /\ session' = answer[1]
       /\ late' = IF answer[2] = "code" THEN late \ {i} ELSE late
       /\ Commit(q, [account |-> [status |-> StatusAfter(answer[2]),
                                  everIn |-> mem[q].account.everIn \/ answer[2] = "success"],
                     tasks |-> [mem[q].tasks EXCEPT ![i] = TaskAfter(job[q].kind, answer[2])]],
                    {i} \cap DOMAIN seen[q].tasks)
  /\ actor' = NoOne
  /\ UNCHANGED <<job, seen, mem, loaded>>

-----------------------------------------------------------------------------
(* Keepalive passes: maintain_quote_platform_sessions_once                  *)

PassBegins(p) ==
  /\ pc[p] \in {"idle", "done"}
  /\ seen' = [seen EXCEPT ![p] = Snapshot]
  /\ mem' = [mem EXCEPT ![p] = Snapshot]
  /\ Goto(p, "look")
  /\ UNCHANGED <<session, account, tasks, late, actor, rowLock, job, loaded, outrun>>

LooksLoggedIn(status) == status \in {"authenticated", "degraded"}

\* Mutant: an account that is not due is left as it is.
NotDue_Untouched(row) == {row}

\* A usable session that needs no keepalive yet: the account is shown as logged in.
NotDue(row) ==
  IF LooksLoggedIn(row.status) THEN {row}
  ELSE {[row EXCEPT !.status = status] : status \in {"authenticated", "degraded"}}

\* Without a session, an account that once had one is marked; with a usable one it is
\* kept alive when due; a session on its way is left alone.
Look(p) ==
  LET row == mem[p].account
      missed == session = "none" /\ (row.everIn \/ LooksLoggedIn(row.status)) IN
  /\ pc[p] = "look"
  /\ \/ session = "usable" /\ Goto(p, "enter") /\ UNCHANGED mem
     \/ /\ \E new \in IF session = "usable" THEN NotDue(row)
                       ELSE IF missed THEN {[row EXCEPT !.status = "degraded"]} ELSE {row} :
             mem' = [mem EXCEPT ![p].account = new]
        /\ Goto(p, "write")
  /\ UNCHANGED <<session, account, tasks, late, actor, rowLock, job, seen, loaded, outrun>>

\* AccountSessionActor.keepalive and _try_keepalive_account: a preserved session is
\* taken back; what cannot be used is not saved.
KeepaliveAnswers(found) ==
  IF found \in {"usable", "kept"}
  THEN {<<"usable", "authenticated">>, <<"usable", "degraded">>, <<"none", "expired">>,
        <<session, "degraded">>}
  ELSE {<<session, IF found = "none" THEN "expired" ELSE "degraded">>}

Keepalive(p) ==
  LET saves == loaded[p] \in {"usable", "kept"} IN
  /\ p \in Passes /\ pc[p] = "call"
  /\ saves => rowLock \in {NoOne, p}
  /\ \E answer \in KeepaliveAnswers(loaded[p]) :
       /\ session' = answer[1]
       /\ mem' = [mem EXCEPT ![p].account.status = answer[2]]
  /\ rowLock' = IF saves THEN p ELSE rowLock
  /\ actor' = NoOne
  /\ Goto(p, "write")
  /\ UNCHANGED <<account, tasks, late, job, seen, loaded, outrun>>

\* The pass ends with the flush of all accounts and the commit.
PassEnds(p) ==
  /\ pc[p] = "write"
  /\ mem[p] = seen[p] \/ rowLock \in {NoOne, p}
  /\ Commit(p, mem[p], {})
  /\ UNCHANGED <<session, late, actor, job, seen, mem, loaded>>

PassFails(p) == p \in Passes /\ GiveUp(p)

Late ==
  /\ \E i \in DOMAIN tasks \ late : late' = late \cup {i}
  /\ UNCHANGED <<session, account, tasks, actor, rowLock, pc, job, seen, mem, loaded, outrun>>

-----------------------------------------------------------------------------
RequestStep(q) == Start(q) \/ Submit(q) \/ Reset(q) \/ Enter(q) \/ Answer(q)

PassStep(p) == PassBegins(p) \/ Look(p) \/ Enter(p) \/ Keepalive(p) \/ PassEnds(p)

Next ==
  \/ \E q \in Requests : Begin(q) \/ RequestStep(q) \/ GiveUp(q)
  \/ \E p \in Passes : PassStep(p) \/ PassFails(p)
  \/ Late

Spec == Init /\ [][Next]_vars

\* Both locks are handed over in the order of arrival and lock waits end; the loop starts a pass every 30 seconds.
FairSpec ==
  /\ Spec
  /\ \A q \in Requests : SF_vars(RequestStep(q)) /\ WF_vars(GiveUp(q))
  /\ \A p \in Passes : WF_vars(PassStep(p)) /\ WF_vars(PassFails(p))

-----------------------------------------------------------------------------
TypeOK ==
  /\ session \in Sessions /\ account \in Accounts /\ tasks \in Seq(Statuses) /\ late \subseteq TaskIds
  /\ actor \in Actors \cup {NoOne} /\ rowLock \in Actors \cup {NoOne}
  /\ pc \in [Actors -> {"idle", "start", "submit", "reset", "enter", "call", "look", "write", "done"}]
  /\ job \in [Requests -> Jobs] /\ outrun \in BOOLEAN

\* A task that has ended stays ended.
EndedStaysEnded == \A i \in DOMAIN tasks : ~Open(tasks[i]) => ~Open(tasks'[i])

\* While the account says a code is needed there is a task for it, unless others ended the
\* task during the answer to its code, or set the account to that meanwhile.
CodeHasTask == CodeMissing => outrun

(* Start, submit and the reset of an account overlap: neither a late answer nor a request *)
(* that read an ended login task earlier brings it back, and a code that is asked for can *)
(* be submitted.                                                                          *)
TasksSound == [][EndedStaysEnded /\ CodeHasTask']_vars

(* However a usable session came to be marked expired or failed, for example by a code  *)
(* submitted twice, the keepalive loop marks the account as logged in again.            *)
LoggedInIsShown ==
  (session = "usable") ~> (session # "usable" \/ LooksLoggedIn(account.status))

==============================================================================
