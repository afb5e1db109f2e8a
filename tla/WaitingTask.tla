------------------------------ MODULE WaitingTask ------------------------------
(***************************************************************************)
(* What the messages of a conversation do to its quote tasks when earlier  *)
(* versions of the program left one waiting: for the code of a login, or   *)
(* for the confirmation of a duplicate (quote_assistant_service.py,        *)
(* ai_assistant_service.py).  One worker: the lock of the conversation     *)
(* makes a message one step, except around calls of the platform; reads    *)
(* are of what is committed.                                               *)
(*                                                                         *)
(* A state of the rows is a record `s` of cases, tasks and calls, and each *)
(* step of a handler is an operator from states to states, or to the set   *)
(* of those it may lead to, so that a handler that calls another is        *)
(* written as it is in the code.                                           *)
(***************************************************************************)
EXTENDS Naturals, Sequences, FiniteSets, FiniteSetsExt

CONSTANTS MaxTasks, MaxCases, MaxMessages \* bounds

VARIABLES
  cases,  \* st, cur (task or 0), mat (version of its material), full (nothing is missing),
          \* asked (its platform is known)
  tasks,  \* case, st, mat, config (versions it was made for), age (while active)
  calls,  \* of each task: "none", or what the platform was asked for: "login", "quote"
  config, \* version of the platform's parameters
  messages,
  late    \* an attempt was taken for dead while the platform worked on it

vars == <<cases, tasks, calls, config, messages, late>>
rows == [cases |-> cases, tasks |-> tasks, calls |-> calls]

Waits == {"waiting_sms", "waiting_dup"}
Active == Waits \cup {"running"}

\* QUOTE_SMS_CODE_TTL_SECONDS and QUOTE_RUNNING_TASK_STALE_SECONDS, of which the second is
\* longer, both since started_at
SmsTtl == 0
StaleAfter == 1

-----------------------------------------------------------------------------
\* Endings.

\* A task ends and is no longer named by its case.
Ended(s, T, st) ==
  [s EXCEPT
    !.cases = [k \in DOMAIN @ |-> [@[k] EXCEPT !.cur = IF @ \in T THEN 0 ELSE @]],
    !.tasks = [t \in DOMAIN @ |-> IF t \in T THEN [@[t] EXCEPT !.st = st, !.age = 0] ELSE @[t]]]

\* A stop names the task in its case, or with `cur` = 0 none.
Stopped(s, t, cur) ==
  LET k == s.tasks[t].case IN
  [s EXCEPT !.tasks[t].st = "failed", !.tasks[t].age = 0,
            !.cases[k].st = "ready", !.cases[k].cur = cur]

Status(c) == IF c.full THEN "ready" ELSE "collecting"

\* _refresh_quote_case_material_state
Refreshed(s, K, keepQuoted) ==
  [s EXCEPT !.cases = [k \in DOMAIN @ |->
     IF k \in K /\ ~(keepQuoted /\ @[k].st = "quoted")
     THEN [@[k] EXCEPT !.st = Status(s.cases[k])] ELSE @[k]]]

CasesOf(s, T) == {s.tasks[t].case : t \in T}

\* _expire_waiting_sms_task
SmsExpired(s, T) == Refreshed(Ended(s, T, "failed"), CasesOf(s, T), TRUE)

\* _cancel_waiting_duplicate_quote_task
DupCancelled(s, t) ==
  Refreshed(Ended(s, {t}, "cancelled"), {s.tasks[t].case}, FALSE)

\* Mutant: the tasks that wait are spared.
Superseded_RunningOnly(s, k) ==
  LET T == {t \in DOMAIN s.tasks : s.tasks[t].case = k /\ s.tasks[t].st = "running"} IN
  IF T = {} THEN s ELSE [Ended(s, T, "cancelled") EXCEPT !.cases[k].cur = 0]

\* _cancel_active_quote_tasks_for_case
Superseded(s, k) ==
  LET T == {t \in DOMAIN s.tasks : s.tasks[t].case = k /\ s.tasks[t].st \in Active} IN
  IF T = {} THEN s ELSE [Ended(s, T, "cancelled") EXCEPT !.cases[k].cur = 0]

\* _expire_stale_waiting_sms_tasks_for_owner_session
LapsedSwept(s) ==
  SmsExpired(s, {t \in DOMAIN s.tasks : s.tasks[t].st = "waiting_sms" /\ s.tasks[t].age > SmsTtl})

Stale(s) == {t \in DOMAIN s.tasks : s.tasks[t].st = "running" /\ s.tasks[t].age > StaleAfter}

\* _expire_stale_running_quote_tasks_for_owner_session
StaleSwept(s) == Refreshed(Ended(s, Stale(s), "failed"), CasesOf(s, Stale(s)), TRUE)

\* _cancel_orphaned_waiting_duplicate_confirm_tasks
OrphansSwept(s) ==
  LET orphans == {t \in DOMAIN s.tasks :
        s.tasks[t].st = "waiting_dup" /\ s.cases[s.tasks[t].case].st # "waiting_dup"} IN
  Ended(s, orphans, "cancelled")

Swept(s) == StaleSwept(LapsedSwept(s))

-----------------------------------------------------------------------------
\* Who waits.

Last(S) == IF S = {} THEN 0 ELSE Max(S)

\* _find_waiting_task
WaitingSms(s) ==
  LET t == Last({u \in DOMAIN s.tasks :
        s.tasks[u].st = "waiting_sms" /\ s.cases[s.tasks[u].case].st = "waiting_sms"}) IN
  IF t # 0 /\ s.tasks[t].age > SmsTtl THEN 0 ELSE t

\* _find_waiting_duplicate_quote_confirm_task
WaitingDup(s) ==
  Last({t \in DOMAIN s.tasks :
    s.tasks[t].st = "waiting_dup" /\ s.cases[s.tasks[t].case].st = "waiting_dup"})

\* _quote_snapshot_material_is_current, _quote_snapshot_default_config_is_current
Current(s, t) == s.tasks[t].mat = s.cases[s.tasks[t].case].mat

\* The states to which a waiting task leads that is no longer for what it was made.
Outdated(s, t) ==
  IF ~Current(s, t)
  THEN Refreshed(Stopped(s, t, t), {s.tasks[t].case}, FALSE)
  ELSE Stopped(s, t, 0)

UpToDate(s, t) == Current(s, t) /\ s.tasks[t].config = config

-----------------------------------------------------------------------------
\* Attempts.

\* A task is inserted and committed, and the platform asked.
Inserted(s, k, mat) ==
  [cases |-> [s.cases EXCEPT ![k].st = "ready", ![k].cur = Len(s.tasks) + 1],
   tasks |-> Append(s.tasks, [case |-> k, st |-> "running", mat |-> mat, config |-> config,
                              age |-> 0]),
   calls |-> Append(s.calls, "quote")]

\* The parameters of the platform are missing.
ConfigMissing(s, k) == [s EXCEPT !.cases[k].st = "ready"]

\* _continue_quote_with_platform_account: else a quote begins, or no account is logged in.
Continued(s, k, mat) ==
  {ConfigMissing(s, k), [s EXCEPT !.cases[k].st = "ready", !.cases[k].cur = 0]}
  \cup IF Len(s.tasks) < MaxTasks THEN {Inserted(s, k, mat)} ELSE {}

\* _complete_waiting_duplicate_quote_task
DupResumed(s, t) ==
  LET k == s.tasks[t].case IN
  {Stopped(s, t, t)}
  \cup IF UpToDate(s, t)
       THEN Continued(Ended(s, {t}, "cancelled"), k, s.tasks[t].mat)
       ELSE {Outdated(s, t)}

\* Mutant: the case waits on while the code is with the platform.
CodeTaken_CaseWaits(s, t) ==
  IF ~UpToDate(s, t) THEN Outdated(s, t)
  ELSE [s EXCEPT !.tasks[t].st = "running", !.calls[t] = "login", !.cases[s.tasks[t].case].cur = t]

\* _complete_waiting_task up to its commit; started_at stays.
CodeTaken(s, t) ==
  IF ~UpToDate(s, t) THEN Outdated(s, t)
  ELSE [s EXCEPT !.tasks[t].st = "running", !.calls[t] = "login",
                 !.cases[s.tasks[t].case].cur = t, !.cases[s.tasks[t].case].st = "ready"]

\* _get_or_create_case: the newest that may be used again, the one of the order that is
\* named, or a new one.
NewCase(s) ==
  [s EXCEPT !.cases = Append(@, [st |-> "collecting", cur |-> 0, mat |-> 0, full |-> FALSE, asked |-> FALSE])]

\* Pairs of a state and a case.
CaseFor(s, without, quotedToo) ==
  LET usable == {k \in DOMAIN s.cases \ without : quotedToo \/ s.cases[k].st # "quoted"} IN
  {<<s, k>> : k \in usable}
  \cup IF Len(s.cases) < MaxCases THEN {<<NewCase(s), Len(s.cases) + 1>>} ELSE {}

\* A change without a platform is kept for the quote to come.
Deferred(s, k) == [Superseded(s, k) EXCEPT !.cases[k].mat = @ + 1]

\* With a platform what ran is superseded and a change recorded, both committed.
Restarted(s, k, changes, commands) ==
  LET s1 == IF changes \/ commands THEN Superseded(s, k) ELSE s IN
  [s1 EXCEPT !.cases[k].asked = TRUE, !.cases[k].mat = IF changes THEN @ + 1 ELSE @]

\* Materials, an account or the parameters are missing.
Blocked(s, k) == [s EXCEPT !.cases[k].st = Status(s.cases[k])]

\* Nothing is missing.
Begun(s, k) ==
  IF s.cases[k].full THEN Continued([s EXCEPT !.cases[k].st = "ready"], k, s.cases[k].mat) ELSE {}

\* A case of which the platform is known lends it to a message that names none.
MayLackPlatform(s, k) == ~s.cases[k].asked

\* handle_quote_message once no waiting task is the answer
General(s, k, changes, commands) ==
  LET r == Restarted(s, k, changes, commands) IN
  (IF changes /\ MayLackPlatform(s, k) THEN {Deferred(s, k)} ELSE {}) \cup {Blocked(r, k)} \cup Begun(r, k)

-----------------------------------------------------------------------------
\* Handlers.  A message to which a waiting task is the answer changes nothing.

\* handle_quote_message for "<platform>报价"
Quoting(r) ==
  LET s == OrphansSwept(Swept(r)) IN
  CASE WaitingSms(s) # 0 -> {s}
    [] WaitingSms(s) = 0 /\ WaitingDup(s) # 0 -> DupResumed(s, WaitingDup(s))
    [] OTHER -> {s} \cup UNION {General(p[1], p[2], FALSE, TRUE) : p \in CaseFor(s, {}, TRUE)}

\* handle_quote_message for words that confirm, or that may or may not
Confirming(r) ==
  LET s == OrphansSwept(Swept(r)) IN
  {s} \cup IF WaitingSms(s) = 0 /\ WaitingDup(s) # 0 THEN DupResumed(s, WaitingDup(s)) ELSE {}

\* A change gives up the wait for a code.
CodeDropped(s) == LET w == WaitingSms(s) IN IF w = 0 THEN s ELSE SmsExpired(s, {w})

\* handle_quote_message for a change of dates, sums, products or the car
Changing(r) ==
  LET s1 == CodeDropped(OrphansSwept(Swept(r)))
      d == WaitingDup(s1)
      s2 == IF d = 0 THEN s1
            ELSE [Superseded(s1, s1.tasks[d].case) EXCEPT !.cases[s1.tasks[d].case].st = "ready"] IN
  UNION {General(p[1], p[2], TRUE, FALSE) : p \in CaseFor(s2, {}, TRUE)}

\* handle_quote_message for "非车 N": the redraw of a success changes no task.
Redrawing(r) ==
  LET s == OrphansSwept(Swept(r))
      d == WaitingDup(s)
      s1 == IF d = 0 THEN s ELSE DupCancelled(s, d) IN
  IF WaitingSms(s) # 0 THEN {s}
  ELSE {s1} \cup UNION {General(p[1], p[2], TRUE, FALSE) : p \in CaseFor(s1, {}, TRUE)}

\* handle_quote_message for words that give up
GivingUp(r) ==
  LET s == OrphansSwept(Swept(r)) IN
  {IF WaitingSms(s) = 0 /\ WaitingDup(s) # 0 THEN DupCancelled(s, WaitingDup(s)) ELSE s}

\* handle_quote_message for a code, to which the dispatcher sends digits only where one
\* is waited for, or was
Coding(r) ==
  LET s == OrphansSwept(Swept(r)) IN
  IF WaitingSms(s) = 0 THEN {r, s} ELSE {CodeTaken(s, WaitingSms(s))}

\* What an upload or a text does to its case.
WithMaterial(s, k, full, checked) ==
  [Superseded(s, k) EXCEPT !.cases[k].mat = @ + 1, !.cases[k].full = full,
                           !.cases[k].st = IF checked /\ full THEN "ready" ELSE "collecting"]

\* A quote follows where one was asked for and nothing is missing.
Collected(s, k, full, checked) ==
  LET s1 == WithMaterial(s, k, full, checked) IN
  IF checked /\ full THEN Quoting(s1) ELSE {s1}

\* handle_quote_images_message; `explicit` with the command of a quote.
Uploading(r, explicit, full) ==
  LET s == Swept(r)
      d == WaitingDup(s)
      s1 == IF d = 0 THEN s ELSE DupCancelled(s, d)
      without == IF d = 0 THEN {} ELSE {s.tasks[d].case}
      named(x, k) == IF explicit THEN [x EXCEPT !.cases[k].asked = TRUE] ELSE x IN
  UNION {Collected(named(p[1], p[2]), p[2], full, explicit \/ p[1].cases[p[2]].asked) :
         p \in CaseFor(s1, without, FALSE)}

\* _quote_case_has_pending_quote_check
Pending(c) == c.asked /\ (c.cur # 0 \/ c.st \in {"ready"} \cup Waits \/ ~c.full)

\* What is typed, in the case found for it.
Typed(s, k, full) == Collected(s, k, full, Pending(s.cases[k]))

\* handle_quote_text_material_message; what is no material is left to the other handlers.
\* A form names its case, which may be the one that waited, or is of no case any more.
Typing(r, full) ==
  LET s == Swept(r)
      d == WaitingDup(s)
      s1 == IF d = 0 THEN s ELSE DupCancelled(s, d)
      without == IF d = 0 THEN {} ELSE {s.tasks[d].case} IN
  {s, s1}
  \cup UNION {Typed(p[1], p[2], full) :
              p \in CaseFor(s1, without, FALSE) \cup {<<s1, k>> : k \in DOMAIN s1.cases}}

\* handle_quote_material_form_message, on the newest case
Forming(r) ==
  LET k == Len(r.cases) IN
  {IF r.cases[k].st \in Waits THEN r ELSE Refreshed([r EXCEPT !.cases[k].asked = TRUE], {k}, TRUE)}

\* The materials are looked at again, and recorded where they differ.
LookedAt(s, k) == {s, Refreshed(s, {k}, TRUE)}

\* handle_quote_material_status
Asking(r) ==
  LET s == OrphansSwept(Swept(r))
      k == Len(s.cases)
      w == WaitingSms(s) IN
  CASE w # 0 /\ s.tasks[w].case = k /\ ~UpToDate(s, w) -> {Outdated(s, w)}
    [] s.cases[k].st \in Waits -> {s}
    [] OTHER -> LookedAt(s, k)

-----------------------------------------------------------------------------
\* What the platform answers.  A task cancelled meanwhile is left alone.

\* After the login the quota is reserved and the quote asked for, or it is used up and
\* another account goes on.
Reserved(s, t) ==
  {[s EXCEPT !.calls[t] = "quote"]} \cup Continued(Stopped(s, t, t), s.tasks[t].case, s.tasks[t].mat)

\* _complete_waiting_task after submit_challenge
AfterCode(s, t) ==
  LET k == s.tasks[t].case IN
  {[s EXCEPT !.tasks[t].st = "waiting_sms", !.cases[k].st = "waiting_sms", !.cases[k].cur = t],
   Stopped(s, t, 0)}
  \cup IF Current(s, t) THEN Reserved(s, t) ELSE {Outdated(s, t)}

\* A quote that failed may go on with another account.
QuoteFailed(s, t) == Continued(Stopped(s, t, t), s.tasks[t].case, s.tasks[t].mat)

\* _fail_quote_after_result_materialization: the image of the result cannot be made.
Unshown(s, t) == Stopped(s, t, t)

Succeeded(s, t) ==
  LET k == s.tasks[t].case IN
  [s EXCEPT !.tasks[t].st = "success", !.cases[k].st = "quoted", !.cases[k].cur = t]

\* Mutant: what was quoted is not compared with the material of now.
Recorded_NoLook(s, t) == {Unshown(s, t), Succeeded(s, t)}

\* A quote that succeeded
Recorded(s, t) == IF Current(s, t) THEN {Unshown(s, t), Succeeded(s, t)} ELSE {Outdated(s, t)}

\* _complete_waiting_task after quote
AfterQuote(s, t) == QuoteFailed(s, t) \cup {Stopped(s, t, t)} \cup Recorded(s, t)

Answers(s, t) ==
  LET ended == [s EXCEPT !.calls[t] = "none"] IN
  CASE s.tasks[t].st = "cancelled" -> {ended}
    [] s.calls[t] = "login" -> AfterCode(ended, t)
    [] OTHER -> AfterQuote(ended, t)

-----------------------------------------------------------------------------
Becomes(s) ==
  /\ cases' = s.cases /\ tasks' = s.tasks /\ calls' = s.calls
  /\ late' = (late \/ \E t \in DOMAIN tasks :
                     s.calls[t] # "none" /\ tasks[t].st = "running" /\ s.tasks[t].st = "failed")

\* handle_quote_message: as what a text is read.
Handled(r) ==
  Quoting(r) \cup Confirming(r) \cup Changing(r) \cup Redrawing(r) \cup GivingUp(r) \cup Coding(r)

\* _dispatch_rule_with_db
Dispatched(r) ==
  Handled(r) \cup Forming(r) \cup Asking(r)
  \cup UNION {Uploading(r, explicit, full) \cup Typing(r, full) : explicit, full \in BOOLEAN}

Message ==
  /\ messages < MaxMessages /\ messages' = messages + 1
  /\ ~late
  /\ \E s \in Dispatched(rows) : Becomes(s)
  /\ UNCHANGED config

PlatformAnswers ==
  /\ \E t \in DOMAIN calls : calls[t] # "none" /\ \E s \in Answers(rows, t) : Becomes(s)
  /\ UNCHANGED <<config, messages>>

TimePasses ==
  /\ \E t \in DOMAIN tasks : tasks[t].st \in Active /\ tasks[t].age <= StaleAfter
  /\ tasks' = [t \in DOMAIN tasks |->
       IF tasks[t].st \in Active /\ tasks[t].age <= StaleAfter THEN [tasks[t] EXCEPT !.age = @ + 1] ELSE tasks[t]]
  /\ UNCHANGED <<cases, calls, config, messages, late>>

\* Only a task that waits is compared with the parameters again.
ConfigChanges ==
  /\ config = 0 /\ config' = 1
  /\ \E t \in DOMAIN tasks : tasks[t].st \in Waits
  /\ UNCHANGED <<cases, tasks, calls, messages, late>>

\* What earlier versions may have left: a task that waits, with its case or, if the case
\* was rewritten, without.
Left == {<<"waiting_sms", "waiting_sms">>, <<"waiting_dup", "waiting_dup">>,
         <<"waiting_dup", "ready">>, <<"waiting_dup", "quoted">>}

Init ==
  /\ \E pair \in Left, mat, cur \in {0, 1} :
       /\ pair[1] = pair[2] => cur = 1
       /\ tasks = <<[case |-> 1, st |-> pair[1], mat |-> mat, config |-> 0, age |-> 0]>>
       /\ cases = <<[st |-> pair[2], cur |-> cur, mat |-> 1, full |-> TRUE, asked |-> TRUE]>>
  /\ calls = <<"none">> /\ config = 0 /\ messages = 0 /\ late = FALSE

Next == Message \/ PlatformAnswers \/ TimePasses \/ ConfigChanges

Spec == Init /\ [][Next]_vars

-----------------------------------------------------------------------------
TypeOK ==
  /\ \A k \in DOMAIN cases : cases[k] \in
       [st : {"collecting", "ready", "quoted"} \cup Waits, cur : 0 .. MaxTasks, mat : 0 .. MaxMessages + 1,
        full : BOOLEAN, asked : BOOLEAN]
  /\ \A t \in DOMAIN tasks : tasks[t] \in
       [case : DOMAIN cases, st : Active \cup {"failed", "cancelled", "success"}, mat : 0 .. MaxMessages + 1,
        config : {0, 1}, age : 0 .. StaleAfter + 1]
  /\ calls \in [DOMAIN tasks -> {"none", "login", "quote"}]
  /\ config \in {0, 1} /\ messages \in 0 .. MaxMessages /\ late \in BOOLEAN

(* A case has one attempt at a time, those that wait included: whatever resumes, replaces  *)
(* or supersedes a waiting task has ended it before another begins.                        *)
OneAttempt ==
  late \/ \A k \in DOMAIN cases :
    Cardinality({t \in DOMAIN tasks : tasks[t].case = k /\ tasks[t].st \in Active}) <= 1

(* A case waits if and only if the task it names waits for the same, so that a code is     *)
(* neither refused while it is waited for nor taken while the platform works.  What drifted*)
(* apart before is a confirmation, never a code.                                           *)
WaitTogether ==
  late \/
  /\ \A t \in DOMAIN tasks :
       tasks[t].st = "waiting_sms" => cases[tasks[t].case].st = "waiting_sms" /\ cases[tasks[t].case].cur = t
  /\ \A k \in DOMAIN cases :
       cases[k].st \in Waits => cases[k].cur # 0 /\ tasks[cases[k].cur].st = cases[k].st

(* What was left waiting ends in order.  Besides OneAttempt and WaitTogether: a success is  *)
(* one of an attempt that ran to its end, and of the material the case has when it is       *)
(* recorded, however often the task waited for a code in between.                           *)
WaitingEndsWell ==
  [][/\ OneAttempt' /\ WaitTogether'
     /\ \A t \in DOMAIN tasks : tasks[t].st # "success" /\ tasks'[t].st = "success" =>
          /\ tasks[t].st = "running" \/ late
          /\ tasks[t].mat = cases'[tasks[t].case].mat]_vars
================================================================================
