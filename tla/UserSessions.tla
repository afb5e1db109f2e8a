----------------------------- MODULE UserSessions -----------------------------
(***************************************************************************)
(* The sessions of one user (services/auth_service.py, api/deps.py): a     *)
(* login opens one and ends those that are too many or idle for too long,  *)
(* a call with a session's token touches it at most once per heartbeat or  *)
(* finds it idle for too long, a logout ends it.                           *)
(*                                                                         *)
(* A login counts on the snapshot its look for the user opened.  Its       *)
(* UPDATE scans the user's unexpired rows with locks, so it waits for      *)
(* another login's row, and of two such logins InnoDB rolls one back.      *)
(***************************************************************************)
EXTENDS Naturals, FiniteSets

CONSTANTS
  Logins,   \* numbers 1, 2, ...: logins, in the order of their rows' ids
  Calls,    \* calls in flight
  MaxActive, Timeout, Heartbeat,
  Never,
  LastTime  \* bound on the clock

VARIABLES
  rows,     \* login -> when its session was last active and whether it has expired
  pc, view, \* login -> its progress, the snapshot
  call,     \* the session a call has read, as it was, and what it will do to it
  now,
  begun,    \* history: login -> the sessions committed when it began
  opened    \* history: the sessions committed

vars == <<rows, pc, view, call, now, begun, opened>>

Live(table) == {s \in DOMAIN table : table[s] # Never /\ ~table[s].expired}
Idle(row) == now - row.active

-----------------------------------------------------------------------------
BeginLogin(s) ==
  /\ pc[s] = "none"
  /\ pc' = [pc EXCEPT ![s] = "begun"]
  /\ view' = [view EXCEPT ![s] = rows]
  /\ begun' = [begun EXCEPT ![s] = opened]
  /\ UNCHANGED <<rows, call, now, opened>>

\* The ids follow the inserts; a row is committed by FinishLogin.
Insert(s) ==
  /\ pc[s] = "begun" /\ \A t \in Logins : t < s => pc[t] \notin {"none", "begun"}
  /\ pc' = [pc EXCEPT ![s] = "inserted"]
  /\ view' = [view EXCEPT ![s][s] = [active |-> now, expired |-> FALSE]]
  /\ UNCHANGED <<rows, call, now, begun, opened>>

\* Mutant: the sessions that were used first come first.
Before_FirstUsed(table, s, t) ==
  table[s].active < table[t].active \/ (table[s].active = table[t].active /\ s > t)

\* The order of the sessions in a table: those used last come first.
Before(table, s, t) ==
  table[s].active > table[t].active \/ (table[s].active = table[t].active /\ s > t)

\* Mutant: the new session is left out of the limit.
Beyond_OneMore(table, own) ==
  {t \in Live(table) \ {own} :
     Cardinality({s \in Live(table) \ {own} : Before(table, s, t)}) >= MaxActive}

\* The other sessions beyond the limit.
Beyond(table, own) ==
  {t \in Live(table) \ {own} :
     Cardinality({s \in Live(table) \ {own} : Before(table, s, t)}) >= MaxActive - 1}

\* _cleanup_user_sessions and the commit.  What is idle is ended as it is now, what is too
\* many as the snapshot shows it, with what was ended before.
FinishLogin(s) ==
  LET own == [rows EXCEPT ![s] = view[s][s]]
      idle == {t \in Live(rows) : Idle(rows[t]) > Timeout}
      seen == [t \in Logins |-> IF t \in idle THEN [rows[t] EXCEPT !.expired = TRUE] ELSE view[s][t]]
      ended == idle \cup Beyond(seen, s) IN
  /\ pc[s] = "inserted" /\ \A t \in Logins \ {s} : pc[t] # "inserted"
  /\ rows' = [t \in Logins |-> IF t \in ended THEN [own[t] EXCEPT !.expired = TRUE] ELSE own[t]]
  /\ pc' = [pc EXCEPT ![s] = "done"]
  /\ view' = [view EXCEPT ![s] = Never]
  /\ opened' = opened \cup {s}
  /\ UNCHANGED <<call, now, begun>>

\* The victim of a deadlock of two logins, or any other failure.
FailLogin(s) ==
  /\ pc[s] \in {"begun", "inserted"}
  /\ pc' = [pc EXCEPT ![s] = "failed"]
  /\ view' = [view EXCEPT ![s] = Never]
  /\ UNCHANGED <<rows, call, now, begun, opened>>

Deed(row) ==
  IF Idle(row) > Timeout THEN "expire" ELSE IF Idle(row) > Heartbeat THEN "touch" ELSE "serve"

\* get_current_session reads an unexpired session ...
Read(c) ==
  /\ call[c] = Never
  /\ \E s \in Live(rows) : call' = [call EXCEPT ![c] = [session |-> s, row |-> rows[s], deed |-> Deed(rows[s]), at |-> now]]
  /\ UNCHANGED <<rows, pc, view, now, begun, opened>>

\* ... and writes: its two updates name no condition but the id.  Serving writes nothing,
\* and so does a write that fails.
Answer(c) ==
  /\ call[c] # Never
  /\ LET it == call[c] IN
     rows' = CASE it.deed = "touch" -> [rows EXCEPT ![it.session].active = it.at]
               [] it.deed = "expire" -> [rows EXCEPT ![it.session].expired = TRUE]
               [] OTHER -> rows
  /\ call' = [call EXCEPT ![c] = Never]
  /\ UNCHANGED <<pc, view, now, begun, opened>>

Drop(c) ==
  /\ call[c] # Never
  /\ call' = [call EXCEPT ![c] = Never]
  /\ UNCHANGED <<rows, pc, view, now, begun, opened>>

\* logout
Logout(c) ==
  /\ call[c] # Never /\ call[c].deed # "expire"
  /\ rows' = [rows EXCEPT ![call[c].session] = [active |-> now, expired |-> TRUE]]
  /\ call' = [call EXCEPT ![c] = Never]
  /\ UNCHANGED <<pc, view, now, begun, opened>>

Tick ==
  /\ now < LastTime /\ now' = now + 1
  /\ UNCHANGED <<rows, pc, view, call, begun, opened>>

Init ==
  /\ rows = [s \in Logins |-> Never]
  /\ pc = [s \in Logins |-> "none"] /\ view = [s \in Logins |-> Never]
  /\ call = [c \in Calls |-> Never]
  /\ now = 0
  /\ begun = [s \in Logins |-> {}] /\ opened = {}

Next ==
  \/ Tick
  \/ \E s \in Logins : BeginLogin(s) \/ Insert(s) \/ FinishLogin(s) \/ FailLogin(s)
  \/ \E c \in Calls : Read(c) \/ Answer(c) \/ Drop(c) \/ Logout(c)

Spec == Init /\ [][Next]_vars

-----------------------------------------------------------------------------
Session == [active : 0 .. LastTime, expired : BOOLEAN]
Tables == [Logins -> Session \cup {Never}]

TypeOK ==
  /\ rows \in Tables
  /\ pc \in [Logins -> {"none", "begun", "inserted", "done", "failed"}]
  /\ view \in [Logins -> Tables \cup {Never}]
  /\ \A c \in Calls : call[c] = Never \/
       call[c] \in [session : Logins, row : Session, deed : {"touch", "expire", "serve"}, at : 0 .. LastTime]
  /\ now \in 0 .. LastTime
  /\ begun \in [Logins -> SUBSET Logins] /\ opened \subseteq Logins

\* No more sessions than the limit, except that each login whose count did not see another
\* one that committed meanwhile may leave one more.
SessionsLimited ==
  LET live == Live(rows) IN
  Cardinality(live) <= MaxActive
    + Cardinality({t \in live : \E s \in live \ {t} : t \notin begun[s] /\ s \notin begun[t]})

\* A session that is alive and was used within the timeout stays, unless its user logs out,
\* or logs in so often that MaxActive others are as recent - or a call that found it idle, or
\* a login that counted, read the row before it was used.
UsedStays ==
  \A s \in Live(rows) : rows'[s].expired /\ Idle(rows[s]) <= Timeout =>
    \/ rows'[s].active = now
    \/ \E c \in Calls : call[c] # Never /\ call[c].session = s /\ call'[c] = Never
    \/ \E t \in opened' \ opened :
         \/ view[t][s] # rows[s]
         \/ Cardinality({o \in Live(view[t]) \ {s} : view[t][o].active >= rows[s].active}) >= MaxActive

(* The sessions of a user stay within their limit, and one in use is not ended for it,     *)
(* but for logins and calls that decide on rows they read before.                          *)
SessionsKept == [][SessionsLimited' /\ UsedStays]_vars
===============================================================================
