----------------------------- MODULE AccountQuota -----------------------------
(***************************************************************************)
(* The query quota of one platform account: its quota row, quota_status in *)
(* the account row, and the requests that pick the account, reserve a use, *)
(* ask the platform and settle (services/quote_assistant_service.py).      *)
(*                                                                         *)
(* A request reads both rows through its snapshot when it picks the        *)
(* account, ends a finished period in memory and flushes that with its     *)
(* task.  The reservation reads the quota row again FOR UPDATE and keeps   *)
(* it locked until the platform's answer is committed; the account object  *)
(* stays as it was first read.                                             *)
(***************************************************************************)
EXTENDS Naturals

CONSTANTS
  Requests,
  Layouts,     \* the instances: whether requests overlap, quota_limit, the last day
  NoOne

VARIABLES
  layout,      \* the instance of this behaviour
  period,      \* of the quota: "day", "week", or "none" without a quota row
  today,
  db,          \* the committed rows
  lock,        \* the request that has locked them
  pc,
  seen,        \* the rows as a request last read or flushed them
  mem,         \* the rows in its memory
  previous,    \* used_count before its reservation
  accepted,    \* quotes the platform has counted today
  granted,     \* history: quotes that succeeded, by the end of the period they were reserved in
  unclaimed    \* history: quotes the platform counted and the request then lost

vars == <<layout, period, today, db, lock, pc, seen, mem, previous, accepted, granted, unclaimed>>
clock == <<layout, period, today>>
history == <<accepted, granted, unclaimed>>

ASSUME NobodyAsks == NoOne \notin Requests
ASSUME LayoutsTyped == Layouts \subseteq [concurrent : BOOLEAN, limit : Nat, lastDay : Nat]

Limit == layout.limit
Days == 0 .. layout.lastDay
Ends == 1 .. layout.lastDay + 2
Statuses == {"unknown", "available", "full"}

Rows == [used : Nat, end : Ends, status : Statuses]

Max2(a, b) == IF a >= b THEN a ELSE b
Configured == period # "none"

\* _quota_period_bounds: a week has two days here.
PeriodEnd == IF period = "week" THEN 2 * (today \div 2) + 2 ELSE today + 1

Over(rows) == today >= rows.end

\* Mutant: the period ends one day late.
Renewed_Late(rows) ==
  IF today > rows.end THEN [rows EXCEPT !.used = 0, !.end = PeriodEnd] ELSE rows

\* _reset_account_quota_if_needed
Renewed(rows) == IF Over(rows) THEN [rows EXCEPT !.used = 0, !.end = PeriodEnd] ELSE rows

\* Mutant: one use is kept back from nobody.
UsedUp_OffByOne(rows) == rows.used > Limit

UsedUp(rows) == rows.used >= Limit

\* _sync_account_quota_status: what is full stays so until the period ends.
Synced(rows, reset) ==
  [rows EXCEPT !.status = IF UsedUp(rows) THEN "full"
                          ELSE IF reset \/ @ = "unknown" THEN "available" ELSE @]

\* The ORM sends the columns that differ from those it loaded.
Flushed(rows, old, new) ==
  [c \in {"used", "end", "status"} |-> IF new[c] = old[c] THEN rows[c] ELSE new[c]]

Active == {r \in Requests : pc[r] \notin {"idle", "done"}}

Init ==
  /\ layout \in Layouts
  /\ period \in {"day", "week", "none"}
  /\ today = 0
  /\ \E used \in 0 .. Limit :
       db = [used |-> used, end |-> PeriodEnd, status |-> IF used = Limit THEN "full" ELSE "unknown"]
  /\ lock = NoOne
  /\ pc = [r \in Requests |-> "idle"]
  /\ seen = [r \in Requests |-> db]
  /\ mem = [r \in Requests |-> db]
  /\ previous = [r \in Requests |-> 0]
  /\ accepted = 0
  /\ granted = [e \in Ends |-> IF e = db.end THEN db.used ELSE 0]
  /\ unclaimed = 0

-----------------------------------------------------------------------------
Goto(r, where) == pc' = [pc EXCEPT ![r] = where]

\* A new quote looks for an account; one that has waited for a code has its account.
Begin(r) ==
  /\ pc[r] = "idle"
  /\ layout.concurrent \/ Active = {}
  /\ seen' = [seen EXCEPT ![r] = db]
  /\ mem' = [mem EXCEPT ![r] = db]
  /\ \E where \in {"select", "reserve"} : Goto(r, where)
  /\ UNCHANGED <<clock, db, lock, previous, history>>

\* _load_account_quota_map and the choice behind it, without any lock.
Select(r) ==
  LET rows == IF ~Configured THEN mem[r]
              ELSE Synced(Renewed(mem[r]), Over(mem[r])) IN
  /\ pc[r] = "select"
  /\ mem' = [mem EXCEPT ![r] = rows]
  /\ Goto(r, IF rows.status = "full" THEN "refuse" ELSE "publish")
  /\ UNCHANGED <<clock, db, lock, seen, previous, history>>

\* The commit of the new task, or of the refusal, takes along what the selection has
\* changed; it waits for the lock of the rows it writes.
Publish(r) ==
  /\ pc[r] \in {"publish", "refuse"}
  /\ mem[r] = seen[r] \/ lock = NoOne
  /\ db' = Flushed(db, seen[r], mem[r])
  /\ seen' = [seen EXCEPT ![r] = mem[r]]
  /\ Goto(r, IF pc[r] = "publish" THEN "reserve" ELSE "done")
  /\ UNCHANGED <<clock, lock, mem, previous, history>>

\* Mutant: the use is reserved in the row as the selection saw it.
FreshRows_AsSeen(r) == mem[r]

\* The quota as it is now, the status as the account object has it.
FreshRows(r) == [db EXCEPT !.status = mem[r].status]

\* _reserve_account_quota_for_quote.  previous_used_count is read before the period is
\* looked at.  A full account ends the attempt, marked full and committed.
Reserve(r) ==
  LET fresh == FreshRows(r)
      rows == Renewed(fresh) IN
  /\ pc[r] = "reserve" /\ Configured
  /\ lock = NoOne
  /\ previous' = [previous EXCEPT ![r] = fresh.used]
  /\ \/ /\ UsedUp(rows)
        /\ db' = Flushed(db, fresh, Synced(rows, FALSE))
        /\ Goto(r, "done")
        /\ UNCHANGED <<lock, seen, mem>>
     \/ /\ ~UsedUp(rows)
        /\ lock' = r
        /\ mem' = [mem EXCEPT ![r] = Synced([rows EXCEPT !.used = @ + 1], Over(fresh))]
        /\ seen' = [seen EXCEPT ![r] = fresh]
        /\ Goto(r, "call")
        /\ UNCHANGED db
  /\ UNCHANGED <<clock, history>>

\* An account without a quota row is used without a reservation.
SkipReservation(r) ==
  /\ pc[r] = "reserve" /\ ~Configured
  /\ Goto(r, "call")
  /\ UNCHANGED <<clock, db, lock, seen, mem, previous, history>>

\* The platform quotes and counts it, declines, or refuses for its own limit.
Answer(r) ==
  /\ pc[r] = "call"
  /\ \/ Goto(r, "quoted") /\ accepted' = accepted + 1
     \/ Goto(r, "declined") /\ UNCHANGED accepted
     \/ Goto(r, "limited") /\ UNCHANGED accepted
  /\ UNCHANGED <<clock, db, lock, seen, mem, previous, granted, unclaimed>>

\* The rows are written and unlocked by the commit at the end.
Settle(r, rows) ==
  /\ db' = Flushed(db, seen[r], rows)
  /\ lock' = IF lock = r THEN NoOne ELSE lock
  /\ Goto(r, "done")
  /\ UNCHANGED <<clock, seen, mem, previous>>

\* _reconcile_account_quota_with_platform_usage: if the platform reports its count of
\* the day, a daily quota is raised to it.
Reconciled(rows, reported) ==
  LET now == Renewed(rows) IN
  Synced(IF period = "day" THEN [now EXCEPT !.used = Max2(@, reported)] ELSE now, Over(rows))

\* _mark_platform_account_used, _record_account_quota_consumed and the reconciliation
Succeed(r) ==
  LET used == [mem[r] EXCEPT !.status = IF @ = "unknown" THEN "available" ELSE @] IN
  /\ pc[r] = "quoted"
  /\ granted' = IF Configured THEN [granted EXCEPT ![mem[r].end] = @ + 1] ELSE granted
  /\ \/ Settle(r, used)
     \/ Configured /\ Settle(r, Reconciled(used, accepted))
  /\ UNCHANGED <<accepted, unclaimed>>

\* Mutant: a reservation that came to nothing is kept.
Released_Kept(r) == Synced(mem[r], TRUE)

Released(r) ==
  Synced([mem[r] EXCEPT !.used = Max2(previous[r], IF @ = 0 THEN 0 ELSE @ - 1)], TRUE)

\* _release_account_quota_reservation, when the quote failed or is no longer wanted
Release(r) ==
  LET rows == IF Configured THEN Released(r) ELSE mem[r] IN
  /\ pc[r] \in {"quoted", "declined", "limited"}
  /\ Settle(r, IF pc[r] = "limited" THEN [rows EXCEPT !.status = "full"] ELSE rows)
  /\ unclaimed' = IF pc[r] = "quoted" THEN unclaimed + 1 ELSE unclaimed
  /\ UNCHANGED <<accepted, granted>>

\* A crash, or a lock wait that takes too long: nothing is written.
Abort(r) ==
  /\ r \in Active
  /\ lock' = IF lock = r THEN NoOne ELSE lock
  /\ unclaimed' = IF pc[r] = "quoted" THEN unclaimed + 1 ELSE unclaimed
  /\ Goto(r, "done")
  /\ UNCHANGED <<clock, db, seen, mem, previous, accepted, granted>>

Midnight ==
  /\ today < layout.lastDay
  /\ today' = today + 1
  /\ accepted' = 0
  /\ UNCHANGED <<layout, period, db, lock, pc, seen, mem, previous, granted, unclaimed>>

Next ==
  \/ \E r \in Requests :
       \/ Begin(r) \/ Select(r) \/ Publish(r) \/ Reserve(r) \/ SkipReservation(r)
       \/ Answer(r) \/ Succeed(r) \/ Release(r) \/ Abort(r)
  \/ Midnight

Spec == Init /\ [][Next]_vars

-----------------------------------------------------------------------------
TypeOK ==
  /\ layout \in Layouts
  /\ period \in {"day", "week", "none"} /\ today \in Days
  /\ db \in Rows /\ lock \in Requests \cup {NoOne}
  /\ pc \in [Requests -> {"idle", "select", "refuse", "publish", "reserve", "call",
                          "quoted", "declined", "limited", "done"}]
  /\ seen \in [Requests -> Rows] /\ mem \in [Requests -> Rows]
  /\ previous \in [Requests -> Nat]
  /\ accepted \in Nat /\ granted \in [Ends -> Nat] /\ unclaimed \in Nat

(* "A successful quote deducts one" (_record_account_quota_consumed, line 4305): the    *)
(* count of the running period is never below the quotes that succeeded in it.          *)
SuccessesCounted == Configured => db.used >= granted[db.end]

(* However many requests find the account free, no more quotes succeed in a period than *)
(* its limit allows (the reservation, not the selection, decides).                      *)
NoOverspend == \A e \in Ends : granted[e] <= Limit

(* Within one period a failed, superseded or crashed attempt leaves no use behind: what *)
(* is counted succeeded, or was counted by the platform (release and rollback).         *)
NoPhantomUse == Configured /\ layout.lastDay = 0 => db.used <= granted[db.end] + unclaimed

(* The count of an account is its quotes, not more and not fewer, and within its limit. *)
UsesTrue == SuccessesCounted /\ NoOverspend /\ NoPhantomUse
=============================================================================
