-------------------------- MODULE AccountQuotaProofs --------------------------
(***************************************************************************)
(* Type correctness of AccountQuota, and that the count of an account is   *)
(* its quotes and within its limit, for any number of requests and any     *)
(* limit, when quotes do not overlap the end of a period: when they follow *)
(* each other, on any number of days, or overlap within one day.           *)
(* At the end: that the amounts shown of results stay true to the bill,    *)
(* and that recalled images and overlapping messages leave the material of *)
(* a case as they may.                                                     *)
(***************************************************************************)
EXTENDS AccountQuota, Integers, SequenceTheorems, WellFoundedInduction, TLAPS

Places == {"idle", "select", "refuse", "publish", "reserve", "call", "quoted", "declined",
           "limited", "done"}

\* A period that begins today ends later, and within the days the model counts.
LEMMA PeriodEndTyped ==
  ASSUME LayoutsTyped, layout \in Layouts, today \in Days
  PROVE  PeriodEnd \in Ends /\ PeriodEnd > today /\ today \in Nat
<1>1. layout.lastDay \in Nat /\ today \in Nat /\ today <= layout.lastDay
  BY DEF LayoutsTyped, Days
<1>2. PeriodEnd \in {today + 1, 2 * (today \div 2) + 2}
  BY DEF PeriodEnd
<1>3. 2 * (today \div 2) + 2 > today /\ 2 * (today \div 2) <= today /\ today \div 2 \in Nat
  BY <1>1
<1> QED
  BY <1>1, <1>2, <1>3 DEF Ends

\* What the helpers make of the rows stays in their type.
LEMMA RowsTyped ==
  ASSUME LayoutsTyped, layout \in Layouts, today \in Days,
         NEW rows \in Rows, NEW old \in Rows, NEW new \in Rows
  PROVE  /\ Renewed(rows) \in Rows
         /\ \A reset \in BOOLEAN : Synced(rows, reset) \in Rows
         /\ Flushed(rows, old, new) \in Rows
<1>1. Renewed(rows) \in Rows
  BY PeriodEndTyped DEF Renewed, Rows
<1>2. \A reset \in BOOLEAN : Synced(rows, reset) \in Rows
  BY DEF Synced, Rows, Statuses
<1>3. Flushed(rows, old, new) \in Rows
  BY DEF Flushed, Rows
<1> QED
  BY <1>1, <1>2, <1>3

\* What they say of the columns that count.
LEMMA RowsCounted ==
  ASSUME NEW rows \in Rows, NEW reset
  PROVE  /\ Renewed(rows).used = IF Over(rows) THEN 0 ELSE rows.used
         /\ Renewed(rows).end = IF Over(rows) THEN PeriodEnd ELSE rows.end
         /\ Synced(rows, reset).used = rows.used
         /\ Synced(rows, reset).end = rows.end
  BY DEF Renewed, Synced, Rows

\* A flush writes the columns that differ from what was read.
LEMMA FlushedCounted ==
  ASSUME NEW rows \in Rows, NEW old \in Rows, NEW new \in Rows
  PROVE  /\ Flushed(rows, old, new).used = IF new.used = old.used THEN rows.used ELSE new.used
         /\ Flushed(rows, old, new).end = IF new.end = old.end THEN rows.end ELSE new.end
  BY DEF Flushed, Rows

\* The commit at the end of an attempt.
LEMMA SettleTyped ==
  ASSUME LayoutsTyped, TypeOK, NEW r \in Requests, NEW rows \in Rows, Settle(r, rows)
  PROVE  /\ db' \in Rows /\ lock' \in Requests \cup {NoOne}
         /\ pc' \in [Requests -> Places]
         /\ UNCHANGED <<clock, seen, mem, previous>>
<1>1. layout \in Layouts /\ today \in Days /\ db \in Rows /\ seen[r] \in Rows
  BY DEF TypeOK
<1>2. db' \in Rows
  BY <1>1, RowsTyped DEF Settle
<1> QED
  BY <1>2 DEF Settle, Goto, TypeOK, Places

-----------------------------------------------------------------------------
\* Every reachable state is well typed.
THEOREM Typed == Spec => []TypeOK
<1> USE NobodyAsks, LayoutsTyped
<1>1. Init => TypeOK
  <2> SUFFICES ASSUME Init PROVE TypeOK
    OBVIOUS
  <2>1. layout \in Layouts /\ layout.limit \in Nat /\ layout.lastDay \in Nat /\ today \in Days
    BY DEF Init, Days, LayoutsTyped
  <2>2. PeriodEnd \in Ends
    BY <2>1, PeriodEndTyped
  <2>3. db \in Rows
    BY <2>1, <2>2 DEF Init, Rows, Statuses, Limit
  <2>4. granted \in [Ends -> Nat]
    BY <2>3 DEF Init, Rows
  <2> QED
    BY <2>1, <2>3, <2>4 DEF Init, TypeOK
<1>2. TypeOK /\ [Next]_vars => TypeOK'
  <2> SUFFICES ASSUME TypeOK, [Next]_vars PROVE TypeOK'
    OBVIOUS
  <2> USE DEF clock, history
  <2>0. layout \in Layouts /\ today \in Days /\ db \in Rows /\ layout.lastDay \in Nat
    BY DEF TypeOK, LayoutsTyped
  <2>r. ASSUME NEW r \in Requests PROVE seen[r] \in Rows /\ mem[r] \in Rows /\ previous[r] \in Nat
    BY DEF TypeOK
  <2>begin. ASSUME NEW r \in Requests, Begin(r) PROVE TypeOK'
    BY <2>begin, <2>0 DEF Begin, Goto, TypeOK, Rows, Ends, Days
  <2>select. ASSUME NEW r \in Requests, Select(r) PROVE TypeOK'
    <3> DEFINE rows == IF ~Configured THEN mem[r] ELSE Synced(Renewed(mem[r]), Over(mem[r]))
    <3>1. rows \in Rows
      <4>1. Renewed(mem[r]) \in Rows /\ Over(mem[r]) \in BOOLEAN
        BY <2>0, <2>r, RowsTyped DEF Over
      <4> QED
        BY <4>1, <2>0, <2>r, RowsTyped
    <3> HIDE DEF rows
    <3>2. mem' = [mem EXCEPT ![r] = rows]
      BY <2>select DEF Select, rows
    <3>3. mem' \in [Requests -> Rows] /\ UNCHANGED <<clock, db, lock, seen, previous, history>>
      BY <2>select, <3>1, <3>2 DEF TypeOK, Select
    <3>4. pc' \in [Requests -> Places]
      BY <2>select DEF Select, Goto, TypeOK, Places
    <3> QED
      BY <3>3, <3>4 DEF TypeOK, Places, Rows, Ends, Days
  <2>publish. ASSUME NEW r \in Requests, Publish(r) PROVE TypeOK'
    <3>1. db' \in Rows
      BY <2>publish, <2>0, <2>r, RowsTyped DEF Publish
    <3>2. seen' \in [Requests -> Rows] /\ pc' \in [Requests -> Places]
      BY <2>publish, <2>r DEF Publish, Goto, TypeOK, Places
    <3> QED
      BY <2>publish, <3>1, <3>2 DEF Publish, TypeOK, Places, Rows, Ends, Days
  <2>reserve. ASSUME NEW r \in Requests, Reserve(r) PROVE TypeOK'
    <3> DEFINE fresh == FreshRows(r)
               rows == Renewed(fresh)
               kept == Synced(rows, FALSE)
               taken == Synced([rows EXCEPT !.used = @ + 1], Over(fresh))
    <3>1. fresh \in Rows
      BY <2>0, <2>r DEF FreshRows, Rows
    <3>2. rows \in Rows /\ Over(fresh) \in BOOLEAN
      BY <2>0, <3>1, RowsTyped DEF Over
    <3>3. [rows EXCEPT !.used = @ + 1] \in Rows
      BY <3>2 DEF Rows
    <3>4. kept \in Rows /\ taken \in Rows
      BY <2>0, <3>2, <3>3, RowsTyped
    <3>5. Flushed(db, fresh, kept) \in Rows
      BY <2>0, <3>1, <3>4, RowsTyped
    <3> HIDE DEF fresh, rows, kept, taken
    <3>6. fresh.used \in Nat
      BY <3>1 DEF Rows
    <3>7. /\ previous' = [previous EXCEPT ![r] = fresh.used]
          /\ pc' \in [Requests -> Places]
          /\ \/ db' = Flushed(db, fresh, kept) /\ UNCHANGED <<lock, seen, mem>>
             \/ /\ lock' = r /\ db' = db
                /\ mem' = [mem EXCEPT ![r] = taken] /\ seen' = [seen EXCEPT ![r] = fresh]
          /\ UNCHANGED <<clock, history>>
      BY <2>reserve DEF Reserve, Goto, TypeOK, Places, fresh, rows, kept, taken
    <3>8. db' \in Rows /\ lock' \in Requests \cup {NoOne}
          /\ mem' \in [Requests -> Rows] /\ seen' \in [Requests -> Rows]
          /\ previous' \in [Requests -> Nat]
      BY <2>0, <3>1, <3>4, <3>5, <3>6, <3>7 DEF TypeOK
    <3> QED
      BY <3>7, <3>8 DEF TypeOK, Places, Rows, Ends, Days
  <2>skip. ASSUME NEW r \in Requests, SkipReservation(r) PROVE TypeOK'
    BY <2>skip, <2>0 DEF SkipReservation, Goto, TypeOK, Rows, Ends, Days
  <2>answer. ASSUME NEW r \in Requests, Answer(r) PROVE TypeOK'
    <3>1. /\ \E where \in {"quoted", "declined", "limited"} : pc' = [pc EXCEPT ![r] = where]
          /\ accepted' \in {accepted, accepted + 1}
          /\ UNCHANGED <<clock, db, lock, seen, mem, previous, granted, unclaimed>>
      BY <2>answer DEF Answer, Goto
    <3>2. pc' \in [Requests -> Places] /\ accepted' \in Nat
      BY <3>1 DEF TypeOK, Places
    <3> QED
      BY <3>1, <3>2 DEF TypeOK, Places, Rows, Ends, Days
  <2>succeed. ASSUME NEW r \in Requests, Succeed(r) PROVE TypeOK'
    <3> DEFINE used == [mem[r] EXCEPT !.status = IF @ = "unknown" THEN "available" ELSE @]
    <3>1. used \in Rows
      BY <2>r DEF Rows, Statuses
    <3>2. Reconciled(used, accepted) \in Rows
      <4> DEFINE now == Renewed(used)
                 raised == IF period = "day" THEN [now EXCEPT !.used = Max2(@, accepted)] ELSE now
      <4>1. now \in Rows /\ Over(used) \in BOOLEAN
        BY <2>0, <3>1, RowsTyped DEF Over
      <4>2. raised \in Rows
        BY <4>1 DEF Rows, Max2, TypeOK
      <4> QED
        BY <2>0, <4>1, <4>2, RowsTyped DEF Reconciled
    <3> HIDE DEF used
    <3>3. Settle(r, used) \/ Settle(r, Reconciled(used, accepted))
      BY <2>succeed DEF Succeed, used
    <3>4. /\ db' \in Rows /\ lock' \in Requests \cup {NoOne} /\ pc' \in [Requests -> Places]
          /\ UNCHANGED <<clock, seen, mem, previous>>
      BY <3>1, <3>2, <3>3, SettleTyped
    <3>5. granted' \in [Ends -> Nat] /\ UNCHANGED <<accepted, unclaimed>>
      <4>1. granted \in [Ends -> Nat] /\ mem[r].end \in Ends
        BY <2>r DEF TypeOK, Rows
      <4>2. granted' = granted \/ granted' = [granted EXCEPT ![mem[r].end] = granted[mem[r].end] + 1]
        BY <2>succeed DEF Succeed
      <4> QED
        BY <4>1, <4>2, <2>succeed DEF Succeed
    <3> QED
      BY <3>4, <3>5 DEF TypeOK, Places, Rows, Ends, Days
  <2>release. ASSUME NEW r \in Requests, Release(r) PROVE TypeOK'
    <3> DEFINE rows == IF Configured THEN Released(r) ELSE mem[r]
               last == IF pc[r] = "limited" THEN [rows EXCEPT !.status = "full"] ELSE rows
               less == [mem[r] EXCEPT !.used = Max2(previous[r], IF @ = 0 THEN 0 ELSE @ - 1)]
    <3>1. less \in Rows
      BY <2>r DEF Rows, Max2
    <3>2. rows \in Rows
      BY <3>1, <2>0, <2>r, RowsTyped DEF Released
    <3>3. last \in Rows
      BY <3>2 DEF Rows, Statuses
    <3> HIDE DEF last
    <3>4. Settle(r, last) /\ UNCHANGED <<accepted, granted>> /\ unclaimed' \in Nat
      BY <2>release DEF Release, last, TypeOK
    <3>5. /\ db' \in Rows /\ lock' \in Requests \cup {NoOne} /\ pc' \in [Requests -> Places]
          /\ UNCHANGED <<clock, seen, mem, previous>>
      BY <3>3, <3>4, SettleTyped
    <3> QED
      BY <3>4, <3>5 DEF TypeOK, Places, Rows, Ends, Days
  <2>abort. ASSUME NEW r \in Requests, Abort(r) PROVE TypeOK'
    BY <2>abort, <2>0, SMTT(30) DEF Abort, Goto, TypeOK, Rows, Ends, Days
  <2>midnight. CASE Midnight
    BY <2>midnight, <2>0, SMTT(30) DEF Midnight, TypeOK, Rows, Ends, Days
  <2>stutter. CASE UNCHANGED vars
    BY <2>stutter DEF vars, TypeOK, Rows, Ends, Days
  <2> QED
    BY <2>begin, <2>select, <2>publish, <2>reserve, <2>skip, <2>answer, <2>succeed, <2>release,
       <2>abort, <2>midnight, <2>stutter DEF Next
<1> QED
  BY <1>1, <1>2, PTL DEF Spec

-----------------------------------------------------------------------------
(***************************************************************************)
(* Uses.  The reservation holds the row lock until its attempt is settled, *)
(* so that while it is held db is what the reservation read; a selection   *)
(* that ended a period on its own decides only when nobody else is at      *)
(* work.                                                                   *)
(***************************************************************************)

\* Quotes follow each other, or overlap within one day.
Orderly == ~layout.concurrent \/ layout.lastDay = 0

Holding == {"call", "quoted", "declined", "limited"}

AsRead(r) == seen[r].used = db.used /\ seen[r].end = db.end

LockIsReservation == \A r \in Requests : lock = r <=> Configured /\ pc[r] \in Holding

OneAtATime == ~layout.concurrent => \A r, s \in Active : r = s

Selections ==
  \A r \in Requests : pc[r] \in {"select", "publish", "refuse"} =>
    /\ ~layout.concurrent => AsRead(r)
    /\ \/ mem[r].used = seen[r].used /\ mem[r].end = seen[r].end
       \/ /\ ~layout.concurrent /\ layout.lastDay # 0
          /\ mem[r].used = 0 /\ mem[r].end > seen[r].end /\ pc[r] # "select"

Reservations ==
  \A r \in Requests : lock = r =>
    /\ AsRead(r) /\ previous[r] = db.used /\ mem[r].used <= Limit
    /\ \/ mem[r].end = db.end /\ mem[r].used = db.used + 1
       \/ ~layout.concurrent /\ layout.lastDay # 0 /\ mem[r].end > db.end /\ mem[r].used = 1

LaterUngranted == \A e \in Ends : e > db.end => granted[e] = 0

\* What the platform counted and no success has claimed yet is the quote being settled.
Claims ==
  layout.lastDay = 0 =>
    accepted <= granted[db.end] + unclaimed
                  + (IF \E r \in Requests : lock = r /\ pc[r] = "quoted" THEN 1 ELSE 0)

CountInv == Orderly /\ Configured =>
  Selections /\ Reservations /\ LaterUngranted /\ Claims /\ SuccessesCounted /\ NoPhantomUse

UsesInv ==
  /\ TypeOK /\ LockIsReservation /\ OneAtATime /\ CountInv
  /\ Orderly => NoOverspend

\* The row lock is held from the reservation to the commit, by one request at a time.
LEMMA LockKept ==
  ASSUME NobodyAsks, TypeOK, LockIsReservation, OneAtATime, [Next]_vars
  PROVE  LockIsReservation' /\ OneAtATime'
<1> USE NobodyAsks DEF clock, history
<1>0. /\ pc \in [Requests -> Places] /\ lock \in Requests \cup {NoOne}
      /\ Configured' <=> Configured
      /\ layout' = layout
  <2>1. UNCHANGED <<layout, period>>
    BY DEF Next, vars, Begin, Select, Publish, Reserve, SkipReservation, Answer, Succeed, Release,
           Settle, Abort, Midnight
  <2> QED
    BY <2>1 DEF TypeOK, Places, Configured
\* A request that moves on without the lock.
<1>1. ASSUME NEW r \in Requests, NEW p \in Places \ Holding, Goto(r, p), lock' = lock,
             pc[r] \notin Holding, pc[r] \in {"idle", "done"} => layout.concurrent \/ Active = {}
      PROVE  LockIsReservation' /\ OneAtATime'
  <2>1. LockIsReservation'
    BY <1>0, <1>1 DEF Goto, LockIsReservation
  <2>2. OneAtATime'
    BY <1>0, <1>1 DEF Goto, OneAtATime, Active
  <2> QED
    BY <2>1, <2>2
\* One that ends and gives the lock back if it has it.
<1>2. ASSUME NEW r \in Requests, Goto(r, "done"), lock' = IF lock = r THEN NoOne ELSE lock
      PROVE  LockIsReservation' /\ OneAtATime'
  <2>1. LockIsReservation'
    BY <1>0, <1>2 DEF Goto, LockIsReservation, Holding
  <2>2. OneAtATime'
    BY <1>0, <1>2 DEF Goto, OneAtATime, Active
  <2> QED
    BY <2>1, <2>2
<1>3. ASSUME NEW r \in Requests, NEW p \in Holding, Goto(r, p), pc[r] \in Holding \cup {"reserve"},
             lock' = IF Configured THEN r ELSE lock, pc[r] \in Holding \/ ~Configured \/ lock = NoOne
      PROVE  LockIsReservation' /\ OneAtATime'
  <2>1. LockIsReservation'
    BY <1>0, <1>3 DEF Goto, LockIsReservation, Holding
  <2>2. OneAtATime'
    BY <1>0, <1>3 DEF Goto, OneAtATime, Active, Holding
  <2> QED
    BY <2>1, <2>2
<1>4. CASE UNCHANGED <<lock, pc>>
  BY <1>0, <1>4 DEF LockIsReservation, OneAtATime, Active
<1>begin. ASSUME NEW r \in Requests, Begin(r) PROVE LockIsReservation' /\ OneAtATime'
  <2>1. \E p \in Places \ Holding : Goto(r, p)
    BY <1>begin DEF Begin, Places, Holding
  <2> QED
    BY <1>1, <1>begin, <2>1 DEF Begin, Holding
<1>select. ASSUME NEW r \in Requests, Select(r) PROVE LockIsReservation' /\ OneAtATime'
  <2>1. \E p \in Places \ Holding : Goto(r, p)
    BY <1>select DEF Select, Places, Holding
  <2> QED
    BY <1>1, <1>select, <2>1 DEF Select, Holding
<1>publish. ASSUME NEW r \in Requests, Publish(r) PROVE LockIsReservation' /\ OneAtATime'
  <2>1. \E p \in Places \ Holding : Goto(r, p)
    BY <1>publish DEF Publish, Places, Holding
  <2> QED
    BY <1>1, <1>publish, <2>1 DEF Publish, Holding
<1>reserve. ASSUME NEW r \in Requests, Reserve(r) PROVE LockIsReservation' /\ OneAtATime'
  <2>1. CASE Goto(r, "done") /\ lock' = lock
    BY <1>1, <1>reserve, <2>1 DEF Reserve, Places, Holding
  <2>2. CASE Goto(r, "call") /\ lock' = r
    BY <1>3, <1>reserve, <2>2 DEF Reserve, Holding
  <2> QED
    BY <1>reserve, <2>1, <2>2 DEF Reserve
<1>skip. ASSUME NEW r \in Requests, SkipReservation(r) PROVE LockIsReservation' /\ OneAtATime'
  BY <1>3, <1>skip DEF SkipReservation, Holding
<1>answer. ASSUME NEW r \in Requests, Answer(r) PROVE LockIsReservation' /\ OneAtATime'
  <2>1. \E p \in Holding : Goto(r, p)
    BY <1>answer DEF Answer, Holding
  <2>2. lock' = IF Configured THEN r ELSE lock
    BY <1>0, <1>answer DEF Answer, LockIsReservation, Holding
  <2> QED
    BY <1>3, <1>answer, <2>1, <2>2 DEF Answer, Holding
<1>succeed. ASSUME NEW r \in Requests, Succeed(r) PROVE LockIsReservation' /\ OneAtATime'
  BY <1>2, <1>succeed DEF Succeed, Settle
<1>release. ASSUME NEW r \in Requests, Release(r) PROVE LockIsReservation' /\ OneAtATime'
  BY <1>2, <1>release DEF Release, Settle
<1>abort. ASSUME NEW r \in Requests, Abort(r) PROVE LockIsReservation' /\ OneAtATime'
  BY <1>2, <1>abort DEF Abort
<1> QED
  BY <1>4, <1>begin, <1>select, <1>publish, <1>reserve, <1>skip, <1>answer, <1>succeed, <1>release,
     <1>abort DEF Next, Midnight, vars

\* What a step that leaves the counts, the holders and the day alone preserves.
LEMMA CountsAlone ==
  ASSUME TypeOK, CountInv, db'.used = db.used, db'.end = db.end,
         UNCHANGED <<layout, period, lock, previous, accepted, granted, unclaimed>>,
         NEW r \in Requests, pc[r] # "quoted",
         \A q \in Requests \ {r} : pc'[q] = pc[q] /\ mem'[q] = mem[q] /\ seen'[q] = seen[q],
         lock # r, Orderly, Configured, pc'[r] # "quoted",
         pc'[r] \in {"select", "publish", "refuse"} =>
           /\ ~layout.concurrent => seen'[r].used = db.used /\ seen'[r].end = db.end
           /\ \/ mem'[r].used = seen'[r].used /\ mem'[r].end = seen'[r].end
              \/ /\ ~layout.concurrent /\ layout.lastDay # 0
                 /\ mem'[r].used = 0 /\ mem'[r].end > seen'[r].end /\ pc'[r] # "select"
  PROVE  CountInv'
<1>1. /\ Selections /\ Reservations /\ LaterUngranted /\ Claims /\ SuccessesCounted
      /\ NoPhantomUse
  BY DEF CountInv
<1>2. Selections'
  BY <1>1 DEF Selections, AsRead
<1>3. Reservations'
  BY <1>1 DEF Reservations, AsRead, Limit
<1>4. LaterUngranted'
  BY <1>1 DEF LaterUngranted, Ends
<1>5. Claims'
  BY <1>1 DEF Claims
<1>6. SuccessesCounted' /\ NoPhantomUse'
  BY <1>1 DEF SuccessesCounted, NoPhantomUse, Configured
<1> QED
  BY <1>2, <1>3, <1>4, <1>5, <1>6 DEF CountInv

\* A day is over only after the first, so that no period ends within one day.
LEMMA NoneOver ==
  ASSUME LayoutsTyped, TypeOK, NEW rows \in Rows, Over(rows)
  PROVE  layout.lastDay # 0 /\ rows.end < PeriodEnd
<1>1. layout \in Layouts /\ today \in Days /\ layout.lastDay \in Nat
  BY DEF TypeOK, LayoutsTyped
<1>2. rows.end \in Nat /\ rows.end >= 1 /\ today >= rows.end
  BY <1>1 DEF Rows, Ends, Over
<1> QED
  BY <1>1, <1>2, PeriodEndTyped DEF Days, Ends

\* The commit of an attempt that holds the lock: it ends with counts of its own.
LEMMA SettleCounts ==
  ASSUME NobodyAsks, LayoutsTyped, TypeOK, LockIsReservation, OneAtATime, CountInv,
         Orderly, Configured, NEW r \in Requests, NEW rows \in Rows, pc[r] \in Holding,
         Settle(r, rows)
  PROVE  /\ db'.used = rows.used /\ db'.end = rows.end
         /\ Selections' /\ Reservations'
<1>1. lock = r /\ AsRead(r) /\ db \in Rows /\ seen[r] \in Rows
  BY DEF LockIsReservation, CountInv, Reservations, TypeOK
<1>2. db'.used = rows.used /\ db'.end = rows.end
  BY <1>1, FlushedCounted DEF Settle, AsRead
<1>3. lock' = NoOne /\ UNCHANGED <<clock, seen, mem, previous>> /\ pc' = [pc EXCEPT ![r] = "done"]
  BY <1>1 DEF Settle, Goto
<1>4. Reservations'
  BY <1>3, NobodyAsks DEF Reservations
<1>5. ~layout.concurrent => \A q \in Requests : pc[q] \in {"select", "publish", "refuse"} => q = r
  BY DEF OneAtATime, Active, Holding
<1>6. Selections'
  BY <1>3, <1>5 DEF CountInv, Selections, AsRead, clock, TypeOK
<1> QED
  BY <1>2, <1>4, <1>6

\* The count of an account is its quotes, and within its limit, unless quotes that overlap
\* meet the end of a period.
THEOREM UsesAreTrue == Spec => [](Orderly => UsesTrue)
<1> USE NobodyAsks, LayoutsTyped
<1>1. Init /\ TypeOK => UsesInv
  <2> SUFFICES ASSUME Init, TypeOK PROVE UsesInv
    OBVIOUS
  <2>1. /\ pc = [r \in Requests |-> "idle"] /\ lock = NoOne /\ accepted = 0 /\ unclaimed = 0
        /\ db \in Rows /\ db.used <= Limit /\ layout.limit \in Nat
        /\ granted = [e \in Ends |-> IF e = db.end THEN db.used ELSE 0]
    BY DEF Init, TypeOK, LayoutsTyped, Limit
  <2>2. LockIsReservation /\ OneAtATime
    BY <2>1 DEF LockIsReservation, OneAtATime, Active, Holding
  <2>3. Selections /\ Reservations /\ LaterUngranted
    BY <2>1 DEF Selections, Reservations, LaterUngranted, Rows, Ends
  <2>4. Claims /\ SuccessesCounted /\ NoPhantomUse /\ NoOverspend
    BY <2>1 DEF Claims, SuccessesCounted, NoPhantomUse, NoOverspend, Rows, Ends, Limit
  <2> QED
    BY <2>2, <2>3, <2>4 DEF UsesInv, CountInv
<1>2. TypeOK' /\ UsesInv /\ [Next]_vars => UsesInv'
  <2> SUFFICES ASSUME TypeOK', UsesInv, [Next]_vars PROVE UsesInv'
    OBVIOUS
  <2> USE DEF clock, history
  <2>0. /\ TypeOK /\ LockIsReservation /\ OneAtATime /\ CountInv /\ (Orderly => NoOverspend)
        /\ layout \in Layouts /\ today \in Days /\ db \in Rows
        /\ layout.limit \in Nat /\ layout.lastDay \in Nat
    BY DEF UsesInv, TypeOK, LayoutsTyped
  <2>r. ASSUME NEW r \in Requests PROVE seen[r] \in Rows /\ mem[r] \in Rows /\ previous[r] \in Nat
    BY <2>0 DEF TypeOK
  <2>lock. LockIsReservation' /\ OneAtATime'
    BY <2>0, LockKept
  <2>still. layout' = layout /\ period' = period
    BY DEF Next, vars, Begin, Select, Publish, Reserve, SkipReservation, Answer, Succeed, Release,
           Settle, Abort, Midnight
  <2>same. Limit' = Limit /\ Ends' = Ends /\ (Orderly' <=> Orderly) /\ (Configured' <=> Configured)
    BY <2>still DEF Limit, Ends, Orderly, Configured
  \* Without a quota row nothing is granted.
  <2>none. CASE ~Configured
    <3>1. granted' = granted
      BY <2>none DEF Next, vars, Begin, Select, Publish, Reserve, SkipReservation, Answer, Succeed,
                     Release, Settle, Abort, Midnight
    <3> QED
      BY <2>none, <3>1, <2>0, <2>lock, <2>same DEF UsesInv, CountInv, NoOverspend
  <2>free. CASE ~Orderly
    BY <2>free, <2>0, <2>lock, <2>same DEF UsesInv, CountInv
  <2> SUFFICES ASSUME Orderly, Configured PROVE CountInv' /\ NoOverspend'
    BY <2>none, <2>free, <2>lock DEF UsesInv
  <2>inv. /\ Selections /\ Reservations /\ LaterUngranted /\ Claims /\ SuccessesCounted
          /\ NoPhantomUse /\ NoOverspend
    BY <2>0 DEF CountInv
  <2>kept. granted' = granted => NoOverspend'
    BY <2>inv, <2>same DEF NoOverspend
  <2>begin. ASSUME NEW r \in Requests, Begin(r) PROVE CountInv' /\ NoOverspend'
    <3>1. lock # r
      BY <2>begin, <2>0 DEF Begin, LockIsReservation, Holding
    <3>2. seen'[r] = db /\ mem'[r] = db /\ pc'[r] # "quoted"
          /\ \A q \in Requests \ {r} : pc'[q] = pc[q] /\ mem'[q] = mem[q] /\ seen'[q] = seen[q]
      BY <2>begin, <2>0 DEF Begin, Goto, TypeOK
    <3> QED
      BY <2>begin, <2>0, <2>kept, <3>1, <3>2, CountsAlone DEF Begin
  <2>select. ASSUME NEW r \in Requests, Select(r) PROVE CountInv' /\ NoOverspend'
    <3> DEFINE rows == Synced(Renewed(mem[r]), Over(mem[r]))
    <3>1. lock # r /\ pc[r] = "select"
      BY <2>select, <2>0 DEF Select, LockIsReservation, Holding
    <3>2. mem[r].used = seen[r].used /\ mem[r].end = seen[r].end
          /\ (~layout.concurrent => AsRead(r))
      BY <3>1, <2>inv DEF Selections
    <3>3. Renewed(mem[r]) \in Rows
      BY <2>0, <2>r, RowsTyped
    <3>4. \/ rows.used = mem[r].used /\ rows.end = mem[r].end
          \/ layout.lastDay # 0 /\ rows.used = 0 /\ rows.end > mem[r].end
      BY <3>3, <2>0, <2>r, RowsCounted, NoneOver, PeriodEndTyped DEF Rows, Ends
    <3> HIDE DEF rows
    <3>5. /\ mem'[r] = rows /\ pc'[r] \notin {"select", "quoted"} /\ UNCHANGED seen
          /\ \A q \in Requests \ {r} : pc'[q] = pc[q] /\ mem'[q] = mem[q]
      BY <2>select, <2>0 DEF Select, Goto, TypeOK, rows
    <3> QED
      BY <2>select, <2>0, <2>kept, <3>1, <3>2, <3>4, <3>5, CountsAlone DEF Select, AsRead, Orderly
  <2>publish. ASSUME NEW r \in Requests, Publish(r) PROVE CountInv' /\ NoOverspend'
    <3>1. /\ lock # r /\ pc[r] \in {"publish", "refuse"} /\ pc'[r] \in {"reserve", "done"}
          /\ \A q \in Requests \ {r} : pc'[q] = pc[q] /\ mem'[q] = mem[q] /\ seen'[q] = seen[q]
          /\ UNCHANGED <<layout, period, today, lock, mem, previous, granted, accepted, unclaimed>>
      BY <2>publish, <2>0 DEF Publish, Goto, TypeOK, LockIsReservation, Holding
    <3>2. db' = Flushed(db, seen[r], mem[r])
      BY <2>publish DEF Publish
    <3>3. CASE mem[r].used = seen[r].used /\ mem[r].end = seen[r].end
      <4>1. db'.used = db.used /\ db'.end = db.end
        BY <3>2, <3>3, <2>0, <2>r, FlushedCounted
      <4> QED
        BY <4>1, <3>1, <2>0, <2>kept, CountsAlone
    <3>4. CASE /\ ~layout.concurrent /\ layout.lastDay # 0
               /\ mem[r].used = 0 /\ mem[r].end > seen[r].end
      <4>1. AsRead(r)
        BY <3>1, <3>4, <2>inv DEF Selections
      <4>2. db'.used = 0 /\ db'.end = mem[r].end /\ db'.end > db.end /\ db'.end \in Ends
        <5>1. seen[r].used = db.used /\ seen[r].end = db.end
          BY <4>1 DEF AsRead
        <5>2. db'.used = 0 /\ db'.end = mem[r].end
          BY <5>1, <3>2, <3>4, <2>0, <2>r, FlushedCounted DEF Rows, Ends
        <5> QED
          BY <5>1, <5>2, <3>4, <2>r DEF Rows
      <4>3. \A q \in Requests \ {r} : pc[q] \in {"idle", "done"} /\ lock # q
        BY <3>1, <3>4, <2>0 DEF OneAtATime, Active, LockIsReservation, Holding
      <4>4. Selections' /\ Reservations'
        BY <4>3, <3>1 DEF Selections, Reservations
      <4>5. LaterUngranted' /\ granted[db'.end] = 0
        BY <4>2, <3>1, <2>inv, <2>0, <2>same DEF LaterUngranted, Rows, Ends
      <4>6. Claims' /\ NoPhantomUse'
        BY <3>1, <3>4 DEF Claims, NoPhantomUse
      <4>7. SuccessesCounted'
        BY <4>2, <4>5, <3>1 DEF SuccessesCounted
      <4> QED
        BY <4>4, <4>5, <4>6, <4>7, <3>1, <2>kept DEF CountInv
    <3> QED
      BY <3>1, <3>3, <3>4, <2>inv DEF Selections
  <2>reserve. ASSUME NEW r \in Requests, Reserve(r) PROVE CountInv' /\ NoOverspend'
    <3> DEFINE fresh == FreshRows(r)
               rows == Renewed(fresh)
               more == [rows EXCEPT !.used = @ + 1]
    <3>1. fresh \in Rows /\ fresh.used = db.used /\ fresh.end = db.end
      BY <2>0, <2>r DEF FreshRows, Rows
    <3>2. /\ rows \in Rows
          /\ rows.used = (IF Over(fresh) THEN 0 ELSE db.used)
          /\ rows.end = (IF Over(fresh) THEN PeriodEnd ELSE db.end)
      BY <3>1, <2>0, RowsTyped, RowsCounted
    <3>3. more \in Rows /\ more.used = rows.used + 1 /\ more.end = rows.end
      BY <3>2 DEF Rows
    <3>4. Over(fresh) => ~layout.concurrent /\ layout.lastDay # 0 /\ rows.end > db.end
      BY <3>1, <3>2, <2>0, NoneOver, PeriodEndTyped DEF Orderly, Rows, Ends
    <3> HIDE DEF fresh, rows, more
    <3>5. /\ lock = NoOne /\ pc[r] = "reserve" /\ previous' = [previous EXCEPT ![r] = fresh.used]
          /\ UNCHANGED <<layout, period, today, granted, accepted, unclaimed>>
      BY <2>reserve DEF Reserve, fresh
    <3>6. CASE /\ UsedUp(rows) /\ db' = Flushed(db, fresh, Synced(rows, FALSE))
               /\ Goto(r, "done") /\ UNCHANGED <<lock, seen, mem>>
      <4>1. Synced(rows, FALSE) \in Rows /\ Synced(rows, FALSE).used = rows.used
            /\ Synced(rows, FALSE).end = rows.end
        BY <3>1, <3>2, <2>0, RowsTyped, RowsCounted
      <4>2. db'.used = rows.used /\ db'.end = rows.end
        <5> DEFINE kept == Synced(rows, FALSE)
        <5>1. kept \in Rows /\ kept.used = rows.used /\ kept.end = rows.end
          BY <4>1
        <5>2. db' = Flushed(db, fresh, kept)
          BY <3>6
        <5> HIDE DEF kept
        <5>3. /\ db'.used = (IF kept.used = fresh.used THEN db.used ELSE kept.used)
              /\ db'.end = (IF kept.end = fresh.end THEN db.end ELSE kept.end)
          BY <5>1, <5>2, <3>1, <2>0, FlushedCounted
        <5> QED
          BY <5>1, <5>3, <3>1
      <4>3. Reservations'
        BY <3>5, <3>6 DEF Reservations
      <4>4. \A q \in Requests \ {r} : ~layout.concurrent => pc[q] \in {"idle", "done"}
        BY <3>5, <2>0 DEF OneAtATime, Active
      <4>5. Over(fresh) \/ (db'.used = db.used /\ db'.end = db.end)
        BY <4>2, <3>2
      <4>6. Selections'
        BY <4>4, <3>5, <3>6, <2>inv, <2>0 DEF Selections, AsRead, Goto, TypeOK
      <4>7. LaterUngranted' /\ (Over(fresh) => granted[db'.end] = 0)
        BY <4>2, <4>5, <3>2, <3>4, <3>5, <2>inv, <2>0, <2>same DEF LaterUngranted, Rows, Ends
      <4>8. Claims' /\ NoPhantomUse'
        BY <4>5, <3>4, <3>5, <3>6, <2>inv, <2>0 DEF Claims, NoPhantomUse, Goto, TypeOK
      <4>9. SuccessesCounted'
        BY <4>2, <4>5, <4>7, <3>2, <3>5, <2>inv DEF SuccessesCounted, Rows
      <4> QED
        BY <4>3, <4>6, <4>7, <4>8, <4>9, <3>5, <2>kept DEF CountInv
    <3>7. CASE /\ ~UsedUp(rows) /\ lock' = r /\ mem' = [mem EXCEPT ![r] = Synced(more, Over(fresh))]
               /\ seen' = [seen EXCEPT ![r] = fresh] /\ Goto(r, "call") /\ UNCHANGED db
      <4>1. /\ mem'[r].used = rows.used + 1 /\ mem'[r].end = rows.end
            /\ seen'[r] = fresh /\ previous'[r] = db.used /\ pc'[r] = "call"
            /\ \A q \in Requests \ {r} : pc'[q] = pc[q] /\ mem'[q] = mem[q] /\ seen'[q] = seen[q]
        <5>1. Synced(more, Over(fresh)).used = more.used /\ Synced(more, Over(fresh)).end = more.end
          BY <3>3, RowsCounted
        <5> QED
          BY <5>1, <3>1, <3>3, <3>5, <3>7, <2>0 DEF Goto, TypeOK
      <4>2. rows.used < Limit
        BY <3>2, <3>7, <2>0 DEF UsedUp, Limit, Rows
      <4>3. Reservations'
        BY <4>1, <4>2, <3>1, <3>2, <3>4, <3>5, <3>7, <2>0, <2>same
           DEF Reservations, AsRead, Limit, Rows, Ends
      <4>4. Selections'
        BY <4>1, <3>5, <3>7, <2>inv DEF Selections, AsRead
      <4>5. LaterUngranted' /\ SuccessesCounted' /\ NoPhantomUse'
        BY <3>5, <3>7, <2>inv, <2>same DEF LaterUngranted, SuccessesCounted, NoPhantomUse
      <4>6. Claims'
        BY <4>1, <3>5, <3>7, <2>inv, <2>0 DEF Claims
      <4> QED
        BY <4>3, <4>4, <4>5, <4>6, <3>5, <2>kept DEF CountInv
    <3> QED
      BY <2>reserve, <3>6, <3>7 DEF Reserve, fresh, rows, more
  <2>skip. ASSUME NEW r \in Requests, SkipReservation(r) PROVE CountInv' /\ NoOverspend'
    BY <2>skip DEF SkipReservation
  <2>answer. ASSUME NEW r \in Requests, Answer(r) PROVE CountInv' /\ NoOverspend'
    <3>1. /\ lock = r /\ pc[r] = "call" /\ pc'[r] \in {"quoted", "declined", "limited"}
          /\ \A q \in Requests \ {r} : pc'[q] = pc[q]
          /\ accepted' = IF pc'[r] = "quoted" THEN accepted + 1 ELSE accepted
          /\ UNCHANGED <<layout, period, today, db, lock, seen, mem, previous, granted, unclaimed>>
      BY <2>answer, <2>0 DEF Answer, Goto, TypeOK, LockIsReservation, Holding
    <3>2. Selections' /\ Reservations'
      BY <3>1, <2>inv, <2>same DEF Selections, Reservations, AsRead
    <3>3. LaterUngranted' /\ SuccessesCounted' /\ NoPhantomUse'
      BY <3>1, <2>inv, <2>same DEF LaterUngranted, SuccessesCounted, NoPhantomUse
    <3>4. Claims'
      <4>1. ~\E q \in Requests : lock = q /\ pc[q] = "quoted"
        BY <3>1
      <4>2. (\E q \in Requests : lock' = q /\ pc'[q] = "quoted") <=> pc'[r] = "quoted"
        BY <3>1
      <4>3. accepted \in Nat /\ unclaimed \in Nat /\ granted[db.end] \in Nat
        BY <2>0 DEF TypeOK, Rows
      <4> QED
        BY <4>1, <4>2, <4>3, <3>1, <2>inv DEF Claims
    <3> QED
      BY <3>1, <3>2, <3>3, <3>4, <2>kept DEF CountInv
  <2>succeed. ASSUME NEW r \in Requests, Succeed(r) PROVE CountInv' /\ NoOverspend'
    <3> DEFINE used == [mem[r] EXCEPT !.status = IF @ = "unknown" THEN "available" ELSE @]
               now == Renewed(used)
               raised == IF period = "day" THEN [now EXCEPT !.used = Max2(@, accepted)] ELSE now
    <3>1. /\ lock = r /\ pc[r] = "quoted" /\ AsRead(r) /\ mem[r].used <= Limit
          /\ \/ mem[r].end = db.end /\ mem[r].used = db.used + 1
             \/ /\ ~layout.concurrent /\ layout.lastDay # 0
                /\ mem[r].end > db.end /\ mem[r].used = 1
      BY <2>succeed, <2>0, <2>inv DEF Succeed, LockIsReservation, Holding, Reservations
    <3>2. used \in Rows /\ used.used = mem[r].used /\ used.end = mem[r].end
      BY <2>r DEF Rows, Statuses
    <3>3. now \in Rows /\ (~Over(used) => now.used = mem[r].used /\ now.end = mem[r].end)
          /\ (Over(used) => now.used = 0 /\ now.end > mem[r].end /\ layout.lastDay # 0)
      BY <3>2, <2>0, RowsTyped, RowsCounted, NoneOver, ZenonT(40)
    <3>4. raised \in Rows /\ raised.end = now.end
          /\ raised.used \in {now.used, Max2(now.used, accepted)}
      BY <3>3, <2>0 DEF Rows, Max2, TypeOK
    <3>5. Synced(raised, Over(used)) \in Rows /\ Synced(raised, Over(used)).used = raised.used
          /\ Synced(raised, Over(used)).end = raised.end
      <4>1. Over(used) \in BOOLEAN
        BY DEF Over
      <4> QED
        BY <4>1, <3>4, <2>0, RowsTyped, RowsCounted, ZenonT(40)
    <3> HIDE DEF used, now, raised
    <3>6. \E rows \in Rows : /\ Settle(r, rows)
                             /\ \/ rows.used = mem[r].used /\ rows.end = mem[r].end
                                \/ rows.used = raised.used /\ rows.end = raised.end
      BY <2>succeed, <3>2, <3>5 DEF Succeed, Reconciled, used, now, raised
    <3>7. PICK rows \in Rows : /\ Settle(r, rows)
                               /\ \/ rows.used = mem[r].used /\ rows.end = mem[r].end
                                  \/ rows.used = raised.used /\ rows.end = raised.end
      BY <3>6
    <3>8. db'.used = rows.used /\ db'.end = rows.end /\ Selections' /\ Reservations'
      BY <2>0, <3>1, <3>7, SettleCounts DEF Holding
    <3>9. /\ granted' = [granted EXCEPT ![mem[r].end] = granted[mem[r].end] + 1]
          /\ lock' = NoOne /\ UNCHANGED <<layout, period, today, accepted, unclaimed>>
      BY <2>succeed, <3>1 DEF Succeed, Settle
    <3>10. /\ granted \in [Ends -> Nat] /\ mem[r].end \in Ends /\ mem[r].used \in Nat
           /\ accepted \in Nat /\ unclaimed \in Nat /\ db.end \in Ends /\ db.used \in Nat
           /\ rows.end \in Ends /\ Limit \in Nat
      <4>1. Limit \in Nat
        BY <2>0 DEF Limit
      <4>2. granted \in [Ends -> Nat] /\ accepted \in Nat /\ unclaimed \in Nat
        BY <2>0 DEF TypeOK
      <4>3. mem[r].end \in Ends /\ mem[r].used \in Nat
        BY <2>r DEF Rows
      <4>4. db.end \in Ends /\ db.used \in Nat /\ rows.end \in Ends
        BY <2>0 DEF Rows
      <4> QED
        BY <4>1, <4>2, <4>3, <4>4
    <3>nat. /\ granted[mem[r].end] \in Nat /\ granted[db.end] \in Nat /\ mem[r].end \in Nat
            /\ db.end \in Nat /\ rows.end \in Nat
      BY <3>10, <2>0 DEF Ends
    <3>11. granted[mem[r].end] < mem[r].used
      <4>1. granted[db.end] <= db.used
        BY <3>10, <3>nat, <2>inv DEF SuccessesCounted
      <4>2. mem[r].end > db.end => granted[mem[r].end] = 0
        BY <3>10, <2>inv DEF LaterUngranted
      <4> QED
        BY <4>1, <4>2, <3>1, <3>10, <3>nat
    <3>12. NoOverspend'
      BY <3>1, <3>9, <3>10, <3>11, <2>inv, <2>same DEF NoOverspend
    <3>13. \/ db'.end = mem[r].end /\ db'.used >= mem[r].used
           \/ db'.end > mem[r].end /\ layout.lastDay # 0
      <4>1. now.used \in Nat /\ raised.used >= now.used
        <5>1. now.used \in Nat /\ raised.used \in Nat
          BY <3>3, <3>4 DEF Rows
        <5> QED
          BY <5>1, <3>4, <3>10 DEF Max2
      <4>2. CASE rows.used = mem[r].used /\ rows.end = mem[r].end
        BY <4>2, <3>8, <3>10
      <4>3. CASE rows.used = raised.used /\ rows.end = raised.end
        <5>1. CASE Over(used)
          BY <5>1, <4>3, <3>3, <3>4, <3>8
        <5>2. CASE ~Over(used)
          BY <5>2, <4>1, <4>3, <3>3, <3>4, <3>8
        <5> QED
          BY <5>1, <5>2
      <4> QED
        BY <4>2, <4>3, <3>7
    <3>14. LaterUngranted'
      <4> SUFFICES ASSUME NEW e \in Ends, e > db'.end PROVE granted'[e] = 0
        BY <2>same DEF LaterUngranted
      <4>1. e \in Nat
        BY <2>0 DEF Ends
      <4>2. e > mem[r].end /\ e > db.end
        BY <4>1, <3>1, <3>8, <3>10, <3>13, <3>nat
      <4>3. granted[e] = 0
        BY <4>2, <2>inv DEF LaterUngranted
      <4> QED
        BY <4>1, <4>2, <4>3, <3>9, <3>10, <3>nat
    <3>15. SuccessesCounted'
      <4>1. granted'[mem[r].end] <= mem[r].used
        BY <3>9, <3>10, <3>11, <3>nat
      <4>2. db'.end > mem[r].end => granted'[db'.end] = 0 /\ db'.used >= 0
        <5> SUFFICES ASSUME db'.end > mem[r].end PROVE granted'[db'.end] = 0 /\ db'.used >= 0
          OBVIOUS
        <5>1. db'.end \in Ends /\ db'.end > db.end /\ db'.used \in Nat
          BY <3>1, <3>8, <3>10, <3>nat DEF Rows
        <5>2. granted[db'.end] = 0
          BY <5>1, <2>inv DEF LaterUngranted
        <5> QED
          BY <5>1, <5>2, <3>8, <3>9, <3>10, <3>nat
      <4>3. db'.used \in Nat /\ granted'[mem[r].end] \in Nat
        BY <3>8, <3>9, <3>10, <3>nat DEF Rows
      <4> QED
        BY <4>1, <4>2, <4>3, <3>10, <3>13 DEF SuccessesCounted
    <3>16. CASE layout.lastDay = 0
      <4>1. mem[r].end = db.end /\ mem[r].used = db.used + 1 /\ db'.end = db.end
        BY <3>1, <3>13, <3>16
      <4>2. rows.used \in {mem[r].used, Max2(mem[r].used, accepted)}
        BY <3>3, <3>4, <3>7, <3>16
      <4>3. accepted <= granted[db.end] + unclaimed + 1 /\ db.used <= granted[db.end] + unclaimed
        BY <3>10, <3>nat, <3>16, <2>inv DEF Claims, NoPhantomUse
      <4>4. granted'[db'.end] = granted[db.end] + 1
        BY <4>1, <3>9, <3>10
      <4>5. Claims'
        <5>1. ~\E q \in Requests : lock' = q /\ pc'[q] = "quoted"
          BY <3>9, NobodyAsks
        <5>2. accepted' <= granted'[db'.end] + unclaimed' + 0
          BY <4>3, <4>4, <3>9, <3>10, <3>nat
        <5> QED
          BY <5>1, <5>2 DEF Claims
      <4>6. NoPhantomUse'
        <5>1. rows.used <= granted[db.end] + 1 + unclaimed
          BY <4>1, <4>2, <4>3, <3>10, <3>nat DEF Max2
        <5> QED
          BY <5>1, <4>4, <3>8, <3>9, <3>10, <3>nat DEF NoPhantomUse
      <4> QED
        BY <4>5, <4>6, <3>8, <3>12, <3>14, <3>15 DEF CountInv
    <3>17. CASE layout.lastDay # 0
      <4>1. Claims' /\ NoPhantomUse'
        BY <3>9, <3>17 DEF Claims, NoPhantomUse
      <4> QED
        BY <4>1, <3>8, <3>12, <3>14, <3>15 DEF CountInv
    <3> QED
      BY <3>16, <3>17
  <2>release. ASSUME NEW r \in Requests, Release(r) PROVE CountInv' /\ NoOverspend'
    <3> DEFINE less == [mem[r] EXCEPT !.used = Max2(previous[r], IF @ = 0 THEN 0 ELSE @ - 1)]
               back == Synced(less, TRUE)
               last == IF pc[r] = "limited" THEN [back EXCEPT !.status = "full"] ELSE back
    <3>1. /\ lock = r /\ pc[r] \in Holding /\ previous[r] = db.used
          /\ \/ mem[r].end = db.end /\ mem[r].used = db.used + 1
             \/ /\ ~layout.concurrent /\ layout.lastDay # 0
                /\ mem[r].end > db.end /\ mem[r].used = 1
      BY <2>release, <2>0, <2>inv DEF Release, LockIsReservation, Holding, Reservations
    <3>2. less \in Rows /\ less.used = db.used /\ less.end = mem[r].end
      BY <3>1, <2>0, <2>r DEF Rows, Max2
    <3> HIDE DEF less
    <3>3. back \in Rows /\ back.used = db.used /\ back.end = mem[r].end
      <4>1. back \in Rows
        BY <3>2, <2>0, RowsTyped
      <4> QED
        BY <4>1, <3>2, RowsCounted
    <3>4. last \in Rows /\ last.used = db.used /\ last.end = mem[r].end
      BY <3>3 DEF Rows, Statuses
    <3>5. Settle(r, last)
      BY <2>release DEF Release, Released, less
    <3> HIDE DEF back, last
    <3>6. db'.used = db.used /\ db'.end = mem[r].end /\ Selections' /\ Reservations'
      BY <2>0, <3>1, <3>4, <3>5, SettleCounts
    <3>7. /\ lock' = NoOne /\ UNCHANGED <<layout, period, today, accepted, granted>>
          /\ unclaimed' = (IF pc[r] = "quoted" THEN unclaimed + 1 ELSE unclaimed)
      BY <2>release, <3>1 DEF Release, Settle
    <3>8. /\ mem[r].end \in Ends /\ db.end \in Ends /\ db.used \in Nat /\ unclaimed \in Nat
          /\ accepted \in Nat /\ granted \in [Ends -> Nat]
      <4>1. mem[r].end \in Ends
        BY <2>r DEF Rows
      <4>2. granted \in [Ends -> Nat] /\ accepted \in Nat /\ unclaimed \in Nat
        BY <2>0 DEF TypeOK
      <4>3. db.end \in Ends /\ db.used \in Nat
        BY <2>0 DEF Rows
      <4> QED
        BY <4>1, <4>2, <4>3
    <3>nat. /\ granted[mem[r].end] \in Nat /\ granted[db.end] \in Nat /\ mem[r].end \in Nat
            /\ db.end \in Nat
      BY <3>8, <2>0 DEF Ends
    <3>later. \A e \in Ends : e > mem[r].end => e > db.end
      <4> SUFFICES ASSUME NEW e \in Ends, e > mem[r].end PROVE e > db.end
        OBVIOUS
      <4>1. e \in Nat
        BY <2>0 DEF Ends
      <4> QED
        BY <4>1, <3>1, <3>nat
    <3>9. LaterUngranted' /\ SuccessesCounted'
      <4>1. LaterUngranted'
        BY <3>later, <3>6, <3>7, <2>inv, <2>same DEF LaterUngranted
      <4>2. mem[r].end > db.end => granted[mem[r].end] = 0
        BY <3>8, <2>inv DEF LaterUngranted
      <4>3. SuccessesCounted'
        BY <4>2, <3>1, <3>6, <3>7, <3>8, <3>nat, <2>inv DEF SuccessesCounted
      <4> QED
        BY <4>1, <4>3
    <3>10. NoPhantomUse'
      BY <3>1, <3>6, <3>7, <3>8, <3>nat, <2>inv DEF NoPhantomUse
    <3>11. Claims'
      <4>1. \A q \in Requests : lock' # q
        BY <3>7, NobodyAsks
      <4>2. (\E q \in Requests : lock = q /\ pc[q] = "quoted") <=> pc[r] = "quoted"
        BY <3>1
      <4> QED
        BY <4>1, <4>2, <3>1, <3>6, <3>7, <3>8, <3>nat, <2>inv DEF Claims
    <3> QED
      BY <3>6, <3>7, <3>9, <3>10, <3>11, <2>kept DEF CountInv
  <2>abort. ASSUME NEW r \in Requests, Abort(r) PROVE CountInv' /\ NoOverspend'
    <3>1. /\ lock' = (IF lock = r THEN NoOne ELSE lock)
          /\ pc'[r] = "done" /\ (\A q \in Requests \ {r} : pc'[q] = pc[q])
          /\ unclaimed' = (IF pc[r] = "quoted" THEN unclaimed + 1 ELSE unclaimed)
          /\ UNCHANGED <<layout, period, today, db, seen, mem, previous, accepted, granted>>
      BY <2>abort, <2>0 DEF Abort, Goto, TypeOK
    <3>2. pc[r] = "quoted" => lock = r
      BY <2>0 DEF LockIsReservation, Holding
    <3>3. Selections' /\ Reservations'
      BY <3>1, <2>inv, <2>same, NobodyAsks DEF Selections, Reservations, AsRead
    <3>4. /\ unclaimed \in Nat /\ accepted \in Nat /\ granted[db.end] \in Nat /\ db.used \in Nat
      BY <2>0 DEF TypeOK, Rows
    <3>5. LaterUngranted' /\ SuccessesCounted' /\ NoPhantomUse'
      BY <3>1, <3>4, <2>inv, <2>same DEF LaterUngranted, SuccessesCounted, NoPhantomUse
    <3>6. Claims'
      <4>1. CASE lock = r
        BY <4>1, <3>1, <3>4, <2>inv, NobodyAsks DEF Claims
      <4>2. CASE lock # r
        BY <4>2, <3>1, <3>2, <3>4, <2>inv DEF Claims
      <4> QED
        BY <4>1, <4>2
    <3> QED
      BY <3>1, <3>3, <3>5, <3>6, <2>kept DEF CountInv
  <2>midnight. CASE Midnight
    <3>1. /\ layout.lastDay # 0
          /\ UNCHANGED <<layout, period, db, lock, pc, seen, mem, previous, granted, unclaimed>>
      BY <2>midnight, <2>0 DEF Midnight, Days
    <3>2. Selections' /\ Reservations' /\ LaterUngranted' /\ SuccessesCounted'
      BY <3>1, <2>inv, <2>same
         DEF Selections, Reservations, LaterUngranted, SuccessesCounted, AsRead
    <3>3. Claims' /\ NoPhantomUse'
      BY <3>1 DEF Claims, NoPhantomUse
    <3> QED
      BY <3>1, <3>2, <3>3, <2>kept DEF CountInv
  <2>stutter. CASE UNCHANGED vars
    BY <2>stutter, <2>0, <2>kept DEF vars, CountInv, Selections, Reservations, LaterUngranted, Claims,
       SuccessesCounted, NoPhantomUse, Orderly, Configured, AsRead, Limit, Ends
  <2> QED
    BY <2>begin, <2>select, <2>publish, <2>reserve, <2>skip, <2>answer, <2>succeed, <2>release,
       <2>abort, <2>midnight, <2>stutter DEF Next
<1>3. UsesInv => (Orderly => UsesTrue)
  BY DEF UsesInv, CountInv, UsesTrue, SuccessesCounted, NoPhantomUse
<1> QED
  BY <1>1, <1>2, <1>3, Typed, PTL DEF Spec

-----------------------------------------------------------------------------
(* The amounts of a conversation's results (QuoteAmounts).                                  *)
CONSTANTS Premiums, Offered, Bills, Reports, MaxResults

VARIABLES bill, results

Amounts == INSTANCE QuoteAmounts WITH tasks <- results, MaxTasks <- MaxResults

\* Amounts are numbers, and nothing is no offer.
Priced ==
  /\ Premiums \subseteq Nat /\ Offered \subseteq Nat \ {0}
  /\ \A b \in Bills : b.commercial \in Nat /\ b.compulsory \in Nat /\ b.tax \in Nat /\ b.joint \in Nat
  /\ MaxResults \in Nat

Dictionaries == UNION {[S -> Int] : S \in SUBSET Amounts!Names}

ResultType ==
  [amounts : Dictionaries, card : Dictionaries, items : Dictionaries, payable : Dictionaries,
   source : {"none", "plan", "platform"}, planned : BOOLEAN]

TaskType ==
  [kind : {"quote", "redraw"}, source : Nat, premium : Premiums,
   status : {"running", "cancelled", "failed", "success"}, open : BOOLEAN,
   why : {"none", "result", "platform", "lookup"}, gap : Int, result : ResultType]

\* What the amounts of a result say is what the platform charges and offers.
TrueAmounts(a, gap) ==
  LET before == bill.commercial + bill.compulsory + Amounts!Amount(a, "joint") IN
  /\ \A n \in Amounts!Car \cap DOMAIN a : a[n] = bill[n]
  /\ Amounts!Amount(a, "joint") \in {0, bill.joint} \cup Offered
  /\ "before" \in DOMAIN a => a.before = before
  /\ "after" \in DOMAIN a => a.after = before + bill.tax - gap

\* A success is over, true and proved, and a redraw was made from one.
TaskOK(i) ==
  /\ results[i].status = "success" =>
       /\ ~results[i].open /\ Amounts!Real(results[i].result)
       /\ TrueAmounts(results[i].result.amounts, results[i].gap)
  /\ results[i].source < i
  /\ results[i].kind = "redraw" => results[i].source \in Amounts!Successes

AmountsInv ==
  /\ bill \in Bills /\ results \in Seq(TaskType) /\ Len(results) <= MaxResults
  /\ \A i \in 1 .. Len(results) : TaskOK(i)

\* Among some of the tasks there is a latest.
LEMMA Latest ==
  ASSUME NEW n \in Nat, NEW S \in SUBSET (1 .. n), S # {}
  PROVE  (CHOOSE i \in S : \A j \in S : j <= i) \in S
<1> DEFINE T == {n - i : i \in S}
<1>1. \A i \in S : i \in 1 .. n /\ n - i \in Nat
  OBVIOUS
<1>2. T \subseteq Nat /\ T # {}
  BY <1>1
<1>3. \E k \in T : \A l \in T : ~(<<l, k>> \in OpToRel(<, Nat))
  BY <1>2, NatLessThanWellFounded, WFMin
<1>4. OpToRel(<, Nat) = {pair \in Nat \X Nat : pair[1] < pair[2]}
  BY Zenon DEF OpToRel
<1>5. PICK k \in T : \A l \in T : ~(l < k)
  BY <1>2, <1>3, <1>4
<1>6. PICK i \in S : k = n - i
  OBVIOUS
<1>7. ASSUME NEW j \in S  PROVE j <= i
  <2>1. n - j \in T
    OBVIOUS
  <2>2. ~(n - j < n - i)
    BY <1>5, <1>6, <2>1
  <2> QED  BY <1>1, <2>2
<1> QED  BY <1>7

\* A dictionary's amounts.
LEMMA DictionaryTyped ==
  ASSUME NEW d \in Dictionaries
  PROVE  /\ Amounts!Dictionary(d)
         /\ \A n : Amounts!Amount(d, n) \in Int
  BY DEF Dictionaries, Amounts!Dictionary, Amounts!Amount

\* Sums moved are a dictionary, and so is one with another joint sale.
LEMMA MovedTyped ==
  ASSUME NEW d \in Dictionaries, NEW delta \in Int
  PROVE  /\ Amounts!Moved(d, delta) \in Dictionaries /\ DOMAIN Amounts!Moved(d, delta) = DOMAIN d
         /\ \A n \in DOMAIN d : Amounts!Moved(d, delta)[n] = IF n \in Amounts!Totals THEN d[n] + delta ELSE d[n]
<1>1. PICK S \in SUBSET Amounts!Names : d \in [S -> Int]
  BY DEF Dictionaries
<1>2. Amounts!Moved(d, delta) \in [S -> Int]
  BY <1>1 DEF Amounts!Moved
<1>3. Amounts!Moved(d, delta) \in Dictionaries
  BY <1>2 DEF Dictionaries
<1> QED  BY <1>3 DEF Amounts!Moved

LEMMA WithJointTyped ==
  ASSUME NEW d \in Dictionaries, NEW premium \in Nat
  PROVE  /\ Amounts!WithJoint(d, premium) \in Dictionaries
         /\ DOMAIN Amounts!WithJoint(d, premium) = (DOMAIN d \ {"joint"}) \cup (IF premium > 0 THEN {"joint"} ELSE {})
         /\ \A n \in DOMAIN Amounts!WithJoint(d, premium) :
              Amounts!WithJoint(d, premium)[n] = IF n = "joint" THEN premium ELSE d[n]
<1>1. PICK S \in SUBSET Amounts!Names : d \in [S -> Int]
  BY DEF Dictionaries
<1> DEFINE T == (S \ {"joint"}) \cup (IF premium > 0 THEN {"joint"} ELSE {})
<1>2. Amounts!WithJoint(d, premium) \in [T -> Int]
  BY <1>1 DEF Amounts!WithJoint
<1>3. T \in SUBSET Amounts!Names
  BY DEF Amounts!Names
<1>4. Amounts!WithJoint(d, premium) \in Dictionaries
  BY <1>2, <1>3 DEF Dictionaries
<1> QED  BY <1>4 DEF Amounts!WithJoint

\* What is selected of a dictionary.
LEMMA OnlyTyped ==
  ASSUME NEW d \in Dictionaries, NEW N
  PROVE  /\ Amounts!Only(d, N) \in Dictionaries /\ DOMAIN Amounts!Only(d, N) = DOMAIN d \cap N
         /\ \A n \in DOMAIN d \cap N : Amounts!Only(d, N)[n] = d[n]
<1>1. PICK S \in SUBSET Amounts!Names : d \in [S -> Int]
  BY DEF Dictionaries
<1>2. Amounts!Only(d, N) \in [S \cap N -> Int]
  BY <1>1 DEF Amounts!Only
<1>3. S \cap N \in SUBSET Amounts!Names
  OBVIOUS
<1>4. Amounts!Only(d, N) \in Dictionaries
  BY <1>2, <1>3 DEF Dictionaries
<1> QED  BY <1>4 DEF Amounts!Only

\* A result built from a response is typed, and true where the platform's own total may
\* leave the plan's premium out.
LEMMA BuiltTrue ==
  ASSUME Priced, AmountsInv, NEW report, NEW premium \in Premiums, NEW plan \in Amounts!Found(premium)
  PROVE  LET r == Amounts!Built(report, plan)
             gap == IF "total" \in report THEN Amounts!Planned(plan) ELSE 0 IN
         r \in ResultType /\ gap \in Int /\ TrueAmounts(r.amounts, gap)
<1> DEFINE joint == bill.joint + Amounts!Planned(plan)
           car == bill.commercial + bill.compulsory
           before == "sum" \in report \/ {"commercial", "compulsory"} \subseteq report
           known == [commercial |-> bill.commercial, compulsory |-> bill.compulsory, tax |-> bill.tax,
                     joint |-> joint, before |-> car + joint,
                     after |-> car + bill.tax + IF "total" \in report THEN bill.joint ELSE joint]
           names == (report \cap Amounts!Car)
                   \cup (IF joint > 0 THEN {"joint"} ELSE {})
                   \cup (IF before THEN {"before"} ELSE {})
                   \cup (IF "total" \in report \/ (before /\ "tax" \in report) THEN {"after"} ELSE {})
           a == Amounts!Only(known, names)
           r == Amounts!Built(report, plan)
           gap == IF "total" \in report THEN Amounts!Planned(plan) ELSE 0
<1>1. bill.commercial \in Nat /\ bill.compulsory \in Nat /\ bill.tax \in Nat /\ bill.joint \in Nat
  BY DEF Priced, AmountsInv
<1>2. plan \in Nat /\ (plan = 0 \/ plan \in Offered)
  BY DEF Amounts!Found, Priced
<1>3. Amounts!Planned(plan) \in Nat /\ joint \in Nat /\ joint \in {0, bill.joint} \cup Offered
  BY <1>1, <1>2 DEF Amounts!Planned
<1>4. gap \in Int
  BY <1>3
<1>5. known \in [Amounts!Names -> Int]
  BY <1>1, <1>3 DEF Amounts!Names, Amounts!Car, Amounts!Totals
<1> HIDE DEF known, names
<1>6. known \in Dictionaries /\ DOMAIN known = Amounts!Names
  BY <1>5 DEF Dictionaries
<1>7. /\ a \in Dictionaries /\ DOMAIN a = Amounts!Names \cap names
      /\ \A n \in Amounts!Names \cap names : a[n] = known[n]
  BY <1>6, OnlyTyped
<1>8. r = [amounts |-> a, card |-> a, items |-> Amounts!Only(a, Amounts!Car \cup {"joint"}),
           payable |-> Amounts!Only(a, {"after"}),
           source |-> IF bill.joint > 0 THEN "platform" ELSE IF plan > 0 THEN "plan" ELSE "none",
           planned |-> plan > 0]
  BY DEF Amounts!Built, known, names
<1>9. Amounts!Only(a, Amounts!Car \cup {"joint"}) \in Dictionaries /\ Amounts!Only(a, {"after"}) \in Dictionaries
  BY <1>7, OnlyTyped
<1>10. (plan > 0) \in BOOLEAN
  BY <1>2
<1> HIDE DEF r, a, joint
<1>11. r \in ResultType
  BY <1>7, <1>8, <1>9, <1>10 DEF ResultType
<1>12. /\ known.commercial = bill.commercial /\ known.compulsory = bill.compulsory /\ known.tax = bill.tax
       /\ known.joint = joint /\ known.before = car + joint
       /\ known.after = car + bill.tax + IF "total" \in report THEN bill.joint ELSE joint
  BY DEF known
<1>13. Amounts!Amount(a, "joint") = joint
  <2>1. CASE joint > 0
    <3>1. "joint" \in Amounts!Names \cap names
      BY <2>1 DEF names, Amounts!Names
    <3> QED  BY <1>7, <1>12, <3>1 DEF Amounts!Amount
  <2>2. CASE joint = 0
    <3>1. "joint" \notin names
      BY <2>2 DEF names, Amounts!Car
    <3> QED  BY <1>7, <2>2, <3>1 DEF Amounts!Amount
  <2> QED  BY <1>3, <2>1, <2>2
<1>14. \A n \in Amounts!Car \cap DOMAIN a : a[n] = bill[n]
  BY <1>7, <1>12 DEF Amounts!Car
<1>15. "before" \in DOMAIN a => a.before = car + joint
  BY <1>7, <1>12
<1>16. "after" \in DOMAIN a => a.after = car + joint + bill.tax - gap
  <2>1. joint = bill.joint + Amounts!Planned(plan)
    BY DEF joint
  <2>2. known.after = car + joint + bill.tax - gap
    BY <1>1, <1>3, <1>12, <2>1
  <2> QED  BY <1>7, <2>2
<1> QED  BY <1>3, <1>4, <1>8, <1>11, <1>13, <1>14, <1>15, <1>16 DEF TrueAmounts, r

\* A result redrawn is as true as the one it is made from.
LEMMA RedrawnTrue ==
  ASSUME Priced, AmountsInv, NEW result \in ResultType, NEW premium \in Nat, NEW gap \in Int,
         premium = 0 \/ premium \in Offered, TrueAmounts(result.amounts, gap)
  PROVE  LET r == Amounts!Redrawn(result, premium) IN r \in ResultType /\ TrueAmounts(r.amounts, gap)
<1> DEFINE r == Amounts!Redrawn(result, premium)
           delta == Amounts!Delta(result, premium)
           moved == Amounts!Moved(result.amounts, delta)
           a == Amounts!WithJoint(moved, premium)
           old == Amounts!Amount(result.amounts, "joint")
<1>1. bill.commercial \in Nat /\ bill.compulsory \in Nat /\ bill.tax \in Nat /\ bill.joint \in Nat
  BY DEF Priced, AmountsInv
<1>2. result.amounts \in Dictionaries /\ result.items \in Dictionaries /\ result.payable \in Dictionaries
  BY DEF ResultType
<1>3. old \in Int /\ delta = premium - old /\ delta \in Int
  BY <1>2, DictionaryTyped DEF Amounts!Delta
<1>4. /\ moved \in Dictionaries /\ DOMAIN moved = DOMAIN result.amounts
      /\ \A n \in DOMAIN moved :
           moved[n] = IF n \in Amounts!Totals THEN result.amounts[n] + delta ELSE result.amounts[n]
  BY <1>2, <1>3, MovedTyped
<1> HIDE DEF moved
<1>5. /\ a \in Dictionaries
      /\ DOMAIN a = (DOMAIN moved \ {"joint"}) \cup (IF premium > 0 THEN {"joint"} ELSE {})
      /\ \A n \in DOMAIN a : a[n] = IF n = "joint" THEN premium ELSE moved[n]
  BY <1>4, WithJointTyped
<1>6. /\ Amounts!WithJoint(result.items, premium) \in Dictionaries
      /\ Amounts!Moved(result.payable, delta) \in Dictionaries
  BY <1>2, <1>3, MovedTyped, WithJointTyped
<1>7. r = [result EXCEPT !.amounts = a, !.card = a, !.items = Amounts!WithJoint(@, premium),
                         !.payable = Amounts!Moved(@, delta)]
  BY DEF Amounts!Redrawn, moved
<1> HIDE DEF r, a, delta, old
<1>8. r \in ResultType /\ r.amounts = a
  BY <1>5, <1>6, <1>7 DEF ResultType
<1>9. Amounts!Amount(a, "joint") = premium
  BY <1>5 DEF Amounts!Amount
<1>10. \A n \in Amounts!Car \cap DOMAIN a : a[n] = bill[n]
  BY <1>4, <1>5 DEF TrueAmounts, Amounts!Car, Amounts!Totals
<1>11. "before" \in DOMAIN a => a.before = bill.commercial + bill.compulsory + premium
  <2> SUFFICES ASSUME "before" \in DOMAIN a  PROVE a.before = bill.commercial + bill.compulsory + premium
    OBVIOUS
  <2>1. "before" \in DOMAIN result.amounts /\ a.before = result.amounts.before + delta
    BY <1>4, <1>5 DEF Amounts!Totals
  <2>2. result.amounts.before = bill.commercial + bill.compulsory + old
    BY <2>1 DEF TrueAmounts, old
  <2> QED  BY <1>1, <1>3, <2>1, <2>2
<1>12. "after" \in DOMAIN a => a.after = bill.commercial + bill.compulsory + premium + bill.tax - gap
  <2> SUFFICES ASSUME "after" \in DOMAIN a
               PROVE  a.after = bill.commercial + bill.compulsory + premium + bill.tax - gap
    OBVIOUS
  <2>1. "after" \in DOMAIN result.amounts /\ a.after = result.amounts.after + delta
    BY <1>4, <1>5 DEF Amounts!Totals
  <2>2. result.amounts.after = bill.commercial + bill.compulsory + old + bill.tax - gap
    BY <2>1 DEF TrueAmounts, old
  <2> QED  BY <1>1, <1>3, <2>1, <2>2
<1> QED  BY <1>8, <1>9, <1>10, <1>11, <1>12 DEF TrueAmounts, r

\* A task that changes keeps the others sound, if it is no success that is undone.
LEMMA TaskChanged ==
  ASSUME Priced, AmountsInv, NEW i \in 1 .. Len(results), NEW t \in TaskType,
         results' = [results EXCEPT ![i] = t], bill' = bill,
         results[i].open, t.kind = results[i].kind, t.source = results[i].source,
         t.status = "success" => ~t.open /\ Amounts!Real(t.result) /\ TrueAmounts(t.result.amounts, t.gap)
  PROVE  AmountsInv'
<1>1. results' \in Seq(TaskType) /\ Len(results') = Len(results) /\ results'[i] = t
      /\ \A j \in 1 .. Len(results) : j # i => results'[j] = results[j]
  BY DEF AmountsInv
<1>2. i \notin Amounts!Successes /\ Amounts!Successes \subseteq Amounts!Successes'
  BY <1>1 DEF AmountsInv, TaskOK, Amounts!Successes, Amounts!Ids
<1>3. ASSUME NEW j \in 1 .. Len(results)  PROVE TaskOK(j)'
  <2>1. CASE j = i
    BY <1>1, <1>2, <2>1 DEF AmountsInv, TaskOK, TrueAmounts, Amounts!Amount
  <2>2. CASE j # i
    BY <1>1, <1>2, <2>2 DEF AmountsInv, TaskOK, TrueAmounts, Amounts!Amount
  <2> QED  BY <2>1, <2>2
<1> QED  BY <1>1, <1>3 DEF AmountsInv

\* A quote or a redraw ends with a result that is kept only when it can be proved, or fails.
LEMMA TaskEnds ==
  ASSUME Priced, AmountsInv, NEW i \in 1 .. Len(results), results[i].open,
         NEW status \in {"failed", "success"}, NEW why \in {"none", "result", "platform", "lookup"}, NEW gap \in Int,
         NEW result \in ResultType, Amounts!End(i, status, why, gap, result),
         status = "success" => Amounts!Real(result) /\ TrueAmounts(result.amounts, gap)
  PROVE  AmountsInv'
<1> DEFINE t == [results[i] EXCEPT !.status = status, !.open = FALSE, !.why = why, !.gap = gap, !.result = result]
<1>1. results[i] \in TaskType
  BY DEF AmountsInv
<1>2. results' = [results EXCEPT ![i] = t] /\ bill' = bill
  BY DEF Amounts!End
<1>3. /\ t \in TaskType /\ t.kind = results[i].kind /\ t.source = results[i].source
      /\ t.status = status /\ t.open = FALSE /\ t.result = result /\ t.gap = gap
  BY <1>1 DEF TaskType
<1> HIDE DEF t
<1> QED  BY <1>2, <1>3, TaskChanged

LEMMA NoResultTyped == Amounts!NoResult \in ResultType
<1>1. Amounts!Nothing \in [{} -> Int]
  BY DEF Amounts!Nothing
<1>2. Amounts!Nothing \in Dictionaries
  BY <1>1 DEF Dictionaries
<1> QED  BY <1>2 DEF Amounts!NoResult, ResultType

LEMMA TaskKept ==
  ASSUME Priced, AmountsInv, NEW i \in 1 .. Len(results), results[i].open, NEW gap \in Int, NEW result \in ResultType,
         Amounts!Kept(i, result, gap), TrueAmounts(result.amounts, gap)
  PROVE  AmountsInv'
<1>1. CASE Amounts!Real(result)
  <2>1. Amounts!End(i, "success", "none", gap, result)
    BY <1>1 DEF Amounts!Kept
  <2> QED  BY <1>1, <2>1, TaskEnds
<1>2. CASE ~Amounts!Real(result)
  <2>1. Amounts!End(i, "failed", "result", 0, Amounts!NoResult)
    BY <1>2 DEF Amounts!Kept
  <2> QED  BY <2>1, NoResultTyped, TaskEnds
<1> QED  BY <1>1, <1>2

\* What is no longer worked on is no success.
LEMMA TaskLeft ==
  ASSUME Priced, AmountsInv, NEW i \in 1 .. Len(results), results[i].open,
         results' = [results EXCEPT ![i].open = FALSE], bill' = bill
  PROVE  AmountsInv'
<1> DEFINE t == [results[i] EXCEPT !.open = FALSE]
<1>1. results[i] \in TaskType /\ results[i].status # "success"
  BY DEF AmountsInv, TaskOK
<1>2. results' = [results EXCEPT ![i] = t]
  OBVIOUS
<1>3. t \in TaskType /\ t.kind = results[i].kind /\ t.source = results[i].source /\ t.status = results[i].status
  BY <1>1 DEF TaskType
<1> HIDE DEF t
<1> QED  BY <1>1, <1>2, <1>3, TaskChanged

\* A task that begins cancels those that run.
LEMMA TaskBegins ==
  ASSUME Priced, AmountsInv, NEW kind \in {"quote", "redraw"}, NEW source \in Nat, NEW premium \in Premiums,
         Amounts!Begin(kind, source, premium),
         source <= Len(results), kind = "redraw" => source \in Amounts!Successes
  PROVE  AmountsInv'
<1> DEFINE n == Len(results)
           t == [kind |-> kind, source |-> source, premium |-> premium, status |-> "running", open |-> TRUE,
                 why |-> "none", gap |-> 0, result |-> Amounts!NoResult]
           Left(j) == IF results[j].status = "running" THEN [results[j] EXCEPT !.status = "cancelled"] ELSE results[j]
           left == [j \in 1 .. n |-> Left(j)]
<1>1. n \in Nat /\ DOMAIN results = 1 .. n /\ \A j \in 1 .. n : results[j] \in TaskType
  BY DEF AmountsInv
<1>2. \A j \in 1 .. n : /\ Left(j) \in TaskType /\ Left(j).kind = results[j].kind /\ Left(j).source = results[j].source
                        /\ Left(j).open = results[j].open
                        /\ Left(j).result = results[j].result /\ Left(j).gap = results[j].gap
                        /\ Left(j).status = "success" <=> results[j].status = "success"
  BY <1>1 DEF TaskType
<1> HIDE DEF Left
<1>3. left \in Seq(TaskType) /\ Len(left) = n
  <2>1. left \in [1 .. n -> TaskType]
    BY <1>2
  <2>2. left \in Seq(TaskType)
    BY <1>1, <2>1, SeqDef
  <2> QED  BY <1>1, <2>1, <2>2
<1>4. t \in TaskType
  BY NoResultTyped DEF TaskType
<1>5. Len(results) < MaxResults /\ results' = Append(left, t) /\ bill' = bill
  BY <1>1 DEF Amounts!Begin, Amounts!Cancelled, Amounts!Ids, Left
<1>6. /\ results' \in Seq(TaskType) /\ Len(results') = n + 1 /\ results'[n + 1] = t
      /\ \A j \in 1 .. n : results'[j] = Left(j)
  BY <1>3, <1>4, <1>5
<1> HIDE DEF t, left
<1>7. t.kind = kind /\ t.source = source /\ t.status = "running"
  BY DEF t
<1>8. Amounts!Successes \subseteq Amounts!Successes'
  BY <1>1, <1>2, <1>6 DEF Amounts!Successes, Amounts!Ids
<1>9. ASSUME NEW j \in 1 .. n + 1  PROVE TaskOK(j)'
  <2>1. CASE j = n + 1
    BY <1>1, <1>6, <1>7, <1>8, <2>1 DEF TaskOK
  <2>2. CASE j \in 1 .. n
    <3>1. TaskOK(j)
      BY <2>2 DEF AmountsInv
    <3> QED  BY <1>2, <1>5, <1>6, <1>8, <2>2, <3>1 DEF TaskOK, TrueAmounts, Amounts!Amount
  <2> QED  BY <1>1, <2>1, <2>2
<1> QED  BY <1>5, <1>6, <1>9 DEF AmountsInv, Priced

(* What is shown of a quote, after any chain of redraws, is what the platform charges and   *)
(* offers, and stands when it is used again: for any bills, reports, premiums and tasks.    *)
THEOREM AmountsStayTrue ==
  ASSUME Priced
  PROVE  Amounts!Spec => [](Amounts!TypeOK /\ Amounts!AmountsTrue)
<1>1. Amounts!Init => AmountsInv
  BY DEF Amounts!Init, AmountsInv, Priced
<1>2. AmountsInv /\ [Amounts!Next]_Amounts!vars => AmountsInv'
  <2> SUFFICES ASSUME AmountsInv, [Amounts!Next]_Amounts!vars  PROVE AmountsInv'
    OBVIOUS
  <2>1. Amounts!Ids = 1 .. Len(results) /\ Len(results) \in Nat
        /\ \A i \in 1 .. Len(results) : results[i] \in TaskType /\ TaskOK(i)
    BY DEF Amounts!Ids, AmountsInv
  <2>2. ASSUME NEW premium \in Premiums, Amounts!Begin("quote", 0, premium)  PROVE AmountsInv'
    <3>1. 0 <= Len(results)
      BY DEF AmountsInv
    <3> QED  BY <2>2, <3>1, TaskBegins
  <2>3. CASE Amounts!BeginRedraw
    <3> DEFINE latest == CHOOSE i \in Amounts!StoredReal : \A j \in Amounts!StoredReal : j <= i
    <3>1. PICK premium \in Premiums : Amounts!Begin("redraw", latest, premium)
      BY <2>3 DEF Amounts!BeginRedraw
    <3>2. latest \in Amounts!StoredReal
      <4>1. Amounts!StoredReal \in SUBSET (1 .. Len(results)) /\ Amounts!StoredReal # {}
        BY <2>1, <2>3 DEF Amounts!BeginRedraw, Amounts!StoredReal, Amounts!Successes
      <4> QED  BY <2>1, <4>1, Latest
    <3>3. latest \in Amounts!Successes
      BY <3>2 DEF Amounts!StoredReal
    <3>4. latest \in 1 .. Len(results)
      BY <2>1, <3>3 DEF Amounts!Successes
    <3> QED  BY <3>1, <3>3, <3>4, TaskBegins
  <2>4. ASSUME NEW i \in 1 .. Len(results), Amounts!FinishQuote(i)  PROVE AmountsInv'
    <3>1. results[i].open /\ results[i].premium \in Premiums
      BY <2>1, <2>4 DEF Amounts!FinishQuote, TaskType
    <3>2. ASSUME NEW report \in Reports, NEW plan \in Amounts!Found(results[i].premium),
                 Amounts!Kept(i, Amounts!Built(report, plan), IF "total" \in report THEN Amounts!Planned(plan) ELSE 0)
          PROVE  AmountsInv'
      BY <3>1, <3>2, BuiltTrue, TaskKept
    <3>3. CASE Amounts!End(i, "failed", "platform", 0, Amounts!NoResult)
      BY <3>1, <3>3, NoResultTyped, TaskEnds
    <3> QED  BY <2>4, <3>2, <3>3 DEF Amounts!FinishQuote
  <2>5. ASSUME NEW i \in 1 .. Len(results), Amounts!FinishRedraw(i)  PROVE AmountsInv'
    <3> DEFINE t == results[i]
               source == results[t.source]
    <3>1. t.open /\ t.kind = "redraw" /\ t.premium \in Nat
      BY <2>1, <2>5 DEF Amounts!FinishRedraw, TaskType, Priced
    <3>2. t.source \in 1 .. Len(results) /\ source.status = "success"
      BY <2>1, <3>1 DEF TaskOK, Amounts!Successes
    <3>3. source.result \in ResultType /\ source.gap \in Int /\ TrueAmounts(source.result.amounts, source.gap)
      BY <2>1, <3>2 DEF TaskOK, TaskType
    <3>4. CASE Amounts!End(i, "failed", "lookup", 0, Amounts!NoResult)
      BY <3>1, <3>4, NoResultTyped, TaskEnds
    <3>5. CASE /\ t.premium = 0 \/ t.premium \in Offered
               /\ Amounts!Kept(i, Amounts!Redrawn(source.result, t.premium), source.gap)
      <4>1. /\ Amounts!Redrawn(source.result, t.premium) \in ResultType
            /\ TrueAmounts(Amounts!Redrawn(source.result, t.premium).amounts, source.gap)
        BY <3>1, <3>3, <3>5, RedrawnTrue
      <4> QED  BY <3>1, <3>3, <3>5, <4>1, TaskKept
    <3> QED  BY <2>5, <3>4, <3>5 DEF Amounts!FinishRedraw
  <2>6. ASSUME NEW i \in 1 .. Len(results), Amounts!SeesCancelled(i) \/ Amounts!Lost(i)  PROVE AmountsInv'
    BY <2>6, TaskLeft DEF Amounts!SeesCancelled, Amounts!Lost
  <2>7. CASE UNCHANGED Amounts!vars
    BY <2>7 DEF Amounts!vars, AmountsInv, TaskOK, TrueAmounts, Amounts!Amount, Amounts!Successes, Amounts!Ids
  <2> QED  BY <2>1, <2>2, <2>3, <2>4, <2>5, <2>6, <2>7 DEF Amounts!Next, Amounts!BeginQuote
<1>3. AmountsInv => Amounts!TypeOK /\ Amounts!AmountsTrue
  <2> SUFFICES ASSUME AmountsInv  PROVE Amounts!TypeOK /\ Amounts!AmountsTrue
    OBVIOUS
  <2>1. Amounts!Ids = 1 .. Len(results) /\ \A i \in 1 .. Len(results) : results[i] \in TaskType /\ TaskOK(i)
    BY DEF Amounts!Ids, AmountsInv
  <2>2. ASSUME NEW i \in 1 .. Len(results)
        PROVE  /\ results[i].kind \in {"quote", "redraw"} /\ results[i].source \in 0 .. i - 1
               /\ results[i].status \in {"running", "cancelled", "failed", "success"}
               /\ \A part \in {"amounts", "card", "items", "payable"} : Amounts!Dictionary(results[i].result[part])
    <3>1. results[i].result \in ResultType
      BY <2>1 DEF TaskType
    <3>2. \A part \in {"amounts", "card", "items", "payable"} : results[i].result[part] \in Dictionaries
      BY <3>1 DEF ResultType
    <3>3. results[i].source \in Nat /\ results[i].source < i
      BY <2>1 DEF TaskOK, TaskType
    <3> QED  BY <2>1, <3>2, <3>3, DictionaryTyped DEF TaskType
  <2>3. Amounts!TypeOK
    BY <2>1, <2>2 DEF Amounts!TypeOK, AmountsInv
  <2>4. Amounts!Successes \subseteq Amounts!StoredReal
    <3>1. \A i \in Amounts!Successes :
            /\ Amounts!Real(results[i].result)
            /\ results[i].kind = "redraw" => results[i].source < i /\ results[i].source \in Amounts!Successes
      BY <2>1 DEF Amounts!Successes, TaskOK
    <3> QED  BY <3>1 DEF Amounts!StoredReal
  <2>5. \A i \in Amounts!Successes : TrueAmounts(results[i].result.amounts, results[i].gap)
    BY <2>1 DEF Amounts!Successes, TaskOK
  <2> QED  BY <2>3, <2>4, <2>5 DEF Amounts!AmountsTrue, TrueAmounts
<1> QED  BY <1>1, <1>2, <1>3, PTL DEF Amounts!Spec

-----------------------------------------------------------------------------
(* The material of a quote case: QuoteMaterial.                                             *)
CONSTANTS Chats, Recalls, ServedBy, Images, reads, ByHand, Electric, Nothing, MaxChanges

VARIABLES imageRows, caseData, materialPc, materialLock, materialSaw, changes, beside, excused

Material == INSTANCE QuoteMaterial WITH
  rows <- imageRows, case <- caseData, pc <- materialPc, lock <- materialLock, saw <- materialSaw

\* A message is no recall, and no image; nothing is neither.  What is typed are fields.
Filed ==
  /\ Chats \cap Recalls = {} /\ Images \cap Chats = {} /\ Nothing \notin Images
  /\ ByHand \subseteq Material!Fields

Shelves == [Images -> [status : {"absent", "active", "replaced", "deleted_by_user"}, slot : Material!Slots]]
Adjustments == [Material!Fields -> Chats \cup {Nothing}]
Contents == [Material!Fields -> Material!Values]
Cases == [data : Contents, overrides : Adjustments]

MaterialTyped ==
  /\ imageRows \in Shelves /\ caseData \in Cases
  /\ materialPc \in [Material!Places -> {"idle", "working"}]
  /\ materialLock \in [Material!Places -> Material!Locks]
  /\ materialSaw \in [Material!Places -> [rows : Shelves, case : Cases]]
  /\ beside \in [Material!Places -> SUBSET Material!Locks]
  /\ excused \subseteq Images

\* A lock is held by one message, and who was overtaken knows it.
LocksHeld ==
  /\ \A p \in Material!Places :
       IF materialPc[p] = "working" THEN materialSaw[p] = Material!Current \/ beside[p] # {} ELSE beside[p] = {}
  /\ \A r \in Recalls : materialLock[r] = Material!NoLock
  /\ \A c \in Chats : materialPc[c] = "working" =>
       /\ materialLock[c] # Material!NoLock /\ materialLock[c] \notin beside[c]
       /\ \A d \in Chats \ {c} : materialPc[d] = "working" => materialLock[d] # materialLock[c]

\* A value read from an image is of its slot, and the image is there or was replaced by one
\* that says nothing of it; or it is derived, and the image is there or it still would be.
ReadFrom(shelf, i, f) ==
  /\ f # "license_type" /\ f \in Material!Manages[shelf[i].slot]
  /\ \/ shelf[i].status = "active"
     \/ shelf[i].status = "replaced" /\ f \notin Material!Dropped(shelf)
NamedFrom(shelf, data, i, f) ==
  /\ f = "owner_name" /\ shelf[i].slot = "idcard_front"
  /\ shelf[i].status = "active" \/ f \notin Material!Dropped(shelf) \/ data.id_name = i
DecidedFrom(shelf, data, i, f) ==
  /\ f = "license_type"
  /\ shelf[i].status = "active" \/ i \in Electric \/ Material!Says(data, shelf) \cap Electric = {}
Fits(shelf, data, i, f) ==
  /\ shelf[i].status # "absent"
  /\ ReadFrom(shelf, i, f) \/ NamedFrom(shelf, data, i, f) \/ DecidedFrom(shelf, data, i, f)

ValuesOK ==
  \A i \in Images \ excused, f \in Material!Fields :
    caseData.data[f] = i => Fits(imageRows, caseData.data, i, f)

MaterialInv == MaterialTyped /\ LocksHeld /\ ValuesOK

\* One content over another, and the name of an owner.
LEMMA MergedContents ==
  ASSUME NEW S, NEW base \in [Material!Fields -> S], NEW over \in [Material!Fields -> S]
  PROVE  /\ Material!Merged(base, over) \in [Material!Fields -> S]
         /\ \A f \in Material!Fields :
              Material!Merged(base, over)[f] = IF over[f] # Nothing THEN over[f] ELSE base[f]
  BY DEF Material!Merged

LEMMA NamedContents ==
  ASSUME NEW S, NEW data \in [Material!Fields -> S]
  PROVE  /\ Material!Named(data) \in [Material!Fields -> S]
         /\ \A f \in Material!Fields :
              Material!Named(data)[f] =
                IF f = "owner_name" /\ data["owner_name"] = Nothing THEN data["id_name"] ELSE data[f]
<1>1. "id_name" \in Material!Fields /\ "owner_name" \in Material!Fields
  BY DEF Material!Fields
<1> QED  BY <1>1 DEF Material!Named

\* What is shown is active, in a slot that has the field.
LEMMA ShownIsActive ==
  ASSUME NEW view, NEW f, NEW i \in Material!Shown(view, f)
  PROVE  i \in Images /\ view[i].status = "active" /\ f \in Material!Manages[view[i].slot]
  BY DEF Material!Shown, Material!Recognised

LEMMA Managed ==
  /\ \A s \in Material!Slots : "license_type" \notin Material!Manages[s]
  /\ \A s \in Material!Slots : "id_name" \in Material!Manages[s] <=> s = "idcard_front"
  BY DEF Material!Slots, Material!Manages

\* The sort of number plate is what it was, or what speaks for it, new energy before fuel.
LEMMA LicenseDecided ==
  ASSUME NEW data \in Contents, NEW view \in Shelves, NEW l, l = Material!LicenseType(data, view)
  PROVE  /\ l \in Material!Values
         /\ l = data["license_type"] \/ l \in Material!Says(data, view)
         /\ l \in Electric \/ Material!Says(data, view) \cap Electric = {}
<1> DEFINE said == Material!Says(data, view)
           fit(v) == said \cap Electric # {} => v \in Electric
<1>1. said \subseteq Material!Values
  <2>1. data.plate_no \in Material!Values /\ data.energy_type \in Material!Values
    BY DEF Contents, Material!Fields
  <2>2. Material!Shown(view, "energy_type") \subseteq Material!Values
    BY ShownIsActive DEF Material!Values
  <2> QED  BY <2>1, <2>2 DEF Material!Says
<1>2. data["license_type"] \in Material!Values
  BY DEF Contents, Material!Fields
<1>3. l = IF data["license_type"] \in Electric \/ said = {} THEN data["license_type"]
          ELSE CHOOSE v \in said : said \cap Electric # {} => v \in Electric
  BY DEF Material!LicenseType
<1> HIDE DEF said
<1>4. CASE data["license_type"] \in Electric \/ said = {}
  BY <1>2, <1>3, <1>4 DEF said
<1>5. CASE ~(data["license_type"] \in Electric \/ said = {})
  <2>1. \E v \in said : said \cap Electric # {} => v \in Electric
    BY <1>5
  <2>2. l \in said /\ (said \cap Electric # {} => l \in Electric)
    BY <1>3, <1>5, <2>1
  <2> QED  BY <1>1, <2>2 DEF said
<1> QED  BY <1>4, <1>5 DEF said

\* What a commit makes of the data, whose values come from where they may.
From(n, base, view, i, f) ==
  \/ /\ f \notin {"owner_name", "license_type"}
     /\ i \in Material!Shown(view, f) \/ (base.data[f] = i /\ f \notin Material!Dropped(view))
  \/ /\ f = "owner_name"
     /\ \/ i \in Material!Shown(view, "owner_name") \cup Material!Shown(view, "id_name")
        \/ n.data["id_name"] = i
        \/ "owner_name" \notin Material!Dropped(view) /\ i \in {base.data["owner_name"], base.data["id_name"]}
  \/ /\ f = "license_type"
     /\ i \in Electric \/ Material!Says(n.data, view) \cap Electric = {}
     /\ \/ base.data["license_type"] = i
        \/ i \in {n.data["plate_no"], n.data["energy_type"]} \cup Material!Shown(view, "energy_type")

AllFrom(n, base, view, i) == \A f \in Material!Fields : n.data[f] = i => From(n, base, view, i, f)

LEMMA NormalizedFrom ==
  ASSUME Filed, NEW base \in Cases, NEW view \in Shelves, NEW text \in Adjustments, NEW manual \in Adjustments,
         NEW best, NEW n, n = Material!Normalized(base, view, text, manual, best)
  PROVE  /\ n \in Cases
         /\ \A f \in Material!Fields :
              n.overrides[f] = IF manual[f] # Nothing THEN manual[f] ELSE base.overrides[f]
         /\ \A i \in Images : AllFrom(n, base, view, i)
<1> DEFINE overrides == Material!Merged(base.overrides, manual)
           Read(shown) == IF shown = {} THEN Nothing ELSE IF best \in shown THEN best ELSE CHOOSE i \in shown : TRUE
           read == [f \in Material!Fields |-> Read(Material!Shown(view, f))]
           known == Material!Named(base.data)
           kept == Material!Without(known, Material!Dropped(view))
           taken == Material!Named(read)
           said == Material!Named(text)
           first == Material!Merged(kept, taken)
           second == Material!Merged(first, said)
           third == Material!Merged(second, overrides)
           data == Material!Named(third)
           l == Material!LicenseType(data, view)
<1>0. n = [data |-> IF overrides.license_type # Nothing THEN data ELSE [data EXCEPT !.license_type = l],
           overrides |-> overrides]
  BY DEF Material!Normalized
<1>a. base.data \in Contents /\ base.overrides \in Adjustments /\ Adjustments \subseteq Contents
  <2>1. Chats \cup {Nothing} \subseteq Material!Values
    BY DEF Material!Values
  <2> QED  BY <2>1 DEF Cases, Contents, Adjustments
<1>1. /\ overrides \in Adjustments
      /\ \A f \in Material!Fields : overrides[f] = IF manual[f] # Nothing THEN manual[f] ELSE base.overrides[f]
  <2> DEFINE set == Chats \cup {Nothing}
             had == base.overrides
  <2>1. had \in [Material!Fields -> set] /\ manual \in [Material!Fields -> set]
    BY <1>a DEF Adjustments
  <2> HIDE DEF set, had
  <2>2. /\ Material!Merged(had, manual) \in [Material!Fields -> set]
        /\ \A f \in Material!Fields : Material!Merged(had, manual)[f] = IF manual[f] # Nothing THEN manual[f] ELSE had[f]
    BY <2>1 DEF Material!Merged
  <2> QED  BY <2>2 DEF set, had, Adjustments
<1>2. /\ read \in Contents
      /\ \A f \in Material!Fields : read[f] = Nothing \/ read[f] \in Material!Shown(view, f)
  <2>1. \A f : Read(Material!Shown(view, f)) \in Material!Shown(view, f) \cup {Nothing}
    OBVIOUS
  <2>2. \A f : Material!Shown(view, f) \subseteq Images
    BY ShownIsActive
  <2> HIDE DEF Read
  <2> QED  BY <2>1, <2>2 DEF Contents, Material!Values
<1> HIDE DEF overrides, read
<1>3. /\ known \in Contents
      /\ \A f \in Material!Fields :
           known[f] = IF f = "owner_name" /\ base.data["owner_name"] = Nothing THEN base.data["id_name"] ELSE base.data[f]
  BY <1>a, NamedContents DEF Contents
<1>4. /\ taken \in Contents
      /\ \A f \in Material!Fields :
           taken[f] = IF f = "owner_name" /\ read["owner_name"] = Nothing THEN read["id_name"] ELSE read[f]
  BY <1>2, NamedContents DEF Contents
<1>5. /\ said \in Adjustments
      /\ \A f \in Material!Fields :
           said[f] = IF f = "owner_name" /\ text["owner_name"] = Nothing THEN text["id_name"] ELSE text[f]
  BY NamedContents DEF Adjustments
<1> HIDE DEF known, taken, said
<1>6. /\ kept \in Contents
      /\ \A f \in Material!Fields : kept[f] = IF f \in Material!Dropped(view) THEN Nothing ELSE known[f]
  BY <1>3 DEF Contents, Material!Without, Material!Values
<1> HIDE DEF kept
<1>7. /\ first \in Contents
      /\ \A f \in Material!Fields : first[f] = IF taken[f] # Nothing THEN taken[f] ELSE kept[f]
  BY <1>4, <1>6, MergedContents DEF Contents
<1> HIDE DEF first
<1>8. /\ second \in Contents
      /\ \A f \in Material!Fields : second[f] = IF said[f] # Nothing THEN said[f] ELSE first[f]
  <2>1. first \in [Material!Fields -> Material!Values] /\ said \in [Material!Fields -> Material!Values]
    BY <1>a, <1>5, <1>7 DEF Contents
  <2> QED  BY <2>1, MergedContents DEF Contents
<1> HIDE DEF second
<1>9. /\ third \in Contents
      /\ \A f \in Material!Fields : third[f] = IF overrides[f] # Nothing THEN overrides[f] ELSE second[f]
  <2>1. overrides \in Contents
    BY <1>a, <1>1
  <2>2. second \in [Material!Fields -> Material!Values] /\ overrides \in [Material!Fields -> Material!Values]
    BY <1>8, <2>1 DEF Contents
  <2> QED  BY <2>2, MergedContents DEF Contents
<1> HIDE DEF third
<1>10. /\ data \in Contents
       /\ \A f \in Material!Fields :
            data[f] = IF f = "owner_name" /\ third["owner_name"] = Nothing THEN third["id_name"] ELSE third[f]
  BY <1>9, NamedContents DEF Contents
<1> HIDE DEF data
<1>11. /\ l \in Material!Values
       /\ l = data["license_type"] \/ l \in Material!Says(data, view)
       /\ l \in Electric \/ Material!Says(data, view) \cap Electric = {}
  BY <1>10, LicenseDecided
<1> HIDE DEF l
<1>12. /\ n.overrides = overrides
       /\ n.data \in Contents
       /\ \A f \in Material!Fields : f # "license_type" => n.data[f] = data[f]
       /\ n.data["license_type"] = IF overrides["license_type"] # Nothing THEN data["license_type"] ELSE l
  <2>1. n.overrides = overrides
    BY <1>0
  <2>2. n.data = IF overrides["license_type"] # Nothing THEN data ELSE [data EXCEPT !["license_type"] = l]
    BY <1>0
  <2>3. "license_type" \in Material!Fields
    BY DEF Material!Fields
  <2> QED  BY <1>10, <1>11, <2>1, <2>2, <2>3 DEF Contents
<1>13. \A f \in Material!Fields, i \in Images : overrides[f] # i /\ said[f] # i /\ i # Nothing
  BY <1>1, <1>5 DEF Adjustments, Filed
<1>14. ASSUME NEW i \in Images, NEW f \in Material!Fields, f # "owner_name", data[f] = i
       PROVE  i \in Material!Shown(view, f) \/ (base.data[f] = i /\ f \notin Material!Dropped(view))
  <2>1. third[f] = i
    BY <1>10, <1>14
  <2>2. first[f] = i
    BY <1>8, <1>9, <1>13, <2>1
  <2>3. CASE taken[f] = i
    BY <1>2, <1>4, <1>13, <1>14, <2>3
  <2>4. CASE kept[f] = i
    BY <1>3, <1>6, <1>13, <1>14, <2>4
  <2> QED  BY <1>7, <2>2, <2>3, <2>4
<1>15. ASSUME NEW i \in Images, n.data["owner_name"] = i
       PROVE  From(n, base, view, i, "owner_name")
  <2>1. "owner_name" \in Material!Fields /\ "id_name" \in Material!Fields
    BY DEF Material!Fields
  <2>2. data["owner_name"] = i
    BY <1>12, <1>15, <2>1
  <2>3. CASE third["owner_name"] = Nothing
    <3>1. data["id_name"] = i
      BY <1>10, <2>1, <2>2, <2>3
    <3>2. n.data["id_name"] = i
      BY <1>12, <2>1, <3>1
    <3> QED  BY <3>2 DEF From
  <2>4. CASE third["owner_name"] = i
    <3>1. first["owner_name"] = i
      BY <1>8, <1>9, <1>13, <2>1, <2>4
    <3>2. taken["owner_name"] = i \/ kept["owner_name"] = i
      BY <1>7, <2>1, <3>1
    <3>3. CASE taken["owner_name"] = i
      <4>1. read["owner_name"] = i \/ read["id_name"] = i
        BY <1>4, <2>1, <3>3
      <4>2. i \in Material!Shown(view, "owner_name") \cup Material!Shown(view, "id_name")
        BY <1>2, <1>13, <2>1, <4>1
      <4> QED  BY <4>2 DEF From
    <3>4. CASE kept["owner_name"] = i
      <4>1. "owner_name" \notin Material!Dropped(view) /\ known["owner_name"] = i
        BY <1>6, <1>13, <2>1, <3>4
      <4>2. i \in {base.data["owner_name"], base.data["id_name"]}
        BY <1>3, <2>1, <4>1
      <4> QED  BY <4>1, <4>2 DEF From
    <3> QED  BY <3>2, <3>3, <3>4
  <2> QED  BY <1>10, <2>1, <2>2, <2>3, <2>4
<1>16. ASSUME NEW i \in Images, n.data["license_type"] = i
       PROVE  From(n, base, view, i, "license_type")
  <2>1. {"license_type", "plate_no", "energy_type"} \subseteq Material!Fields
    BY DEF Material!Fields
  <2>2. data["license_type"] = i => base.data["license_type"] = i
    <3>1. i \notin Material!Shown(view, "license_type")
      BY ShownIsActive, Managed DEF Shelves
    <3> QED  BY <1>14, <2>1, <3>1
  <2>3. overrides["license_type"] = Nothing
    <3>1. overrides["license_type"] # Nothing => data["license_type"] = overrides["license_type"]
      BY <1>9, <1>10, <2>1
    <3> QED  BY <1>12, <1>13, <1>16, <2>1, <3>1
  <2>4. l = i
    BY <1>12, <1>16, <2>3
  <2>5. Material!Says(n.data, view) = Material!Says(data, view)
    <3>1. n.data["plate_no"] = data["plate_no"] /\ n.data["energy_type"] = data["energy_type"]
      BY <1>12, <2>1
    <3> QED  BY <3>1 DEF Material!Says
  <2>6. i \in Material!Says(n.data, view) =>
          i \in {n.data["plate_no"], n.data["energy_type"]} \cup Material!Shown(view, "energy_type")
    BY DEF Material!Says
  <2> QED  BY <1>11, <2>2, <2>4, <2>5, <2>6 DEF From
<1>17. ASSUME NEW f \in Material!Fields, NEW i \in Images, n.data[f] = i  PROVE From(n, base, view, i, f)
  <2>1. CASE f \notin {"owner_name", "license_type"}
    <3>1. data[f] = i
      BY <1>12, <1>17, <2>1
    <3> QED  BY <1>14, <2>1, <3>1 DEF From
  <2> QED  BY <1>15, <1>16, <1>17, <2>1
<1>18. n \in Cases
  <2>1. n = [data |-> n.data, overrides |-> n.overrides]
    BY <1>0
  <2> QED  BY <1>1, <1>12, <2>1 DEF Cases
<1> QED  BY <1>1, <1>12, <1>17, <1>18 DEF AllFrom

\* Where others committed since, the images a request may spoil are excused; where none
\* did, it has seen what there is.
LEMMA SeenOrExcused ==
  ASSUME NEW p \in Material!Places, NEW own, NEW i \in Images, i \notin Material!Overlapping(p, own)
  PROVE  /\ imageRows[i] = materialSaw[p].rows[i]
         /\ \/ imageRows = materialSaw[p].rows /\ materialSaw[p].case = caseData
            \/ /\ i \notin own
               /\ \A f \in Material!Fields :
                    /\ materialSaw[p].case.data[f] # i
                    /\ caseData.data[f] = i => imageRows[i].status = "active"
<1>1. CASE Material!Current = materialSaw[p]
  BY <1>1 DEF Material!Current
<1>2. CASE Material!Current # materialSaw[p]
  BY <1>2 DEF Material!Overlapping
<1> QED  BY <1>1, <1>2

\* The slots a value may be of.
OfSlot(shelf, i, f) ==
  /\ shelf[i].status # "absent"
  /\ \/ f = "license_type" \/ f \in Material!Manages[shelf[i].slot]
     \/ f = "owner_name" /\ shelf[i].slot = "idcard_front"

LEMMA FitsItsSlot ==
  ASSUME NEW shelf \in Shelves, NEW data, NEW i \in Images, NEW f
  PROVE  /\ Fits(shelf, data, i, f) => OfSlot(shelf, i, f)
         /\ OfSlot(shelf, i, f) /\ shelf[i].status = "active" => Fits(shelf, data, i, f)
  BY Managed DEF Fits, ReadFrom, NamedFrom, DecidedFrom, OfSlot, Shelves

\* The values of a case fit the rows, and the rows a commit leaves are of the same slots.
KeptFits(old, was, base, view, i) ==
  \A f \in Material!Fields : base.data[f] = i =>
    /\ Fits(old, was, i, f) /\ view[i].slot = old[i].slot /\ view[i].status # "absent"
    /\ (f \in Material!Manages[old[i].slot] => view[i].status \in {old[i].status, "active", "replaced"})

KeptActive(shelf, base, i) ==
  \A f \in Material!Fields : base.data[f] = i => OfSlot(shelf, i, f) /\ shelf[i].status = "active"

\* Whatever is read or kept is of its slot.
LEMMA FromItsSlot ==
  ASSUME NEW view \in Shelves, NEW base, NEW n, NEW i \in Images,
         AllFrom(n, base, view, i), \A g \in Material!Fields : base.data[g] = i => OfSlot(view, i, g),
         NEW f \in Material!Fields, n.data[f] = i
  PROVE  OfSlot(view, i, f)
<1> DEFINE there == view[i].status # "absent"
<1>0. /\ view[i].slot \in Material!Slots
      /\ "id_name" \in Material!Fields /\ "owner_name" \in Material!Fields
  BY DEF Shelves, Material!Fields
<1>1. \A g : i \in Material!Shown(view, g) => g \in Material!Manages[view[i].slot]
  BY ShownIsActive
<1>2. /\ \A g : i \in Material!Shown(view, g) => there
      /\ \A g \in Material!Fields : base.data[g] = i => there
  BY ShownIsActive DEF OfSlot
<1>3. \A g \in Material!Fields \ {"owner_name", "license_type"} : n.data[g] = i => there
  BY <1>2 DEF AllFrom, From
<1>4. there
  <2>1. {"plate_no", "energy_type", "id_name", "owner_name", "license_type"} \subseteq Material!Fields
    BY DEF Material!Fields
  <2>2. From(n, base, view, i, f)
    BY DEF AllFrom
  <2>3. CASE f = "owner_name"
    BY <1>2, <1>3, <2>1, <2>2, <2>3 DEF From
  <2>4. CASE f = "license_type"
    BY <1>2, <1>3, <2>1, <2>2, <2>4 DEF From
  <2> QED  BY <1>3, <2>3, <2>4
<1>5. "id_name" \in Material!Manages[view[i].slot] => view[i].slot = "idcard_front"
  BY <1>0, Managed
<1>6. OfSlot(view, i, "id_name") => view[i].slot = "idcard_front"
  BY <1>5 DEF OfSlot
<1>7. n.data["id_name"] = i => OfSlot(view, i, "id_name")
  BY <1>0, <1>1, <1>4 DEF AllFrom, From, OfSlot
<1>8. CASE f \notin {"owner_name", "license_type"}
  <2>1. From(n, base, view, i, f)
    BY DEF AllFrom
  <2> QED  BY <1>1, <1>8, <1>4, <2>1 DEF From, OfSlot
<1>9. CASE f = "license_type"
  BY <1>9, <1>4 DEF OfSlot
<1>10. CASE f = "owner_name"
  <2>1. From(n, base, view, i, "owner_name")
    BY <1>10 DEF AllFrom
  <2>2. CASE view[i].slot = "idcard_front"
    BY <1>10, <1>4, <2>2 DEF OfSlot
  <2>3. CASE view[i].slot # "idcard_front"
    <3>1. i \in Material!Shown(view, "owner_name") \/ base.data["owner_name"] = i
      BY <1>0, <1>1, <1>5, <1>6, <1>7, <2>1, <2>3 DEF From
    <3> QED  BY <1>0, <1>1, <1>10, <1>4, <3>1 DEF OfSlot
  <2> QED  BY <2>2, <2>3
<1> QED  BY <1>8, <1>9, <1>10

\* A commit on rows nobody changed meanwhile: what it derives and keeps still fits.
LEMMA FreshCommit ==
  ASSUME NEW old \in Shelves, NEW view \in Shelves, NEW was, NEW base, NEW n, NEW i \in Images,
         AllFrom(n, base, view, i), KeptFits(old, was, base, view, i),
         NEW f \in Material!Fields, n.data[f] = i
  PROVE  Fits(view, n.data, i, f)
<1>0. OfSlot(view, i, f)
  <2>1. \A g \in Material!Fields : base.data[g] = i => OfSlot(view, i, g)
    <3>1. \A g \in Material!Fields : base.data[g] = i => OfSlot(old, i, g) /\ view[i].slot = old[i].slot /\ view[i].status # "absent"
      BY FitsItsSlot DEF KeptFits
    <3> QED  BY <3>1 DEF OfSlot
  <2> QED  BY <2>1, FromItsSlot
<1>1. From(n, base, view, i, f) /\ "owner_name" \in Material!Fields
  BY DEF AllFrom, Material!Fields
<1>2. CASE view[i].status = "active"
  BY <1>0, <1>2, FitsItsSlot
<1>3. CASE view[i].status # "active"
  <2>1. \A g : i \notin Material!Shown(view, g)
    BY <1>3, ShownIsActive
  <2>2. CASE f = "license_type"
    BY <1>0, <1>1, <2>2 DEF From, Fits, DecidedFrom, OfSlot
  <2>3. CASE f = "owner_name" /\ view[i].slot = "idcard_front"
    BY <1>0, <1>1, <2>1, <2>3 DEF From, Fits, NamedFrom, OfSlot
  <2>4. CASE f # "license_type" /\ f \in Material!Manages[view[i].slot]
    <3>1. f # "owner_name" \/ n.data["id_name"] # i
      <4>1. n.data["id_name"] = i => view[i].slot = "idcard_front"
        <5>1. "id_name" \in Material!Fields /\ view[i].slot \in Material!Slots
          BY DEF Material!Fields, Shelves
        <5>2. n.data["id_name"] = i => OfSlot(view, i, "id_name")
          <6>1. \A g \in Material!Fields : base.data[g] = i => OfSlot(old, i, g) /\ view[i].slot = old[i].slot /\ view[i].status # "absent"
            BY FitsItsSlot DEF KeptFits
          <6>2. \A g \in Material!Fields : base.data[g] = i => OfSlot(view, i, g)
            BY <6>1 DEF OfSlot
          <6> QED  BY <5>1, <6>2, FromItsSlot
        <5> QED  BY <5>1, <5>2, Managed DEF OfSlot
      <4>2. "owner_name" \notin Material!Manages["idcard_front"]
        BY DEF Material!Manages
      <4> QED  BY <2>4, <4>1, <4>2
    <3>2. f \notin Material!Dropped(view) /\ (base.data[f] = i \/ (f = "owner_name" /\ base.data["id_name"] = i))
      BY <1>1, <2>1, <2>4, <3>1 DEF From
    <3>3. base.data[f] = i
      <4>1. f = "owner_name" => base.data["id_name"] # i
        <5>1. "id_name" \in Material!Fields /\ old[i].slot \in Material!Slots
          BY DEF Material!Fields, Shelves
        <5>2. base.data["id_name"] = i => OfSlot(old, i, "id_name") /\ view[i].slot = old[i].slot
          BY <5>1, FitsItsSlot DEF KeptFits
        <5>3. base.data["id_name"] = i => view[i].slot = "idcard_front"
          BY <5>1, <5>2, Managed DEF OfSlot
        <5> QED  BY <2>4, <5>3 DEF Material!Manages
      <4> QED  BY <3>2, <4>1
    <3>4. /\ Fits(old, was, i, f) /\ view[i].slot = old[i].slot
          /\ view[i].status \in {old[i].status, "replaced"}
      BY <1>3, <2>4, <3>3 DEF KeptFits
    <3>5. f # "owner_name" \/ old[i].slot # "idcard_front"
      BY <2>4, <3>4 DEF Material!Manages
    <3>6. old[i].status \in {"active", "replaced"}
      BY <2>4, <3>4, <3>5 DEF Fits, ReadFrom, NamedFrom, DecidedFrom
    <3> QED  BY <1>3, <2>4, <3>2, <3>4, <3>6 DEF Fits, ReadFrom
  <2> QED  BY <1>0, <2>2, <2>3, <2>4 DEF OfSlot
<1> QED  BY <1>2, <1>3

\* A commit over others: an image it must not spoil is there, as the request saw it.
LEMMA StaleCommit ==
  ASSUME NEW shelf \in Shelves, NEW view \in Shelves, NEW base, NEW n, NEW i \in Images, view[i] = shelf[i],
         AllFrom(n, base, view, i), KeptActive(shelf, base, i),
         NEW f \in Material!Fields, n.data[f] = i
  PROVE  Fits(shelf, n.data, i, f)
<1>0. {"id_name", "owner_name", "license_type", "plate_no", "energy_type"} \subseteq Material!Fields
  BY DEF Material!Fields
<1>1. \A g : i \in Material!Shown(view, g) => shelf[i].status = "active"
  BY ShownIsActive
<1>2. \A g \in Material!Fields \ {"owner_name", "license_type"} : n.data[g] = i => shelf[i].status = "active"
  BY <1>1 DEF AllFrom, KeptActive, From
<1>3. n.data["id_name"] = i \/ n.data["plate_no"] = i \/ n.data["energy_type"] = i => shelf[i].status = "active"
  BY <1>0, <1>2
<1>4. shelf[i].status = "active"
  <2>1. CASE f = "owner_name"
    BY <1>0, <1>1, <1>3, <2>1 DEF AllFrom, KeptActive, From
  <2>2. CASE f = "license_type"
    BY <1>0, <1>1, <1>3, <2>2 DEF AllFrom, KeptActive, From
  <2> QED  BY <1>2, <2>1, <2>2
<1>5. OfSlot(view, i, f)
  <2>1. \A g \in Material!Fields : base.data[g] = i => OfSlot(view, i, g)
    BY DEF KeptActive, OfSlot
  <2> QED  BY <2>1, FromItsSlot
<1> QED  BY <1>4, <1>5, FitsItsSlot DEF OfSlot

\* A request p writes the images `own` and then sees the rows as `view`, and where it saw what
\* there is, those are the rows, and the images of the values it keeps stay in their slots.
RowsKept(p, own, view) ==
  /\ \A i \in Images \ own : imageRows'[i] = imageRows[i] /\ view[i] = materialSaw[p].rows[i]
  /\ imageRows = materialSaw[p].rows => view = imageRows'
DataKept(p, base) ==
  \A i \in Images \ excused', f \in Material!Fields :
    imageRows = materialSaw[p].rows /\ base.data[f] = i /\ imageRows[i].status # "absent" =>
      /\ imageRows'[i].slot = imageRows[i].slot /\ imageRows'[i].status # "absent"
      /\ (f \in Material!Manages[imageRows[i].slot] =>
            imageRows'[i].status \in {imageRows[i].status, "active", "replaced"})
PartOf(base, read) == \A f \in Material!Fields : base.data[f] \in {read.data[f], Nothing}

\* What the commit of a request p leaves, which writes the images `own`, sees the rows as `view`
\* and starts from `base`, the case it read without some fields.
LEMMA CommitKeepsValues ==
  ASSUME Filed, MaterialInv, NEW p \in Material!Places, NEW own, NEW view \in Shelves, imageRows' \in Shelves,
         NEW read \in {caseData, materialSaw[p].case}, NEW base \in Cases,
         NEW text \in Adjustments, NEW manual \in Adjustments, NEW best,
         NEW n, n = Material!Normalized(base, view, text, manual, best), caseData' = Material!Sent(n, read, caseData),
         excused \cup Material!Overlapping(p, own) \subseteq excused',
         RowsKept(p, own, view), DataKept(p, base), PartOf(base, read)
  PROVE  ValuesOK'
<1>1. \A i \in Images : AllFrom(n, base, view, i)
  BY NormalizedFrom
<1>2. caseData' \in {caseData, n}
  BY DEF Material!Sent
<1>3. imageRows \in Shelves /\ Nothing \notin Images
  BY DEF MaterialInv, MaterialTyped, Filed
<1>4. ASSUME NEW i \in Images \ excused', NEW f \in Material!Fields, caseData'.data[f] = i
      PROVE  Fits(imageRows', caseData'.data, i, f)
  <2>1. i \notin Material!Overlapping(p, own) /\ i \in Images \ excused
    OBVIOUS
  <2>2. /\ imageRows[i] = materialSaw[p].rows[i]
        /\ \/ imageRows = materialSaw[p].rows /\ materialSaw[p].case = caseData
           \/ /\ i \notin own
              /\ \A g \in Material!Fields :
                   /\ materialSaw[p].case.data[g] # i
                   /\ caseData.data[g] = i => imageRows[i].status = "active"
    BY <2>1, SeenOrExcused
  <2>3. \A g \in Material!Fields : caseData.data[g] = i => Fits(imageRows, caseData.data, i, g)
    BY <2>1 DEF MaterialInv, ValuesOK
  <2>4. CASE imageRows = materialSaw[p].rows /\ materialSaw[p].case = caseData
    <3>1. caseData' = n /\ view = imageRows' /\ read = caseData
      BY <2>4, <1>2 DEF Material!Sent, RowsKept
    <3>2. \A g \in Material!Fields : base.data[g] = i => caseData.data[g] = i
      BY <1>3, <3>1 DEF PartOf
    <3>3. KeptFits(imageRows, caseData.data, base, view, i)
      <4>1. \A g \in Material!Fields : base.data[g] = i =>
              Fits(imageRows, caseData.data, i, g) /\ imageRows[i].status # "absent"
        BY <2>3, <3>2 DEF Fits
      <4> QED  BY <2>4, <3>1, <4>1 DEF KeptFits, DataKept
    <3>4. Fits(view, n.data, i, f)
      BY <1>1, <1>3, <1>4, <3>1, <3>3, FreshCommit
    <3> QED  BY <3>1, <3>4
  <2>5. CASE /\ i \notin own
             /\ \A g \in Material!Fields :
                  /\ materialSaw[p].case.data[g] # i
                  /\ caseData.data[g] = i => imageRows[i].status = "active"
    <3>1. imageRows'[i] = imageRows[i] /\ view[i] = imageRows'[i]
      BY <2>2, <2>5 DEF RowsKept
    <3>2. \A g \in Material!Fields : caseData.data[g] = i => OfSlot(imageRows', i, g) /\ imageRows'[i].status = "active"
      <4>1. \A g \in Material!Fields : caseData.data[g] = i => OfSlot(imageRows, i, g)
        BY <1>3, <2>3, FitsItsSlot
      <4> QED  BY <2>5, <3>1, <4>1 DEF OfSlot
    <3>3. CASE caseData' = caseData
      BY <1>4, <3>2, <3>3, FitsItsSlot
    <3>4. CASE caseData' = n
      <4>1. \A g \in Material!Fields : base.data[g] = i => caseData.data[g] = i
        BY <1>3, <2>5 DEF PartOf
      <4> DEFINE shelf == imageRows'
      <4>2. KeptActive(shelf, base, i)
        BY <3>2, <4>1 DEF KeptActive
      <4>3. shelf \in Shelves /\ view[i] = shelf[i] /\ n.data[f] = i
        BY <1>4, <3>1, <3>4
      <4> HIDE DEF shelf
      <4>4. Fits(shelf, n.data, i, f)
        BY <1>1, <4>2, <4>3, StaleCommit
      <4> QED  BY <3>4, <4>4 DEF shelf
    <3> QED  BY <1>2, <3>3, <3>4
  <2> QED  BY <2>2, <2>4, <2>5
<1> QED  BY <1>4 DEF ValuesOK

\* An image put into a slot: the images it replaces, and what the request then sees.
Others(c, img, s) == Material!InSlot(materialSaw[c].rows, s) \ {img}
Status(c, img) == Material!Sent("active", materialSaw[c].rows[img].status, imageRows[img].status)
Taken(c, img, s) ==
  [j \in Images |-> IF j = img THEN [status |-> Status(c, img), slot |-> s]
                    ELSE IF j \in Others(c, img, s) THEN [materialSaw[c].rows[j] EXCEPT !.status = "replaced"]
                    ELSE materialSaw[c].rows[j]]
RowsTaken(c, img, s) ==
  [j \in Images |-> IF j = img THEN [status |-> Status(c, img),
                                     slot |-> Material!Sent(s, materialSaw[c].rows[img].slot, imageRows[img].slot)]
                    ELSE IF j \in Others(c, img, s) THEN [imageRows[j] EXCEPT !.status = "replaced"]
                    ELSE imageRows[j]]
Moved(c, img, s) ==
  IF materialSaw[c].rows[img].status # "absent" /\ materialSaw[c].rows[img].slot # s THEN {img} ELSE {}

LEMMA ImageKeepsValues ==
  ASSUME Filed, MaterialInv, NEW c \in Material!Places, NEW img \in Images, NEW s \in Material!Slots,
         NEW base \in {caseData, materialSaw[c].case}, NEW best,
         imageRows' = RowsTaken(c, img, s),
         excused' = excused \cup Material!Overlapping(c, {img} \cup Others(c, img, s)) \cup Moved(c, img, s),
         caseData' = Material!Sent(Material!Normalized(base, Taken(c, img, s), Material!Empty, Material!Empty, best),
                                   base, caseData)
  PROVE  ValuesOK' /\ Taken(c, img, s) \in Shelves /\ imageRows' \in Shelves
<1> DEFINE view == Taken(c, img, s)
           displaced == Others(c, img, s)
           own == {img} \cup displaced
           st == Status(c, img)
           looked == materialSaw[c].rows
           read == base
           n == Material!Normalized(base, view, Material!Empty, Material!Empty, best)
<1>1. base \in Cases /\ looked \in Shelves /\ imageRows \in Shelves
  BY DEF MaterialInv, MaterialTyped
<1>2. view \in Shelves /\ imageRows' \in Shelves /\ Material!Empty \in Adjustments
  <2>1. \A l \in {"absent", "active", "replaced", "deleted_by_user"}, t \in Material!Slots :
          [status |-> l, slot |-> t] \in
            [status : {"absent", "active", "replaced", "deleted_by_user"}, slot : Material!Slots]
    OBVIOUS
  <2>2. /\ st \in {"absent", "active", "replaced", "deleted_by_user"}
        /\ Material!Sent(s, looked[img].slot, imageRows[img].slot) \in Material!Slots
    BY <1>1 DEF Shelves, Material!Sent, Status
  <2>3. \A j \in Images : /\ [looked[j] EXCEPT !.status = "replaced"] \in
                               [status : {"absent", "active", "replaced", "deleted_by_user"}, slot : Material!Slots]
                         /\ [imageRows[j] EXCEPT !.status = "replaced"] \in
                               [status : {"absent", "active", "replaced", "deleted_by_user"}, slot : Material!Slots]
    BY <1>1 DEF Shelves
  <2> HIDE DEF st, displaced
  <2>4. view \in Shelves
    BY <1>1, <2>1, <2>2, <2>3 DEF Shelves, st, Taken
  <2>5. imageRows' \in Shelves
    BY <1>1, <2>1, <2>2, <2>3 DEF Shelves, st, RowsTaken
  <2> QED  BY <2>4, <2>5 DEF Adjustments, Material!Empty
<1>3. \A j \in Images \ own : imageRows'[j] = imageRows[j] /\ view[j] = looked[j]
  BY DEF Taken, RowsTaken
<1>4. imageRows = looked => view = imageRows'
  BY DEF Taken, RowsTaken, Status, Material!Sent
<1>5. ASSUME NEW j \in Images \ excused', NEW f \in Material!Fields,
             imageRows = looked, base.data[f] = j, imageRows[j].status # "absent"
      PROVE  /\ imageRows'[j].slot = imageRows[j].slot /\ imageRows'[j].status # "absent"
             /\ (f \in Material!Manages[imageRows[j].slot] =>
                   imageRows'[j].status \in {imageRows[j].status, "active", "replaced"})
  <2>1. CASE j = img
    <3>1. img \notin Moved(c, img, s)
      BY <2>1
    <3>2. imageRows[img].slot = s
      BY <1>5, <2>1, <3>1 DEF Moved
    <3>3. imageRows'[img].status \in {"active", imageRows[img].status} /\ imageRows'[img].slot = s
      BY <3>2 DEF RowsTaken, Status, Material!Sent
    <3> QED  BY <1>5, <2>1, <3>2, <3>3
  <2>2. CASE j # img /\ j \in displaced
    <3>1. imageRows'[j] = [imageRows[j] EXCEPT !.status = "replaced"]
      BY <2>2 DEF RowsTaken
    <3> QED  BY <1>1, <3>1 DEF Shelves
  <2>3. CASE j \notin own
    BY <1>3, <1>5, <2>3
  <2> QED  BY <2>1, <2>2, <2>3
<1>6. /\ n = Material!Normalized(base, view, Material!Empty, Material!Empty, best)
      /\ caseData' = Material!Sent(n, read, caseData) /\ read \in {caseData, materialSaw[c].case}
      /\ excused \cup Material!Overlapping(c, own) \subseteq excused'
      /\ PartOf(base, read)
  BY DEF PartOf
<1> HIDE DEF view, own, looked, read, n
<1>7. RowsKept(c, own, view) /\ DataKept(c, base)
  BY <1>3, <1>4, <1>5 DEF looked, RowsKept, DataKept
<1>8. ValuesOK'
  BY <1>1, <1>2, <1>6, <1>7, CommitKeepsValues
<1> QED  BY <1>2, <1>8 DEF view

\* A recall: the fields of the slots that images leave, the case without them, and the rows.
Leaving(r, gone) == UNION {Material!Manages[materialSaw[r].rows[i].slot] : i \in gone}
CaseLeft(r, gone) == [materialSaw[r].case EXCEPT !.data = Material!Without(@, Leaving(r, gone))]
ViewLeft(r, gone) ==
  [i \in Images |-> IF i \in gone THEN [materialSaw[r].rows[i] EXCEPT !.status = "deleted_by_user"]
                    ELSE materialSaw[r].rows[i]]
RowsLeft(gone) ==
  [i \in Images |-> IF i \in gone THEN [imageRows[i] EXCEPT !.status = "deleted_by_user"] ELSE imageRows[i]]

LEMMA RecallKeepsValues ==
  ASSUME Filed, MaterialInv, NEW r \in Material!Places, NEW best, NEW gone,
         gone \subseteq {i \in Images : materialSaw[r].rows[i].status = "active"},
         imageRows' = RowsLeft(gone), excused' = excused \cup Material!Overlapping(r, gone),
         caseData' = Material!Sent(Material!Normalized(CaseLeft(r, gone), ViewLeft(r, gone), Material!Empty,
                                                       Material!Empty, best),
                                   materialSaw[r].case, caseData)
  PROVE  ValuesOK' /\ CaseLeft(r, gone) \in Cases /\ ViewLeft(r, gone) \in Shelves /\ imageRows' \in Shelves
<1> DEFINE looked == materialSaw[r].rows
           had == materialSaw[r].case
           fields == Leaving(r, gone)
           base == CaseLeft(r, gone)
           view == ViewLeft(r, gone)
           n == Material!Normalized(base, view, Material!Empty, Material!Empty, best)
<1>1. had \in Cases /\ looked \in Shelves /\ imageRows \in Shelves
  BY DEF MaterialInv, MaterialTyped
<1>2. view \in Shelves /\ imageRows' \in Shelves /\ Material!Empty \in Adjustments
  <2>1. \A i \in Images : /\ [looked[i] EXCEPT !.status = "deleted_by_user"] \in
                               [status : {"absent", "active", "replaced", "deleted_by_user"}, slot : Material!Slots]
                         /\ [imageRows[i] EXCEPT !.status = "deleted_by_user"] \in
                               [status : {"absent", "active", "replaced", "deleted_by_user"}, slot : Material!Slots]
    BY <1>1 DEF Shelves
  <2> QED  BY <1>1, <2>1 DEF Shelves, Adjustments, Material!Empty, ViewLeft, RowsLeft
<1>3. /\ base \in Cases
      /\ \A f \in Material!Fields : base.data[f] = IF f \in fields THEN Nothing ELSE had.data[f]
  BY <1>1 DEF Cases, Contents, CaseLeft, Material!Without, Material!Values
<1>4. \A j \in Images \ gone : imageRows'[j] = imageRows[j] /\ view[j] = looked[j]
  BY DEF ViewLeft, RowsLeft
<1>5. imageRows = looked => view = imageRows'
  BY DEF ViewLeft, RowsLeft
<1>6. ASSUME NEW j \in Images, NEW f \in Material!Fields,
             imageRows = looked, base.data[f] = j, imageRows[j].status # "absent"
      PROVE  /\ imageRows'[j].slot = imageRows[j].slot /\ imageRows'[j].status # "absent"
             /\ (f \in Material!Manages[imageRows[j].slot] =>
                   imageRows'[j].status \in {imageRows[j].status, "active", "replaced"})
  <2>1. CASE j \in gone
    <3>1. imageRows'[j] = [imageRows[j] EXCEPT !.status = "deleted_by_user"]
      BY <2>1 DEF RowsLeft
    <3>2. f \notin fields
      BY <1>3, <1>6 DEF Filed
    <3>3. f \notin Material!Manages[imageRows[j].slot]
      BY <1>6, <2>1, <3>2 DEF Leaving
    <3> QED  BY <1>1, <3>1, <3>3 DEF Shelves
  <2>2. CASE j \notin gone
    BY <1>4, <1>6, <2>2
  <2> QED  BY <2>1, <2>2
<1>7. /\ n = Material!Normalized(base, view, Material!Empty, Material!Empty, best)
      /\ caseData' = Material!Sent(n, had, caseData)
      /\ excused \cup Material!Overlapping(r, gone) \subseteq excused'
      /\ PartOf(base, had)
      /\ had \in {caseData, materialSaw[r].case}
  BY <1>3 DEF PartOf
<1> HIDE DEF view, looked, n, base, had
<1>8. RowsKept(r, gone, view) /\ DataKept(r, base)
  BY <1>4, <1>5, <1>6 DEF looked, RowsKept, DataKept
<1>9. ValuesOK'
  BY <1>2, <1>3, <1>7, <1>8, CommitKeepsValues
<1> QED  BY <1>2, <1>3, <1>9 DEF base, view

\* A request that ends, and the others then know whether they were overtaken.
LEMMA DoneKeeps ==
  ASSUME Filed, MaterialInv, NEW p \in Material!Places, materialPc[p] = "working",
         Material!Done(p), imageRows' \in Shelves, caseData' \in Cases, excused' \subseteq Images
  PROVE  MaterialTyped' /\ LocksHeld'
<1>1. /\ materialPc \in [Material!Places -> {"idle", "working"}]
      /\ materialLock \in [Material!Places -> Material!Locks]
      /\ materialSaw \in [Material!Places -> [rows : Shelves, case : Cases]]
      /\ beside \in [Material!Places -> SUBSET Material!Locks]
  BY DEF MaterialInv, MaterialTyped
<1>2. Material!NoLock \in Material!Locks
  BY DEF Material!Locks
<1>3. Material!NoView \in [rows : Shelves, case : Cases]
  BY DEF Material!NoView, Material!Absent, Material!Empty, Material!Slots, Material!Values, Shelves, Cases, Contents,
         Adjustments
<1>4. \A q \in Material!Places :
        beside'[q] = IF q = p \/ materialPc[q] # "working" THEN {}
                     ELSE IF Material!Current' = Material!Current THEN beside[q]
                     ELSE beside[q] \cup {materialLock[p]}
  BY DEF Material!Done
<1>5. \A q \in Material!Places :
        /\ materialPc'[q] = IF q = p THEN "idle" ELSE materialPc[q]
        /\ materialLock'[q] = IF q = p THEN Material!NoLock ELSE materialLock[q]
        /\ materialSaw'[q] = IF q = p THEN Material!NoView ELSE materialSaw[q]
  BY <1>1 DEF Material!Done
<1>6. MaterialTyped'
  <2>1. beside' \in [Material!Places -> SUBSET Material!Locks]
    BY <1>1 DEF Material!Done
  <2>2. /\ materialPc' \in [Material!Places -> {"idle", "working"}]
        /\ materialLock' \in [Material!Places -> Material!Locks]
        /\ materialSaw' \in [Material!Places -> [rows : Shelves, case : Cases]]
    BY <1>1, <1>2, <1>3 DEF Material!Done
  <2> QED  BY <2>1, <2>2 DEF MaterialTyped
<1>7. ASSUME NEW q \in Material!Places
      PROVE  IF materialPc'[q] = "working" THEN materialSaw'[q] = Material!Current' \/ beside'[q] # {}
             ELSE beside'[q] = {}
  BY <1>1, <1>4, <1>5 DEF MaterialInv, LocksHeld
<1>8. ASSUME NEW r \in Recalls
      PROVE  materialLock'[r] = Material!NoLock
  BY <1>5 DEF MaterialInv, LocksHeld, Material!Places
<1>9. ASSUME NEW c \in Chats, materialPc'[c] = "working"
      PROVE  /\ materialLock'[c] # Material!NoLock /\ materialLock'[c] \notin beside'[c]
             /\ \A d \in Chats \ {c} : materialPc'[d] = "working" => materialLock'[d] # materialLock'[c]
  <2>1. c \in Material!Places /\ Chats \subseteq Material!Places
    BY DEF Material!Places
  <2>2. c # p /\ materialPc[c] = "working" /\ materialLock'[c] = materialLock[c]
    BY <1>5, <1>9, <2>1
  <2>3. /\ materialLock[c] # Material!NoLock /\ materialLock[c] \notin beside[c]
        /\ \A d \in Chats \ {c} : materialPc[d] = "working" => materialLock[d] # materialLock[c]
    BY <2>2 DEF MaterialInv, LocksHeld
  <2>4. materialLock[p] # materialLock[c]
    BY <2>2, <2>3 DEF MaterialInv, LocksHeld, Material!Places
  <2>5. beside'[c] \subseteq beside[c] \cup {materialLock[p]}
    BY <1>4, <2>1
  <2>6. \A d \in Chats \ {c} : materialPc'[d] = "working" => materialPc[d] = "working" /\ materialLock'[d] = materialLock[d]
    BY <1>5, <2>1
  <2> QED  BY <2>2, <2>3, <2>4, <2>5, <2>6
<1> QED  BY <1>6, <1>7, <1>8, <1>9 DEF LocksHeld

\* A request that begins has seen everything.
LEMMA BeginKeeps ==
  ASSUME Filed, MaterialInv, NEW p \in Material!Places, materialPc[p] = "idle",
         materialPc' = [materialPc EXCEPT ![p] = "working"],
         materialSaw' = [materialSaw EXCEPT ![p] = Material!Current],
         UNCHANGED <<imageRows, caseData, beside, excused>>,
         NEW l \in Material!Locks, materialLock' = [materialLock EXCEPT ![p] = l],
         p \in Recalls => l = Material!NoLock,
         p \in Chats => l # Material!NoLock /\ Material!Free(l)
  PROVE  MaterialInv'
<1>1. /\ materialPc \in [Material!Places -> {"idle", "working"}]
      /\ materialLock \in [Material!Places -> Material!Locks]
      /\ materialSaw \in [Material!Places -> [rows : Shelves, case : Cases]]
      /\ imageRows \in Shelves /\ caseData \in Cases
  BY DEF MaterialInv, MaterialTyped
<1>2. MaterialTyped'
  <2>1. Material!Current \in [rows : Shelves, case : Cases]
    BY <1>1 DEF Material!Current
  <2> QED  BY <1>1, <2>1 DEF MaterialInv, MaterialTyped
<1>3. /\ materialPc'[p] = "working" /\ materialLock'[p] = l /\ materialSaw'[p] = Material!Current /\ beside[p] = {}
      /\ \A q \in Material!Places \ {p} :
           /\ materialPc'[q] = materialPc[q] /\ materialLock'[q] = materialLock[q] /\ materialSaw'[q] = materialSaw[q]
  BY <1>1 DEF MaterialInv, LocksHeld
<1>4. Material!Current' = Material!Current
  BY DEF Material!Current
<1>5. ASSUME NEW q \in Material!Places
      PROVE  IF materialPc'[q] = "working" THEN materialSaw'[q] = Material!Current' \/ beside'[q] # {}
             ELSE beside'[q] = {}
  BY <1>3, <1>4 DEF MaterialInv, LocksHeld
<1>6. ASSUME NEW r \in Recalls
      PROVE  materialLock'[r] = Material!NoLock
  BY <1>3 DEF MaterialInv, LocksHeld, Material!Places
<1>7. ASSUME NEW c \in Chats, materialPc'[c] = "working"
      PROVE  /\ materialLock'[c] # Material!NoLock /\ materialLock'[c] \notin beside'[c]
             /\ \A d \in Chats \ {c} : materialPc'[d] = "working" => materialLock'[d] # materialLock'[c]
  <2>1. Chats \subseteq Material!Places
    BY DEF Material!Places
  <2>2. CASE c = p
    BY <1>3, <2>1, <2>2 DEF Material!Free
  <2>3. CASE c # p
    <3>1. /\ materialLock[c] # Material!NoLock /\ materialLock[c] \notin beside[c]
          /\ \A d \in Chats \ {c} : materialPc[d] = "working" => materialLock[d] # materialLock[c]
          /\ materialPc[c] = "working" /\ materialLock'[c] = materialLock[c]
      BY <1>3, <1>7, <2>1, <2>3 DEF MaterialInv, LocksHeld
    <3>2. p \in Chats => materialLock[c] # l
      BY <3>1 DEF Material!Free
    <3> QED  BY <1>3, <2>1, <2>3, <3>1, <3>2
  <2> QED  BY <2>2, <2>3
<1>8. LocksHeld'
  BY <1>5, <1>6, <1>7 DEF LocksHeld
<1>9. ValuesOK'
  BY DEF MaterialInv, ValuesOK
<1> QED  BY <1>2, <1>8, <1>9 DEF MaterialInv

\* What a commit does to the adjustments.
OverrideKept(f) ==
  caseData.overrides[f] # Nothing /\ caseData'.overrides[f] # caseData.overrides[f] =>
    \E p \in Material!Places :
      /\ materialPc[p] = "working" /\ materialPc'[p] = "idle"
      /\ caseData'.overrides[f] = p \/ Material!Overtaken(p)

LEMMA CommitKeepsOverrides ==
  ASSUME MaterialInv, NEW p \in Material!Places, materialPc[p] = "working", Material!Done(p),
         NEW read \in {caseData, materialSaw[p].case}, NEW base, base.overrides = read.overrides,
         NEW f \in Material!Fields, NEW n, n.overrides[f] \in {p, base.overrides[f]},
         caseData' = Material!Sent(n, read, caseData)
  PROVE  OverrideKept(f)
<1> SUFFICES ASSUME caseData'.overrides[f] # caseData.overrides[f]
             PROVE  /\ materialPc'[p] = "idle"
                    /\ caseData'.overrides[f] = p \/ Material!Overtaken(p)
  BY DEF OverrideKept
<1>1. materialPc'[p] = "idle"
  BY DEF MaterialInv, MaterialTyped, Material!Done
<1>2. caseData' = n
  BY DEF Material!Sent
<1>3. CASE n.overrides[f] = p
  BY <1>1, <1>2, <1>3
<1>4. CASE n.overrides[f] = base.overrides[f]
  <2>1. materialSaw[p].case # caseData
    BY <1>2, <1>4
  <2>2. materialSaw[p] # Material!Current
    BY <2>1 DEF Material!Current
  <2>3. beside[p] # {}
    BY <2>2 DEF MaterialInv, LocksHeld
  <2>4. materialLock[p] = Material!NoLock \/ materialLock[p] \notin beside[p]
    BY DEF MaterialInv, LocksHeld, Material!Places
  <2>5. PICK l \in beside[p] : TRUE
    BY <2>3
  <2>6. l \notin {materialLock[p]} \ {Material!NoLock}
    BY <2>4, <2>5
  <2>7. Material!Overtaken(p)
    BY <2>5, <2>6, Zenon DEF Material!Overtaken
  <2> QED  BY <1>1, <2>7
<1> QED  BY <1>1, <1>3, <1>4

\* Each message of a chat keeps the invariant and the adjustments of the others.
LEMMA ImageTaken ==
  ASSUME Filed, MaterialInv, NEW c \in Chats, Material!TakeImage(c)
  PROVE  MaterialInv' /\ \A f \in Material!Fields : OverrideKept(f)
<1>1. c \in Material!Places /\ materialPc[c] = "working"
  BY DEF Material!Places, Material!TakeImage
<1>2. PICK img \in Images, s \in Material!Slots, base \in Material!Loaded(c) :
        LET others == Material!InSlot(materialSaw[c].rows, s) \ {img}
            status == Material!Sent("active", materialSaw[c].rows[img].status, imageRows[img].status)
            view == [j \in Images |-> IF j = img THEN [status |-> status, slot |-> s]
                                      ELSE IF j \in others THEN [materialSaw[c].rows[j] EXCEPT !.status = "replaced"]
                                      ELSE materialSaw[c].rows[j]] IN
          /\ imageRows' = [j \in Images |->
               IF j = img THEN [status |-> status, slot |-> Material!Sent(s, materialSaw[c].rows[img].slot, imageRows[img].slot)]
               ELSE IF j \in others THEN [imageRows[j] EXCEPT !.status = "replaced"] ELSE imageRows[j]]
          /\ excused' = excused \cup Material!Overlapping(c, {img} \cup others)
               \cup (IF materialSaw[c].rows[img].status # "absent" /\ materialSaw[c].rows[img].slot # s
                     THEN {img} ELSE {})
          /\ Material!Commit(c, base, view, Material!Empty, Material!Empty)
  BY Zenon DEF Material!TakeImage
<1>3. /\ imageRows' = RowsTaken(c, img, s)
      /\ excused' = excused \cup Material!Overlapping(c, {img} \cup Others(c, img, s)) \cup Moved(c, img, s)
  BY <1>2, Zenon DEF RowsTaken, Others, Moved, Status
<1>4. Material!Commit(c, base, Taken(c, img, s), Material!Empty, Material!Empty)
  BY <1>2, Zenon DEF Taken, Others, Status
<1>5. PICK best \in Material!Rivals(Taken(c, img, s)) :
        caseData' = Material!Sent(Material!Normalized(base, Taken(c, img, s), Material!Empty, Material!Empty, best),
                                  base, caseData)
  BY <1>4 DEF Material!Commit
<1>6. Material!Done(c)
  BY <1>4 DEF Material!Commit
<1>7. /\ base \in Cases /\ caseData \in Cases /\ Material!Empty \in Adjustments
      /\ base \in {caseData, materialSaw[c].case}
  BY <1>1 DEF MaterialInv, MaterialTyped, Adjustments, Material!Empty, Material!Loaded
<1>8. ValuesOK' /\ Taken(c, img, s) \in Shelves /\ imageRows' \in Shelves
  BY <1>1, <1>3, <1>5, <1>7, ImageKeepsValues
<1> DEFINE n == Material!Normalized(base, Taken(c, img, s), Material!Empty, Material!Empty, best)
<1>9. /\ n \in Cases
      /\ \A f \in Material!Fields :
           n.overrides[f] = IF Material!Empty[f] # Nothing THEN Material!Empty[f] ELSE base.overrides[f]
  BY <1>7, <1>8, NormalizedFrom
<1>10. /\ caseData' = Material!Sent(n, base, caseData)
       /\ \A f \in Material!Fields : n.overrides[f] \in {c, base.overrides[f]}
  BY <1>5, <1>9 DEF Material!Empty, n
<1> HIDE DEF n
<1>11. caseData' \in Cases
  BY <1>7, <1>9, <1>10 DEF Material!Sent
<1>12. excused' \subseteq Images
  BY <1>3 DEF MaterialInv, MaterialTyped, Material!Overlapping, Material!InSlot, Others, Moved
<1>13. MaterialTyped' /\ LocksHeld'
  BY <1>1, <1>6, <1>8, <1>11, <1>12, DoneKeeps
<1>14. \A f \in Material!Fields : OverrideKept(f)
  BY <1>1, <1>6, <1>7, <1>10, CommitKeepsOverrides
<1> QED  BY <1>8, <1>13, <1>14 DEF MaterialInv

\* A message without an image: typed text, an adjustment, or the question itself.
LEMMA TextTaken ==
  ASSUME Filed, MaterialInv, NEW c \in Chats, materialPc[c] = "working", UNCHANGED imageRows,
         NEW base \in Material!Loaded(c), NEW text \in Adjustments, NEW manual \in Adjustments,
         \A f \in Material!Fields : manual[f] \in {c, Nothing},
         Material!Commit(c, base, materialSaw[c].rows, text, manual),
         excused' = excused \cup Material!Overlapping(c, {})
  PROVE  MaterialInv' /\ \A f \in Material!Fields : OverrideKept(f)
<1>1. c \in Material!Places
  BY DEF Material!Places
<1>2. PICK best \in Material!Rivals(materialSaw[c].rows) :
        caseData' = Material!Sent(Material!Normalized(base, materialSaw[c].rows, text, manual, best), base, caseData)
  BY DEF Material!Commit
<1>3. Material!Done(c)
  BY DEF Material!Commit
<1>4. /\ base \in Cases /\ caseData \in Cases /\ imageRows' \in Shelves /\ materialSaw[c].rows \in Shelves
      /\ base \in {caseData, materialSaw[c].case}
  BY <1>1 DEF MaterialInv, MaterialTyped, Material!Loaded
<1> DEFINE n == Material!Normalized(base, materialSaw[c].rows, text, manual, best)
<1>5. /\ n \in Cases
      /\ \A f \in Material!Fields :
           n.overrides[f] = IF manual[f] # Nothing THEN manual[f] ELSE base.overrides[f]
  BY <1>4, NormalizedFrom
<1>6. ValuesOK'
  <2> DEFINE looked == materialSaw[c].rows
  <2>1. /\ caseData' = Material!Sent(n, base, caseData)
        /\ excused \cup Material!Overlapping(c, {}) \subseteq excused'
        /\ RowsKept(c, {}, looked) /\ DataKept(c, base) /\ PartOf(base, base)
    BY <1>2 DEF RowsKept, DataKept, PartOf
  <2>2. looked \in Shelves /\ n = Material!Normalized(base, looked, text, manual, best)
    BY <1>4
  <2> HIDE DEF looked, n
  <2> QED  BY <1>1, <1>4, <2>1, <2>2, CommitKeepsValues
<1>7. /\ caseData' = Material!Sent(n, base, caseData)
      /\ \A f \in Material!Fields : n.overrides[f] \in {c, base.overrides[f]}
  BY <1>2, <1>5
<1> HIDE DEF n
<1>8. caseData' \in Cases
  BY <1>4, <1>5, <1>7 DEF Material!Sent
<1>9. excused' \subseteq Images
  BY DEF MaterialInv, MaterialTyped, Material!Overlapping
<1>10. MaterialTyped' /\ LocksHeld'
  BY <1>1, <1>3, <1>4, <1>8, <1>9, DoneKeeps
<1>11. \A f \in Material!Fields : OverrideKept(f)
  BY <1>1, <1>3, <1>4, <1>7, CommitKeepsOverrides
<1> QED  BY <1>6, <1>10, <1>11 DEF MaterialInv

LEMMA ImagesRecalled ==
  ASSUME Filed, MaterialInv, NEW r \in Recalls, Material!Recall(r)
  PROVE  MaterialInv' /\ \A f \in Material!Fields : OverrideKept(f)
<1>1. r \in Material!Places /\ materialPc[r] = "working" /\ Material!Done(r)
  BY DEF Material!Places, Material!Recall
<1>2. PICK gone \in SUBSET {i \in Images : materialSaw[r].rows[i].status = "active"} :
        LET fields == UNION {Material!Manages[materialSaw[r].rows[i].slot] : i \in gone}
            base == [materialSaw[r].case EXCEPT !.data = Material!Without(@, fields)]
            view == [i \in Images |-> IF i \in gone THEN [materialSaw[r].rows[i] EXCEPT !.status = "deleted_by_user"]
                                      ELSE materialSaw[r].rows[i]] IN
          /\ gone # {}
          /\ imageRows' = [i \in Images |-> IF i \in gone THEN [imageRows[i] EXCEPT !.status = "deleted_by_user"]
                                            ELSE imageRows[i]]
          /\ \E best \in Material!Rivals(view) :
               caseData' = Material!Sent(Material!Normalized(base, view, Material!Empty, Material!Empty, best),
                                         materialSaw[r].case, caseData)
          /\ excused' = excused \cup Material!Overlapping(r, gone)
  BY Zenon DEF Material!Recall
<1> DEFINE base == CaseLeft(r, gone)
           view == ViewLeft(r, gone)
<1>3. imageRows' = RowsLeft(gone) /\ excused' = excused \cup Material!Overlapping(r, gone)
  BY <1>2, Zenon DEF RowsLeft
<1>4. PICK best \in Material!Rivals(view) :
        caseData' = Material!Sent(Material!Normalized(base, view, Material!Empty, Material!Empty, best),
                                  materialSaw[r].case, caseData)
  BY <1>2, Zenon DEF CaseLeft, ViewLeft, Leaving
<1>5. ValuesOK' /\ base \in Cases /\ view \in Shelves /\ imageRows' \in Shelves
  BY <1>1, <1>2, <1>3, <1>4, RecallKeepsValues
<1>6. /\ materialSaw[r].case \in Cases /\ caseData \in Cases /\ Material!Empty \in Adjustments
      /\ base.overrides = materialSaw[r].case.overrides
  BY <1>1 DEF MaterialInv, MaterialTyped, Adjustments, Material!Empty, CaseLeft, Cases
<1> HIDE DEF base, view
<1> DEFINE n == Material!Normalized(base, view, Material!Empty, Material!Empty, best)
<1>7. /\ n \in Cases
      /\ \A f \in Material!Fields :
           n.overrides[f] = IF Material!Empty[f] # Nothing THEN Material!Empty[f] ELSE base.overrides[f]
  BY <1>5, <1>6, NormalizedFrom
<1>8. /\ caseData' = Material!Sent(n, materialSaw[r].case, caseData)
      /\ \A f \in Material!Fields : n.overrides[f] \in {r, base.overrides[f]}
  BY <1>4, <1>7 DEF Material!Empty
<1> HIDE DEF n
<1>9. caseData' \in Cases
  BY <1>6, <1>7, <1>8 DEF Material!Sent
<1>10. excused' \subseteq Images
  BY <1>2, <1>3 DEF MaterialInv, MaterialTyped, Material!Overlapping
<1>11. MaterialTyped' /\ LocksHeld'
  BY <1>1, <1>5, <1>9, <1>10, DoneKeeps
<1>12. \A f \in Material!Fields : OverrideKept(f)
  BY <1>1, <1>6, <1>8, CommitKeepsOverrides
<1> QED  BY <1>5, <1>11, <1>12 DEF MaterialInv

LEMMA MaterialStep ==
  ASSUME Filed, MaterialInv, Material!Next
  PROVE  MaterialInv' /\ \A f \in Material!Fields : OverrideKept(f)
<1>1. Material!Empty \in Adjustments /\ \A f \in Material!Fields : Material!Empty[f] = Nothing
  BY DEF Adjustments, Material!Empty
<1>2. ASSUME NEW c \in Chats, Material!TakeLock(c)
      PROVE  MaterialInv' /\ \A f \in Material!Fields : OverrideKept(f)
  <2>1. PICK kind \in {"chat", "interrupt"} :
          /\ Material!Free(<<ServedBy[c], kind>>)
          /\ materialLock' = [materialLock EXCEPT ![c] = <<ServedBy[c], kind>>]
    BY <1>2 DEF Material!TakeLock
  <2>2. <<ServedBy[c], kind>> \in Material!Locks /\ <<ServedBy[c], kind>> # Material!NoLock
    BY DEF Material!Locks, Material!NoLock
  <2>3. MaterialInv'
    BY <1>2, <2>1, <2>2, BeginKeeps DEF Material!TakeLock, Material!Places, Filed
  <2> QED  BY <1>2, <2>3 DEF Material!TakeLock, OverrideKept
<1>3. ASSUME NEW r \in Recalls, Material!BeginRecall(r)
      PROVE  MaterialInv' /\ \A f \in Material!Fields : OverrideKept(f)
  <2>1. /\ materialLock' = [materialLock EXCEPT ![r] = Material!NoLock]
        /\ Material!NoLock \in Material!Locks /\ r \notin Chats
    BY <1>3 DEF Material!BeginRecall, Material!Locks, Material!Places, MaterialInv, MaterialTyped, LocksHeld, Filed
  <2>2. MaterialInv'
    BY <1>3, <2>1, BeginKeeps DEF Material!BeginRecall, Material!Places
  <2> QED  BY <1>3, <2>2 DEF Material!BeginRecall, OverrideKept
<1>4. ASSUME NEW c \in Chats, Material!TakeText(c)
      PROVE  MaterialInv' /\ \A f \in Material!Fields : OverrideKept(f)
  <2>1. PICK f \in ByHand, base \in Material!Loaded(c) :
          Material!Commit(c, base, materialSaw[c].rows, [Material!Empty EXCEPT ![f] = c], Material!Empty)
    BY <1>4 DEF Material!TakeText
  <2>2. [Material!Empty EXCEPT ![f] = c] \in Adjustments
    BY <1>1 DEF Adjustments, Filed
  <2> QED  BY <1>1, <1>4, <2>1, <2>2, TextTaken DEF Material!TakeText
<1>5. ASSUME NEW c \in Chats, Material!TakeOverride(c)
      PROVE  MaterialInv' /\ \A f \in Material!Fields : OverrideKept(f)
  <2>1. PICK f \in ByHand, base \in Material!Loaded(c) :
          Material!Commit(c, base, materialSaw[c].rows, Material!Empty, [Material!Empty EXCEPT ![f] = c])
    BY <1>5 DEF Material!TakeOverride
  <2>2. /\ [Material!Empty EXCEPT ![f] = c] \in Adjustments
        /\ \A g \in Material!Fields : [Material!Empty EXCEPT ![f] = c][g] \in {c, Nothing}
    BY <1>1 DEF Adjustments, Filed
  <2> QED  BY <1>1, <1>5, <2>1, <2>2, TextTaken DEF Material!TakeOverride
<1>6. ASSUME NEW c \in Chats, Material!TakeQuote(c)
      PROVE  MaterialInv' /\ \A f \in Material!Fields : OverrideKept(f)
  BY <1>1, <1>6, TextTaken DEF Material!TakeQuote
<1>7. ASSUME NEW p \in Material!Places, Material!Abort(p)
      PROVE  MaterialInv' /\ \A f \in Material!Fields : OverrideKept(f)
  <2>1. materialPc[p] = "working" /\ Material!Done(p) /\ UNCHANGED <<imageRows, caseData, excused>>
    BY <1>7 DEF Material!Abort, MaterialInv, MaterialTyped
  <2>2. MaterialTyped' /\ LocksHeld'
    BY <2>1, DoneKeeps DEF MaterialInv, MaterialTyped
  <2>3. ValuesOK'
    BY <2>1 DEF MaterialInv, ValuesOK
  <2> QED  BY <2>1, <2>2, <2>3 DEF MaterialInv, OverrideKept
<1> QED  BY <1>2, <1>3, <1>4, <1>5, <1>6, <1>7, ImageTaken, ImagesRecalled DEF Material!Next, Material!Chat

\* Whatever messages and recalls do to a case, in any number and interleaving: no value read
\* from a recalled image stays where no request overlapped another, but for the owner's name and
\* the sort of number plate that were derived from it and nothing has decided anew; and an
\* adjustment is only lost to a request that was overtaken under another lock.
THEOREM MaterialStaysTrue ==
  Filed => (Material!Spec => [](Material!TypeOK /\ Material!RecallForgets) /\ Material!AdjustmentsKept)
<1> SUFFICES ASSUME Filed PROVE Material!Spec => [](Material!TypeOK /\ Material!RecallForgets) /\ Material!AdjustmentsKept
  OBVIOUS
<1>1. Material!Init => MaterialInv
  <2> SUFFICES ASSUME Material!Init PROVE MaterialInv
    OBVIOUS
  <2>1. Material!NoView \in [rows : Shelves, case : Cases] /\ Material!NoLock \in Material!Locks
    BY DEF Material!NoView, Material!Absent, Material!Empty, Material!Slots, Material!Values, Shelves, Cases,
           Contents, Adjustments, Material!Locks
  <2>2. MaterialTyped
    BY <2>1 DEF Material!Init, MaterialTyped
  <2>3. LocksHeld
    BY DEF Material!Init, LocksHeld, Material!Places
  <2>4. ValuesOK
    BY DEF Material!Init, ValuesOK, Material!NoView, Material!Empty, Filed
  <2> QED  BY <2>2, <2>3, <2>4 DEF MaterialInv
<1>2. MaterialInv /\ [Material!Next]_(Material!vars) => MaterialInv' /\ \A f \in Material!Fields : OverrideKept(f)
  <2>1. CASE Material!Next
    BY <2>1, MaterialStep
  <2>2. CASE UNCHANGED Material!vars
    BY <2>2 DEF Material!vars, MaterialInv, MaterialTyped, LocksHeld, ValuesOK, OverrideKept, Material!Current
  <2> QED  BY <2>1, <2>2
<1>3. (\A f \in Material!Fields : OverrideKept(f)) => Material!NoAdjustmentLost
  BY DEF OverrideKept, Material!NoAdjustmentLost
<1>4. MaterialInv /\ [Material!Next]_(Material!vars) => MaterialInv' /\ Material!NoAdjustmentLost
  BY <1>2, <1>3
<1>5. MaterialInv => Material!TypeOK /\ Material!RecallForgets
  <2> SUFFICES ASSUME MaterialInv PROVE Material!TypeOK /\ Material!RecallForgets
    OBVIOUS
  <2>1. caseData \in [data : [Material!Fields -> Material!Values], overrides : [Material!Fields -> Material!Values]]
    <3>1. Adjustments \subseteq [Material!Fields -> Material!Values]
      BY DEF Adjustments, Material!Values
    <3> QED  BY <3>1 DEF MaterialInv, MaterialTyped, Cases, Contents
  <2>2. Material!TypeOK
    BY <2>1 DEF MaterialInv, MaterialTyped, Shelves, Material!TypeOK
  <2>3. ASSUME NEW i \in Images \ excused, NEW f \in Material!Fields, caseData.data[f] = i
        PROVE  \/ imageRows[i].status = "active" \/ Material!StillDerived(i, f)
               \/ f # "license_type" /\ imageRows[i].status = "replaced" /\ f \notin Material!Dropped(imageRows)
    <3>1. Fits(imageRows, caseData.data, i, f)
      BY <2>3 DEF MaterialInv, ValuesOK
    <3>2. CASE ReadFrom(imageRows, i, f)
      BY <3>2 DEF ReadFrom
    <3>3. CASE NamedFrom(imageRows, caseData.data, i, f)
      BY <3>3 DEF NamedFrom, Material!StillDerived
    <3>4. CASE DecidedFrom(imageRows, caseData.data, i, f)
      BY <3>4 DEF DecidedFrom, Material!StillDerived
    <3> QED  BY <3>1, <3>2, <3>3, <3>4 DEF Fits
  <2> QED  BY <2>2, <2>3 DEF Material!RecallForgets
<1> QED  BY <1>1, <1>4, <1>5, PTL DEF Material!Spec, Material!AdjustmentsKept
=============================================================================
