-------------------------- MODULE QuoteTaskProofs --------------------------
(***************************************************************************)
(* QuoteTask for every number of requests, workers, accounts, tasks and    *)
(* crashes.  At either isolation level: types, a case that never names a   *)
(* cancelled task, and uses that are the successful quotes.  At READ       *)
(* COMMITTED, where the looks after the platform call see what is          *)
(* committed: a cancelled quote never succeeds, and a success is for the   *)
(* material of that moment.  At the end, the theorems on the renewal of a  *)
(* policy (Renewal), the choice of its vehicle (VehicleChoice) and the     *)
(* rounds with the platform (PiccQuote), which share no state with it.     *)
(***************************************************************************)
EXTENDS QuoteTask, Sequences, FiniteSetTheorems, TLAPS

Places == {"new", "lock", "case", "sweep", "select", "insert", "reserve", "io",
           "relock", "check", "locktask", "recheck", "write", "done", "ended"}

\* A request goes to one of its places.
LEMMA GotoTyped ==
  ASSUME TypeOK, NEW r \in Requests, NEW p \in Places, Goto(r, p)
  PROVE  pc' \in [Requests -> Places]
  BY DEF TypeOK, Places, Goto

\* What a plain read returns is a database.
LEMMA VisibleTyped ==
  ASSUME TypeOK, NEW r \in Requests
  PROVE  Visible(r) \in Database
  BY DEF TypeOK, Visible, NoView

\* A snapshot shows a database.
LEMMA OpenViewTyped ==
  ASSUME TypeOK, NEW r \in Requests, OpenView(r)
  PROVE  \A q \in Requests : view'[q] = NoView \/ (view'[q].open /\ view'[q].rows \in Database)
<1>1. CASE view' = view
  BY <1>1 DEF TypeOK
<1>2. CASE view' = [view EXCEPT ![r] = [open |-> TRUE, rows |-> db]]
  <2>1. ASSUME NEW q \in Requests, q # r PROVE view'[q] = view[q]
    BY <1>2, <2>1
  <2>2. view'[r] = [open |-> TRUE, rows |-> db] \/ view'[r] = view[r]
    BY <1>2
  <2> QED
    BY <2>1, <2>2 DEF TypeOK
<1> QED
  BY <1>1, <1>2 DEF OpenView

\* A commit leaves the database in its type.
LEMMA CommittedTyped ==
  ASSUME TypeOK, NEW r \in Requests
  PROVE  Committed(r) \in Database
<1> DEFINE status == [t \in TaskIds |-> IF wrote[r] # "none" /\ t = task[r]
                                        THEN wrote[r] ELSE db.status[t]]
           current == IF wrote[r] # "none" /\ loaded[r] # task[r] THEN task[r] ELSE db.current
           used == [a \in Accounts |-> IF reserved[r] /\ a = account[r]
                                       THEN db.used[a] + 1 ELSE db.used[a]]
<1>1. db.status \in [TaskIds -> Statuses] /\ db.current \in TaskIds \cup {0}
      /\ db.used \in [Accounts -> Nat] /\ db \in Database
  BY DEF TypeOK, Database
<1>2. wrote[r] \in {"none", "success", "failed"} /\ task[r] \in TaskIds \cup {0}
  BY DEF TypeOK
<1>3. status \in [TaskIds -> Statuses]
  BY <1>1, <1>2 DEF Statuses
<1>4. current \in TaskIds \cup {0}
  BY <1>1, <1>2
<1>5. used \in [Accounts -> Nat]
  BY <1>1
<1>6. Committed(r) = [db EXCEPT !.status = status, !.current = current, !.used = used]
  BY <1>1 DEF Committed, Database
<1> QED
  BY <1>1, <1>3, <1>4, <1>5, <1>6 DEF Database

\* So does the insertion of a task.
LEMMA InsertedTyped ==
  ASSUME TypeOK, NEW r \in Requests, NEW t \in TaskIds
  PROVE  [Committed(r) EXCEPT !.status[t] = "running", !.account[t] = account[r],
                              !.current = t] \in Database
<1> DEFINE c == Committed(r)
<1>1. c \in Database
  BY CommittedTyped
<1>2. account[r] \in Accounts \cup {NoOne}
  BY DEF TypeOK
<1> HIDE DEF c
<1>3. [c EXCEPT !.status[t] = "running", !.account[t] = account[r], !.current = t] \in Database
  BY <1>1, <1>2 DEF Database, Statuses
<1> QED
  BY <1>3 DEF c

\* And the sweep over the running tasks.
LEMMA SweptTyped ==
  ASSUME TypeOK, NEW stale, NEW cancelled, NEW k
  PROVE  [db EXCEPT
           !.status = [t \in TaskIds |-> IF t \in stale THEN "failed"
                                         ELSE IF t \in cancelled THEN "cancelled"
                                         ELSE db.status[t]],
           !.current = CurrentAfter(stale, cancelled),
           !.material = IF Changes(k) THEN @ + 1 ELSE @] \in Database
<1>1. db \in Database /\ db.current \in TaskIds \cup {0} /\ db.material \in Nat
      /\ db.status \in [TaskIds -> Statuses]
  BY DEF TypeOK, Database
<1>2. CurrentAfter(stale, cancelled) \in TaskIds \cup {0}
  BY <1>1 DEF CurrentAfter
<1>3. [t \in TaskIds |-> IF t \in stale THEN "failed"
                         ELSE IF t \in cancelled THEN "cancelled" ELSE db.status[t]]
      \in [TaskIds -> Statuses]
  BY <1>1 DEF Statuses
<1>4. (IF Changes(k) THEN db.material + 1 ELSE db.material) \in Nat
  BY <1>1
<1> QED
  BY <1>1, <1>2, <1>3, <1>4 DEF Database

\* The end of a transaction gives its row locks back.
LEMMA ReleaseRowsTyped ==
  ASSUME TypeOK, NEW r \in Requests, ReleaseRows(r)
  PROVE  /\ caseLock' \in Requests \cup {NoOne}
         /\ taskLock' \in [TaskIds -> Requests \cup {NoOne}]
         /\ quotaLock' \in [Accounts -> Requests \cup {NoOne}]
  BY DEF TypeOK, ReleaseRows

-----------------------------------------------------------------------------
\* Every reachable state is well typed.
THEOREM Typed == Spec => []TypeOK
<1>1. Init => TypeOK
  <2> SUFFICES ASSUME Init PROVE TypeOK
    OBVIOUS
  <2>1. db \in Database
    BY DEF Init, Database, Statuses, TaskIds
  <2>2. /\ pc \in [Requests -> Places] /\ kind \in [Requests -> AllKinds]
        /\ which \in [Requests -> {"chat", "interrupt"}]
        /\ tried \in [Requests -> SUBSET Accounts]
        /\ account \in [Requests -> Accounts \cup {NoOne}]
        /\ task \in [Requests -> TaskIds \cup {0}]
        /\ submitted \in [Requests -> Nat]
        /\ loaded \in [Requests -> TaskIds \cup {0}]
    BY DEF Init, Places, AllKinds
  <2>3. /\ answer \in [Requests -> {"none", "ok", "fail", "switch", "stop"}]
        /\ wrote \in [Requests -> {"none", "success", "failed"}]
        /\ reserved \in [Requests -> BOOLEAN]
        /\ \A r \in Requests : view[r] = NoView
    BY DEF Init
  <2>4. /\ caseLock \in Requests \cup {NoOne}
        /\ taskLock \in [TaskIds -> Requests \cup {NoOne}]
        /\ quotaLock \in [Accounts -> Requests \cup {NoOne}]
        /\ sessionLock \in [Nodes \X {"chat", "interrupt"} -> Requests \cup {NoOne}]
        /\ crashes \in Nat
    BY DEF Init
  <2> QED
    BY <2>1, <2>2, <2>3, <2>4 DEF TypeOK, Places
<1>2. TypeOK /\ [Next]_vars => TypeOK'
  <2> SUFFICES ASSUME TypeOK, [Next]_vars PROVE TypeOK'
    OBVIOUS
  <2> USE DEF attemptVars, txVars, rowLocks
  <2>arrive. ASSUME NEW r \in Requests, NEW k \in Kinds, Arrive(r, k) PROVE TypeOK'
    <3>1. k \in AllKinds
      BY QuoteAssumption
    <3> QED
      BY <2>arrive, <3>1, GotoTyped DEF Arrive, TypeOK, Places
  <2>session. ASSUME NEW r \in Requests, EnterSession(r) \/ ReenterSession(r) PROVE TypeOK'
    <3>1. PICK from \in Places, to \in {"case", "check"} : TakeSessionLock(r, from, to)
      BY <2>session DEF EnterSession, ReenterSession, Places
    <3> QED
      BY <3>1, GotoTyped DEF TakeSessionLock, TypeOK, Places
  <2>case. ASSUME NEW r \in Requests, LockCase(r) PROVE TypeOK'
    BY <2>case, GotoTyped DEF LockCase, TypeOK, Places
  <2>sweep. ASSUME NEW r \in Requests, Sweep(r) PROVE TypeOK'
    <3>1. PICK stale \in SUBSET {t \in Running : Stale(t)} :
            db' = LET cancelled == IF Cancels(kind[r]) THEN Running \ stale ELSE {} IN
                  [db EXCEPT
                    !.status = [t \in TaskIds |-> IF t \in stale THEN "failed"
                                                  ELSE IF t \in cancelled THEN "cancelled"
                                                  ELSE db.status[t]],
                    !.current = CurrentAfter(stale, cancelled),
                    !.material = IF Changes(kind[r]) THEN @ + 1 ELSE @]
      BY <2>sweep DEF Sweep
    <3>2. db' \in Database
      BY <3>1, SweptTyped
    <3>3. db'.material \in Nat
      BY <3>2 DEF Database
    <3>4. pc' \in [Requests -> Places]
      BY <2>sweep, GotoTyped DEF Sweep, Places
    <3> QED
      BY <2>sweep, <3>2, <3>3, <3>4 DEF Sweep, TypeOK, Places
  <2>select. ASSUME NEW r \in Requests, Select(r) PROVE TypeOK'
    BY <2>select, GotoTyped, OpenViewTyped DEF Select, TypeOK, Places
  <2>insert. ASSUME NEW r \in Requests, InsertTask(r) PROVE TypeOK'
    <3>1. PICK t \in TaskIds :
            /\ db' = [Committed(r) EXCEPT !.status[t] = "running", !.account[t] = account[r],
                                          !.current = t]
            /\ task' = [task EXCEPT ![r] = t]
            /\ loaded' = [loaded EXCEPT ![r] = t]
      BY <2>insert DEF InsertTask
    <3>2. db' \in Database
      BY <3>1, InsertedTyped
    <3>3. pc' \in [Requests -> Places]
      BY <2>insert, GotoTyped DEF InsertTask, Places
    <3>4. task' \in [Requests -> TaskIds \cup {0}] /\ loaded' \in [Requests -> TaskIds \cup {0}]
      BY <3>1 DEF TypeOK
    <3>5. \A q \in Requests : view'[q] = view[q] \/ view'[q] = NoView
      BY <2>insert DEF InsertTask, TypeOK
    <3>6. wrote' \in [Requests -> {"none", "success", "failed"}]
      BY <2>insert DEF InsertTask, TypeOK
    <3>7. \A q \in Requests : view'[q] = NoView \/ (view'[q].open /\ view'[q].rows \in Database)
      BY <3>5 DEF TypeOK
    <3> QED
      BY <2>insert, <3>2, <3>3, <3>4, <3>6, <3>7, ReleaseRowsTyped DEF InsertTask, TypeOK, Places
  <2>reserve. ASSUME NEW r \in Requests, Reserve(r) PROVE TypeOK'
    BY <2>reserve, GotoTyped, OpenViewTyped, ZenonT(40) DEF Reserve, Superseded, TypeOK, Places
  <2>answers. ASSUME NEW r \in Requests, NEW a \in {"ok", "fail", "switch"},
                     PlatformAnswers(r, a)
              PROVE  TypeOK'
    BY <2>answers, GotoTyped DEF PlatformAnswers, TypeOK, Places
  <2>check. ASSUME NEW r \in Requests, Check(r) PROVE TypeOK'
    BY <2>check, GotoTyped, VisibleTyped, ZenonT(40) DEF Check, Superseded, Fails, TypeOK, Places, Database
  <2>locktask. ASSUME NEW r \in Requests, LockTask(r) PROVE TypeOK'
    BY <2>locktask, GotoTyped DEF LockTask, TypeOK, Places
  <2>recheck. ASSUME NEW r \in Requests, Recheck(r) PROVE TypeOK'
    BY <2>recheck, GotoTyped, VisibleTyped, ZenonT(40) DEF Recheck, Superseded, Fails, TypeOK, Places, Database
  <2>take. ASSUME NEW r \in Requests, TakeTaskRow(r) \/ TakeCaseRow(r) PROVE TypeOK'
    BY <2>take DEF TakeTaskRow, TakeCaseRow, TypeOK
  <2>write. ASSUME NEW r \in Requests, Write(r) PROVE TypeOK'
    BY <2>write, GotoTyped DEF Write, TypeOK, Places
  <2>finish. ASSUME NEW r \in Requests, Finish(r) PROVE TypeOK'
    BY <2>finish, GotoTyped, CommittedTyped, ReleaseRowsTyped
       DEF Finish, LeaveSession, TypeOK, Places
  <2>error. ASSUME NEW r \in Requests, RowLockError(r) PROVE TypeOK'
    BY <2>error, GotoTyped, ReleaseRowsTyped DEF RowLockError, TypeOK, Places
  <2>crash. ASSUME NEW n \in Nodes, Crash(n) PROVE TypeOK'
    BY <2>crash DEF Crash, TypeOK
  <2>stutter. CASE UNCHANGED vars
    BY <2>stutter DEF vars, TypeOK
  <2> QED
    BY <2>arrive, <2>session, <2>case, <2>sweep, <2>select, <2>insert, <2>reserve, <2>answers,
       <2>check, <2>locktask, <2>recheck, <2>take, <2>write, <2>finish, <2>error, <2>crash,
       <2>stutter DEF Next, Step
<1> QED
  BY <1>1, <1>2, PTL DEF Spec

-----------------------------------------------------------------------------
\* A commit writes no cancelled status, and names a task only with its outcome.
LEMMA CommittedNotCancelled ==
  ASSUME TypeOK, CurrentNotCancelled, NEW r \in Requests
  PROVE  Committed(r).current # 0 => Committed(r).status[Committed(r).current] # "cancelled"
<1> DEFINE c == Committed(r)
<1>1. /\ db.status \in [TaskIds -> Statuses] /\ db.current \in TaskIds \cup {0}
      /\ db \in Database
  BY DEF TypeOK, Database
<1>2. wrote[r] \in {"none", "success", "failed"} /\ task[r] \in TaskIds \cup {0}
  BY DEF TypeOK
<1>3. /\ c.current = IF wrote[r] # "none" /\ loaded[r] # task[r] THEN task[r] ELSE db.current
      /\ \A t \in TaskIds : c.status[t] = IF wrote[r] # "none" /\ t = task[r]
                                          THEN wrote[r] ELSE db.status[t]
  BY <1>1 DEF Committed, Database
<1> HIDE DEF c
<1>4. ASSUME wrote[r] # "none", loaded[r] # task[r]
      PROVE  c.current # 0 => c.status[c.current] # "cancelled"
  BY <1>2, <1>3, <1>4
<1>5. ASSUME wrote[r] = "none" \/ loaded[r] = task[r]
      PROVE  c.current # 0 => c.status[c.current] # "cancelled"
  BY <1>1, <1>2, <1>3, <1>5 DEF CurrentNotCancelled
<1> QED
  BY <1>4, <1>5 DEF c

\* The case never names a cancelled task: together with its type the property is
\* inductive, each writer of current_task_id answering for its own transaction.
THEOREM CurrentStaysLive == Spec => []CurrentNotCancelled
<1>1. Init => CurrentNotCancelled
  BY DEF Init, CurrentNotCancelled
<1>2. TypeOK /\ TypeOK' /\ CurrentNotCancelled /\ [Next]_vars => CurrentNotCancelled'
  <2> SUFFICES ASSUME TypeOK, TypeOK', CurrentNotCancelled, [Next]_vars
               PROVE  CurrentNotCancelled'
    OBVIOUS
  <2>sweep. ASSUME NEW r \in Requests, Sweep(r) PROVE CurrentNotCancelled'
    <3>1. PICK stale \in SUBSET {t \in Running : Stale(t)} :
            db' = LET cancelled == IF Cancels(kind[r]) THEN Running \ stale ELSE {} IN
                  [db EXCEPT
                    !.status = [t \in TaskIds |-> IF t \in stale THEN "failed"
                                                  ELSE IF t \in cancelled THEN "cancelled"
                                                  ELSE db.status[t]],
                    !.current = CurrentAfter(stale, cancelled),
                    !.material = IF Changes(kind[r]) THEN @ + 1 ELSE @]
      BY <2>sweep DEF Sweep
    <3> DEFINE cancelled == IF Cancels(kind[r]) THEN Running \ stale ELSE {}
    <3>2. db \in Database /\ db.current \in TaskIds \cup {0}
      BY DEF TypeOK, Database
    <3>3. /\ db'.current = CurrentAfter(stale, cancelled)
          /\ \A t \in TaskIds : db'.status[t] = IF t \in stale THEN "failed"
                                                ELSE IF t \in cancelled THEN "cancelled"
                                                ELSE db.status[t]
      BY <3>1, <3>2 DEF Database
    <3> HIDE DEF cancelled
    <3>4. CASE cancelled # {}
      BY <3>3, <3>4 DEF CurrentAfter, CurrentNotCancelled
    <3>5. CASE cancelled = {}
      BY <3>2, <3>3, <3>5 DEF CurrentAfter, CurrentNotCancelled
    <3> QED
      BY <3>4, <3>5, SMTT(30)
  <2>insert. ASSUME NEW r \in Requests, InsertTask(r) PROVE CurrentNotCancelled'
    <3>1. PICK t \in TaskIds :
            db' = [Committed(r) EXCEPT !.status[t] = "running", !.account[t] = account[r],
                                       !.current = t]
      BY <2>insert DEF InsertTask
    <3>2. Committed(r) \in Database
      BY CommittedTyped
    <3>3. db'.current = t /\ db'.status[t] = "running"
      BY <3>1, <3>2 DEF Database
    <3> QED
      BY <3>3 DEF CurrentNotCancelled
  <2>finish. ASSUME NEW r \in Requests, Finish(r) PROVE CurrentNotCancelled'
    BY <2>finish, CommittedNotCancelled DEF Finish, CurrentNotCancelled
  <2>other. ASSUME UNCHANGED db PROVE CurrentNotCancelled'
    BY <2>other DEF CurrentNotCancelled
  <2>1. \/ UNCHANGED db
        \/ \E r \in Requests : Sweep(r) \/ InsertTask(r) \/ Finish(r)
    BY DEF Next, Step, Arrive, EnterSession, ReenterSession, TakeSessionLock, LockCase, Select,
           Reserve, PlatformAnswers, Check, LockTask, Recheck, TakeTaskRow, TakeCaseRow, Write,
           RowLockError, Crash, vars, txVars, attemptVars
  <2> QED
    BY <2>1, <2>sweep, <2>insert, <2>finish, <2>other
<1> QED
  BY <1>1, <1>2, Typed, PTL DEF Spec
-----------------------------------------------------------------------------
(***************************************************************************)
(* The quota.  A use is reserved exactly while an attempt may still        *)
(* succeed, and committed together with the success, of a task that only   *)
(* its own request can end so.                                             *)
(***************************************************************************)
Attempting == {"reserve", "io", "relock", "check", "locktask", "recheck", "write"}

\* A request has a task of its own.
OwnTasks ==
  /\ \A r \in Requests : pc[r] \in Attempting \/ wrote[r] # "none" => task[r] # 0
  /\ \A r \in Requests : task[r] # 0 => db.status[task[r]] # "absent"
  /\ \A r, q \in Requests : task[r] = task[q] /\ task[r] # 0 => r = q

\* The outcome is still ahead, on the way to a success, or written and not committed.
Hopeful(r) ==
  \/ pc[r] \in {"io", "relock", "check", "locktask", "recheck"}
  \/ pc[r] = "write" /\ answer[r] = "ok"
  \/ pc[r] = "done" /\ wrote[r] = "success"

Pending(r) ==
  /\ reserved[r] <=> Hopeful(r)
  /\ task[r] # 0 => db.status[task[r]] # "success"
  /\ pc[r] \in Attempting => wrote[r] = "none"
  /\ wrote[r] = "success" => pc[r] = "done"
  /\ pc[r] \in Attempting \/ wrote[r] = "success" => db.account[task[r]] = account[r]
  /\ pc[r] \in {"locktask", "recheck"} => answer[r] = "ok"

Successes(a) == {t \in TaskIds : db.status[t] = "success" /\ db.account[t] = a}

UsedInv ==
  /\ OwnTasks
  /\ \A r \in Requests : pc[r] # "ended" => Pending(r)
  /\ UsedMatchesSuccesses

\* What a commit leaves of tasks and quotas.
LEMMA CommittedRows ==
  ASSUME TypeOK, NEW r \in Requests
  PROVE  /\ \A t \in TaskIds : Committed(r).status[t] = IF wrote[r] # "none" /\ t = task[r] THEN wrote[r]
                                                        ELSE db.status[t]
         /\ \A a \in Accounts : Committed(r).used[a] = IF reserved[r] /\ a = account[r] THEN db.used[a] + 1
                                                       ELSE db.used[a]
         /\ Committed(r).account = db.account /\ Committed(r).material = db.material
<1>1. db \in Database
  BY DEF TypeOK
<1> QED
  BY <1>1 DEF Committed, Database

\* What a sweep leaves of them: running tasks end, the material may change.
LEMMA SweepRows ==
  ASSUME TypeOK, NEW r \in Requests, Sweep(r)
  PROVE  /\ \E stale \in SUBSET {t \in Running : Stale(t)} : \A t \in TaskIds :
              db'.status[t] = IF t \in stale THEN "failed"
                              ELSE IF t \in Running /\ Cancels(kind[r]) THEN "cancelled" ELSE db.status[t]
         /\ db'.account = db.account /\ db'.used = db.used
<1>1. db \in Database
  BY SMTT(30) DEF TypeOK
<1>2. PICK stale \in SUBSET {t \in Running : Stale(t)} :
        db' = LET cancelled == IF Cancels(kind[r]) THEN Running \ stale ELSE {} IN
              [db EXCEPT
                !.status = [t \in TaskIds |-> IF t \in stale THEN "failed"
                                              ELSE IF t \in cancelled THEN "cancelled"
                                              ELSE db.status[t]],
                !.current = CurrentAfter(stale, cancelled),
                !.material = IF Changes(kind[r]) THEN @ + 1 ELSE @]
  BY DEF Sweep
<1> DEFINE cancelled == IF Cancels(kind[r]) THEN Running \ stale ELSE {}
<1>3. /\ \A t \in TaskIds : db'.status[t] = IF t \in stale THEN "failed"
                                            ELSE IF t \in cancelled THEN "cancelled" ELSE db.status[t]
      /\ db'.account = db.account /\ db'.used = db.used
  BY <1>1, <1>2 DEF Database
<1> QED
  BY <1>3

\* And what an insertion leaves: a new running task on top of what its request commits.
LEMMA InsertRows ==
  ASSUME TypeOK, NEW r \in Requests, InsertTask(r)
  PROVE  \E t \in TaskIds :
           /\ db.status[t] = "absent" /\ task' = [task EXCEPT ![r] = t]
           /\ \A u \in TaskIds : /\ db'.status[u] = IF u = t THEN "running" ELSE Committed(r).status[u]
                                 /\ db'.account[u] = IF u = t THEN account[r] ELSE db.account[u]
           /\ \A a \in Accounts : db'.used[a] = Committed(r).used[a]
           /\ db'.material = db.material
<1>1. PICK t \in TaskIds :
        /\ db.status[t] = "absent" /\ task' = [task EXCEPT ![r] = t]
        /\ db' = [Committed(r) EXCEPT !.status[t] = "running", !.account[t] = account[r], !.current = t]
  BY DEF InsertTask
<1> DEFINE c == Committed(r)
<1>2. c \in Database /\ c.account = db.account /\ c.material = db.material
  BY CommittedTyped, CommittedRows
<1>3. db' = [c EXCEPT !.status[t] = "running", !.account[t] = account[r], !.current = t]
  BY <1>1
<1> HIDE DEF c
<1>4. /\ \A u \in TaskIds : /\ db'.status[u] = IF u = t THEN "running" ELSE c.status[u]
                            /\ db'.account[u] = IF u = t THEN account[r] ELSE c.account[u]
      /\ \A a \in Accounts : db'.used[a] = c.used[a]
      /\ db'.material = c.material
  BY <1>2, <1>3 DEF Database
<1>5. /\ \A u \in TaskIds : /\ db'.status[u] = IF u = t THEN "running" ELSE Committed(r).status[u]
                            /\ db'.account[u] = IF u = t THEN account[r] ELSE db.account[u]
      /\ \A a \in Accounts : db'.used[a] = Committed(r).used[a]
      /\ db'.material = db.material
  BY <1>2, <1>4 DEF c
<1> QED
  BY <1>1, <1>5

\* A request that does not take part in a step stays as it is.
Rests(q) ==
  /\ pc'[q] = pc[q] /\ task'[q] = task[q] /\ account'[q] = account[q] /\ answer'[q] = answer[q]
  /\ submitted'[q] = submitted[q] /\ wrote'[q] = wrote[q] /\ reserved'[q] = reserved[q] /\ kind'[q] = kind[q]

LEMMA OthersRest ==
  ASSUME TypeOK, NEW r \in Requests, Step(r) \/ \E k \in Kinds : Arrive(r, k), NEW q \in Requests \ {r}
  PROVE  Rests(q)
<1> USE DEF attemptVars, txVars, rowLocks, Goto, Rests
<1>0. /\ DOMAIN pc = Requests /\ DOMAIN task = Requests /\ DOMAIN account = Requests
      /\ DOMAIN answer = Requests /\ DOMAIN submitted = Requests /\ DOMAIN wrote = Requests
      /\ DOMAIN reserved = Requests /\ DOMAIN kind = Requests
  BY DEF TypeOK
<1>1. ASSUME NEW k, Arrive(r, k) PROVE Rests(q)
  BY <1>0, <1>1 DEF Arrive
<1>2. CASE EnterSession(r) \/ ReenterSession(r) \/ LockCase(r) \/ LockTask(r) \/ TakeTaskRow(r) \/ TakeCaseRow(r)
  BY <1>0, <1>2 DEF EnterSession, ReenterSession, TakeSessionLock, LockCase, LockTask, TakeTaskRow, TakeCaseRow
<1>3. CASE Sweep(r) \/ Select(r)
  BY <1>0, <1>3 DEF Sweep, Select
<1>4. CASE InsertTask(r) \/ Finish(r)
  BY <1>0, <1>4 DEF InsertTask, Finish
<1>5. CASE Reserve(r)
  BY <1>0, <1>5 DEF Reserve, Superseded
<1>6. ASSUME NEW a, PlatformAnswers(r, a) PROVE Rests(q)
  BY <1>0, <1>6 DEF PlatformAnswers
<1>7. CASE Check(r) \/ Recheck(r)
  BY <1>0, <1>7 DEF Check, Recheck, Superseded, Fails
<1>8. CASE Write(r) \/ RowLockError(r)
  BY <1>0, <1>8 DEF Write, RowLockError
<1> QED
  BY <1>1, <1>2, <1>3, <1>4, <1>5, <1>6, <1>7, <1>8 DEF Step

\* Only sweeps, insertions and ends touch the rows, only insertions give out tasks.
LEMMA RowsKept ==
  ASSUME NEW r \in Requests, Step(r) \/ \E k \in Kinds : Arrive(r, k), ~Sweep(r), ~InsertTask(r), ~Finish(r)
  PROVE  UNCHANGED <<db, task>>
BY DEF Step, Arrive, EnterSession, ReenterSession, TakeSessionLock, LockCase, Select, Reserve, PlatformAnswers,
       Check, LockTask, Recheck, TakeTaskRow, TakeCaseRow, Write, RowLockError, txVars, attemptVars

\* A request never works on another's task.
LEMMA OwnStep ==
  ASSUME TypeOK, OwnTasks, [Next]_vars
  PROVE  OwnTasks'
<1> USE DEF attemptVars, txVars, rowLocks
<1>0. /\ task \in [Requests -> TaskIds \cup {0}] /\ pc \in [Requests -> Places] /\ 0 \notin TaskIds
      /\ wrote \in [Requests -> {"none", "success", "failed"}]
  BY DEF TypeOK, Places, TaskIds
<1>rows. ASSUME NEW r \in Requests, Step(r) \/ \E k \in Kinds : Arrive(r, k), UNCHANGED task,
                pc'[r] \in Attempting \/ wrote'[r] # "none" => task[r] # 0,
                \A t \in TaskIds : db.status[t] # "absent" => db'.status[t] # "absent"
         PROVE  OwnTasks'
  <2>1. \A q \in Requests \ {r} : Rests(q)
    BY <1>rows, OthersRest
  <2> QED
    BY <1>0, <1>rows, <2>1 DEF OwnTasks, Rests
<1>commits. ASSUME NEW r \in Requests
            PROVE  \A t \in TaskIds : db.status[t] # "absent" => Committed(r).status[t] # "absent"
  BY <1>0, CommittedRows
<1>insert. ASSUME NEW r \in Requests, InsertTask(r) PROVE OwnTasks'
  <2>1. PICK t \in TaskIds :
          /\ db.status[t] = "absent" /\ task' = [task EXCEPT ![r] = t]
          /\ \A u \in TaskIds : db'.status[u] = IF u = t THEN "running" ELSE Committed(r).status[u]
    BY <1>insert, InsertRows
  <2>2. \A q \in Requests \ {r} : Rests(q) /\ task'[q] # t
    BY <1>0, <1>insert, <2>1, OthersRest DEF Step, OwnTasks, Rests
  <2>3. task'[r] = t /\ t # 0
    BY <1>0, <2>1
  <2>4. \A u \in TaskIds : u = t \/ db.status[u] # "absent" => db'.status[u] # "absent"
    BY <1>commits, <2>1
  <2> QED
    BY <1>0, <2>2, <2>3, <2>4 DEF OwnTasks, Rests
<1>sweep. ASSUME NEW r \in Requests, Sweep(r) PROVE OwnTasks'
  <2>1. \A t \in TaskIds : db.status[t] # "absent" => db'.status[t] # "absent"
    BY <1>sweep, SweepRows
  <2>2. pc'[r] \notin Attempting /\ UNCHANGED <<task, wrote>>
    BY <1>0, <1>sweep DEF Sweep, Goto, Attempting
  <2> QED
    BY <1>sweep, <1>rows, <2>1, <2>2 DEF Step, OwnTasks
<1>finish. ASSUME NEW r \in Requests, Finish(r) PROVE OwnTasks'
  <2>1. db' = Committed(r) /\ pc'[r] \notin Attempting /\ UNCHANGED <<task, wrote>>
    BY <1>0, <1>finish DEF Finish, Goto, Attempting
  <2> QED
    BY <1>finish, <1>rows, <1>commits, <2>1 DEF Step, OwnTasks
<1>other. ASSUME NEW r \in Requests, Step(r) \/ \E k \in Kinds : Arrive(r, k), UNCHANGED <<db, task>>,
                 ~Sweep(r), ~InsertTask(r), ~Finish(r)
          PROVE  OwnTasks'
  <2>1. pc'[r] \in Attempting \/ wrote'[r] # "none" => pc[r] \in Attempting \/ wrote[r] # "none"
    <3> USE DEF Goto, Attempting
    <3>1. ASSUME NEW k, Arrive(r, k) PROVE pc'[r] \notin Attempting /\ UNCHANGED wrote
      BY <1>0, <3>1 DEF Arrive
    <3>2. CASE EnterSession(r) \/ LockCase(r) \/ Select(r)
      BY <1>0, <3>2 DEF EnterSession, TakeSessionLock, LockCase, Select
    <3>3. CASE ReenterSession(r) \/ Reserve(r) \/ Check(r) \/ LockTask(r) \/ Recheck(r) \/ TakeTaskRow(r)
               \/ TakeCaseRow(r) \/ Write(r) \/ \E a \in {"ok", "fail", "switch"} : PlatformAnswers(r, a)
      <4>1. pc[r] \in Attempting
        BY <3>3 DEF ReenterSession, TakeSessionLock, Reserve, Check, LockTask, Recheck, TakeTaskRow, TakeCaseRow,
                    Write, PlatformAnswers
      <4> QED
        BY <4>1
    <3>4. CASE RowLockError(r)
      BY <1>0, <3>4 DEF RowLockError
    <3> QED
      BY <1>other, <3>1, <3>2, <3>3, <3>4 DEF Step
  <2> QED
    BY <1>other, <1>rows, <2>1 DEF OwnTasks
<1>crash. ASSUME NEW n \in Nodes, Crash(n) PROVE OwnTasks'
  <2>1. /\ UNCHANGED <<task, wrote, db>>
        /\ \A r \in Requests : pc'[r] = pc[r] \/ pc'[r] = "ended"
    BY <1>0, <1>crash DEF Crash
  <2> QED
    BY <2>1 DEF OwnTasks, Attempting
<1>stutter. CASE UNCHANGED vars
  BY <1>stutter DEF vars, OwnTasks
<1> QED
  BY <1>insert, <1>sweep, <1>finish, <1>other, <1>crash, <1>stutter, RowsKept DEF Next, Step

\* An attempt keeps its reservation in step with what it may still become.
LEMMA PendingStep ==
  ASSUME TypeOK, OwnTasks, \A r \in Requests : pc[r] # "ended" => Pending(r), [Next]_vars
  PROVE  \A r \in Requests : pc'[r] # "ended" => Pending(r)'
<1> USE DEF attemptVars, txVars, rowLocks
<1>0. /\ task \in [Requests -> TaskIds \cup {0}] /\ pc \in [Requests -> Places] /\ 0 \notin TaskIds
      /\ wrote \in [Requests -> {"none", "success", "failed"}] /\ reserved \in [Requests -> BOOLEAN]
      /\ account \in [Requests -> Accounts \cup {NoOne}]
      /\ answer \in [Requests -> {"none", "ok", "fail", "switch", "stop"}]
  BY DEF TypeOK, Places, TaskIds
\* The rows of the others' tasks stay, but for an end that is not theirs.
<1>keeps. ASSUME NEW q \in Requests, Rests(q), pc[q] # "ended",
                 task[q] # 0 => /\ db.status[task[q]] # "success" => db'.status[task[q]] # "success"
                                /\ db'.account[task[q]] = db.account[task[q]]
          PROVE  Pending(q)'
  <2>1. Pending(q) /\ (pc[q] \in Attempting \/ wrote[q] # "none" => task[q] # 0)
    BY <1>keeps DEF OwnTasks
  <2> QED
    BY <1>keeps, <2>1 DEF Pending, Hopeful, Rests
<1>commits. ASSUME NEW r \in Requests, NEW q \in Requests \ {r}, task[q] # 0
            PROVE  Committed(r).status[task[q]] = db.status[task[q]]
  <2>1. wrote[r] # "none" => task[r] # task[q]
    BY <1>commits DEF OwnTasks
  <2>2. task[q] \in TaskIds
    BY <1>0, <1>commits
  <2> QED
    BY <2>1, <2>2, CommittedRows
<1>sweep. ASSUME NEW r \in Requests, Sweep(r) PROVE \A q \in Requests : pc'[q] # "ended" => Pending(q)'
  <2>1. /\ \A t \in TaskIds : db'.status[t] = "success" => db.status[t] = "success"
        /\ db'.account = db.account
    BY <1>sweep, SweepRows
  <2>2. ASSUME NEW q \in Requests \ {r}, pc'[q] # "ended" PROVE Pending(q)'
    BY <1>0, <1>sweep, <1>keeps, <2>1, <2>2, OthersRest DEF Step, Rests
  <2>3. /\ pc[r] = "sweep" /\ pc'[r] \in {"select", "done"}
        /\ UNCHANGED <<task, account, answer, wrote, reserved>>
    BY <1>0, <1>sweep DEF Sweep, Goto
  <2>4. Pending(r)'
    BY <1>0, <2>1, <2>3 DEF Pending, Hopeful, Attempting
  <2> QED
    BY <2>2, <2>4
<1>insert. ASSUME NEW r \in Requests, InsertTask(r) PROVE \A q \in Requests : pc'[q] # "ended" => Pending(q)'
  <2>1. PICK t \in TaskIds :
          /\ db.status[t] = "absent" /\ task' = [task EXCEPT ![r] = t]
          /\ \A u \in TaskIds : /\ db'.status[u] = IF u = t THEN "running" ELSE Committed(r).status[u]
                                /\ db'.account[u] = IF u = t THEN account[r] ELSE db.account[u]
    BY <1>insert, InsertRows
  <2>2. ASSUME NEW q \in Requests \ {r}, pc'[q] # "ended" PROVE Pending(q)'
    <3>1. Rests(q)
      BY <1>insert, OthersRest DEF Step
    <3>2. ASSUME task[q] # 0 PROVE task[q] \in TaskIds \ {t} /\ Committed(r).status[task[q]] = db.status[task[q]]
      BY <1>0, <1>commits, <2>1, <3>2 DEF OwnTasks
    <3> QED
      BY <1>keeps, <2>1, <2>2, <3>1, <3>2 DEF Rests
  <2>3. /\ pc[r] = "insert" /\ pc'[r] = "reserve" /\ wrote'[r] = "none"
        /\ UNCHANGED <<account, answer, reserved>> /\ task'[r] = t
    BY <1>0, <1>insert, <2>1 DEF InsertTask, Goto
  <2>4. db'.status[t] = "running" /\ db'.account[t] = account[r]
    BY <2>1
  <2>5. Pending(r)'
    BY <1>0, <2>3, <2>4 DEF Pending, Hopeful, Attempting
  <2> QED
    BY <2>2, <2>5
<1>finish. ASSUME NEW r \in Requests, Finish(r) PROVE \A q \in Requests : pc'[q] # "ended" => Pending(q)'
  <2>1. db' = Committed(r) /\ pc'[r] = "ended"
    BY <1>0, <1>finish DEF Finish, Goto
  <2>2. ASSUME NEW q \in Requests \ {r}, pc'[q] # "ended" PROVE Pending(q)'
    <3>1. Rests(q)
      BY <1>finish, OthersRest DEF Step
    <3>2. db'.account = db.account
      BY <2>1, CommittedRows
    <3> QED
      BY <1>keeps, <1>commits, <2>1, <2>2, <3>1, <3>2 DEF Rests
  <2> QED
    BY <2>1, <2>2
<1>other. ASSUME NEW r \in Requests, Step(r) \/ \E k \in Kinds : Arrive(r, k), UNCHANGED <<db, task>>,
                 ~Sweep(r), ~InsertTask(r), ~Finish(r)
          PROVE  \A q \in Requests : pc'[q] # "ended" => Pending(q)'
  <2>1. ASSUME NEW q \in Requests \ {r}, pc'[q] # "ended" PROVE Pending(q)'
    <3>1. Rests(q)
      BY <1>other, OthersRest
    <3> QED
      BY <1>keeps, <1>other, <2>1, <3>1 DEF Rests
  <2>2. ASSUME pc[r] # "ended", pc'[r] # "ended" PROVE Pending(r)'
    <3> USE DEF Goto, Attempting, Pending, Hopeful
    <3>0. Pending(r) /\ UNCHANGED <<db, task>>
      BY <1>other, <2>2
    <3>1. ASSUME NEW k, Arrive(r, k) PROVE Pending(r)'
      BY <1>0, <3>0, <3>1 DEF Arrive
    <3>2. CASE EnterSession(r) \/ ReenterSession(r)
      BY <1>0, <3>0, <3>2 DEF EnterSession, ReenterSession, TakeSessionLock
    <3>3. CASE LockCase(r) \/ LockTask(r) \/ TakeTaskRow(r) \/ TakeCaseRow(r)
      BY <1>0, <3>0, <3>3 DEF LockCase, LockTask, TakeTaskRow, TakeCaseRow
    <3>4. CASE Select(r)
      BY <1>0, <3>0, <3>4 DEF Select
    <3>5. CASE Reserve(r)
      BY <1>0, <3>0, <3>5 DEF Reserve, Superseded
    <3>6. ASSUME NEW a \in {"ok", "fail", "switch"}, PlatformAnswers(r, a) PROVE Pending(r)'
      BY <1>0, <3>0, <3>6 DEF PlatformAnswers
    <3>7. CASE Check(r)
      BY <1>0, <3>0, <3>7 DEF Check, Superseded, Fails
    <3>8. CASE Recheck(r)
      BY <1>0, <3>0, <3>8 DEF Recheck, Superseded, Fails
    <3>9. CASE Write(r)
      BY <1>0, <3>0, <3>9 DEF Write
    <3>10. CASE RowLockError(r)
      BY <1>0, <3>0, <3>10 DEF RowLockError
    <3> QED
      BY <1>other, <3>1, <3>2, <3>3, <3>4, <3>5, <3>6, <3>7, <3>8, <3>9, <3>10 DEF Step
  <2>3. pc[r] # "ended"
    BY <1>other DEF Step, Arrive, EnterSession, ReenterSession, TakeSessionLock, LockCase, Select, Reserve,
                    PlatformAnswers, Check, LockTask, Recheck, TakeTaskRow, TakeCaseRow, Write, RowLockError,
                    WaitsForRow
  <2> QED
    BY <2>1, <2>2, <2>3
<1>crash. ASSUME NEW n \in Nodes, Crash(n) PROVE \A q \in Requests : pc'[q] # "ended" => Pending(q)'
  <2>1. /\ UNCHANGED <<task, account, answer, wrote, reserved, db>>
        /\ \A r \in Requests : pc'[r] = pc[r] \/ pc'[r] = "ended"
    BY <1>0, <1>crash DEF Crash
  <2> QED
    BY <2>1 DEF Pending, Hopeful
<1>stutter. CASE UNCHANGED vars
  BY <1>stutter DEF vars, Pending, Hopeful
<1> QED
  BY <1>insert, <1>sweep, <1>finish, <1>other, <1>crash, <1>stutter, RowsKept DEF Next, Step

\* What is counted is what has succeeded, through every commit.
LEMMA UsedStep ==
  ASSUME TypeOK, OwnTasks, \A r \in Requests : pc[r] # "ended" => Pending(r), UsedMatchesSuccesses, [Next]_vars
  PROVE  UsedMatchesSuccesses'
<1>0. /\ task \in [Requests -> TaskIds \cup {0}] /\ 0 \notin TaskIds
      /\ \A a \in Accounts : db.used[a] \in Nat
      /\ \A r \in Requests : wrote[r] \in {"none", "success", "failed"}
  BY DEF TypeOK, TaskIds, Database
<1>1. \A a \in Accounts : db.used[a] = Cardinality(Successes(a)) /\ IsFiniteSet(Successes(a))
  <2>1. IsFiniteSet(TaskIds)
    <3>1. MaxTasks \in Nat
      BY QuoteAssumption, Zenon
    <3>2. 1 \in Int /\ MaxTasks \in Int
      BY <3>1
    <3> QED
      BY <3>2, FS_Interval DEF TaskIds
  <2>2. \A a : Successes(a) \subseteq TaskIds
    BY DEF Successes
  <2> QED
    BY <2>1, <2>2, FS_Subset DEF UsedMatchesSuccesses, Successes
<1>same. ASSUME \A a \in Accounts : db'.used[a] = db.used[a] /\ Successes(a)' = Successes(a)
         PROVE  UsedMatchesSuccesses'
  BY <1>1, <1>same DEF UsedMatchesSuccesses, Successes
\* A commit of a request that writes no success.
<1>commits. ASSUME NEW r \in Requests, pc[r] # "ended", wrote[r] # "success", ~Hopeful(r)
            PROVE  /\ \A t \in TaskIds : Committed(r).status[t] = "success" <=> db.status[t] = "success"
                   /\ \A a \in Accounts : Committed(r).used[a] = db.used[a]
  <2>1. Pending(r) /\ ~reserved[r] /\ (wrote[r] # "none" => task[r] # 0 /\ db.status[task[r]] # "success")
    BY <1>commits DEF Pending, OwnTasks
  <2> QED
    BY <1>0, <1>commits, <2>1, CommittedRows
<1>sweep. ASSUME NEW r \in Requests, Sweep(r) PROVE UsedMatchesSuccesses'
  <2>1. PICK stale \in SUBSET {t \in Running : Stale(t)} : \A t \in TaskIds :
          db'.status[t] = IF t \in stale THEN "failed"
                          ELSE IF t \in Running /\ Cancels(kind[r]) THEN "cancelled" ELSE db.status[t]
    BY <1>sweep, SweepRows
  <2>2. \A t \in TaskIds : db'.status[t] = "success" <=> db.status[t] = "success"
    BY <2>1 DEF Running
  <2>3. db'.account = db.account /\ db'.used = db.used
    BY <1>sweep, SweepRows
  <2>4. \A a \in Accounts : Successes(a)' = Successes(a)
    BY <2>2, <2>3 DEF Successes
  <2> QED
    BY <1>same, <2>3, <2>4
<1>insert. ASSUME NEW r \in Requests, InsertTask(r) PROVE UsedMatchesSuccesses'
  <2>1. PICK t \in TaskIds :
          /\ db.status[t] = "absent"
          /\ \A u \in TaskIds : /\ db'.status[u] = IF u = t THEN "running" ELSE Committed(r).status[u]
                                /\ db'.account[u] = IF u = t THEN account[r] ELSE db.account[u]
          /\ \A a \in Accounts : db'.used[a] = Committed(r).used[a]
    BY <1>insert, InsertRows
  <2>2. pc[r] = "insert" /\ wrote[r] # "success" /\ ~Hopeful(r)
    BY <1>insert DEF InsertTask, Pending, Hopeful
  <2>3. /\ \A u \in TaskIds : Committed(r).status[u] = "success" <=> db.status[u] = "success"
        /\ \A a \in Accounts : Committed(r).used[a] = db.used[a]
    BY <1>commits, <2>2
  <2>4. \A a \in Accounts : Successes(a)' = Successes(a)
    BY <2>1, <2>3 DEF Successes
  <2> QED
    BY <1>same, <2>1, <2>3, <2>4
<1>finish. ASSUME NEW r \in Requests, Finish(r) PROVE UsedMatchesSuccesses'
  <2>1. db' = Committed(r) /\ pc[r] = "done" /\ db'.account = db.account
    BY <1>finish, CommittedRows DEF Finish
  <2>2. CASE wrote[r] # "success"
    <3>1. /\ \A t \in TaskIds : db'.status[t] = "success" <=> db.status[t] = "success"
          /\ \A a \in Accounts : db'.used[a] = db.used[a]
      BY <1>commits, <2>1, <2>2 DEF Hopeful
    <3> QED
      BY <1>same, <2>1, <3>1 DEF Successes
  <2>3. CASE wrote[r] = "success"
    <3> DEFINE t == task[r]
    <3>1. /\ t \in TaskIds /\ db.status[t] # "success" /\ db.account[t] = account[r] /\ reserved[r]
      BY <1>0, <2>1, <2>3 DEF OwnTasks, Pending, Hopeful
    <3>2. /\ \A u \in TaskIds : db'.status[u] = IF u = t THEN "success" ELSE db.status[u]
          /\ \A a \in Accounts : db'.used[a] = IF a = account[r] THEN db.used[a] + 1 ELSE db.used[a]
      BY <2>1, <2>3, <3>1, CommittedRows
    <3>3. ASSUME NEW a \in Accounts PROVE db'.used[a] = Cardinality(Successes(a)')
      <4>1. CASE a = account[r]
        <5>1. Successes(a)' = Successes(a) \cup {t} /\ t \notin Successes(a)
          BY <2>1, <3>1, <3>2, <4>1 DEF Successes
        <5>2. Cardinality(Successes(a) \cup {t}) = Cardinality(Successes(a)) + 1
          BY <1>1, <5>1, FS_AddElement
        <5> QED
          BY <1>1, <3>2, <4>1, <5>1, <5>2
      <4>2. CASE a # account[r]
        <5>1. Successes(a)' = Successes(a)
          BY <2>1, <3>1, <3>2, <4>2 DEF Successes
        <5> QED
          BY <1>1, <3>2, <4>2, <5>1
      <4> QED
        BY <4>1, <4>2
    <3> QED
      BY <3>3 DEF UsedMatchesSuccesses, Successes
  <2> QED
    BY <2>2, <2>3
<1> QED
  <2>1. ASSUME UNCHANGED db PROVE UsedMatchesSuccesses'
    BY <2>1 DEF UsedMatchesSuccesses
  <2>2. ASSUME NEW n \in Nodes, Crash(n) PROVE UNCHANGED db
    BY <2>2 DEF Crash
  <2>3. UNCHANGED vars => UNCHANGED db
    BY DEF vars
  <2> QED
    BY <1>sweep, <1>insert, <1>finish, <2>1, <2>2, <2>3, RowsKept DEF Next, Step

\* Reservations, tasks and counts fit together in every reachable state.
THEOREM UsedInvariant == Spec => []UsedInv
<1>1. Init => UsedInv
  <2> SUFFICES ASSUME Init PROVE UsedInv
    OBVIOUS
  <2>1. OwnTasks /\ \A r \in Requests : Pending(r)
    BY DEF Init, OwnTasks, Pending, Hopeful, Attempting
  <2>2. \A a \in Accounts : db.used[a] = 0 /\ {t \in TaskIds : db.status[t] = "success" /\ db.account[t] = a} = {}
    BY DEF Init
  <2> QED
    BY <2>1, <2>2, FS_EmptySet DEF UsedInv, UsedMatchesSuccesses
<1>2. TypeOK /\ UsedInv /\ [Next]_vars => UsedInv'
  BY OwnStep, PendingStep, UsedStep DEF UsedInv
<1> QED
  BY <1>1, <1>2, Typed, PTL DEF Spec

\* The uses counted against an account are its successful quotes, at either isolation
\* level, for any number of accounts, requests, workers and crashes.
THEOREM UsesAreSuccesses == Spec => []UsedMatchesSuccesses
  BY UsedInvariant, PTL DEF UsedInv

-----------------------------------------------------------------------------
(***************************************************************************)
(* The last look.  At READ COMMITTED what a request sees under the lock of *)
(* its task holds until its commit.                                        *)
(***************************************************************************)
Decided(r) == (pc[r] = "write" /\ answer[r] = "ok") \/ (pc[r] = "done" /\ wrote[r] = "success")

LookInv ==
  /\ view = [r \in Requests |-> NoView]
  /\ \A r \in Requests : pc[r] = "recheck" \/ Decided(r) => taskLock[task[r]] = r
  /\ \A r \in Requests : Decided(r) => db.status[task[r]] # "cancelled"

\* Where no quote outlives its clock, its task runs until it is cancelled, and the material
\* it was checked against stays.
FreshInv ==
  /\ \A r \in Requests : task[r] # 0 /\ pc[r] \in Attempting => db.status[task[r]] \in {"running", "cancelled"}
  /\ \A r \in Requests : Decided(r) => db.status[task[r]] = "running" /\ submitted[r] = db.material

\* Tasks are numbered from one.
LEMMA ZeroIsNoTask == 0 \notin TaskIds
  BY DEF TaskIds

\* Nobody else takes the lock of a task away, or cancels what is locked.
LEMMA LookStep ==
  ASSUME Isolation = "read committed", TypeOK, OwnTasks,
         \A r \in Requests : pc[r] # "ended" => Pending(r), LookInv, [Next]_vars
  PROVE  LookInv'
<1> USE DEF attemptVars, txVars, rowLocks
<1>0. /\ task \in [Requests -> TaskIds \cup {0}] /\ pc \in [Requests -> Places] /\ 0 \notin TaskIds
      /\ wrote \in [Requests -> {"none", "success", "failed"}]
      /\ answer \in [Requests -> {"none", "ok", "fail", "switch", "stop"}]
      /\ taskLock \in [TaskIds -> Requests \cup {NoOne}]
  BY ZeroIsNoTask DEF TypeOK, Places
<1>no. NoOne \notin Requests
  BY QuoteAssumption
<1>views. view' = [r \in Requests |-> NoView]
  <2>1. UNCHANGED view \/ \E r \in Requests : InsertTask(r)
    <3>1. ASSUME NEW r \in Requests, Step(r) PROVE UNCHANGED view \/ InsertTask(r)
      BY <3>1 DEF Step, EnterSession, ReenterSession, TakeSessionLock, LockCase, Sweep, Select, Reserve,
                  PlatformAnswers, Check, LockTask, Recheck, TakeTaskRow, TakeCaseRow, Write, Finish,
                  RowLockError, OpenView
    <3> QED
      BY <3>1 DEF Next, Arrive, Crash, vars
  <2>2. ASSUME NEW r \in Requests, InsertTask(r) PROVE view' = [view EXCEPT ![r] = NoView]
    BY <2>2 DEF InsertTask
  <2> QED
    BY <2>1, <2>2 DEF LookInv
<1>own. \A r \in Requests : pc[r] = "recheck" \/ Decided(r) => task[r] \in TaskIds /\ taskLock[task[r]] = r
  BY <1>0, ZenonT(40) DEF LookInv, Decided, OwnTasks, Attempting
<1> DEFINE Looked(r) == pc[r] = "recheck" \/ Decided(r)
           Held(r) == Looked(r) => taskLock[task[r]] = r
           Uncancelled(r) == Decided(r) => db.status[task[r]] # "cancelled"
\* The others' locks and tasks stay.
<1>rests. ASSUME NEW r \in Requests, Step(r) \/ \E k \in Kinds : Arrive(r, k), NEW q \in Requests \ {r}
          PROVE  Held(q)' /\ Uncancelled(q)'
  <2>1. Rests(q) /\ (Looked(q)' <=> Looked(q)) /\ (Decided(q)' <=> Decided(q))
    BY <1>rests, OthersRest DEF Rests, Decided
  <2>2. ASSUME Looked(q) PROVE taskLock'[task[q]] = q
    <3>1. task[q] \in TaskIds /\ taskLock[task[q]] = q /\ q # NoOne /\ q # r
      BY <1>no, <1>own, <2>2
    <3>2. ASSUME NEW t \in TaskIds, taskLock[t] # NoOne, taskLock[t] # r PROVE taskLock'[t] = taskLock[t]
      <4>1. CASE LockTask(r) \/ TakeTaskRow(r)
        BY <1>0, <3>2, <4>1 DEF LockTask, TakeTaskRow
      <4>2. CASE InsertTask(r) \/ Finish(r) \/ RowLockError(r)
        BY <3>2, <4>2 DEF InsertTask, Finish, RowLockError, ReleaseRows
      <4>3. CASE UNCHANGED taskLock
        BY <4>3
      <4> QED
        BY <1>rests, <4>1, <4>2, <4>3
           DEF Step, Arrive, EnterSession, ReenterSession, TakeSessionLock, LockCase, Sweep, Select, Reserve,
               PlatformAnswers, Check, Recheck, TakeCaseRow, Write
    <3> QED
      BY <3>1, <3>2
  <2>3. ASSUME Decided(q) PROVE db'.status[task[q]] # "cancelled"
    <3>1. task[q] \in TaskIds /\ taskLock[task[q]] = q /\ q # NoOne /\ db.status[task[q]] # "cancelled"
      BY <1>no, <1>own, <2>3 DEF LookInv
    <3>2. Committed(r).status[task[q]] # "cancelled"
      <4>1. Committed(r).status[task[q]] \in {wrote[r], db.status[task[q]]} /\ (wrote[r] = "cancelled" => FALSE)
        BY <1>0, <3>1, CommittedRows
      <4> QED
        BY <1>0, <3>1, <4>1, CommittedRows
    <3>3. CASE Sweep(r)
      <4>1. task[q] \notin Running
        BY <3>1, <3>3 DEF Sweep
      <4> QED
        BY <3>1, <3>3, <4>1, SweepRows
    <3>4. CASE InsertTask(r)
      BY <3>1, <3>2, <3>4, InsertRows
    <3>5. CASE Finish(r)
      BY <3>2, <3>5 DEF Finish
    <3>6. CASE UNCHANGED db
      BY <3>1, <3>6
    <3> QED
      BY <1>rests, <3>3, <3>4, <3>5, <3>6, RowsKept
  <2> QED
    BY <2>1, <2>2, <2>3 DEF Rests
<1>acts. ASSUME NEW r \in Requests, Step(r) \/ \E k \in Kinds : Arrive(r, k) PROVE Held(r)' /\ Uncancelled(r)'
  <2> USE DEF Goto, Decided
  <2>0. pc[r] # "ended" => wrote[r] # "success" \/ pc[r] = "done"
    BY DEF Pending
  <2>1. CASE LockTask(r)
    <3>1. task[r] \in TaskIds /\ answer[r] = "ok" /\ wrote[r] = "none"
      BY <1>0, <2>1 DEF LockTask, OwnTasks, Attempting, Pending
    <3> QED
      BY <1>0, <2>1, <3>1 DEF LockTask
  <2>2. CASE Recheck(r)
    <3>1. taskLock[task[r]] = r /\ wrote[r] = "none"
      BY <2>2 DEF Recheck, LookInv, Pending, Attempting
    <3>2. Visible(r) = db
      <4>1. view[r] = NoView /\ NoView.open = FALSE
        BY DEF LookInv, NoView
      <4> QED
        BY <4>1 DEF Visible
    <3> QED
      BY <1>0, <2>2, <3>1, <3>2 DEF Recheck, Superseded, Fails, CancelSeen
  <2>3. CASE TakeTaskRow(r) \/ TakeCaseRow(r)
    BY <1>0, <2>3 DEF TakeTaskRow, TakeCaseRow, LookInv
  <2>4. CASE Write(r)
    BY <1>0, <2>4 DEF Write, LookInv
  <2>5. ASSUME pc'[r] # "recheck", ~Decided(r)' PROVE Held(r)' /\ Uncancelled(r)'
    BY <2>5
  <2>6. ASSUME NEW k, Arrive(r, k) PROVE pc'[r] # "recheck" /\ ~Decided(r)'
    BY <1>0, <2>6 DEF Arrive
  <2>7. CASE EnterSession(r) \/ ReenterSession(r) \/ LockCase(r) \/ Sweep(r) \/ Select(r)
             \/ InsertTask(r) \/ \E a \in {"ok", "fail", "switch"} : PlatformAnswers(r, a)
    <3>1. (pc[r] \notin {"ended", "done"} /\ UNCHANGED wrote) \/ wrote'[r] = "none"
      BY <1>0, <2>7 DEF EnterSession, ReenterSession, TakeSessionLock, LockCase, Sweep, Select, InsertTask,
                        PlatformAnswers
    <3>2. pc'[r] \notin {"recheck", "write"}
      BY <1>0, <2>7 DEF EnterSession, ReenterSession, TakeSessionLock, LockCase, Sweep, Select, InsertTask,
                        PlatformAnswers
    <3> QED
      BY <2>0, <2>5, <3>1, <3>2
  <2>8. CASE Reserve(r) \/ Check(r)
    BY <1>0, <2>0, <2>5, <2>8 DEF Reserve, Check, Superseded, Fails
  <2>9. CASE Finish(r) \/ RowLockError(r)
    BY <1>0, <2>5, <2>9 DEF Finish, RowLockError
  <2> QED
    BY <1>acts, <2>1, <2>2, <2>3, <2>4, <2>5, <2>6, <2>7, <2>8, <2>9 DEF Step
<1>crash. ASSUME NEW n \in Nodes, Crash(n) PROVE \A r \in Requests : Held(r)' /\ Uncancelled(r)'
  <2>1. /\ UNCHANGED <<task, answer, wrote, db>>
        /\ \A r \in Requests : pc'[r] = "ended" \/
             (pc'[r] = pc[r] /\ \A t \in TaskIds : taskLock[t] = r /\ pc[r] # "ended" /\ pc[r] # "new" => taskLock'[t] = r)
    BY <1>0, <1>crash DEF Crash
  <2> QED
    BY <1>own, <2>1, ZenonT(40) DEF LookInv, Decided
<1>stutter. CASE UNCHANGED vars
  BY <1>stutter DEF vars, LookInv, Decided
<1> QED
  <2>1. \A r \in Requests : Held(r)' /\ Uncancelled(r)'
    <3>1. ASSUME NEW r \in Requests, Step(r) \/ \E k \in Kinds : Arrive(r, k)
          PROVE  \A q \in Requests : Held(q)' /\ Uncancelled(q)'
      BY <1>acts, <1>rests, <3>1
    <3> QED
      BY <3>1, <1>crash, <1>stutter DEF Next, LookInv
  <2> QED
    BY <1>views, <2>1 DEF LookInv

\* A task succeeds in the commit of its own request.
LEMMA SuccessCommitted ==
  ASSUME TypeOK, \A r \in Requests : pc[r] # "ended" => Pending(r), [Next]_vars,
         NEW t \in TaskIds, db.status[t] # "success", db'.status[t] = "success"
  PROVE  \E r \in Requests : Finish(r) /\ wrote[r] = "success" /\ task[r] = t
<1>1. ASSUME NEW r \in Requests, wrote[r] # "success" \/ task[r] # t PROVE Committed(r).status[t] # "success"
  <2>1. wrote[r] \in {"none", "success", "failed"}
    BY DEF TypeOK
  <2> QED
    BY <1>1, <2>1, CommittedRows
<1>2. ASSUME NEW r \in Requests, Sweep(r) PROVE FALSE
  <2>1. PICK stale : db'.status[t] = IF t \in stale THEN "failed"
                                     ELSE IF t \in Running /\ Cancels(kind[r]) THEN "cancelled"
                                     ELSE db.status[t]
    BY <1>2, SweepRows
  <2> QED
    BY <2>1
<1>3. ASSUME NEW r \in Requests, InsertTask(r) PROVE FALSE
  <2>1. wrote[r] # "success"
    BY <1>3 DEF InsertTask, Pending
  <2> QED
    BY <1>1, <1>3, <2>1, InsertRows
<1>4. ASSUME NEW r \in Requests, Finish(r) PROVE wrote[r] = "success" /\ task[r] = t
  BY <1>1, <1>4 DEF Finish
<1>5. CASE UNCHANGED db
  BY <1>5
<1> QED
  BY <1>2, <1>3, <1>4, <1>5, RowsKept DEF Next, Step, Crash, vars

\* A quote that a newer message has cancelled is never recorded as successful, were the
\* server set to READ COMMITTED: the last look is taken under the lock of the task.
THEOREM CancelledStays == ASSUME Isolation = "read committed" PROVE Spec => CancelledNeverSucceeds
<1>1. Init => LookInv
  BY DEF Init, LookInv, Decided
<1>2. TypeOK /\ UsedInv /\ LookInv /\ [Next]_vars => LookInv'
  BY LookStep DEF UsedInv
<1>3. TypeOK /\ UsedInv /\ LookInv /\ [Next]_vars =>
        [\A t \in TaskIds : db.status[t] = "cancelled" => db'.status[t] # "success"]_vars
  <2> SUFFICES ASSUME TypeOK, UsedInv, LookInv, [Next]_vars, NEW t \in TaskIds, db.status[t] = "cancelled",
                      db'.status[t] = "success"
               PROVE  FALSE
    OBVIOUS
  <2>1. PICK r \in Requests : Finish(r) /\ wrote[r] = "success" /\ task[r] = t
    BY SuccessCommitted DEF UsedInv
  <2> QED
    BY <2>1 DEF Finish, LookInv, Decided
<1> QED
  BY <1>1, <1>2, <1>3, Typed, UsedInvariant, PTL DEF Spec, CancelledNeverSucceeds

\* While a quote is under way its task is not taken for dead, and under the lock of a
\* running task no sweep changes the material.
LEMMA FreshStep ==
  ASSUME Isolation = "read committed", ~MaySlow, TypeOK, OwnTasks,
         \A r \in Requests : pc[r] # "ended" => Pending(r), LookInv, FreshInv, [Next]_vars
  PROVE  FreshInv'
<1> USE DEF attemptVars, txVars, rowLocks
<1>0. /\ task \in [Requests -> TaskIds \cup {0}] /\ pc \in [Requests -> Places] /\ 0 \notin TaskIds
      /\ wrote \in [Requests -> {"none", "success", "failed"}]
      /\ answer \in [Requests -> {"none", "ok", "fail", "switch", "stop"}]
  BY ZeroIsNoTask DEF TypeOK, Places
<1>no. NoOne \notin Requests
  BY QuoteAssumption
<1>own. \A r \in Requests : Decided(r) => task[r] \in TaskIds /\ taskLock[task[r]] = r
  BY <1>0 DEF LookInv, Decided, OwnTasks, Attempting
<1> DEFINE Alive(r) == task[r] # 0 /\ pc[r] \in Attempting => db.status[task[r]] \in {"running", "cancelled"}
           Fresh(r) == Decided(r) => db.status[task[r]] = "running" /\ submitted[r] = db.material
\* A sweep spares the tasks that are worked on, and waits for those that are locked.
<1>sweep. ASSUME NEW r \in Requests, Sweep(r), NEW q \in Requests, pc[q] # "ended", task[q] # 0,
                 db.status[task[q]] \in {"running", "cancelled"}
          PROVE  db'.status[task[q]] \in {"running", "cancelled"} /\ ~Decided(q)
  <2>1. task[q] \in TaskIds
    BY <1>0, <1>sweep
  <2>2. \A stale \in SUBSET {t \in Running : Stale(t)} : task[q] \notin stale
    BY <1>sweep DEF Stale, Working
  <2>3. db'.status[task[q]] \in {"running", "cancelled"}
    BY <1>sweep, <2>1, <2>2, SweepRows
  <2>4. ~Decided(q)
    <3>1. Decided(q) => task[q] \in Running /\ taskLock[task[q]] = q
      BY <1>own DEF FreshInv, Running
    <3> QED
      BY <1>no, <1>sweep, <3>1 DEF Sweep
  <2> QED
    BY <2>3, <2>4
\* The others' tasks and material stay.
<1>rests. ASSUME NEW r \in Requests, Step(r) \/ \E k \in Kinds : Arrive(r, k), NEW q \in Requests \ {r}
          PROVE  Alive(q)' /\ Fresh(q)'
  <2>1. Rests(q) /\ (Decided(q)' <=> Decided(q))
    BY <1>rests, OthersRest DEF Rests, Decided
  <2>2. ASSUME task[q] # 0, pc[q] # "ended", db.status[task[q]] \in {"running", "cancelled"}
        PROVE  /\ db'.status[task[q]] \in {"running", "cancelled"}
               /\ Decided(q) => db'.status[task[q]] = db.status[task[q]] /\ db'.material = db.material
    <3>1. task[q] \in TaskIds
      BY <1>0, <2>2
    <3>2. Committed(r).status[task[q]] = db.status[task[q]] /\ Committed(r).material = db.material
      <4>1. wrote[r] # "none" => task[r] # task[q]
        BY <2>2 DEF OwnTasks
      <4> QED
        BY <3>1, <4>1, CommittedRows
    <3>3. CASE Sweep(r)
      BY <1>sweep, <2>2, <3>3
    <3>4. CASE InsertTask(r)
      <4>1. PICK t \in TaskIds :
              /\ db.status[t] = "absent"
              /\ \A u \in TaskIds : db'.status[u] = IF u = t THEN "running" ELSE Committed(r).status[u]
              /\ db'.material = db.material
        BY <3>4, InsertRows
      <4> QED
        BY <2>2, <3>1, <3>2, <4>1
    <3>5. CASE Finish(r)
      BY <2>2, <3>2, <3>5 DEF Finish
    <3>6. CASE UNCHANGED db
      BY <2>2, <3>6
    <3> QED
      BY <1>rests, <3>3, <3>4, <3>5, <3>6, RowsKept
  <2>3. Decided(q) => task[q] # 0 /\ pc[q] # "ended"
    BY <1>0, <1>own DEF Decided
  <2>4. pc[q] \in Attempting => pc[q] # "ended"
    BY DEF Attempting
  <2> QED
    BY <2>1, <2>2, <2>3, <2>4 DEF Rests, FreshInv
<1>acts. ASSUME NEW r \in Requests, Step(r) \/ \E k \in Kinds : Arrive(r, k) PROVE Alive(r)' /\ Fresh(r)'
  <2> USE DEF Goto, Decided
  <2>0. /\ pc[r] # "ended" => wrote[r] # "success" \/ pc[r] = "done"
        /\ Alive(r)
    BY DEF Pending, FreshInv
  <2>1. CASE Recheck(r)
    <3>1. wrote[r] = "none" /\ db.status[task[r]] \in {"running", "cancelled"}
      BY <2>1 DEF Recheck, Pending, Attempting, OwnTasks, FreshInv
    <3>2. Visible(r) = db
      <4>1. view[r] = NoView /\ NoView.open = FALSE
        BY DEF LookInv, NoView
      <4> QED
        BY <4>1 DEF Visible
    <3> QED
      BY <1>0, <2>1, <3>1, <3>2 DEF Recheck, Superseded, Fails, CancelSeen, MaterialCurrent
  <2>2. CASE TakeTaskRow(r) \/ TakeCaseRow(r)
    BY <1>0, <2>2 DEF TakeTaskRow, TakeCaseRow, FreshInv
  <2>3. CASE Write(r)
    <3>1. ~(pc'[r] \in Attempting)
      BY <1>0, <2>3 DEF Write, Attempting
    <3> QED
      BY <1>0, <2>3, <3>1 DEF Write, FreshInv
  <2>4. ASSUME ~Decided(r)', pc'[r] \notin Attempting PROVE Alive(r)' /\ Fresh(r)'
    BY <2>4
  <2>5. ASSUME ~Decided(r)', pc[r] \in Attempting, UNCHANGED <<db, task>> PROVE Alive(r)' /\ Fresh(r)'
    BY <2>0, <2>5
  <2>6. CASE InsertTask(r)
    <3>1. PICK t \in TaskIds :
            /\ task' = [task EXCEPT ![r] = t]
            /\ \A u \in TaskIds : db'.status[u] = IF u = t THEN "running" ELSE Committed(r).status[u]
      BY <2>6, InsertRows
    <3>2. task'[r] = t /\ db'.status[t] = "running"
      BY <1>0, <3>1
    <3>3. ~Decided(r)'
      BY <1>0, <2>6 DEF InsertTask
    <3> QED
      BY <3>2, <3>3
  <2>7. CASE EnterSession(r) \/ LockCase(r) \/ Sweep(r) \/ Select(r) \/ \E k \in Kinds : Arrive(r, k)
    <3>1. pc[r] \notin {"ended", "done"} /\ UNCHANGED wrote
      BY <1>0, <2>7 DEF EnterSession, TakeSessionLock, LockCase, Sweep, Select, Arrive
    <3>2. pc'[r] \in {"lock", "case", "sweep", "select", "insert", "done"}
      BY <1>0, <2>7 DEF EnterSession, TakeSessionLock, LockCase, Sweep, Select, Arrive
    <3> QED
      BY <2>0, <2>4, <3>1, <3>2 DEF Attempting
  <2>8. CASE Reserve(r) \/ Check(r) \/ ReenterSession(r) \/ LockTask(r)
             \/ \E a \in {"ok", "fail", "switch"} : PlatformAnswers(r, a)
    <3>1. pc[r] \in Attempting \ {"recheck", "write"} /\ UNCHANGED <<db, task, wrote>>
      BY <2>8 DEF Reserve, Check, ReenterSession, TakeSessionLock, LockTask, PlatformAnswers, Attempting
    <3>2. ~Decided(r)'
      <4>1. wrote'[r] # "success"
        BY <2>0, <3>1 DEF Attempting
      <4>2. ~(pc'[r] = "write" /\ answer'[r] = "ok")
        BY <1>0, <2>8 DEF Reserve, Check, ReenterSession, TakeSessionLock, LockTask, PlatformAnswers, Superseded,
                          Fails
      <4> QED
        BY <4>1, <4>2
    <3> QED
      BY <2>5, <3>1, <3>2
  <2>9. CASE Finish(r) \/ RowLockError(r)
    BY <1>0, <2>4, <2>9 DEF Finish, RowLockError, Attempting
  <2> QED
    BY <1>acts, <2>1, <2>2, <2>3, <2>6, <2>7, <2>8, <2>9 DEF Step
<1>crash. ASSUME NEW n \in Nodes, Crash(n) PROVE \A r \in Requests : Alive(r)' /\ Fresh(r)'
  <2>1. /\ UNCHANGED <<task, answer, wrote, db, submitted>>
        /\ \A r \in Requests : pc'[r] = "ended" \/ pc'[r] = pc[r]
    BY <1>0, <1>crash DEF Crash
  <2> QED
    BY <2>1 DEF FreshInv, Decided, Attempting
<1>stutter. CASE UNCHANGED vars
  BY <1>stutter DEF vars, FreshInv, Decided
<1> QED
  <2>1. ASSUME NEW r \in Requests, Step(r) \/ \E k \in Kinds : Arrive(r, k)
        PROVE  \A q \in Requests : Alive(q)' /\ Fresh(q)'
    BY <1>acts, <1>rests, <2>1
  <2> QED
    BY <2>1, <1>crash, <1>stutter DEF Next, FreshInv

\* A quote is recorded as successful only for the material the case has at that moment,
\* were the server set to READ COMMITTED, and as long as no quote outlives its clock.
THEOREM SuccessesAreCurrent ==
  ASSUME Isolation = "read committed", ~MaySlow PROVE Spec => SuccessIsCurrent
<1>1. Init => LookInv /\ FreshInv
  BY ZenonT(40) DEF Init, LookInv, FreshInv, Decided, Attempting
<1>2. TypeOK /\ UsedInv /\ LookInv /\ FreshInv /\ [Next]_vars => LookInv' /\ FreshInv'
  BY LookStep, FreshStep DEF UsedInv
<1>3. TypeOK /\ UsedInv /\ FreshInv /\ [Next]_vars =>
        [\A t \in TaskIds : db.status[t] # "success" /\ db'.status[t] = "success" =>
           \E r \in Working(t) : submitted[r] = db'.material]_vars
  <2> SUFFICES ASSUME TypeOK, UsedInv, FreshInv, [Next]_vars, NEW t \in TaskIds,
                      db.status[t] # "success", db'.status[t] = "success"
               PROVE  \E r \in Working(t) : submitted[r] = db'.material
    OBVIOUS
  <2>1. PICK r \in Requests : Finish(r) /\ wrote[r] = "success" /\ task[r] = t
    BY SuccessCommitted DEF UsedInv
  <2>2. pc[r] = "done" /\ submitted[r] = db.material
    BY <2>1 DEF Finish, FreshInv, Decided
  <2>3. db'.material = db.material
    BY <2>1, CommittedRows DEF Finish
  <2> QED
    BY <2>1, <2>2, <2>3 DEF Working
<1> QED
  BY <1>1, <1>2, <1>3, Typed, UsedInvariant, PTL DEF Spec, SuccessIsCurrent

-----------------------------------------------------------------------------
(* The policy a quote renews (Renewal): what is looked up belongs to the case alone.        *)
CONSTANTS Callers, Cars, Policies, Types, Sums, Configured, BuiltIn, Missing, MaxMessages

VARIABLES renewing, renewPc, lookups, renewed, requests, asked, mixed

Renews == INSTANCE Renewal WITH
  case <- renewing, pc <- renewPc, mine <- lookups, quoted <- renewed, messages <- requests

\* Cars and policies have a licence type, the worth of a policy's flags and the days to its
\* end stay in their bounds, and what is unknown is no type and no policy.
Policed ==
  /\ \A car \in Cars : car.type \in Types
  /\ \A p \in Policies : p.type \in Types /\ p.flags \in 0 .. 60 /\ p.days \in Nat /\ p.encoded \in BOOLEAN
  /\ Missing \notin Types /\ Missing \notin Policies /\ Missing \notin Renews!CaseType
  /\ MaxMessages \in Nat

\* What the user chose is the type decided.
ChoiceDecides(c) == c.chosen # Missing => c.decision.type = c.chosen

\* A lookup nobody cancelled knows the car of the case and, unless a cancelled one has gone on,
\* what the user asked for.
LookupKnows(r) ==
  renewPc[r] = "lookup" =>
    /\ lookups[r].case \in Renews!CaseType /\ ChoiceDecides(lookups[r].case)
    /\ ~lookups[r].cancelled =>
         /\ lookups[r].case.car = renewing.car
         /\ ~mixed => lookups[r].case.chosen = renewing.chosen /\ lookups[r].case.amount = renewing.amount

RenewInv ==
  /\ Renews!TypeOK
  /\ ChoiceDecides(renewing)
  /\ ~mixed => asked.chosen = renewing.chosen /\ asked.amount = renewing.amount
  /\ \A r \in Callers : LookupKnows(r)

\* Whatever is written into a case, the decision follows from what the user chose.
LEMMA CaseNormalized ==
  ASSUME Policed, NEW c \in Renews!CaseType
  PROVE  /\ Renews!Normalized(c) \in Renews!CaseType /\ ChoiceDecides(Renews!Normalized(c))
         /\ Renews!Normalized(c).car = c.car /\ Renews!Normalized(c).policy = c.policy
         /\ Renews!Normalized(c).chosen = c.chosen /\ Renews!Normalized(c).amount = c.amount
<1> DEFINE d == Renews!Decision(c)
<1>1. d \in [type : Types, source : {"material", "user", "renewal"}]
  BY DEF Renews!Decision, Renews!CaseType, Policed
<1>2. c.chosen # Missing => d.type = c.chosen
  BY DEF Renews!Decision
<1> HIDE DEF d
<1>3. Renews!Normalized(c) = [c EXCEPT !.decision = d]
  BY DEF Renews!Normalized, d
<1> QED  BY <1>1, <1>2, <1>3 DEF Renews!CaseType, ChoiceDecides

\* What a mark is worth.
LEMMA MatchWorth ==
  ASSUME NEW left, NEW right, NEW plus \in Nat, NEW minus \in Nat
  PROVE  /\ Renews!Match(left, right, plus, minus) \in Int
         /\ Renews!Match(left, right, plus, minus) <= plus
         /\ ~(left = right /\ right # Missing) => Renews!Match(left, right, plus, minus) <= 0
         /\ Renews!Differs(left, right) => Renews!Match(left, right, plus, minus) = -minus
  BY DEF Renews!Match, Renews!Differs

\* The policy is this car's, or of one whose plate or engine number changed.
Fitting(p, car) ==
  LET differing == {m \in Renews!Marks : Renews!Differs(p[m], car[m])}
      agreeing == {m \in Renews!Marks : p[m] = car[m] /\ car[m] # Missing} IN
  "vin" \notin differing /\ (differing # {} => differing # Renews!Marks \ {"vin"} /\ agreeing # {})

\* A policy that is selected fits the car it was looked up for.
LEMMA ScoreFits ==
  ASSUME Policed, NEW p \in Policies, NEW c, Renews!Score(p, c) >= 0
  PROVE  Fitting(p, c.car)
<1> DEFINE plate == Renews!Match(p.plate, c.car.plate, 100, 160)
           vin == Renews!Match(p.vin, c.car.vin, 120, 420)
           engine == Renews!Match(p.engine, c.car.engine, 90, 220)
           type == Renews!Match(p.type, c.decision.type, 50, 120)
           coded == IF p.encoded THEN 20 ELSE 0
           D(m) == Renews!Differs(p[m], c.car[m])
           A(m) == p[m] = c.car[m] /\ c.car[m] # Missing
<1>1. plate \in Int /\ plate <= 100 /\ (~A("plate") => plate <= 0) /\ (D("plate") => plate = -160)
  BY MatchWorth
<1>2. vin \in Int /\ vin <= 120 /\ (~A("vin") => vin <= 0) /\ (D("vin") => vin = -420)
  BY MatchWorth
<1>3. engine \in Int /\ engine <= 90 /\ (~A("engine") => engine <= 0) /\ (D("engine") => engine = -220)
  BY MatchWorth
<1>4. type \in Int /\ type <= 50
  BY MatchWorth
<1>5. p.flags \in 0 .. 60 /\ p.days \in Nat /\ coded \in 0 .. 20
  BY DEF Policed
<1>6. plate + vin + engine + type + p.flags + coded - p.days >= 0
  BY DEF Renews!Score
<1> HIDE DEF plate, vin, engine, type, coded, D, A
<1>7. ~D("vin") /\ ~(D("plate") /\ D("engine"))
  BY <1>1, <1>2, <1>3, <1>4, <1>5, <1>6
<1>8. D("plate") \/ D("engine") => A("plate") \/ A("vin") \/ A("engine")
  BY <1>1, <1>2, <1>3, <1>4, <1>5, <1>6, <1>7
<1> QED  BY <1>7, <1>8 DEF Fitting, Renews!Marks, D, A

\* A policy that may be used again agrees with the car in all that is known of both.
LEMMA ReusableFits ==
  ASSUME NEW c, Renews!Reusable(c)
  PROVE  Fitting(c.policy, c.car)
  BY DEF Renews!Reusable, Fitting

\* What a quote without a policy says.
LEMMA QuoteSays ==
  ASSUME Policed, NEW c \in Renews!CaseType, ChoiceDecides(c), NEW beside \in BOOLEAN, Renews!Quote(c, beside)
  PROVE  /\ renewed' \in [car : Cars, policy : Policies \cup {Missing}, type : Types,
                         amount : Sums \cup {Configured, BuiltIn} \cup {p.amount : p \in Policies},
                         beside : BOOLEAN]
         /\ renewed'.policy = Missing
         /\ c.chosen # Missing => renewed'.type = c.chosen
         /\ c.amount # 0 => renewed'.amount = c.amount
  BY DEF Renews!Quote, Renews!Amount, Renews!CaseType, ChoiceDecides

\* What a quote with the case's policy says.
LEMMA RenewalSays ==
  ASSUME Policed, NEW c \in Renews!CaseType, c.policy # Missing, NEW beside \in BOOLEAN,
         Renews!QuoteRenewal(c, beside)
  PROVE  \/ renewed' = renewed
         \/ /\ renewed' \in [car : Cars, policy : Policies \cup {Missing}, type : Types,
                            amount : Sums \cup {Configured, BuiltIn} \cup {p.amount : p \in Policies},
                            beside : BOOLEAN]
            /\ renewed'.car = c.car /\ renewed'.policy = c.policy /\ renewed'.beside = beside
            /\ c.chosen # Missing => renewed'.type = c.chosen
            /\ c.amount # 0 => renewed'.amount = c.amount
<1>1. c.policy \in Policies /\ c.policy.type \in Types /\ c.car \in Cars
  BY DEF Policed, Renews!CaseType
<1>2. Renews!Amount(c, TRUE) \in Sums \cup {Configured, BuiltIn} \cup {p.amount : p \in Policies}
  BY <1>1 DEF Renews!Amount, Renews!CaseType
<1>3. c.amount # 0 => Renews!Amount(c, TRUE) = c.amount
  BY DEF Renews!Amount
<1>4. (IF c.chosen # Missing THEN c.chosen ELSE c.policy.type) \in Types
  BY <1>1 DEF Renews!CaseType
<1>5. CASE ~c.policy.encoded
  BY <1>5 DEF Renews!QuoteRenewal
<1>6. CASE c.policy.encoded
  <2>1. renewed' = [car |-> c.car, policy |-> c.policy,
                    type |-> IF c.chosen # Missing THEN c.chosen ELSE c.policy.type,
                    amount |-> Renews!Amount(c, TRUE), beside |-> beside]
    BY <1>6 DEF Renews!QuoteRenewal
  <2> QED  BY <1>1, <1>2, <1>3, <1>4, <2>1
<1> QED  BY <1>5, <1>6

QuoteOf == [car : Cars, policy : Policies \cup {Missing}, type : Types,
           amount : Sums \cup {Configured, BuiltIn} \cup {p.amount : p \in Policies}, beside : BOOLEAN]
QuoteMeans == Renews!PolicyFits /\ Renews!AskedIsQuoted
QuoteOK == renewed' = renewed \/ (renewed' \in QuoteOf /\ QuoteMeans')

\* Cancelling the lookups leaves each with its case.
LEMMA LookupsCancelled ==
  ASSUME RenewInv
  PROVE  /\ Renews!CancelLookups \in [Callers -> [case : Renews!CaseType \cup {Missing}, auto : BOOLEAN, cancelled : BOOLEAN]]
         /\ \A r \in Callers : renewPc[r] = "lookup" =>
              Renews!CancelLookups[r].case = lookups[r].case /\ Renews!CancelLookups[r].cancelled
<1>1. ASSUME NEW r \in Callers
      PROVE  lookups[r] \in [case : Renews!CaseType \cup {Missing}, auto : BOOLEAN, cancelled : BOOLEAN]
  BY DEF RenewInv, Renews!TypeOK
<1> QED  BY <1>1 DEF Renews!CancelLookups

\* A message quotes the case as it makes it, or begins a lookup for it.
LEMMA MessageStep ==
  ASSUME Policed, RenewInv, NEW r \in Callers, Renews!Message(r)
  PROVE  RenewInv' /\ QuoteOK
<1>1. PICK car \in Cars, chosen \in Types \cup {renewing.chosen}, amount \in Sums \cup {renewing.amount},
           command \in {"renewal", "quote"} :
        LET changed == chosen # renewing.chosen \/ amount # renewing.amount
            renewal == Renews!Renews(command, changed)
            now == Renews!Normalized([renewing EXCEPT !.car = car, !.chosen = chosen, !.amount = amount,
                                       !.renewal = @ \/ renewal])
            probe == ~renewal /\ Renews!Probes(now)
            lookup == probe \/ (renewal /\ ~Renews!Reusable(now)) IN
        /\ renewPc[r] = "idle" /\ requests < MaxMessages
        /\ renewing' = now
        /\ requests' = requests + 1
        /\ asked' = [chosen |-> chosen, amount |-> amount]
        /\ IF lookup
           THEN /\ renewPc' = [renewPc EXCEPT ![r] = "lookup"]
                /\ lookups' = [Renews!CancelLookups EXCEPT ![r] = [case |-> now, auto |-> probe, cancelled |-> FALSE]]
                /\ UNCHANGED renewed
           ELSE /\ IF renewal THEN Renews!QuoteRenewal(now, FALSE) ELSE Renews!Quote(now, FALSE)
                /\ lookups' = Renews!CancelLookups
                /\ UNCHANGED renewPc
        /\ UNCHANGED mixed
  BY DEF Renews!Message
<1> DEFINE changed == chosen # renewing.chosen \/ amount # renewing.amount
           renewal == Renews!Renews(command, changed)
           made == [renewing EXCEPT !.car = car, !.chosen = chosen, !.amount = amount, !.renewal = @ \/ renewal]
           now == Renews!Normalized(made)
           probe == ~renewal /\ Renews!Probes(now)
           lookup == probe \/ (renewal /\ ~Renews!Reusable(now))
<1>2. renewal \in BOOLEAN
  BY DEF Renews!Renews, Renews!Reusable
<1> HIDE DEF renewal
<1>3. made \in Renews!CaseType /\ made.car = car /\ made.chosen = chosen /\ made.amount = amount
  BY <1>2 DEF RenewInv, Renews!TypeOK, Renews!CaseType
<1> HIDE DEF made
<1>4. now \in Renews!CaseType /\ ChoiceDecides(now) /\ now.car = car /\ now.chosen = chosen /\ now.amount = amount
  BY <1>3, CaseNormalized
<1> HIDE DEF now
<1>5. /\ renewPc[r] = "idle" /\ requests < MaxMessages
      /\ renewing' = now /\ requests' = requests + 1 /\ mixed' = mixed
      /\ asked' = [chosen |-> chosen, amount |-> amount]
  BY <1>1 DEF now, made, renewal
<1>6. \/ /\ lookup
         /\ renewPc' = [renewPc EXCEPT ![r] = "lookup"]
         /\ lookups' = [Renews!CancelLookups EXCEPT ![r] = [case |-> now, auto |-> probe, cancelled |-> FALSE]]
         /\ renewed' = renewed
      \/ /\ renewal /\ Renews!Reusable(now) /\ Renews!QuoteRenewal(now, FALSE)
         /\ lookups' = Renews!CancelLookups /\ renewPc' = renewPc
      \/ /\ Renews!Quote(now, FALSE)
         /\ lookups' = Renews!CancelLookups /\ renewPc' = renewPc
  BY <1>1 DEF now, made, renewal
<1>7. QuoteOK
  <2>1. CASE renewed' = renewed
    BY <2>1 DEF QuoteOK
  <2>2. CASE Renews!Quote(now, FALSE)
    <3>1. renewed' \in QuoteOf /\ renewed'.policy = Missing /\ (now.chosen # Missing => renewed'.type = now.chosen)
          /\ (now.amount # 0 => renewed'.amount = now.amount)
      BY <1>4, <2>2, QuoteSays DEF QuoteOf
    <3> QED  BY <1>4, <1>5, <3>1 DEF QuoteOK, QuoteMeans, Renews!PolicyFits, Renews!AskedIsQuoted
  <2>3. CASE Renews!Reusable(now) /\ Renews!QuoteRenewal(now, FALSE) /\ renewed' # renewed
    <3>1. now.policy # Missing /\ Fitting(now.policy, now.car)
      BY <2>3, ReusableFits DEF Renews!Reusable
    <3>2. /\ renewed' \in QuoteOf
          /\ renewed'.car = now.car /\ renewed'.policy = now.policy
          /\ now.chosen # Missing => renewed'.type = now.chosen
          /\ now.amount # 0 => renewed'.amount = now.amount
      BY <1>4, <2>3, <3>1, RenewalSays DEF QuoteOf
    <3>3. Renews!PolicyFits'
      BY <3>1, <3>2 DEF Renews!PolicyFits, Fitting
    <3>4. Renews!AskedIsQuoted'
      BY <1>4, <1>5, <3>2 DEF Renews!AskedIsQuoted
    <3> QED  BY <3>2, <3>3, <3>4 DEF QuoteOK, QuoteMeans
  <2> QED  BY <1>6, <2>1, <2>2, <2>3
<1>8. /\ lookups' \in [Callers -> [case : Renews!CaseType \cup {Missing}, auto : BOOLEAN, cancelled : BOOLEAN]]
      /\ renewPc' \in [Callers -> {"idle", "lookup"}]
      /\ \A s \in Callers : renewPc'[s] = "lookup" =>
           \/ lookups'[s].case = now
           \/ renewPc[s] = "lookup" /\ lookups'[s].case = lookups[s].case /\ lookups'[s].cancelled
  <2>1. probe \in BOOLEAN /\ renewPc \in [Callers -> {"idle", "lookup"}]
    BY DEF Renews!Probes, RenewInv, Renews!TypeOK
  <2> DEFINE own == [case |-> now, auto |-> probe, cancelled |-> FALSE]
  <2>2. own \in [case : Renews!CaseType \cup {Missing}, auto : BOOLEAN, cancelled : BOOLEAN] /\ own.case = now
    BY <1>4, <2>1
  <2> HIDE DEF lookup, probe, own
  <2>3. CASE /\ renewPc' = [renewPc EXCEPT ![r] = "lookup"]
             /\ lookups' = [Renews!CancelLookups EXCEPT ![r] = own]
    BY <2>1, <2>2, <2>3, LookupsCancelled
  <2>4. CASE lookups' = Renews!CancelLookups /\ renewPc' = renewPc
    BY <2>1, <2>4, LookupsCancelled
  <2> QED  BY <1>6, <2>3, <2>4 DEF own
<1>9. ASSUME NEW s \in Callers  PROVE LookupKnows(s)'
  <2>1. CASE renewPc'[s] = "lookup" /\ lookups'[s].case = now
    BY <1>4, <1>5, <2>1 DEF LookupKnows
  <2>2. CASE renewPc[s] = "lookup" /\ lookups'[s].case = lookups[s].case /\ lookups'[s].cancelled
    BY <2>2 DEF RenewInv, LookupKnows, ChoiceDecides
  <2> QED  BY <1>8, <2>1, <2>2 DEF LookupKnows
<1>10. Renews!TypeOK'
  <2>1. renewed' = Renews!NoQuote \/ renewed' \in QuoteOf
    BY <1>7 DEF QuoteOK, RenewInv, Renews!TypeOK, QuoteOf
  <2>2. requests' \in 0 .. MaxMessages /\ mixed' \in BOOLEAN
    BY <1>5 DEF RenewInv, Renews!TypeOK, Policed
  <2>3. asked' \in [chosen : Types \cup {Missing}, amount : Sums \cup {0}]
    BY <1>5 DEF RenewInv, Renews!TypeOK, Renews!CaseType
  <2> QED  BY <1>4, <1>5, <1>8, <2>1, <2>2, <2>3 DEF Renews!TypeOK, QuoteOf
<1>11. ChoiceDecides(renewing)' /\ (~mixed => asked.chosen = renewing.chosen /\ asked.amount = renewing.amount)'
  BY <1>4, <1>5 DEF ChoiceDecides
<1> QED  BY <1>7, <1>9, <1>10, <1>11 DEF RenewInv

\* Pictures change the car, and cancel what is looked up for another.
LEMMA UploadStep ==
  ASSUME Policed, RenewInv, Renews!Upload
  PROVE  RenewInv' /\ QuoteOK
<1>1. PICK car \in Cars : renewing' = Renews!Normalized([renewing EXCEPT !.car = car])
  BY DEF Renews!Upload
<1> DEFINE made == [renewing EXCEPT !.car = car]
<1>2. made \in Renews!CaseType /\ made.chosen = renewing.chosen /\ made.amount = renewing.amount
  BY DEF RenewInv, Renews!TypeOK, Renews!CaseType
<1> HIDE DEF made
<1>3. renewing' \in Renews!CaseType /\ ChoiceDecides(renewing') /\ renewing'.chosen = renewing.chosen /\ renewing'.amount = renewing.amount
  BY <1>1, <1>2, CaseNormalized DEF made
<1>4. /\ requests < MaxMessages /\ requests' = requests + 1
      /\ lookups' = Renews!CancelLookups
      /\ UNCHANGED <<renewPc, renewed, asked, mixed>>
  BY DEF Renews!Upload
<1>5. Renews!TypeOK'
  <2>1. requests' \in 0 .. MaxMessages
    BY <1>4 DEF RenewInv, Renews!TypeOK, Policed
  <2> QED  BY <1>3, <1>4, <2>1, LookupsCancelled DEF RenewInv, Renews!TypeOK
<1>6. ASSUME NEW s \in Callers  PROVE LookupKnows(s)'
  <2>1. renewPc'[s] = "lookup" => renewPc[s] = "lookup" /\ lookups'[s].case = lookups[s].case /\ lookups'[s].cancelled
    BY <1>4, LookupsCancelled
  <2> QED  BY <2>1 DEF RenewInv, LookupKnows, ChoiceDecides
<1>7. ChoiceDecides(renewing)' /\ (~mixed => asked.chosen = renewing.chosen /\ asked.amount = renewing.amount)'
  BY <1>3, <1>4 DEF RenewInv, ChoiceDecides
<1> QED  BY <1>4, <1>5, <1>6, <1>7 DEF RenewInv, QuoteOK

\* What a lookup leaves behind when it returns.
LEMMA LookupReturns ==
  ASSUME Policed, RenewInv, NEW r \in Callers, Renews!Return(r)
  PROVE  /\ renewPc[r] = "lookup" /\ lookups[r].case \in Renews!CaseType /\ ChoiceDecides(lookups[r].case)
         /\ lookups[r].auto \in BOOLEAN /\ lookups[r].cancelled \in BOOLEAN
         /\ renewPc' \in [Callers -> {"idle", "lookup"}]
         /\ lookups' \in [Callers -> [case : Renews!CaseType \cup {Missing}, auto : BOOLEAN, cancelled : BOOLEAN]]
         /\ \A s \in Callers : renewPc'[s] = "lookup" => renewPc[s] = "lookup" /\ lookups'[s] = lookups[s]
         /\ UNCHANGED <<requests, asked>>
<1>1. /\ renewPc[r] = "lookup" /\ renewPc' = [renewPc EXCEPT ![r] = "idle"]
      /\ lookups' = [lookups EXCEPT ![r] = Renews!NoLookup] /\ UNCHANGED <<requests, asked>>
  BY DEF Renews!Return
<1>2. Renews!NoLookup \in [case : Renews!CaseType \cup {Missing}, auto : BOOLEAN, cancelled : BOOLEAN]
  BY DEF Renews!NoLookup
<1>3. lookups \in [Callers -> [case : Renews!CaseType \cup {Missing}, auto : BOOLEAN, cancelled : BOOLEAN]]
  BY DEF RenewInv, Renews!TypeOK
<1>4. lookups[r].case \in Renews!CaseType /\ ChoiceDecides(lookups[r].case)
  BY <1>1 DEF RenewInv, LookupKnows
<1> QED  BY <1>1, <1>2, <1>3, <1>4 DEF RenewInv, Renews!TypeOK

\* Who sees that his lookup was cancelled changes nothing.
LEMMA SeenStep ==
  ASSUME Policed, RenewInv, NEW r \in Callers, Renews!SeesCancelled(r)
  PROVE  RenewInv' /\ QuoteOK
<1>1. Renews!Return(r) /\ UNCHANGED <<renewing, renewed, mixed>>
  BY DEF Renews!SeesCancelled
<1>2. Renews!TypeOK'
  BY <1>1, LookupReturns DEF RenewInv, Renews!TypeOK
<1>3. ASSUME NEW s \in Callers  PROVE LookupKnows(s)'
  BY <1>1, LookupReturns DEF RenewInv, LookupKnows, ChoiceDecides
<1>4. ChoiceDecides(renewing)' /\ (~mixed => asked.chosen = renewing.chosen /\ asked.amount = renewing.amount)'
  BY <1>1, LookupReturns DEF RenewInv, ChoiceDecides
<1> QED  BY <1>1, <1>2, <1>3, <1>4 DEF RenewInv, QuoteOK

\* A lookup that found nothing quotes the case as it knows it.
LEMMA NotFoundStep ==
  ASSUME Policed, RenewInv, NEW r \in Callers, Renews!NotFound(r)
  PROVE  RenewInv' /\ QuoteOK
<1> DEFINE c == lookups[r].case
<1>1. /\ Renews!Return(r) /\ mixed' = (mixed \/ lookups[r].cancelled) /\ renewing' = renewing
      /\ renewed' = renewed \/ Renews!Quote(c, lookups[r].cancelled)
  BY DEF Renews!NotFound, Renews!GoesOn
<1>2. /\ renewPc[r] = "lookup" /\ c \in Renews!CaseType /\ ChoiceDecides(c) /\ lookups[r].cancelled \in BOOLEAN
      /\ asked' = asked
  BY <1>1, LookupReturns
<1>3. ~mixed' => c.chosen = asked'.chosen /\ c.amount = asked'.amount
  BY <1>1, <1>2 DEF RenewInv, LookupKnows
<1>4. QuoteOK
  <2>1. CASE Renews!Quote(c, lookups[r].cancelled)
    <3>1. renewed' \in QuoteOf /\ renewed'.policy = Missing /\ (c.chosen # Missing => renewed'.type = c.chosen)
          /\ (c.amount # 0 => renewed'.amount = c.amount)
      BY <1>2, <2>1, QuoteSays DEF QuoteOf
    <3> QED  BY <1>3, <3>1 DEF QuoteOK, QuoteMeans, Renews!PolicyFits, Renews!AskedIsQuoted
  <2> QED  BY <1>1, <2>1 DEF QuoteOK
<1>5. Renews!TypeOK'
  <2>1. renewed' = Renews!NoQuote \/ renewed' \in QuoteOf
    BY <1>4 DEF QuoteOK, RenewInv, Renews!TypeOK, QuoteOf
  <2>2. mixed' \in BOOLEAN
    BY <1>1, <1>2 DEF RenewInv, Renews!TypeOK
  <2> QED  BY <1>1, <2>1, <2>2, LookupReturns DEF RenewInv, Renews!TypeOK, QuoteOf
<1>6. ASSUME NEW s \in Callers  PROVE LookupKnows(s)'
  BY <1>1, LookupReturns DEF RenewInv, LookupKnows, ChoiceDecides
<1>7. ChoiceDecides(renewing)' /\ (~mixed => asked.chosen = renewing.chosen /\ asked.amount = renewing.amount)'
  BY <1>1, <1>2 DEF RenewInv, ChoiceDecides
<1> QED  BY <1>4, <1>5, <1>6, <1>7 DEF RenewInv

\* A lookup that found a policy puts the case back as it knows it, with the policy.
LEMMA FoundStep ==
  ASSUME Policed, RenewInv, NEW r \in Callers, Renews!FoundPolicy(r)
  PROVE  RenewInv' /\ QuoteOK
<1> DEFINE c == lookups[r].case
<1>1. PICK p \in UNION {Renews!Selected(found, c) : found \in Renews!Answers(c)} :
        LET now == Renews!Normalized([c EXCEPT !.car = renewing.car, !.policy = p, !.renewal = TRUE,
                                        !.decision = [type |-> p.type, source |-> "renewal"]]) IN
        renewing' = now /\ Renews!QuoteRenewal(now, lookups[r].cancelled)
  BY DEF Renews!FoundPolicy
<1>2. PICK found \in Renews!Answers(c) : p \in Renews!Selected(found, c)
  BY <1>1
<1>3. Renews!Return(r) /\ mixed' = (mixed \/ lookups[r].cancelled)
  BY DEF Renews!FoundPolicy, Renews!GoesOn
<1>4. /\ renewPc[r] = "lookup" /\ c \in Renews!CaseType /\ lookups[r].cancelled \in BOOLEAN /\ asked' = asked
  BY <1>3, LookupReturns
<1>5. p \in Policies /\ Fitting(p, c.car)
  <2>1. p \in Policies /\ Renews!Score(p, c) >= 0
    BY <1>1, <1>2 DEF Renews!Selected, Renews!Answers
  <2> QED  BY <2>1, ScoreFits
<1> DEFINE made == [c EXCEPT !.car = renewing.car, !.policy = p, !.renewal = TRUE,
                             !.decision = [type |-> p.type, source |-> "renewal"]]
           now == Renews!Normalized(made)
<1>6. /\ made \in Renews!CaseType /\ made.car = renewing.car /\ made.policy = p
      /\ made.chosen = c.chosen /\ made.amount = c.amount
  BY <1>4, <1>5 DEF RenewInv, Renews!TypeOK, Renews!CaseType, Policed
<1>7. renewing' = now /\ Renews!QuoteRenewal(now, lookups[r].cancelled)
  BY <1>1
<1> HIDE DEF made
<1>8. /\ now \in Renews!CaseType /\ ChoiceDecides(now) /\ now.car = renewing.car /\ now.policy = p
      /\ now.chosen = c.chosen /\ now.amount = c.amount
  BY <1>6, CaseNormalized
<1> HIDE DEF now
<1>9. ~mixed' => c.chosen = asked'.chosen /\ c.amount = asked'.amount /\ c.chosen = renewing.chosen /\ c.amount = renewing.amount
  BY <1>3, <1>4 DEF RenewInv, LookupKnows
<1>10. ~lookups[r].cancelled => c.car = renewing.car
  BY <1>4 DEF RenewInv, LookupKnows
<1>11. QuoteOK
  <2>1. CASE renewed' = renewed
    BY <2>1 DEF QuoteOK
  <2>2. CASE renewed' # renewed
    <3>1. p # Missing
      BY <1>5 DEF Policed
    <3>2. /\ renewed' \in QuoteOf
          /\ renewed'.car = now.car /\ renewed'.policy = p /\ renewed'.beside = lookups[r].cancelled
          /\ now.chosen # Missing => renewed'.type = now.chosen
          /\ now.amount # 0 => renewed'.amount = now.amount
      BY <1>4, <1>7, <1>8, <2>2, <3>1, RenewalSays DEF QuoteOf
    <3>3. Renews!PolicyFits'
      BY <1>5, <1>8, <1>10, <3>2 DEF Renews!PolicyFits, Fitting
    <3>4. Renews!AskedIsQuoted'
      BY <1>8, <1>9, <3>2 DEF Renews!AskedIsQuoted
    <3> QED  BY <3>2, <3>3, <3>4 DEF QuoteOK, QuoteMeans
  <2> QED  BY <2>1, <2>2
<1>12. Renews!TypeOK'
  <2>1. renewed' = Renews!NoQuote \/ renewed' \in QuoteOf
    BY <1>11 DEF QuoteOK, RenewInv, Renews!TypeOK, QuoteOf
  <2>2. mixed' \in BOOLEAN
    BY <1>3, <1>4 DEF RenewInv, Renews!TypeOK
  <2> QED  BY <1>3, <1>7, <1>8, <2>1, <2>2, LookupReturns DEF RenewInv, Renews!TypeOK, QuoteOf
<1>13. ASSUME NEW s \in Callers  PROVE LookupKnows(s)'
  <2>1. renewPc'[s] = "lookup" => renewPc[s] = "lookup" /\ lookups'[s] = lookups[s]
    BY <1>3, LookupReturns
  <2>2. renewing'.car = renewing.car /\ (~mixed' => ~mixed /\ renewing'.chosen = renewing.chosen /\ renewing'.amount = renewing.amount)
    BY <1>3, <1>7, <1>8, <1>9
  <2> QED  BY <2>1, <2>2 DEF RenewInv, LookupKnows, ChoiceDecides
<1>14. ChoiceDecides(renewing)' /\ (~mixed => asked.chosen = renewing.chosen /\ asked.amount = renewing.amount)'
  BY <1>7, <1>8, <1>9 DEF ChoiceDecides
<1> QED  BY <1>11, <1>12, <1>13, <1>14 DEF RenewInv

(* Every quote is for the car's own policy and for what the user asked, for any cars and    *)
(* policies and however many lookups, uploads and choices overlap.                          *)
THEOREM RenewalsAreAsAsked ==
  ASSUME Policed
  PROVE  Renews!Spec => []Renews!TypeOK /\ Renews!RenewedAsAsked
<1>1. Renews!Init => RenewInv
  <2> SUFFICES ASSUME Renews!Init  PROVE RenewInv
    OBVIOUS
  <2>1. PICK car \in Cars : renewing = Renews!Normalized([car |-> car, policy |-> Missing, chosen |-> Missing,
          amount |-> 0, renewal |-> FALSE, decision |-> [type |-> car.type, source |-> "material"]])
    BY DEF Renews!Init
  <2> DEFINE made == [car |-> car, policy |-> Missing, chosen |-> Missing, amount |-> 0, renewal |-> FALSE,
                      decision |-> [type |-> car.type, source |-> "material"]]
  <2>2. made \in Renews!CaseType /\ made.chosen = Missing /\ made.amount = 0
    BY DEF Renews!CaseType, Policed
  <2> HIDE DEF made
  <2>3. renewing \in Renews!CaseType /\ ChoiceDecides(renewing) /\ renewing.chosen = Missing /\ renewing.amount = 0
    BY <2>1, <2>2, CaseNormalized DEF made
  <2>4. Renews!TypeOK
    <3>1. Renews!NoLookup \in [case : Renews!CaseType \cup {Missing}, auto : BOOLEAN, cancelled : BOOLEAN]
      BY DEF Renews!NoLookup
    <3>2. asked \in [chosen : Types \cup {Missing}, amount : Sums \cup {0}] /\ requests \in 0 .. MaxMessages
      BY DEF Renews!Init, Policed
    <3> QED  BY <2>3, <3>1, <3>2 DEF Renews!Init, Renews!TypeOK
  <2> QED  BY <2>3, <2>4 DEF Renews!Init, RenewInv, LookupKnows
<1>2. RenewInv /\ [Renews!Next]_(Renews!vars) => RenewInv' /\ QuoteOK
  <2>1. ASSUME RenewInv, UNCHANGED Renews!vars  PROVE RenewInv' /\ QuoteOK
    BY <2>1 DEF Renews!vars, RenewInv, Renews!TypeOK, ChoiceDecides, LookupKnows, QuoteOK
  <2>2. ASSUME RenewInv, Renews!Next  PROVE RenewInv' /\ QuoteOK
    BY <2>2, UploadStep, MessageStep, SeenStep, NotFoundStep, FoundStep DEF Renews!Next
  <2> QED  BY <2>1, <2>2
<1>3. RenewInv => Renews!TypeOK
  BY DEF RenewInv
<1>4. QuoteOK => (renewed' # renewed => Renews!PolicyFits' /\ Renews!AskedIsQuoted')
  BY DEF QuoteOK, QuoteMeans
<1> QED  BY <1>1, <1>2, <1>3, <1>4, PTL DEF Renews!Spec, Renews!RenewedAsAsked

-----------------------------------------------------------------------------
(* The vehicle a quote is for (VehicleChoice), before its task has a result.                *)
CONSTANTS Catalogue, Papers, EarlierQuotes, Settings, Unknown, MaxTries

VARIABLES car, seed, config, vehiclePc, vehicleWhy, left, by, found, wanted,
          selected, precise, form, corrected, tries

Choice == INSTANCE VehicleChoice WITH
  Cars <- Papers, Seeds <- EarlierQuotes, Configs <- Settings, None <- Unknown,
  pc <- vehiclePc, why <- vehicleWhy

\* A term a search may use, true of a car: a code or a name is that of its family.
TermOf(t, c) == t # Unknown /\ t.kind \in Choice!Searched /\ (t.kind \in Choice!Names => t.of = c.of)

\* The papers name the car's own family, a frame number belongs to one family, rows differ in
\* their code, and the kinds of licence are the two there are.
Registered ==
  /\ \A c \in Papers :
       /\ TermOf(c.model, c) /\ (c.hint # Unknown => TermOf(c.hint, c))
       /\ c.electric \in BOOLEAN /\ c.brand \in BOOLEAN
       /\ c.marks["vin"] # Unknown => \A r \in Catalogue : r.vin # "other" => r.of = c.of
  /\ \A s \in EarlierQuotes :
       /\ s.term # Unknown => s.term.kind \in Choice!Searched
       /\ "vin" \in DOMAIN s.marks
       /\ \A c \in Papers :
            c.marks["vin"] # Unknown /\ s.marks["vin"] = c.marks["vin"] /\ s.term # Unknown => TermOf(s.term, c)
  /\ \A r, q \in Catalogue : r.id = q.id => r = q
  /\ \A r \in Catalogue : r.id # Unknown
  /\ \A s \in Settings : {s.decided, s.default} \subseteq {Unknown, "02", "52"}
  /\ MaxTries \in Nat

\* A row that may become the vehicle of the quote.
Sound(r) == r \in Catalogue /\ (r.of = car.of \/ Choice!Blind)
Picked(r) == Sound(r) /\ Choice!Compatible(r)

Forms == [model : Choice!Ids, code : Choice!Ids, price : Choice!Ids, electric : BOOLEAN, licence : {"02", "52"}]

\* The form is of picked rows, undecided licences are of its energy, a corrected one names one.
FormSound ==
  /\ form \in Forms
  /\ \A r \in Catalogue : r.id \in {form.model, form.code, form.price} => Picked(r)
  /\ config.decided = Unknown /\ config.default = Unknown => (form.licence = "52" <=> form.electric)
  /\ corrected # "no" => form.model = form.code

FoundSound == \A r \in found : Sound(r)
ChosenSound == (selected # Choice!Blank => Picked(selected)) /\ (precise # Choice!Blank => Picked(precise))

\* There is a form once a row was confirmed.
Filled == precise # Choice!Blank \/ wanted # {} \/ vehiclePc \in {"send", "sent"}

VehicleInv ==
  /\ Choice!TypeOK
  /\ FoundSound
  /\ ChosenSound
  /\ vehiclePc = "confirm" => selected # Choice!Blank
  /\ Filled => FormSound

\* No row is blank.
LEMMA RowsNotBlank ==
  ASSUME Registered, NEW r \in Catalogue  PROVE r # Choice!Blank
  BY DEF Registered, Choice!Blank

\* The term of an earlier quote is the car's if the frame numbers say so.
LEMMA SeedOfCar ==
  ASSUME Registered, VehicleInv, Choice!SeedTerm # Unknown
  PROVE  /\ seed # Unknown /\ Choice!SeedTerm = seed.term /\ seed.term.kind \in Choice!Searched
         /\ Choice!HasVin /\ seed.marks["vin"] # Unknown => TermOf(Choice!SeedTerm, car)
<1>1. seed # Unknown /\ Choice!SameCar(seed) /\ Choice!SeedTerm = seed.term
  BY DEF Choice!SeedTerm
<1>2. seed \in EarlierQuotes /\ car \in Papers
  BY <1>1 DEF VehicleInv, FoundSound, ChosenSound, Choice!TypeOK
<1>3. Choice!HasVin /\ seed.marks["vin"] # Unknown => seed.marks["vin"] = car.marks["vin"]
  BY <1>1, <1>2 DEF Choice!SameCar, Choice!HasVin, Registered
<1> QED  BY <1>1, <1>2, <1>3 DEF Registered, Choice!HasVin

\* What is searched for is true of the car, or an earlier quote's that cannot be compared.
SoundTerm(t) ==
  /\ t.kind \in Choice!Searched
  /\ t.kind \in Choice!Names =>
       t.of = car.of \/ (t = Choice!SeedTerm /\ (~Choice!HasVin \/ seed.marks["vin"] = Unknown))

LEMMA TermsSound ==
  ASSUME Registered, VehicleInv, NEW i \in DOMAIN Choice!Terms
  PROVE  SoundTerm(Choice!Terms[i])
<1> DEFINE T == {t \in {Choice!Hint, Choice!Model, Choice!SeedTerm, Choice!Term("energy", Unknown),
                        Choice!Term("vin", Unknown), Choice!Term("brand", Unknown)} : SoundTerm(t)}
<1>1. car \in Papers /\ TermOf(car.model, car) /\ (car.hint # Unknown => TermOf(car.hint, car))
  BY DEF VehicleInv, FoundSound, ChosenSound, Choice!TypeOK, Registered
<1>2. Choice!SeedTerm # Unknown => SoundTerm(Choice!SeedTerm)
  BY SeedOfCar DEF SoundTerm, TermOf
<1>3. Choice!Hint # Unknown => SoundTerm(Choice!Hint)
  BY <1>1, <1>2 DEF Choice!Hint, Choice!Usable, SoundTerm, TermOf
<1>4. SoundTerm(Choice!Model)
  BY <1>1, <1>2 DEF Choice!Model, Choice!Usable, SoundTerm, TermOf
<1>5. \A k \in {"energy", "vin", "brand"} : Choice!Term(k, Unknown).kind = k
  BY DEF Choice!Term
<1>6. Choice!Term("energy", Unknown) \in T /\ Choice!Term("vin", Unknown) \in T /\ Choice!Term("brand", Unknown) \in T
  BY <1>5 DEF SoundTerm, Choice!Searched, Choice!Names
<1>7. \A t \in T : <<t>> \in Seq(T)
  OBVIOUS
<1>8. <<>> \in Seq(T) /\ \A s, t \in Seq(T) : s \o t \in Seq(T)
  OBVIOUS
<1>9. Choice!OneOf(Choice!Hint) \in Seq(T)
  BY <1>3, <1>7, <1>8 DEF Choice!OneOf
<1>10. <<Choice!Model>> \in Seq(T)
  BY <1>4, <1>7
<1>11. Choice!Rebuilt \in Seq(T)
  BY <1>6, <1>7, <1>8, <1>9, <1>10 DEF Choice!Rebuilt
<1>12. Choice!SeedTerm # Unknown => <<Choice!SeedTerm>> \in Seq(T)
  BY <1>2, <1>7
<1>13. Choice!Terms \in Seq(T)
  BY <1>6, <1>7, <1>8, <1>11, <1>12 DEF Choice!Terms
<1>14. Choice!Terms[i] \in T
  BY <1>13
<1> QED  BY <1>14

\* The rows of an answer that may be used are the car's, unless its term is blind.
LEMMA UsablesSound ==
  ASSUME Registered, VehicleInv, NEW t, SoundTerm(t), NEW rows \in {{}, Choice!Fits(t)},
         by' = by \cup {t}, UNCHANGED <<car, seed>>
  PROVE  \A r \in Choice!Usables(t, rows) : r \in Catalogue /\ (r.of = car.of \/ Choice!Blind')
<1> SUFFICES ASSUME NEW r \in Choice!Usables(t, rows)  PROVE r \in Catalogue /\ (r.of = car.of \/ Choice!Blind')
  OBVIOUS
<1>1. car \in Papers
  BY DEF VehicleInv, FoundSound, ChosenSound, Choice!TypeOK
<1>2. r \in rows /\ r \in Choice!Fits(t)
  BY DEF Choice!Usables
<1>3. r \in Catalogue
  BY <1>2 DEF Choice!Fits
<1>4. CASE Choice!HasVin /\ r.vin # "other"
  BY <1>1, <1>3, <1>4 DEF Registered, Choice!HasVin
<1>5. CASE ~(Choice!HasVin /\ r.vin # "other")
  <2>1. ~Choice!NeedsVin(t)
    BY <1>5 DEF Choice!Usables
  <2>2. CASE t.kind \in Choice!Names
    <3>1. r.of = t.of
      BY <1>2, <2>2 DEF Choice!Fits, Choice!Names
    <3>2. CASE t = Choice!SeedTerm /\ (~Choice!HasVin \/ seed.marks["vin"] = Unknown)
      <4>1. Choice!SeedTerm' = Choice!SeedTerm /\ Choice!HasVin' = Choice!HasVin
        BY DEF Choice!SeedTerm, Choice!HasVin, Choice!SameCar, Choice!Vague, Choice!Usable
      <4> QED  BY <1>3, <3>2, <4>1 DEF Choice!Blind
    <3> QED  BY <1>3, <2>2, <3>1, <3>2 DEF SoundTerm
  <2>3. CASE t.kind \in {"body", "energy", "brand"}
    BY <1>3, <2>1, <2>3 DEF Choice!Blind, Choice!NeedsVin
  <2>4. t.kind # "vin"
    BY <2>1 DEF Choice!NeedsVin
  <2> QED  BY <2>2, <2>3, <2>4 DEF SoundTerm, Choice!Searched, Choice!Names
<1> QED  BY <1>4, <1>5

\* What is picked is one of the rows and compatible with the car.
LEMMA PicksCompatible ==
  ASSUME NEW rows, NEW r \in Choice!Picks(rows)
  PROVE  r \in rows /\ Choice!Compatible(r)
<1> DEFINE fit == {q \in rows : Choice!Compatible(q)}
           best == {q \in fit : \A p \in fit : Choice!Score(p) <= Choice!Score(q)}
           worth == {q \in best : 13 * q.price >= 10 * car.sum}
           cheapest(s) == {q \in s : \A p \in s : q.price <= p.price}
           dearest(s) == {q \in s : \A p \in s : q.price >= p.price}
<1>1. Choice!Picks(rows) = CASE fit = {} \/ Choice!Ambiguous(fit) -> {}
                             [] worth = {} -> dearest(best)
                             [] OTHER -> cheapest(worth)
  BY DEF Choice!Picks
<1>2. r \in dearest(best) \/ r \in cheapest(worth)
  BY <1>1
<1> QED  BY <1>2

\* What is sound stays sound while the same car is searched for.
LEMMA SoundStays ==
  ASSUME UNCHANGED <<car, seed>>, by \subseteq by'
  PROVE  /\ \A r : Sound(r) => Sound(r)'
         /\ \A r : Picked(r) => Picked(r)'
<1>1. Choice!SeedTerm' = Choice!SeedTerm /\ (Choice!HasVin <=> Choice!HasVin')
  BY DEF Choice!SeedTerm, Choice!HasVin, Choice!SameCar, Choice!Vague, Choice!Usable
<1>2. Choice!Blind => Choice!Blind'
  BY <1>1 DEF Choice!Blind
<1> QED  BY <1>2 DEF Sound, Picked, Choice!Compatible

\* The terms are of the car and the earlier quote alone.
LEMMA TermsStay ==
  ASSUME UNCHANGED <<car, seed, config>>  PROVE Choice!Terms' = Choice!Terms
  BY DEF Choice!Terms, Choice!Rebuilt, Choice!Hint, Choice!Model, Choice!SeedTerm, Choice!SameCar, Choice!Vague,
         Choice!Usable, Choice!HasVin, Choice!SaidElectric

\* A form filled from picked rows is sound.
LEMMA FilledSound ==
  ASSUME Registered, VehicleInv, NEW sel, NEW pre, Picked(sel), pre # Choice!Blank => Picked(pre),
         NEW code \in {Unknown, sel.id}
  PROVE  LET f == Choice!Filled(sel, pre, code) IN
         /\ f \in Forms
         /\ \A r \in Catalogue : r.id \in {f.model, f.code, f.price} => Picked(r)
         /\ config.decided = Unknown /\ config.default = Unknown => (f.licence = "52" <=> f.electric)
         /\ code # Unknown => f.model = f.code
<1> DEFINE f == Choice!Filled(sel, pre, code)
           e == Choice!Electric(sel, pre)
           own == IF e \/ config.fuel = "electric" THEN "52" ELSE "02"
           l == Choice!Licence(e, Choice!Early)
<1>1. f = [model |-> sel.id, code |-> IF code = Unknown THEN Choice!First(pre.id, sel.id) ELSE code,
           price |-> sel.id, electric |-> e, licence |-> l]
  BY DEF Choice!Filled
<1>2. car \in Papers /\ config \in Settings
  BY DEF VehicleInv, FoundSound, ChosenSound, Choice!TypeOK
<1>3. e \in BOOLEAN /\ (config.fuel = "electric" => e)
  BY <1>2 DEF Choice!Electric, Choice!SaidElectric, Registered
<1>4. /\ l \in {"02", "52"}
      /\ config.decided = Unknown /\ config.default = Unknown => l = own
  BY <1>2 DEF Choice!Licence, Registered
<1>5. own = "52" <=> e
  BY <1>3
<1> HIDE DEF e, own, l
<1>6. sel \in Catalogue /\ sel.id \in Choice!Ids
  BY DEF Picked, Sound, Choice!Ids
<1>7. Choice!First(pre.id, sel.id) = sel.id \/ (Picked(pre) /\ Choice!First(pre.id, sel.id) = pre.id)
  <2>1. CASE pre = Choice!Blank
    BY <2>1 DEF Choice!First, Choice!Blank
  <2>2. CASE pre # Choice!Blank
    BY <2>2 DEF Choice!First
  <2> QED  BY <2>1, <2>2
<1>8. \E p \in {sel, pre} : Picked(p) /\ f.code = p.id
  BY <1>1, <1>7
<1>9. f.code \in Choice!Ids
  BY <1>8 DEF Picked, Sound, Choice!Ids
<1>10. ASSUME NEW r \in Catalogue, r.id \in {f.model, f.code, f.price}  PROVE Picked(r)
  <2>1. PICK p \in {sel, pre} : Picked(p) /\ r.id = p.id
    BY <1>1, <1>8, <1>10
  <2>2. p \in Catalogue
    BY <2>1 DEF Picked, Sound
  <2>3. r = p
    BY <2>1, <2>2 DEF Registered
  <2> QED  BY <2>1, <2>3
<1>11. f \in Forms
  BY <1>1, <1>3, <1>4, <1>6, <1>9 DEF Forms
<1>12. config.decided = Unknown /\ config.default = Unknown => (f.licence = "52" <=> f.electric)
  BY <1>1, <1>4, <1>5
<1>13. code # Unknown => f.model = f.code
  BY <1>1
<1> QED  BY <1>10, <1>11, <1>12, <1>13

\* A form that takes the confirmed vehicle over stays sound, and names it.
LEMMA AcceptedSound ==
  ASSUME Registered, VehicleInv, precise # Choice!Blank,
         UNCHANGED <<car, seed, config, by>>, form' = Choice!Accepted, corrected' = "accepted"
  PROVE  FormSound'
<1>1. FormSound /\ Picked(precise)
  BY DEF VehicleInv, FoundSound, ChosenSound, Filled
<1>2. CASE corrected = "rebuilt"
  <2>1. form' = form
    BY <1>2 DEF Choice!Accepted
  <2> QED  BY <1>1, <1>2, <2>1, SoundStays DEF FormSound
<1>3. CASE corrected # "rebuilt"
  <2>1. form' = [form EXCEPT !.model = precise.id, !.code = precise.id]
    BY <1>3 DEF Choice!Accepted
  <2>2. precise \in Catalogue /\ precise.id \in Choice!Ids
    BY <1>1 DEF Picked, Sound, Choice!Ids
  <2>3. /\ form' \in Forms
        /\ form'.model = precise.id /\ form'.code = precise.id /\ form'.price = form.price
        /\ form'.licence = form.licence /\ form'.electric = form.electric
    BY <1>1, <2>1, <2>2 DEF FormSound, Forms
  <2>4. ASSUME NEW r \in Catalogue, r.id \in {form'.model, form'.code, form'.price}  PROVE Picked(r)
    <3>1. CASE r.id = precise.id
      BY <1>1, <2>2, <3>1 DEF Registered
    <3>2. CASE r.id = form.price
      BY <1>1, <3>2 DEF FormSound
    <3> QED  BY <2>3, <2>4, <3>1, <3>2
  <2> QED  BY <1>1, <2>3, <2>4, SoundStays DEF FormSound
<1> QED  BY <1>2, <1>3

\* A correction that finds nothing.
LEMMA NoRebuildSound ==
  ASSUME Registered, VehicleInv, Filled, Choice!NoRebuild, UNCHANGED <<car, seed, config, by>>
  PROVE  /\ UNCHANGED <<selected, precise>> /\ FormSound'
         /\ vehiclePc' \in {"send", "failed"} /\ vehicleWhy' \in {"none", "vehicle", "platform", "mismatch", "form"}
         /\ corrected' \in {"no", "rebuilt", "accepted"}
<1>1. UNCHANGED <<selected, precise>> /\ FormSound
  BY DEF Choice!NoRebuild, VehicleInv, FoundSound, ChosenSound
<1>2. CASE precise # Choice!Blank /\ form' = Choice!Accepted /\ corrected' = "accepted"
           /\ vehiclePc' = "send" /\ vehicleWhy' = vehicleWhy
  <2>1. FormSound'
    BY <1>2, AcceptedSound
  <2> QED  BY <1>1, <1>2, <2>1 DEF VehicleInv, FoundSound, ChosenSound, Choice!TypeOK
<1>3. CASE vehiclePc' = "failed" /\ vehicleWhy' = "mismatch" /\ UNCHANGED <<form, corrected>>
  <2>1. FormSound'
    BY <1>1, <1>3, SoundStays DEF FormSound
  <2> QED  BY <1>1, <1>3, <2>1 DEF VehicleInv, FoundSound, ChosenSound, Choice!TypeOK
<1> QED  BY <1>2, <1>3 DEF Choice!NoRebuild, Choice!Fail

\* A search leaves the vehicle alone.
LEMMA AskStep ==
  ASSUME Registered, VehicleInv, Choice!Ask  PROVE VehicleInv'
<1>1. PICK i \in left :
        /\ vehiclePc = "search"
        /\ \/ /\ vehicleWhy' = vehicleWhy
              /\ \E rows \in {{}, Choice!Fits(Choice!Terms[i])} :
                   \/ left' = {j \in left : Choice!Terms[j] # Choice!Terms[i]} /\ UNCHANGED <<vehiclePc, by, found>>
                   \/ /\ found' = Choice!Usables(Choice!Terms[i], rows) /\ by' = by \cup {Choice!Terms[i]}
                      /\ vehiclePc' = "pick" /\ left' = {}
           \/ vehiclePc' = "failed" /\ vehicleWhy' = "platform" /\ UNCHANGED <<left, by, found>>
  BY DEF Choice!Ask, Choice!Fail
<1>2. UNCHANGED <<car, seed, config, wanted, selected, precise, form, corrected, tries>>
  BY DEF Choice!Ask
<1>3. i \in DOMAIN Choice!Terms /\ SoundTerm(Choice!Terms[i])
  BY TermsSound DEF VehicleInv, FoundSound, ChosenSound, Choice!TypeOK
<1>4. by \subseteq by' /\ Choice!Terms' = Choice!Terms
  BY <1>1, <1>2, TermsStay
<1>5. /\ found' \subseteq Catalogue /\ FoundSound'
      /\ left' \subseteq left /\ \A t \in by' : t.kind \in Choice!Searched
  <2>1. CASE UNCHANGED <<by, found>> /\ left' \subseteq left
    BY <1>2, <1>4, <2>1, SoundStays DEF VehicleInv, FoundSound, ChosenSound, Choice!TypeOK
  <2>2. ASSUME NEW rows \in {{}, Choice!Fits(Choice!Terms[i])},
               found' = Choice!Usables(Choice!Terms[i], rows), by' = by \cup {Choice!Terms[i]}, left' = {}
        PROVE  /\ found' \subseteq Catalogue /\ FoundSound'
               /\ left' \subseteq left /\ \A t \in by' : t.kind \in Choice!Searched
    <3>1. \A r \in found' : r \in Catalogue /\ (r.of = car.of \/ Choice!Blind')
      BY <1>2, <1>3, <2>2, UsablesSound
    <3>2. \A t \in by' : t.kind \in Choice!Searched
      BY <1>3, <2>2 DEF VehicleInv, FoundSound, ChosenSound, Choice!TypeOK, SoundTerm
    <3> QED  BY <1>2, <2>2, <3>1, <3>2 DEF Sound, FoundSound
  <2> QED  BY <1>1, <2>1, <2>2
<1>6. /\ vehiclePc' \in {"search", "pick", "failed"}
      /\ vehicleWhy' \in {"none", "vehicle", "platform", "mismatch", "form"}
  BY <1>1 DEF VehicleInv, FoundSound, ChosenSound, Choice!TypeOK
<1>7. Choice!TypeOK'
  BY <1>2, <1>4, <1>5, <1>6 DEF VehicleInv, FoundSound, ChosenSound, Choice!TypeOK
<1>8. ChosenSound'
  BY <1>2, <1>4, SoundStays DEF VehicleInv, FoundSound, ChosenSound
<1>9. Filled' => FormSound'
  <2>1. Filled' => Filled
    BY <1>2, <1>6 DEF Filled
  <2> QED  BY <1>2, <1>4, <2>1, SoundStays DEF VehicleInv, FoundSound, ChosenSound, FormSound
<1> QED  BY <1>5, <1>6, <1>7, <1>8, <1>9 DEF VehicleInv, FoundSound, ChosenSound, Choice!Blank

\* A correction, or a failure, for want of a row.
LEMMA NoRowStep ==
  ASSUME Registered, VehicleInv,
         IF wanted = {} THEN Choice!Fail("vehicle") /\ UNCHANGED <<selected, precise, form, corrected>>
         ELSE Choice!NoRebuild,
         UNCHANGED <<car, seed, config, left, by, found, wanted, tries>>
  PROVE  VehicleInv'
<1>1. /\ vehiclePc' \in {"send", "failed"} /\ UNCHANGED <<selected, precise>>
      /\ vehicleWhy' \in {"none", "vehicle", "platform", "mismatch", "form"}
      /\ corrected' \in {"no", "rebuilt", "accepted"}
      /\ Filled' => FormSound'
  <2>1. CASE wanted = {}
    <3>1. vehiclePc' = "failed" /\ vehicleWhy' = "vehicle" /\ UNCHANGED <<selected, precise, form, corrected>>
      BY <2>1 DEF Choice!Fail
    <3>2. Filled' => Filled
      BY <3>1 DEF Filled
    <3> QED  BY <3>1, <3>2, SoundStays DEF VehicleInv, FoundSound, ChosenSound, Choice!TypeOK, FormSound
  <2>2. CASE wanted # {}
    BY <2>2, NoRebuildSound DEF Filled
  <2> QED  BY <2>1, <2>2
<1>2. form' = Unknown \/ form' \in Forms
  <2>1. CASE wanted = {}
    BY <2>1 DEF VehicleInv, FoundSound, ChosenSound, Choice!TypeOK, Forms
  <2>2. CASE wanted # {}
    BY <1>1, <2>2 DEF Filled, FormSound
  <2> QED  BY <2>1, <2>2
<1>3. Choice!TypeOK'
  BY <1>1, <1>2, TermsStay DEF VehicleInv, FoundSound, ChosenSound, Choice!TypeOK, Forms
<1>4. FoundSound' /\ ChosenSound'
  BY <1>1, SoundStays DEF VehicleInv, FoundSound, ChosenSound
<1> QED  BY <1>1, <1>3, <1>4 DEF VehicleInv, FoundSound, ChosenSound, Choice!Blank

\* A row that is picked is compatible.
LEMMA PickStep ==
  ASSUME Registered, VehicleInv, Choice!Pick  PROVE VehicleInv'
<1> DEFINE rows == IF wanted = {} THEN found ELSE {r \in found : r.id \in wanted}
<1>1. UNCHANGED <<car, seed, config, left, by, found, wanted, tries>> /\ rows \subseteq found
  BY DEF Choice!Pick
<1>2. ASSUME NEW r \in Choice!Picks(rows), selected' = r, vehiclePc' = "confirm",
             UNCHANGED <<precise, form, corrected, vehicleWhy>>
      PROVE  VehicleInv'
  <2>1. Picked(r) /\ r \in Catalogue
    BY <1>1, PicksCompatible DEF VehicleInv, FoundSound, ChosenSound, Picked, Sound
  <2>2. Choice!TypeOK'
    BY <1>1, <1>2, <2>1, TermsStay DEF VehicleInv, FoundSound, ChosenSound, Choice!TypeOK
  <2>3. Filled' => FormSound'
    <3>1. Filled' => Filled
      BY <1>1, <1>2 DEF Filled
    <3> QED  BY <1>1, <1>2, <3>1, SoundStays DEF VehicleInv, FoundSound, ChosenSound, FormSound
  <2>4. FoundSound' /\ ChosenSound'
    BY <1>1, <1>2, <2>1, SoundStays DEF VehicleInv, FoundSound, ChosenSound
  <2>5. selected' # Choice!Blank
    BY <1>2, <2>1, RowsNotBlank
  <2> QED  BY <2>2, <2>3, <2>4, <2>5 DEF VehicleInv, FoundSound, ChosenSound, Choice!Blank
<1>3. CASE Choice!Picks(rows) = {}
  <2>1. IF wanted = {} THEN Choice!Fail("vehicle") /\ UNCHANGED <<selected, precise, form, corrected>>
        ELSE Choice!NoRebuild
    BY <1>3 DEF Choice!Pick
  <2> QED  BY <1>1, <2>1, NoRowStep
<1> QED  BY <1>2, <1>3 DEF Choice!Pick

\* The vehicle is confirmed by a row of its family.
LEMMA ConfirmStep ==
  ASSUME Registered, VehicleInv, Choice!Confirm  PROVE VehicleInv'
<1>1. vehiclePc = "confirm" /\ UNCHANGED <<car, seed, config, left, by, found, wanted, selected, tries>>
  BY DEF Choice!Confirm
<1>2. Picked(selected) /\ selected # Choice!Blank
  BY <1>1 DEF VehicleInv, FoundSound, ChosenSound
<1>3. CASE Choice!Fail("platform") /\ UNCHANGED <<precise, form, corrected>>
  <2>1. vehiclePc' = "failed" /\ vehicleWhy' = "platform" /\ UNCHANGED <<precise, form, corrected>>
    BY <1>3 DEF Choice!Fail
  <2>2. Choice!TypeOK'
    BY <1>1, <2>1, TermsStay DEF VehicleInv, FoundSound, ChosenSound, Choice!TypeOK
  <2>3. Filled' => FormSound'
    <3>1. Filled' => Filled
      BY <1>1, <2>1 DEF Filled
    <3> QED  BY <1>1, <2>1, <3>1, SoundStays DEF VehicleInv, FoundSound, ChosenSound, FormSound
  <2> QED  BY <1>1, <2>1, <2>2, <2>3, SoundStays DEF VehicleInv, FoundSound, ChosenSound, Choice!Blank
<1>4. ASSUME NEW rows \in SUBSET {r \in Catalogue : r.of = selected.of},
             NEW p \in Choice!Picks(rows) \cup (IF Choice!Picks(rows) = {} THEN {Choice!Blank} ELSE {}),
             precise' = p,
             form' = Choice!Filled(selected, p, IF wanted = {} THEN Unknown ELSE selected.id),
             corrected' = (IF wanted = {} THEN "no" ELSE "rebuilt"),
             vehiclePc' = "send", vehicleWhy' = vehicleWhy
      PROVE  VehicleInv'
  <2>1. p # Choice!Blank => Picked(p)
    <3> SUFFICES ASSUME p # Choice!Blank  PROVE Picked(p)
      OBVIOUS
    <3>1. p \in rows /\ Choice!Compatible(p)
      BY PicksCompatible
    <3> QED  BY <1>2, <3>1 DEF Picked, Sound
  <2>2. selected.id # Unknown
    BY <1>2 DEF Picked, Sound, Registered
  <2>3. /\ form' \in Forms
        /\ \A r \in Catalogue : r.id \in {form'.model, form'.code, form'.price} => Picked(r)
        /\ config.decided = Unknown /\ config.default = Unknown => (form'.licence = "52" <=> form'.electric)
        /\ corrected' # "no" => form'.model = form'.code
    BY <1>2, <1>4, <2>1, <2>2, FilledSound
  <2>4. FormSound'
    BY <1>1, <2>3, SoundStays DEF FormSound
  <2>5. p \in Catalogue \cup {Choice!Blank}
    BY <2>1 DEF Picked, Sound
  <2>6. Choice!TypeOK'
    BY <1>1, <1>4, <2>3, <2>5, TermsStay DEF VehicleInv, FoundSound, ChosenSound, Choice!TypeOK, Forms
  <2>7. FoundSound' /\ ChosenSound'
    BY <1>1, <1>2, <1>4, <2>1, SoundStays DEF VehicleInv, FoundSound, ChosenSound
  <2> QED  BY <1>4, <2>4, <2>6, <2>7 DEF VehicleInv, FoundSound, ChosenSound, Choice!Blank
<1> QED  BY <1>3, <1>4 DEF Choice!Confirm

\* What is sent, or corrected, was sound.
LEMMA SendStep ==
  ASSUME Registered, VehicleInv, Choice!Send  PROVE VehicleInv'
<1>1. vehiclePc = "send" /\ FormSound /\ UNCHANGED <<car, seed, config, by, found>>
  BY DEF Choice!Send, VehicleInv, FoundSound, ChosenSound, Filled
<1>2. CASE /\ vehiclePc' \in {"sent", "failed"} /\ vehicleWhy' \in {vehicleWhy, "form"}
           /\ UNCHANGED <<left, wanted, selected, precise, form, corrected, tries>>
  <2>1. Choice!TypeOK'
    BY <1>1, <1>2, TermsStay DEF VehicleInv, FoundSound, ChosenSound, Choice!TypeOK
  <2>2. FormSound'
    BY <1>1, <1>2, SoundStays DEF FormSound
  <2> QED  BY <1>1, <1>2, <2>1, <2>2, SoundStays DEF VehicleInv, FoundSound, ChosenSound, Choice!Blank
<1>3. ASSUME tries < MaxTries, tries' = tries + 1, NEW r \in Catalogue, wanted' = {r.id}, vehiclePc' = "search",
             left' = DOMAIN Choice!Terms, UNCHANGED <<vehicleWhy, selected, precise, form, corrected>>
      PROVE  VehicleInv'
  <2>1. tries' \in 0 .. MaxTries
    BY <1>3 DEF VehicleInv, FoundSound, ChosenSound, Choice!TypeOK, Registered
  <2>2. Choice!TypeOK'
    BY <1>1, <1>3, <2>1, TermsStay DEF VehicleInv, FoundSound, ChosenSound, Choice!TypeOK, Choice!Ids
  <2>3. FormSound'
    BY <1>1, <1>3, SoundStays DEF FormSound
  <2> QED  BY <1>1, <1>3, <2>2, <2>3, SoundStays DEF VehicleInv, FoundSound, ChosenSound, Choice!Blank
<1>4. CASE tries < MaxTries /\ tries' = tries + 1 /\ Choice!NoRebuild /\ UNCHANGED <<left, wanted>>
  <2>1. tries' \in 0 .. MaxTries
    BY <1>4 DEF VehicleInv, FoundSound, ChosenSound, Choice!TypeOK, Registered
  <2>2. /\ UNCHANGED <<selected, precise>> /\ FormSound'
        /\ vehiclePc' \in {"send", "failed"} /\ vehicleWhy' \in {"none", "vehicle", "platform", "mismatch", "form"}
        /\ corrected' \in {"no", "rebuilt", "accepted"}
    BY <1>1, <1>4, NoRebuildSound DEF Filled
  <2>3. Choice!TypeOK'
    BY <1>1, <1>4, <2>1, <2>2, TermsStay DEF VehicleInv, FoundSound, ChosenSound, Choice!TypeOK, FormSound, Forms
  <2> QED  BY <1>1, <1>4, <2>2, <2>3, SoundStays DEF VehicleInv, FoundSound, ChosenSound, Choice!Blank
<1> QED  BY <1>1, <1>2, <1>3, <1>4 DEF Choice!Send, Choice!Fail

(* The form of a quote is for the car's own family, generation and seats, and what is sent  *)
(* agrees with itself: for any catalogue, papers, earlier quotes and settings.              *)
THEOREM VehicleStaysTrue ==
  ASSUME Registered
  PROVE  Choice!Spec => [](Choice!TypeOK /\ Choice!VehicleTrue)
<1>1. Choice!Init => VehicleInv
  <2> SUFFICES ASSUME Choice!Init  PROVE VehicleInv
    OBVIOUS
  <2>1. Choice!TypeOK
    BY DEF Choice!Init, Choice!TypeOK, Registered
  <2>2. ~Filled
    BY DEF Choice!Init, Filled
  <2> QED  BY <2>1, <2>2 DEF Choice!Init, VehicleInv, FoundSound, ChosenSound
<1>2. VehicleInv /\ [Choice!Next]_Choice!vars => VehicleInv'
  <2> SUFFICES ASSUME VehicleInv, [Choice!Next]_Choice!vars  PROVE VehicleInv'
    OBVIOUS
  <2>1. CASE Choice!Ask
    BY <2>1, AskStep
  <2>2. CASE Choice!Nothing
    BY <2>2, NoRowStep DEF Choice!Nothing
  <2>3. CASE Choice!Pick
    BY <2>3, PickStep
  <2>4. CASE Choice!Confirm
    BY <2>4, ConfirmStep
  <2>5. CASE Choice!Send
    BY <2>5, SendStep
  <2>6. CASE UNCHANGED Choice!vars
    <3>1. UNCHANGED <<car, seed, config, vehiclePc, vehicleWhy, left, by, found, wanted, selected, precise, form,
                      corrected, tries>>
      BY <2>6 DEF Choice!vars
    <3>2. Choice!TypeOK'
      BY <3>1, TermsStay DEF VehicleInv, FoundSound, ChosenSound, Choice!TypeOK
    <3>3. Filled' => FormSound'
      BY <3>1, SoundStays DEF VehicleInv, FoundSound, ChosenSound, FormSound, Filled
    <3> QED  BY <3>1, <3>2, <3>3, SoundStays DEF VehicleInv, FoundSound, ChosenSound, Choice!Blank
  <2> QED  BY <2>1, <2>2, <2>3, <2>4, <2>5, <2>6 DEF Choice!Next
<1>3. VehicleInv => Choice!TypeOK /\ Choice!VehicleTrue
  <2> SUFFICES ASSUME VehicleInv  PROVE Choice!RightCar /\ Choice!OneVehicle
    BY DEF VehicleInv, FoundSound, ChosenSound, Choice!VehicleTrue
  <2>1. Choice!RightCar
    <3> SUFFICES ASSUME NEW r \in Catalogue, vehiclePc = "send", r.id \in {form.model, form.code, form.price}
                 PROVE  Picked(r)
      BY DEF Choice!RightCar, Picked, Sound, Choice!Compatible
    <3> QED  BY DEF VehicleInv, FoundSound, ChosenSound, Filled, FormSound
  <2>2. Choice!OneVehicle
    BY DEF VehicleInv, FoundSound, ChosenSound, Filled, FormSound, Choice!OneVehicle
  <2> QED  BY <2>1, <2>2
<1> QED  BY <1>1, <1>2, <1>3, PTL DEF Choice!Spec

-----------------------------------------------------------------------------
(* The rounds of one quote at the platform: PiccQuote.                                      *)
CONSTANT LastDay

VARIABLES wants, renewal, roundPc, body, posted, reply, round, whyNot

Asking == INSTANCE PiccQuote WITH pc <- roundPc, sent <- posted, answer <- reply, why <- whyNot

\* There is a day the platform sells.
Sold == LastDay \in Nat \ {0}

\* What a form still has wrong.
Wrongs(draft) == (IF "bi" \in Asking!TooEarly(draft) THEN 1 ELSE 0) + (IF "ci" \in Asking!TooEarly(draft) THEN 1 ELSE 0)

\* The reply is one to the form posted, which is the round's or that one corrected.
ReplyFits ==
  /\ roundPc = "correct" => ~Asking!Known(body)
  /\ roundPc \in {"adjust", "result", "quoted"} =>
       posted = body \/ (~Asking!Known(body) /\ posted = Asking!Corrected(body))
  /\ roundPc = "adjust" => reply.kind \in {"objection", "quote"} /\ reply \in Asking!AnswersTo(posted)

\* A form for which the platform named all dates it names with a quote.
Settled ==
  /\ Asking!Known(body) /\ Asking!TooEarly(body) = {}
  /\ \A k \in wants.named :
       LET day == Asking!LaterDay(wants.start[k].day, 1)
           named == wants.start[k].day = day
           afternoon == /\ k = "ci" /\ ~renewal /\ "bi" \in wants.named
                        /\ Asking!LaterDay(wants.start["bi"].day, 1) = day + 1 IN
       /\ body.start[k].day >= day
       /\ body.start[k].hour = IF named THEN wants.start[k].hour ELSE IF afternoon THEN 14 ELSE 0

\* The form is made once the session is probed.
Begun == roundPc \notin {"probe", "prepare"}

\* Every objection costs what is wrong, and a quote with other dates is followed by the last.
AskingInv ==
  /\ Asking!TypeOK /\ ReplyFits
  /\ roundPc \in {"probe", "prepare"} => round = 1
  /\ Asking!Satisfiable /\ Begun => round + Wrongs(body) <= 3 \/ (Settled /\ round <= 4)
  /\ roundPc \in {"result", "quoted"} => posted = body /\ Asking!Known(body) /\ Asking!TooEarly(body) = {}
  /\ Asking!Met

LEMMA FormsTyped ==
  ASSUME Sold, Asking!TypeOK, NEW draft \in Asking!Forms
  PROVE  /\ draft.start \in [Asking!Insurances -> Asking!Starts] /\ draft.hour \in Asking!Hours
         /\ \A k \in Asking!Insurances : /\ draft.start[k] \in Asking!Starts
                                         /\ draft.start[k].day \in 0 .. LastDay /\ draft.start[k].hour \in {0, 14}
                                         /\ wants.start[k].day \in 0 .. LastDay /\ wants.start[k].hour \in {0, 14}
  BY DEF Asking!TypeOK, Asking!Forms, Asking!Starts, Asking!Days, Asking!Hours, Asking!Wants

\* What a correction leaves of a form.
LEMMA CorrectedForm ==
  ASSUME Sold, Asking!TypeOK, NEW draft \in Asking!Forms
  PROVE  /\ Asking!Corrected(draft) \in Asking!Forms
         /\ Asking!Corrected(draft).vehicle = "theirs"
         /\ \A k \in Asking!Insurances :
              /\ Asking!Corrected(draft).start[k].day = draft.start[k].day
              /\ wants.vehicle # "rebuild" => Asking!Corrected(draft).start[k] = draft.start[k]
<1> DEFINE rebuilt == [draft EXCEPT !.start = [k \in Asking!Insurances |-> [@[k] EXCEPT !.hour = draft.hour]]]
<1>1. rebuilt = [start |-> [k \in Asking!Insurances |-> [day |-> draft.start[k].day, hour |-> draft.hour]],
                 hour |-> draft.hour, vehicle |-> draft.vehicle]
  <2> DEFINE start == [k \in Asking!Insurances |-> [draft.start[k] EXCEPT !.hour = draft.hour]]
  <2>1. \A k \in Asking!Insurances : [draft.start[k] EXCEPT !.hour = draft.hour] = [day |-> draft.start[k].day, hour |-> draft.hour]
    BY FormsTyped DEF Asking!Starts
  <2>2. start = [k \in Asking!Insurances |-> [day |-> draft.start[k].day, hour |-> draft.hour]]
    BY <2>1
  <2>3. rebuilt = [draft EXCEPT !.start = start]
    OBVIOUS
  <2> HIDE DEF start
  <2>4. [draft EXCEPT !.start = start] = [start |-> start, hour |-> draft.hour, vehicle |-> draft.vehicle]
    BY DEF Asking!Forms
  <2> QED  BY <2>2, <2>3, <2>4
<1>2. rebuilt \in Asking!Forms
  BY <1>1, FormsTyped DEF Asking!Forms, Asking!Starts
<1>3. \A k \in Asking!Insurances : rebuilt.start[k].day = draft.start[k].day
  BY <1>1
<1>4. Asking!Corrected(draft) = [(IF wants.vehicle = "rebuild" THEN rebuilt ELSE draft) EXCEPT !.vehicle = "theirs"]
  BY DEF Asking!Corrected
<1> HIDE DEF rebuilt
<1> QED  BY <1>2, <1>3, <1>4 DEF Asking!Forms

\* What is asked for is a start, not before the day of the form, and where the platform
\* named the date not before what it wants.
LEMMA TargetFits ==
  ASSUME Sold, Asking!TypeOK, NEW draft \in Asking!Forms, NEW k \in Asking!Insurances
  PROVE  /\ Asking!Target(draft, k) \in Asking!Starts
         /\ Asking!Target(draft, k) = [day |-> Asking!LaterDay(Asking!DayAsked(k), draft.start[k].day),
                                      hour |-> Asking!Asked(k).hour]
         /\ Asking!Target(draft, k).day >= draft.start[k].day
         /\ k \in reply.dated => Asking!NotBefore(Asking!Target(draft, k), wants.start[k])
<1>1. /\ draft.start[k].day \in 0 .. LastDay /\ wants.start[k].day \in 0 .. LastDay /\ wants.start[k].hour \in {0, 14}
      /\ LastDay \in Nat \ {0}
  BY FormsTyped DEF Sold
<1>2. Asking!DayAsked(k) \in 0 .. LastDay /\ (k \in reply.dated => Asking!DayAsked(k) >= wants.start[k].day /\ Asking!DayAsked(k) >= 1)
  BY <1>1 DEF Asking!DayAsked, Asking!LaterDay, Asking!NextDay
<1>3. /\ Asking!Asked(k).day = Asking!DayAsked(k) /\ Asking!Asked(k).hour \in {0, 14}
      /\ Asking!Asked(k) = [day |-> Asking!DayAsked(k), hour |-> Asking!Asked(k).hour]
      /\ k \in reply.dated /\ wants.start[k].day = Asking!DayAsked(k) => Asking!Asked(k).hour = wants.start[k].hour
  BY <1>1 DEF Asking!Asked
<1>4. Asking!Target(draft, k) = [day |-> Asking!LaterDay(Asking!DayAsked(k), draft.start[k].day), hour |-> Asking!Asked(k).hour]
  BY <1>3 DEF Asking!Target
<1>5. Asking!LaterDay(Asking!DayAsked(k), draft.start[k].day) \in 0 .. LastDay
      /\ Asking!LaterDay(Asking!DayAsked(k), draft.start[k].day) >= draft.start[k].day
      /\ Asking!LaterDay(Asking!DayAsked(k), draft.start[k].day) >= Asking!DayAsked(k)
  BY <1>1, <1>2 DEF Asking!LaterDay
<1>6. Asking!Target(draft, k) \in Asking!Starts
  BY <1>3, <1>4, <1>5 DEF Asking!Starts, Asking!Days, Asking!Hours
<1>7. k \in reply.dated => Asking!NotBefore(Asking!Target(draft, k), wants.start[k])
  BY <1>1, <1>2, <1>3, <1>4, <1>5 DEF Asking!NotBefore
<1> QED  BY <1>4, <1>5, <1>6, <1>7

LEMMA AdjustedForm ==
  ASSUME Sold, Asking!TypeOK, NEW draft \in Asking!Forms
  PROVE  /\ Asking!Adjusted(draft) \in Asking!Forms
         /\ Asking!Adjusted(draft).vehicle = draft.vehicle
         /\ \A k \in Asking!Insurances :
              /\ k \in reply.about => Asking!Adjusted(draft).start[k] = Asking!Target(draft, k)
              /\ k \notin reply.about => Asking!Adjusted(draft).start[k] = draft.start[k]
              /\ Asking!Adjusted(draft).start[k].day >= draft.start[k].day
         /\ Asking!Adjusted(draft) = draft <=> \A k \in reply.about : draft.start[k] = Asking!Target(draft, k)
<1>1. reply.about \subseteq Asking!Insurances
  BY DEF Asking!TypeOK, Asking!Answers
<1>2. Asking!Adjusted(draft) =
        [start |-> [k \in Asking!Insurances |->
                      IF k \in Asking!Needed(draft) THEN Asking!Target(draft, k) ELSE draft.start[k]],
         hour |-> draft.hour, vehicle |-> draft.vehicle]
  BY FormsTyped DEF Asking!Adjusted, Asking!Forms
<1>3. \A k \in Asking!Insurances :
        Asking!Adjusted(draft).start[k] = IF k \in Asking!Needed(draft) THEN Asking!Target(draft, k) ELSE draft.start[k]
  BY <1>2
<1>4. Asking!Adjusted(draft) \in Asking!Forms /\ Asking!Adjusted(draft).vehicle = draft.vehicle
  BY <1>2, FormsTyped, TargetFits DEF Asking!Forms
<1>5. \A k \in Asking!Insurances :
        /\ k \in reply.about => Asking!Adjusted(draft).start[k] = Asking!Target(draft, k)
        /\ k \notin reply.about => Asking!Adjusted(draft).start[k] = draft.start[k]
  BY <1>3, Zenon DEF Asking!Needed
<1>6. \A k \in Asking!Insurances : Asking!Adjusted(draft).start[k].day >= draft.start[k].day
  BY <1>5, FormsTyped, TargetFits
<1>7. ASSUME \A k \in reply.about : draft.start[k] = Asking!Target(draft, k)
      PROVE  Asking!Adjusted(draft) = draft
  <2>1. \A k \in Asking!Insurances : Asking!Adjusted(draft).start[k] = draft.start[k]
    BY <1>5, <1>7
  <2>2. Asking!Adjusted(draft).start = draft.start
    BY <1>4, <2>1, FormsTyped
  <2> QED  BY <1>2, <2>2, FormsTyped DEF Asking!Forms
<1> QED  BY <1>1, <1>4, <1>5, <1>6, <1>7

\* A start not before the one wanted stays so: after an adjustment less is wrong.
LEMMA AdjustedWrongs ==
  ASSUME Sold, Asking!TypeOK, NEW draft \in Asking!Forms, reply.about = reply.dated
  PROVE  Asking!TooEarly(Asking!Adjusted(draft)) = Asking!TooEarly(draft) \ reply.about
<1>1. \A k \in Asking!Insurances : k \in reply.about =>
        Asking!NotBefore(Asking!Adjusted(draft).start[k], wants.start[k])
  BY AdjustedForm, TargetFits, Zenon
<1>2. \A k \in Asking!Insurances : k \notin reply.about => Asking!Adjusted(draft).start[k] = draft.start[k]
  BY AdjustedForm, Zenon
<1> QED  BY <1>1, <1>2, Zenon DEF Asking!TooEarly

\* What the platform answers to a form.
LEMMA AnswersFit ==
  ASSUME Sold, Asking!TypeOK, NEW draft \in Asking!Forms, NEW a \in Asking!AnswersTo(draft)
  PROVE  /\ a \in Asking!Answers
         /\ a.kind \in {"refusal", "mismatch", "quote", "objection"}
         /\ a.kind = "mismatch" => ~Asking!Known(draft)
         /\ a.kind = "quote" => /\ Asking!Known(draft) /\ Asking!TooEarly(draft) \subseteq wants.named
                                /\ a.about = wants.named /\ a.dated = wants.named
         /\ a.kind = "objection" => /\ a.about # {} /\ a.about \subseteq Asking!TooEarly(draft)
                                    /\ wants.dated => a.dated = a.about
<1>1. wants.named \subseteq Asking!Insurances /\ Asking!TooEarly(draft) \subseteq Asking!Insurances
  BY DEF Asking!TypeOK, Asking!Wants, Asking!TooEarly
<1>2. \/ a = [kind |-> "refusal", about |-> {}, dated |-> {}]
      \/ a = [kind |-> "mismatch", about |-> {}, dated |-> {}] /\ ~Asking!Known(draft)
      \/ /\ a = [kind |-> "quote", about |-> wants.named, dated |-> wants.named]
         /\ Asking!Known(draft) /\ Asking!TooEarly(draft) \subseteq wants.named
      \/ \E ks \in (SUBSET Asking!TooEarly(draft)) \ {{}} :
           a = [kind |-> "objection", about |-> ks, dated |-> IF wants.dated THEN ks ELSE {}]
  BY DEF Asking!AnswersTo, Asking!Nothing
<1>3. CASE a = [kind |-> "refusal", about |-> {}, dated |-> {}]
  BY <1>3 DEF Asking!Answers
<1>4. CASE a = [kind |-> "mismatch", about |-> {}, dated |-> {}] /\ ~Asking!Known(draft)
  BY <1>4 DEF Asking!Answers
<1>5. CASE /\ a = [kind |-> "quote", about |-> wants.named, dated |-> wants.named]
           /\ Asking!Known(draft) /\ Asking!TooEarly(draft) \subseteq wants.named
  BY <1>1, <1>5 DEF Asking!Answers
<1>6. ASSUME NEW ks \in (SUBSET Asking!TooEarly(draft)) \ {{}},
             a = [kind |-> "objection", about |-> ks, dated |-> IF wants.dated THEN ks ELSE {}]
      PROVE  /\ a \in Asking!Answers /\ a.kind = "objection" /\ a.about # {} /\ a.about \subseteq Asking!TooEarly(draft)
             /\ wants.dated => a.dated = a.about
  <2>1. ks # {} /\ ks \subseteq Asking!TooEarly(draft) /\ ks \subseteq Asking!Insurances
    BY <1>1, <1>6
  <2> DEFINE named == IF wants.dated THEN ks ELSE {}
  <2>2. named \subseteq Asking!Insurances /\ (wants.dated => named = ks)
    BY <2>1
  <2>3. a = [kind |-> "objection", about |-> ks, dated |-> named]
    BY <1>6
  <2> HIDE DEF named
  <2> QED  BY <2>1, <2>2, <2>3 DEF Asking!Answers
<1> QED  BY <1>2, <1>3, <1>4, <1>5, <1>6

\* What is wrong with a form is at most two dates.
LEMMA WrongsBounded ==
  ASSUME NEW draft
  PROVE  /\ Wrongs(draft) \in 0 .. 2
         /\ Asking!TooEarly(draft) = {} => Wrongs(draft) = 0
         /\ \A other : /\ Asking!TooEarly(other) \subseteq Asking!TooEarly(draft) => Wrongs(other) <= Wrongs(draft)
                       /\ Asking!TooEarly(other) \subseteq Asking!TooEarly(draft) /\ Asking!TooEarly(other) # Asking!TooEarly(draft)
                          => Wrongs(other) + 1 <= Wrongs(draft)
<1>1. \A f : Asking!TooEarly(f) \subseteq {"bi", "ci"}
  BY DEF Asking!TooEarly, Asking!Insurances
<1> QED  BY <1>1 DEF Wrongs

\* The dates asked for after a quote.
LEMMA AskedAfterQuote ==
  ASSUME Sold, Asking!TypeOK, reply.kind = "quote", reply.about = wants.named, reply.dated = wants.named,
         NEW k \in wants.named
  PROVE  LET day == Asking!LaterDay(wants.start[k].day, 1)
             named == wants.start[k].day = day
             afternoon == /\ k = "ci" /\ ~renewal /\ "bi" \in wants.named
                          /\ Asking!LaterDay(wants.start["bi"].day, 1) = day + 1 IN
         /\ Asking!DayAsked(k) = day
         /\ Asking!Asked(k).hour = IF named THEN wants.start[k].hour ELSE IF afternoon THEN 14 ELSE 0
<1>1. \A i \in wants.named : Asking!DayAsked(i) = Asking!LaterDay(wants.start[i].day, 1)
  BY DEF Asking!DayAsked, Asking!NextDay
<1>2. Asking!InTheAfternoon(k) <=> /\ k = "ci" /\ ~renewal /\ "bi" \in wants.named
                                   /\ Asking!LaterDay(wants.start["bi"].day, 1) = Asking!LaterDay(wants.start[k].day, 1) + 1
  BY <1>1 DEF Asking!InTheAfternoon
<1>3. Asking!Asked(k).hour = IF wants.start[k].day = Asking!DayAsked(k) THEN wants.start[k].hour
                             ELSE IF Asking!InTheAfternoon(k) THEN 14 ELSE 0
  BY DEF Asking!Asked
<1> QED  BY <1>1, <1>2, <1>3

\* A form adjusted after a quote is settled, and a settled one is quoted as it is.
LEMMA QuotedSettles ==
  ASSUME Sold, Asking!TypeOK, reply.kind = "quote", reply \in Asking!AnswersTo(posted),
         body' = Asking!Adjusted(posted), wants' = wants, renewal' = renewal
  PROVE  Settled'
<1>1. /\ posted \in Asking!Forms /\ Asking!Known(posted) /\ Asking!TooEarly(posted) \subseteq wants.named
      /\ reply.about = wants.named /\ reply.dated = wants.named /\ wants.named \subseteq Asking!Insurances
  BY AnswersFit DEF Asking!TypeOK, Asking!Wants
<1>2. Asking!TooEarly(Asking!Adjusted(posted)) = {}
  BY <1>1, AdjustedWrongs
<1>3. Asking!TooEarly(body)' = {}
  BY <1>2 DEF Asking!TooEarly
<1>4. Asking!Known(body)'
  BY <1>1, AdjustedForm DEF Asking!Known
<1>5. ASSUME NEW k \in wants.named
      PROVE  LET day == Asking!LaterDay(wants.start[k].day, 1)
                 named == wants.start[k].day = day
                 afternoon == /\ k = "ci" /\ ~renewal /\ "bi" \in wants.named
                              /\ Asking!LaterDay(wants.start["bi"].day, 1) = day + 1 IN
             /\ body'.start[k].day >= day
             /\ body'.start[k].hour = IF named THEN wants.start[k].hour ELSE IF afternoon THEN 14 ELSE 0
  <2>1. body'.start[k] = [day |-> Asking!LaterDay(Asking!DayAsked(k), posted.start[k].day), hour |-> Asking!Asked(k).hour]
    BY <1>1, AdjustedForm, TargetFits
  <2>2. Asking!DayAsked(k) \in Nat /\ posted.start[k].day \in Nat
    BY <1>1, FormsTyped DEF Asking!DayAsked, Asking!LaterDay, Asking!NextDay
  <2>3. body'.start[k].day >= Asking!DayAsked(k) /\ body'.start[k].hour = Asking!Asked(k).hour
    BY <2>1, <2>2 DEF Asking!LaterDay
  <2> QED  BY <1>1, <2>3, AskedAfterQuote
<1>6. \A a, b : Asking!LaterDay(a, b)' = Asking!LaterDay(a, b)
  BY DEF Asking!LaterDay
<1> QED  BY <1>3, <1>4, <1>5 DEF Settled, Asking!LaterDay

LEMMA SettledIsQuoted ==
  ASSUME Sold, Asking!TypeOK, Settled, reply.kind = "quote", reply.about = wants.named, reply.dated = wants.named
  PROVE  Asking!Adjusted(body) = body
<1>1. body \in Asking!Forms /\ wants.named \subseteq Asking!Insurances
  BY DEF Asking!TypeOK, Asking!Wants
<1>2. ASSUME NEW k \in wants.named  PROVE body.start[k] = Asking!Target(body, k)
  <2>1. /\ body.start[k].day >= Asking!DayAsked(k) /\ body.start[k].hour = Asking!Asked(k).hour
    BY AskedAfterQuote DEF Settled
  <2>2. body.start[k] \in Asking!Starts /\ body.start[k].day \in Nat /\ Asking!DayAsked(k) \in Nat
    BY <1>1, FormsTyped DEF Asking!DayAsked, Asking!LaterDay, Asking!NextDay
  <2>3. Asking!LaterDay(Asking!DayAsked(k), body.start[k].day) = body.start[k].day
    BY <2>1, <2>2 DEF Asking!LaterDay
  <2>4. Asking!Target(body, k) = [day |-> body.start[k].day, hour |-> body.start[k].hour]
    BY <1>1, <2>1, <2>3, TargetFits
  <2> QED  BY <2>2, <2>4 DEF Asking!Starts
<1> QED  BY <1>1, <1>2, AdjustedForm

LEMMA AskingBegins == Sold /\ Asking!Init => AskingInv
<1> SUFFICES ASSUME Sold, Asking!Init  PROVE AskingInv
  OBVIOUS
<1>1. PICK h \in Asking!Hours :
        body = [start |-> [k \in Asking!Insurances |-> [day |-> 0, hour |-> h]], hour |-> h, vehicle |-> "ours"]
  BY DEF Asking!Init
<1>2. body \in Asking!Forms
  BY <1>1 DEF Asking!Forms, Asking!Starts, Asking!Days, Sold
<1>3. Asking!TypeOK
  BY <1>2 DEF Asking!Init, Asking!TypeOK, Asking!Nothing, Asking!Answers, Asking!Rounds
<1> QED  BY <1>3 DEF Asking!Init, AskingInv, ReplyFits, Begun, Asking!Met

\* The last adjustment leaves rounds.
LEMMA NextRoundLeft ==
  ASSUME Asking!TypeOK, round < 6, Asking!NextRound
  PROVE  roundPc' = "submit" /\ round' = round + 1 /\ whyNot' = whyNot /\ round' \in 1 .. 6
  BY DEF Asking!NextRound, Asking!TypeOK, Asking!Rounds

LEMMA NextRoundEnds ==
  ASSUME Asking!TypeOK, Asking!NextRound
  PROVE  /\ \/ roundPc' = "submit" /\ round' = round + 1 /\ whyNot' = whyNot /\ round < 6
            \/ roundPc' = "failed" /\ whyNot' = "rounds" /\ round' = round /\ round = 6
         /\ round' \in 1 .. 6
  BY DEF Asking!NextRound, Asking!TypeOK, Asking!Rounds, Asking!Fail

LEMMA ProbeKeeps == Sold /\ AskingInv /\ Asking!Probe => AskingInv'
<1> SUFFICES ASSUME Sold, AskingInv, Asking!Probe  PROVE AskingInv'
  OBVIOUS
<1>1. Asking!TypeOK'
  BY DEF AskingInv, Asking!TypeOK, Asking!Probe, Asking!Fail
<1>2. Asking!Met'
  BY DEF AskingInv, Asking!Met, Asking!Satisfiable, Asking!Probe, Asking!Fail
<1>3. (Begun /\ Asking!Satisfiable => round + Wrongs(body) <= 3)'
  <2>1. round' = 1 /\ Wrongs(body)' \in 0 .. 2
    BY WrongsBounded DEF AskingInv, Asking!Probe, Wrongs, Asking!Fail
  <2> QED  BY <2>1
<1>4. round' = 1 /\ roundPc' \in {"prepare", "failed"}
  BY DEF AskingInv, Asking!Probe, Asking!Fail
<1> QED  BY <1>1, <1>2, <1>3, <1>4 DEF AskingInv, ReplyFits

LEMMA PrepareKeeps == Sold /\ AskingInv /\ Asking!Prepare => AskingInv'
<1> SUFFICES ASSUME Sold, AskingInv, Asking!Prepare  PROVE AskingInv'
  OBVIOUS
<1>0. Asking!TypeOK /\ round = 1 /\ roundPc = "prepare"
  BY DEF AskingInv, Asking!Prepare
<1>1. body' \in Asking!Forms
  <2>1. CASE body' = body
    BY <1>0, <2>1 DEF Asking!TypeOK
  <2>2. ASSUME NEW days \in [Asking!Insurances -> Asking!Days], NEW insured \in BOOLEAN,
               NEW draft, draft = [body EXCEPT !.start = [k \in Asking!Insurances |-> [@[k] EXCEPT !.day = days[k]]]],
               body' = IF insured THEN Asking!FromNextDay(draft) ELSE draft
        PROVE  body' \in Asking!Forms
    <3> DEFINE start == [k \in Asking!Insurances |-> [body.start[k] EXCEPT !.day = days[k]]]
    <3>1. body \in Asking!Forms /\ LastDay \in Nat \ {0}
      BY <1>0 DEF Asking!TypeOK, Sold
    <3>2. \A k \in Asking!Insurances : [body.start[k] EXCEPT !.day = days[k]] \in Asking!Starts
      BY <1>0, <2>2, <3>1, FormsTyped DEF Asking!Starts
    <3>3. start \in [Asking!Insurances -> Asking!Starts]
      BY <3>2
    <3>4. draft = [body EXCEPT !.start = start]
      BY <2>2
    <3> HIDE DEF start
    <3>5. draft \in Asking!Forms
      BY <3>1, <3>3, <3>4 DEF Asking!Forms
    <3> DEFINE later == [k \in Asking!Insurances |-> [draft.start[k] EXCEPT !.day = Asking!LaterDay(draft.start[k].day, 1)]]
    <3>6. \A k \in Asking!Insurances :
            [draft.start[k] EXCEPT !.day = Asking!LaterDay(draft.start[k].day, 1)] \in Asking!Starts
      <4> SUFFICES ASSUME NEW k \in Asking!Insurances
                   PROVE  [draft.start[k] EXCEPT !.day = Asking!LaterDay(draft.start[k].day, 1)] \in Asking!Starts
        OBVIOUS
      <4>1. draft.start[k] \in Asking!Starts /\ draft.start[k].day \in 0 .. LastDay
        BY <1>0, <3>5, FormsTyped
      <4>2. Asking!LaterDay(draft.start[k].day, 1) \in 0 .. LastDay
        BY <3>1, <4>1 DEF Asking!LaterDay
      <4> QED  BY <4>1, <4>2 DEF Asking!Starts, Asking!Days
    <3>7. later \in [Asking!Insurances -> Asking!Starts]
      BY <3>6
    <3>8. Asking!FromNextDay(draft) = [draft EXCEPT !.start = later]
      BY DEF Asking!FromNextDay, Asking!NextDay
    <3> HIDE DEF later
    <3>9. Asking!FromNextDay(draft) \in Asking!Forms
      BY <3>5, <3>7, <3>8 DEF Asking!Forms
    <3> QED  BY <2>2, <3>5, <3>9
  <2> QED  BY <2>1, <2>2 DEF Asking!Prepare
<1>2. Asking!TypeOK'
  BY <1>0, <1>1 DEF Asking!TypeOK, Asking!Prepare, Asking!Fail
<1>3. Asking!Met'
  BY DEF AskingInv, Asking!Met, Asking!Satisfiable, Asking!Prepare, Asking!Fail
<1>4. round' = 1 /\ roundPc' \in {"submit", "failed"}
  BY <1>0 DEF Asking!Prepare, Asking!Fail
<1>5. (Begun /\ Asking!Satisfiable => round + Wrongs(body) <= 3)'
  <2>1. Asking!Insurances = {"bi", "ci"} /\ Wrongs(body)' \in 0 .. 2
    BY DEF Wrongs, Asking!Insurances
  <2> QED  BY <1>4, <2>1
<1> QED  BY <1>2, <1>3, <1>4, <1>5 DEF AskingInv, ReplyFits

\* The round stays where the form does.
LEMMA RoundKeeps ==
  ASSUME AskingInv, body' = body, round' = round, wants' = wants, renewal' = renewal, Begun
  PROVE  /\ (Asking!Satisfiable => round + Wrongs(body) <= 3 \/ (Settled /\ round <= 4))'
         /\ Asking!Satisfiable' = Asking!Satisfiable
<1>1. Asking!Satisfiable => round + Wrongs(body) <= 3 \/ (Settled /\ round <= 4)
  BY DEF AskingInv
<1>2. Asking!Satisfiable' = Asking!Satisfiable
  BY DEF Asking!Satisfiable
<1>3. Wrongs(body)' = Wrongs(body)
  BY DEF Wrongs, Asking!TooEarly
<1>4. Settled' = Settled
  BY DEF Settled, Asking!TooEarly, Asking!Known
<1> QED  BY <1>1, <1>2, <1>3, <1>4

LEMMA SubmitKeeps == Sold /\ AskingInv /\ Asking!Submit => AskingInv'
<1> SUFFICES ASSUME Sold, AskingInv, Asking!Submit  PROVE AskingInv'
  OBVIOUS
<1>1. Asking!TypeOK /\ roundPc = "submit" /\ posted' = body /\ wants' = wants /\ renewal' = renewal
      /\ body' = body /\ round' = round /\ body \in Asking!Forms
  BY DEF AskingInv, Asking!Submit, Asking!TypeOK
<1>2. PICK a \in Asking!AnswersTo(body) :
        /\ reply' = a
        /\ \/ a.kind = "refusal" /\ roundPc' = "failed" /\ whyNot' = "refused"
           \/ a.kind = "mismatch" /\ roundPc' = "correct" /\ whyNot' = whyNot
           \/ a.kind \notin {"refusal", "mismatch"} /\ roundPc' = "adjust" /\ whyNot' = whyNot
  BY DEF Asking!Submit, Asking!Fail
<1>3. /\ a \in Asking!Answers /\ a.kind \in {"refusal", "mismatch", "quote", "objection"}
      /\ a.kind = "mismatch" => ~Asking!Known(body)
  BY <1>1, AnswersFit
<1>4. Asking!TypeOK'
  BY <1>1, <1>2, <1>3 DEF Asking!TypeOK
<1>5. /\ (Asking!Satisfiable => round + Wrongs(body) <= 3 \/ (Settled /\ round <= 4))'
      /\ Asking!Satisfiable' = Asking!Satisfiable
  BY <1>1, RoundKeeps DEF Begun
<1>6. Asking!Met'
  BY <1>2, <1>5 DEF AskingInv, Asking!Met
<1>7. ReplyFits'
  <2>1. Asking!AnswersTo(posted)' = Asking!AnswersTo(body)
    BY <1>1 DEF Asking!AnswersTo, Asking!Known, Asking!TooEarly
  <2>2. Asking!Known(body)' = Asking!Known(body)
    BY <1>1 DEF Asking!Known
  <2> QED  BY <1>1, <1>2, <1>3, <2>1, <2>2 DEF ReplyFits
<1> QED  BY <1>2, <1>4, <1>5, <1>6, <1>7 DEF AskingInv, Begun

LEMMA ResubmitKeeps == Sold /\ AskingInv /\ Asking!Resubmit => AskingInv'
<1> SUFFICES ASSUME Sold, AskingInv, Asking!Resubmit  PROVE AskingInv'
  OBVIOUS
<1>1. Asking!TypeOK /\ roundPc = "correct" /\ wants' = wants /\ renewal' = renewal /\ ~Asking!Known(body)
      /\ body' = body /\ round' = round /\ body \in Asking!Forms
  BY DEF AskingInv, Asking!Resubmit, Asking!TypeOK, ReplyFits
<1>2. /\ (Asking!Satisfiable => round + Wrongs(body) <= 3 \/ (Settled /\ round <= 4))'
      /\ Asking!Satisfiable' = Asking!Satisfiable
  BY <1>1, RoundKeeps DEF Begun
<1>3. CASE wants.vehicle = "none" /\ Asking!Fail("vehicle") /\ posted' = posted /\ reply' = reply
  <2>1. Asking!TypeOK'
    BY <1>1, <1>3 DEF Asking!TypeOK, Asking!Fail
  <2>2. Asking!Met'
    BY <1>2, <1>3 DEF Asking!Met, Asking!Satisfiable
  <2> QED  BY <1>2, <1>3, <2>1, <2>2 DEF AskingInv, ReplyFits, Begun, Asking!Fail
<1>4. CASE /\ posted' = Asking!Corrected(body)
           /\ \E a \in Asking!AnswersTo(Asking!Corrected(body)) :
                /\ reply' = a
                /\ IF a.kind = "refusal" THEN Asking!Fail("refused") ELSE roundPc' = "adjust" /\ UNCHANGED whyNot
  <2>1. PICK a \in Asking!AnswersTo(Asking!Corrected(body)) :
          /\ reply' = a
          /\ \/ a.kind = "refusal" /\ roundPc' = "failed" /\ whyNot' = "refused"
             \/ a.kind # "refusal" /\ roundPc' = "adjust" /\ whyNot' = whyNot
    BY <1>4 DEF Asking!Fail
  <2>2. Asking!Corrected(body) \in Asking!Forms /\ Asking!Known(Asking!Corrected(body))
    BY <1>1, CorrectedForm DEF Asking!Known
  <2>3. a \in Asking!Answers /\ (a.kind = "refusal" \/ a.kind \in {"quote", "objection"})
    BY <1>1, <2>2, AnswersFit
  <2>4. Asking!TypeOK'
    BY <1>1, <1>4, <2>1, <2>2, <2>3 DEF Asking!TypeOK
  <2>5. Asking!Met'
    BY <1>2, <2>1 DEF AskingInv, Asking!Met
  <2>6. ReplyFits'
    <3>1. Asking!AnswersTo(posted)' = Asking!AnswersTo(Asking!Corrected(body))
      BY <1>1, <1>4 DEF Asking!AnswersTo, Asking!Known, Asking!TooEarly
    <3>2. Asking!Known(body)' = Asking!Known(body) /\ Asking!Corrected(body)' = Asking!Corrected(body)
      BY <1>1 DEF Asking!Known, Asking!Corrected
    <3> QED  BY <1>1, <1>4, <2>1, <2>3, <3>1, <3>2 DEF ReplyFits
  <2> QED  BY <1>2, <2>1, <2>4, <2>5, <2>6 DEF AskingInv, Begun
<1> QED  BY <1>3, <1>4 DEF Asking!Resubmit

\* An objection is met by an adjustment, and there is a round for it.
LEMMA ObjectionKeeps == Sold /\ AskingInv /\ Asking!AdjustAfterObjection => AskingInv'
<1> SUFFICES ASSUME Sold, AskingInv, Asking!AdjustAfterObjection  PROVE AskingInv'
  OBVIOUS
<1>1. /\ Asking!TypeOK /\ roundPc = "adjust" /\ reply.kind = "objection" /\ body' = Asking!Adjusted(body)
      /\ wants' = wants /\ renewal' = renewal /\ posted' = posted /\ reply' = reply
      /\ IF body' = body THEN Asking!Fail("objection") /\ round' = round ELSE Asking!NextRound
      /\ body \in Asking!Forms /\ posted \in Asking!Forms
  BY DEF AskingInv, Asking!AdjustAfterObjection, Asking!TypeOK
<1>2. /\ reply.about # {} /\ reply.about \subseteq Asking!TooEarly(posted)
      /\ wants.dated => reply.dated = reply.about
      /\ reply.about \subseteq Asking!Insurances
  BY <1>1, AnswersFit DEF AskingInv, ReplyFits, Asking!TooEarly
<1>3. body' \in Asking!Forms /\ round' \in 1 .. 6
  BY <1>1, AdjustedForm, NextRoundEnds DEF Asking!TypeOK, Asking!Rounds
<1>4. \/ roundPc' = "submit" /\ round' = round + 1 /\ whyNot' = whyNot /\ round < 6
      \/ roundPc' = "failed" /\ whyNot' \in {"objection", "rounds"} /\ (whyNot' = "rounds" => round = 6)
         /\ (whyNot' = "objection" => body' = body)
  BY <1>1, NextRoundEnds DEF Asking!Fail
<1>5. Asking!TypeOK'
  BY <1>1, <1>3, <1>4 DEF Asking!TypeOK, Asking!Rounds
<1>6. Asking!Satisfiable' = Asking!Satisfiable
  BY <1>1 DEF Asking!Satisfiable
<1>7. ASSUME Asking!Satisfiable
      PROVE  /\ body' # body /\ round < 6 /\ whyNot' = whyNot /\ roundPc' = "submit"
             /\ (round + Wrongs(body) <= 3)'
  <2>1. reply.dated = reply.about
    BY <1>2, <1>7 DEF Asking!Satisfiable
  <2>2. PICK k \in reply.about : k \in Asking!TooEarly(posted) /\ k \in Asking!Insurances
    BY <1>2
  <2>3. k \in Asking!TooEarly(body)
    <3>1. CASE posted = body
      BY <2>2, <3>1
    <3>2. CASE posted = Asking!Corrected(body)
      <4>1. posted.start[k].day = body.start[k].day /\ (wants.vehicle # "rebuild" => posted.start[k] = body.start[k])
        BY <1>1, <2>2, <3>2, CorrectedForm
      <4>2. wants.vehicle = "rebuild" => wants.start[k].hour = 0
        BY <1>7, <2>2 DEF Asking!Satisfiable
      <4>3. /\ posted.start[k].hour \in {0, 14} /\ body.start[k].hour \in {0, 14}
            /\ posted.start[k].day \in 0 .. LastDay /\ wants.start[k].day \in 0 .. LastDay
        BY <1>1, <2>2, FormsTyped
      <4> QED  BY <2>2, <4>1, <4>2, <4>3 DEF Asking!TooEarly, Asking!NotBefore, Sold
    <3> QED  BY <1>1, <3>1, <3>2 DEF AskingInv, ReplyFits
  <2>4. Asking!TooEarly(Asking!Adjusted(body)) = Asking!TooEarly(body) \ reply.about
    BY <1>1, <2>1, AdjustedWrongs
  <2>5. Asking!TooEarly(Asking!Adjusted(body)) # Asking!TooEarly(body)
    BY <2>2, <2>3, <2>4
  <2>6. Wrongs(Asking!Adjusted(body)) + 1 <= Wrongs(body)
    BY <2>4, <2>5, WrongsBounded
  <2>7. Asking!TooEarly(body) # {}
    BY <2>3
  <2>8. round + Wrongs(body) <= 3
    BY <1>1, <1>7, <2>7 DEF AskingInv, Begun, Settled
  <2>9. round \in 1 .. 6 /\ Wrongs(body) \in 0 .. 2 /\ Wrongs(Asking!Adjusted(body)) \in 0 .. 2
    BY <1>1, WrongsBounded DEF Asking!TypeOK, Asking!Rounds
  <2>10. Wrongs(body)' = Wrongs(Asking!Adjusted(body))
    BY <1>1 DEF Wrongs, Asking!TooEarly
  <2>11. body' # body
    BY <1>1, <2>5
  <2>12. roundPc' = "submit" /\ round' = round + 1 /\ whyNot' = whyNot /\ round < 6
    BY <1>4, <2>8, <2>9, <2>11
  <2> QED  BY <2>6, <2>8, <2>9, <2>10, <2>11, <2>12
<1>8. Asking!Met'
  BY <1>6, <1>7 DEF AskingInv, Asking!Met
<1>9. ReplyFits'
  BY <1>4 DEF ReplyFits
<1> QED  BY <1>4, <1>5, <1>6, <1>7, <1>8, <1>9 DEF AskingInv, Begun

LEMMA QuoteKeeps == Sold /\ AskingInv /\ Asking!AdjustAfterQuote => AskingInv'
<1> SUFFICES ASSUME Sold, AskingInv, Asking!AdjustAfterQuote  PROVE AskingInv'
  OBVIOUS
<1>1. /\ Asking!TypeOK /\ roundPc = "adjust" /\ reply.kind = "quote" /\ body' = Asking!Adjusted(posted)
      /\ wants' = wants /\ renewal' = renewal /\ posted' = posted /\ reply' = reply
      /\ IF body' = posted THEN roundPc' = "result" /\ round' = round /\ whyNot' = whyNot ELSE Asking!NextRound
      /\ body \in Asking!Forms /\ posted \in Asking!Forms
  BY DEF AskingInv, Asking!AdjustAfterQuote, Asking!TypeOK
<1>2. /\ Asking!Known(posted) /\ Asking!TooEarly(posted) \subseteq wants.named
      /\ reply.about = wants.named /\ reply.dated = wants.named /\ reply \in Asking!AnswersTo(posted)
  BY <1>1, AnswersFit DEF AskingInv, ReplyFits
<1>3. body' \in Asking!Forms /\ round' \in 1 .. 6
  BY <1>1, AdjustedForm, NextRoundEnds DEF Asking!TypeOK, Asking!Rounds
<1>4. \/ roundPc' = "result" /\ whyNot' = whyNot /\ round' = round /\ body' = posted
      \/ roundPc' = "submit" /\ round' = round + 1 /\ whyNot' = whyNot /\ round < 6 /\ body' # posted
      \/ roundPc' = "failed" /\ whyNot' = "rounds" /\ round = 6 /\ body' # posted
  BY <1>1, NextRoundEnds
<1>5. Asking!TypeOK'
  BY <1>1, <1>3, <1>4 DEF Asking!TypeOK, Asking!Rounds
<1>6. Asking!Satisfiable' = Asking!Satisfiable
  BY <1>1 DEF Asking!Satisfiable
<1>7. Settled'
  BY <1>1, <1>2, QuotedSettles
<1>8. ASSUME Asking!Satisfiable
      PROVE  whyNot' = whyNot /\ round' <= 4
  <2>1. round \in 1 .. 6 /\ Wrongs(body) \in 0 .. 2
    BY <1>1, WrongsBounded DEF Asking!TypeOK, Asking!Rounds
  <2>2. CASE round + Wrongs(body) <= 3
    BY <1>4, <2>1, <2>2
  <2>3. CASE Settled /\ round <= 4
    <3>1. posted = body
      BY <1>1, <2>3 DEF AskingInv, ReplyFits, Settled
    <3>2. body' = posted
      BY <1>1, <1>2, <2>3, <3>1, SettledIsQuoted
    <3> QED  BY <1>4, <2>3, <3>2
  <2> QED  BY <1>1, <1>8, <2>2, <2>3 DEF AskingInv, Begun
<1>9. Asking!Met'
  BY <1>6, <1>8 DEF AskingInv, Asking!Met
<1>10. ReplyFits'
  BY <1>1, <1>4 DEF ReplyFits
<1>11. roundPc' \in {"result", "quoted"} => (posted = body /\ Asking!Known(body) /\ Asking!TooEarly(body) = {})'
  BY <1>1, <1>4, <1>7 DEF Settled
<1> QED  BY <1>4, <1>5, <1>6, <1>7, <1>8, <1>9, <1>10, <1>11 DEF AskingInv, Begun

LEMMA ResultKeeps == Sold /\ AskingInv /\ Asking!Result => AskingInv'
<1> SUFFICES ASSUME Sold, AskingInv, Asking!Result  PROVE AskingInv'
  OBVIOUS
<1>1. /\ Asking!TypeOK /\ roundPc = "result" /\ wants' = wants /\ renewal' = renewal /\ posted' = posted
      /\ reply' = reply /\ body' = body /\ round' = round
      /\ \/ roundPc' = "quoted" /\ whyNot' = whyNot
         \/ roundPc' = "failed" /\ whyNot' = "premium"
  BY DEF AskingInv, Asking!Result, Asking!Fail
<1>2. Asking!TypeOK'
  BY <1>1 DEF Asking!TypeOK
<1>3. /\ (Asking!Satisfiable => round + Wrongs(body) <= 3 \/ (Settled /\ round <= 4))'
      /\ Asking!Satisfiable' = Asking!Satisfiable
  BY <1>1, RoundKeeps DEF Begun
<1>4. Asking!Met'
  BY <1>1, <1>3 DEF AskingInv, Asking!Met
<1>5. (posted = body /\ Asking!Known(body) /\ Asking!TooEarly(body) = {})'
  BY <1>1 DEF AskingInv, Asking!Known, Asking!TooEarly
<1>6. ReplyFits'
  BY <1>1, <1>5 DEF ReplyFits
<1> QED  BY <1>1, <1>2, <1>3, <1>4, <1>5, <1>6 DEF AskingInv, Begun

LEMMA AskingStep == Sold /\ AskingInv /\ [Asking!Next]_(Asking!vars) => AskingInv'
<1> SUFFICES ASSUME Sold, AskingInv, UNCHANGED Asking!vars  PROVE AskingInv'
  BY ProbeKeeps, PrepareKeeps, SubmitKeeps, ResubmitKeeps, ObjectionKeeps, QuoteKeeps, ResultKeeps DEF Asking!Next
<1> QED  BY DEF Asking!vars, AskingInv, Asking!TypeOK, ReplyFits, Begun, Settled, Wrongs, Asking!Met, Asking!Satisfiable,
                Asking!Known, Asking!TooEarly, Asking!AnswersTo, Asking!Corrected

\* No step but the making of the form moves a date back.
LEMMA DatesNeverBack == Sold /\ AskingInv /\ [Asking!Next]_(Asking!vars) => Asking!NeverEarlier
<1> SUFFICES ASSUME Sold, AskingInv, [Asking!Next]_(Asking!vars), roundPc # "prepare", NEW k \in Asking!Insurances
             PROVE  body'.start[k].day >= body.start[k].day
  BY DEF Asking!NeverEarlier
<1>1. /\ Asking!TypeOK /\ body \in Asking!Forms /\ posted \in Asking!Forms
      /\ body.start[k].day \in 0 .. LastDay
  BY FormsTyped DEF AskingInv, Asking!TypeOK
<1>2. CASE body' = body
  BY <1>1, <1>2 DEF Sold
<1>3. CASE Asking!AdjustAfterObjection
  BY <1>1, <1>3, AdjustedForm DEF Asking!AdjustAfterObjection
<1>4. CASE Asking!AdjustAfterQuote
  <2>1. posted.start[k].day = body.start[k].day
    BY <1>1, <1>4, CorrectedForm DEF AskingInv, ReplyFits, Asking!AdjustAfterQuote
  <2> QED  BY <1>1, <1>4, <2>1, AdjustedForm DEF Asking!AdjustAfterQuote
<1> QED  BY <1>2, <1>3, <1>4 DEF Asking!Next, Asking!vars, Asking!Probe, Asking!Prepare, Asking!Submit, Asking!Resubmit,
                                Asking!Result

(* The rounds with the platform never move a start date back, meet every objection that    *)
(* can be met within the six rounds, and end with a quote of what was asked for last or    *)
(* with none, for any dates, days to choose from and answers.                              *)
THEOREM QuotesAreAsAsked ==
  ASSUME Sold
  PROVE  Asking!Spec => []Asking!TypeOK /\ Asking!QuotedAsAsked
<1>1. AskingInv /\ [Asking!Next]_(Asking!vars) /\ AskingInv' =>
        [Asking!NeverEarlier /\ Asking!ShownIsAsked' /\ Asking!Met']_(Asking!vars)
  BY DatesNeverBack DEF AskingInv, Asking!ShownIsAsked
<1>2. AskingInv => Asking!TypeOK
  BY DEF AskingInv
<1> QED  BY AskingBegins, AskingStep, <1>1, <1>2, PTL DEF Asking!Spec, Asking!QuotedAsAsked
=============================================================================
