--------------------------- MODULE AccountSession ---------------------------
(***************************************************************************)
(* One platform account and every operation on its login session:          *)
(* services/quote_platforms/session_manager.py, called from request        *)
(* handlers and from the keepalive loop of several gunicorn workers.       *)
(*                                                                         *)
(* The session lives in three places: the account row and its state row in *)
(* MySQL (`db`, with `dirty` the rows as changed by the transaction that   *)
(* holds their lock and `view` each transaction's repeatable-read copy)    *)
(* and a Redis mirror.  It is guarded by an asyncio lock per process       *)
(* (`localLock`), a Redis lease per purpose (`lease`: login and challenge  *)
(* share one, all business operations the other) and a version compared    *)
(* before each save.                                                       *)
(***************************************************************************)
EXTENDS Naturals, FiniteSets

CONSTANTS
  Tasks,       \* request handlers and keepalive passes
  Nodes,       \* worker processes
  NodeOf,      \* the process each task runs in
  Ops,         \* the operations the environment may ask for
  Excluded,    \* adapter answers the platform does not give in this instance
  FaultKinds,  \* the faults that may happen
  MaxOps,      \* bound on operations started
  MaxFaults,   \* bound on faults
  NoTask,      \* "nobody" as the owner of a lock
  Orphan       \* the owner of a lease whose holder crashed or could not release it

AllOps == {"login", "challenge", "quote", "query", "keepalive", "clear"}
AllFaults == {"crash", "renew", "stall", "failover", "down"}

ASSUME SessionAssumption ==
  /\ NodeOf \in [Tasks -> Nodes]
  /\ Ops \subseteq AllOps
  /\ FaultKinds \subseteq AllFaults
  /\ MaxOps \in Nat /\ MaxFaults \in Nat
  /\ NoTask \notin Tasks /\ Orphan \notin Tasks /\ NoTask # Orphan

VARIABLES
  pc,         \* where each task is in its operation
  op,         \* the operation it runs
  view,       \* its transaction's copy of the rows
  prev,       \* login: the session found when it started
  cur,        \* the session it works on, whose version save() expects
  next,       \* the session it is about to save
  then,       \* where it goes after that save
  held,       \* what its lease object believes
  db,         \* the committed rows
  dirty,      \* the rows as written by the row-lock owner, uncommitted
  rowOwner,   \* the task whose transaction holds the row lock
  mirror,     \* the session in Redis
  lease,      \* lease class -> token stored in Redis
  localLock,  \* node -> task
  redisUp,    \* Redis answers
  codeTask,   \* a committed login task awaits its code
  gens,       \* logins the platform has accepted so far
  started,    \* operations started
  faults      \* faults so far

taskVars  == <<pc, op, view, prev, cur, next, then, held>>
rowVars   == <<db, dirty, rowOwner>>
redisVars == <<mirror, lease, redisUp>>
vars == <<taskVars, rowVars, redisVars, localLock, codeTask, gens, started, faults>>

-----------------------------------------------------------------------------
(***************************************************************************)
(* Sessions.  `gen` names the accepted login whose credentials a session   *)
(* carries (0: none), `kept` the one preserved inside a session waiting    *)
(* for a verification code (0: none).                                      *)
(***************************************************************************)

Statuses == {"none", "logging_in", "waiting_challenge", "authenticated",
             "degraded", "expired", "login_failed"}

Session == [status : Statuses, version : Nat, gen : Nat, kept : Nat]
NoSession == [status |-> "none", version |-> 0, gen |-> 0, kept |-> 0]

Rows == [cipher : Session, present : BOOLEAN, version : Nat]
EmptyRows == [cipher |-> NoSession, present |-> FALSE, version |-> 0]

Usable(s) == s.status \in {"authenticated", "degraded"}
Waiting(s) == s.status = "waiting_challenge"
Restorable(s) == Waiting(s) /\ s.kept # 0

\* The login a session can still be brought back to.
Login(s) == IF Waiting(s) THEN s.kept ELSE s.gen

\* Mutant: the restored session keeps the version of the waiting one.
Restored_SameVersion(w) ==
  [status |-> "degraded", version |-> w.version, gen |-> w.kept, kept |-> 0]

\* What an operation makes of a session: the preserved login brought back, a
\* login begun, accepted, asking for a code, failed over a usable session or
\* not, and a business call done.
Restored(w) ==
  [status |-> "degraded", version |-> w.version + 1, gen |-> w.kept, kept |-> 0]
Running(p) ==
  [status |-> "logging_in", version |-> p.version + 1, gen |-> p.gen, kept |-> 0]
Authenticated(p, g) ==
  [status |-> "authenticated", version |-> p.version + 1, gen |-> g, kept |-> 0]
Challenged(p, keep) ==
  [status |-> "waiting_challenge", version |-> p.version + 1, gen |-> 0, kept |-> keep]
PreservedAfterFailure(p, run) ==
  [p EXCEPT !.status = "degraded", !.version = run.version + 1]
Failed(p) ==
  [p EXCEPT !.status = "login_failed", !.version = p.version + 1, !.kept = 0]
AfterBusiness(p, status) ==
  [p EXCEPT !.status = status, !.version = p.version + 1]

\* Mutant: the account row is trusted whenever it holds a session.
Loaded_RowFirst(inDb, inRedis) == IF inDb = NoSession THEN {inRedis} ELSE {inDb}

\* load(): the Redis copy when its score is higher.  Scores start with the
\* version; on equal versions timestamps decide, so either copy may win.
Loaded(inDb, inRedis) ==
  IF inRedis = NoSession THEN {inDb}
  ELSE IF inDb = NoSession THEN {inRedis}
  ELSE {s \in {inDb, inRedis} : /\ s.version >= inDb.version
                                /\ s.version >= inRedis.version}

-----------------------------------------------------------------------------
(***************************************************************************)
(* Locks and storage.                                                      *)
(***************************************************************************)

LeaseClasses == {"login_lock", "worker_owner"}

\* Mutant: a verification code runs under the business lease.
Class_ChallengeIsBusiness(o) == IF o = "login" THEN "login_lock" ELSE "worker_owner"

\* _lease_key(): login and challenge share a lease.
Class(o) == IF o \in {"login", "challenge"} THEN "login_lock" ELSE "worker_owner"

\* An explicit require_redis overrides the rule that PICC keys require Redis.
RequiresRedis(o) == o \in {"login", "challenge", "quote"}

BusinessOps == {"quote", "query"}

\* Tasks counted by the actor's _business_waiters in a process.
BusinessWaiters(n) ==
  {t \in Tasks : NodeOf[t] = n /\ op[t] \in BusinessOps
                  /\ pc[t] \notin {"idle", "commit", "rollback"}}

SeenMirror == IF redisUp THEN mirror ELSE NoSession
SetMirror(s) == mirror' = IF redisUp THEN s ELSE mirror

\* The flush of an UPDATE: a column is sent when it differs from the value the
\* transaction loaded.  Ciphertexts differ from each other even for equal sessions.
Flushed(t, new) ==
  LET base == IF rowOwner = t THEN dirty ELSE db IN
  [cipher  |-> IF new.cipher = NoSession /\ view[t].cipher = NoSession
               THEN base.cipher ELSE new.cipher,
   present |-> TRUE,
   version |-> IF new.version = view[t].version /\ view[t].present
               THEN base.version ELSE new.version]

RowLockFree(t) == rowOwner \in {NoTask, t}

\* A second INSERT of the state row fails on its unique account id.
DuplicateState(t) == ~view[t].present /\ rowOwner # t /\ db.present

WriteRows(t, new) ==
  /\ RowLockFree(t)
  /\ rowOwner' = t
  /\ dirty' = Flushed(t, new)
  /\ view' = [view EXCEPT ![t] = new]
  /\ UNCHANGED db

\* save(): may a session whose predecessor had version e be written?
VersionMatches(t, e) ==
  \/ e = 0
  \/ view[t].present /\ view[t].version = e
  \/ view[t].present /\ view[t].version < e /\ SeenMirror.version = e
  \/ ~view[t].present /\ (SeenMirror = NoSession \/ SeenMirror.version = e)

Goto(t, place) == pc' = [pc EXCEPT ![t] = place]

\* Prepare store.save(s), to continue at `place` once it has succeeded.
Save(t, s, place) ==
  /\ next' = [next EXCEPT ![t] = s]
  /\ then' = [then EXCEPT ![t] = place]
  /\ Goto(t, "check")

\* Mutant: the lease key is deleted whoever's token it holds.
Leave_NoTokenCompare(t) ==
  LET c == Class(op[t]) IN
  /\ lease' = IF held[t] # "none" /\ redisUp THEN [lease EXCEPT ![c] = NoTask] ELSE lease
  /\ held' = [held EXCEPT ![t] = "none"]
  /\ localLock' = [n \in Nodes |-> IF localLock[n] = t THEN NoTask ELSE localLock[n]]
  /\ UNCHANGED <<mirror, redisUp>>

\* Leaving the two `async with` blocks: the lease is deleted only when its
\* token is still ours and Redis answers, then the process lock is released.
Leave(t) ==
  LET c == Class(op[t]) IN
  /\ lease' = IF held[t] # "none" /\ lease[c] = t
              THEN [lease EXCEPT ![c] = IF held[t] = "owned" /\ redisUp THEN NoTask ELSE Orphan]
              ELSE lease
  /\ held' = [held EXCEPT ![t] = "none"]
  /\ localLock' = [n \in Nodes |-> IF localLock[n] = t THEN NoTask ELSE localLock[n]]
  /\ UNCHANGED <<mirror, redisUp>>

-----------------------------------------------------------------------------
(***************************************************************************)
(* The operations, one action per stretch between two awaits that others   *)
(* can observe.                                                            *)
(***************************************************************************)

Init ==
  /\ pc = [t \in Tasks |-> "idle"]
  /\ op = [t \in Tasks |-> "clear"]
  /\ view = [t \in Tasks |-> EmptyRows]
  /\ prev = [t \in Tasks |-> NoSession]
  /\ cur = [t \in Tasks |-> NoSession]
  /\ next = [t \in Tasks |-> NoSession]
  /\ then = [t \in Tasks |-> "exit"]
  /\ held = [t \in Tasks |-> "none"]
  /\ db = EmptyRows /\ dirty = EmptyRows /\ rowOwner = NoTask
  /\ mirror = NoSession
  /\ lease = [c \in LeaseClasses |-> NoTask]
  /\ localLock = [n \in Nodes |-> NoTask]
  /\ redisUp = TRUE
  /\ codeTask = FALSE
  /\ gens = 0 /\ started = 0 /\ faults = 0

\* A handler opens its transaction and calls an operation.  A code is taken
\* only for a task that awaits one; a keepalive is skipped while the process has
\* business calls waiting.
Begin(t, o) ==
  /\ pc[t] = "idle" /\ started < MaxOps
  /\ o = "challenge" => codeTask
  /\ o = "keepalive" => BusinessWaiters(NodeOf[t]) = {}
  /\ op' = [op EXCEPT ![t] = o]
  /\ view' = [view EXCEPT ![t] = db]
  /\ prev' = [prev EXCEPT ![t] = NoSession]
  /\ cur' = [cur EXCEPT ![t] = NoSession]
  /\ next' = [next EXCEPT ![t] = NoSession]
  /\ started' = started + 1
  /\ Goto(t, CASE o = "login" -> "task" [] o = "clear" -> "clear" [] OTHER -> "lock")
  /\ UNCHANGED <<then, held, rowVars, redisVars, localLock, codeTask, gens, faults>>

\* start_platform_account_login flushes its login task and the account's
\* login_status, and so takes the row lock, before it asks for the session.
FlushLoginTask(t) ==
  /\ pc[t] = "task" /\ rowOwner = NoTask
  /\ rowOwner' = t /\ dirty' = db
  /\ Goto(t, "lock")
  /\ UNCHANGED <<op, view, prev, cur, next, then, held, db, redisVars, localLock,
                 codeTask, gens, started, faults>>

LocalLock(t) ==
  /\ pc[t] = "lock" /\ localLock[NodeOf[t]] = NoTask
  /\ localLock' = [localLock EXCEPT ![NodeOf[t]] = t]
  /\ Goto(t, "lease")
  /\ UNCHANGED <<op, view, prev, cur, next, then, held, rowVars, redisVars,
                 codeTask, gens, started, faults>>

\* Mutant: SET without NX.
AcquireLease_NoNX(t) ==
  /\ pc[t] = "lease" /\ redisUp
  /\ lease' = [lease EXCEPT ![Class(op[t])] = t]
  /\ held' = [held EXCEPT ![t] = "owned"]
  /\ Goto(t, "load")
  /\ UNCHANGED <<op, view, prev, cur, next, then, rowVars, mirror, redisUp, localLock,
                 codeTask, gens, started, faults>>

\* SET key token NX EX ttl.
AcquireLease(t) ==
  /\ pc[t] = "lease" /\ redisUp /\ lease[Class(op[t])] = NoTask
  /\ lease' = [lease EXCEPT ![Class(op[t])] = t]
  /\ held' = [held EXCEPT ![t] = "owned"]
  /\ Goto(t, "load")
  /\ UNCHANGED <<op, view, prev, cur, next, then, rowVars, mirror, redisUp, localLock,
                 codeTask, gens, started, faults>>

\* Without Redis an operation that does not require it goes on unprotected.
SkipLease(t) ==
  /\ pc[t] = "lease" /\ ~redisUp /\ ~RequiresRedis(op[t])
  /\ Goto(t, "load")
  /\ UNCHANGED <<op, view, prev, cur, next, then, held, rowVars, redisVars, localLock,
                 codeTask, gens, started, faults>>

\* TimeoutError out of __aenter__: Redis missing where required, or the lease
\* not free within wait_seconds.
LeaseRefused(t) ==
  /\ pc[t] = "lease"
  /\ \/ ~redisUp /\ RequiresRedis(op[t])
     \/ redisUp /\ lease[Class(op[t])] # NoTask
  /\ Leave(t)
  /\ Goto(t, "rollback")
  /\ UNCHANGED <<op, view, prev, cur, next, then, rowVars, codeTask, gens, started, faults>>

\* store.load() and what the operation makes of the session it returns.
Load(t) ==
  /\ pc[t] = "load"
  /\ \E s \in Loaded(view[t].cipher, SeenMirror) :
       /\ cur' = [cur EXCEPT ![t] = s]
       /\ CASE op[t] = "login" ->
                 IF Restorable(s) THEN Save(t, Restored(s), "start")
                 ELSE Goto(t, "start") /\ UNCHANGED <<next, then>>
            [] op[t] = "challenge" ->
                 /\ Goto(t, IF Waiting(s) THEN "call" ELSE "exit")
                 /\ UNCHANGED <<next, then>>
            [] OTHER ->
                 IF Restorable(s) THEN Save(t, Restored(s), "call")
                 ELSE /\ Goto(t, IF Usable(s) THEN "call" ELSE "exit")
                      /\ UNCHANGED <<next, then>>
  /\ UNCHANGED <<op, view, prev, held, rowVars, redisVars, localLock, codeTask, gens, started, faults>>

\* login: mark the session as logging in before calling the platform.
StartLogin(t) ==
  /\ pc[t] = "start"
  /\ prev' = [prev EXCEPT ![t] = cur[t]]
  /\ Save(t, Running(cur[t]), "call")
  /\ UNCHANGED <<op, view, cur, held, rowVars, redisVars, localLock, codeTask, gens, started, faults>>

\* save(), first await: the version test.
CheckVersion(t) ==
  /\ pc[t] = "check"
  /\ Goto(t, IF VersionMatches(t, cur[t].version) THEN "flush" ELSE "exit")
  /\ UNCHANGED <<op, view, prev, cur, next, then, held, rowVars, redisVars, localLock,
                 codeTask, gens, started, faults>>

\* save(), second await: the flush, which blocks on the row lock.
FlushSession(t) ==
  /\ pc[t] = "flush" /\ ~DuplicateState(t)
  /\ WriteRows(t, [cipher |-> next[t], present |-> TRUE, version |-> next[t].version])
  /\ Goto(t, "mirror")
  /\ UNCHANGED <<op, prev, cur, next, then, held, redisVars, localLock, codeTask, gens, started, faults>>

\* Mutant: a flush waits for the row lock for ever.
FlushFails_Never(t) == FALSE

\* The flush raises: another transaction inserted the state row, or the row
\* lock was not released within innodb_lock_wait_timeout.
FlushFails(t) ==
  /\ pc[t] \in {"task", "flush", "clear"}
  /\ \/ ~RowLockFree(t)
     \/ pc[t] # "task" /\ rowOwner = NoTask /\ DuplicateState(t)
  /\ Leave(t)
  /\ Goto(t, "rollback")
  /\ UNCHANGED <<op, view, prev, cur, next, then, rowVars, codeTask, gens, started, faults>>

\* save(), third await: the mirror; the session then carries on with what it saved.
SaveMirror(t) ==
  /\ pc[t] = "mirror"
  /\ SetMirror(next[t])
  /\ cur' = [cur EXCEPT ![t] = next[t]]
  /\ Goto(t, then[t])
  /\ UNCHANGED <<op, view, prev, next, then, held, rowVars, lease, redisUp, localLock,
                 codeTask, gens, started, faults>>

-----------------------------------------------------------------------------
(***************************************************************************)
(* The platform's answer.  assert_owned() drops it when the lease object   *)
(* has noticed that the lease is gone; the last branch of each operation   *)
(* builds the session to save.  Answers:                                   *)
(*   ok       accepted (a business failure other than expiry also counts)  *)
(*   code     a verification code is needed, from a fresh platform session *)
(*   retry    the code was wrong, the platform session goes on             *)
(*   restart  a fresh code was sent from a fresh platform session          *)
(*   fail     anything else, exceptions included                           *)
(*   expired  the platform no longer knows the session                     *)
(***************************************************************************)

Answers(o) ==
  (CASE o = "login" -> {"ok", "code", "fail"}
     [] o = "challenge" -> {"ok", "retry", "restart", "fail"}
     [] o = "keepalive" -> {"ok", "fail", "expired"}
     [] OTHER -> {"ok", "expired"}) \ Excluded

UsableOr0(s) == IF Usable(s) THEN s.gen ELSE 0

\* Mutant: a failed login always ends in login_failed.
LoginResult_NoFallback(t, a) ==
  CASE a = "ok"   -> Authenticated(cur[t], gens + 1)
    [] a = "code" -> Challenged(cur[t], UsableOr0(prev[t]))
    [] a = "fail" -> Failed(cur[t])

\* A failed login falls back to the usable session it has overwritten.
LoginResult(t, a) ==
  CASE a = "ok"   -> Authenticated(cur[t], gens + 1)
    [] a = "code" -> Challenged(cur[t], UsableOr0(prev[t]))
    [] a = "fail" -> IF Usable(prev[t]) THEN PreservedAfterFailure(prev[t], cur[t])
                     ELSE Failed(cur[t])

\* A retry keeps the runtime_meta of the waiting session; a restart builds a
\* new one, to which only a usable predecessor would be attached.
ChallengeResult(t, a) ==
  CASE a = "ok"      -> Authenticated(cur[t], gens + 1)
    [] a = "retry"   -> Challenged(cur[t], cur[t].kept)
    [] a = "restart" -> Challenged(cur[t], UsableOr0(cur[t]))
    [] a = "fail"    -> IF Restorable(cur[t]) THEN Restored(cur[t]) ELSE Failed(cur[t])

\* Mutant: the adapter's own status is stored.
BusinessResult_Raw(t, a) == AfterBusiness(cur[t], a)

\* A failed keepalive degrades the session, an expired answer ends it.
BusinessResult(t, a) ==
  AfterBusiness(cur[t], CASE a = "expired" -> "expired"
                          [] a = "fail" -> "degraded"
                          [] OTHER -> "authenticated")

Result(t, a) ==
  CASE op[t] = "login" -> LoginResult(t, a)
    [] op[t] = "challenge" -> ChallengeResult(t, a)
    [] OTHER -> BusinessResult(t, a)

Answer(t, a) ==
  /\ pc[t] = "call" /\ held[t] # "lost"
  /\ gens' = IF op[t] \in {"login", "challenge"} /\ a = "ok" THEN gens + 1 ELSE gens
  /\ Save(t, Result(t, a), IF a = "expired" THEN "discard" ELSE "exit")
  /\ UNCHANGED <<op, view, prev, cur, held, rowVars, redisVars, localLock, codeTask, started, faults>>

AnswerDropped(t) ==
  /\ pc[t] = "call" /\ held[t] = "lost"
  /\ Goto(t, "exit")
  /\ UNCHANGED <<op, view, prev, cur, next, then, held, rowVars, redisVars, localLock,
                 codeTask, gens, started, faults>>

\* discard_cached_session() after an expired answer was saved.
Discard(t) ==
  /\ pc[t] = "discard"
  /\ WriteRows(t, [view[t] EXCEPT !.cipher = NoSession])
  /\ SetMirror(NoSession)
  /\ Goto(t, "exit")
  /\ UNCHANGED <<op, prev, cur, next, then, held, lease, redisUp, localLock,
                 codeTask, gens, started, faults>>

Exit(t) ==
  /\ pc[t] = "exit"
  /\ Leave(t)
  /\ Goto(t, "commit")
  /\ UNCHANGED <<op, view, prev, cur, next, then, rowVars, codeTask, gens, started, faults>>

\* store.clear(), called when an account is disabled or its credentials are
\* changed: no lock and no version test.
ClearRows(t) ==
  /\ pc[t] = "clear" /\ ~DuplicateState(t)
  /\ WriteRows(t, [cipher |-> NoSession, present |-> TRUE, version |-> 0])
  /\ Goto(t, "clearMirror")
  /\ UNCHANGED <<op, prev, cur, next, then, held, redisVars, localLock, codeTask, gens, started, faults>>

ClearMirror(t) ==
  /\ pc[t] = "clearMirror"
  /\ SetMirror(NoSession)
  /\ Goto(t, "commit")
  /\ UNCHANGED <<op, view, prev, cur, next, then, held, rowVars, lease, redisUp, localLock,
                 codeTask, gens, started, faults>>

\* The request ends: get_db commits, or rolls back after an exception.  A login
\* or a code leaves its task waiting only when it saved a waiting session.
EndTransaction(t) ==
  /\ pc[t] \in {"commit", "rollback"}
  /\ db' = IF pc[t] = "commit" /\ rowOwner = t THEN dirty ELSE db
  /\ rowOwner' = IF rowOwner = t THEN NoTask ELSE rowOwner
  /\ codeTask' = IF pc[t] = "commit" /\ op[t] \in {"login", "challenge"}
                 THEN Waiting(cur[t]) /\ cur[t] = next[t] ELSE codeTask
  /\ Goto(t, "idle")
  /\ UNCHANGED <<op, view, prev, cur, next, then, held, dirty, redisVars, localLock,
                 gens, started, faults>>

-----------------------------------------------------------------------------
(***************************************************************************)
(* The renew loop, Redis and the processes.                                *)
(***************************************************************************)

Fault(kind) == kind \in FaultKinds /\ faults < MaxFaults /\ faults' = faults + 1

\* A renewal raises, as it does while Redis is down: the lease object gives up
\* although the token stays until its TTL.
RenewRaises(t) ==
  /\ held[t] = "owned"
  /\ Fault("renew") \/ (~redisUp /\ UNCHANGED faults)
  /\ held' = [held EXCEPT ![t] = "lost"]
  /\ UNCHANGED <<pc, op, view, prev, cur, next, then, rowVars, redisVars, localLock,
                 codeTask, gens, started>>

\* The next renewal finds another token, or none.
RenewRefused(t) ==
  /\ held[t] = "owned" /\ redisUp /\ lease[Class(op[t])] # t
  /\ held' = [held EXCEPT ![t] = "lost"]
  /\ UNCHANGED <<pc, op, view, prev, cur, next, then, rowVars, redisVars, localLock,
                 codeTask, gens, started, faults>>

\* The TTL of a lease nobody renews runs out.
LeaseExpires(c) ==
  /\ \/ lease[c] = Orphan
     \/ lease[c] \in Tasks /\ held[lease[c]] = "lost"
  /\ lease' = [lease EXCEPT ![c] = NoTask]
  /\ UNCHANGED <<taskVars, rowVars, mirror, redisUp, localLock, codeTask, gens, started, faults>>

\* The event loop stalls for longer than the TTL: no renewal came in time.
Stall(c) ==
  /\ Fault("stall") /\ lease[c] \in Tasks
  /\ lease' = [lease EXCEPT ![c] = NoTask]
  /\ UNCHANGED <<taskVars, rowVars, mirror, redisUp, localLock, codeTask, gens, started>>

\* Redis comes back empty.
Failover ==
  /\ Fault("failover")
  /\ lease' = [c \in LeaseClasses |-> NoTask] /\ mirror' = NoSession
  /\ UNCHANGED <<taskVars, rowVars, redisUp, localLock, codeTask, gens, started>>

RedisDown ==
  /\ Fault("down") /\ redisUp
  /\ redisUp' = FALSE
  /\ UNCHANGED <<taskVars, rowVars, mirror, lease, localLock, codeTask, gens, started>>

RedisUp ==
  /\ ~redisUp /\ redisUp' = TRUE
  /\ UNCHANGED <<taskVars, rowVars, mirror, lease, localLock, codeTask, gens, started, faults>>

\* A worker dies: MySQL rolls its transactions back, its leases stay until the TTL.
Crash(n) ==
  LET dead == {t \in Tasks : NodeOf[t] = n} IN
  /\ Fault("crash") /\ \E t \in dead : pc[t] # "idle"
  /\ pc' = [t \in Tasks |-> IF t \in dead THEN "idle" ELSE pc[t]]
  /\ held' = [t \in Tasks |-> IF t \in dead THEN "none" ELSE held[t]]
  /\ lease' = [c \in LeaseClasses |-> IF lease[c] \in dead THEN Orphan ELSE lease[c]]
  /\ rowOwner' = IF rowOwner \in dead THEN NoTask ELSE rowOwner
  /\ localLock' = [localLock EXCEPT ![n] = NoTask]
  /\ UNCHANGED <<op, view, prev, cur, next, then, db, dirty, mirror, redisUp, codeTask, gens, started>>

-----------------------------------------------------------------------------

Saving(t) == CheckVersion(t) \/ FlushSession(t) \/ SaveMirror(t)

Finishing(t) == Exit(t) \/ EndTransaction(t) \/ FlushFails(t)

Step(t) ==
  \/ FlushLoginTask(t) \/ LocalLock(t)
  \/ AcquireLease(t) \/ SkipLease(t) \/ LeaseRefused(t)
  \/ Load(t) \/ StartLogin(t)
  \/ Saving(t)
  \/ \E a \in Answers(op[t]) : Answer(t, a)
  \/ AnswerDropped(t) \/ Discard(t)
  \/ ClearRows(t) \/ ClearMirror(t)
  \/ Finishing(t)

Environment ==
  \/ \E t \in Tasks : RenewRaises(t) \/ RenewRefused(t)
  \/ \E c \in LeaseClasses : LeaseExpires(c) \/ Stall(c)
  \/ Failover \/ RedisDown \/ RedisUp
  \/ \E n \in Nodes : Crash(n)

Next ==
  \/ \E t \in Tasks, o \in Ops : Begin(t, o)
  \/ \E t \in Tasks : Step(t)
  \/ Environment

Spec == Init /\ [][Next]_vars

\* asyncio runs every ready task and every timeout fires; nothing is promised
\* about new requests, faults, or Redis coming back.
Fairness == \A t \in Tasks : WF_vars(Step(t))

FairSpec == Spec /\ Fairness

-----------------------------------------------------------------------------
(***************************************************************************)
(* Properties.                                                             *)
(***************************************************************************)

\* Every variable stays in its type.
TypeOK ==
  /\ pc \in [Tasks -> {"idle", "task", "lock", "lease", "load", "start", "check", "flush",
                       "mirror", "call", "discard", "exit", "clear", "clearMirror",
                       "commit", "rollback"}]
  /\ op \in [Tasks -> AllOps]
  /\ view \in [Tasks -> Rows]
  /\ prev \in [Tasks -> Session] /\ cur \in [Tasks -> Session]
  /\ next \in [Tasks -> Session]
  /\ then \in [Tasks -> {"start", "call", "discard", "exit"}]
  /\ held \in [Tasks -> {"none", "owned", "lost"}]
  /\ db \in Rows /\ dirty \in Rows /\ rowOwner \in Tasks \cup {NoTask}
  /\ mirror \in Session
  /\ lease \in [LeaseClasses -> Tasks \cup {NoTask, Orphan}]
  /\ localLock \in [Nodes -> Tasks \cup {NoTask}]
  /\ redisUp \in BOOLEAN /\ codeTask \in BOOLEAN
  /\ gens \in Nat /\ started \in Nat /\ faults \in Nat

\* Two operations of one lease class never both believe they own its lease,
\* through crashes, failed renewals and lost connections (_RedisLeaseLock: the
\* SET NX, the token compared on release and the renew loop together).
LeaseExclusive ==
  \A t, u \in Tasks :
    /\ held[t] = "owned" /\ held[u] = "owned"
    /\ Class(op[t]) = Class(op[u])
    => t = u

\* The rows a transaction commits never carry an older login than the one
\* committed before (save()'s version test, load()'s choice of the newer copy).
LoginNeverOverwritten == [][Login(db'.cipher) >= Login(db.cipher)]_vars

\* However logins, codes and rollbacks end, no login is left behind in a state
\* nobody can use: once nothing runs, the session load() returns is usable, or
\* restorable behind a waiting challenge, or carries no login at all
\* (_preserve_previous_session_after_login_failure and the two halves of the
\* preserved-challenge mechanism).
NoLoginStranded ==
  (\A t \in Tasks : pc[t] = "idle") =>
    \A s \in Loaded(db.cipher, SeenMirror) :
      Login(s) # 0 => Usable(s) \/ Restorable(s)

\* What start-up relies on: with nothing running, a usable session stored in the
\* account row is what load() restores (maintain_quote_platform_sessions_once).
StoredSessionRestored ==
  (Usable(db.cipher) /\ \A t \in Tasks : pc[t] = "idle") =>
    \A s \in Loaded(db.cipher, SeenMirror) : Usable(s) \/ Restorable(s)

\* A usable session put aside while a code is awaited is brought back when the
\* code does not go through (submit_challenge).
PreservedLoginKept == [][Restorable(db.cipher) => Login(db'.cipher) # 0]_vars

\* Every operation ends, although login holds the account's row lock while it
\* waits for the process lock and others wait for the row lock inside it.
OpsFinish == \A t \in Tasks : pc[t] # "idle" ~> pc[t] = "idle"

Lifecycle == INSTANCE SessionLifecycle WITH session <- mirror

\* The sequence of sessions in Redis is a legal life of one session, for all the
\* stale row copies and rolled-back transactions behind it.
RefinesLifecycle == Lifecycle!Spec
=============================================================================
