------------------------ MODULE AccountSessionProofs ------------------------
(***************************************************************************)
(* Type correctness of AccountSession; exclusion by the Redis lease for    *)
(* every number of tasks, processes, operations and faults, as long as no  *)
(* process stalls past its TTL and Redis keeps its keys; and, where        *)
(* nothing fails, that it implements SessionLifecycle and loses no login.  *)
(***************************************************************************)
EXTENDS AccountSession, TLAPS

\* What the session builders return is a session.
LEMMA BuildersTyped ==
  ASSUME NEW p \in Session, NEW q \in Session, NEW g \in Nat
  PROVE  /\ Restored(p) \in Session
         /\ Running(p) \in Session
         /\ Authenticated(p, g) \in Session
         /\ Challenged(p, g) \in Session
         /\ PreservedAfterFailure(p, q) \in Session
         /\ Failed(p) \in Session
         /\ UsableOr0(p) \in Nat
<1>1. /\ p.version \in Nat /\ p.gen \in Nat /\ p.kept \in Nat
      /\ q.version + 1 \in Nat /\ p.version + 1 \in Nat
  BY DEF Session
<1>2. /\ Restored(p) \in Session /\ Running(p) \in Session
      /\ Authenticated(p, g) \in Session /\ Challenged(p, g) \in Session
  BY <1>1 DEF Session, Statuses, Restored, Running, Authenticated, Challenged
<1>3. PreservedAfterFailure(p, q) \in Session
  BY <1>1 DEF Session, Statuses, PreservedAfterFailure
<1>4. Failed(p) \in Session
  BY <1>1 DEF Session, Statuses, Failed
<1>5. UsableOr0(p) \in Nat
  BY <1>1 DEF UsableOr0
<1> QED
  BY <1>2, <1>3, <1>4, <1>5

\* A business operation saves one of three statuses.
LEMMA AfterBusinessTyped ==
  ASSUME NEW p \in Session, NEW st \in {"authenticated", "degraded", "expired"}
  PROVE  AfterBusiness(p, st) \in Session
<1>1. p.version + 1 \in Nat /\ st \in Statuses
  BY DEF Session, Statuses
<1> QED
  BY <1>1 DEF Session, AfterBusiness

\* load() returns a session.
LEMMA LoadedTyped ==
  ASSUME NEW a \in Session, NEW b \in Session, NEW s \in Loaded(a, b)
  PROVE  s \in Session
  BY DEF Loaded

\* The initial session and the initial rows.
LEMMA NoSessionTyped == NoSession \in Session /\ EmptyRows \in Rows
  BY DEF NoSession, EmptyRows, Session, Statuses, Rows

\* The session saved for an answer of the platform is a session.
LEMMA ResultTyped ==
  ASSUME TypeOK, NEW t \in Tasks, NEW a \in Answers(op[t])
  PROVE  Result(t, a) \in Session
<1> cur[t] \in Session /\ prev[t] \in Session /\ gens + 1 \in Nat
  BY DEF TypeOK
<1>1. CASE op[t] = "login"
  <2>1. a \in {"ok", "code", "fail"}
    BY <1>1 DEF Answers
  <2>2. LoginResult(t, a) \in Session
    BY <2>1, BuildersTyped DEF LoginResult
  <2> QED
    BY <1>1, <2>2 DEF Result
<1>2. CASE op[t] = "challenge"
  <2>1. a \in {"ok", "retry", "restart", "fail"}
    BY <1>2 DEF Answers
  <2>2. cur[t].kept \in Nat
    BY DEF Session
  <2>3. ChallengeResult(t, a) \in Session
    BY <2>1, <2>2, BuildersTyped DEF ChallengeResult
  <2> QED
    BY <1>2, <2>3 DEF Result
<1>3. CASE op[t] \notin {"login", "challenge"}
  BY <1>3, AfterBusinessTyped DEF Result, BusinessResult
<1> QED
  BY <1>1, <1>2, <1>3

\* A flush leaves the rows in their type.
LEMMA FlushedTyped ==
  ASSUME TypeOK, NEW t \in Tasks, NEW new \in Rows
  PROVE  Flushed(t, new) \in Rows
<1> DEFINE base == IF rowOwner = t THEN dirty ELSE db
<1>1. base \in Rows
  BY DEF TypeOK
<1> QED
  BY <1>1 DEF Flushed, Rows

\* What the locks and rows do when an operation leaves its locked section.
LEMMA LeaveTyped ==
  ASSUME TypeOK, NEW t \in Tasks, Leave(t)
  PROVE  /\ lease' \in [LeaseClasses -> Tasks \cup {NoTask, Orphan}]
         /\ held' \in [Tasks -> {"none", "owned", "lost"}]
         /\ localLock' \in [Nodes -> Tasks \cup {NoTask}]
  BY DEF TypeOK, Leave, Class, LeaseClasses

Places == {"idle", "task", "lock", "lease", "load", "start", "check", "flush",
           "mirror", "call", "discard", "exit", "clear", "clearMirror",
           "commit", "rollback"}

\* A task goes to one of its places.
LEMMA GotoTyped ==
  ASSUME TypeOK, NEW t \in Tasks, NEW p \in Places, Goto(t, p)
  PROVE  pc' \in [Tasks -> Places]
  BY DEF TypeOK, Places, Goto

\* What is to be saved, and where to go from there, waits for the fence.
LEMMA SaveTyped ==
  ASSUME TypeOK, NEW t \in Tasks, NEW s \in Session,
         NEW p \in {"start", "call", "discard", "exit"}, Save(t, s, p)
  PROVE  /\ pc' \in [Tasks -> Places]
         /\ next' \in [Tasks -> Session]
         /\ then' \in [Tasks -> {"start", "call", "discard", "exit"}]
  BY DEF TypeOK, Places, Save, Goto

\* A write of rows takes their lock.
LEMMA WriteRowsTyped ==
  ASSUME TypeOK, NEW t \in Tasks, NEW new \in Rows, WriteRows(t, new)
  PROVE  /\ db' \in Rows /\ dirty' \in Rows
         /\ rowOwner' \in Tasks \cup {NoTask}
         /\ view' \in [Tasks -> Rows]
  BY FlushedTyped DEF TypeOK, WriteRows

\* The copy in the other store is a session.
LEMMA SetMirrorTyped ==
  ASSUME TypeOK, NEW s \in Session, SetMirror(s)
  PROVE  mirror' \in Session
  BY DEF TypeOK, SetMirror

-----------------------------------------------------------------------------
\* Every reachable state is well typed.
THEOREM Typed == Spec => []TypeOK
<1>1. Init => TypeOK
  <2> SUFFICES ASSUME Init PROVE TypeOK
    OBVIOUS
  <2>1. /\ pc \in [Tasks -> Places] /\ op \in [Tasks -> AllOps]
        /\ then \in [Tasks -> {"start", "call", "discard", "exit"}]
        /\ held \in [Tasks -> {"none", "owned", "lost"}]
        /\ gens \in Nat /\ started \in Nat /\ faults \in Nat
    BY DEF Init, AllOps, Places
  <2>2. /\ lease \in [LeaseClasses -> Tasks \cup {NoTask, Orphan}]
        /\ localLock \in [Nodes -> Tasks \cup {NoTask}]
        /\ rowOwner \in Tasks \cup {NoTask}
    BY DEF Init
  <2>3. /\ view \in [Tasks -> Rows] /\ prev \in [Tasks -> Session]
        /\ cur \in [Tasks -> Session] /\ next \in [Tasks -> Session]
        /\ db \in Rows /\ dirty \in Rows /\ mirror \in Session
    BY NoSessionTyped DEF Init
  <2>4. redisUp \in BOOLEAN /\ codeTask \in BOOLEAN
    BY DEF Init
  <2> QED
    BY <2>1, <2>2, <2>3, <2>4 DEF TypeOK, Places
<1>2. TypeOK /\ [Next]_vars => TypeOK'
  <2> SUFFICES ASSUME TypeOK, [Next]_vars PROVE TypeOK'
    OBVIOUS
  <2> USE DEF taskVars, rowVars, redisVars
  <2>begin. ASSUME NEW t \in Tasks, NEW o \in Ops, Begin(t, o) PROVE TypeOK'
    <3>1. o \in AllOps
      BY SessionAssumption
    <3>2. pc' \in [Tasks -> Places]
      BY <2>begin, GotoTyped DEF Begin, Places
    <3>3. /\ op' \in [Tasks -> AllOps] /\ started' \in Nat
          /\ view' \in [Tasks -> Rows] /\ prev' \in [Tasks -> Session]
          /\ cur' \in [Tasks -> Session] /\ next' \in [Tasks -> Session]
      BY <2>begin, <3>1, NoSessionTyped DEF Begin, TypeOK
    <3> QED
      BY <2>begin, <3>2, <3>3 DEF Begin, TypeOK, Places
  <2>task. ASSUME NEW t \in Tasks, FlushLoginTask(t) PROVE TypeOK'
    BY <2>task, GotoTyped DEF FlushLoginTask, TypeOK, Places
  <2>lock. ASSUME NEW t \in Tasks, LocalLock(t) PROVE TypeOK'
    BY <2>lock, GotoTyped DEF LocalLock, TypeOK, Places
  <2>acquire. ASSUME NEW t \in Tasks, AcquireLease(t) PROVE TypeOK'
    BY <2>acquire, GotoTyped DEF AcquireLease, TypeOK, Places
  <2>skip. ASSUME NEW t \in Tasks, SkipLease(t) PROVE TypeOK'
    BY <2>skip, GotoTyped DEF SkipLease, TypeOK, Places
  <2>refused. ASSUME NEW t \in Tasks, LeaseRefused(t) PROVE TypeOK'
    BY <2>refused, GotoTyped, LeaveTyped DEF LeaseRefused, Leave, TypeOK, Places
  <2>load. ASSUME NEW t \in Tasks, Load(t) PROVE TypeOK'
    <3>1. view[t].cipher \in Session /\ SeenMirror \in Session
      BY NoSessionTyped DEF TypeOK, Rows, SeenMirror
    <3>2. PICK s \in Loaded(view[t].cipher, SeenMirror) :
            /\ cur' = [cur EXCEPT ![t] = s]
            /\ \/ Save(t, Restored(s), "start")
               \/ Save(t, Restored(s), "call")
               \/ \E p \in {"start", "call", "exit"} :
                    Goto(t, p) /\ UNCHANGED <<next, then>>
      BY <2>load DEF Load
    <3>3. s \in Session /\ Restored(s) \in Session
      BY <3>1, LoadedTyped, BuildersTyped, 0 \in Nat
    <3>4. /\ pc' \in [Tasks -> Places]
          /\ next' \in [Tasks -> Session]
          /\ then' \in [Tasks -> {"start", "call", "discard", "exit"}]
      <4>1. CASE Save(t, Restored(s), "start")
        BY <4>1, <3>3, SaveTyped
      <4>2. CASE Save(t, Restored(s), "call")
        BY <4>2, <3>3, SaveTyped
      <4>3. CASE \E p \in {"start", "call", "exit"} :
                   Goto(t, p) /\ UNCHANGED <<next, then>>
        BY <4>3, GotoTyped DEF TypeOK, Places
      <4> QED
        BY <3>2, <4>1, <4>2, <4>3
    <3> QED
      BY <2>load, <3>2, <3>3, <3>4 DEF Load, TypeOK, Places
  <2>start. ASSUME NEW t \in Tasks, StartLogin(t) PROVE TypeOK'
    <3>1. cur[t] \in Session /\ Running(cur[t]) \in Session
      BY BuildersTyped, 0 \in Nat DEF TypeOK
    <3>2. /\ pc' \in [Tasks -> Places]
          /\ next' \in [Tasks -> Session]
          /\ then' \in [Tasks -> {"start", "call", "discard", "exit"}]
      BY <2>start, <3>1, SaveTyped DEF StartLogin
    <3> QED
      BY <2>start, <3>1, <3>2 DEF StartLogin, TypeOK, Places
  <2>check. ASSUME NEW t \in Tasks, CheckVersion(t) PROVE TypeOK'
    BY <2>check, GotoTyped DEF CheckVersion, TypeOK, Places
  <2>flush. ASSUME NEW t \in Tasks, FlushSession(t) PROVE TypeOK'
    <3> DEFINE new == [cipher |-> next[t], present |-> TRUE, version |-> next[t].version]
    <3>1. new \in Rows
      BY DEF TypeOK, Rows, Session
    <3>2. WriteRows(t, new)
      BY <2>flush DEF FlushSession
    <3> QED
      BY <2>flush, <3>1, <3>2, GotoTyped, WriteRowsTyped DEF FlushSession, TypeOK, Places
  <2>fails. ASSUME NEW t \in Tasks, FlushFails(t) PROVE TypeOK'
    BY <2>fails, GotoTyped, LeaveTyped DEF FlushFails, Leave, TypeOK, Places
  <2>mirror. ASSUME NEW t \in Tasks, SaveMirror(t) PROVE TypeOK'
    <3>1. next[t] \in Session /\ then[t] \in Places
      BY DEF TypeOK, Places
    <3> QED
      BY <2>mirror, <3>1, GotoTyped, SetMirrorTyped DEF SaveMirror, TypeOK, Places
  <2>answer. ASSUME NEW t \in Tasks, NEW a \in Answers(op[t]), Answer(t, a) PROVE TypeOK'
    <3>1. Result(t, a) \in Session
      BY ResultTyped
    <3>2. \E p \in {"start", "call", "discard", "exit"} : Save(t, Result(t, a), p)
      BY <2>answer DEF Answer
    <3>3. /\ pc' \in [Tasks -> Places]
          /\ next' \in [Tasks -> Session]
          /\ then' \in [Tasks -> {"start", "call", "discard", "exit"}]
      BY <3>1, <3>2, SaveTyped
    <3>4. gens' \in Nat
      BY <2>answer DEF Answer, TypeOK
    <3> QED
      BY <2>answer, <3>3, <3>4 DEF Answer, TypeOK, Places
  <2>dropped. ASSUME NEW t \in Tasks, AnswerDropped(t) PROVE TypeOK'
    BY <2>dropped, GotoTyped DEF AnswerDropped, TypeOK, Places
  <2>discard. ASSUME NEW t \in Tasks, Discard(t) PROVE TypeOK'
    <3> DEFINE new == [view[t] EXCEPT !.cipher = NoSession]
    <3>1. new \in Rows
      BY NoSessionTyped DEF TypeOK, Rows
    <3>2. WriteRows(t, new) /\ SetMirror(NoSession)
      BY <2>discard DEF Discard
    <3> QED
      BY <2>discard, <3>1, <3>2, GotoTyped, WriteRowsTyped, SetMirrorTyped, NoSessionTyped
         DEF Discard, TypeOK, Places
  <2>exit. ASSUME NEW t \in Tasks, Exit(t) PROVE TypeOK'
    BY <2>exit, GotoTyped, LeaveTyped DEF Exit, Leave, TypeOK, Places
  <2>clear. ASSUME NEW t \in Tasks, ClearRows(t) PROVE TypeOK'
    <3> DEFINE new == [cipher |-> NoSession, present |-> TRUE, version |-> 0]
    <3>1. new \in Rows
      BY NoSessionTyped DEF Rows
    <3>2. WriteRows(t, new)
      BY <2>clear DEF ClearRows
    <3> QED
      BY <2>clear, <3>1, <3>2, GotoTyped, WriteRowsTyped DEF ClearRows, TypeOK, Places
  <2>clearMirror. ASSUME NEW t \in Tasks, ClearMirror(t) PROVE TypeOK'
    BY <2>clearMirror, GotoTyped, SetMirrorTyped, NoSessionTyped
       DEF ClearMirror, TypeOK, Places
  <2>end. ASSUME NEW t \in Tasks, EndTransaction(t) PROVE TypeOK'
    <3>1. codeTask' \in BOOLEAN /\ db' \in Rows /\ rowOwner' \in Tasks \cup {NoTask}
      BY <2>end DEF EndTransaction, TypeOK, Waiting
    <3> QED
      BY <2>end, <3>1, GotoTyped DEF EndTransaction, TypeOK, Places
  <2>environment. ASSUME Environment PROVE TypeOK'
    <3> USE <2>environment DEF Fault
    <3>1. ASSUME NEW t \in Tasks, RenewRaises(t) PROVE TypeOK'
      BY <3>1, NoSessionTyped DEF RenewRaises, TypeOK
    <3>2. ASSUME NEW t \in Tasks, RenewRefused(t) PROVE TypeOK'
      BY <3>2, NoSessionTyped DEF RenewRefused, TypeOK
    <3>3. ASSUME NEW c \in LeaseClasses, LeaseExpires(c) PROVE TypeOK'
      BY <3>3, NoSessionTyped DEF LeaseExpires, TypeOK
    <3>4. ASSUME NEW c \in LeaseClasses, Stall(c) PROVE TypeOK'
      BY <3>4, NoSessionTyped DEF Stall, TypeOK
    <3>5. ASSUME Failover PROVE TypeOK'
      BY <3>5, NoSessionTyped DEF Failover, TypeOK
    <3>6. ASSUME RedisDown PROVE TypeOK'
      <4>1. redisUp' \in BOOLEAN
        BY <3>6 DEF RedisDown
      <4>2. faults' \in Nat
        BY <3>6 DEF RedisDown, TypeOK
      <4> QED
        BY <3>6, <4>1, <4>2 DEF RedisDown, TypeOK
    <3>7. ASSUME RedisUp PROVE TypeOK'
      BY <3>7, NoSessionTyped DEF RedisUp, TypeOK
    <3>8. ASSUME NEW n \in Nodes, Crash(n) PROVE TypeOK'
      BY <3>8, NoSessionTyped DEF Crash, TypeOK
    <3> QED
      BY <3>1, <3>2, <3>3, <3>4, <3>5, <3>6, <3>7, <3>8 DEF Environment
  <2>stutter. CASE UNCHANGED vars
    BY <2>stutter DEF vars, TypeOK
  <2> QED
    BY <2>begin, <2>task, <2>lock, <2>acquire, <2>skip, <2>refused, <2>load, <2>start,
       <2>check, <2>flush, <2>fails, <2>mirror, <2>answer, <2>dropped, <2>discard,
       <2>exit, <2>clear, <2>clearMirror, <2>end, <2>environment, <2>stutter
       DEF Next, Step, Saving, Finishing
<1> QED
  BY <1>1, <1>2, PTL DEF Spec

-----------------------------------------------------------------------------
(***************************************************************************)
(* The lease.  LeaseExclusive is not inductive: it needs that a lease      *)
(* object that believes it owns its lease has its token in Redis, and that *)
(* outside the `async with` block no lease object believes it owns one.    *)
(* A stalled event loop or a Redis that comes back empty breaks the first; *)
(* crashes, failed renewals and outages do not.                            *)
(***************************************************************************)

OutsideLease == {"idle", "task", "lock", "lease", "clear", "clearMirror",
                 "commit", "rollback"}

TokenInRedis == \A t \in Tasks : held[t] = "owned" => lease[Class(op[t])] = t
NoLeaseOutside == \A t \in Tasks : pc[t] \in OutsideLease => held[t] = "none"

LeaseInv == TypeOK /\ TokenInRedis /\ NoLeaseOutside

NoTokenLost == FaultKinds \cap {"stall", "failover"} = {}

\* Every operation has a lease class.
LEMMA ClassTyped == ASSUME NEW o PROVE Class(o) \in LeaseClasses
  BY DEF Class, LeaseClasses

\* Leaving the block gives up at most one's own token.
LEMMA LeaveKeepsTokens ==
  ASSUME LeaseInv, NEW t \in Tasks, Leave(t), UNCHANGED op
  PROVE  TokenInRedis' /\ held'[t] = "none" /\ \A u \in Tasks \ {t} : held'[u] = held[u]
<1>1. held'[t] = "none" /\ \A u \in Tasks \ {t} : held'[u] = held[u]
  BY DEF LeaseInv, TypeOK, Leave
<1>2. ASSUME NEW u \in Tasks, held'[u] = "owned" PROVE lease'[Class(op'[u])] = u
  <2>1. u # t /\ lease[Class(op[u])] = u
    BY <1>1, <1>2 DEF LeaseInv, TokenInRedis
  <2>2. lease'[Class(op[u])] = lease[Class(op[u])]
    BY <2>1, ClassTyped DEF LeaseInv, TypeOK, Leave
  <2> QED
    BY <2>1, <2>2
<1> QED
  BY <1>1, <1>2 DEF TokenInRedis

\* A step that leaves lease, leases' beliefs and operations alone and does not
\* take its task out of the block preserves the invariant.
LEMMA ElsewherePreserves ==
  ASSUME LeaseInv, TypeOK', NEW t \in Tasks, UNCHANGED <<op, held, lease>>,
         NEW p, pc' = [pc EXCEPT ![t] = p],
         p \in OutsideLease => pc[t] \in OutsideLease
  PROVE  LeaseInv'
  BY DEF LeaseInv, TypeOK, TokenInRedis, NoLeaseOutside

\* Whoever believes he owns a lease has his token in Redis.
LEMMA TokensStay == NoTokenLost => (Spec => []LeaseInv)
<1> SUFFICES ASSUME NoTokenLost PROVE Spec => []LeaseInv
  OBVIOUS
<1>1. Init /\ TypeOK => LeaseInv
  BY DEF Init, LeaseInv, TokenInRedis, NoLeaseOutside
<1>2. LeaseInv /\ TypeOK' /\ [Next]_vars => LeaseInv'
  <2> SUFFICES ASSUME LeaseInv, TypeOK', [Next]_vars PROVE LeaseInv'
    OBVIOUS
  <2> USE DEF taskVars, rowVars, redisVars, OutsideLease
  <2>begin. ASSUME NEW t \in Tasks, NEW o \in Ops, Begin(t, o) PROVE LeaseInv'
    <3>1. held[t] = "none" /\ held' = held /\ lease' = lease
      BY <2>begin DEF Begin, LeaseInv, NoLeaseOutside
    <3>2. /\ \A u \in Tasks \ {t} : op'[u] = op[u] /\ pc'[u] = pc[u]
      BY <2>begin DEF Begin, Goto, LeaseInv, TypeOK
    <3> QED
      BY <3>1, <3>2 DEF LeaseInv, TokenInRedis, NoLeaseOutside
  <2>task. ASSUME NEW t \in Tasks, FlushLoginTask(t) PROVE LeaseInv'
    BY <2>task, ElsewherePreserves DEF FlushLoginTask, Goto
  <2>lock. ASSUME NEW t \in Tasks, LocalLock(t) PROVE LeaseInv'
    BY <2>lock, ElsewherePreserves DEF LocalLock, Goto
  <2>acquire. ASSUME NEW t \in Tasks, AcquireLease(t) PROVE LeaseInv'
    <3>1. pc' = [pc EXCEPT ![t] = "load"] /\ held' = [held EXCEPT ![t] = "owned"]
      BY <2>acquire DEF AcquireLease, Goto
    <3>2. NoLeaseOutside'
      BY <3>1 DEF LeaseInv, TypeOK, NoLeaseOutside
    <3>3. ASSUME NEW u \in Tasks, held'[u] = "owned" PROVE lease'[Class(op'[u])] = u
      <4>1. lease[Class(op[t])] = NoTask /\ op' = op
            /\ lease' = [lease EXCEPT ![Class(op[t])] = t]
        BY <2>acquire DEF AcquireLease
      <4>2. CASE u = t
        BY <4>1, <4>2, ClassTyped DEF LeaseInv, TypeOK
      <4>3. CASE u # t
        <5>1. lease[Class(op[u])] = u
          BY <4>3, <3>1, <3>3 DEF LeaseInv, TypeOK, TokenInRedis
        <5>2. Class(op[u]) # Class(op[t])
          BY <5>1, <4>1, SessionAssumption
        <5> QED
          BY <5>1, <5>2, <4>1, ClassTyped DEF LeaseInv, TypeOK
      <4> QED
        BY <4>2, <4>3
    <3> QED
      BY <3>2, <3>3 DEF LeaseInv, TokenInRedis
  <2>skip. ASSUME NEW t \in Tasks, SkipLease(t) PROVE LeaseInv'
    BY <2>skip, ElsewherePreserves DEF SkipLease, Goto
  <2>leave. ASSUME NEW t \in Tasks, LeaseRefused(t) \/ FlushFails(t) \/ Exit(t)
            PROVE LeaseInv'
    <3>1. Leave(t) /\ op' = op /\ \E p : pc' = [pc EXCEPT ![t] = p]
      BY <2>leave DEF LeaseRefused, FlushFails, Exit, Goto
    <3>2. TokenInRedis' /\ held'[t] = "none" /\ \A u \in Tasks \ {t} : held'[u] = held[u]
      BY <3>1, LeaveKeepsTokens
    <3>3. NoLeaseOutside'
      BY <3>1, <3>2 DEF LeaseInv, TypeOK, NoLeaseOutside
    <3> QED
      BY <3>2, <3>3 DEF LeaseInv
  <2>load. ASSUME NEW t \in Tasks, Load(t) PROVE LeaseInv'
    <3>1. \E p \in {"check", "start", "call", "exit"} : pc' = [pc EXCEPT ![t] = p]
      BY <2>load DEF Load, Save, Goto
    <3> QED
      BY <2>load, <3>1, ElsewherePreserves DEF Load
  <2>start. ASSUME NEW t \in Tasks, StartLogin(t) PROVE LeaseInv'
    BY <2>start, ElsewherePreserves DEF StartLogin, Save, Goto
  <2>check. ASSUME NEW t \in Tasks, CheckVersion(t) PROVE LeaseInv'
    BY <2>check, ElsewherePreserves DEF CheckVersion, Goto
  <2>flush. ASSUME NEW t \in Tasks, FlushSession(t) PROVE LeaseInv'
    BY <2>flush, ElsewherePreserves DEF FlushSession, Goto
  <2>mirror. ASSUME NEW t \in Tasks, SaveMirror(t) PROVE LeaseInv'
    <3>1. then[t] \notin OutsideLease
      BY DEF LeaseInv, TypeOK
    <3> QED
      BY <2>mirror, <3>1, ElsewherePreserves DEF SaveMirror, Goto
  <2>answer. ASSUME NEW t \in Tasks, NEW a \in Answers(op[t]), Answer(t, a) PROVE LeaseInv'
    BY <2>answer, ElsewherePreserves DEF Answer, Save, Goto
  <2>dropped. ASSUME NEW t \in Tasks, AnswerDropped(t) PROVE LeaseInv'
    BY <2>dropped, ElsewherePreserves DEF AnswerDropped, Goto
  <2>discard. ASSUME NEW t \in Tasks, Discard(t) PROVE LeaseInv'
    BY <2>discard, ElsewherePreserves DEF Discard, Goto
  <2>clear. ASSUME NEW t \in Tasks, ClearRows(t) PROVE LeaseInv'
    BY <2>clear, ElsewherePreserves DEF ClearRows, Goto
  <2>clearMirror. ASSUME NEW t \in Tasks, ClearMirror(t) PROVE LeaseInv'
    BY <2>clearMirror, ElsewherePreserves DEF ClearMirror, Goto
  <2>end. ASSUME NEW t \in Tasks, EndTransaction(t) PROVE LeaseInv'
    BY <2>end, ElsewherePreserves DEF EndTransaction, Goto
  <2>renew. ASSUME NEW t \in Tasks, RenewRaises(t) \/ RenewRefused(t) PROVE LeaseInv'
    <3>1. held' = [held EXCEPT ![t] = "lost"] /\ held[t] = "owned"
          /\ UNCHANGED <<pc, op, lease>>
      BY <2>renew DEF RenewRaises, RenewRefused
    <3> QED
      BY <3>1 DEF LeaseInv, TypeOK, TokenInRedis, NoLeaseOutside
  <2>expire. ASSUME NEW c \in LeaseClasses, LeaseExpires(c) PROVE LeaseInv'
    <3>1. lease' = [lease EXCEPT ![c] = NoTask] /\ UNCHANGED <<pc, op, held>>
      BY <2>expire DEF LeaseExpires
    <3>2. \A u \in Tasks : held[u] = "owned" => Class(op[u]) # c
      BY <2>expire, SessionAssumption DEF LeaseExpires, LeaseInv, TokenInRedis
    <3> QED
      BY <3>1, <3>2, ClassTyped DEF LeaseInv, TypeOK, TokenInRedis, NoLeaseOutside
  <2>stall. ASSUME NEW c \in LeaseClasses, Stall(c) PROVE LeaseInv'
    BY <2>stall DEF Stall, Fault, NoTokenLost
  <2>failover. CASE Failover
    BY <2>failover DEF Failover, Fault, NoTokenLost
  <2>redis. CASE RedisDown \/ RedisUp
    BY <2>redis DEF RedisDown, RedisUp, LeaseInv, TokenInRedis, NoLeaseOutside
  <2>crash. ASSUME NEW n \in Nodes, Crash(n) PROVE LeaseInv'
    <3> DEFINE dead == {t \in Tasks : NodeOf[t] = n}
    <3>1. /\ pc' = [t \in Tasks |-> IF t \in dead THEN "idle" ELSE pc[t]]
          /\ held' = [t \in Tasks |-> IF t \in dead THEN "none" ELSE held[t]]
          /\ lease' = [c \in LeaseClasses |-> IF lease[c] \in dead THEN Orphan ELSE lease[c]]
          /\ op' = op
      BY <2>crash DEF Crash
    <3>2. NoLeaseOutside'
      BY <3>1 DEF LeaseInv, NoLeaseOutside
    <3>3. ASSUME NEW u \in Tasks, held'[u] = "owned" PROVE lease'[Class(op'[u])] = u
      <4>1. u \notin dead /\ lease[Class(op[u])] = u
        BY <3>1, <3>3 DEF LeaseInv, TokenInRedis
      <4> QED
        BY <4>1, <3>1, ClassTyped
    <3> QED
      BY <3>2, <3>3 DEF LeaseInv, TokenInRedis
  <2>stutter. CASE UNCHANGED vars
    BY <2>stutter DEF vars, LeaseInv, TokenInRedis, NoLeaseOutside
  <2> QED
    BY <2>begin, <2>task, <2>lock, <2>acquire, <2>skip, <2>leave, <2>load, <2>start,
       <2>check, <2>flush, <2>mirror, <2>answer, <2>dropped, <2>discard, <2>clear,
       <2>clearMirror, <2>end, <2>renew, <2>expire, <2>stall, <2>failover, <2>redis,
       <2>crash, <2>stutter
       DEF Next, Step, Saving, Finishing, Environment
<1> QED
  BY <1>1, <1>2, Typed, PTL DEF Spec

\* While no token can vanish under its owner, the lease is exclusive: through
\* any number of crashes, failed renewals and Redis outages, two operations of
\* one class never both believe they own it.
THEOREM LeaseMutualExclusion == NoTokenLost => (Spec => []LeaseExclusive)
<1>1. LeaseInv => LeaseExclusive
  BY DEF LeaseInv, TokenInRedis, LeaseExclusive
<1> QED
  BY <1>1, TokensStay, PTL

-----------------------------------------------------------------------------
(***************************************************************************)
(* The life of a session where nothing fails.  In one process, or in any   *)
(* number of them that only log in and take codes, one operation at a time *)
(* is between its lease and its exit.  It has read the session in Redis,   *)
(* whatever copy of the rows its transaction sees, and it saves a legal    *)
(* successor; the rows follow, as late as their commits are.  The accepted *)
(* login can then only be replaced by a newer one: what a fault, a         *)
(* restarted challenge or a business call in another process would break.  *)
(***************************************************************************)

Undisturbed ==
  /\ FaultKinds = {} /\ "clear" \notin Ops /\ "restart" \in Excluded
  /\ \/ Ops \subseteq {"login", "challenge"}
     \/ "expired" \in Excluded /\ \A t, u \in Tasks : NodeOf[t] = NodeOf[u]

Saves == {"check", "flush", "mirror"}
Inside == Saves \cup {"load", "start", "call", "exit"}

LocksOf(t) ==
  /\ pc[t] \notin {"clear", "clearMirror", "discard"}
  /\ pc[t] # "idle" => op[t] \in Ops
  /\ pc[t] \in Inside => held[t] = "owned"
  /\ held[t] # "lost"
  /\ pc[t] \in Inside \cup {"lease"} => localLock[NodeOf[t]] = t
  /\ op[t] = "login" /\ pc[t] \in Inside \cup {"lock", "lease"} => rowOwner = t
  /\ pc[t] = "mirror" => rowOwner = t

\* A session nobody is logging in with: no login, one asked for a code, or a usable one.
Settled(s) ==
  \/ s.status \in {"none", "login_failed"} /\ s.gen = 0 /\ s.kept = 0
  \/ Waiting(s) /\ s.gen = 0
  \/ Usable(s) /\ s.gen # 0 /\ s.kept = 0

\* SessionLifecycle!Next, of a session and its successor.
Follows(b, a) ==
  /\ b = [status |-> b.status, version |-> a.version + 1, gen |-> b.gen, kept |-> b.kept]
  /\ \/ b.status = "logging_in" /\ ~Restorable(a) /\ b.gen = Login(a) /\ b.kept = 0
     \/ /\ a.status \in {"logging_in", "waiting_challenge"}
        /\ \/ b.status = "authenticated" /\ b.gen > Login(a) /\ b.kept = 0
           \/ Waiting(b) /\ b.gen = 0 /\ b.kept = Login(a)
           \/ b.status = "login_failed" /\ Login(a) = 0 /\ b.gen = 0 /\ b.kept = 0
           \/ b.status = "degraded" /\ Login(a) # 0 /\ b.gen = Login(a) /\ b.kept = 0
     \/ Usable(a) /\ Usable(b) /\ b.gen = a.gen /\ b.kept = 0

\* What a login begins from.
Fresh(s) == Settled(s) /\ ~Restorable(s)

Known(s) == s.gen <= gens /\ s.kept <= gens

\* What is to be saved, by where the operation goes on from.
Prepared(t) ==
  /\ Follows(next[t], cur[t]) /\ Known(next[t])
  /\ \/ then[t] = "call" /\ op[t] = "login" /\ next[t] = Running(prev[t]) /\ Fresh(prev[t])
     \/ then[t] = "start" /\ op[t] = "login" /\ Usable(next[t]) /\ Settled(next[t])
     \/ then[t] = "call" /\ op[t] \in BusinessOps \cup {"keepalive"}
                         /\ Usable(next[t]) /\ Settled(next[t])
     \/ then[t] = "exit" /\ Settled(next[t])

Called(t) ==
  \/ op[t] = "login" /\ cur[t] = Running(prev[t]) /\ Fresh(prev[t])
  \/ op[t] = "challenge" /\ Waiting(cur[t])
  \/ op[t] \in BusinessOps \cup {"keepalive"} /\ Usable(cur[t]) /\ Settled(cur[t])

TaskOK(t) ==
  /\ pc[t] \in Inside \ {"load"} => cur[t] = mirror
  /\ pc[t] = "start" => op[t] = "login" /\ Fresh(cur[t])
  /\ pc[t] = "call" => Called(t)
  /\ pc[t] \in Saves => Prepared(t)

\* The session in Redis is settled, but for the login that is between its two saves.
LoggingIn(t) == op[t] = "login" /\ pc[t] \in Saves \cup {"call"}

MirrorOK == Known(mirror) /\ (Settled(mirror) \/ \E t \in Tasks : LoggingIn(t))

\* A copy of the rows is as the session in Redis, or older, or just being saved.
Behind(row) ==
  /\ row.version <= mirror.version
  /\ row.cipher.version < mirror.version \/ row.cipher = mirror

SavedBy(t, row) == pc[t] = "mirror" /\ row.cipher = next[t] /\ row.version <= next[t].version

Sound(s) == Usable(s) => s.gen # 0

CopiesOK ==
  /\ Behind(db) /\ Login(db.cipher) <= Login(mirror) /\ Sound(db.cipher)
  /\ \A t \in Tasks : Behind(view[t]) \/ SavedBy(t, view[t])
  /\ \A t \in Tasks : rowOwner = t =>
       \/ Behind(dirty) /\ dirty.cipher \in {db.cipher, mirror} /\ pc[t] # "mirror"
       \/ SavedBy(t, dirty)

LifeInv ==
  /\ LeaseInv /\ redisUp /\ MirrorOK /\ CopiesOK
  /\ \A t \in Tasks : LocksOf(t) /\ TaskOK(t)

\* Nobody else moves.
Others(t) ==
  \A u \in Tasks \ {t} :
    /\ pc'[u] = pc[u] /\ op'[u] = op[u] /\ view'[u] = view[u] /\ prev'[u] = prev[u]
    /\ cur'[u] = cur[u] /\ next'[u] = next[u] /\ then'[u] = then[u] /\ held'[u] = held[u]
    /\ \A n \in Nodes : localLock[n] = u => localLock'[n] = u

\* A session's fields.
LEMMA Fields ==
  ASSUME NEW s \in Session
  PROVE  s.status \in Statuses /\ s.version \in Nat /\ s.gen \in Nat /\ s.kept \in Nat /\ Login(s) \in Nat
  BY DEF Session, Login

\* One operation at a time is inside: by the process lock, or by the lease they all take.
LEMMA OneInside ==
  ASSUME Undisturbed, LifeInv, NEW t \in Tasks, NEW u \in Tasks, pc[t] \in Inside, pc[u] \in Inside
  PROVE  t = u
<1>1. LocksOf(t) /\ LocksOf(u) /\ LeaseInv
  BY DEF LifeInv
<1>2. held[t] = "owned" /\ held[u] = "owned" /\ localLock[NodeOf[t]] = t /\ localLock[NodeOf[u]] = u
      /\ op[t] \in Ops /\ op[u] \in Ops
  BY <1>1 DEF LocksOf, Inside, Saves
<1>3. CASE Ops \subseteq {"login", "challenge"}
  BY <1>1, <1>2, <1>3 DEF LeaseInv, TokenInRedis, Class
<1>4. CASE NodeOf[t] = NodeOf[u]
  BY <1>2, <1>4
<1> QED
  BY <1>3, <1>4 DEF Undisturbed

\* load() returns the session in Redis, whatever copy of the row it sees.
LEMMA LoadedIsMirror ==
  ASSUME LifeInv, NEW row \in Rows, Behind(row), NEW s \in Loaded(row.cipher, SeenMirror)
  PROVE  s = mirror
<1>1. SeenMirror = mirror /\ mirror \in Session /\ row.cipher \in Session
  BY DEF LifeInv, LeaseInv, TypeOK, SeenMirror, Rows
<1>2. mirror.version \in Nat /\ row.cipher.version \in Nat /\ NoSession.version = 0
  BY <1>1, Fields DEF NoSession
<1>3. row.cipher = mirror \/ row.cipher.version < mirror.version
  BY DEF Behind
<1>4. CASE row.cipher = mirror
  BY <1>1, <1>4 DEF Loaded
<1>5. CASE row.cipher.version < mirror.version
  BY <1>1, <1>2, <1>5 DEF Loaded
<1> QED
  BY <1>3, <1>4, <1>5

\* The accepted login is kept or replaced by a newer one.
LEMMA FollowsKeepsLogin ==
  ASSUME NEW a \in Session, NEW b \in Session, Follows(b, a)
  PROVE  Login(a) <= Login(b) /\ b.version = a.version + 1
<1>1. Login(a) \in Nat /\ Login(b) \in Nat /\ a.gen \in Nat
  BY Fields
<1>2. b.version = a.version + 1
  BY DEF Follows
<1>3. Waiting(b) => Login(b) = b.kept
  BY DEF Login
<1>4. ~Waiting(b) => Login(b) = b.gen
  BY DEF Login
<1>5. Usable(a) => Login(a) = a.gen
  BY DEF Login, Usable, Waiting
<1>6. Login(a) <= Login(b)
  BY <1>1, <1>3, <1>4, <1>5 DEF Follows, Usable, Waiting
<1> QED
  BY <1>2, <1>6

\* What a login, a code and a business call make of the session they found.
LEMMA BuildersFollow ==
  ASSUME NEW p \in Session, Known(p), gens \in Nat
  PROVE  /\ Restorable(p) /\ Settled(p) =>
              /\ Follows(Restored(p), p) /\ Known(Restored(p))
              /\ Usable(Restored(p)) /\ Settled(Restored(p))
         /\ Fresh(p) => Follows(Running(p), p) /\ Known(Running(p))
<1>1. p.gen \in Nat /\ p.kept \in Nat /\ p.version \in Nat
  BY Fields
<1>2. ASSUME Restorable(p), Settled(p)
      PROVE  /\ Follows(Restored(p), p) /\ Known(Restored(p))
             /\ Usable(Restored(p)) /\ Settled(Restored(p))
  BY <1>1, <1>2 DEF Restored, Restorable, Waiting, Follows, Known, Usable, Settled, Login
<1>3. ASSUME Fresh(p) PROVE Follows(Running(p), p) /\ Known(Running(p))
  <2>1. p.gen = Login(p)
    BY <1>1, <1>3 DEF Fresh, Settled, Restorable, Waiting, Usable, Login
  <2> QED
    BY <1>1, <1>3, <2>1 DEF Running, Fresh, Follows, Known, Restorable, Waiting
<1> QED
  BY <1>2, <1>3

\* What the answer of the platform makes of a session is a settled successor.
LEMMA ResultFollows ==
  ASSUME Undisturbed, LifeInv, NEW t \in Tasks, NEW a \in Answers(op[t]), pc[t] = "call", Answer(t, a),
         NEW r, r = Result(t, a)
  PROVE  /\ then'[t] = "exit" /\ gens' \in {gens, gens + 1}
         /\ next'[t] = r /\ pc'[t] = "check"
         /\ Follows(r, cur[t]) /\ Known(r)' /\ Settled(r)
<1>1. /\ cur[t] \in Session /\ prev[t] \in Session /\ gens \in Nat /\ cur[t] = mirror
      /\ Called(t) /\ Known(mirror) /\ op[t] \in Ops /\ op[t] \in AllOps
  BY DEF LifeInv, LeaseInv, TypeOK, TaskOK, Inside, MirrorOK, LocksOf
<1>2. /\ cur[t].gen \in Nat /\ cur[t].kept \in Nat /\ cur[t].version \in Nat
      /\ prev[t].gen \in Nat /\ prev[t].kept \in Nat /\ prev[t].version \in Nat
      /\ cur[t].gen <= gens /\ cur[t].kept <= gens
  BY <1>1, Fields DEF Known
<1>3. a \notin {"expired", "restart"}
  BY <1>1 DEF Answers, Undisturbed
<1>4. /\ next'[t] = r /\ then'[t] = "exit" /\ pc'[t] = "check"
      /\ gens' = IF op[t] \in {"login", "challenge"} /\ a = "ok" THEN gens + 1 ELSE gens
  BY <1>3 DEF Answer, Save, Goto, LifeInv, LeaseInv, TypeOK
<1>5. CASE op[t] = "login"
  <2>1. /\ cur[t] = Running(prev[t]) /\ Fresh(prev[t]) /\ a \in {"ok", "code", "fail"}
        /\ r = LoginResult(t, a)
    BY <1>1, <1>5 DEF Called, Answers, Result, BusinessOps
  <2>2. /\ cur[t].status = "logging_in" /\ cur[t].gen = prev[t].gen /\ cur[t].kept = 0
        /\ Login(cur[t]) = prev[t].gen /\ ~Usable(cur[t])
    BY <2>1 DEF Running, Login, Waiting, Usable
  <2>3. CASE a = "ok"
    <3>1. r = [status |-> "authenticated", version |-> cur[t].version + 1, gen |-> gens + 1, kept |-> 0]
      BY <2>1, <2>3 DEF LoginResult, Authenticated
    <3>2. gens' = gens + 1 /\ gens + 1 > Login(cur[t])
      BY <1>1, <1>2, <1>4, <1>5, <2>2, <2>3
    <3> QED
      BY <1>1, <1>4, <2>1, <2>2, <3>1, <3>2 DEF Follows, Known, Settled, Usable, Waiting
  <2>4. CASE a = "code"
    <3>1. UsableOr0(prev[t]) = prev[t].gen
      BY <2>1 DEF UsableOr0, Fresh, Settled, Restorable, Waiting, Usable
    <3> QED
      BY <1>2, <1>4, <1>5, <2>1, <2>2, <2>4, <3>1
         DEF LoginResult, Challenged, Follows, Known, Settled, Usable, Waiting
  <2>5. CASE a = "fail" /\ Usable(prev[t])
    <3>1. prev[t].gen # 0 /\ prev[t].kept = 0
      BY <2>1, <2>5 DEF Fresh, Settled, Waiting, Usable
    <3>2. r = [status |-> "degraded", version |-> cur[t].version + 1,
                          gen |-> prev[t].gen, kept |-> 0]
      BY <1>1, <2>1, <2>5, <3>1 DEF LoginResult, PreservedAfterFailure, Session
    <3> QED
      BY <1>2, <1>4, <1>5, <2>2, <2>5, <3>1, <3>2 DEF Follows, Known, Settled, Usable, Waiting
  <2>6. CASE a = "fail" /\ ~Usable(prev[t])
    <3>1. prev[t].gen = 0
      BY <2>1, <2>6 DEF Fresh, Settled
    <3>2. r = [status |-> "login_failed", version |-> cur[t].version + 1,
                          gen |-> 0, kept |-> 0]
      BY <1>1, <2>1, <2>2, <2>6, <3>1 DEF LoginResult, Failed, Session
    <3> QED
      BY <1>2, <1>4, <1>5, <2>2, <2>6, <3>1, <3>2 DEF Follows, Known, Settled, Usable, Waiting
  <2> QED
    BY <1>4, <1>5, <2>1, <2>3, <2>4, <2>5, <2>6
<1>6. CASE op[t] = "challenge"
  <2>1. /\ Waiting(cur[t]) /\ a \in {"ok", "retry", "fail"}
        /\ r = ChallengeResult(t, a)
    BY <1>1, <1>3, <1>6 DEF Called, Answers, Result, BusinessOps
  <2>2. cur[t].gen = 0 /\ Login(cur[t]) = cur[t].kept
    <3>1. ~\E u \in Tasks : LoggingIn(u)
      <4> SUFFICES ASSUME NEW u \in Tasks, LoggingIn(u) PROVE FALSE
        OBVIOUS
      <4>1. u = t
        BY OneInside DEF LoggingIn, Inside, Saves
      <4> QED
        BY <4>1, <1>6 DEF LoggingIn
    <3>2. Settled(cur[t])
      BY <1>1, <3>1 DEF LifeInv, MirrorOK
    <3> QED
      BY <2>1, <3>2 DEF Settled, Waiting, Usable, Login
  <2>3. CASE a = "ok"
    <3>1. r = [status |-> "authenticated", version |-> cur[t].version + 1, gen |-> gens + 1, kept |-> 0]
      BY <2>1, <2>3 DEF ChallengeResult, Authenticated
    <3>2. gens' = gens + 1 /\ gens + 1 > Login(cur[t])
      BY <1>1, <1>2, <1>4, <1>6, <2>2, <2>3
    <3> QED
      BY <1>1, <1>4, <2>1, <2>2, <3>1, <3>2 DEF Follows, Known, Settled, Usable, Waiting
  <2>4. CASE a = "retry"
    BY <1>2, <1>4, <1>6, <2>1, <2>2, <2>4
       DEF ChallengeResult, Challenged, Follows, Known, Settled, Usable, Waiting
  <2>5. CASE a = "fail" /\ Restorable(cur[t])
    BY <1>2, <1>4, <1>6, <2>1, <2>2, <2>5
       DEF ChallengeResult, Restored, Restorable, Follows, Known, Settled, Usable, Waiting
  <2>6. CASE a = "fail" /\ ~Restorable(cur[t])
    <3>1. cur[t].kept = 0
      BY <2>1, <2>6 DEF Restorable
    <3>2. r = [status |-> "login_failed", version |-> cur[t].version + 1,
                          gen |-> 0, kept |-> 0]
      BY <1>1, <2>1, <2>2, <2>6, <3>1 DEF ChallengeResult, Failed, Session
    <3> QED
      BY <1>2, <1>4, <1>6, <2>1, <2>2, <2>6, <3>1, <3>2 DEF Follows, Known, Settled, Usable, Waiting
  <2> QED
    BY <1>4, <1>6, <2>1, <2>3, <2>4, <2>5, <2>6
<1>7. CASE op[t] \notin {"login", "challenge"}
  <2>1. Usable(cur[t]) /\ Settled(cur[t])
    BY <1>1, <1>7 DEF Called
  <2>2. cur[t].gen # 0 /\ cur[t].kept = 0
    BY <2>1 DEF Settled, Usable, Waiting
  <2>3. PICK st \in {"authenticated", "degraded"} : r = AfterBusiness(cur[t], st)
    BY <1>3, <1>7 DEF Result, BusinessResult
  <2>4. r = [status |-> st, version |-> cur[t].version + 1, gen |-> cur[t].gen, kept |-> 0]
    BY <1>1, <2>2, <2>3 DEF AfterBusiness, Session
  <2> QED
    BY <1>2, <1>4, <1>7, <2>1, <2>2, <2>4 DEF Follows, Known, Settled, Usable, Waiting
<1> QED
  BY <1>5, <1>6, <1>7

\* A step of one task that writes neither rows nor the session in Redis.
LEMMA QuietStep ==
  ASSUME LifeInv, LeaseInv', NEW t \in Tasks, Others(t),
         UNCHANGED <<mirror, db, dirty, rowOwner, redisUp>>, gens' \in {gens, gens + 1},
         LocksOf(t)', TaskOK(t)', Behind(view'[t]),
         pc[t] # "mirror", pc'[t] # "mirror", LoggingIn(t) => LoggingIn(t)' \/ Settled(mirror)
  PROVE  LifeInv'
<1>1. /\ \A u \in Tasks : LocksOf(u) /\ TaskOK(u)
      /\ redisUp /\ gens \in Nat /\ NodeOf \in [Tasks -> Nodes]
  BY SessionAssumption DEF LifeInv, LeaseInv, TypeOK
<1>2. \A s \in Session : Known(s) => Known(s)'
  BY <1>1, Fields DEF Known
<1>3. ASSUME NEW u \in Tasks \ {t} PROVE LocksOf(u)' /\ TaskOK(u)'
  <2>1. LocksOf(u) /\ TaskOK(u) /\ next[u] \in Session
    BY <1>1 DEF LifeInv, LeaseInv, TypeOK
  <2>2. LocksOf(u)'
    BY <1>1, <2>1 DEF LocksOf, Others
  <2>3. Prepared(u) => Prepared(u)'
    BY <1>2, <2>1 DEF Prepared, Others
  <2>4. TaskOK(u)'
    BY <2>1, <2>3 DEF TaskOK, Called, Others
  <2> QED
    BY <2>2, <2>4
<1>4. MirrorOK'
  <2>1. mirror \in Session /\ Known(mirror)
    BY DEF LifeInv, LeaseInv, TypeOK, MirrorOK
  <2>2. \A u \in Tasks \ {t} : LoggingIn(u) => LoggingIn(u)'
    BY DEF LoggingIn, Others
  <2>3. Settled(mirror) \/ \E u \in Tasks : LoggingIn(u)'
    BY <2>2 DEF LifeInv, MirrorOK
  <2> QED
    BY <1>2, <2>1, <2>3 DEF MirrorOK
<1>5. CopiesOK'
  <2>1. \A u \in Tasks \ {t} : Behind(view[u])' \/ SavedBy(u, view[u])'
    BY DEF LifeInv, CopiesOK, Behind, SavedBy, Others
  <2>2. Behind(view[t])'
    BY DEF Behind
  <2>3. ASSUME NEW u \in Tasks, rowOwner' = u
        PROVE  \/ Behind(dirty)' /\ dirty' \in {dirty} /\ dirty.cipher \in {db.cipher, mirror} /\ pc'[u] # "mirror"
               \/ SavedBy(u, dirty)'
    BY <2>3 DEF LifeInv, CopiesOK, Behind, SavedBy, Others
  <2>4. (Behind(db) /\ Login(db.cipher) <= Login(mirror) /\ Sound(db.cipher))'
    BY DEF LifeInv, CopiesOK, Behind
  <2> QED
    BY <2>1, <2>2, <2>3, <2>4 DEF CopiesOK
<1> QED
  BY <1>1, <1>3, <1>4, <1>5 DEF LifeInv

-----------------------------------------------------------------------------
\* What an operation does before it has the session keeps the invariant.
LEMMA EntryKeeps ==
  ASSUME Undisturbed, LifeInv, LeaseInv', NEW t \in Tasks,
         \/ \E o \in Ops : Begin(t, o)
         \/ FlushLoginTask(t) \/ LocalLock(t) \/ AcquireLease(t) \/ SkipLease(t) \/ LeaseRefused(t)
         \/ Load(t)
  PROVE  LifeInv'
<1> USE DEF taskVars, rowVars, redisVars
<1>0. /\ TypeOK /\ LocksOf(t) /\ TaskOK(t) /\ redisUp /\ mirror \in Session /\ gens \in Nat
      /\ CopiesOK /\ MirrorOK
  BY DEF LifeInv, LeaseInv, TypeOK
<1>begin. ASSUME NEW o \in Ops, Begin(t, o) PROVE LifeInv'
  <2>1. /\ pc[t] = "idle" /\ pc'[t] \in {"task", "lock"} /\ op'[t] = o
        /\ (o = "login" => pc'[t] = "task") /\ view'[t] = db /\ Others(t)
    BY <1>begin, <1>0 DEF Begin, Goto, TypeOK, Undisturbed, Others
  <2>2. LocksOf(t)'
    BY <1>begin, <1>0, <2>1 DEF Begin, LocksOf, Inside, Saves
  <2>3. TaskOK(t)'
    BY <2>1 DEF TaskOK, Inside, Saves
  <2>4. Behind(view'[t])
    BY <1>0, <2>1 DEF CopiesOK
  <2> QED
    BY <1>begin, <1>0, <2>1, <2>2, <2>3, <2>4, QuietStep DEF Begin, LoggingIn, Saves
<1>task. CASE FlushLoginTask(t)
  <2>1. /\ pc[t] = "task" /\ pc'[t] = "lock" /\ rowOwner' = t /\ dirty' = db /\ Others(t)
        /\ UNCHANGED <<op, view, prev, cur, next, then, held, db, redisVars, localLock, gens>>
    BY <1>task, <1>0 DEF FlushLoginTask, Goto, TypeOK, Others
  <2>2. \A u \in Tasks : pc[u] # "mirror" /\ ~(op[u] = "login" /\ pc[u] \in Inside \cup {"lock", "lease"})
    BY <1>task, SessionAssumption DEF FlushLoginTask, LifeInv, LocksOf
  <2>3. ASSUME NEW u \in Tasks PROVE LocksOf(u)' /\ TaskOK(u)'
    <3>1. CASE u = t
      BY <1>0, <2>1, <3>1 DEF LocksOf, TaskOK, Inside, Saves
    <3>2. CASE u # t
      <4>1. LocksOf(u) /\ TaskOK(u)
        BY DEF LifeInv
      <4>2. LocksOf(u)'
        BY <2>1, <2>2, <3>2, <4>1 DEF LocksOf, Others
      <4>3. TaskOK(u)'
        BY <2>1, <3>2, <4>1 DEF TaskOK, Called, Prepared, Known, Others
      <4> QED
        BY <4>2, <4>3
    <3> QED
      BY <3>1, <3>2
  <2>4. MirrorOK'
    BY <1>0, <2>1, <2>2 DEF MirrorOK, Known, LoggingIn, Inside
  <2>5. CopiesOK'
    BY <1>0, <2>1, <2>2 DEF CopiesOK, Behind, SavedBy
  <2> QED
    BY <1>0, <2>1, <2>3, <2>4, <2>5 DEF LifeInv
<1>lock. CASE LocalLock(t)
  <2>1. /\ pc[t] = "lock" /\ pc'[t] = "lease" /\ localLock'[NodeOf[t]] = t
        /\ UNCHANGED <<op, view, prev, cur, next, then, held, rowVars, redisVars, gens>>
    BY <1>lock, <1>0, SessionAssumption DEF LocalLock, Goto, TypeOK
  <2>2. Others(t)
    BY <1>lock, <1>0, SessionAssumption DEF LocalLock, Goto, TypeOK, Others
  <2>3. LocksOf(t)' /\ TaskOK(t)'
    BY <1>0, <2>1 DEF LocksOf, TaskOK, Inside, Saves
  <2>4. Behind(view'[t])
    BY <1>0, <2>1 DEF CopiesOK, SavedBy
  <2> QED
    BY <2>1, <2>2, <2>3, <2>4, QuietStep DEF LoggingIn, Saves
<1>acquire. CASE AcquireLease(t)
  <2>1. /\ pc[t] = "lease" /\ pc'[t] = "load" /\ held'[t] = "owned"
        /\ UNCHANGED <<op, view, prev, cur, next, then, rowVars, mirror, redisUp, localLock, gens>>
    BY <1>acquire, <1>0 DEF AcquireLease, Goto, TypeOK
  <2>2. Others(t)
    BY <1>acquire, <1>0 DEF AcquireLease, Goto, TypeOK, Others
  <2>3. LocksOf(t)' /\ TaskOK(t)'
    BY <1>0, <2>1 DEF LocksOf, TaskOK, Inside, Saves
  <2>4. Behind(view'[t])
    BY <1>0, <2>1 DEF CopiesOK, SavedBy
  <2> QED
    BY <2>1, <2>2, <2>3, <2>4, QuietStep DEF LoggingIn, Saves
<1>skip. CASE SkipLease(t)
  BY <1>skip, <1>0 DEF SkipLease
<1>refused. CASE LeaseRefused(t)
  <2>1. /\ pc[t] = "lease" /\ pc'[t] = "rollback" /\ held'[t] = "none"
        /\ UNCHANGED <<op, view, prev, cur, next, then, rowVars, mirror, redisUp, gens>>
    BY <1>refused, <1>0 DEF LeaseRefused, Leave, Goto, TypeOK
  <2>2. Others(t)
    BY <1>refused, <1>0 DEF LeaseRefused, Leave, Goto, TypeOK, Others
  <2>3. LocksOf(t)' /\ TaskOK(t)'
    BY <1>0, <2>1 DEF LocksOf, TaskOK, Inside, Saves
  <2>4. Behind(view'[t])
    BY <1>0, <2>1 DEF CopiesOK, SavedBy
  <2> QED
    BY <2>1, <2>2, <2>3, <2>4, QuietStep DEF LoggingIn, Saves
<1>load. CASE Load(t)
  <2>1. pc[t] = "load" /\ Behind(view[t]) /\ view[t] \in Rows
    BY <1>load, <1>0 DEF Load, CopiesOK, SavedBy, TypeOK
  <2>2. Settled(mirror) /\ Known(mirror)
    <3>1. ASSUME NEW u \in Tasks, LoggingIn(u) PROVE FALSE
      BY <2>1, <3>1, OneInside DEF LoggingIn, Inside, Saves
    <3> QED
      BY <1>0, <3>1 DEF MirrorOK
  <2>3. /\ cur' = [cur EXCEPT ![t] = mirror]
        /\ CASE op[t] = "login" ->
                  IF Restorable(mirror) THEN Save(t, Restored(mirror), "start")
                  ELSE Goto(t, "start") /\ UNCHANGED <<next, then>>
             [] op[t] = "challenge" ->
                  /\ Goto(t, IF Waiting(mirror) THEN "call" ELSE "exit")
                  /\ UNCHANGED <<next, then>>
             [] OTHER ->
                  IF Restorable(mirror) THEN Save(t, Restored(mirror), "call")
                  ELSE /\ Goto(t, IF Usable(mirror) THEN "call" ELSE "exit")
                       /\ UNCHANGED <<next, then>>
    <3>1. PICK s \in Loaded(view[t].cipher, SeenMirror) :
            /\ cur' = [cur EXCEPT ![t] = s]
            /\ CASE op[t] = "login" ->
                      IF Restorable(s) THEN Save(t, Restored(s), "start")
                      ELSE Goto(t, "start") /\ UNCHANGED <<next, then>>
                 [] op[t] = "challenge" ->
                      /\ Goto(t, IF Waiting(s) THEN "call" ELSE "exit")
                      /\ UNCHANGED <<next, then>>
                 [] OTHER ->
                      IF Restorable(s) THEN Save(t, Restored(s), "call")
                      ELSE /\ Goto(t, IF Usable(s) THEN "call" ELSE "exit")
                           /\ UNCHANGED <<next, then>>
      BY <1>load DEF Load
    <3>2. s = mirror
      BY <2>1, LoadedIsMirror
    <3> QED
      BY <3>1, <3>2
  <2>4. UNCHANGED <<op, view, prev, held, rowVars, redisVars, localLock, gens>>
    BY <1>load DEF Load
  <2>5. cur'[t] = mirror /\ op[t] \in Ops /\ op[t] \in AllOps /\ op[t] # "clear"
    BY <1>0, <2>1, <2>3 DEF TypeOK, LocksOf, Undisturbed
  <2>6. Restorable(mirror) => /\ Follows(Restored(mirror), mirror) /\ Known(Restored(mirror))
                              /\ Usable(Restored(mirror)) /\ Settled(Restored(mirror))
    BY <1>0, <2>2, BuildersFollow
  <2>7. \/ op[t] = "login" /\ Restorable(mirror)
           /\ pc'[t] = "check" /\ next'[t] = Restored(mirror) /\ then'[t] = "start"
        \/ op[t] = "login" /\ ~Restorable(mirror) /\ pc'[t] = "start"
        \/ op[t] = "challenge" /\ Waiting(mirror) /\ pc'[t] = "call"
        \/ op[t] \notin {"login", "challenge"} /\ Restorable(mirror)
           /\ pc'[t] = "check" /\ next'[t] = Restored(mirror) /\ then'[t] = "call"
        \/ op[t] \notin {"login", "challenge"} /\ Usable(mirror) /\ pc'[t] = "call"
        \/ op[t] # "login" /\ pc'[t] = "exit"
    BY <1>0, <2>3 DEF Save, Goto, TypeOK
  <2>8. Others(t)
    BY <1>0, <2>3, <2>4 DEF Others, Save, Goto, TypeOK
  <2>9. LocksOf(t)'
    BY <1>0, <2>1, <2>4, <2>7 DEF LocksOf, Inside, Saves
  <2>10. TaskOK(t)'
    <3>1. pc'[t] = "check" => Prepared(t)'
      BY <2>2, <2>4, <2>5, <2>6, <2>7 DEF Prepared, Known, AllOps, BusinessOps
    <3>2. pc'[t] = "call" => Called(t)'
      BY <2>2, <2>4, <2>5, <2>7 DEF Called, AllOps, BusinessOps
    <3>3. pc'[t] = "start" => op'[t] = "login" /\ Fresh(cur'[t])
      BY <2>2, <2>4, <2>5, <2>7 DEF Fresh
    <3> QED
      BY <2>4, <2>5, <2>7, <3>1, <3>2, <3>3 DEF TaskOK, Inside, Saves
  <2>11. Behind(view'[t]) /\ pc'[t] # "mirror" /\ ~LoggingIn(t)
    BY <2>1, <2>4, <2>7 DEF LoggingIn, Saves
  <2> QED
    BY <2>1, <2>4, <2>8, <2>9, <2>10, <2>11, QuietStep
<1> QED
  BY <1>begin, <1>task, <1>lock, <1>acquire, <1>skip, <1>refused, <1>load

\* So does a login that begins, the version test, an answer, and leaving the locks.
LEMMA WorkKeeps ==
  ASSUME Undisturbed, LifeInv, LeaseInv', NEW t \in Tasks,
         \/ StartLogin(t) \/ CheckVersion(t)
         \/ \E a \in Answers(op[t]) : Answer(t, a)
         \/ AnswerDropped(t) \/ FlushFails(t) \/ Exit(t)
  PROVE  LifeInv'
<1> USE DEF taskVars, rowVars, redisVars
<1>0. /\ TypeOK /\ LocksOf(t) /\ TaskOK(t) /\ redisUp /\ mirror \in Session /\ gens \in Nat
      /\ CopiesOK /\ MirrorOK
  BY DEF LifeInv, LeaseInv, TypeOK
<1>start. CASE StartLogin(t)
  <2>1. /\ pc[t] = "start" /\ pc'[t] = "check" /\ prev'[t] = cur[t] /\ next'[t] = Running(cur[t])
        /\ then'[t] = "call" /\ Others(t)
        /\ UNCHANGED <<op, view, cur, held, rowVars, redisVars, localLock, gens>>
    BY <1>start, <1>0 DEF StartLogin, Save, Goto, TypeOK, Others
  <2>2. cur[t] = mirror /\ op[t] = "login" /\ Fresh(mirror) /\ Known(mirror)
    BY <1>0, <2>1 DEF TaskOK, Inside, MirrorOK
  <2>3. Follows(Running(mirror), mirror) /\ Known(Running(mirror))
    BY <1>0, <2>2, BuildersFollow
  <2>4. LocksOf(t)'
    BY <1>0, <2>1 DEF LocksOf, Inside, Saves
  <2>5. TaskOK(t)'
    BY <2>1, <2>2, <2>3 DEF TaskOK, Prepared, Known, Inside, Saves
  <2>6. Behind(view'[t]) /\ ~LoggingIn(t)
    BY <1>0, <2>1 DEF CopiesOK, SavedBy, LoggingIn, Saves
  <2> QED
    BY <2>1, <2>4, <2>5, <2>6, QuietStep
<1>check. CASE CheckVersion(t)
  <2>1. /\ pc[t] = "check" /\ pc'[t] = (IF VersionMatches(t, cur[t].version) THEN "flush" ELSE "exit")
        /\ Others(t)
        /\ UNCHANGED <<op, view, prev, cur, next, then, held, rowVars, redisVars, localLock, gens>>
    BY <1>check, <1>0 DEF CheckVersion, Goto, TypeOK, Others
  <2>2. cur[t] = mirror /\ Behind(view[t]) /\ Prepared(t)
    BY <1>0, <2>1 DEF TaskOK, Inside, Saves, CopiesOK, SavedBy
  <2>3. view[t].version \in Nat /\ mirror.version \in Nat /\ view[t].version <= mirror.version
        /\ view[t].present \in BOOLEAN
    BY <1>0, <2>2, Fields DEF TypeOK, Rows, Behind
  <2>4. VersionMatches(t, cur[t].version)
    BY <1>0, <2>2, <2>3 DEF VersionMatches, SeenMirror
  <2>5. LocksOf(t)'
    BY <1>0, <2>1, <2>4 DEF LocksOf, Inside, Saves
  <2>6. TaskOK(t)'
    BY <2>1, <2>2, <2>4 DEF TaskOK, Prepared, Known, Inside, Saves
  <2> QED
    BY <2>1, <2>2, <2>4, <2>5, <2>6, QuietStep DEF LoggingIn, Saves
<1>answer. ASSUME NEW a \in Answers(op[t]), Answer(t, a) PROVE LifeInv'
  <2>1. /\ pc[t] = "call" /\ Others(t)
        /\ UNCHANGED <<op, view, prev, cur, held, rowVars, redisVars, localLock>>
    BY <1>answer, <1>0 DEF Answer, Save, Goto, TypeOK, Others
  <2>2. PICK r : r = Result(t, a)
    OBVIOUS
  <2>3. /\ then'[t] = "exit" /\ gens' \in {gens, gens + 1}
        /\ next'[t] = r /\ pc'[t] = "check"
        /\ Follows(r, cur[t]) /\ Known(r)' /\ Settled(r)
    BY <1>answer, <2>1, <2>2, ResultFollows
  <2>4. cur[t] = mirror /\ Behind(view'[t])
    BY <1>0, <2>1 DEF TaskOK, Inside, CopiesOK, SavedBy
  <2>5. LocksOf(t)'
    BY <1>0, <2>1, <2>3 DEF LocksOf, Inside, Saves
  <2>6. TaskOK(t)'
    BY <2>1, <2>3, <2>4 DEF TaskOK, Prepared, Known, Inside, Saves
  <2> QED
    BY <2>1, <2>3, <2>4, <2>5, <2>6, QuietStep DEF LoggingIn, Saves
<1>dropped. CASE AnswerDropped(t)
  BY <1>dropped, <1>0 DEF AnswerDropped, LocksOf
<1>fails. CASE FlushFails(t)
  <2>1. /\ pc[t] \in {"task", "flush", "clear"} /\ pc'[t] = "rollback" /\ held'[t] = "none"
        /\ UNCHANGED <<op, view, prev, cur, next, then, rowVars, mirror, redisUp, gens>>
    BY <1>fails, <1>0 DEF FlushFails, Leave, Goto, TypeOK
  <2>2. rowOwner # t
    BY <1>fails, SessionAssumption DEF FlushFails, RowLockFree
  <2>3. Others(t)
    BY <1>fails, <1>0 DEF FlushFails, Leave, Goto, TypeOK, Others
  <2>4. LocksOf(t)' /\ TaskOK(t)'
    BY <1>0, <2>1 DEF LocksOf, TaskOK, Inside, Saves
  <2>5. Behind(view'[t]) /\ ~LoggingIn(t)
    BY <1>0, <2>1, <2>2 DEF CopiesOK, SavedBy, LoggingIn, LocksOf, Inside
  <2> QED
    BY <2>1, <2>3, <2>4, <2>5, QuietStep
<1>exit. CASE Exit(t)
  <2>1. /\ pc[t] = "exit" /\ pc'[t] = "commit" /\ held'[t] = "none"
        /\ UNCHANGED <<op, view, prev, cur, next, then, rowVars, mirror, redisUp, gens>>
    BY <1>exit, <1>0 DEF Exit, Leave, Goto, TypeOK
  <2>2. Others(t)
    BY <1>exit, <1>0 DEF Exit, Leave, Goto, TypeOK, Others
  <2>3. LocksOf(t)' /\ TaskOK(t)'
    BY <1>0, <2>1 DEF LocksOf, TaskOK, Inside, Saves
  <2>4. Behind(view'[t])
    BY <1>0, <2>1 DEF CopiesOK, SavedBy
  <2> QED
    BY <2>1, <2>2, <2>3, <2>4, QuietStep DEF LoggingIn, Saves
<1> QED
  BY <1>start, <1>check, <1>answer, <1>dropped, <1>fails, <1>exit

\* The flush writes the rows under their lock, ahead of Redis.
LEMMA FlushKeeps ==
  ASSUME Undisturbed, LifeInv, LeaseInv', NEW t \in Tasks, FlushSession(t)
  PROVE  LifeInv'
<1> USE DEF taskVars, rowVars, redisVars
<1> DEFINE new == [cipher |-> next[t], present |-> TRUE, version |-> next[t].version]
<1>0. /\ TypeOK /\ LocksOf(t) /\ TaskOK(t) /\ redisUp /\ mirror \in Session /\ next[t] \in Session
      /\ CopiesOK /\ MirrorOK
  BY DEF LifeInv, LeaseInv, TypeOK
<1>1. /\ pc[t] = "flush" /\ pc'[t] = "mirror" /\ rowOwner' = t /\ view'[t] = new
      /\ dirty' = Flushed(t, new) /\ rowOwner \in {NoTask, t} /\ Others(t)
      /\ UNCHANGED <<op, prev, cur, next, then, held, db, redisVars, localLock, gens>>
  BY <1>0 DEF FlushSession, WriteRows, RowLockFree, Goto, TypeOK, Others
<1>2. /\ cur[t] = mirror /\ Prepared(t) /\ Behind(view[t])
  BY <1>0, <1>1 DEF TaskOK, Inside, Saves, CopiesOK, SavedBy
<1>3. /\ next[t].version = mirror.version + 1 /\ next[t] # NoSession
      /\ mirror.version \in Nat /\ next[t].version \in Nat
  BY <1>0, <1>2, Fields, FollowsKeepsLogin DEF Prepared, NoSession
<1>4. dirty'.cipher = next[t] /\ dirty'.version <= next[t].version
  <2>1. /\ db.version \in Nat /\ dirty.version \in Nat
        /\ db.version <= mirror.version /\ (rowOwner = t => dirty.version <= mirror.version)
    BY <1>0, <1>1 DEF CopiesOK, Behind, SavedBy, TypeOK, Rows
  <2> QED
    BY <1>1, <1>3, <2>1 DEF Flushed
<1>5. ASSUME NEW u \in Tasks PROVE LocksOf(u)' /\ TaskOK(u)'
  <2>1. LocksOf(u) /\ TaskOK(u)
    BY DEF LifeInv
  <2>2. CASE u = t
    BY <1>0, <1>1, <1>2, <2>2 DEF LocksOf, TaskOK, Prepared, Known, Inside, Saves
  <2>3. CASE u # t
    <3>1. rowOwner # u
      BY <1>1, <2>3, SessionAssumption
    <3>2. LocksOf(u)'
      BY <1>1, <2>1, <2>3, <3>1 DEF LocksOf, Others
    <3>3. TaskOK(u)'
      BY <1>1, <2>1, <2>3 DEF TaskOK, Called, Prepared, Known, Others
    <3> QED
      BY <3>2, <3>3
  <2> QED
    BY <2>2, <2>3
<1>6. MirrorOK'
  <2>1. \A u \in Tasks : LoggingIn(u) => LoggingIn(u)'
    BY <1>1 DEF LoggingIn, Saves, Others
  <2> QED
    BY <1>0, <1>1, <2>1 DEF MirrorOK, Known
<1>7. CopiesOK'
  <2>1. (Behind(db) /\ Login(db.cipher) <= Login(mirror) /\ Sound(db.cipher))'
    BY <1>0, <1>1 DEF CopiesOK, Behind
  <2>2. ASSUME NEW u \in Tasks PROVE Behind(view[u])' \/ SavedBy(u, view[u])'
    <3>1. CASE u = t
      BY <1>1, <1>3, <3>1 DEF SavedBy
    <3>2. CASE u # t
      BY <1>0, <1>1, <3>2 DEF CopiesOK, Behind, SavedBy, Others
    <3> QED
      BY <3>1, <3>2
  <2>3. SavedBy(t, dirty)'
    BY <1>1, <1>4 DEF SavedBy
  <2> QED
    BY <1>1, <2>1, <2>2, <2>3 DEF CopiesOK
<1> QED
  BY <1>0, <1>1, <1>5, <1>6, <1>7 DEF LifeInv

\* The save reaches Redis: the one step that changes the session there.
LEMMA MirrorKeeps ==
  ASSUME Undisturbed, LifeInv, LeaseInv', NEW t \in Tasks, SaveMirror(t)
  PROVE  /\ LifeInv'
         /\ mirror' \in Session /\ Follows(mirror', mirror)
<1> USE DEF taskVars, rowVars, redisVars
<1>0. /\ TypeOK /\ LocksOf(t) /\ TaskOK(t) /\ redisUp /\ mirror \in Session /\ next[t] \in Session
      /\ CopiesOK /\ MirrorOK /\ gens \in Nat
  BY DEF LifeInv, LeaseInv, TypeOK
<1>1. /\ pc[t] = "mirror" /\ pc'[t] = then[t] /\ mirror' = next[t] /\ cur'[t] = next[t] /\ Others(t)
      /\ UNCHANGED <<op, view, prev, next, then, held, rowVars, redisUp, localLock, gens>>
  BY <1>0 DEF SaveMirror, SetMirror, Goto, TypeOK, Others
<1>2. cur[t] = mirror /\ Prepared(t) /\ rowOwner = t
  BY <1>0, <1>1 DEF TaskOK, LocksOf, Inside, Saves
<1>3. Follows(next[t], mirror) /\ Known(next[t]) /\ Login(mirror) <= Login(next[t])
      /\ next[t].version = mirror.version + 1 /\ mirror.version \in Nat /\ next[t].version \in Nat
      /\ Login(mirror) \in Nat /\ Login(next[t]) \in Nat
  BY <1>0, <1>2, FollowsKeepsLogin, Fields DEF Prepared
<1>4. ASSUME NEW u \in Tasks \ {t} PROVE pc[u] \notin Inside
  BY <1>1, OneInside DEF Inside, Saves
<1>5. /\ pc'[t] \in {"start", "call", "exit"}
      /\ pc'[t] = "start" => op[t] = "login" /\ Fresh(next[t])
      /\ pc'[t] = "call" => Called(t)'
      /\ Settled(next[t]) \/ (pc'[t] = "call" /\ op[t] = "login")
  <2>1. CASE then[t] = "start"
    BY <1>1, <1>2, <2>1 DEF Prepared, Fresh, Usable, Restorable, Waiting
  <2>2. CASE then[t] = "call"
    BY <1>1, <1>2, <2>2 DEF Prepared, Called, BusinessOps
  <2>3. CASE then[t] = "exit"
    BY <1>1, <1>2, <2>3 DEF Prepared
  <2> QED
    BY <1>2, <2>1, <2>2, <2>3 DEF Prepared
<1>6. ASSUME NEW u \in Tasks PROVE LocksOf(u)' /\ TaskOK(u)'
  <2>1. LocksOf(u) /\ TaskOK(u)
    BY DEF LifeInv
  <2>2. CASE u = t
    BY <1>0, <1>1, <1>5, <2>2 DEF LocksOf, TaskOK, Inside, Saves
  <2>3. CASE u # t
    BY <1>1, <1>4, <2>1, <2>3 DEF LocksOf, TaskOK, Inside, Saves, Others
  <2> QED
    BY <2>2, <2>3
<1>7. MirrorOK'
  BY <1>1, <1>3, <1>5 DEF MirrorOK, Known, LoggingIn
<1>8. CopiesOK'
  <2>1. ASSUME NEW row \in Rows, Behind(row) \/ SavedBy(t, row)
        PROVE  row.version <= mirror'.version /\ (row.cipher.version < mirror'.version \/ row.cipher = mirror')
    <3>1. row.version \in Nat /\ row.cipher.version \in Nat
      BY Fields DEF Rows
    <3> QED
      BY <1>1, <1>3, <2>1, <3>1 DEF Behind, SavedBy
  <2>2. db \in Rows /\ dirty \in Rows /\ view \in [Tasks -> Rows]
    BY <1>0 DEF TypeOK
  <2>3. Behind(db)'
    BY <1>0, <1>1, <2>1, <2>2 DEF CopiesOK, Behind
  <2>4. (Login(db.cipher) <= Login(mirror) /\ Sound(db.cipher))'
    <3>1. Login(db.cipher) \in Nat
      BY <2>2, Fields DEF Rows
    <3> QED
      BY <1>0, <1>1, <1>3, <3>1 DEF CopiesOK
  <2>5. ASSUME NEW u \in Tasks PROVE Behind(view[u])'
    <3>1. Behind(view[u]) \/ SavedBy(t, view[u])
      BY <1>0, <1>4 DEF CopiesOK, SavedBy, Inside, Saves
    <3> QED
      BY <1>1, <2>1, <2>2, <3>1 DEF Behind
  <2>6. Behind(dirty)' /\ dirty'.cipher = mirror' /\ pc'[t] # "mirror"
    <3>1. SavedBy(t, dirty)
      BY <1>0, <1>1, <1>2 DEF CopiesOK
    <3> QED
      BY <1>1, <1>5, <2>1, <2>2, <3>1 DEF Behind, SavedBy
  <2> QED
    BY <1>1, <1>2, <2>3, <2>4, <2>5, <2>6 DEF CopiesOK
<1> QED
  BY <1>0, <1>1, <1>3, <1>6, <1>7, <1>8 DEF LifeInv

\* What leaves every task, row and session alone keeps the invariant.
LEMMA SameLife ==
  ASSUME LifeInv, LeaseInv', UNCHANGED <<taskVars, rowVars, mirror, redisUp, localLock, gens>>
  PROVE  LifeInv'
<1> USE DEF taskVars, rowVars
<1>1. ASSUME NEW t \in Tasks PROVE LocksOf(t)' /\ TaskOK(t)'
  <2>1. LocksOf(t) /\ TaskOK(t)
    BY DEF LifeInv
  <2> QED
    BY <2>1 DEF LocksOf, TaskOK, Called, Prepared, Known
<1>2. MirrorOK'
  BY DEF LifeInv, MirrorOK, Known, LoggingIn
<1>3. CopiesOK'
  BY DEF LifeInv, CopiesOK, Behind, SavedBy
<1> QED
  BY <1>1, <1>2, <1>3 DEF LifeInv

\* The end of a transaction commits what it saved, or nothing.
LEMMA EndKeeps ==
  ASSUME Undisturbed, LifeInv, LeaseInv', NEW t \in Tasks, EndTransaction(t)
  PROVE  /\ LifeInv'
         /\ Login(db.cipher) <= Login(db'.cipher)
<1> USE DEF taskVars, rowVars, redisVars
<1>0. /\ TypeOK /\ LocksOf(t) /\ TaskOK(t) /\ redisUp /\ mirror \in Session /\ gens \in Nat
      /\ CopiesOK /\ MirrorOK /\ Login(db.cipher) \in Nat
  BY Fields DEF LifeInv, LeaseInv, TypeOK, Rows
<1>1. /\ pc[t] \in {"commit", "rollback"} /\ pc'[t] = "idle" /\ Others(t)
      /\ db' = (IF pc[t] = "commit" /\ rowOwner = t THEN dirty ELSE db)
      /\ rowOwner' = (IF rowOwner = t THEN NoTask ELSE rowOwner)
      /\ UNCHANGED <<op, view, prev, cur, next, then, held, dirty, redisVars, localLock, gens>>
  BY <1>0 DEF EndTransaction, Goto, TypeOK, Others
<1>2. ASSUME NEW u \in Tasks PROVE LocksOf(u)' /\ TaskOK(u)'
  <2>1. LocksOf(u) /\ TaskOK(u)
    BY DEF LifeInv
  <2>2. CASE u = t
    BY <1>0, <1>1, <2>2 DEF LocksOf, TaskOK, Inside, Saves
  <2>3. CASE u # t
    <3>1. rowOwner = u => rowOwner' = u
      BY <1>1, <2>3
    <3>2. LocksOf(u)'
      BY <1>1, <2>1, <2>3, <3>1 DEF LocksOf, Others
    <3>3. TaskOK(u)'
      BY <1>1, <2>1, <2>3 DEF TaskOK, Called, Prepared, Known, Others
    <3> QED
      BY <3>2, <3>3
  <2> QED
    BY <2>2, <2>3
<1>3. MirrorOK'
  <2>1. \A u \in Tasks : LoggingIn(u) => LoggingIn(u)'
    BY <1>1 DEF LoggingIn, Saves, Others
  <2> QED
    BY <1>0, <1>1, <2>1 DEF MirrorOK, Known
\* Whoever owns the rows is not at its second save while another commits them.
<1>4. rowOwner = t => /\ Behind(dirty) /\ dirty.cipher \in {db.cipher, mirror}
                      /\ Settled(mirror)
  <2> SUFFICES ASSUME rowOwner = t
               PROVE  Behind(dirty) /\ dirty.cipher \in {db.cipher, mirror} /\ Settled(mirror)
    OBVIOUS
  <2>1. ASSUME NEW u \in Tasks, LoggingIn(u) PROVE FALSE
    <3>1. LocksOf(u)
      BY DEF LifeInv
    <3>2. rowOwner = u
      BY <2>1, <3>1 DEF LocksOf, LoggingIn, Inside
    <3> QED
      BY <1>1, <2>1, <3>2 DEF LoggingIn, Saves
  <2> QED
    BY <1>0, <1>1, <2>1 DEF CopiesOK, SavedBy, MirrorOK
<1>5. db' = db \/ (rowOwner = t /\ db' = dirty)
  BY <1>1
<1>6. Behind(db') /\ db'.cipher \in {db.cipher, mirror} /\ Sound(db'.cipher)
  <2>1. CASE db' = db
    BY <1>0, <2>1 DEF CopiesOK
  <2>2. CASE rowOwner = t /\ db' = dirty
    <3>1. Sound(mirror)
      BY <1>4, <2>2 DEF Settled, Sound, Usable, Waiting
    <3> QED
      BY <1>0, <1>4, <2>2, <3>1 DEF CopiesOK
  <2> QED
    BY <1>5, <2>1, <2>2
<1>7. Login(db.cipher) <= Login(db'.cipher) /\ Login(db'.cipher) <= Login(mirror)
  <2>1. Login(mirror) \in Nat /\ Login(db.cipher) <= Login(mirror)
    BY <1>0, Fields DEF CopiesOK
  <2> QED
    BY <1>0, <1>6, <2>1
<1>8. CopiesOK'
  <2>1. (Behind(db) /\ Login(db.cipher) <= Login(mirror) /\ Sound(db.cipher))'
    BY <1>1, <1>6, <1>7 DEF Behind
  <2>2. ASSUME NEW u \in Tasks PROVE Behind(view[u])' \/ SavedBy(u, view[u])'
    <3>1. Behind(view[u]) \/ (SavedBy(u, view[u]) /\ u # t)
      BY <1>0, <1>1 DEF CopiesOK, SavedBy
    <3> QED
      BY <1>1, <3>1 DEF Behind, SavedBy, Others
  <2>3. ASSUME NEW u \in Tasks, rowOwner' = u
        PROVE  \/ (Behind(dirty) /\ dirty.cipher \in {db.cipher, mirror} /\ pc[u] # "mirror")'
               \/ SavedBy(u, dirty)'
    <3>1. rowOwner = u /\ u # t /\ db' = db
      BY <1>1, <2>3, SessionAssumption
    <3> QED
      BY <1>0, <1>1, <3>1 DEF CopiesOK, Behind, SavedBy, Others
  <2> QED
    BY <2>1, <2>2, <2>3 DEF CopiesOK
<1> QED
  BY <1>0, <1>1, <1>2, <1>3, <1>7, <1>8 DEF LifeInv

\* Nothing else happens where nothing fails, but the expiry of a lease nobody holds.
LEMMA NoFaults ==
  ASSUME Undisturbed, LifeInv, LeaseInv', Environment
  PROVE  LifeInv' /\ UNCHANGED <<db, mirror>>
<1> USE DEF taskVars, rowVars, redisVars
<1>1. \A kind : ~Fault(kind)
  BY DEF Undisturbed, Fault
<1>2. redisUp /\ \A t \in Tasks : held[t] = "owned" => lease[Class(op[t])] = t
  BY DEF LifeInv, LeaseInv, TokenInRedis
<1>3. PICK c \in LeaseClasses : LeaseExpires(c)
  BY <1>1, <1>2 DEF Environment, RenewRaises, RenewRefused, Stall, Failover, RedisDown, RedisUp, Crash
<1>4. UNCHANGED <<taskVars, rowVars, mirror, redisUp, localLock, gens>>
  BY <1>3 DEF LeaseExpires
<1> QED
  BY <1>4, SameLife

\* Each step keeps the invariant, changes the session in Redis by a legal step only, and
\* commits no older login.
LEMMA LifeStep ==
  ASSUME Undisturbed, LifeInv, LeaseInv', [Next]_vars
  PROVE  /\ LifeInv'
         /\ mirror' = mirror \/ (mirror' \in Session /\ Follows(mirror', mirror))
         /\ Login(db.cipher) <= Login(db'.cipher)
<1> USE DEF taskVars, rowVars, redisVars
<1>0. Login(db.cipher) \in Nat /\ \A t \in Tasks : LocksOf(t)
  BY Fields DEF LifeInv, LeaseInv, TypeOK, Rows
<1>entry. ASSUME NEW t \in Tasks,
                 \/ \E o \in Ops : Begin(t, o)
                 \/ FlushLoginTask(t) \/ LocalLock(t) \/ AcquireLease(t) \/ SkipLease(t)
                 \/ LeaseRefused(t) \/ Load(t)
          PROVE  LifeInv' /\ UNCHANGED <<db, mirror>>
  BY <1>entry, EntryKeeps
     DEF Begin, FlushLoginTask, LocalLock, AcquireLease, SkipLease, LeaseRefused, Load, Leave
<1>work. ASSUME NEW t \in Tasks,
                \/ StartLogin(t) \/ CheckVersion(t)
                \/ \E a \in Answers(op[t]) : Answer(t, a)
                \/ AnswerDropped(t) \/ FlushFails(t) \/ Exit(t)
         PROVE  LifeInv' /\ UNCHANGED <<db, mirror>>
  BY <1>work, WorkKeeps
     DEF StartLogin, CheckVersion, Answer, AnswerDropped, FlushFails, Exit, Leave
<1>flush. ASSUME NEW t \in Tasks, FlushSession(t) PROVE LifeInv' /\ UNCHANGED <<db, mirror>>
  BY <1>flush, FlushKeeps DEF FlushSession, WriteRows
<1>mirror. ASSUME NEW t \in Tasks, SaveMirror(t)
           PROVE  LifeInv' /\ db' = db /\ mirror' \in Session /\ Follows(mirror', mirror)
  BY <1>mirror, MirrorKeeps DEF SaveMirror
<1>end. ASSUME NEW t \in Tasks, EndTransaction(t)
        PROVE  LifeInv' /\ mirror' = mirror /\ Login(db.cipher) <= Login(db'.cipher)
  BY <1>end, EndKeeps DEF EndTransaction
<1>clear. ASSUME NEW t \in Tasks, Discard(t) \/ ClearRows(t) \/ ClearMirror(t) PROVE FALSE
  BY <1>clear, <1>0 DEF Discard, ClearRows, ClearMirror, LocksOf
<1>environment. CASE Environment
  BY <1>environment, <1>0, NoFaults
<1>stutter. CASE UNCHANGED vars
  BY <1>stutter, <1>0, SameLife DEF vars
<1> QED
  BY <1>0, <1>entry, <1>work, <1>flush, <1>mirror, <1>end, <1>clear, <1>environment, <1>stutter
     DEF Next, Step, Saving, Finishing

-----------------------------------------------------------------------------
\* Where nothing fails, the invariant holds throughout.
LEMMA LifeIsOrderly == Undisturbed => (Spec => []LifeInv)
<1> SUFFICES ASSUME Undisturbed PROVE Spec => []LifeInv
  OBVIOUS
<1>1. NoTokenLost
  BY DEF Undisturbed, NoTokenLost
<1>2. Init /\ LeaseInv => LifeInv
  <2> SUFFICES ASSUME Init, LeaseInv PROVE LifeInv
    OBVIOUS
  <2>1. Settled(NoSession) /\ Known(NoSession) /\ Login(NoSession) = 0 /\ ~Usable(NoSession)
    BY DEF Init, NoSession, Settled, Known, Login, Usable, Waiting
  <2>2. \A t \in Tasks : LocksOf(t) /\ TaskOK(t)
    BY DEF Init, LocksOf, TaskOK, Inside, Saves
  <2>3. MirrorOK
    BY <2>1 DEF Init, MirrorOK
  <2>4. CopiesOK
    <3>1. EmptyRows.cipher = NoSession /\ EmptyRows.version = 0 /\ NoSession.version = 0
      BY DEF EmptyRows, NoSession
    <3> QED
      BY <2>1, <3>1, SessionAssumption DEF Init, CopiesOK, Behind, Sound
  <2> QED
    BY <2>2, <2>3, <2>4 DEF Init, LifeInv
<1>3. LifeInv /\ LeaseInv' /\ [Next]_vars => LifeInv'
  BY LifeStep
<1> QED
  BY <1>1, <1>2, <1>3, TokensStay, PTL DEF Spec

\* What is in Redis lives the life of one session (SessionLifecycle), for any number of tasks,
\* operations and stale copies of the rows: one process and any operations, or any number of
\* processes that log in and take codes.
THEOREM SessionsLiveLegally == Undisturbed => (Spec => RefinesLifecycle)
<1> SUFFICES ASSUME Undisturbed PROVE Spec => RefinesLifecycle
  OBVIOUS
<1>1. Init => Lifecycle!Init
  BY DEF Init, Lifecycle!Init, NoSession
<1>2. LifeInv /\ LeaseInv' /\ [Next]_vars => [Lifecycle!Next]_mirror
  <2> SUFFICES ASSUME LifeInv, LeaseInv', [Next]_vars, mirror' # mirror PROVE Lifecycle!Next
    OBVIOUS
  <2>1. /\ mirror' = [status |-> mirror'.status, version |-> mirror.version + 1,
                      gen |-> mirror'.gen, kept |-> mirror'.kept]
        /\ Follows(mirror', mirror)
    BY LifeStep DEF Follows
  <2> USE DEF Follows, Login, Restorable, Usable, Waiting, Lifecycle!Becomes, Lifecycle!Login,
              Lifecycle!AwaitsCode, Lifecycle!LoggingIn, Lifecycle!Usable
  <2>2. CASE mirror'.status = "logging_in"
    BY <2>1, <2>2 DEF Lifecycle!Next, Lifecycle!StartLogin
  <2>3. CASE mirror.status \in {"logging_in", "waiting_challenge"} /\ mirror'.status = "authenticated"
    BY <2>1, <2>3 DEF Lifecycle!Next, Lifecycle!Accept
  <2>4. CASE mirror.status \in {"logging_in", "waiting_challenge"} /\ mirror'.status = "waiting_challenge"
    BY <2>1, <2>4 DEF Lifecycle!Next, Lifecycle!AskForCode
  <2>5. CASE mirror.status \in {"logging_in", "waiting_challenge"} /\ mirror'.status = "login_failed"
    BY <2>1, <2>5 DEF Lifecycle!Next, Lifecycle!Reject
  <2>6. CASE mirror.status \in {"logging_in", "waiting_challenge"} /\ mirror'.status = "degraded"
    BY <2>1, <2>6 DEF Lifecycle!Next, Lifecycle!FallBack
  <2>7. CASE mirror.status \in {"authenticated", "degraded"} /\ mirror'.status # "logging_in"
    BY <2>1, <2>7 DEF Lifecycle!Next, Lifecycle!Use
  <2> QED
    BY <2>1, <2>2, <2>3, <2>4, <2>5, <2>6, <2>7
<1>3. NoTokenLost
  BY DEF Undisturbed, NoTokenLost
<1> QED
  BY <1>1, <1>2, <1>3, LifeIsOrderly, TokensStay, PTL DEF Spec, RefinesLifecycle, Lifecycle!Spec

\* Under the same conditions no login is left behind in a state nobody can use, however logins,
\* codes, business calls and transactions that roll back end.
THEOREM NoLoginLeftBehind == Undisturbed => (Spec => []NoLoginStranded)
<1> SUFFICES ASSUME Undisturbed PROVE Spec => []NoLoginStranded
  OBVIOUS
<1>1. LifeInv => NoLoginStranded
  <2> SUFFICES ASSUME LifeInv, \A t \in Tasks : pc[t] = "idle",
                      NEW s \in Loaded(db.cipher, SeenMirror), Login(s) # 0
               PROVE  Usable(s) \/ Restorable(s)
    BY DEF NoLoginStranded
  <2>1. s = mirror
    BY LoadedIsMirror DEF LifeInv, CopiesOK, LeaseInv, TypeOK
  <2>2. Settled(mirror)
    BY DEF LifeInv, MirrorOK, LoggingIn, Saves
  <2> QED
    BY <2>1, <2>2 DEF Settled, Login, Restorable, Waiting
<1> QED
  BY <1>1, LifeIsOrderly, PTL

\* A usable session of the account row is what load() restores once nothing runs: what a crash
\* inside a login breaks.
THEOREM StoredSessionsStay == Undisturbed => (Spec => []StoredSessionRestored)
<1> SUFFICES ASSUME Undisturbed PROVE Spec => []StoredSessionRestored
  OBVIOUS
<1>1. LifeInv => StoredSessionRestored
  <2> SUFFICES ASSUME LifeInv, \A t \in Tasks : pc[t] = "idle", Usable(db.cipher),
                      NEW s \in Loaded(db.cipher, SeenMirror)
               PROVE  Usable(s) \/ Restorable(s)
    BY DEF StoredSessionRestored
  <2>1. s = mirror
    BY LoadedIsMirror DEF LifeInv, CopiesOK, LeaseInv, TypeOK
  <2>2. Settled(mirror)
    BY DEF LifeInv, MirrorOK, LoggingIn, Saves
  <2>3. Login(mirror) # 0
    <3>1. db.cipher \in Session /\ mirror \in Session
      BY DEF LifeInv, LeaseInv, TypeOK, Rows
    <3>2. Login(db.cipher) \in Nat /\ Login(mirror) \in Nat
      BY <3>1, Fields
    <3>3. Login(db.cipher) # 0 /\ Login(db.cipher) <= Login(mirror)
      BY DEF LifeInv, CopiesOK, Sound, Login, Usable, Waiting
    <3> QED
      BY <3>2, <3>3
  <2> QED
    BY <2>1, <2>2, <2>3 DEF Settled, Login, Restorable, Waiting
<1> QED
  BY <1>1, LifeIsOrderly, PTL

\* No commit carries an older login than the one before: what a business call in a second
\* process breaks.
THEOREM LoginsOnlyGrow == Undisturbed => (Spec => LoginNeverOverwritten)
<1> SUFFICES ASSUME Undisturbed PROVE Spec => LoginNeverOverwritten
  OBVIOUS
<1>1. LifeInv /\ LifeInv' /\ [Next]_vars => [Login(db'.cipher) >= Login(db.cipher)]_vars
  <2> SUFFICES ASSUME LifeInv, LifeInv', [Next]_vars PROVE Login(db'.cipher) >= Login(db.cipher)
    OBVIOUS
  <2>1. Login(db.cipher) <= Login(db'.cipher)
    BY LifeStep DEF LifeInv
  <2>2. Login(db.cipher) \in Nat /\ Login(db'.cipher) \in Nat
    BY Fields DEF LifeInv, LeaseInv, TypeOK, Rows
  <2> QED
    BY <2>1, <2>2
<1> QED
  BY <1>1, LifeIsOrderly, PTL DEF Spec, LoginNeverOverwritten

\* The usable login put aside while a code is awaited survives every commit: what a challenge
\* the platform restarts breaks.
THEOREM PreservedLoginsStay == Undisturbed => (Spec => PreservedLoginKept)
<1> SUFFICES ASSUME Undisturbed PROVE Spec => PreservedLoginKept
  OBVIOUS
<1>1. LifeInv /\ LifeInv' /\ [Next]_vars => [Restorable(db.cipher) => Login(db'.cipher) # 0]_vars
  <2> SUFFICES ASSUME LifeInv, LifeInv', [Next]_vars, Restorable(db.cipher) PROVE Login(db'.cipher) # 0
    OBVIOUS
  <2>1. Login(db.cipher) <= Login(db'.cipher)
    BY LifeStep DEF LifeInv
  <2>2. Login(db.cipher) \in Nat /\ Login(db'.cipher) \in Nat
    BY Fields DEF LifeInv, LeaseInv, TypeOK, Rows
  <2>3. Login(db.cipher) # 0
    BY DEF Restorable, Login
  <2> QED
    BY <2>1, <2>2, <2>3
<1> QED
  BY <1>1, LifeIsOrderly, PTL DEF Spec, PreservedLoginKept
=============================================================================
