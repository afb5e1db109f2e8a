-------------------------- MODULE LoginTaskProofs --------------------------
(***************************************************************************)
(* Types, login tasks that stay ended, and a task for every code that is   *)
(* asked for: for any number of requests and keepalive passes.  Then the   *)
(* web sessions and tokens of a login at PICC.                             *)
(***************************************************************************)
EXTENDS LoginTask, FiniteSetTheorems, SequenceTheorems, TLAPS

Rows == [account : Accounts, tasks : Seq(Statuses)]
Places == {"idle", "start", "submit", "reset", "enter", "call", "look", "write", "done"}

\* The loops are not requests, and there are finitely many of these.
Setting == IsFiniteSet(Requests) /\ Requests \cap Passes = {}

Typing ==
  /\ session \in Sessions /\ account \in Accounts /\ tasks \in Seq(Statuses)
  /\ actor \in Actors \cup {NoOne} /\ rowLock \in Actors \cup {NoOne}
  /\ pc \in [Actors -> Places]
  /\ job \in [Requests -> [kind : {"start", "submit", "reset"}, task : Nat]]
  /\ seen \in [Actors -> Rows] /\ mem \in [Actors -> Rows]
  /\ loaded \in [Actors -> Sessions]
  /\ outrun \in BOOLEAN

\* What a request took for the tasks stays as it read it, except that the start of a login adds
\* one and may end others; a code is for a task that waited.
Knows(q) ==
  LET started == pc[q] \in {"enter", "call"} /\ job[q].kind = "start" IN
  /\ pc[q] \in {"start", "submit", "reset"} => job[q].kind = pc[q]
  /\ pc[q] # "done" /\ ~started => mem[q].tasks = seen[q].tasks
  /\ started =>
       /\ Len(mem[q].tasks) = Len(seen[q].tasks) + 1
       /\ \A i \in 1 .. Len(seen[q].tasks) : mem[q].tasks[i] \in {seen[q].tasks[i], "expired"}
  /\ pc[q] \in {"submit", "enter", "call"} /\ job[q].kind = "submit" =>
       job[q].task \in 1 .. Len(seen[q].tasks)
  /\ pc[q] \in {"enter", "call"} => job[q].kind \in {"start", "submit"}
  /\ pc[q] \in {"enter", "call"} /\ job[q].kind = "submit" => mem[q].tasks[job[q].task] = "needs_code"

\* Nobody knows of more tasks than there are; a pass changes none, and never asks for a code.
Known ==
  /\ \A a \in Actors : Len(seen[a].tasks) <= Len(tasks)
  /\ \A p \in Passes :
       /\ mem[p].tasks = seen[p].tasks
       /\ mem[p].account.status = "needs_code" => seen[p].account.status = "needs_code"
  /\ \A q \in Requests : Knows(q)

\* Each task is of another request that has ended.
Counted ==
  /\ Len(tasks) <= Cardinality({q \in Requests : pc[q] = "done"})
  /\ late \subseteq 1 .. Len(tasks)
  /\ \A q \in Requests : job[q].task <= Len(tasks)

Invariant == Typing /\ Known /\ Counted /\ CodeHasTask

-----------------------------------------------------------------------------
\* What an UPDATE leaves of the account, column by column.
LEMMA AccountWritten ==
  ASSUME NEW now \in Accounts, NEW old \in Accounts, NEW new \in Accounts
  PROVE  /\ Written(now, old, new) \in Accounts
         /\ Written(now, old, new).status = IF new.status = old.status THEN now.status ELSE new.status
<1> DEFINE out == Written(now, old, new)
<1>1. out = [c \in {"status", "everIn"} |-> IF new[c] = old[c] THEN now[c] ELSE new[c]]
  BY DEF Accounts, Written
<1>2. /\ out.status = IF new.status = old.status THEN now.status ELSE new.status
      /\ out.everIn = IF new.everIn = old.everIn THEN now.everIn ELSE new.everIn
  BY <1>1
<1>3. out = [status |-> out.status, everIn |-> out.everIn]
  BY <1>1
<1>4. out.status \in LoginStatuses /\ out.everIn \in BOOLEAN
  BY <1>2 DEF Accounts
<1> HIDE DEF out
<1>5. out \in Accounts
  BY <1>3, <1>4 DEF Accounts
<1> QED  BY <1>2, <1>5 DEF out

\* What an UPDATE leaves of the tasks: those nobody touched, and a new one at the end.
LEMMA TasksWritten ==
  ASSUME tasks \in Seq(Statuses), NEW old \in Seq(Statuses), NEW new \in Seq(Statuses),
         Len(old) <= Len(tasks), Len(new) \in {Len(old), Len(old) + 1}
  PROVE  LET out == WrittenTasks(old, new) IN
         /\ out \in Seq(Statuses)
         /\ Len(out) = Len(tasks) + Len(new) - Len(old)
         /\ \A i \in 1 .. Len(tasks) :
              out[i] = IF i > Len(old) \/ new[i] = old[i] THEN tasks[i] ELSE new[i]
         /\ Len(new) = Len(old) + 1 => out[Len(tasks) + 1] = new[Len(new)]
<1> DEFINE n == Len(tasks) + Len(new) - Len(old)
           Cell(i) == IF i > Len(tasks) THEN new[Len(new)]
                      ELSE IF i > Len(old) \/ new[i] = old[i] THEN tasks[i] ELSE new[i]
           out == WrittenTasks(old, new)
<1>1. Len(tasks) \in Nat /\ Len(old) \in Nat /\ Len(new) \in Nat
  OBVIOUS
<1>2. n \in Nat /\ n >= Len(tasks) /\ n <= Len(tasks) + 1
  BY <1>1
<1>3. out = [i \in 1 .. n |-> Cell(i)]
  BY DEF WrittenTasks
<1>4. \A i \in 1 .. n : Cell(i) \in Statuses
  <2> SUFFICES ASSUME NEW i \in 1 .. n
               PROVE  Cell(i) \in Statuses
    OBVIOUS
  <2>1. CASE i > Len(tasks)
    <3>1. Len(new) \in 1 .. Len(new)
      BY <2>1, <1>1, <1>2
    <3> QED  BY <2>1, <3>1
  <2>2. CASE ~(i > Len(tasks)) /\ (i > Len(old) \/ new[i] = old[i])
    <3>1. i \in 1 .. Len(tasks)
      BY <2>2, <1>1, <1>2
    <3> QED  BY <2>2, <3>1
  <2>3. CASE ~(i > Len(tasks)) /\ ~(i > Len(old) \/ new[i] = old[i])
    <3>1. i \in 1 .. Len(new)
      BY <2>3, <1>1, <1>2
    <3> QED  BY <2>3, <3>1
  <2> QED  BY <2>1, <2>2, <2>3
<1>5. out \in Seq(Statuses) /\ Len(out) = n
  <2> HIDE DEF n, Cell, out
  <2> QED  BY <1>2, <1>3, <1>4
<1>6. \A i \in 1 .. Len(tasks) :
        out[i] = IF i > Len(old) \/ new[i] = old[i] THEN tasks[i] ELSE new[i]
  BY <1>1, <1>2, <1>3
<1>7. Len(new) = Len(old) + 1 => out[Len(tasks) + 1] = new[Len(new)]
  BY <1>1, <1>2, <1>3
<1> QED  BY <1>5, <1>6, <1>7 DEF n

\* The requests that have ended.
Ended == {q \in Requests : pc[q] = "done"}

\* There are no more ended requests than requests, and one more when one ends.
LEMMA EndedGrow ==
  ASSUME Setting, Typing, NEW a \in Actors, NEW where \in Places, Goto(a, where),
         a \in Requests => pc[a] # "done"
  PROVE  /\ Cardinality(Ended) \in Nat /\ Cardinality(Ended') \in Nat
         /\ Cardinality(Ended) <= Cardinality(Ended')
         /\ Cardinality(Ended') <= Cardinality(Requests)
         /\ a \in Requests /\ where = "done" => Cardinality(Ended') = Cardinality(Ended) + 1
<1>1. IsFiniteSet(Requests) /\ Ended \subseteq Requests /\ Ended' \subseteq Requests
  BY DEF Setting, Ended
<1>2. IsFiniteSet(Ended) /\ IsFiniteSet(Ended')
  BY <1>1, FS_Subset
<1>3. Cardinality(Ended) \in Nat /\ Cardinality(Ended') \in Nat /\ Cardinality(Requests) \in Nat
  BY <1>1, <1>2, FS_CardinalityType
<1>4. Cardinality(Ended') <= Cardinality(Requests)
  BY <1>1, FS_Subset
<1>5. \A q \in Requests : pc'[q] = IF q = a THEN where ELSE pc[q]
  BY DEF Typing, Goto, Actors
<1>6. Ended' = IF a \in Requests /\ where = "done" THEN Ended \cup {a} ELSE Ended
  BY <1>5 DEF Ended
<1>7. CASE a \in Requests /\ where = "done"
  <2>1. a \notin Ended
    BY <1>7 DEF Ended
  <2>2. Cardinality(Ended') = Cardinality(Ended) + 1
    BY <1>2, <1>6, <1>7, <2>1, FS_AddElement
  <2> QED  BY <1>3, <1>4, <2>2
<1>8. CASE ~(a \in Requests /\ where = "done")
  BY <1>3, <1>4, <1>6, <1>8
<1> QED  BY <1>7, <1>8

\* A step of one actor that changes only its own part of what each of them has.
Moves(a, where) ==
  /\ where \in Places /\ Goto(a, where)
  /\ a \in Requests => pc[a] # "done"
  /\ \A b \in Actors \ {a} : seen'[b] = seen[b] /\ mem'[b] = mem[b]
  /\ \A q \in Requests \ {a} : job'[q] = job[q]

\* Everyone stays at one of the places.
LEMMA MoveTyped ==
  ASSUME Typing, NEW a \in Actors, NEW where, Moves(a, where)
  PROVE  pc' \in [Actors -> Places] /\ pc'[a] = where
  BY DEF Typing, Moves, Goto

\* It keeps what the others know and the number of tasks, when what it knows itself is right.
LEMMA MoveKeeps ==
  ASSUME Setting, Typing, Known, Counted, NEW a \in Actors, NEW where, Moves(a, where),
         seen'[a] \in Rows, tasks' \in Seq(Statuses),
         \/ Len(tasks') = Len(tasks)
         \/ Len(tasks') = Len(tasks) + 1 /\ a \in Requests /\ where = "done",
         Len(seen'[a].tasks) <= Len(tasks'),
         a \in Passes => /\ mem'[a].tasks = seen'[a].tasks
                         /\ mem'[a].account.status = "needs_code" => seen'[a].account.status = "needs_code",
         a \in Requests => Knows(a)' /\ job'[a] \in [kind : {"start", "submit", "reset"}, task : Nat]
                                     /\ job'[a].task <= Len(tasks'),
         late' \subseteq 1 .. Len(tasks')
  PROVE  Known' /\ Counted'
<1>1. Len(tasks) \in Nat /\ Len(tasks') \in Nat /\ Len(tasks) <= Len(tasks')
  BY DEF Typing
<1>2. \A b \in Actors : Len(seen[b].tasks) \in Nat
  BY DEF Typing, Rows
<1>3. \A b \in Actors : Len(seen'[b].tasks) <= Len(tasks')
  BY <1>1, <1>2 DEF Known, Moves
<1>4. \A p \in Passes :
        /\ mem'[p].tasks = seen'[p].tasks
        /\ mem'[p].account.status = "needs_code" => seen'[p].account.status = "needs_code"
  BY DEF Known, Moves, Actors
<1>5. \A q \in Requests \ {a} : Knows(q)'
  <2> SUFFICES ASSUME NEW q \in Requests \ {a}
               PROVE  Knows(q)'
    OBVIOUS
  <2>1. pc'[q] = pc[q] /\ job'[q] = job[q] /\ seen'[q] = seen[q] /\ mem'[q] = mem[q]
    BY DEF Typing, Moves, Goto, Actors
  <2>2. Knows(q)
    BY DEF Known
  <2> QED  BY <2>1, <2>2 DEF Knows
<1>6. Known'
  BY <1>3, <1>4, <1>5 DEF Known
<1>7. /\ Cardinality(Ended) \in Nat /\ Cardinality(Ended') \in Nat
      /\ Cardinality(Ended) <= Cardinality(Ended')
      /\ a \in Requests /\ where = "done" => Cardinality(Ended') = Cardinality(Ended) + 1
  BY EndedGrow DEF Moves
<1>8. Len(tasks) <= Cardinality(Ended)
  BY DEF Counted, Ended
<1>9. Len(tasks') <= Cardinality(Ended')
  BY <1>1, <1>7, <1>8
<1>10. \A q \in Requests : job'[q].task <= Len(tasks')
  <2> SUFFICES ASSUME NEW q \in Requests \ {a}
               PROVE  job'[q].task <= Len(tasks')
    OBVIOUS
  <2>1. job'[q] = job[q] /\ job[q].task \in Nat /\ job[q].task <= Len(tasks)
    BY DEF Moves, Typing, Counted
  <2> QED  BY <1>1, <2>1
<1>11. Counted'
  BY <1>9, <1>10 DEF Counted, Ended
<1> QED  BY <1>6, <1>11

-----------------------------------------------------------------------------
\* What a commit does to the tasks and to the question whether a code can be submitted.
LEMMA CommitSound ==
  ASSUME Typing, Known, CodeHasTask, NEW a \in Actors, NEW rows \in Rows, NEW answered,
         Commit(a, rows, answered),
         Len(rows.tasks) \in {Len(seen[a].tasks), Len(seen[a].tasks) + 1},
         \A i \in 1 .. Len(seen[a].tasks) :
           rows.tasks[i] # seen[a].tasks[i] => ~Open(rows.tasks[i]),
         rows.account.status = "needs_code" =>
           \/ rows.account.status = seen[a].account.status /\ rows.tasks = seen[a].tasks
           \/ Len(rows.tasks) = Len(seen[a].tasks) + 1 /\ rows.tasks[Len(rows.tasks)] = "needs_code"
           \/ \E i \in answered : /\ i \in 1 .. Len(seen[a].tasks)
                                  /\ rows.tasks[i] = "needs_code" /\ seen[a].tasks[i] = "needs_code"
  PROVE  /\ account' \in Accounts /\ tasks' \in Seq(Statuses) /\ outrun' \in BOOLEAN
         /\ rowLock' \in Actors \cup {NoOne}
         /\ Len(tasks') = Len(tasks) + Len(rows.tasks) - Len(seen[a].tasks)
         /\ EndedStaysEnded /\ CodeHasTask'
<1> DEFINE old == seen[a].tasks
           new == rows.tasks
           n == Len(tasks)
<1>1. /\ seen[a] \in Rows /\ old \in Seq(Statuses) /\ new \in Seq(Statuses) /\ tasks \in Seq(Statuses)
      /\ seen[a].account \in Accounts /\ rows.account \in Accounts /\ account \in Accounts
  BY DEF Typing, Rows
<1>2. Len(old) \in Nat /\ Len(new) \in Nat /\ n \in Nat /\ Len(old) <= n
  BY <1>1 DEF Known
<1>3. /\ tasks' \in Seq(Statuses) /\ Len(tasks') = n + Len(new) - Len(old)
      /\ \A i \in 1 .. n : tasks'[i] = IF i > Len(old) \/ new[i] = old[i] THEN tasks[i] ELSE new[i]
      /\ Len(new) = Len(old) + 1 => tasks'[n + 1] = new[Len(new)]
  BY <1>1, <1>2, TasksWritten, ZenonT(40) DEF Commit
<1>4. /\ account' \in Accounts
      /\ account'.status = IF rows.account.status = seen[a].account.status THEN account.status
                           ELSE rows.account.status
  BY <1>1, AccountWritten DEF Commit
<1>5. outrun' \in BOOLEAN /\ rowLock' \in Actors \cup {NoOne}
  BY DEF Commit, Typing
<1>6. EndedStaysEnded
  <2> SUFFICES ASSUME NEW i \in 1 .. n, ~Open(tasks[i])
               PROVE  ~Open(tasks'[i])
    BY <1>1 DEF EndedStaysEnded
  <2>1. CASE i > Len(old) \/ new[i] = old[i]
    BY <1>3, <2>1
  <2>2. CASE ~(i > Len(old) \/ new[i] = old[i])
    <3>1. i \in 1 .. Len(old)
      BY <1>2, <2>2
    <3> QED  BY <1>3, <2>2, <3>1
  <2> QED  BY <2>1, <2>2
<1>7. CodeHasTask'
  <2> SUFFICES ASSUME CodeMissing'
               PROVE  outrun'
    BY DEF CodeHasTask
  <2>1. account'.status = "needs_code" /\ OpenIn(tasks') = {}
    BY DEF CodeMissing
  <2>2. \A i \in 1 .. Len(tasks') : ~Open(tasks'[i])
    BY <1>3, <2>1 DEF OpenIn
  <2>3. CASE Unsent(account.status, seen[a].account.status, rows.account.status)
    BY <2>3 DEF Commit
  <2>4. CASE ~Unsent(account.status, seen[a].account.status, rows.account.status)
    <3>1. rows.account.status = "needs_code"
      BY <1>4, <2>1, <2>4 DEF Unsent
    <3>2. CASE rows.account.status = seen[a].account.status /\ new = old
      <4>1. account.status = "needs_code"
        BY <2>4, <3>1, <3>2 DEF Unsent
      <4>2. Len(tasks') = n /\ \A i \in 1 .. n : tasks'[i] = tasks[i]
        BY <1>2, <1>3, <3>2
      <4>3. OpenIn(tasks) = {}
        BY <1>1, <2>2, <4>2 DEF OpenIn
      <4> QED  BY <4>1, <4>3 DEF Commit, CodeMissing, CodeHasTask
    <3>3. CASE Len(new) = Len(old) + 1 /\ new[Len(new)] = "needs_code"
      <4>1. n + 1 \in 1 .. Len(tasks') /\ tasks'[n + 1] = "needs_code"
        BY <1>2, <1>3, <3>3
      <4> QED  BY <2>2, <4>1 DEF Open, TaskEnded
    <3>4. CASE \E i \in answered : i \in 1 .. Len(old) /\ new[i] = "needs_code" /\ old[i] = "needs_code"
      <4>1. PICK i \in answered : i \in 1 .. Len(old) /\ new[i] = "needs_code" /\ old[i] = "needs_code"
        BY <3>4
      <4>2. i \in 1 .. n /\ i \in 1 .. Len(tasks')
        <5>1. i \in Nat /\ 1 <= i /\ i <= n
          BY <1>2, <4>1
        <5>2. Len(tasks') \in Nat /\ n <= Len(tasks')
          BY <1>2, <1>3, SMTT(30)
        <5> QED  BY <1>2, <5>1, <5>2
      <4>3. ~Open(tasks[i])
        BY <1>3, <2>2, <4>1, <4>2
      <4>4. tasks[i] # "needs_code"
        BY <4>3 DEF Open, TaskEnded
      <4> QED  BY <4>1, <4>4 DEF Commit, Unsent
    <3> QED  BY <3>1, <3>2, <3>3, <3>4
  <2> QED  BY <2>3, <2>4
<1> QED  BY <1>3, <1>4, <1>5, <1>6, <1>7

-----------------------------------------------------------------------------
Kept == Invariant' /\ EndedStaysEnded

\* Where tasks, account and history stay, tasks stay ended and codes submittable.
LEMMA NothingCommitted ==
  ASSUME UNCHANGED <<account, tasks, outrun>>, CodeHasTask
  PROVE  EndedStaysEnded /\ CodeHasTask'
  BY DEF EndedStaysEnded, CodeHasTask, CodeMissing, OpenIn

\* What has its type.
LEMMA TypesOf ==
  ASSUME Typing, Known, NEW a \in Actors
  PROVE  /\ seen[a] \in Rows /\ mem[a] \in Rows /\ Snapshot \in Rows
         /\ seen[a].tasks \in Seq(Statuses) /\ mem[a].tasks \in Seq(Statuses)
         /\ seen[a].account \in Accounts /\ mem[a].account \in Accounts
         /\ Len(seen[a].tasks) \in Nat /\ Len(mem[a].tasks) \in Nat /\ Len(tasks) \in Nat
         /\ Len(seen[a].tasks) <= Len(tasks)
  BY DEF Typing, Known, Rows, Snapshot

\* A request that begins takes a snapshot, and the task whose code it submits is on it.
LEMMA BeginKeeps ==
  ASSUME Setting, Invariant, NEW q \in Requests, Begin(q)
  PROVE  Kept
<1>1. PICK kind \in {"start", "submit", "reset"}, i \in {NoTask} \cup DOMAIN tasks :
        /\ kind = "submit" <=> i # NoTask
        /\ job' = [job EXCEPT ![q] = [kind |-> kind, task |-> i]]
        /\ Goto(q, kind)
  BY DEF Begin
<1>2. Typing /\ Known /\ Counted /\ CodeHasTask /\ q \in Actors /\ q \notin Passes
  BY DEF Invariant, Actors, Setting
<1>3. /\ seen[q] \in Rows /\ mem[q] \in Rows /\ Snapshot \in Rows /\ Len(tasks) \in Nat
      /\ tasks \in Seq(Statuses)
  BY <1>2, TypesOf DEF Typing
<1>4. i \in Nat /\ i <= Len(tasks) /\ (kind = "submit" => i \in 1 .. Len(tasks))
  BY <1>1, <1>3 DEF NoTask
<1>5. [kind |-> kind, task |-> i] \in [kind : {"start", "submit", "reset"}, task : Nat]
  BY <1>4
<1>6. /\ pc[q] = "idle" /\ seen' = [seen EXCEPT ![q] = Snapshot] /\ mem' = [mem EXCEPT ![q] = Snapshot]
      /\ UNCHANGED <<session, account, tasks, late, actor, rowLock, loaded, outrun>>
  BY DEF Begin
<1>7. Moves(q, kind)
  BY <1>1, <1>2, <1>6 DEF Moves, Places, Typing
<1>8. Typing'
  <2>1. pc' \in [Actors -> Places]
    BY <1>2, <1>7, MoveTyped
  <2>2. job' \in [Requests -> [kind : {"start", "submit", "reset"}, task : Nat]]
    BY <1>1, <1>2, <1>5 DEF Typing
  <2>3. seen' \in [Actors -> Rows] /\ mem' \in [Actors -> Rows]
    BY <1>2, <1>3, <1>6 DEF Typing
  <2> QED  BY <1>2, <1>6, <2>1, <2>2, <2>3 DEF Typing
<1>9. /\ pc'[q] = kind /\ job'[q] = [kind |-> kind, task |-> i]
      /\ seen'[q] = Snapshot /\ mem'[q] = Snapshot
  BY <1>1, <1>2, <1>6 DEF Goto, Typing
<1>10. Knows(q)'
  BY <1>4, <1>9 DEF Knows, Snapshot
<1>11. Snapshot.tasks = tasks
  BY DEF Snapshot
<1>12. Known' /\ Counted'
  BY <1>2, <1>3, <1>4, <1>5, <1>6, <1>7, <1>9, <1>10, <1>11, MoveKeeps DEF Counted
<1> QED  BY <1>2, <1>6, <1>8, <1>12, NothingCommitted DEF Kept, Invariant

\* Whoever gives up is done and has changed nothing.
LEMMA GiveUpKeeps ==
  ASSUME Setting, Invariant, NEW a \in Actors, GiveUp(a)
  PROVE  Kept
<1>1. Typing /\ Known /\ Counted /\ CodeHasTask
  BY DEF Invariant
<1>2. /\ pc[a] \in {"start", "reset", "call", "write"} /\ Goto(a, "done")
      /\ actor' = IF actor = a THEN NoOne ELSE actor
      /\ UNCHANGED <<session, account, tasks, late, rowLock, job, seen, mem, loaded, outrun>>
  BY DEF GiveUp
<1>3. Moves(a, "done")
  BY <1>2 DEF Moves, Places
<1>4. Typing'
  <2>1. /\ session' \in Sessions /\ account' \in Accounts /\ tasks' \in Seq(Statuses)
        /\ actor' \in Actors \cup {NoOne} /\ rowLock' \in Actors \cup {NoOne} /\ outrun' \in BOOLEAN
    BY <1>1, <1>2 DEF Typing
  <2>2. job' = job /\ seen' = seen /\ mem' = mem /\ loaded' = loaded
    BY <1>2
  <2> QED  BY <1>1, <1>3, <2>1, <2>2, MoveTyped DEF Typing
<1>5. pc'[a] = "done"
  BY <1>1, <1>3, MoveTyped
<1>6. a \in Requests => Knows(a)'
  BY <1>5 DEF Knows
<1>7. a \in Requests => job[a] \in [kind : {"start", "submit", "reset"}, task : Nat] /\ job[a].task <= Len(tasks)
  BY <1>1 DEF Typing, Counted
<1>8. /\ seen[a] \in Rows /\ Len(seen[a].tasks) <= Len(tasks) /\ tasks \in Seq(Statuses)
      /\ a \in Passes => /\ mem[a].tasks = seen[a].tasks
                         /\ mem[a].account.status = "needs_code" => seen[a].account.status = "needs_code"
  BY <1>1 DEF Typing, Known
<1>9. Known' /\ Counted'
  BY <1>1, <1>2, <1>3, <1>6, <1>7, <1>8, MoveKeeps DEF Counted
<1> QED  BY <1>1, <1>2, <1>4, <1>9, NothingCommitted DEF Kept, Invariant

\* The start of a login answers with a task that is there, or adds one.
LEMMA StartKeeps ==
  ASSUME Setting, Invariant, NEW q \in Requests, Start(q)
  PROVE  Kept
<1> DEFINE old == mem[q].tasks
           open == OpenIn(old)
           ended == [i \in DOMAIN old |-> IF i \in open /\ i = Newest(open) THEN "expired" ELSE old[i]]
           new == Append(ended, "running")
<1>1. Typing /\ Known /\ Counted /\ CodeHasTask /\ q \in Actors /\ q \notin Passes
  BY DEF Invariant, Actors, Setting
<1>2. /\ seen[q] \in Rows /\ mem[q] \in Rows /\ tasks \in Seq(Statuses)
      /\ old \in Seq(Statuses) /\ Len(old) \in Nat /\ mem[q].account \in Accounts
      /\ Len(seen[q].tasks) <= Len(tasks)
  BY <1>1, TypesOf DEF Typing
<1>3. /\ pc[q] = "start" /\ Knows(q)
      /\ UNCHANGED <<session, account, tasks, late, actor, job, loaded, outrun>>
  BY <1>1 DEF Start, Known
<1>4. job[q].kind = "start" /\ old = seen[q].tasks
  BY <1>3 DEF Knows
<1>5. job[q] \in [kind : {"start", "submit", "reset"}, task : Nat] /\ job[q].task <= Len(tasks)
  BY <1>1 DEF Typing, Counted
<1>6. CASE Goto(q, "done") /\ UNCHANGED <<rowLock, seen, mem>>
  <2>1. Moves(q, "done")
    BY <1>3, <1>6 DEF Moves, Places
  <2>2. pc'[q] = "done" /\ pc' \in [Actors -> Places]
    BY <1>1, <2>1, MoveTyped
  <2>3. Typing'
    BY <1>1, <1>3, <1>6, <2>2 DEF Typing
  <2>4. Knows(q)'
    BY <2>2 DEF Knows
  <2>5. Known' /\ Counted'
    BY <1>1, <1>2, <1>3, <1>5, <1>6, <2>1, <2>4, MoveKeeps DEF Counted
  <2> QED  BY <1>1, <1>3, <2>3, <2>5, NothingCommitted DEF Kept, Invariant
<1>7. CASE /\ rowLock' = q /\ Goto(q, "enter")
           /\ seen' = [seen EXCEPT ![q].account.status = "logging_in"]
           /\ mem' = [mem EXCEPT ![q].tasks = new]
  <2>1. /\ ended \in Seq(Statuses) /\ Len(ended) = Len(old)
        /\ \A i \in 1 .. Len(old) : ended[i] \in {old[i], "expired"}
    <3>1. DOMAIN old = 1 .. Len(old)
      BY <1>2
    <3>2. \A i \in 1 .. Len(old) : old[i] \in Statuses /\ "expired" \in Statuses
      BY <1>2 DEF Statuses, TaskEnded
    <3> HIDE DEF open
    <3>3. \A i \in 1 .. Len(old) : ended[i] \in Statuses /\ ended[i] \in {old[i], "expired"}
      BY <3>1, <3>2
    <3>4. ended = [i \in 1 .. Len(old) |-> ended[i]]
      BY <3>1
    <3> HIDE DEF ended
    <3>5. Len(old) \in Nat /\ (\A i \in 1 .. Len(old) : ended[i] \in Statuses)
      BY <1>2, <3>3
    <3>6. ended \in Seq(Statuses) /\ Len(ended) = Len(old)
      BY <3>4, <3>5
    <3> QED  BY <3>3, <3>6
  <2>2. "running" \in Statuses
    BY DEF Statuses
  <2> HIDE DEF ended
  <2>3. /\ new \in Seq(Statuses) /\ Len(new) = Len(old) + 1
        /\ \A i \in 1 .. Len(old) : new[i] \in {old[i], "expired"}
    BY <1>2, <2>1, <2>2
  <2> HIDE DEF new
  <2>4. mem'[q] = [mem[q] EXCEPT !.tasks = new] /\ \A b \in Actors \ {q} : mem'[b] = mem[b]
    BY <1>1, <1>7 DEF Typing
  <2>5. mem'[q] \in Rows /\ mem'[q].tasks = new
    BY <1>2, <2>3, <2>4 DEF Rows
  <2>6. mem' \in [Actors -> Rows]
    BY <1>1, <1>7, <2>4, <2>5 DEF Typing
  <2>seen. /\ seen'[q] \in Rows /\ seen'[q].tasks = seen[q].tasks
           /\ seen' \in [Actors -> Rows] /\ \A b \in Actors \ {q} : seen'[b] = seen[b]
    <3> DEFINE row == [seen[q].account EXCEPT !.status = "logging_in"]
    <3>1. row \in Accounts
      BY <1>2 DEF Rows, Accounts, LoginStatuses
    <3>2. seen' = [seen EXCEPT ![q] = [seen[q] EXCEPT !.account = row]]
      BY <1>7
    <3> HIDE DEF row
    <3>3. [seen[q] EXCEPT !.account = row] \in Rows /\ [seen[q] EXCEPT !.account = row].tasks = seen[q].tasks
      BY <1>2, <3>1 DEF Rows
    <3> QED  BY <1>1, <3>2, <3>3 DEF Typing
  <2>7. Moves(q, "enter")
    BY <1>3, <1>7, <2>4, <2>seen DEF Moves, Places
  <2>8. pc'[q] = "enter" /\ pc' \in [Actors -> Places]
    BY <1>1, <2>7, MoveTyped
  <2>9. Typing'
    BY <1>1, <1>3, <1>7, <2>6, <2>8, <2>seen DEF Typing
  <2>10. Knows(q)'
    BY <1>3, <1>4, <2>3, <2>5, <2>8, <2>seen DEF Knows
  <2>11. Known' /\ Counted'
    BY <1>1, <1>2, <1>3, <1>5, <1>7, <2>7, <2>10, <2>seen, MoveKeeps DEF Counted
  <2> QED  BY <1>1, <1>3, <2>9, <2>11, NothingCommitted DEF Kept, Invariant
<1> QED  BY <1>6, <1>7 DEF Start

\* A code is submitted for a task that waits.
LEMMA SubmitKeeps ==
  ASSUME Setting, Invariant, NEW q \in Requests, Submit(q)
  PROVE  Kept
<1>1. Typing /\ Known /\ Counted /\ CodeHasTask /\ q \in Actors /\ q \notin Passes
  BY DEF Invariant, Actors, Setting
<1>2. /\ seen[q] \in Rows /\ mem[q] \in Rows /\ tasks \in Seq(Statuses)
      /\ Len(seen[q].tasks) <= Len(tasks)
  BY <1>1, TypesOf DEF Typing
<1>3. /\ pc[q] = "submit" /\ Knows(q)
      /\ UNCHANGED <<session, account, tasks, late, actor, rowLock, job, seen, mem, loaded, outrun>>
  BY <1>1 DEF Submit, Known
<1>4. job[q] \in [kind : {"start", "submit", "reset"}, task : Nat] /\ job[q].task <= Len(tasks)
  BY <1>1 DEF Typing, Counted
<1>5. PICK where \in {"enter", "done"} :
        Goto(q, where) /\ (where = "enter" => mem[q].tasks[job[q].task] = "needs_code")
  BY DEF Submit
<1>6. Moves(q, where)
  BY <1>3, <1>5 DEF Moves, Places
<1>7. pc'[q] = where /\ pc' \in [Actors -> Places]
  BY <1>1, <1>6, MoveTyped
<1>8. Typing'
  BY <1>1, <1>3, <1>7 DEF Typing
<1>9. Knows(q)'
  BY <1>3, <1>5, <1>7 DEF Knows
<1>10. Known' /\ Counted'
  BY <1>1, <1>2, <1>3, <1>4, <1>6, <1>9, MoveKeeps DEF Counted
<1> QED  BY <1>1, <1>3, <1>8, <1>10, NothingCommitted DEF Kept, Invariant

\* Whoever enters the session manager loads the session.
LEMMA EnterKeeps ==
  ASSUME Setting, Invariant, NEW a \in Actors, Enter(a)
  PROVE  Kept
<1>1. Typing /\ Known /\ Counted /\ CodeHasTask
  BY DEF Invariant
<1>2. /\ seen[a] \in Rows /\ mem[a] \in Rows /\ tasks \in Seq(Statuses)
      /\ Len(seen[a].tasks) <= Len(tasks)
  BY <1>1, TypesOf DEF Typing
<1>3. /\ pc[a] = "enter" /\ actor' = a /\ Goto(a, "call")
      /\ loaded' = [loaded EXCEPT ![a] = session]
      /\ UNCHANGED <<session, account, tasks, late, rowLock, job, seen, mem, outrun>>
  BY DEF Enter
<1>4. Moves(a, "call")
  BY <1>3 DEF Moves, Places
<1>5. pc'[a] = "call" /\ pc' \in [Actors -> Places]
  BY <1>1, <1>4, MoveTyped
<1>6. Typing'
  BY <1>1, <1>3, <1>5 DEF Typing
<1>7. a \in Requests => Knows(a)' /\ job[a] \in [kind : {"start", "submit", "reset"}, task : Nat]
                                  /\ job[a].task <= Len(tasks)
  <2> SUFFICES ASSUME a \in Requests
               PROVE  Knows(a)' /\ job[a] \in [kind : {"start", "submit", "reset"}, task : Nat]
                                /\ job[a].task <= Len(tasks)
    OBVIOUS
  <2>1. Knows(a)
    BY <1>1 DEF Known
  <2>2. Knows(a)'
    BY <1>3, <1>5, <2>1 DEF Knows
  <2> QED  BY <1>1, <2>2 DEF Typing, Counted
<1>8. a \in Passes => /\ mem[a].tasks = seen[a].tasks
                      /\ mem[a].account.status = "needs_code" => seen[a].account.status = "needs_code"
  BY <1>1 DEF Known
<1>9. Known' /\ Counted'
  BY <1>1, <1>2, <1>3, <1>4, <1>7, <1>8, MoveKeeps DEF Counted
<1> QED  BY <1>1, <1>3, <1>6, <1>9, NothingCommitted DEF Kept, Invariant

-----------------------------------------------------------------------------
\* A pass begins with a snapshot, whatever it has done before.
LEMMA PassBeginsKeeps ==
  ASSUME Setting, Invariant, NEW p \in Passes, PassBegins(p)
  PROVE  Kept
<1>1. Typing /\ Known /\ Counted /\ CodeHasTask /\ p \in Actors /\ p \notin Requests
  BY DEF Invariant, Actors, Setting
<1>2. Snapshot \in Rows /\ tasks \in Seq(Statuses) /\ Len(tasks) \in Nat /\ Snapshot.tasks = tasks
  BY <1>1, TypesOf DEF Typing, Snapshot
<1>3. /\ seen' = [seen EXCEPT ![p] = Snapshot] /\ mem' = [mem EXCEPT ![p] = Snapshot] /\ Goto(p, "look")
      /\ UNCHANGED <<session, account, tasks, late, actor, rowLock, job, loaded, outrun>>
  BY DEF PassBegins
<1>4. Moves(p, "look")
  BY <1>1, <1>3 DEF Moves, Places, Typing
<1>5. pc' \in [Actors -> Places]
  BY <1>1, <1>4, MoveTyped
<1>6. seen' \in [Actors -> Rows] /\ mem' \in [Actors -> Rows]
  BY <1>1, <1>2, <1>3 DEF Typing
<1>7. Typing'
  BY <1>1, <1>3, <1>5, <1>6 DEF Typing
<1>8. seen'[p] = Snapshot /\ mem'[p] = Snapshot
  BY <1>1, <1>3 DEF Typing
<1>9. /\ seen'[p] \in Rows /\ mem'[p] = seen'[p] /\ Len(seen'[p].tasks) <= Len(tasks')
      /\ tasks' = tasks /\ late' \subseteq 1 .. Len(tasks')
  BY <1>1, <1>2, <1>3, <1>8 DEF Counted
<1>10. Known' /\ Counted'
  BY <1>1, <1>2, <1>4, <1>9, MoveKeeps
<1> QED  BY <1>1, <1>3, <1>7, <1>10, NothingCommitted DEF Kept, Invariant

\* A pass that changes the status of the account in memory, but not to a code that is needed.
LEMMA MarkKeeps ==
  ASSUME Setting, Invariant, NEW p \in Passes, NEW row \in Rows,
         row.tasks = mem[p].tasks,
         row.account.status = "needs_code" => mem[p].account.status = "needs_code",
         mem' = [mem EXCEPT ![p] = row],
         Goto(p, "write"),
         session' \in Sessions, actor' \in Actors \cup {NoOne}, rowLock' \in Actors \cup {NoOne},
         UNCHANGED <<account, tasks, late, job, seen, loaded, outrun>>
  PROVE  Kept
<1>1. Typing /\ Known /\ Counted /\ CodeHasTask /\ p \in Actors /\ p \notin Requests
  BY DEF Invariant, Actors, Setting
<1>2. /\ seen[p] \in Rows /\ tasks \in Seq(Statuses) /\ Len(tasks) \in Nat
      /\ Len(seen[p].tasks) <= Len(tasks)
  BY <1>1, TypesOf DEF Typing
<1>3. /\ mem[p].tasks = seen[p].tasks
      /\ mem[p].account.status = "needs_code" => seen[p].account.status = "needs_code"
  BY <1>1 DEF Known
<1>4. mem'[p] = row /\ \A b \in Actors \ {p} : mem'[b] = mem[b]
  BY <1>1 DEF Typing
<1>5. mem' \in [Actors -> Rows]
  BY <1>1 DEF Typing
<1>6. Moves(p, "write")
  BY <1>1, <1>4 DEF Moves, Places
<1>7. pc' \in [Actors -> Places]
  BY <1>1, <1>6, MoveTyped
<1>8. Typing'
  BY <1>1, <1>5, <1>7 DEF Typing
<1>9. Known' /\ Counted'
  BY <1>1, <1>2, <1>3, <1>4, <1>6, MoveKeeps DEF Counted
<1> QED  BY <1>1, <1>8, <1>9, NothingCommitted DEF Kept, Invariant

\* A pass that looks at the account shows it as logged in, marks it, or enters.
LEMMA LookKeeps ==
  ASSUME Setting, Invariant, NEW p \in Passes, Look(p)
  PROVE  Kept
<1>1. Typing /\ Known /\ Counted /\ CodeHasTask /\ p \in Actors /\ p \notin Requests
  BY DEF Invariant, Actors, Setting
<1>2. /\ seen[p] \in Rows /\ mem[p] \in Rows /\ tasks \in Seq(Statuses) /\ Len(tasks) \in Nat
      /\ Len(seen[p].tasks) <= Len(tasks) /\ mem[p].account \in Accounts
  BY <1>1, TypesOf DEF Typing
<1>3. UNCHANGED <<session, account, tasks, late, actor, rowLock, job, seen, loaded, outrun>>
  BY DEF Look
<1>4. CASE Goto(p, "enter") /\ UNCHANGED mem
  <2>1. Moves(p, "enter")
    BY <1>1, <1>3, <1>4 DEF Moves, Places
  <2>2. pc' \in [Actors -> Places]
    BY <1>1, <2>1, MoveTyped
  <2>3. Typing'
    BY <1>1, <1>3, <1>4, <2>2 DEF Typing
  <2>4. /\ mem[p].tasks = seen[p].tasks
        /\ mem[p].account.status = "needs_code" => seen[p].account.status = "needs_code"
    BY <1>1 DEF Known
  <2>5. Known' /\ Counted'
    BY <1>1, <1>2, <1>3, <1>4, <2>1, <2>4, MoveKeeps DEF Counted
  <2> QED  BY <1>1, <1>3, <2>3, <2>5, NothingCommitted DEF Kept, Invariant
<1>5. CASE /\ \E new \in {mem[p].account}
                         \cup {[mem[p].account EXCEPT !.status = status] : status \in {"authenticated", "degraded"}} :
                mem' = [mem EXCEPT ![p].account = new]
           /\ Goto(p, "write")
  <2>1. PICK new \in {mem[p].account}
                     \cup {[mem[p].account EXCEPT !.status = status] : status \in {"authenticated", "degraded"}} :
          mem' = [mem EXCEPT ![p].account = new]
    BY <1>5
  <2>2. new \in Accounts /\ (new.status = "needs_code" => mem[p].account.status = "needs_code")
    BY <1>2, <2>1 DEF Accounts, LoginStatuses
  <2> DEFINE row == [mem[p] EXCEPT !.account = new]
  <2>3. row \in Rows /\ row.tasks = mem[p].tasks /\ row.account = new
    BY <1>2, <2>2 DEF Rows
  <2>4. mem' = [mem EXCEPT ![p] = row]
    BY <2>1
  <2>5. session' \in Sessions /\ actor' \in Actors \cup {NoOne} /\ rowLock' \in Actors \cup {NoOne}
    BY <1>1, <1>3 DEF Typing
  <2> HIDE DEF row
  <2> QED  BY <1>3, <1>5, <2>2, <2>3, <2>4, <2>5, MarkKeeps
<1> QED  BY <1>4, <1>5 DEF Look, NotDue

\* The answer to a keepalive is noted in memory.
LEMMA KeepaliveKeeps ==
  ASSUME Setting, Invariant, NEW p \in Passes, Keepalive(p)
  PROVE  Kept
<1>1. Typing /\ Known /\ p \in Actors
  BY DEF Invariant, Actors
<1>2. mem[p] \in Rows /\ mem[p].account \in Accounts
  BY <1>1, TypesOf
<1>3. PICK answer \in KeepaliveAnswers(loaded[p]) :
        session' = answer[1] /\ mem' = [mem EXCEPT ![p].account.status = answer[2]]
  BY DEF Keepalive
<1>4. answer[1] \in Sessions /\ answer[2] \in LoginStatuses \ {"needs_code"}
  BY <1>1, <1>3 DEF KeepaliveAnswers, Typing, Sessions, LoginStatuses
<1> DEFINE row == [mem[p] EXCEPT !.account = [mem[p].account EXCEPT !.status = answer[2]]]
<1>5. row \in Rows /\ row.tasks = mem[p].tasks /\ row.account.status # "needs_code"
  <2>1. [mem[p].account EXCEPT !.status = answer[2]] \in Accounts
    BY <1>2, <1>4 DEF Accounts
  <2>2. [mem[p].account EXCEPT !.status = answer[2]].status = answer[2]
    BY <1>2 DEF Accounts
  <2> QED  BY <1>2, <1>4, <2>1, <2>2 DEF Rows
<1>6. mem' = [mem EXCEPT ![p] = row]
  BY <1>3
<1>7. session' \in Sessions /\ actor' \in Actors \cup {NoOne} /\ rowLock' \in Actors \cup {NoOne}
  BY <1>1, <1>3, <1>4 DEF Keepalive, Typing
<1>8. Goto(p, "write") /\ UNCHANGED <<account, tasks, late, job, seen, loaded, outrun>>
  BY DEF Keepalive
<1> HIDE DEF row
<1> QED  BY <1>5, <1>6, <1>7, <1>8, MarkKeeps

-----------------------------------------------------------------------------
\* A commit that ends tasks, adds one or asks for the code of one that waits.
LEMMA CommitKeeps ==
  ASSUME Setting, Invariant, NEW a \in Actors, NEW rows \in Rows, NEW answered,
         Commit(a, rows, answered),
         a \in Requests => pc[a] # "done",
         \/ Len(rows.tasks) = Len(seen[a].tasks)
         \/ Len(rows.tasks) = Len(seen[a].tasks) + 1 /\ a \in Requests,
         \A i \in 1 .. Len(seen[a].tasks) :
           rows.tasks[i] # seen[a].tasks[i] => ~Open(rows.tasks[i]),
         rows.account.status = "needs_code" =>
           \/ rows.account.status = seen[a].account.status /\ rows.tasks = seen[a].tasks
           \/ Len(rows.tasks) = Len(seen[a].tasks) + 1 /\ rows.tasks[Len(rows.tasks)] = "needs_code"
           \/ \E i \in answered : /\ i \in 1 .. Len(seen[a].tasks)
                                  /\ rows.tasks[i] = "needs_code" /\ seen[a].tasks[i] = "needs_code",
         session' \in Sessions, actor' \in Actors \cup {NoOne}, late' \subseteq late,
         UNCHANGED <<job, seen, mem, loaded>>
  PROVE  Kept
<1>1. Typing /\ Known /\ Counted /\ CodeHasTask
  BY DEF Invariant
<1>2. Len(rows.tasks) \in {Len(seen[a].tasks), Len(seen[a].tasks) + 1}
  OBVIOUS
<1>3. /\ account' \in Accounts /\ tasks' \in Seq(Statuses) /\ outrun' \in BOOLEAN
      /\ rowLock' \in Actors \cup {NoOne}
      /\ Len(tasks') = Len(tasks) + Len(rows.tasks) - Len(seen[a].tasks)
      /\ EndedStaysEnded /\ CodeHasTask'
  BY <1>1, <1>2, CommitSound
<1>4. /\ seen[a] \in Rows /\ Len(seen[a].tasks) \in Nat /\ Len(tasks) \in Nat
      /\ Len(seen[a].tasks) <= Len(tasks)
  BY <1>1, TypesOf
<1>5. \/ Len(tasks') = Len(tasks)
      \/ Len(tasks') = Len(tasks) + 1 /\ a \in Requests
  <2>1. CASE Len(rows.tasks) = Len(seen[a].tasks)
    BY <1>3, <1>4, <2>1
  <2>2. CASE Len(rows.tasks) = Len(seen[a].tasks) + 1 /\ a \in Requests
    BY <1>3, <1>4, <2>2
  <2> QED  BY <2>1, <2>2
<1>6. Len(tasks') \in Nat /\ Len(tasks) <= Len(tasks')
  BY <1>4, <1>5
<1>7. Goto(a, "done")
  BY DEF Commit
<1>8. Moves(a, "done")
  BY <1>7 DEF Moves, Places
<1>9. pc' \in [Actors -> Places] /\ pc'[a] = "done"
  BY <1>1, <1>8, MoveTyped
<1>10. Typing'
  BY <1>1, <1>3, <1>9 DEF Typing
<1>11. Knows(a)'
  BY <1>9 DEF Knows
<1>12. a \in Requests => job[a] \in [kind : {"start", "submit", "reset"}, task : Nat] /\ job[a].task <= Len(tasks')
  <2> SUFFICES ASSUME a \in Requests
               PROVE  job[a] \in [kind : {"start", "submit", "reset"}, task : Nat] /\ job[a].task <= Len(tasks')
    OBVIOUS
  <2>1. job[a] \in [kind : {"start", "submit", "reset"}, task : Nat] /\ job[a].task \in Nat /\ job[a].task <= Len(tasks)
    BY <1>1 DEF Typing, Counted
  <2> QED  BY <1>4, <1>6, <2>1
<1>13. late' \subseteq 1 .. Len(tasks')
  <2>1. late \subseteq 1 .. Len(tasks)
    BY <1>1 DEF Counted
  <2> QED  BY <1>4, <1>6, <2>1
<1>14. a \in Passes => /\ mem[a].tasks = seen[a].tasks
                       /\ mem[a].account.status = "needs_code" => seen[a].account.status = "needs_code"
  BY <1>1 DEF Known
<1>15. Len(seen[a].tasks) <= Len(tasks')
  BY <1>4, <1>6
<1>16. Known' /\ Counted'
  BY <1>1, <1>3, <1>4, <1>5, <1>8, <1>11, <1>12, <1>13, <1>14, <1>15, MoveKeeps
<1> QED  BY <1>3, <1>10, <1>16 DEF Kept, Invariant

\* A reset ends the tasks it finds open, and asks for no code.
LEMMA ResetKeeps ==
  ASSUME Setting, Invariant, NEW q \in Requests, Reset(q)
  PROVE  Kept
<1> DEFINE old == mem[q].tasks
           new == [i \in DOMAIN old |-> IF Open(old[i]) THEN "expired" ELSE old[i]]
           rows == [account |-> ResetAccount(mem[q].account), tasks |-> new]
<1>1. Typing /\ Known /\ q \in Actors
  BY DEF Invariant, Actors
<1>2. old \in Seq(Statuses) /\ Len(old) \in Nat /\ mem[q].account \in Accounts
  BY <1>1, TypesOf
<1>3. pc[q] = "reset" /\ Knows(q)
  BY <1>1 DEF Reset, Known
<1>4. old = seen[q].tasks
  BY <1>3 DEF Knows
<1>5. /\ session' = "none" /\ Commit(q, rows, {}) /\ UNCHANGED <<late, actor, job, seen, mem, loaded>>
  BY DEF Reset
<1>6. \A i \in 1 .. Len(old) : new[i] \in Statuses /\ (new[i] # old[i] => ~Open(new[i]))
  <2>1. "expired" \in Statuses /\ ~Open("expired") /\ \A i \in 1 .. Len(old) : old[i] \in Statuses
    BY <1>2 DEF Statuses, Open, TaskEnded
  <2>2. DOMAIN old = 1 .. Len(old)
    BY <1>2
  <2> QED  BY <2>1, <2>2
<1>7. new = [i \in 1 .. Len(old) |-> new[i]]
  BY <1>2
<1>8. ResetAccount(mem[q].account) \in Accounts /\ ResetAccount(mem[q].account).status = "not_logged_in"
  BY <1>2 DEF ResetAccount, Accounts, LoginStatuses
<1>9. session' \in Sessions /\ actor' \in Actors \cup {NoOne} /\ late' \subseteq late
  BY <1>1, <1>5 DEF Sessions, Typing
<1> HIDE DEF new
<1>10. (\A i \in 1 .. Len(old) : new[i] \in Statuses) /\ Len(old) \in Nat
  BY <1>2, <1>6
<1>11. new \in Seq(Statuses) /\ Len(new) = Len(old)
  BY <1>7, <1>10
<1>12. rows \in Rows /\ rows.tasks = new /\ rows.account.status # "needs_code"
  BY <1>8, <1>11 DEF Rows
<1> HIDE DEF rows
<1>13. \A i \in 1 .. Len(seen[q].tasks) : rows.tasks[i] # seen[q].tasks[i] => ~Open(rows.tasks[i])
  BY <1>4, <1>6, <1>12
<1>14. Len(rows.tasks) = Len(seen[q].tasks) /\ pc[q] # "done" /\ UNCHANGED <<job, seen, mem, loaded>>
  BY <1>3, <1>4, <1>5, <1>11, <1>12
<1> QED  BY <1>1, <1>5, <1>9, <1>12, <1>13, <1>14, CommitKeeps

\* A pass commits what it has marked, and touches no task.
LEMMA PassEndsKeeps ==
  ASSUME Setting, Invariant, NEW p \in Passes, PassEnds(p)
  PROVE  Kept
<1>1. Typing /\ Known /\ p \in Actors /\ p \notin Requests
  BY DEF Invariant, Actors, Setting
<1>2. /\ mem[p] \in Rows /\ mem[p].tasks = seen[p].tasks
      /\ mem[p].account.status = "needs_code" => seen[p].account.status = "needs_code"
  BY <1>1, TypesOf DEF Known
<1>3. Commit(p, mem[p], {}) /\ UNCHANGED <<session, late, actor, job, seen, mem, loaded>>
  BY DEF PassEnds
<1>4. session' \in Sessions /\ actor' \in Actors \cup {NoOne} /\ late' \subseteq late
  BY <1>1, <1>3 DEF Typing
<1>5. \A i \in 1 .. Len(seen[p].tasks) : mem[p].tasks[i] # seen[p].tasks[i] => ~Open(mem[p].tasks[i])
  BY <1>2
<1>6. UNCHANGED <<job, seen, mem, loaded>> /\ Len(mem[p].tasks) = Len(seen[p].tasks)
  BY <1>2, <1>3
<1>7. mem[p].account.status = "needs_code" =>
        mem[p].account.status = seen[p].account.status /\ mem[p].tasks = seen[p].tasks
  BY <1>2
<1> QED  BY <1>1, <1>2, <1>3, <1>4, <1>5, <1>6, <1>7, CommitKeeps

\* The answers of the session manager, and what a request makes of them.
LEMMA AnswersTyped ==
  ASSUME session \in Sessions, NEW found \in Sessions,
         NEW answer \in LoginAnswers(found) \cup SubmitAnswers(found) \cup {<<session, "failed">>}
  PROVE  /\ answer[1] \in Sessions
         /\ StatusAfter(answer[2]) \in LoginStatuses
         /\ StatusAfter(answer[2]) = "needs_code" => answer[2] = "code"
         /\ \A kind : TaskAfter(kind, answer[2]) \in {"needs_code"} \cup TaskEnded
         /\ \A kind : TaskAfter(kind, answer[2]) = "needs_code" <=> answer[2] = "code"
<1>1. answer[1] \in Sessions /\ answer[2] \in {"success", "code", "degraded", "failed", "expired"}
  BY DEF LoginAnswers, SubmitAnswers, Sessions
<1>2. StatusAfter(answer[2]) \in LoginStatuses /\ (StatusAfter(answer[2]) = "needs_code" => answer[2] = "code")
  BY <1>1 DEF StatusAfter, LoginStatuses
<1>3. \A kind : /\ TaskAfter(kind, answer[2]) \in {"needs_code"} \cup TaskEnded
                /\ TaskAfter(kind, answer[2]) = "needs_code" <=> answer[2] = "code"
  BY <1>1 DEF TaskAfter, TaskEnded
<1> QED  BY <1>1, <1>2, <1>3

\* The answer of the platform ends the request's task or leaves it waiting for a code.
LEMMA AnswerKeeps ==
  ASSUME Setting, Invariant, NEW q \in Requests, Answer(q)
  PROVE  Kept
<1> DEFINE start == job[q].kind = "start"
           old == seen[q].tasks
           at == IF start THEN Len(mem[q].tasks) ELSE job[q].task
<1>1. Typing /\ Known /\ Counted /\ q \in Actors
  BY DEF Invariant, Actors
<1>2. /\ mem[q].tasks \in Seq(Statuses) /\ old \in Seq(Statuses)
      /\ Len(mem[q].tasks) \in Nat /\ Len(old) \in Nat /\ mem[q].account \in Accounts
  BY <1>1, TypesOf
<1>3. pc[q] = "call" /\ Knows(q) /\ actor' = NoOne /\ UNCHANGED <<job, seen, mem, loaded>>
  BY <1>1 DEF Answer, Known
<1>4. PICK answer \in (IF start THEN LoginAnswers(loaded[q]) ELSE SubmitAnswers(loaded[q]))
                        \cup {<<session, "failed">>} :
        /\ session' = answer[1]
        /\ late' = IF answer[2] = "code" THEN late \ {at} ELSE late
        /\ Commit(q, [account |-> [status |-> StatusAfter(answer[2]),
                                   everIn |-> mem[q].account.everIn \/ answer[2] = "success"],
                      tasks |-> [mem[q].tasks EXCEPT ![at] = TaskAfter(job[q].kind, answer[2])]],
                  {at} \cap DOMAIN old)
  BY DEF Answer
<1> DEFINE status == TaskAfter(job[q].kind, answer[2])
           row == [status |-> StatusAfter(answer[2]),
                   everIn |-> mem[q].account.everIn \/ answer[2] = "success"]
           new == [mem[q].tasks EXCEPT ![at] = status]
           rows == [account |-> row, tasks |-> new]
<1>5. /\ answer[1] \in Sessions /\ StatusAfter(answer[2]) \in LoginStatuses
      /\ StatusAfter(answer[2]) = "needs_code" => status = "needs_code"
      /\ status \in {"needs_code"} \cup TaskEnded
  <2>1. loaded[q] \in Sessions /\ session \in Sessions
    BY <1>1 DEF Typing
  <2>2. answer \in LoginAnswers(loaded[q]) \cup SubmitAnswers(loaded[q]) \cup {<<session, "failed">>}
    BY <1>4
  <2> QED  BY <2>1, <2>2, AnswersTyped
<1>6. status \in Statuses /\ (status # "needs_code" => ~Open(status))
  BY <1>5 DEF Statuses, Open
<1>7. row \in Accounts /\ (row.status = "needs_code" => status = "needs_code")
  <2>1. mem[q].account.everIn \in BOOLEAN
    BY <1>2 DEF Accounts
  <2> QED  BY <1>5, <2>1 DEF Accounts
<1>8. Commit(q, rows, {at} \cap DOMAIN old)
  BY <1>4
<1>9. session' \in Sessions /\ actor' \in Actors \cup {NoOne} /\ late' \subseteq late /\ pc[q] # "done"
  BY <1>3, <1>4, <1>5
<1> HIDE DEF status, row
<1>10. CASE start
  <2>1. /\ Len(mem[q].tasks) = Len(old) + 1
        /\ \A i \in 1 .. Len(old) : mem[q].tasks[i] \in {old[i], "expired"}
    BY <1>3, <1>10 DEF Knows
  <2>2. at = Len(old) + 1
    BY <1>10, <2>1
  <2> HIDE DEF at
  <2>3. new \in Seq(Statuses) /\ Len(new) = Len(old) + 1 /\ new[Len(old) + 1] = status
    BY <1>2, <1>6, <2>1, <2>2
  <2>4. \A i \in 1 .. Len(old) : new[i] \in {old[i], "expired"}
    BY <1>2, <2>1, <2>2
  <2> HIDE DEF new
  <2>5. rows \in Rows /\ rows.tasks = new /\ rows.account = row
    BY <1>7, <2>3 DEF Rows
  <2> HIDE DEF rows
  <2>6. ~Open("expired")
    BY DEF Open, TaskEnded
  <2>7. \A i \in 1 .. Len(old) : rows.tasks[i] # old[i] => ~Open(rows.tasks[i])
    BY <2>4, <2>5, <2>6
  <2>8. rows.account.status = "needs_code" =>
          Len(rows.tasks) = Len(old) + 1 /\ rows.tasks[Len(rows.tasks)] = "needs_code"
    BY <1>7, <2>3, <2>5
  <2>9. Len(rows.tasks) = Len(old) + 1
    BY <2>3, <2>5
  <2> QED  BY <1>1, <1>3, <1>8, <1>9, <2>5, <2>7, <2>8, <2>9, CommitKeeps
<1>11. CASE ~start
  <2>1. /\ mem[q].tasks = old /\ at \in 1 .. Len(old) /\ old[at] = "needs_code"
    BY <1>1, <1>3, <1>11 DEF Knows
  <2> HIDE DEF at
  <2>2. /\ new \in Seq(Statuses) /\ Len(new) = Len(old) /\ new[at] = status
        /\ \A i \in 1 .. Len(old) : i # at => new[i] = old[i]
    BY <1>2, <1>6, <2>1
  <2> HIDE DEF new
  <2>3. rows \in Rows /\ rows.tasks = new /\ rows.account = row
    BY <1>7, <2>2 DEF Rows
  <2> HIDE DEF rows
  <2>4. \A i \in 1 .. Len(old) : rows.tasks[i] # old[i] => ~Open(rows.tasks[i])
    BY <1>6, <2>1, <2>2, <2>3
  <2>5. at \in {at} \cap DOMAIN old
    BY <1>2, <2>1
  <2>6. rows.account.status = "needs_code" =>
          \E i \in {at} \cap DOMAIN old :
            i \in 1 .. Len(old) /\ rows.tasks[i] = "needs_code" /\ old[i] = "needs_code"
    BY <1>7, <2>1, <2>2, <2>3, <2>5
  <2>7. Len(rows.tasks) = Len(old)
    BY <2>2, <2>3
  <2> QED  BY <1>1, <1>3, <1>8, <1>9, <2>3, <2>4, <2>6, <2>7, CommitKeeps
<1> QED  BY <1>10, <1>11

-----------------------------------------------------------------------------
\* Initially there is no task and nobody knows of one.
LEMMA InitHolds ==
  ASSUME Setting, Init
  PROVE  Invariant
<1>1. session \in Sessions /\ account \in Accounts /\ tasks \in Seq(Statuses) /\ tasks = <<>>
  BY DEF Init, Sessions, Accounts, LoginStatuses
<1>2. Snapshot \in Rows /\ Snapshot.tasks = <<>> /\ Snapshot.account.status # "needs_code"
  BY <1>1 DEF Init, Snapshot, Rows
<1>3. NoJob \in [kind : {"start", "submit", "reset"}, task : Nat] /\ NoJob.task = 0
  BY DEF NoJob, NoTask
<1>4. Typing
  BY <1>1, <1>2, <1>3 DEF Init, Typing, Places
<1>5. \A a \in Actors : seen[a] = Snapshot /\ mem[a] = Snapshot /\ pc[a] = "idle"
  BY DEF Init
<1>6. Known
  BY <1>1, <1>2, <1>5 DEF Known, Knows, Actors
<1>7. Counted
  <2>1. IsFiniteSet(Ended)
    BY FS_Subset DEF Ended, Setting
  <2>2. Cardinality(Ended) \in Nat
    BY <2>1, FS_CardinalityType
  <2> QED  BY <1>1, <1>3, <2>2 DEF Init, Counted, Ended
<1>8. CodeHasTask
  BY DEF Init, CodeHasTask, CodeMissing
<1> QED  BY <1>4, <1>6, <1>7, <1>8 DEF Invariant

\* Every step keeps the invariant, and ended tasks ended.
LEMMA StepKeeps ==
  ASSUME Setting, Invariant, [Next]_vars
  PROVE  Kept
<1>1. CASE \E q \in Requests : Begin(q) \/ RequestStep(q) \/ GiveUp(q)
  BY <1>1, BeginKeeps, StartKeeps, SubmitKeeps, ResetKeeps, EnterKeeps, AnswerKeeps, GiveUpKeeps
     DEF RequestStep, Actors
<1>2. CASE \E p \in Passes : PassStep(p) \/ PassFails(p)
  BY <1>2, PassBeginsKeeps, LookKeeps, EnterKeeps, KeepaliveKeeps, PassEndsKeeps, GiveUpKeeps
     DEF PassStep, PassFails, Actors
<1>3. CASE Late \/ UNCHANGED vars
  <2>1. UNCHANGED <<session, account, tasks, actor, rowLock, pc, job, seen, mem, loaded, outrun>>
    BY <1>3 DEF Late, vars
  <2>2. late' \subseteq late \cup DOMAIN tasks
    BY <1>3 DEF Late, vars
  <2>3. Typing' /\ Known'
    BY <2>1 DEF Invariant, Typing, Known, Knows
  <2>4. Counted'
    BY <2>1, <2>2 DEF Invariant, Typing, Counted
  <2> QED  BY <2>1, <2>3, <2>4, NothingCommitted DEF Kept, Invariant
<1> QED  BY <1>1, <1>2, <1>3 DEF Next

\* The invariant implies the types: there is at most one task per request.
LEMMA InvariantTypes ==
  ASSUME Setting, Invariant
  PROVE  TypeOK
<1>1. Typing /\ Counted
  BY DEF Invariant
<1>2. IsFiniteSet(Requests) /\ Ended \subseteq Requests
  BY DEF Setting, Ended
<1>3. /\ Cardinality(Ended) \in Nat /\ Cardinality(Requests) \in Nat
      /\ Cardinality(Ended) <= Cardinality(Requests)
  BY <1>2, FS_Subset, FS_CardinalityType
<1>4. Len(tasks) \in Nat /\ Len(tasks) <= Cardinality(Requests)
  BY <1>1, <1>3 DEF Typing, Counted, Ended
<1>5. late \subseteq TaskIds
  BY <1>1, <1>3, <1>4 DEF Counted, TaskIds
<1>6. \A q \in Requests : job[q] \in Jobs
  <2> SUFFICES ASSUME NEW q \in Requests
               PROVE  job[q] \in Jobs
    OBVIOUS
  <2>1. /\ job[q] \in [kind : {"start", "submit", "reset"}, task : Nat]
        /\ job[q].task \in Nat /\ job[q].task <= Len(tasks)
    BY <1>1 DEF Typing, Counted
  <2>2. job[q].task \in {NoTask} \cup TaskIds
    BY <1>3, <1>4, <2>1 DEF NoTask, TaskIds
  <2> QED  BY <2>1, <2>2 DEF Jobs
<1>7. job \in [Requests -> Jobs]
  BY <1>1, <1>6 DEF Typing
<1> QED  BY <1>1, <1>5, <1>7 DEF Typing, TypeOK, Places

(* Session, account, tasks, locks and requests have their types, and there is at most one *)
(* task per request: TypeOK, for any number of requests and passes.                       *)
THEOREM Typed == ASSUME Setting PROVE Spec => []TypeOK
<1>1. Init => Invariant
  BY InitHolds
<1>2. Invariant /\ [Next]_vars => Invariant'
  BY StepKeeps DEF Kept
<1>3. Invariant => TypeOK
  BY InvariantTypes
<1> QED  BY <1>1, <1>2, <1>3, PTL DEF Spec

(* TasksSound: neither a late answer nor a request with an old snapshot brings an ended login *)
(* task back, and while the account asks for a code there is a task for it, save for what the *)
(* ORM did not send (`outrun`): for any number of requests and passes.                        *)
THEOREM LoginTasksAreSound == ASSUME Setting PROVE Spec => TasksSound
<1>1. Init => Invariant
  BY InitHolds
<1>2. Invariant /\ [Next]_vars => Invariant'
  BY StepKeeps DEF Kept
<1>3. Invariant /\ [Next]_vars => [EndedStaysEnded /\ CodeHasTask']_vars
  BY StepKeeps DEF Kept, Invariant
<1> QED  BY <1>1, <1>2, <1>3, PTL DEF Spec, TasksSound

-----------------------------------------------------------------------------
(* The sessions and tokens of an account at PICC: PiccLogin.                                *)
CONSTANTS NoWord, MaxOps, MaxWebs, MaxTokens

VARIABLES kept, webs, issued, op, code, webPc, client, before, ops, restarted, received, dropped, lapses, trouble

Picc == INSTANCE PiccLogin WITH None <- NoWord, pc <- webPc, seen <- received

\* There is a web session and a token.
Countable == MaxOps \in Nat /\ MaxWebs \in Nat \ {0} /\ MaxTokens \in Nat \ {0}

WebType == [slide : BOOLEAN, logged : BOOLEAN]
AsideType == [web : 1 .. Len(webs), tok : 1 .. Len(issued), cookie : 0 .. Len(issued)]
SessionType ==
  [st : {"none", "waiting", "authenticated", "degraded", "failed", "expired"}, web : 1 .. Len(webs),
   tok : 0 .. Len(issued), cookie : 0 .. Len(issued), pending : BOOLEAN, back : {NoWord} \cup AsideType]
ClientType == [web : 0 .. Len(webs), tok : 0 .. Len(issued), cookie : 0 .. Len(issued)]

PiccTyped ==
  /\ webs \in Seq(WebType) /\ issued \in Seq(1 .. Len(webs)) /\ received \in Seq(0 .. Len(issued))
  /\ Len(webs) \in 1 .. MaxWebs /\ Len(issued) \in 1 .. MaxTokens /\ Len(received) = Len(webs)
  /\ kept \in SessionType /\ before \in SessionType /\ client \in ClientType
  /\ op \in {NoWord, "login", "challenge", "keepalive", "check_quota", "query", "quote"}
  /\ code \in {NoWord, "right", "wrong", "malformed"}
  /\ dropped \subseteq 1 .. Len(webs)
  /\ ops \in 0 .. MaxOps /\ restarted \in BOOLEAN /\ trouble \in BOOLEAN /\ lapses \in 0 .. 2

\* A token of this web session, none newer than the newest that came for it.
OfWeb(w, t) == issued[t] = w /\ t <= received[w]

\* A login: the platform's, with its own token, the newest but for what was thrown away.
Holds(w, tok, cookie) ==
  /\ webs[w].logged /\ tok # 0 /\ OfWeb(w, tok)
  /\ cookie # 0 => OfWeb(w, cookie)
  /\ w \notin dropped => tok = received[w]

SessionOK(s) ==
  /\ Picc!Usable(s) => Holds(s.web, s.tok, s.cookie) /\ ~s.pending
  /\ s.back # NoWord => s.st = "waiting" /\ s.back.web < s.web /\ Holds(s.back.web, s.back.tok, s.back.cookie)

\* A code is asked for the last web session, whose context is there.
NewestAsked(s) == s.st = "waiting" => s.web = Len(webs) /\ (s.pending \/ s.web = 1)

LogsIn == {"init", "slide"}
TakesCode == {"form", "solve", "precheck", "formal", "validate", "loggedIn"}
Business == {"first", "second", "answered", "usage"}

\* A login, begun anew for a code if that was wrong and the slide had lapsed, or in trouble.
LoginOK ==
  /\ kept = before /\ SessionOK(kept) /\ op \in {"login", "challenge"}
  /\ op = "login" => kept.back = NoWord
  /\ op = "challenge" => kept.st = "waiting" /\ (trouble \/ (code # "right" /\ lapses > 0))
  /\ webPc = "slide" => client = [web |-> Len(webs), tok |-> 0, cookie |-> 0] /\ kept.web < Len(webs)

CodeOK ==
  /\ kept = before /\ SessionOK(kept) /\ NewestAsked(kept) /\ op = "challenge"
  /\ kept.st = "waiting" /\ client.web = kept.web
  /\ webPc = "form" => lapses = 0
  /\ webPc \in {"solve", "precheck"} => lapses <= 1
  /\ webPc \in {"formal", "validate", "loggedIn"} => code = "right"
  /\ webPc \in {"validate", "loggedIn"} =>
       Holds(client.web, client.tok, client.cookie) /\ client.tok = received[client.web]

\* What an operation has received is not older than what is kept.
BusinessOK ==
  /\ Picc!Usable(kept) /\ kept.back = NoWord /\ ~kept.pending
  /\ op \in {"keepalive", "check_quota", "query", "quote"}
  /\ client.web = kept.web /\ kept.tok <= client.tok
  /\ kept.tok # 0 /\ OfWeb(kept.web, kept.tok)
  /\ kept.cookie # 0 => OfWeb(kept.web, kept.cookie)
  /\ Holds(client.web, client.tok, client.cookie)

PiccInv ==
  /\ PiccTyped
  /\ webPc \in {"idle"} \cup LogsIn \cup TakesCode \cup Business
  /\ webPc = "idle" => SessionOK(kept) /\ NewestAsked(kept)
  /\ webPc \in LogsIn => LoginOK
  /\ webPc \in TakesCode => CodeOK
  /\ webPc \in Business => BusinessOK

-----------------------------------------------------------------------------
LEMMA Greatest ==
  ASSUME NEW a \in Nat, NEW b \in Nat
  PROVE  Picc!Max({a, b}) = IF a >= b THEN a ELSE b
<1>1. \A x \in {a, b} : (\A y \in {a, b} : x >= y) => x = IF a >= b THEN a ELSE b
  OBVIOUS
<1>2. \E x \in {a, b} : \A y \in {a, b} : x >= y
  OBVIOUS
<1>3. Picc!Max({a, b}) \in {a, b} /\ \A y \in {a, b} : Picc!Max({a, b}) >= y
  BY <1>2 DEF Picc!Max
<1> QED  BY <1>1, <1>3

LEMMA GreatestOfThree ==
  ASSUME NEW a \in Nat, NEW b \in Nat, NEW c \in Nat
  PROVE  /\ Picc!Max({a, b, c}) \in {a, b, c}
         /\ Picc!Max({a, b, c}) >= a /\ Picc!Max({a, b, c}) >= b /\ Picc!Max({a, b, c}) >= c
<1>1. \E x \in {a, b, c} : \A y \in {a, b, c} : x >= y
  <2>1. CASE a >= b /\ a >= c
    BY <2>1
  <2>2. CASE b >= a /\ b >= c
    BY <2>2
  <2>3. CASE c >= a /\ c >= b
    BY <2>3
  <2> QED  BY <2>1, <2>2, <2>3
<1>2. Picc!Max({a, b, c}) \in {a, b, c} /\ \A y \in {a, b, c} : Picc!Max({a, b, c}) >= y
  BY <1>1 DEF Picc!Max
<1> QED  BY <1>2

\* A client after it took a token, and after an answer: it has the newest of what it had and got.
LEMMA Installed ==
  ASSUME NEW c \in [web : Nat, tok : Nat, cookie : Nat], NEW tok \in Nat
  PROVE  /\ Picc!Install(c, tok).web = c.web
         /\ Picc!Install(c, tok).tok = IF c.tok >= tok THEN c.tok ELSE tok
         /\ Picc!Install(c, tok).cookie \in {c.cookie, tok} /\ (tok = 0 => Picc!Install(c, tok) = c)
         /\ Picc!Install(c, tok) \in [web : Nat, tok : Nat, cookie : Nat]
<1>1. CASE tok = 0 \/ tok < c.tok
  BY <1>1 DEF Picc!Install
<1>2. CASE tok # 0 /\ ~(tok < c.tok)
  <2>1. Picc!Install(c, tok) = [web |-> c.web, tok |-> tok, cookie |-> tok]
    BY <1>2 DEF Picc!Install
  <2> QED  BY <1>2, <2>1
<1> QED  BY <1>1, <1>2

LEMMA CapturedIs ==
  ASSUME NEW c \in [web : Nat, tok : Nat, cookie : Nat]
  PROVE  /\ Picc!Captured(c) \in [web : Nat, tok : Nat, cookie : Nat]
         /\ Picc!Captured(c).web = c.web /\ Picc!Captured(c).cookie = c.cookie
         /\ Picc!Captured(c).tok = IF c.tok >= c.cookie THEN c.tok ELSE c.cookie
<1>1. CASE c.cookie = 0 \/ c.cookie < c.tok
  BY <1>1 DEF Picc!Captured, Picc!Install
<1>2. CASE c.cookie # 0 /\ ~(c.cookie < c.tok)
  <2>1. Picc!Captured(c) = [web |-> c.web, tok |-> c.cookie, cookie |-> c.cookie]
    BY <1>2 DEF Picc!Captured, Picc!Install
  <2> QED  BY <1>2, <2>1
<1> QED  BY <1>1, <1>2

LEMMA ReceivedIs ==
  ASSUME NEW c \in [web : Nat, tok : Nat, cookie : Nat], NEW header \in Nat, NEW set \in Nat
  PROVE  LET jar == IF set = 0 THEN c.cookie ELSE set
             d == Picc!Received(c, header, set) IN
         /\ d \in [web : Nat, tok : Nat, cookie : Nat] /\ d.web = c.web
         /\ d.tok \in {c.tok, header, jar} /\ d.tok >= c.tok /\ d.tok >= header /\ d.tok >= jar
         /\ d.cookie \in {header, jar}
<1> DEFINE jar == IF set = 0 THEN c.cookie ELSE set
           d == Picc!Received(c, header, set)
<1> DEFINE e == [c EXCEPT !.cookie = jar]
           best == Picc!Best(header, jar)
<1>1. jar \in Nat /\ e \in [web : Nat, tok : Nat, cookie : Nat] /\ e.web = c.web /\ e.tok = c.tok /\ e.cookie = jar
  OBVIOUS
<1>2. best = IF header >= jar THEN header ELSE jar
  BY <1>1, Greatest DEF Picc!Best
<1>3. best \in Nat
  BY <1>1, <1>2
<1>4. d = Picc!Install(e, best)
  BY DEF Picc!Received
<1> HIDE DEF e, best, jar, d
<1>5. /\ Picc!Install(e, best) \in [web : Nat, tok : Nat, cookie : Nat] /\ Picc!Install(e, best).web = e.web
      /\ Picc!Install(e, best).tok = IF e.tok >= best THEN e.tok ELSE best
      /\ Picc!Install(e, best).cookie \in {e.cookie, best}
  BY <1>1, <1>3, Installed
<1>6. c.tok \in Nat
  OBVIOUS
<1>7. /\ d \in [web : Nat, tok : Nat, cookie : Nat] /\ d.web = c.web
      /\ d.tok \in {c.tok, header, jar} /\ d.tok >= c.tok /\ d.tok >= header /\ d.tok >= jar
      /\ d.cookie \in {header, jar}
  BY <1>1, <1>2, <1>3, <1>4, <1>5, <1>6
<1> QED  BY <1>7 DEF d, jar

\* A sequence over fewer values.
LEMMA SeqWider ==
  ASSUME NEW S, NEW T, S \subseteq T, NEW s \in Seq(S)
  PROVE  s \in Seq(T)
<1>1. Len(s) \in Nat /\ s \in [1 .. Len(s) -> S]
  BY LenProperties
<1>2. s \in [1 .. Len(s) -> T]
  BY <1>1
<1> QED  BY <1>1, <1>2, SeqDef

-----------------------------------------------------------------------------
\* What of a session stays true while the platform goes on with another web session.
HoldsNext(w, tok, cookie) ==
  /\ webs'[w].logged /\ tok # 0 /\ issued'[tok] = w /\ tok <= received'[w]
  /\ cookie # 0 => issued'[cookie] = w /\ cookie <= received'[w]
  /\ w \notin dropped' => tok = received'[w]

SessionNext(s) ==
  /\ Picc!Usable(s) => HoldsNext(s.web, s.tok, s.cookie) /\ ~s.pending
  /\ s.back # NoWord => s.st = "waiting" /\ s.back.web < s.web /\ HoldsNext(s.back.web, s.back.tok, s.back.cookie)

Grows(w0) ==
  /\ Len(webs) <= Len(webs') /\ Len(issued) <= Len(issued')
  /\ \A w \in 1 .. Len(webs) : webs[w].logged => webs'[w].logged
  /\ \A t \in 1 .. Len(issued) : issued'[t] = issued[t]
  /\ \A w \in 1 .. Len(webs) : w # w0 => received'[w] = received[w] /\ (w \in dropped => w \in dropped')

LEMMA SessionStays ==
  ASSUME PiccTyped, Len(webs') \in Nat, Len(issued') \in Nat, NEW w0, Grows(w0), NEW s \in SessionType, SessionOK(s),
         Picc!Usable(s) => s.web # w0, s.back # NoWord => s.back.web # w0
  PROVE  s \in SessionType' /\ SessionNext(s)
<1>1. Len(webs) \in Nat /\ Len(issued) \in Nat
  BY DEF PiccTyped
<1>2. s \in SessionType'
  <2>1. /\ s.web \in 1 .. Len(webs') /\ s.tok \in 0 .. Len(issued') /\ s.cookie \in 0 .. Len(issued')
    BY <1>1 DEF SessionType, Grows
  <2>2. s.back \in {NoWord} \cup [web : 1 .. Len(webs'), tok : 1 .. Len(issued'), cookie : 0 .. Len(issued')]
    BY <1>1 DEF SessionType, AsideType, Grows
  <2> QED  BY <2>1, <2>2 DEF SessionType, AsideType
<1>3. Picc!Usable(s) => HoldsNext(s.web, s.tok, s.cookie)
  BY <1>1 DEF SessionType, SessionOK, Holds, OfWeb, HoldsNext, Grows
<1>4. s.back # NoWord => HoldsNext(s.back.web, s.back.tok, s.back.cookie)
  <2> SUFFICES ASSUME s.back # NoWord PROVE HoldsNext(s.back.web, s.back.tok, s.back.cookie)
    OBVIOUS
  <2>1. /\ s.back.web \in 1 .. Len(webs) /\ s.back.tok \in 1 .. Len(issued) /\ s.back.cookie \in 0 .. Len(issued)
        /\ s.back.web # w0 /\ Holds(s.back.web, s.back.tok, s.back.cookie)
    BY DEF SessionType, AsideType, SessionOK
  <2> DEFINE w == s.back.web
             tok == s.back.tok
             cookie == s.back.cookie
  <2>2. /\ w \in 1 .. Len(webs) /\ w # w0 /\ tok \in 1 .. Len(issued) /\ cookie \in 0 .. Len(issued)
        /\ Holds(w, tok, cookie)
    BY <2>1
  <2> HIDE DEF w, tok, cookie
  <2>3. HoldsNext(w, tok, cookie)
    BY <1>1, <2>2 DEF Holds, OfWeb, HoldsNext, Grows
  <2> QED  BY <2>3 DEF w, tok, cookie
<1> QED  BY <1>2, <1>3, <1>4 DEF SessionOK, SessionNext

LEMMA NextIsOK ==
  ASSUME SessionNext(kept') PROVE SessionOK(kept)'
  BY DEF SessionNext, HoldsNext, SessionOK, Holds, OfWeb, Picc!Usable

\* A login put aside that comes back.
LEMMA RestoredOK ==
  ASSUME NEW s \in SessionType, SessionOK(s), s.back # NoWord
  PROVE  /\ Picc!Restored(s.back) \in SessionType /\ SessionOK(Picc!Restored(s.back))
         /\ Picc!Restored(s.back).st = "degraded" /\ Picc!Restored(s.back).back = NoWord
         /\ s.st = "waiting" /\ Picc!Restored(s.back).web < s.web
<1>1. /\ s.back.web \in 1 .. Len(webs) /\ s.back.tok \in 1 .. Len(issued) /\ s.back.cookie \in 0 .. Len(issued)
      /\ s.st = "waiting" /\ s.back.web < s.web /\ Holds(s.back.web, s.back.tok, s.back.cookie)
  BY DEF SessionType, AsideType, SessionOK
<1> QED  BY <1>1 DEF Picc!Restored, SessionType, SessionOK, Picc!Usable

\* A login or a challenge that fails: what was kept before stays, or what was put aside comes back.
LEMMA FailedOK ==
  ASSUME NEW s \in SessionType, SessionOK(s), NEW what, what \in {"login", "challenge"},
         what = "login" => s.back = NoWord, what = "challenge" => s.st = "waiting", NEW left,
         left = IF what = "login" /\ Picc!Usable(s) THEN [s EXCEPT !.st = "degraded"]
                ELSE IF what = "challenge" /\ s.back # NoWord THEN Picc!Restored(s.back)
                ELSE [s EXCEPT !.st = "failed"]
  PROVE  /\ left \in SessionType /\ SessionOK(left) /\ left.st # "waiting"
         /\ Picc!Usable(s) => left.tok = s.tok /\ left.web = s.web
         /\ Picc!Usable(left) => left.web <= s.web
<1>1. CASE what = "login" /\ Picc!Usable(s)
  <2>1. s.back = NoWord
    BY <1>1 DEF SessionOK, Picc!Usable
  <2> QED  BY <1>1, <2>1 DEF SessionType, SessionOK, Picc!Usable
<1>2. CASE what = "challenge" /\ s.back # NoWord
  BY <1>2, RestoredOK DEF Picc!Usable, SessionType, Picc!Restored
<1>3. CASE what = "challenge" /\ s.back = NoWord
  BY <1>3 DEF SessionType, SessionOK, Picc!Usable
<1>4. CASE what = "login" /\ ~Picc!Usable(s)
  BY <1>4 DEF SessionType, SessionOK, Picc!Usable
<1> QED  BY <1>1, <1>2, <1>3, <1>4

-----------------------------------------------------------------------------
\* A step of the platform's other sessions, and of the accounts' session only to the better.
Sound == PiccInv' /\ Picc!CodesCount /\ Picc!TokensForward

LEMMA TypedNext ==
  ASSUME PiccTyped, UNCHANGED <<issued, received>>, webs' \in Seq(WebType), Len(webs') = Len(webs),
         kept' \in SessionType, before' \in SessionType, client' \in ClientType,
         op' \in {NoWord, "login", "challenge", "keepalive", "check_quota", "query", "quote"},
         code' \in {NoWord, "right", "wrong", "malformed"}, dropped' \subseteq 1 .. Len(webs),
         ops' \in 0 .. MaxOps, restarted' \in BOOLEAN, trouble' \in BOOLEAN, lapses' \in 0 .. 2
  PROVE  PiccTyped' /\ SessionType' = SessionType /\ ClientType' = ClientType
<1>1. Len(issued') = Len(issued) /\ Len(received') = Len(received)
  OBVIOUS
<1>2. SessionType' = SessionType /\ ClientType' = ClientType
  BY <1>1 DEF SessionType, AsideType, ClientType
<1>3. issued' \in Seq(1 .. Len(webs')) /\ received' \in Seq(0 .. Len(issued'))
  BY <1>1 DEF PiccTyped
<1> QED  BY <1>1, <1>2, <1>3 DEF PiccTyped

LEMMA BeginLoginKeeps ==
  ASSUME Countable, PiccInv, Picc!BeginLogin
  PROVE  Sound
<1> DEFINE s == IF kept.st = "waiting" /\ kept.back # NoWord THEN Picc!Restored(kept.back) ELSE kept
<1>1. /\ PiccTyped /\ SessionOK(kept) /\ kept \in SessionType /\ webPc = "idle"
      /\ kept' = s /\ before' = s /\ op' = "login" /\ webPc' = "init" /\ ops < MaxOps /\ ops' = ops + 1
      /\ trouble' = FALSE /\ lapses' = 0
      /\ UNCHANGED <<webs, issued, code, client, restarted, received, dropped>>
  BY DEF PiccInv, PiccTyped, Picc!BeginLogin, Picc!platform
<1>2. s \in SessionType /\ SessionOK(s) /\ s.back = NoWord
  BY <1>1, RestoredOK DEF SessionOK
<1>3. Picc!Usable(kept) => s = kept
  BY DEF Picc!Usable
<1> HIDE DEF s
<1>4. PiccTyped'
  <2>1. ops' \in 0 .. MaxOps
    BY <1>1 DEF PiccTyped, Countable
  <2>2. /\ webs' \in Seq(WebType) /\ Len(webs') = Len(webs) /\ client' \in ClientType
        /\ code' \in {NoWord, "right", "wrong", "malformed"} /\ dropped' \subseteq 1 .. Len(webs)
        /\ restarted' \in BOOLEAN
    BY <1>1 DEF PiccTyped
  <2>3. trouble' \in BOOLEAN
    BY <1>1, Zenon
  <2>4. /\ kept' \in SessionType /\ before' \in SessionType /\ UNCHANGED <<issued, received>>
        /\ op' \in {NoWord, "login", "challenge", "keepalive", "check_quota", "query", "quote"}
        /\ lapses' \in 0 .. 2
    BY <1>1, <1>2
  <2> QED  BY <1>1, <2>1, <2>2, <2>3, <2>4, TypedNext
<1>5. LoginOK'
  BY <1>1, <1>2 DEF LoginOK, SessionOK, Holds, OfWeb, Picc!Usable
<1>6. Picc!CodesCount
  BY <1>1 DEF Picc!CodesCount
<1>7. Picc!TokensForward
  <2>1. kept.tok \in Nat
    BY <1>1 DEF SessionType
  <2> QED  BY <1>1, <1>3, <2>1 DEF Picc!TokensForward
<1> QED  BY <1>1, <1>4, <1>5, <1>6, <1>7 DEF Sound, PiccInv, LogsIn, TakesCode, Business

\* The platform goes on at most with its slides.
Slides ==
  /\ webs' \in Seq(WebType) /\ Len(webs') = Len(webs)
  /\ \A w \in 1 .. Len(webs) : webs'[w].logged = webs[w].logged
  /\ UNCHANGED <<issued, received, dropped>>

LEMMA SlidesGrow ==
  ASSUME PiccTyped, Slides
  PROVE  Len(webs') \in Nat /\ Len(issued') \in Nat /\ Grows(0)
  BY DEF PiccTyped, Slides, Grows

LEMMA EndsKeep ==
  ASSUME PiccTyped, Picc!Idle, UNCHANGED <<issued, received, before, ops>>,
         webs' \in Seq(WebType), Len(webs') = Len(webs), dropped' \subseteq 1 .. Len(webs),
         trouble' \in BOOLEAN, lapses' \in 0 .. 2, kept' \in SessionType, SessionNext(kept'), NewestAsked(kept')
  PROVE  PiccInv'
<1>1. /\ op' = NoWord /\ code' = NoWord /\ client' = [web |-> 0, tok |-> 0, cookie |-> 0] /\ webPc' = "idle"
      /\ restarted' \in BOOLEAN
  BY Zenon DEF Picc!Idle, Picc!Nobody
<1>2. client' \in ClientType
  BY <1>1 DEF ClientType, PiccTyped
<1>3. /\ before' \in SessionType /\ ops' \in 0 .. MaxOps
  BY DEF PiccTyped
<1>4. PiccTyped'
  BY <1>1, <1>2, <1>3, TypedNext
<1>5. SessionOK(kept)'
  BY NextIsOK
<1>6. NewestAsked(kept)'
  BY DEF NewestAsked
<1> QED  BY <1>1, <1>4, <1>5, <1>6 DEF PiccInv, LogsIn, TakesCode, Business

\* A challenge that does not log in is no right code without trouble.
Excused == op = "challenge" => trouble' \/ (code # "right" /\ lapses' > 0)

LEMMA FailsSound ==
  ASSUME PiccInv, webPc \in LogsIn \cup TakesCode, Picc!Fails, Slides, UNCHANGED <<before, ops>>,
         trouble' \in BOOLEAN, lapses' \in 0 .. 2, Excused
  PROVE  Sound
<1>1. /\ PiccTyped /\ kept = before /\ SessionOK(kept) /\ kept \in SessionType /\ op \in {"login", "challenge"}
      /\ op = "login" => kept.back = NoWord
      /\ op = "challenge" => kept.st = "waiting"
  BY DEF PiccInv, PiccTyped, LoginOK, CodeOK
<1>2. /\ kept' = IF op = "login" /\ Picc!Usable(kept) THEN [kept EXCEPT !.st = "degraded"]
                 ELSE IF op = "challenge" /\ kept.back # NoWord THEN Picc!Restored(kept.back)
                 ELSE [kept EXCEPT !.st = "failed"]
      /\ Picc!Idle
  BY <1>1 DEF Picc!Fails
<1>3. /\ kept' \in SessionType /\ SessionOK(kept') /\ kept'.st # "waiting"
      /\ Picc!Usable(kept) => kept'.tok = kept.tok /\ kept'.web = kept.web
  BY <1>1, <1>2, FailedOK
<1>4. SessionNext(kept')
  <2>1. kept'.web # 0 /\ (kept'.back # NoWord => kept'.back.web # 0)
    BY <1>3 DEF SessionType, AsideType
  <2> QED  BY <1>1, <1>3, <2>1, SlidesGrow, SessionStays
<1>5. NewestAsked(kept')
  BY <1>3 DEF NewestAsked
<1>6. PiccInv'
  BY <1>1, <1>2, <1>3, <1>4, <1>5, EndsKeep DEF Slides, PiccTyped
<1>7. Picc!CodesCount
  BY DEF Excused, Picc!CodesCount
<1>8. Picc!TokensForward
  <2>1. kept.tok \in Nat
    BY <1>1 DEF SessionType
  <2> QED  BY <1>3, <2>1 DEF Picc!TokensForward
<1> QED  BY <1>6, <1>7, <1>8 DEF Sound

\* What is kept while the account logs in stays, whatever the slides do.
LEMMA KeptMeanwhile ==
  ASSUME PiccTyped, SessionOK(kept), Slides, kept' = kept, UNCHANGED <<op, code, client, before, ops>>,
         restarted' \in BOOLEAN, trouble' \in BOOLEAN, lapses' \in 0 .. 2
  PROVE  /\ PiccTyped' /\ SessionOK(kept)' /\ (NewestAsked(kept) => NewestAsked(kept)')
         /\ \A w \in 1 .. Len(webs), tok \in 1 .. Len(issued), cookie \in 0 .. Len(issued) :
              Holds(w, tok, cookie) => HoldsNext(w, tok, cookie)
         /\ Picc!TokensForward
<1>1. kept \in SessionType /\ before \in SessionType /\ client \in ClientType
  BY DEF PiccTyped
<1>2. kept.web # 0 /\ (kept.back # NoWord => kept.back.web # 0) /\ kept.tok \in Nat
  BY <1>1 DEF SessionType, AsideType
<1>3. SessionNext(kept)
  BY <1>1, <1>2, SlidesGrow, SessionStays
<1>4. SessionOK(kept)'
  BY <1>3, NextIsOK
<1>5. NewestAsked(kept) => NewestAsked(kept)'
  BY DEF NewestAsked, Slides
<1>6. PiccTyped'
  <2>1. /\ op' \in {NoWord, "login", "challenge", "keepalive", "check_quota", "query", "quote"}
        /\ code' \in {NoWord, "right", "wrong", "malformed"} /\ dropped' \subseteq 1 .. Len(webs)
        /\ ops' \in 0 .. MaxOps
    BY DEF PiccTyped, Slides
  <2> QED  BY <1>1, <2>1, TypedNext DEF Slides
<1>7. \A w \in 1 .. Len(webs), tok \in 1 .. Len(issued), cookie \in 0 .. Len(issued) :
        Holds(w, tok, cookie) => HoldsNext(w, tok, cookie)
  BY DEF Slides, Holds, OfWeb, HoldsNext
<1>8. Picc!TokensForward
  BY <1>2 DEF Picc!TokensForward
<1> QED  BY <1>4, <1>5, <1>6, <1>7, <1>8

LEMMA RestartsSound ==
  ASSUME PiccInv, webPc \in LogsIn \cup TakesCode, Picc!Restarts, Slides, UNCHANGED <<before, ops>>,
         trouble' \in BOOLEAN, lapses' \in 0 .. 2, Excused
  PROVE  Sound
<1>1. CASE Picc!Fails
  BY <1>1, FailsSound
<1>2. CASE webPc' = "init" /\ restarted' = TRUE /\ UNCHANGED <<kept, op, code, client>>
  <2>1. /\ PiccTyped /\ kept = before /\ SessionOK(kept) /\ op \in {"login", "challenge"}
        /\ op = "login" => kept.back = NoWord
        /\ op = "challenge" => kept.st = "waiting"
    BY DEF PiccInv, LoginOK, CodeOK
  <2>2. PiccTyped' /\ SessionOK(kept)' /\ Picc!TokensForward
    BY <1>2, <2>1, KeptMeanwhile
  <2>3. LoginOK'
    BY <1>2, <2>1, <2>2 DEF LoginOK, Excused
  <2>4. PiccInv'
    BY <1>2, <2>2, <2>3 DEF PiccInv, LogsIn, TakesCode, Business
  <2>5. Picc!CodesCount
    BY <1>2 DEF Picc!CodesCount
  <2> QED  BY <2>2, <2>4, <2>5 DEF Sound
<1> QED  BY <1>1, <1>2 DEF Picc!Restarts

LEMMA AsksAgainSound ==
  ASSUME PiccInv, webPc \in TakesCode, Picc!AsksAgain, Slides, UNCHANGED <<before, ops>>,
         trouble' \in BOOLEAN, lapses' \in 0 .. 2, trouble' \/ code # "right"
  PROVE  Sound
<1>1. PiccTyped /\ kept = before /\ SessionOK(kept) /\ NewestAsked(kept) /\ kept \in SessionType
  BY DEF PiccInv, PiccTyped, CodeOK
<1>2. kept' = kept /\ kept' = before /\ Picc!Idle
  BY <1>1 DEF Picc!AsksAgain
<1>3. kept.web # 0 /\ (kept.back # NoWord => kept.back.web # 0) /\ kept.tok \in Nat
  BY <1>1 DEF SessionType, AsideType
<1>4. SessionNext(kept')
  BY <1>1, <1>2, <1>3, SlidesGrow, SessionStays
<1>5. NewestAsked(kept')
  BY <1>1, <1>2 DEF NewestAsked
<1>6. PiccInv'
  BY <1>1, <1>2, <1>4, <1>5, EndsKeep DEF Slides, PiccTyped
<1>7. Picc!CodesCount /\ Picc!TokensForward
  BY <1>2, <1>3 DEF Picc!CodesCount, Picc!TokensForward
<1> QED  BY <1>6, <1>7 DEF Sound

\* The code is with the platform: what is kept stays.
LEMMA CodeMoves ==
  ASSUME PiccInv, webPc \in {"form", "solve", "precheck"}, Slides,
         UNCHANGED <<kept, op, code, client, restarted, before, ops>>,
         trouble' \in BOOLEAN, lapses' \in 0 .. 2, webPc' \in {"solve", "precheck", "formal"},
         webPc' # "formal" => lapses' <= 1, webPc' = "formal" => code = "right"
  PROVE  Sound
<1>1. PiccTyped /\ SessionOK(kept) /\ CodeOK /\ restarted \in BOOLEAN
  BY DEF PiccInv, PiccTyped, CodeOK, TakesCode
<1>2. PiccTyped' /\ SessionOK(kept)' /\ (NewestAsked(kept) => NewestAsked(kept)') /\ Picc!TokensForward
  BY <1>1, KeptMeanwhile
<1>3. CodeOK'
  BY <1>1, <1>2 DEF CodeOK
<1>4. PiccInv'
  BY <1>2, <1>3 DEF PiccInv, LogsIn, TakesCode, Business
<1>5. Picc!CodesCount
  BY DEF Picc!CodesCount
<1> QED  BY <1>2, <1>4, <1>5 DEF Sound

LEMMA SlideSet ==
  ASSUME PiccTyped, NEW w \in 1 .. Len(webs), NEW passed \in BOOLEAN,
         webs' = [webs EXCEPT ![w].slide = passed], UNCHANGED <<issued, received, dropped>>
  PROVE  Slides
<1>1. webs \in Seq(WebType) /\ DOMAIN webs = 1 .. Len(webs) /\ Len(webs) \in Nat
  BY DEF PiccTyped
<1>2. webs[w] \in WebType
  BY <1>1
<1> DEFINE passedWeb == [webs[w] EXCEPT !.slide = passed]
<1>3. passedWeb \in WebType /\ passedWeb.logged = webs[w].logged
  BY <1>2 DEF WebType
<1>4. webs' = [webs EXCEPT ![w] = passedWeb]
  OBVIOUS
<1> HIDE DEF passedWeb
<1>5. webs' \in Seq(WebType) /\ Len(webs') = Len(webs)
  BY <1>1, <1>3, <1>4, ExceptSeq
<1>6. \A v \in 1 .. Len(webs) : webs'[v].logged = webs[v].logged
  BY <1>1, <1>3, <1>4
<1> QED  BY <1>5, <1>6 DEF Slides

LEMMA NoSlides ==
  ASSUME PiccTyped, UNCHANGED <<webs, issued, received, dropped>>
  PROVE  Slides
  BY DEF PiccTyped, Slides

LEMMA BeginWebKeeps ==
  ASSUME Countable, PiccInv, Picc!BeginWeb
  PROVE  Sound
<1>1. /\ PiccTyped /\ LoginOK /\ webPc = "init" /\ UNCHANGED <<issued, before, ops>>
      /\ Len(webs) < MaxWebs /\ trouble \in BOOLEAN /\ lapses \in 0 .. 2
  BY DEF PiccInv, PiccTyped, Picc!BeginWeb, LogsIn
<1>2. CASE Picc!Fails /\ Picc!Troubled /\ UNCHANGED webs
  <2>1. Slides /\ lapses' = lapses
    BY <1>1, <1>2, NoSlides DEF Picc!Troubled
  <2>2. trouble' = TRUE
    BY <1>2 DEF Picc!Troubled
  <2>3. trouble' \in BOOLEAN
    BY <2>2, Zenon
  <2> QED  BY <1>1, <1>2, <2>1, <2>2, <2>3, FailsSound DEF Excused, LogsIn
<1>3. CASE /\ webs' = Append(webs, [slide |-> FALSE, logged |-> FALSE])
           /\ received' = Append(received, 0)
           /\ client' = [web |-> Len(webs) + 1, tok |-> 0, cookie |-> 0]
           /\ webPc' = "slide"
           /\ UNCHANGED <<kept, op, code, restarted, dropped, lapses, trouble>>
  <2>1. /\ webs \in Seq(WebType) /\ received \in Seq(0 .. Len(issued)) /\ Len(received) = Len(webs)
        /\ Len(webs) \in Nat /\ Len(issued) \in Nat /\ kept \in SessionType /\ before \in SessionType
        /\ [slide |-> FALSE, logged |-> FALSE] \in WebType
    BY <1>1 DEF PiccTyped, WebType
  <2>2. /\ webs' \in Seq(WebType) /\ Len(webs') = Len(webs) + 1
        /\ received' \in Seq(0 .. Len(issued)) /\ Len(received') = Len(webs')
        /\ \A w \in 1 .. Len(webs) : webs'[w] = webs[w] /\ received'[w] = received[w]
        /\ issued' = issued
    BY <1>1, <1>3, <2>1
  <2>3. Grows(0) /\ Len(webs') \in Nat /\ Len(issued') \in Nat
    BY <1>3, <2>1, <2>2 DEF Grows
  <2>4. /\ kept.web \in 1 .. Len(webs) /\ (kept.back # NoWord => kept.back.web # 0)
        /\ kept.tok \in Nat
    BY <2>1 DEF SessionType, AsideType
  <2>5. kept' \in SessionType' /\ before' \in SessionType' /\ SessionNext(kept')
    BY <1>1, <1>3, <2>1, <2>3, <2>4, SessionStays DEF LoginOK
  <2>6. PiccTyped'
    <3>1. issued' \in Seq(1 .. Len(webs'))
      BY <1>1, <2>1, <2>2 DEF PiccTyped
    <3>2. client' \in ClientType'
      <4>1. ClientType' = [web : 0 .. Len(webs'), tok : 0 .. Len(issued), cookie : 0 .. Len(issued)]
        BY <2>2 DEF ClientType
      <4>2. Len(webs) + 1 \in 0 .. Len(webs') /\ 0 \in 0 .. Len(issued)
        BY <2>1, <2>2
      <4> QED  BY <1>3, <4>1, <4>2
    <3>3. Len(webs') \in 1 .. MaxWebs
      BY <1>1, <2>1, <2>2 DEF Countable
    <3>4. dropped' \subseteq 1 .. Len(webs')
      BY <1>1, <1>3, <2>1, <2>2 DEF PiccTyped
    <3> QED  BY <1>1, <1>3, <2>2, <2>5, <3>1, <3>2, <3>3, <3>4 DEF PiccTyped
  <2>7. LoginOK'
    <3>1. SessionOK(kept)'
      BY <2>5, NextIsOK
    <3> QED  BY <1>1, <1>3, <2>2, <2>4, <3>1 DEF LoginOK
  <2>8. PiccInv'
    BY <1>3, <2>6, <2>7 DEF PiccInv, LogsIn, TakesCode, Business
  <2>9. Picc!CodesCount /\ Picc!TokensForward
    BY <1>3, <2>4 DEF Picc!CodesCount, Picc!TokensForward
  <2> QED  BY <2>8, <2>9 DEF Sound
<1>4. [Picc!Nobody EXCEPT !.web = Len(webs) + 1] = [web |-> Len(webs) + 1, tok |-> 0, cookie |-> 0]
  BY DEF Picc!Nobody
<1> QED  BY <1>1, <1>2, <1>3, <1>4 DEF Picc!BeginWeb

LEMMA SolveToAskKeeps ==
  ASSUME PiccInv, Picc!SolveToAsk
  PROVE  Sound
<1>1. /\ PiccTyped /\ LoginOK /\ webPc = "slide" /\ UNCHANGED <<issued, before, ops>>
      /\ trouble \in BOOLEAN /\ lapses \in 0 .. 2 /\ kept \in SessionType /\ kept = before
      /\ client = [web |-> Len(webs), tok |-> 0, cookie |-> 0] /\ kept.web < Len(webs) /\ kept.web \in 1 .. Len(webs)
      /\ Len(webs) \in Nat \ {0}
  BY DEF PiccInv, PiccTyped, Picc!SolveToAsk, LogsIn, LoginOK, SessionType
<1>2. CASE Picc!Restarts /\ Picc!Troubled /\ UNCHANGED webs
  <2>1. Slides /\ lapses' = lapses
    BY <1>1, <1>2, NoSlides DEF Picc!Troubled
  <2>2. trouble' = TRUE
    BY <1>2 DEF Picc!Troubled
  <2>3. trouble' \in BOOLEAN
    BY <2>2, Zenon
  <2> QED  BY <1>1, <1>2, <2>1, <2>2, <2>3, RestartsSound DEF Excused, LogsIn
<1>3. CASE webs' = [webs EXCEPT ![client.web].slide = TRUE] /\ Picc!Asks /\ UNCHANGED Picc!history
  <2>1. Slides /\ lapses' = lapses /\ trouble' = trouble
    <3>1. client.web \in 1 .. Len(webs) /\ UNCHANGED <<issued, received, dropped, lapses, trouble>>
      BY <1>1, <1>3 DEF Picc!history
    <3> QED  BY <1>1, <1>3, <3>1, SlideSet
  <2>2. /\ kept' = [st |-> "waiting", web |-> Len(webs), tok |-> 0, cookie |-> 0, pending |-> TRUE,
                    back |-> IF op = "login" THEN Picc!Aside(kept) ELSE NoWord]
        /\ Picc!Idle
    BY <1>1, <1>3 DEF Picc!Asks
  <2>3. kept' \in SessionType /\ SessionOK(kept')
    <3>1. CASE op = "login" /\ Picc!Usable(kept)
      <4>1. Picc!Aside(kept) = [web |-> kept.web, tok |-> kept.tok, cookie |-> kept.cookie]
        BY <3>1 DEF Picc!Aside
      <4>2. Holds(kept.web, kept.tok, kept.cookie)
        BY <1>1, <3>1 DEF LoginOK, SessionOK
      <4>3. kept.tok \in 1 .. Len(issued) /\ kept.cookie \in 0 .. Len(issued)
        BY <1>1, <4>2 DEF SessionType, Holds
      <4>4. Picc!Aside(kept) \in AsideType
        BY <1>1, <4>1, <4>3 DEF AsideType
      <4> QED  BY <1>1, <2>2, <3>1, <4>1, <4>2, <4>3, <4>4 DEF SessionType, SessionOK, Picc!Usable
    <3>2. CASE ~(op = "login" /\ Picc!Usable(kept))
      <4>1. kept'.back = NoWord
        BY <2>2, <3>2 DEF Picc!Aside
      <4> QED  BY <1>1, <2>2, <4>1 DEF SessionType, SessionOK, Picc!Usable
    <3> QED  BY <3>1, <3>2
  <2>4. SessionNext(kept')
    <3>1. kept'.web # 0 /\ (kept'.back # NoWord => kept'.back.web # 0)
      BY <2>3 DEF SessionType, AsideType
    <3> QED  BY <1>1, <2>1, <2>3, <3>1, SlidesGrow, SessionStays
  <2>5. NewestAsked(kept') /\ kept'.st = "waiting"
    <3>1. Len(webs') = Len(webs)
      BY <2>1 DEF Slides
    <3> QED  BY <2>2, <3>1 DEF NewestAsked
  <2>6. PiccInv'
    BY <1>1, <2>1, <2>2, <2>3, <2>4, <2>5, EndsKeep DEF Slides, PiccTyped
  <2>7. Picc!CodesCount /\ Picc!TokensForward
    BY <1>1, <2>1, <2>5 DEF Picc!CodesCount, Picc!TokensForward, LoginOK, Picc!Usable
  <2> QED  BY <2>6, <2>7 DEF Sound
<1> QED  BY <1>1, <1>2, <1>3 DEF Picc!SolveToAsk

LEMMA BeginChallengeKeeps ==
  ASSUME Countable, PiccInv, Picc!BeginChallenge
  PROVE  Sound
<1>1. /\ PiccTyped /\ SessionOK(kept) /\ NewestAsked(kept) /\ kept \in SessionType /\ webPc = "idle"
      /\ kept.st = "waiting" /\ ops < MaxOps /\ ops' = ops + 1 /\ op' = "challenge" /\ before' = kept
      /\ code' \in {"right", "wrong", "malformed"} /\ lapses' = 0 /\ trouble' = FALSE /\ webPc' = "form"
      /\ client' = [web |-> kept.web, tok |-> kept.tok, cookie |-> kept.cookie]
      /\ UNCHANGED <<kept, webs, issued, restarted, received, dropped>>
  BY DEF PiccInv, PiccTyped, Picc!BeginChallenge, Picc!platform
<1>2. PiccTyped'
  <2>1. ops' \in 0 .. MaxOps
    BY <1>1 DEF PiccTyped, Countable
  <2>2. client' \in ClientType
    BY <1>1 DEF SessionType, ClientType
  <2>3. trouble' \in BOOLEAN
    BY <1>1, Zenon
  <2>4. /\ webs' \in Seq(WebType) /\ Len(webs') = Len(webs) /\ dropped' \subseteq 1 .. Len(webs)
        /\ restarted' \in BOOLEAN
    BY <1>1 DEF PiccTyped
  <2> QED  BY <1>1, <2>1, <2>2, <2>3, <2>4, TypedNext
<1>3. SessionOK(kept)' /\ NewestAsked(kept)'
  BY <1>1 DEF SessionOK, NewestAsked, Holds, OfWeb, Picc!Usable
<1>4. CodeOK'
  BY <1>1, <1>3 DEF CodeOK
<1>5. PiccInv'
  BY <1>1, <1>2, <1>4 DEF PiccInv, LogsIn, TakesCode, Business
<1>6. Picc!CodesCount /\ Picc!TokensForward
  BY <1>1 DEF Picc!CodesCount, Picc!TokensForward, Picc!Usable
<1> QED  BY <1>5, <1>6 DEF Sound

LEMMA CheckFormKeeps ==
  ASSUME PiccInv, Picc!CheckForm
  PROVE  Sound
<1>1. /\ PiccTyped /\ webPc = "form" /\ UNCHANGED <<webs, issued, before, ops>>
      /\ trouble \in BOOLEAN /\ lapses \in 0 .. 2 /\ lapses = 0
  BY DEF PiccInv, PiccTyped, Picc!CheckForm, Picc!platform, TakesCode, CodeOK
<1>2. CASE code = "malformed" /\ Picc!AsksAgain /\ UNCHANGED Picc!history
  <2>1. Slides /\ trouble' = trouble /\ lapses' = lapses
    BY <1>1, <1>2, NoSlides DEF Picc!history
  <2> QED  BY <1>1, <1>2, <2>1, AsksAgainSound DEF TakesCode
<1>3. CASE Picc!Restarts /\ Picc!Troubled
  <2>1. Slides /\ lapses' = lapses
    BY <1>1, <1>3, NoSlides DEF Picc!Troubled
  <2>2. trouble' = TRUE
    BY <1>3 DEF Picc!Troubled
  <2>3. trouble' \in BOOLEAN
    BY <2>2, Zenon
  <2> QED  BY <1>1, <1>3, <2>1, <2>2, <2>3, RestartsSound DEF Excused, TakesCode
<1>4. CASE webPc' = "solve" /\ UNCHANGED <<kept, op, code, client, restarted, Picc!history>>
  <2>1. Slides /\ trouble' = trouble /\ lapses' = lapses
    BY <1>1, <1>4, NoSlides DEF Picc!history
  <2> QED  BY <1>1, <1>4, <2>1, CodeMoves
<1> QED  BY <1>2, <1>3, <1>4 DEF Picc!CheckForm

\* A slide that lapsed, or the platform's words say so.
LEMMA LapsedSound ==
  ASSUME PiccInv, webPc \in {"solve", "precheck"}, Picc!Lapsed, Slides, UNCHANGED <<before, ops>>,
         lapses' = lapses + 1, trouble' \in BOOLEAN, lapses > 0 => trouble'
  PROVE  Sound
<1>1. lapses \in 0 .. 1 /\ lapses' \in 0 .. 2
  BY DEF PiccInv, PiccTyped, CodeOK, TakesCode
<1>2. CASE lapses = 0 /\ webPc' = "solve" /\ UNCHANGED <<kept, op, code, client, restarted>>
  BY <1>1, <1>2, CodeMoves
<1>3. CASE lapses # 0 /\ Picc!Restarts
  <2>1. Excused
    BY <1>1, <1>3 DEF Excused
  <2> QED  BY <1>1, <1>3, <2>1, RestartsSound DEF TakesCode
<1> QED  BY <1>2, <1>3 DEF Picc!Lapsed

LEMMA SolveToSendKeeps ==
  ASSUME PiccInv, Picc!SolveToSend
  PROVE  Sound
<1>1. /\ PiccTyped /\ webPc = "solve" /\ UNCHANGED <<issued, before, ops>>
      /\ trouble \in BOOLEAN /\ lapses \in 0 .. 1 /\ client.web \in 1 .. Len(webs)
  BY DEF PiccInv, PiccTyped, SessionType, Picc!SolveToSend, TakesCode, CodeOK
<1>2. CASE /\ webs' = [webs EXCEPT ![client.web].slide = TRUE] /\ webPc' = "precheck"
           /\ UNCHANGED <<kept, op, code, client, restarted, Picc!history>>
  <2>1. UNCHANGED <<received, dropped, lapses, trouble>>
    BY <1>2 DEF Picc!history
  <2>2. Slides
    BY <1>1, <1>2, <2>1, SlideSet
  <2> QED  BY <1>1, <1>2, <2>1, <2>2, CodeMoves
<1>3. CASE (Picc!Restarts \/ Picc!Fails) /\ Picc!Troubled /\ UNCHANGED webs
  <2>1. Slides /\ lapses' = lapses
    BY <1>1, <1>3, NoSlides DEF Picc!Troubled
  <2>2. trouble' = TRUE
    BY <1>3 DEF Picc!Troubled
  <2>3. trouble' \in BOOLEAN
    BY <2>2, Zenon
  <2>4. Excused /\ lapses' \in 0 .. 2
    BY <1>1, <2>1, <2>2 DEF Excused
  <2> QED  BY <1>1, <1>3, <2>1, <2>3, <2>4, RestartsSound, FailsSound DEF TakesCode
<1>4. CASE lapses = 0 /\ Picc!Lapsed /\ lapses' = 1 /\ trouble' = TRUE /\ UNCHANGED <<webs, received, dropped>>
  <2>1. Slides
    BY <1>1, <1>4, NoSlides
  <2>2. trouble' \in BOOLEAN
    BY <1>4, Zenon
  <2> QED  BY <1>1, <1>4, <2>1, <2>2, LapsedSound
<1> QED  BY <1>2, <1>3, <1>4 DEF Picc!SolveToSend

LEMMA PrecheckKeeps ==
  ASSUME PiccInv, Picc!Precheck
  PROVE  Sound
<1>1. /\ PiccTyped /\ webPc = "precheck" /\ UNCHANGED <<webs, issued, before, ops>>
      /\ trouble \in BOOLEAN /\ lapses \in 0 .. 1
  BY DEF PiccInv, PiccTyped, Picc!Precheck, Picc!platform, TakesCode, CodeOK
<1>2. CASE /\ Picc!Lapsed /\ lapses' = lapses + 1 /\ trouble' = (lapses > 0)
           /\ UNCHANGED <<received, dropped>>
  <2>1. Slides
    BY <1>1, <1>2, NoSlides
  <2>2. trouble' \in BOOLEAN
    <3>1. (lapses > 0) \in BOOLEAN
      BY <1>1, SMT
    <3> QED  BY <1>2, <3>1, Zenon
  <2> QED  BY <1>1, <1>2, <2>1, <2>2, LapsedSound
<1>3. CASE code = "right" /\ webPc' = "formal" /\ UNCHANGED <<kept, op, code, client, restarted, Picc!history>>
  <2>1. Slides /\ trouble' = trouble /\ lapses' = lapses
    BY <1>1, <1>3, NoSlides DEF Picc!history
  <2> QED  BY <1>1, <1>3, <2>1, CodeMoves
<1>4. CASE /\ code = "wrong" /\ (IF lapses = 0 THEN Picc!AsksAgain ELSE Picc!Restarts)
           /\ UNCHANGED Picc!history
  <2>1. Slides /\ trouble' = trouble /\ lapses' = lapses
    BY <1>1, <1>4, NoSlides DEF Picc!history
  <2>2. CASE lapses = 0 /\ Picc!AsksAgain
    BY <1>1, <1>4, <2>1, <2>2, AsksAgainSound DEF TakesCode
  <2>3. CASE lapses # 0 /\ Picc!Restarts
    <3>1. Excused
      BY <1>1, <1>4, <2>1, <2>3 DEF Excused
    <3> QED  BY <1>1, <2>1, <2>3, <3>1, RestartsSound DEF TakesCode
  <2> QED  BY <1>4, <2>2, <2>3
<1>5. CASE (Picc!Restarts \/ Picc!Fails) /\ Picc!Troubled
  <2>1. Slides /\ lapses' = lapses
    BY <1>1, <1>5, NoSlides DEF Picc!Troubled
  <2>2. trouble' = TRUE
    BY <1>5 DEF Picc!Troubled
  <2>3. trouble' \in BOOLEAN
    BY <2>2, Zenon
  <2>4. Excused /\ lapses' \in 0 .. 2
    BY <1>1, <2>1, <2>2 DEF Excused
  <2> QED  BY <1>1, <1>5, <2>1, <2>3, <2>4, RestartsSound, FailsSound DEF TakesCode
<1> QED  BY <1>2, <1>3, <1>4, <1>5 DEF Picc!Precheck

-----------------------------------------------------------------------------
\* Tokens are issued after those that were.
LEMMA IssueGrows ==
  ASSUME Countable, PiccTyped, NEW w \in 1 .. Len(webs), NEW some \in Picc!Issue(w)
  PROVE  /\ some \in Seq(1 .. Len(webs)) /\ Len(some) \in 1 .. MaxTokens /\ Len(issued) <= Len(some)
         /\ DOMAIN some = 1 .. Len(some) /\ \A t \in 1 .. Len(issued) : some[t] = issued[t]
<1>1. issued \in Seq(1 .. Len(webs)) /\ Len(issued) \in 1 .. MaxTokens /\ MaxTokens \in Nat
  BY DEF PiccTyped, Countable
<1>2. CASE some = issued
  BY <1>1, <1>2
<1>3. CASE Len(issued) < MaxTokens /\ some = Append(issued, w)
  BY <1>1, <1>3
<1> QED  BY <1>2, <1>3 DEF Picc!Issue

\* An answer with its tokens: the client goes on with the newest.
LEMMA AnsweredIs ==
  ASSUME Countable, PiccTyped, NEW next, Picc!Answered(next), UNCHANGED <<webs, dropped>>,
         client.web \in 1 .. Len(webs), Holds(client.web, client.tok, client.cookie)
  PROVE  /\ issued' \in Seq(1 .. Len(webs)) /\ Len(issued') \in 1 .. MaxTokens
         /\ received' \in Seq(0 .. Len(issued')) /\ Len(received') = Len(webs)
         /\ Grows(client.web) /\ received[client.web] <= received'[client.web]
         /\ client' \in [web : 1 .. Len(webs), tok : 1 .. Len(issued'), cookie : 0 .. Len(issued')]
         /\ client'.web = client.web /\ client.tok <= client'.tok
         /\ HoldsNext(client'.web, client'.tok, client'.cookie)
         /\ client.tok = received[client.web] => client'.tok = received'[client.web]
<1> DEFINE w == client.web
<1>1. /\ w \in 1 .. Len(webs) /\ Len(webs) \in Nat /\ Len(issued) \in Nat
      /\ client \in [web : Nat, tok : Nat, cookie : Nat]
      /\ client.tok \in 1 .. Len(issued) /\ client.cookie \in 0 .. Len(issued)
      /\ received \in Seq(0 .. Len(issued)) /\ Len(received) = Len(webs)
      /\ received[w] \in 0 .. Len(issued)
  <2>1. /\ client \in ClientType /\ received \in Seq(0 .. Len(issued)) /\ Len(received) = Len(webs)
        /\ Len(webs) \in Nat /\ Len(issued) \in Nat
    BY DEF PiccTyped
  <2>2. received[w] \in 0 .. Len(issued)
    BY <2>1, ElementOfSeq
  <2>3. client.tok # 0
    BY DEF Holds
  <2> QED  BY <2>1, <2>2, <2>3 DEF ClientType
<1> DEFINE Mine(toks) == {0} \cup {t \in DOMAIN toks : toks[t] = w}
           Takes(header, set) == /\ client' = Picc!Received(client, header, set)
                                 /\ received' = [received EXCEPT ![w] = Picc!Max({received[w], header, set})]
<1>a. PICK some \in Picc!Issue(w) : issued' = some /\ \E header, set \in Mine(some) : Takes(header, set)
  BY DEF Picc!Answered
<1>b. PICK header \in Mine(some), set \in Mine(some) : Takes(header, set)
  BY <1>a
<1>2. /\ some \in Picc!Issue(w) /\ issued' = some
      /\ client' = Picc!Received(client, header, set)
      /\ received' = [received EXCEPT ![w] = Picc!Max({received[w], header, set})]
  BY <1>a, <1>b
<1>3. /\ some \in Seq(1 .. Len(webs)) /\ Len(some) \in 1 .. MaxTokens /\ Len(issued) <= Len(some)
      /\ DOMAIN some = 1 .. Len(some) /\ \A t \in 1 .. Len(issued) : some[t] = issued[t]
  BY <1>1, IssueGrows
<1>4. /\ header \in 0 .. Len(issued') /\ (header # 0 => issued'[header] = w)
      /\ set \in 0 .. Len(issued') /\ (set # 0 => issued'[set] = w)
      /\ Len(issued') \in Nat
  BY <1>2, <1>3 DEF Countable
<1> HIDE DEF Takes
<1> DEFINE newest == Picc!Max({received[w], header, set})
           jar == IF set = 0 THEN client.cookie ELSE set
<1>5. newest \in {received[w], header, set} /\ newest >= received[w] /\ newest >= header /\ newest >= set
  <2>1. received[w] \in Nat /\ header \in Nat /\ set \in Nat
    BY <1>1, <1>4
  <2> HIDE DEF w, jar, Mine
  <2> QED  BY <2>1, GreatestOfThree
<1> HIDE DEF newest
<1>6. received' \in Seq(0 .. Len(issued')) /\ Len(received') = Len(webs) /\ received'[w] = newest
      /\ \A v \in 1 .. Len(webs) : v # w => received'[v] = received[v]
  <2>1. received \in Seq(0 .. Len(issued')) /\ newest \in 0 .. Len(issued')
    <3>1. Len(issued) <= Len(issued')
      BY <1>2, <1>3
    <3>2. 0 .. Len(issued) \subseteq 0 .. Len(issued')
      BY <1>1, <1>4, <3>1
    <3>3. received \in Seq(0 .. Len(issued'))
      BY <1>1, <3>2, SeqWider
    <3> QED  BY <1>1, <1>4, <1>5, <3>2, <3>3
  <2>2. received' = [received EXCEPT ![w] = newest]
    BY <1>2 DEF newest
  <2> QED  BY <1>1, <2>1, <2>2, ExceptSeq
<1>7. /\ client' \in [web : Nat, tok : Nat, cookie : Nat] /\ client'.web = w
      /\ client'.tok \in {client.tok, header, jar}
      /\ client'.tok >= client.tok /\ client'.tok >= header /\ client'.tok >= jar
      /\ client'.cookie \in {header, jar}
  <2>1. header \in Nat /\ set \in Nat /\ client \in [web : Nat, tok : Nat, cookie : Nat]
    BY <1>1, <1>4
  <2> HIDE DEF w, Mine
  <2> DEFINE d == Picc!Received(client, header, set)
  <2>2. /\ d \in [web : Nat, tok : Nat, cookie : Nat] /\ d.web = client.web
        /\ d.tok \in {client.tok, header, jar} /\ d.tok >= client.tok /\ d.tok >= header /\ d.tok >= jar
        /\ d.cookie \in {header, jar}
    BY <2>1, ReceivedIs
  <2> HIDE DEF jar, d
  <2>3. client' = d /\ client.web = w
    BY <1>2 DEF d, w
  <2> QED  BY <2>2, <2>3
<1>8. /\ jar \in 0 .. Len(issued') /\ jar <= newest /\ (jar # 0 => issued'[jar] = w)
      /\ (jar = client.cookie \/ jar = set)
  <2>1. client.cookie # 0 => issued[client.cookie] = w /\ client.cookie <= received[w]
    BY DEF Holds, OfWeb
  <2>2. client.cookie # 0 => issued'[client.cookie] = w
    BY <1>1, <1>2, <1>3, <2>1
  <2>3. client.cookie \in 0 .. Len(issued') /\ client.cookie <= newest /\ set <= newest
    BY <1>1, <1>2, <1>3, <1>4, <1>5, <2>1
  <2>4. CASE set = 0
    BY <2>2, <2>3, <2>4
  <2>5. CASE set # 0
    BY <1>4, <2>3, <2>5
  <2> QED  BY <2>4, <2>5
<1> HIDE DEF jar
<1>9. client.tok <= newest /\ issued'[client.tok] = w /\ client.tok \in 1 .. Len(issued')
  <2>1. issued[client.tok] = w /\ client.tok <= received[w]
    BY DEF Holds, OfWeb
  <2>2. client.tok <= newest
    BY <1>1, <1>4, <1>5, <2>1
  <2> QED  BY <1>1, <1>2, <1>3, <2>1, <2>2
<1>10. client' \in [web : 1 .. Len(webs), tok : 1 .. Len(issued'), cookie : 0 .. Len(issued')]
  <2>1. client'.tok \in 1 .. Len(issued') /\ client'.cookie \in 0 .. Len(issued')
    BY <1>4, <1>7, <1>8, <1>9
  <2> QED  BY <1>1, <1>7, <2>1
<1>11. client.tok = received[w] => client'.tok = received'[w]
  <2>1. received[w] <= newest /\ client'.tok <= newest
    BY <1>1, <1>4, <1>5, <1>7, <1>8, <1>9
  <2>2. client.tok = received[w] => client'.tok >= newest
    <3>1. client.cookie <= received[w]
      BY <1>1 DEF Holds, OfWeb
    <3>2. jar >= set
      BY <1>1, <1>4 DEF jar
    <3> QED  BY <1>1, <1>4, <1>5, <1>7, <1>8, <3>1, <3>2
  <2> QED  BY <1>1, <1>4, <1>5, <1>6, <1>7, <1>8, <2>1, <2>2
<1>12. HoldsNext(w, client'.tok, client'.cookie)
  <2>1. webs'[w].logged /\ (w \notin dropped' => client.tok = received[w])
    BY DEF Holds
  <2>2. issued'[client'.tok] = w /\ client'.tok <= received'[w] /\ client'.tok # 0
    <3>1. client'.tok # 0
      BY <1>4, <1>7, <1>9
    <3>2. client'.tok <= received'[w]
      BY <1>4, <1>5, <1>6, <1>7, <1>8, <1>9
    <3>3. issued'[client'.tok] = w
      BY <1>4, <1>7, <1>8, <1>9, <3>1
    <3> QED  BY <3>1, <3>2, <3>3
  <2>3. client'.cookie # 0 => issued'[client'.cookie] = w /\ client'.cookie <= received'[w]
    BY <1>4, <1>5, <1>6, <1>7, <1>8
  <2> QED  BY <1>11, <2>1, <2>2, <2>3 DEF HoldsNext
<1>13. Grows(w)
  BY <1>1, <1>2, <1>3, <1>6 DEF Grows
<1> QED  BY <1>1, <1>2, <1>3, <1>4, <1>5, <1>6, <1>7, <1>10, <1>11, <1>12, <1>13

-----------------------------------------------------------------------------
\* What is kept while a code is checked, beside the web session it is for.
LEMMA WaitsBeside ==
  ASSUME PiccInv, webPc \in TakesCode, Len(webs') = Len(webs), Len(issued') \in Nat, Grows(client.web),
         UNCHANGED <<kept, before>>
  PROVE  /\ kept' \in SessionType' /\ before' \in SessionType' /\ SessionOK(kept)' /\ NewestAsked(kept)'
         /\ Picc!TokensForward
<1>1. /\ PiccTyped /\ kept = before /\ SessionOK(kept) /\ NewestAsked(kept) /\ kept \in SessionType
      /\ kept.st = "waiting" /\ kept.web = client.web /\ Len(webs) \in Nat
  BY DEF PiccInv, PiccTyped, CodeOK
<1>2. kept.back # NoWord => kept.back.web # client.web
  BY <1>1 DEF SessionOK, SessionType, AsideType
<1>3. kept \in SessionType' /\ SessionNext(kept)
  BY <1>1, <1>2, SessionStays DEF Picc!Usable
<1>4. SessionOK(kept)'
  BY <1>3, NextIsOK
<1>5. NewestAsked(kept)'
  BY <1>1 DEF NewestAsked
<1>6. Picc!TokensForward
  BY <1>1 DEF Picc!TokensForward, Picc!Usable
<1> QED  BY <1>1, <1>3, <1>4, <1>5, <1>6

LEMMA FormalLoginKeeps ==
  ASSUME Countable, PiccInv, Picc!FormalLogin
  PROVE  Sound
<1>1. /\ PiccTyped /\ CodeOK /\ webPc = "formal" /\ UNCHANGED <<before, ops>> /\ code = "right"
      /\ trouble \in BOOLEAN /\ lapses \in 0 .. 2 /\ client.web \in 1 .. Len(webs)
  BY DEF PiccInv, PiccTyped, SessionType, Picc!FormalLogin, TakesCode, CodeOK
<1>2. CASE (Picc!Fails \/ Picc!Restarts \/ Picc!AsksAgain) /\ Picc!Troubled /\ UNCHANGED Picc!platform
  <2>1. Slides /\ lapses' = lapses
    BY <1>1, <1>2, NoSlides DEF Picc!Troubled, Picc!platform
  <2>2. trouble' = TRUE
    BY <1>2 DEF Picc!Troubled
  <2>3. trouble' \in BOOLEAN
    BY <2>2, Zenon
  <2>4. Excused /\ lapses' \in 0 .. 2
    BY <1>1, <2>1, <2>2 DEF Excused
  <2> QED  BY <1>1, <1>2, <2>1, <2>2, <2>3, <2>4, RestartsSound, FailsSound, AsksAgainSound DEF TakesCode
<1>3. CASE /\ Len(issued) < MaxTokens /\ issued' = Append(issued, client.web)
           /\ webs' = [webs EXCEPT ![client.web].logged = TRUE]
           /\ client' = Picc!Captured([client EXCEPT !.cookie = Len(issued')])
           /\ received' = [received EXCEPT ![client.web] = Len(issued')]
           /\ webPc' = "validate"
           /\ UNCHANGED <<kept, op, code, restarted, dropped, lapses, trouble>>
  <2> DEFINE w == client.web
             new == Len(issued')
             c == [client EXCEPT !.cookie = new]
             loggedWeb == [webs[w] EXCEPT !.logged = TRUE]
  <2>1. /\ webs \in Seq(WebType) /\ issued \in Seq(1 .. Len(webs)) /\ received \in Seq(0 .. Len(issued))
        /\ Len(received) = Len(webs) /\ Len(webs) \in Nat /\ Len(issued) \in 1 .. MaxTokens /\ MaxTokens \in Nat
        /\ client \in ClientType
    BY <1>1 DEF PiccTyped, Countable
  <2>2. /\ issued' \in Seq(1 .. Len(webs)) /\ new = Len(issued) + 1 /\ new \in 1 .. MaxTokens
        /\ issued'[new] = w /\ \A t \in 1 .. Len(issued) : issued'[t] = issued[t]
    BY <1>1, <1>3, <2>1
  <2>3. webs[w] \in WebType
    BY <1>1, <2>1
  <2>4. loggedWeb \in WebType /\ loggedWeb.logged = TRUE /\ webs' = [webs EXCEPT ![w] = loggedWeb]
    BY <1>3, <2>3 DEF WebType
  <2> HIDE DEF loggedWeb
  <2>5. /\ webs' \in Seq(WebType) /\ Len(webs') = Len(webs) /\ webs'[w].logged
        /\ \A v \in 1 .. Len(webs) : webs[v].logged => webs'[v].logged
    BY <1>1, <2>1, <2>4, ExceptSeq
  <2>6. /\ received' \in Seq(0 .. new) /\ Len(received') = Len(webs) /\ received'[w] = new
        /\ \A v \in 1 .. Len(webs) : v # w => received'[v] = received[v]
    <3>1. received \in Seq(0 .. new) /\ new \in 0 .. new
      BY <2>1, <2>2
    <3> QED  BY <1>1, <1>3, <2>1, <3>1, ExceptSeq
  <2>7. Grows(w)
    BY <1>3, <2>1, <2>2, <2>5, <2>6 DEF Grows
  <2> HIDE DEF w, new
  <2>8. client' = [web |-> w, tok |-> new, cookie |-> new]
    <3>1. client.tok \in 0 .. Len(issued) /\ client.web = w
      BY <2>1 DEF ClientType, w
    <3>2. client \in [web : Nat, tok : Nat, cookie : Nat] /\ new \in Nat
      BY <2>1, <2>2 DEF ClientType
    <3>3. client' = Picc!Captured(c)
      BY <1>3 DEF new
    <3>4. c \in [web : Nat, tok : Nat, cookie : Nat] /\ c.cookie = new /\ c.tok = client.tok /\ c.web = w
      BY <3>1, <3>2
    <3>5. ~(new = 0 \/ new < client.tok)
      <4>1. new = Len(issued) + 1 /\ Len(issued) \in Nat
        BY <2>1, <2>2
      <4> QED  BY <3>1, <4>1
    <3> HIDE DEF c
    <3> QED  BY <3>3, <3>4, <3>5 DEF Picc!Captured, Picc!Install
  <2>9. /\ kept' \in SessionType' /\ before' \in SessionType' /\ SessionOK(kept)' /\ NewestAsked(kept)'
        /\ Picc!TokensForward
    BY <1>1, <1>3, <2>2, <2>5, <2>7, WaitsBeside DEF TakesCode, w, new
  <2>10. PiccTyped'
    <3>1. client' \in ClientType'
      <4>1. ClientType' = [web : 0 .. Len(webs), tok : 0 .. new, cookie : 0 .. new]
        BY <2>5 DEF ClientType, new
      <4>2. w \in 0 .. Len(webs)
        BY <1>1 DEF w
      <4>3. new \in 0 .. new
        BY <2>1, <2>2
      <4> QED  BY <2>8, <4>1, <4>2, <4>3
    <3>2. /\ Len(webs) \in 1 .. MaxWebs /\ dropped' \subseteq 1 .. Len(webs) /\ ops' \in 0 .. MaxOps
          /\ op' \in {NoWord, "login", "challenge", "keepalive", "check_quota", "query", "quote"}
          /\ code' \in {NoWord, "right", "wrong", "malformed"} /\ restarted' \in BOOLEAN
      BY <1>1, <1>3 DEF PiccTyped
    <3> QED  BY <1>1, <1>3, <2>2, <2>5, <2>6, <2>9, <3>1, <3>2 DEF PiccTyped, new
  <2>11. Holds(client.web, client.tok, client.cookie)' /\ client'.tok = received'[client'.web]
    <3>1. client'.web = w /\ client'.tok = new /\ client'.cookie = new
      BY <2>8
    <3>2. new <= new /\ new # 0
      BY <2>1, <2>2
    <3> QED  BY <2>2, <2>5, <2>6, <3>1, <3>2 DEF Holds, OfWeb
  <2>12. CodeOK'
    <3>1. client'.web = kept'.web
      BY <1>1, <1>3, <2>8 DEF CodeOK, w
    <3> QED  BY <1>1, <1>3, <2>9, <2>11, <3>1 DEF CodeOK
  <2>13. PiccInv'
    BY <1>3, <2>10, <2>12 DEF PiccInv, LogsIn, TakesCode, Business
  <2>14. Picc!CodesCount
    BY <1>3 DEF Picc!CodesCount
  <2> QED  BY <2>9, <2>13, <2>14 DEF Sound
<1> QED  BY <1>2, <1>3 DEF Picc!FormalLogin

LEMMA ValidateKeeps ==
  ASSUME Countable, PiccInv, Picc!Validate
  PROVE  Sound
<1>1. /\ PiccTyped /\ CodeOK /\ webPc = "validate" /\ UNCHANGED <<webs, before, ops>> /\ code = "right"
      /\ trouble \in BOOLEAN /\ lapses \in 0 .. 2 /\ client.web \in 1 .. Len(webs)
      /\ Holds(client.web, client.tok, client.cookie) /\ client.tok = received[client.web]
  BY DEF PiccInv, PiccTyped, SessionType, Picc!Validate, TakesCode, CodeOK
<1>2. CASE Picc!Fails /\ Picc!Troubled /\ UNCHANGED issued
  <2>1. Slides /\ lapses' = lapses
    BY <1>1, <1>2, NoSlides DEF Picc!Troubled
  <2>2. trouble' = TRUE
    BY <1>2 DEF Picc!Troubled
  <2>3. trouble' \in BOOLEAN
    BY <2>2, Zenon
  <2>4. Excused /\ lapses' \in 0 .. 2
    BY <1>1, <2>1, <2>2 DEF Excused
  <2> QED  BY <1>1, <1>2, <2>1, <2>3, <2>4, FailsSound DEF TakesCode
<1>3. CASE Picc!Answered("loggedIn") /\ UNCHANGED <<kept, op, code, restarted, dropped, lapses, trouble>>
  <2>1. /\ issued' \in Seq(1 .. Len(webs)) /\ Len(issued') \in 1 .. MaxTokens
        /\ received' \in Seq(0 .. Len(issued')) /\ Len(received') = Len(webs)
        /\ Grows(client.web)
        /\ client' \in [web : 1 .. Len(webs), tok : 1 .. Len(issued'), cookie : 0 .. Len(issued')]
        /\ client'.web = client.web
        /\ HoldsNext(client'.web, client'.tok, client'.cookie)
        /\ client'.tok = received'[client.web]
    BY <1>1, <1>3, AnsweredIs
  <2>2. webPc' = "loggedIn" /\ Len(webs') = Len(webs) /\ Len(issued') \in Nat
    BY <1>1, <1>3, <2>1 DEF Picc!Answered
  <2>3. /\ kept' \in SessionType' /\ before' \in SessionType' /\ SessionOK(kept)' /\ NewestAsked(kept)'
        /\ Picc!TokensForward
    BY <1>1, <1>3, <2>1, <2>2, WaitsBeside DEF TakesCode
  <2>4. PiccTyped'
    <3>1. client' \in ClientType'
      BY <2>1, <2>2 DEF ClientType
    <3>2. /\ webs' \in Seq(WebType) /\ Len(webs') \in 1 .. MaxWebs
          /\ dropped' \subseteq 1 .. Len(webs') /\ ops' \in 0 .. MaxOps
          /\ op' \in {NoWord, "login", "challenge", "keepalive", "check_quota", "query", "quote"}
          /\ code' \in {NoWord, "right", "wrong", "malformed"} /\ restarted' \in BOOLEAN
      BY <1>1, <1>3 DEF PiccTyped
    <3> QED  BY <1>1, <1>3, <2>1, <2>2, <2>3, <3>1, <3>2 DEF PiccTyped
  <2>5. Holds(client.web, client.tok, client.cookie)' /\ client'.tok = received'[client'.web]
    BY <2>1 DEF HoldsNext, Holds, OfWeb
  <2>6. CodeOK'
    <3>1. client'.web = kept'.web
      BY <1>1, <1>3, <2>1 DEF CodeOK
    <3> QED  BY <1>1, <1>3, <2>2, <2>3, <2>5, <3>1 DEF CodeOK
  <2>7. PiccInv'
    BY <2>2, <2>4, <2>6 DEF PiccInv, LogsIn, TakesCode, Business
  <2>8. Picc!CodesCount
    BY <2>2 DEF Picc!CodesCount
  <2> QED  BY <2>3, <2>7, <2>8 DEF Sound
<1> QED  BY <1>2, <1>3 DEF Picc!Validate

\* The snapshot of a client: its newest token.
LEMMA SnapshotIs ==
  ASSUME PiccTyped, client.web \in 1 .. Len(webs), Holds(client.web, client.tok, client.cookie), NEW c,
         c = Picc!Captured(client)
  PROVE  /\ c.web = client.web /\ c.tok \in 1 .. Len(issued) /\ c.cookie \in 0 .. Len(issued)
         /\ client.tok <= c.tok /\ OfWeb(c.web, c.tok) /\ (c.cookie # 0 => OfWeb(c.web, c.cookie))
         /\ client.tok = received[client.web] => c.tok = received[c.web]
<1>1. /\ client \in [web : Nat, tok : Nat, cookie : Nat] /\ Len(issued) \in Nat
      /\ client.tok \in 1 .. Len(issued) /\ client.cookie \in 0 .. Len(issued)
      /\ received[client.web] \in 0 .. Len(issued)
  BY DEF PiccTyped, ClientType, Holds
<1>2. /\ c.web = client.web /\ c.cookie = client.cookie
      /\ c.tok = IF client.tok >= client.cookie THEN client.tok ELSE client.cookie
  BY <1>1, CapturedIs
<1>3. /\ OfWeb(client.web, client.tok) /\ (client.cookie # 0 => OfWeb(client.web, client.cookie))
  BY DEF Holds
<1>4. client.tok = received[client.web] => c.tok = received[client.web]
  BY <1>1, <1>2, <1>3 DEF OfWeb
<1>5. client.tok <= c.tok /\ OfWeb(client.web, c.tok)
  BY <1>1, <1>2, <1>3
<1> QED  BY <1>1, <1>2, <1>3, <1>4, <1>5

LEMMA KeepLoginKeeps ==
  ASSUME PiccInv, Picc!KeepLogin
  PROVE  Sound
<1>1. /\ PiccTyped /\ CodeOK /\ UNCHANGED <<webs, issued, before, ops, received, dropped, lapses, trouble>>
      /\ trouble' \in BOOLEAN /\ lapses' \in 0 .. 2 /\ client.web \in 1 .. Len(webs)
      /\ Holds(client.web, client.tok, client.cookie) /\ client.tok = received[client.web]
      /\ kept.st = "waiting" /\ code = "right" /\ Picc!Idle
  BY DEF PiccInv, PiccTyped, SessionType, Picc!KeepLogin, Picc!platform, Picc!history, TakesCode, CodeOK
<1> DEFINE c == Picc!Captured(client)
<1>2. kept' = [st |-> "authenticated", web |-> c.web, tok |-> c.tok, cookie |-> c.cookie,
               pending |-> FALSE, back |-> NoWord]
  BY DEF Picc!KeepLogin
<1>3. /\ c.web \in 1 .. Len(webs) /\ c.tok \in 1 .. Len(issued) /\ c.cookie \in 0 .. Len(issued)
      /\ OfWeb(c.web, c.tok) /\ (c.cookie # 0 => OfWeb(c.web, c.cookie)) /\ c.tok = received[c.web]
      /\ c.web = client.web
  BY <1>1, SnapshotIs
<1> HIDE DEF c
<1>4. kept' \in SessionType
  BY <1>2, <1>3 DEF SessionType
<1>5. HoldsNext(c.web, c.tok, c.cookie)
  BY <1>1, <1>3 DEF HoldsNext, Holds, OfWeb
<1>6. SessionNext(kept') /\ NewestAsked(kept')
  BY <1>2, <1>5 DEF SessionNext, NewestAsked
<1>7. PiccInv'
  BY <1>1, <1>4, <1>6, EndsKeep DEF PiccTyped
<1>8. Picc!CodesCount /\ Picc!TokensForward
  BY <1>1, <1>2 DEF Picc!CodesCount, Picc!TokensForward, Picc!Usable
<1> QED  BY <1>7, <1>8 DEF Sound

-----------------------------------------------------------------------------
LEMMA BeginBusinessKeeps ==
  ASSUME Countable, PiccInv, Picc!BeginBusiness
  PROVE  Sound
<1>1. /\ PiccTyped /\ SessionOK(kept) /\ kept \in SessionType /\ before \in SessionType /\ webPc = "idle"
      /\ ops < MaxOps /\ ops' = ops + 1 /\ webPc' = "first"
      /\ op' \in {"keepalive", "check_quota", "query", "quote"}
      /\ trouble' \in BOOLEAN /\ lapses' \in 0 .. 2 /\ restarted' \in BOOLEAN
      /\ UNCHANGED <<webs, issued, code, before, received, dropped>>
  BY DEF PiccInv, PiccTyped, Picc!BeginBusiness, Picc!platform, Picc!history
<1>2. PICK s : /\ s = kept \/ (kept.st = "waiting" /\ kept.back # NoWord /\ s = Picc!Restored(kept.back))
               /\ Picc!Usable(s) /\ kept' = s
               /\ client' = [web |-> s.web, tok |-> s.tok, cookie |-> s.cookie]
  BY DEF Picc!BeginBusiness
<1>3. s \in SessionType /\ SessionOK(s)
  BY <1>1, <1>2, RestoredOK
<1>4. /\ s.web \in 1 .. Len(webs) /\ s.tok \in 0 .. Len(issued) /\ s.cookie \in 0 .. Len(issued)
      /\ Holds(s.web, s.tok, s.cookie) /\ ~s.pending /\ s.back = NoWord
  BY <1>2, <1>3 DEF SessionType, SessionOK, Picc!Usable
<1>5. PiccTyped'
  <2>1. ops' \in 0 .. MaxOps
    BY <1>1 DEF PiccTyped, Countable
  <2>2. client' \in ClientType
    BY <1>2, <1>4 DEF ClientType
  <2>3. /\ webs' \in Seq(WebType) /\ Len(webs') = Len(webs) /\ dropped' \subseteq 1 .. Len(webs)
        /\ code' \in {NoWord, "right", "wrong", "malformed"}
    BY <1>1 DEF PiccTyped
  <2> QED  BY <1>1, <1>2, <1>3, <2>1, <2>2, <2>3, TypedNext
<1>6. BusinessOK'
  <2>1. Holds(client.web, client.tok, client.cookie)'
    BY <1>1, <1>2, <1>4 DEF Holds, OfWeb
  <2>2. Picc!Usable(kept)'
    BY <1>2 DEF Picc!Usable
  <2>3. /\ client'.web = kept'.web /\ kept'.tok <= client'.tok /\ kept'.tok # 0 /\ OfWeb(kept.web, kept.tok)'
        /\ (kept.cookie # 0 => OfWeb(kept.web, kept.cookie))' /\ ~kept'.pending /\ kept'.back = NoWord
    BY <1>1, <1>2, <1>4 DEF Holds, OfWeb
  <2> QED  BY <1>1, <2>1, <2>2, <2>3 DEF BusinessOK
<1>7. PiccInv'
  BY <1>1, <1>5, <1>6 DEF PiccInv, LogsIn, TakesCode, Business
<1>8. Picc!CodesCount
  BY <1>1 DEF Picc!CodesCount
<1>9. Picc!TokensForward
  <2>1. kept.tok \in Nat
    BY <1>1 DEF SessionType
  <2> QED  BY <1>2, <2>1 DEF Picc!TokensForward, Picc!Usable
<1> QED  BY <1>7, <1>8, <1>9 DEF Sound

\* What is known while an operation is under way.
LEMMA InBusiness ==
  ASSUME PiccInv, webPc \in Business
  PROVE  /\ PiccTyped /\ BusinessOK /\ kept \in SessionType /\ before \in SessionType
         /\ dropped \subseteq 1 .. Len(webs) /\ Len(webs) \in Nat /\ Len(issued) \in Nat
         /\ trouble \in BOOLEAN /\ lapses \in 0 .. 2
         /\ client.web \in 1 .. Len(webs) /\ client.web = kept.web
         /\ Holds(client.web, client.tok, client.cookie) /\ kept.tok <= client.tok
         /\ kept.tok # 0 /\ OfWeb(kept.web, kept.tok) /\ (kept.cookie # 0 => OfWeb(kept.web, kept.cookie))
         /\ op # "challenge" /\ kept.back = NoWord /\ ~kept.pending
<1>1. PiccTyped /\ BusinessOK
  BY DEF PiccInv
<1>2. /\ kept \in SessionType /\ before \in SessionType /\ dropped \subseteq 1 .. Len(webs)
      /\ Len(webs) \in Nat /\ Len(issued) \in Nat /\ trouble \in BOOLEAN /\ lapses \in 0 .. 2
  BY <1>1 DEF PiccTyped
<1>3. kept.web \in 1 .. Len(webs)
  BY <1>2 DEF SessionType
<1> QED  BY <1>1, <1>2, <1>3 DEF BusinessOK

LEMMA RequestKeeps ==
  ASSUME Countable, PiccInv, Picc!Request
  PROVE  Sound
<1> DEFINE next == IF webPc = "second" \/ op = "keepalive" THEN "answered"
                   ELSE IF op = "check_quota" THEN "usage" ELSE "second"
<1>1. /\ PiccTyped /\ BusinessOK /\ kept \in SessionType /\ before \in SessionType /\ webPc # "idle"
      /\ UNCHANGED <<kept, webs, op, code, before, ops, restarted, dropped, lapses, trouble>>
      /\ client.web \in 1 .. Len(webs) /\ Len(webs) \in Nat /\ Len(issued) \in Nat
      /\ Holds(client.web, client.tok, client.cookie) /\ client.web = kept.web /\ Picc!Answered(next)
  <2>1. webPc \in Business /\ webPc # "idle"
    BY DEF Picc!Request, Business
  <2>2. /\ UNCHANGED <<kept, webs, op, code, before, ops, restarted, dropped, lapses, trouble>>
        /\ Picc!Answered(next)
    BY DEF Picc!Request
  <2> QED  BY <2>1, <2>2, InBusiness
<1> HIDE DEF next
<1>2. /\ issued' \in Seq(1 .. Len(webs)) /\ Len(issued') \in 1 .. MaxTokens
      /\ received' \in Seq(0 .. Len(issued')) /\ Len(received') = Len(webs)
      /\ Grows(client.web) /\ received[client.web] <= received'[client.web]
      /\ client' \in [web : 1 .. Len(webs), tok : 1 .. Len(issued'), cookie : 0 .. Len(issued')]
      /\ client'.web = client.web /\ client.tok <= client'.tok
      /\ HoldsNext(client'.web, client'.tok, client'.cookie)
  BY <1>1, AnsweredIs
<1>3. webPc' \in {"answered", "usage", "second"} /\ Len(issued) <= Len(issued') /\ Len(issued') \in Nat
  BY <1>1, <1>2 DEF Picc!Answered, Grows, next, Countable
<1>4. PiccTyped'
  <2>1. client' \in ClientType'
    BY <1>1, <1>2 DEF ClientType
  <2>2. kept' \in SessionType' /\ before' \in SessionType'
    BY <1>1, <1>3 DEF SessionType, AsideType
  <2>3. /\ webs' \in Seq(WebType) /\ Len(webs') \in 1 .. MaxWebs
        /\ dropped' \subseteq 1 .. Len(webs') /\ ops' \in 0 .. MaxOps
        /\ op' \in {NoWord, "login", "challenge", "keepalive", "check_quota", "query", "quote"}
        /\ code' \in {NoWord, "right", "wrong", "malformed"} /\ restarted' \in BOOLEAN
        /\ trouble' \in BOOLEAN /\ lapses' \in 0 .. 2
    BY <1>1 DEF PiccTyped
  <2> QED  BY <1>1, <1>2, <2>1, <2>2, <2>3 DEF PiccTyped
<1>5. BusinessOK'
  <2>1. Holds(client.web, client.tok, client.cookie)'
    BY <1>2 DEF HoldsNext, Holds, OfWeb
  <2>2. /\ kept.tok \in 1 .. Len(issued) /\ kept.cookie \in 0 .. Len(issued) /\ kept.tok <= client.tok
        /\ OfWeb(kept.web, kept.tok) /\ (kept.cookie # 0 => OfWeb(kept.web, kept.cookie))
        /\ client.tok \in Nat
    <3>1. /\ kept.tok \in 0 .. Len(issued) /\ kept.cookie \in 0 .. Len(issued)
          /\ client.tok \in 0 .. Len(issued)
      BY <1>1 DEF SessionType, ClientType, PiccTyped
    <3>2. /\ kept.tok # 0 /\ kept.tok <= client.tok /\ OfWeb(kept.web, kept.tok)
          /\ (kept.cookie # 0 => OfWeb(kept.web, kept.cookie))
      BY <1>1 DEF BusinessOK
    <3> QED  BY <1>1, <3>1, <3>2
  <2>3. received[kept.web] \in Nat /\ received'[kept.web] \in Nat /\ received[kept.web] <= received'[kept.web]
    <3>1. /\ received \in Seq(0 .. Len(issued)) /\ Len(received) = Len(webs)
          /\ kept.web \in 1 .. Len(received) /\ kept.web \in 1 .. Len(received')
      BY <1>1, <1>2 DEF PiccTyped
    <3>2. received[kept.web] \in 0 .. Len(issued)
      BY <3>1, ElementOfSeq
    <3>3. received'[kept.web] \in 0 .. Len(issued')
      BY <1>2, <3>1, ElementOfSeq
    <3>4. received[kept.web] <= received'[kept.web]
      BY <1>1, <1>2
    <3> QED  BY <1>1, <1>3, <3>2, <3>3, <3>4
  <2>4. OfWeb(kept.web, kept.tok)' /\ (kept.cookie # 0 => OfWeb(kept.web, kept.cookie))'
    <3>1. issued'[kept.tok] = kept.web /\ (kept.cookie # 0 => issued'[kept.cookie] = kept.web)
      <4>1. \A t \in 1 .. Len(issued) : issued'[t] = issued[t]
        BY <1>2 DEF Grows
      <4>2. issued[kept.tok] = kept.web /\ (kept.cookie # 0 => issued[kept.cookie] = kept.web)
        BY <2>2 DEF OfWeb
      <4>3. kept.cookie # 0 => kept.cookie \in 1 .. Len(issued)
        BY <1>1, <2>2
      <4> QED  BY <2>2, <4>1, <4>2, <4>3
    <3>2. kept.tok <= received'[kept.web] /\ (kept.cookie # 0 => kept.cookie <= received'[kept.web])
      <4>1. kept.tok \in Nat /\ kept.cookie \in Nat
        BY <1>1, <2>2
      <4>2. kept.tok <= received[kept.web] /\ (kept.cookie # 0 => kept.cookie <= received[kept.web])
        BY <2>2 DEF OfWeb
      <4> QED  BY <2>3, <4>1, <4>2
    <3> QED  BY <1>1, <3>1, <3>2 DEF OfWeb
  <2>5. kept'.tok <= client'.tok
    BY <1>1, <1>2, <1>3, <2>2
  <2>6. Picc!Usable(kept)'
    BY <1>1 DEF BusinessOK, Picc!Usable
  <2> QED  BY <1>1, <1>2, <2>1, <2>2, <2>4, <2>5, <2>6 DEF BusinessOK
<1>6. PiccInv'
  BY <1>3, <1>4, <1>5 DEF PiccInv, LogsIn, TakesCode, Business
<1>7. Picc!CodesCount
  BY <1>3 DEF Picc!CodesCount
<1>8. Picc!TokensForward
  <2>1. kept.tok \in Nat
    BY <1>1 DEF SessionType
  <2> QED  BY <1>1, <2>1 DEF Picc!TokensForward
<1> QED  BY <1>6, <1>7, <1>8 DEF Sound

\* An operation ends: with what its client captured, or with what was kept before it.
LEMMA KeepsSound ==
  ASSUME PiccInv, webPc \in Business, Picc!Idle, UNCHANGED <<webs, issued, before, ops>>,
         NEW st \in {"authenticated", "degraded"}, Picc!Keeps(st)
  PROVE  Sound
<1>1. /\ PiccTyped /\ BusinessOK /\ kept \in SessionType /\ UNCHANGED <<received, lapses, trouble>>
      /\ trouble' \in BOOLEAN /\ lapses' \in 0 .. 2 /\ dropped \subseteq 1 .. Len(webs)
      /\ client.web \in 1 .. Len(webs) /\ client.web = kept.web
      /\ Holds(client.web, client.tok, client.cookie) /\ kept.tok <= client.tok
      /\ op # "challenge" /\ kept.back = NoWord /\ ~kept.pending
  <2>1. UNCHANGED <<received, lapses, trouble>>
    BY DEF Picc!Keeps
  <2> QED  BY <2>1, InBusiness
<1> DEFINE c == Picc!Captured(client)
<1>2. /\ c.web = client.web /\ c.tok \in 1 .. Len(issued) /\ c.cookie \in 0 .. Len(issued)
      /\ client.tok <= c.tok /\ OfWeb(c.web, c.tok) /\ (c.cookie # 0 => OfWeb(c.web, c.cookie))
      /\ client.tok = received[client.web] => c.tok = received[c.web]
  BY <1>1, SnapshotIs
<1>3. /\ kept' = [kept EXCEPT !.st = st, !.tok = c.tok, !.cookie = c.cookie]
      /\ dropped' = IF c.tok >= received[c.web] THEN dropped \ {c.web} ELSE dropped
  BY DEF Picc!Keeps
<1> HIDE DEF c
<1>4. Len(issued) \in Nat /\ client.tok \in Nat /\ kept.tok \in Nat /\ received[client.web] \in Nat
  <2>1. received \in Seq(0 .. Len(issued)) /\ client.web \in 1 .. Len(received)
    BY <1>1 DEF PiccTyped
  <2>2. received[client.web] \in 0 .. Len(issued)
    BY <2>1, ElementOfSeq
  <2> QED  BY <1>1, <2>2 DEF PiccTyped, ClientType, SessionType
<1>5. /\ kept' \in SessionType /\ kept'.st = st /\ kept'.web = c.web /\ kept'.tok = c.tok
      /\ kept'.cookie = c.cookie /\ ~kept'.pending /\ kept'.back = NoWord
  <2>1. c.tok \in 0 .. Len(issued)
    BY <1>2, <1>4
  <2> QED  BY <1>1, <1>2, <1>3, <2>1 DEF SessionType
<1>6. c.web \notin dropped' => c.tok = received'[c.web]
  <2>1. c.web \notin dropped => client.tok = received[client.web]
    BY <1>1, <1>2 DEF Holds
  <2>2. c.tok <= received[c.web]
    BY <1>2 DEF OfWeb
  <2> QED  BY <1>1, <1>2, <1>3, <1>4, <2>1, <2>2
<1>7. HoldsNext(c.web, c.tok, c.cookie)
  BY <1>1, <1>2, <1>4, <1>6 DEF HoldsNext, Holds, OfWeb
<1>8. SessionNext(kept') /\ NewestAsked(kept')
  BY <1>5, <1>7 DEF SessionNext, NewestAsked
<1>9. PiccInv'
  <2>1. dropped' \subseteq 1 .. Len(webs) /\ webs' \in Seq(WebType) /\ Len(webs') = Len(webs)
    BY <1>1, <1>3 DEF PiccTyped
  <2> QED  BY <1>1, <1>5, <1>8, <2>1, EndsKeep
<1>10. Picc!CodesCount
  BY <1>1 DEF Picc!CodesCount
<1>11. Picc!TokensForward
  BY <1>1, <1>2, <1>4, <1>5 DEF Picc!TokensForward
<1> QED  BY <1>9, <1>10, <1>11 DEF Sound

LEMMA ForgetsSound ==
  ASSUME PiccInv, webPc \in Business, Picc!Idle, UNCHANGED <<webs, issued, before, ops>>,
         NEW st \in {"authenticated", "degraded", "expired"}, Picc!Forgets(st)
  PROVE  Sound
<1>1. /\ PiccTyped /\ BusinessOK /\ kept \in SessionType /\ UNCHANGED <<received, lapses, trouble>>
      /\ trouble' \in BOOLEAN /\ lapses' \in 0 .. 2 /\ dropped \subseteq 1 .. Len(webs)
      /\ client.web \in 1 .. Len(webs) /\ client.web = kept.web
      /\ Holds(client.web, client.tok, client.cookie)
      /\ kept.tok # 0 /\ OfWeb(kept.web, kept.tok) /\ (kept.cookie # 0 => OfWeb(kept.web, kept.cookie))
      /\ op # "challenge" /\ kept.back = NoWord /\ ~kept.pending
      /\ kept' = [kept EXCEPT !.st = st]
      /\ dropped' = IF received[client.web] > kept.tok THEN dropped \cup {client.web} ELSE dropped
  <2>1. UNCHANGED <<received, lapses, trouble>>
    BY DEF Picc!Forgets
  <2>2. /\ kept' = [kept EXCEPT !.st = st]
        /\ dropped' = IF received[client.web] > kept.tok THEN dropped \cup {client.web} ELSE dropped
    BY DEF Picc!Forgets
  <2> QED  BY <2>1, <2>2, InBusiness
<1>2. kept.tok \in Nat /\ received[client.web] \in Nat
  <2>1. received \in Seq(0 .. Len(issued)) /\ client.web \in 1 .. Len(received) /\ Len(issued) \in Nat
    BY <1>1 DEF PiccTyped
  <2>2. received[client.web] \in 0 .. Len(issued)
    BY <2>1, ElementOfSeq
  <2> QED  BY <1>1, <2>1, <2>2 DEF SessionType
<1>3. /\ kept' \in SessionType /\ kept'.st = st /\ kept'.web = kept.web /\ kept'.tok = kept.tok
      /\ kept'.cookie = kept.cookie /\ ~kept'.pending /\ kept'.back = NoWord
  BY <1>1 DEF SessionType
<1>4. kept.web \notin dropped' => kept.tok = received'[kept.web]
  BY <1>1, <1>2 DEF OfWeb
<1>5. HoldsNext(kept.web, kept.tok, kept.cookie)
  BY <1>1, <1>4 DEF HoldsNext, Holds, OfWeb
<1>6. SessionNext(kept') /\ NewestAsked(kept')
  BY <1>3, <1>5 DEF SessionNext, NewestAsked
<1>7. PiccInv'
  <2>1. dropped' \subseteq 1 .. Len(webs) /\ webs' \in Seq(WebType) /\ Len(webs') = Len(webs)
    BY <1>1 DEF PiccTyped
  <2> QED  BY <1>1, <1>3, <1>6, <2>1, EndsKeep
<1>8. Picc!CodesCount
  BY <1>1 DEF Picc!CodesCount
<1>9. Picc!TokensForward
  BY <1>2, <1>3 DEF Picc!TokensForward
<1> QED  BY <1>7, <1>8, <1>9 DEF Sound

LEMMA RequestFailsKeeps ==
  ASSUME PiccInv, Picc!RequestFails
  PROVE  Sound
<1>1. webPc \in Business /\ Picc!Idle /\ UNCHANGED <<webs, issued, before, ops>>
  BY DEF Picc!RequestFails, Picc!platform, Business
<1>2. Picc!Unsuccessful \in {"authenticated", "degraded"}
  BY DEF Picc!Unsuccessful
<1>3. CASE Picc!Forgets("expired") \/ Picc!Forgets(Picc!Unsuccessful)
  BY <1>1, <1>2, <1>3, ForgetsSound
<1>4. CASE Picc!Keeps("authenticated")
  BY <1>1, <1>4, KeepsSound
<1> QED  BY <1>3, <1>4 DEF Picc!RequestFails

LEMMA RefusedKeeps ==
  ASSUME PiccInv, Picc!Refused
  PROVE  Sound
<1>1. Picc!Unsuccessful \in {"authenticated", "degraded"}
  BY DEF Picc!Unsuccessful
<1> QED  BY <1>1, KeepsSound DEF Picc!Refused, Picc!platform, Business

LEMMA KeepBusinessKeeps ==
  ASSUME PiccInv, Picc!KeepBusiness
  PROVE  Sound
  BY KeepsSound DEF Picc!KeepBusiness, Picc!platform, Business

\* The check of the quota: what the second client received is thrown away.
LEMMA UsageKeeps ==
  ASSUME Countable, PiccInv, Picc!Usage
  PROVE  Sound
<1> DEFINE w == client.web
           c == Picc!Captured(client)
<1>1. /\ PiccTyped /\ BusinessOK /\ kept \in SessionType /\ before \in SessionType
      /\ UNCHANGED <<webs, before, ops, lapses, trouble>>
      /\ trouble' \in BOOLEAN /\ lapses' \in 0 .. 2 /\ dropped \subseteq 1 .. Len(webs)
      /\ w \in 1 .. Len(webs) /\ client.web = kept.web /\ Len(webs) \in Nat /\ Len(issued) \in Nat
      /\ Holds(client.web, client.tok, client.cookie) /\ kept.tok <= client.tok
      /\ op # "challenge" /\ kept.back = NoWord /\ ~kept.pending /\ Picc!Idle
  <2>1. /\ webPc \in Business /\ UNCHANGED <<webs, before, ops, lapses, trouble>> /\ Picc!Idle
    BY DEF Picc!Usage, Business
  <2> QED  BY <2>1, InBusiness
<1> DEFINE Mine(toks) == {0} \cup {u \in DOMAIN toks : toks[u] = w}
           Ends(t) ==
             /\ received' = [received EXCEPT ![w] = Picc!Max({received[w], t})]
             /\ kept' = [kept EXCEPT !.st = "authenticated", !.tok = c.tok, !.cookie = c.cookie]
             /\ dropped' = IF t > received[w] THEN dropped \cup {w}
                           ELSE IF c.tok >= received[c.web] THEN dropped \ {c.web} ELSE dropped
<1>a. PICK some \in Picc!Issue(w) : issued' = some /\ \E t \in Mine(some) : Ends(t)
  BY DEF Picc!Usage
<1>b. PICK t \in Mine(some) : Ends(t)
  BY <1>a
<1>2. /\ received' = [received EXCEPT ![w] = Picc!Max({received[w], t})]
      /\ kept' = [kept EXCEPT !.st = "authenticated", !.tok = c.tok, !.cookie = c.cookie]
      /\ dropped' = IF t > received[w] THEN dropped \cup {w}
                    ELSE IF c.tok >= received[c.web] THEN dropped \ {c.web} ELSE dropped
      /\ some \in Picc!Issue(w) /\ issued' = some
  BY <1>a, <1>b
<1>3. /\ some \in Seq(1 .. Len(webs)) /\ Len(some) \in 1 .. MaxTokens /\ Len(issued) <= Len(some)
      /\ DOMAIN some = 1 .. Len(some) /\ \A u \in 1 .. Len(issued) : some[u] = issued[u]
  BY <1>1, IssueGrows
<1>4. t \in 0 .. Len(issued') /\ Len(issued') \in Nat /\ t \in Nat
  BY <1>2, <1>3 DEF Countable
<1>5. /\ c.web = w /\ c.tok \in 1 .. Len(issued) /\ c.cookie \in 0 .. Len(issued)
      /\ client.tok <= c.tok /\ OfWeb(c.web, c.tok) /\ (c.cookie # 0 => OfWeb(c.web, c.cookie))
      /\ client.tok = received[client.web] => c.tok = received[c.web]
  BY <1>1, SnapshotIs
<1> HIDE DEF Ends, c
<1>6. /\ received \in Seq(0 .. Len(issued)) /\ Len(received) = Len(webs) /\ received[w] \in 0 .. Len(issued)
      /\ kept.tok \in Nat /\ client.tok \in Nat
  <2>1. received \in Seq(0 .. Len(issued)) /\ Len(received) = Len(webs) /\ w \in 1 .. Len(received)
    BY <1>1 DEF PiccTyped
  <2>2. received[w] \in 0 .. Len(issued)
    BY <2>1, ElementOfSeq
  <2>3. kept.tok \in Nat /\ client.tok \in Nat
    BY <1>1 DEF PiccTyped, ClientType, SessionType
  <2> QED  BY <2>1, <2>2, <2>3
<1> DEFINE newest == IF received[w] >= t THEN received[w] ELSE t
<1>7. /\ received' \in Seq(0 .. Len(issued')) /\ Len(received') = Len(webs) /\ received'[w] = newest
      /\ \A v \in 1 .. Len(webs) : v # w => received'[v] = received[v]
  <2>1. received' = [received EXCEPT ![w] = newest]
    <3>1. received[w] \in Nat /\ t \in Nat
      BY <1>1, <1>4, <1>6
    <3>2. Picc!Max({received[w], t}) = newest
      BY <3>1, Greatest
    <3> QED  BY <1>2, <3>2
  <2>2. received \in Seq(0 .. Len(issued')) /\ newest \in 0 .. Len(issued')
    <3>1. Len(issued) <= Len(issued')
      BY <1>2, <1>3
    <3>2. 0 .. Len(issued) \subseteq 0 .. Len(issued')
      BY <1>1, <1>4, <3>1
    <3>3. received \in Seq(0 .. Len(issued'))
      BY <1>6, <3>2, SeqWider
    <3> QED  BY <1>4, <1>6, <3>2, <3>3
  <2> HIDE DEF newest
  <2> QED  BY <1>1, <1>6, <2>1, <2>2, ExceptSeq
<1>8. /\ kept'.st = "authenticated" /\ kept'.web = w /\ kept'.tok = c.tok
      /\ kept'.cookie = c.cookie /\ ~kept'.pending /\ kept'.back = NoWord
  BY <1>1, <1>2 DEF SessionType
<1>9. SessionOK(kept)' /\ NewestAsked(kept)'
  <2>1. issued'[c.tok] = w /\ (c.cookie # 0 => issued'[c.cookie] = w)
    <3>1. c.cookie # 0 => c.cookie \in 1 .. Len(issued)
      BY <1>1, <1>5
    <3> QED  BY <1>2, <1>3, <1>5, <3>1 DEF OfWeb
  <2>2. c.tok <= received[w] /\ (c.cookie # 0 => c.cookie <= received[w])
    BY <1>5 DEF OfWeb
  <2>3. c.tok <= received'[w] /\ (c.cookie # 0 => c.cookie <= received'[w])
    <3>1. received[w] <= received'[w] /\ received[w] \in Nat /\ received'[w] \in Nat
      BY <1>4, <1>6, <1>7
    <3>2. c.tok \in Nat /\ c.cookie \in Nat
      BY <1>1, <1>5
    <3> QED  BY <2>2, <3>1, <3>2
  <2>4. w \notin dropped' => c.tok = received'[w]
    <3>1. SUFFICES ASSUME w \notin dropped' PROVE c.tok = received'[w]
      OBVIOUS
    <3>2. ~(t > received[w])
      BY <1>2, <3>1
    <3>3. received'[w] = received[w]
      BY <1>4, <1>6, <1>7, <3>2
    <3>4. CASE c.tok >= received[w]
      BY <1>1, <1>5, <1>6, <2>2, <3>3, <3>4
    <3>5. CASE ~(c.tok >= received[w])
      <4>1. w \notin dropped
        BY <1>2, <1>5, <3>1, <3>2, <3>5
      <4> QED  BY <1>1, <1>5, <3>3, <4>1 DEF Holds
    <3> QED  BY <3>4, <3>5
  <2>5. Holds(kept.web, kept.tok, kept.cookie)'
    <3>1. webs'[w].logged /\ c.tok # 0
      BY <1>1, <1>5 DEF Holds
    <3> QED  BY <1>8, <2>1, <2>3, <2>4, <3>1 DEF Holds, OfWeb
  <2> QED  BY <1>8, <2>5 DEF SessionOK, NewestAsked
<1>10. PiccTyped'
  <2>1. Len(issued) <= Len(issued') /\ Len(webs') = Len(webs)
    BY <1>1, <1>2, <1>3
  <2>2. before' \in SessionType'
    BY <1>1, <1>4, <2>1 DEF SessionType, AsideType
  <2>3. kept' \in SessionType'
    <3>1. kept \in SessionType'
      BY <1>1, <1>4, <2>1 DEF SessionType, AsideType
    <3>2. c.tok \in 0 .. Len(issued') /\ c.cookie \in 0 .. Len(issued')
      BY <1>1, <1>4, <1>5, <2>1
    <3> QED  BY <1>2, <3>1, <3>2 DEF SessionType
  <2>4. client' \in ClientType' /\ op' = NoWord /\ code' = NoWord
    <3>1. client' = [web |-> 0, tok |-> 0, cookie |-> 0] /\ op' = NoWord /\ code' = NoWord
      BY <1>1 DEF Picc!Idle, Picc!Nobody
    <3>2. 0 \in 0 .. Len(webs') /\ 0 \in 0 .. Len(issued')
      BY <1>1, <1>4
    <3> QED  BY <3>1, <3>2 DEF ClientType
  <2>5. restarted' \in BOOLEAN
    BY <1>1, Zenon DEF Picc!Idle
  <2>6. dropped' \subseteq 1 .. Len(webs')
    BY <1>1, <1>2, <1>5
  <2>7. /\ webs' \in Seq(WebType) /\ Len(webs') \in 1 .. MaxWebs /\ ops' \in 0 .. MaxOps
    BY <1>1 DEF PiccTyped
  <2>8. issued' \in Seq(1 .. Len(webs')) /\ Len(issued') \in 1 .. MaxTokens
    BY <1>1, <1>2, <1>3
  <2> QED  BY <1>1, <1>7, <2>1, <2>2, <2>3, <2>4, <2>5, <2>6, <2>7, <2>8 DEF PiccTyped
<1>11. PiccInv'
  BY <1>1, <1>9, <1>10 DEF PiccInv, LogsIn, TakesCode, Business, Picc!Idle
<1>12. Picc!CodesCount
  BY <1>1 DEF Picc!CodesCount
<1>13. Picc!TokensForward
  BY <1>1, <1>5, <1>6, <1>8 DEF Picc!TokensForward
<1> QED  BY <1>11, <1>12, <1>13 DEF Sound

LEMMA SlideLapsesKeeps ==
  ASSUME PiccInv, Picc!SlideLapses
  PROVE  Sound
<1>1. /\ PiccTyped /\ SessionOK(kept) /\ webPc \in {"precheck", "idle"} /\ kept' = kept /\ webPc' = webPc
      /\ UNCHANGED <<kept, issued, op, code, client, before, ops, restarted, received, dropped, lapses, trouble>>
      /\ trouble' \in BOOLEAN /\ lapses' \in 0 .. 2 /\ restarted' \in BOOLEAN /\ DOMAIN webs = 1 .. Len(webs)
  BY DEF PiccInv, PiccTyped, Picc!SlideLapses, Picc!history, CodeOK, TakesCode
<1>2. PICK w \in 1 .. Len(webs) : webs' = [webs EXCEPT ![w].slide = FALSE]
  BY <1>1 DEF Picc!SlideLapses
<1>3. Slides
  BY <1>1, <1>2, SlideSet
<1>4. CASE webPc = "precheck"
  <2>1. lapses' <= 1
    BY <1>1, <1>4 DEF PiccInv, TakesCode, CodeOK
  <2> QED  BY <1>1, <1>3, <1>4, <2>1, CodeMoves
<1>5. CASE webPc = "idle"
  <2>1. PiccTyped' /\ SessionOK(kept)' /\ NewestAsked(kept)' /\ Picc!TokensForward
    BY <1>1, <1>3, <1>5, KeptMeanwhile DEF PiccInv
  <2>2. PiccInv'
    BY <1>1, <1>5, <2>1 DEF PiccInv, LogsIn, TakesCode, Business
  <2>3. Picc!CodesCount
    BY <1>5 DEF Picc!CodesCount
  <2> QED  BY <2>1, <2>2, <2>3 DEF Sound
<1> QED  BY <1>1, <1>4, <1>5

LEMMA PiccStutters ==
  ASSUME PiccInv, UNCHANGED Picc!vars
  PROVE  Sound
<1>1. UNCHANGED <<kept, webs, issued, op, code, webPc, client, before, ops, restarted, received, dropped, lapses, trouble>>
  BY DEF Picc!vars
<1>2. Slides /\ PiccTyped /\ kept \in SessionType
  BY <1>1, NoSlides DEF PiccInv, PiccTyped
<1>3. PiccTyped'
  BY <1>1, <1>2 DEF PiccTyped, SessionType, AsideType, ClientType, WebType
<1>4. PiccInv'
  BY <1>1, <1>3 DEF PiccInv, SessionOK, NewestAsked, LoginOK, CodeOK, BusinessOK, Holds, OfWeb, Picc!Usable
<1>5. Picc!CodesCount
  BY <1>1 DEF Picc!CodesCount
<1>6. Picc!TokensForward
  BY <1>1, <1>2 DEF Picc!TokensForward, SessionType
<1> QED  BY <1>4, <1>5, <1>6 DEF Sound

LEMMA PiccSteps ==
  ASSUME Countable, PiccInv, [Picc!Next]_(Picc!vars)
  PROVE  Sound
<1>1. CASE \/ Picc!BeginLogin \/ Picc!BeginWeb \/ Picc!SolveToAsk \/ Picc!BeginChallenge
           \/ Picc!CheckForm \/ Picc!SolveToSend \/ Picc!Precheck
  BY <1>1, BeginLoginKeeps, BeginWebKeeps, SolveToAskKeeps, BeginChallengeKeeps,
     CheckFormKeeps, SolveToSendKeeps, PrecheckKeeps
<1>2. CASE Picc!FormalLogin \/ Picc!Validate \/ Picc!KeepLogin
  BY <1>2, FormalLoginKeeps, ValidateKeeps, KeepLoginKeeps
<1>3. CASE \/ Picc!BeginBusiness \/ Picc!Request \/ Picc!RequestFails \/ Picc!Refused
           \/ Picc!Usage \/ Picc!KeepBusiness
  BY <1>3, BeginBusinessKeeps, RequestKeeps, RequestFailsKeeps, RefusedKeeps, UsageKeeps, KeepBusinessKeeps
<1>4. CASE Picc!SlideLapses
  BY <1>4, SlideLapsesKeeps
<1>5. CASE UNCHANGED Picc!vars
  BY <1>5, PiccStutters
<1> QED  BY <1>1, <1>2, <1>3, <1>4, <1>5 DEF Picc!Next

LEMMA PiccStarts ==
  ASSUME Countable, Picc!Init
  PROVE  PiccInv
<1>1. PICK st \in {"none", "authenticated", "waiting"} :
        kept = [st |-> st, web |-> 1, tok |-> IF st = "waiting" THEN 0 ELSE 1,
                cookie |-> IF st = "waiting" THEN 0 ELSE 1, pending |-> FALSE, back |-> NoWord]
  BY DEF Picc!Init
<1>2. /\ webs = <<[slide |-> FALSE, logged |-> TRUE]>> /\ issued = <<1>> /\ received = <<kept.tok>>
      /\ op = NoWord /\ code = NoWord /\ webPc = "idle" /\ client = [web |-> 0, tok |-> 0, cookie |-> 0]
      /\ before = kept /\ ops = 0 /\ dropped = {} /\ lapses = 0 /\ trouble = FALSE /\ restarted = FALSE
  BY DEF Picc!Init, Picc!Nobody
<1>3. Len(webs) = 1 /\ Len(issued) = 1 /\ Len(received) = 1
  BY <1>2
<1>4. restarted \in BOOLEAN /\ trouble \in BOOLEAN
  BY <1>2, Zenon
<1>5. kept.tok \in 0 .. 1 /\ kept \in SessionType
  BY <1>1, <1>3 DEF SessionType
<1>6. client \in ClientType
  BY <1>2, <1>3 DEF ClientType
<1>7. webs \in Seq(WebType) /\ issued \in Seq(1 .. Len(webs)) /\ received \in Seq(0 .. Len(issued))
  BY <1>2, <1>3, <1>5 DEF WebType
<1>8. PiccTyped
  BY <1>2, <1>3, <1>4, <1>5, <1>6, <1>7 DEF PiccTyped, Countable
<1>9. SessionOK(kept) /\ NewestAsked(kept)
  BY <1>1, <1>2, <1>3 DEF SessionOK, NewestAsked, Holds, OfWeb, Picc!Usable
<1> QED  BY <1>2, <1>8, <1>9 DEF PiccInv, LogsIn, TakesCode, Business

LEMMA PiccInvIsTyped ==
  ASSUME Countable, PiccInv
  PROVE  Picc!TypeOK /\ Picc!KeptIsTrue
<1>1. PiccTyped /\ Len(webs) \in 1 .. MaxWebs /\ Len(issued) \in 1 .. MaxTokens
  BY DEF PiccInv, PiccTyped
<1>2. kept \in SessionType /\ before \in SessionType /\ client \in ClientType
  BY <1>1 DEF PiccTyped
<1>3. SessionType \subseteq Picc!Sessions
  <2> SUFFICES ASSUME NEW s \in SessionType PROVE s \in Picc!Sessions
    OBVIOUS
  <2>1. s.web \in 1 .. MaxWebs /\ s.tok \in 0 .. MaxTokens /\ s.cookie \in 0 .. MaxTokens
    BY <1>1 DEF SessionType, Countable
  <2>2. s.back # NoWord => s.back \in [web : 1 .. MaxWebs, tok : 1 .. MaxTokens, cookie : 0 .. MaxTokens]
    BY <1>1 DEF SessionType, AsideType, Countable
  <2> QED  BY <2>1, <2>2 DEF SessionType, Picc!Sessions
<1>4. Picc!TypeOK
  <2>1. /\ DOMAIN webs = 1 .. Len(webs) /\ DOMAIN issued = 1 .. Len(issued) /\ DOMAIN received = DOMAIN webs
        /\ \A w \in DOMAIN webs : webs[w] \in [slide : BOOLEAN, logged : BOOLEAN]
        /\ \A t \in DOMAIN issued : issued[t] \in DOMAIN webs
    <3>1. /\ webs \in Seq(WebType) /\ issued \in Seq(1 .. Len(webs)) /\ received \in Seq(0 .. Len(issued))
          /\ Len(received) = Len(webs)
      BY <1>1 DEF PiccTyped
    <3>2. \A w \in 1 .. Len(webs) : webs[w] \in WebType
      BY <3>1, ElementOfSeq
    <3>3. \A t \in 1 .. Len(issued) : issued[t] \in 1 .. Len(webs)
      BY <3>1, ElementOfSeq
    <3>4. DOMAIN webs = 1 .. Len(webs) /\ DOMAIN issued = 1 .. Len(issued) /\ DOMAIN received = 1 .. Len(received)
      BY <3>1
    <3> QED  BY <3>1, <3>2, <3>3, <3>4 DEF WebType
  <2>2. received \in [DOMAIN webs -> 0 .. Len(issued)]
    BY <1>1, <2>1 DEF PiccTyped
  <2>3. client.web \in 0 .. Len(webs) /\ client.tok \in 0 .. Len(issued) /\ client.cookie \in 0 .. Len(issued)
    BY <1>2 DEF ClientType
  <2> QED  BY <1>1, <1>2, <1>3, <2>1, <2>2, <2>3 DEF PiccTyped, Picc!TypeOK
<1>5. Picc!KeptIsTrue
  BY DEF PiccInv, SessionOK, NewestAsked, Holds, OfWeb, Picc!KeptIsTrue
<1> QED  BY <1>4, <1>5

(* What is kept of an account's session at PICC is true, a code counts for what it is, and  *)
(* tokens go forward, however many web sessions and tokens there are: every conjunct of     *)
(* SessionSound of PiccLogin, and what its variables range over.                            *)
THEOREM PiccSessionsStayTrue ==
  Countable => (Picc!Spec => [](Picc!TypeOK /\ Picc!KeptIsTrue) /\ Picc!SessionSound)
<1>1. SUFFICES ASSUME Countable PROVE Picc!Spec => [](Picc!TypeOK /\ Picc!KeptIsTrue) /\ Picc!SessionSound
  OBVIOUS
<1>2. Picc!Init => PiccInv
  BY <1>1, PiccStarts
<1>3. PiccInv /\ [Picc!Next]_(Picc!vars) => PiccInv' /\ Picc!CodesCount /\ Picc!TokensForward
  BY <1>1, PiccSteps DEF Sound
<1>4. PiccInv => Picc!TypeOK /\ Picc!KeptIsTrue
  BY <1>1, PiccInvIsTyped
<1> QED  BY <1>2, <1>3, <1>4, PTL DEF Picc!Spec, Picc!SessionSound
=============================================================================
