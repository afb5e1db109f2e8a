---------------------------- MODULE OrderOcrProofs ----------------------------
(***************************************************************************)
(* Type correctness of OrderOcr, and what its locks and claims are for:    *)
(* the projection follows the data of its order, a task is worked on by    *)
(* one run and new images are read in the end.  At the end, the theorems   *)
(* on the money of an order (OrderMoney) and the papers bound to one       *)
(* (OrderImages), which share no state with it.                            *)
(***************************************************************************)
EXTENDS OrderOcr, FiniteSetTheorems, SequenceTheorems, WellFoundedInduction, TLAPS

RunPcs == {"idle", "claim", "load", "recognise", "check", "save", "finish"}
Statuses == {"pending", "processing"} \cup Ended

RunStates == [pc : RunPcs, task : {0} \cup TaskIds, ver : Versions, seen : Data,
              held : Statuses, found : SUBSET Fields, result : Ended]

OrdersOK ==
  /\ layout \in Layouts /\ created \in SUBSET Orders
  /\ images \in [Orders -> Images]
  /\ data \in [Orders -> Data] /\ fact \in [Orders -> Data]
  /\ wanted \in [Orders -> Versions] /\ scanned \in [Orders -> Versions]
  /\ excused \in SUBSET Orders /\ dated \in SUBSET Orders

\* Tasks are never taken back, and an order has one active task (the unique index).
TasksOK ==
  /\ tasks \in Seq(Task)
  /\ \A t \in DOMAIN tasks : tasks[t].order \in created
  /\ \A t, u \in DOMAIN tasks :
       tasks[t].active /\ tasks[u].active /\ tasks[t].order = tasks[u].order => t = u

\* A request adds at most one task and one version of the images.
CountsOK ==
  /\ served \in SUBSET Requests
  /\ Len(tasks) <= Cardinality(served)
  /\ \A o \in Orders : images[o].ver <= Cardinality(served)
  /\ \A o \in Orders : Readable(images[o]) => images[o].ver # 0

ViewsOK ==
  /\ view = [q \in Requests |-> view[q]]
  /\ \A q \in Requests : view[q] # NoView =>
       /\ q \notin served
       /\ view[q].order \in created
       /\ view[q].data \in Data /\ view[q].images \in Images
       /\ view[q].tasks \in Seq(Task) /\ Len(view[q].tasks) <= Len(tasks)

QueuesOK ==
  /\ bg \in [Procs -> SUBSET (DOMAIN tasks)]
  /\ poll \in [Procs -> [pc : {"top", "activate", "run"}, batch : SUBSET (DOMAIN tasks)]]

RunsOK ==
  /\ run \in [Runs -> RunStates]
  /\ \A w \in Runs : run[w].pc # "idle" => run[w].task \in DOMAIN tasks
  /\ \A w \in Runs : run[w].pc \in Reading => run[w].ver # 0

\* A worker that runs under the key owns it, unless the key has been forgotten meanwhile.
LockOK ==
  /\ Lock!LockTypeOK
  /\ \A p \in Procs : loop[p] = "in" /\ p \notin lapsed => key = p

TypeInv == OrdersOK /\ TasksOK /\ CountsOK /\ ViewsOK /\ QueuesOK /\ RunsOK /\ LockOK

-----------------------------------------------------------------------------
(* What the helpers do                                                      *)

\* A set of numbers has a lowest one.
LEMMA LowestIn ==
  ASSUME NEW S \in SUBSET Nat, S # {}
  PROVE  Lowest(S) \in S
<1>1. \E x \in S : \A y \in S : ~(<<y, x>> \in OpToRel(<, Nat))
  BY NatLessThanWellFounded, WFMin
<1>2. OpToRel(<, Nat) = {ss \in Nat \X Nat : ss[1] < ss[2]}
  BY Zenon DEF OpToRel
<1>3. \E x \in S : \A y \in S : x <= y
  <2>1. \E x \in S : \A y \in S : ~(<<y, x>> \in {ss \in Nat \X Nat : ss[1] < ss[2]})
    BY <1>1, <1>2, Zenon
  <2>2. PICK x \in S : \A y \in S : ~(<<y, x>> \in {ss \in Nat \X Nat : ss[1] < ss[2]})
    BY <2>1
  <2>3. ASSUME NEW y \in S PROVE x <= y
    <3>1. x \in Nat /\ y \in Nat
      OBVIOUS
    <3>2. y < x => <<y, x>> \in {ss \in Nat \X Nat : ss[1] < ss[2]}
      BY <3>1
    <3> QED
      BY <3>1, <3>2, <2>2
  <2> QED
    BY <2>3
<1> QED
  BY <1>3 DEF Lowest

\* Two elements that must be equal are one.
LEMMA AtMostOne ==
  ASSUME NEW S, \A x, y \in S : x = y
  PROVE  Cardinality(S) <= 1
<1>1. CASE S = {}
  BY <1>1, FS_EmptySet
<1>2. CASE S # {}
  <2>1. PICK x \in S : TRUE
    BY <1>2
  <2>2. S = {x}
    BY <2>1
  <2> QED
    BY <2>2, FS_Singleton
<1> QED
  BY <1>1, <1>2

\* The bounds of the identifiers and of the versions.
LEMMA Counted ==
  ASSUME RequestsServed, OrdersOK, TasksOK, CountsOK
  PROVE  /\ Cardinality(Requests) \in Nat /\ Cardinality(served) \in Nat
         /\ Cardinality(served) <= Cardinality(Requests) /\ IsFiniteSet(served)
         /\ Len(tasks) \in Nat /\ DOMAIN tasks = 1 .. Len(tasks) /\ DOMAIN tasks \subseteq TaskIds
<1>1. /\ Cardinality(Requests) \in Nat /\ IsFiniteSet(served) /\ Cardinality(served) \in Nat
      /\ Cardinality(served) <= Cardinality(Requests)
  BY FS_CardinalityType, FS_Subset DEF RequestsServed, CountsOK
<1>2. Len(tasks) \in Nat /\ DOMAIN tasks = 1 .. Len(tasks)
  BY LenProperties DEF TasksOK
<1> QED
  BY <1>1, <1>2 DEF CountsOK, TaskIds

\* What is typed or recognised is data again.
LEMMA DataTyped ==
  ASSUME NEW old \in Data
  PROVE  /\ NoData \in Data
         /\ [f \in Fields |-> Draft] \in Data
         /\ \A q \in Requests, fields \in SUBSET Fields : Typed(q, old, fields) \in Data
         /\ \A found \in SUBSET Fields, ver \in Versions :
              (ver # 0 => Merged(old, found, ver) \in Data)
  BY DEF Data, NoData, Values, Typed, Merged

\* What becomes of the tasks when a request asks for a recognition.
LEMMA Enqueued ==
  ASSUME RequestsServed, TypeInv, NEW q \in Requests, view[q] # NoView, NEW o,
         NEW after, NEW enqueue, GetOrCreateTask(q, o, after, enqueue)
  PROVE  /\ \/ after = tasks
            \/ \E a \in BOOLEAN : /\ after = Append(tasks, NewTask(o, a))
                                  /\ a => ActiveOf(tasks, o) = {}
         /\ enqueue \subseteq 1 .. Len(after)
<1>1. Len(tasks) \in Nat /\ tasks \in Seq(Task)
  BY Counted DEF TypeInv, TasksOK
<1>2. \A a : Len(Append(tasks, NewTask(o, a))) = Len(tasks) + 1
  BY <1>1
<1>3. \A t \in DOMAIN view[q].tasks : t \in 1 .. Len(tasks)
  <2>1. DOMAIN view[q].tasks = 1 .. Len(view[q].tasks) /\ Len(view[q].tasks) \in Nat
        /\ Len(view[q].tasks) <= Len(tasks)
    BY LenProperties DEF TypeInv, ViewsOK
  <2> QED
    BY <1>1, <2>1
<1>4. ActiveOf(view[q].tasks, o) \subseteq DOMAIN view[q].tasks
  BY DEF ActiveOf
<1>5. \/ ActiveOf(tasks, o) = {} /\ after = Append(tasks, NewTask(o, TRUE)) /\ enqueue = {Len(tasks) + 1}
      \/ after = tasks /\ enqueue = {}
      \/ after = Append(tasks, NewTask(o, FALSE)) /\ enqueue = {}
      \/ after = tasks /\ \E t \in ActiveOf(view[q].tasks, o) : enqueue = {t}
  BY DEF GetOrCreateTask
<1>6. CASE ActiveOf(tasks, o) = {} /\ after = Append(tasks, NewTask(o, TRUE)) /\ enqueue = {Len(tasks) + 1}
  <2>1. TRUE \in BOOLEAN /\ after = Append(tasks, NewTask(o, TRUE)) /\ ActiveOf(tasks, o) = {}
    BY <1>6
  <2>2. Len(after) = Len(tasks) + 1
    BY <1>2, <1>6
  <2>3. enqueue \subseteq 1 .. Len(after)
    BY <2>2, <1>1, <1>6
  <2> QED
    BY <2>1, <2>3
<1>7. CASE after = Append(tasks, NewTask(o, FALSE)) /\ enqueue = {}
  BY <1>7
<1>8. CASE after = tasks /\ \E t \in ActiveOf(view[q].tasks, o) : enqueue = {t}
  BY <1>1, <1>3, <1>4, <1>8
<1> QED
  BY <1>5, <1>6, <1>7, <1>8

\* A task that is added, and one that is changed.
LEMMA Added ==
  ASSUME RequestsServed, TypeInv, NEW o \in created, NEW a \in BOOLEAN,
         a => ActiveOf(tasks, o) = {}, tasks' = Append(tasks, NewTask(o, a)), created' = created
  PROVE  /\ TasksOK'
         /\ Len(tasks') = Len(tasks) + 1
         /\ \A t \in DOMAIN tasks : tasks'[t] = tasks[t]
<1>1. tasks \in Seq(Task) /\ Len(tasks) \in Nat /\ DOMAIN tasks = 1 .. Len(tasks)
  BY Counted DEF TypeInv, TasksOK
<1>2. NewTask(o, a) \in Task
  BY DEF NewTask, Task, TypeInv, OrdersOK
<1>3. /\ tasks' \in Seq(Task) /\ Len(tasks') = Len(tasks) + 1 /\ DOMAIN tasks' = 1 .. Len(tasks) + 1
      /\ tasks'[Len(tasks) + 1] = NewTask(o, a)
      /\ \A t \in DOMAIN tasks : tasks'[t] = tasks[t]
  BY <1>1, <1>2
<1>4. \A t \in DOMAIN tasks' : t \in DOMAIN tasks \/ t = Len(tasks) + 1
  BY <1>1, <1>3
<1>5. \A t \in DOMAIN tasks' : tasks'[t].order \in created
  BY <1>3, <1>4 DEF TypeInv, TasksOK, NewTask
<1>6. ASSUME NEW t \in DOMAIN tasks', NEW u \in DOMAIN tasks', tasks'[t].active, tasks'[u].active,
             tasks'[t].order = tasks'[u].order
      PROVE  t = u
  <2>1. CASE t \in DOMAIN tasks /\ u \in DOMAIN tasks
    BY <1>3, <1>6, <2>1 DEF TypeInv, TasksOK
  <2>2. CASE t \notin DOMAIN tasks /\ u \notin DOMAIN tasks
    BY <1>4, <2>2
  <2>3. ASSUME NEW x \in DOMAIN tasks, tasks'[x].active, tasks'[x].order = o, a PROVE FALSE
    BY <1>3, <2>3 DEF ActiveOf
  <2> QED
    BY <1>3, <1>4, <1>6, <2>1, <2>2, <2>3 DEF NewTask
<1> QED
  BY <1>3, <1>5, <1>6 DEF TasksOK

\* Another status of a task that gives up, but does not take, the active scope.
LEMMA Changed ==
  ASSUME TypeInv, NEW t \in DOMAIN tasks, NEW s \in Statuses, NEW a \in BOOLEAN, a => tasks[t].active,
         tasks' = [tasks EXCEPT ![t] = [@ EXCEPT !.status = s, !.active = a]], created' = created
  PROVE  /\ TasksOK' /\ Len(tasks') = Len(tasks) /\ DOMAIN tasks' = DOMAIN tasks
         /\ \A u \in DOMAIN tasks \ {t} : tasks'[u] = tasks[u]
         /\ tasks'[t].order = tasks[t].order /\ tasks'[t].status = s /\ tasks'[t].active = a
<1>1. tasks \in Seq(Task) /\ DOMAIN tasks = 1 .. Len(tasks) /\ Len(tasks) \in Nat
      /\ tasks[t] \in Task
  BY LenProperties, ElementOfSeq DEF TypeInv, TasksOK
<1> DEFINE new == [tasks[t] EXCEPT !.status = s, !.active = a]
<1>2. new \in Task /\ new.order = tasks[t].order /\ new.status = s /\ new.active = a
  BY <1>1 DEF Task, Statuses
<1>3. tasks' = [tasks EXCEPT ![t] = new]
  OBVIOUS
<1> HIDE DEF new
<1>4. tasks' \in Seq(Task) /\ Len(tasks') = Len(tasks) /\ DOMAIN tasks' = DOMAIN tasks
      /\ tasks'[t] = new /\ \A u \in DOMAIN tasks \ {t} : tasks'[u] = tasks[u]
  BY <1>1, <1>2, <1>3, ExceptSeq, LenProperties
<1>5. \A u \in DOMAIN tasks : /\ tasks'[u].order = tasks[u].order
                              /\ tasks'[u].active => tasks[u].active
  BY <1>2, <1>4
<1> QED
  BY <1>2, <1>4, <1>5 DEF TasksOK, TypeInv

\* What _set_task makes of the tasks.
LEMMA TaskSet ==
  ASSUME TypeInv, NEW w \in Runs, run[w].pc # "idle", NEW s \in Statuses, SetTask(w, s), created' = created
  PROVE  /\ TasksOK' /\ Len(tasks') = Len(tasks) /\ DOMAIN tasks' = DOMAIN tasks
         /\ \A u \in DOMAIN tasks \ {run[w].task} : tasks'[u] = tasks[u]
         /\ tasks'[run[w].task].order = OrderOf(w)
         /\ tasks'[run[w].task].status = IF s = run[w].held THEN tasks[run[w].task].status ELSE s
<1> DEFINE t == run[w].task
           status == IF s = run[w].held THEN tasks[t].status ELSE s
           active == tasks[t].active /\ s \notin Ended
<1>1. t \in DOMAIN tasks /\ tasks[t] \in Task
  BY LenProperties, ElementOfSeq DEF TypeInv, RunsOK, TasksOK
<1>2. status \in Statuses /\ active \in BOOLEAN /\ (active => tasks[t].active)
  BY <1>1 DEF Task, Statuses
<1>3. tasks' = [tasks EXCEPT ![t] = [@ EXCEPT !.status = status, !.active = active]]
  BY DEF SetTask
<1> HIDE DEF t, status, active
<1>4. /\ TasksOK' /\ Len(tasks') = Len(tasks) /\ DOMAIN tasks' = DOMAIN tasks
      /\ \A u \in DOMAIN tasks \ {t} : tasks'[u] = tasks[u]
      /\ tasks'[t].order = tasks[t].order /\ tasks'[t].status = status
  BY <1>1, <1>2, <1>3, Changed
<1> QED
  BY <1>4 DEF t, status, OrderOf

-----------------------------------------------------------------------------
(* Each part of the state in every step                                     *)

\* The end of a request.
LEMMA Committed ==
  ASSUME RequestsServed, TypeInv, NEW q \in Requests, NEW o, Commits(q, o)
  PROVE  /\ o \in created /\ o \in Orders /\ view[q].data \in Data /\ view[q] # NoView
         /\ served' = served \cup {q} /\ served' \in SUBSET Requests
         /\ Cardinality(served') = Cardinality(served) + 1
         /\ view' = [view EXCEPT ![q] = NoView]
  BY Counted, FS_AddElement DEF Commits, TypeInv, ViewsOK, CountsOK, OrdersOK

\* A save of an order stores data in both rows.
LEMMA SavedTyped ==
  ASSUME TypeInv, NEW o \in Orders, NEW old, NEW new \in Data, NEW overlap, SaveOrder(o, old, new, overlap)
  PROVE  data' \in [Orders -> Data] /\ fact' \in [Orders -> Data] /\ excused' \in SUBSET Orders
  BY DEF SaveOrder, TypeInv, OrdersOK

\* A run that reads belongs to an order that exists, and recognises data of it.
LEMMA MergedTyped ==
  ASSUME TypeInv, NEW w \in Runs, run[w].pc \in Reading
  PROVE  /\ OrderOf(w) \in Orders /\ OrderOf(w) \in created
         /\ Merged(run[w].seen, run[w].found, run[w].ver) \in Data
<1>1. OrderOf(w) \in created
  BY DEF TypeInv, RunsOK, TasksOK, OrderOf, Reading
<1>2. /\ run[w].seen \in Data /\ run[w].found \in SUBSET Fields /\ run[w].ver \in Versions
      /\ run[w].ver # 0
  BY DEF TypeInv, RunsOK, RunStates
<1> QED
  BY <1>1, <1>2, DataTyped DEF TypeInv, OrdersOK

\* The report of what was read names a version.
LEMMA ScannedTyped ==
  ASSUME TypeInv, NEW w \in Runs, Scanned(w)
  PROVE  scanned' \in [Orders -> Versions]
  BY DEF Scanned, TypeInv, OrdersOK, RunsOK, RunStates

\* What a commit of images makes of them.
LEMMA BoundTyped ==
  ASSUME RequestsServed, TypeInv, NEW q \in Requests, NEW o \in Orders, NEW trigger, q \notin served,
         BindImages(q, o, trigger)
  PROVE  /\ images' \in [Orders -> Images] /\ wanted' \in [Orders -> Versions] /\ dated' \in SUBSET Orders
         /\ \A x \in Orders : images'[x].ver <= Cardinality(served) + 1
         /\ \A x \in Orders : images[x].ver <= images'[x].ver
         /\ \A x \in Orders : Readable(images'[x]) => images'[x].ver # 0
<1>0. dated' \in SUBSET Orders
  <2>1. dated' = dated \/ dated' = dated \ {o} \/ dated' = dated \cup {o}
    BY DEF BindImages
  <2> QED
    BY <2>1 DEF TypeInv, OrdersOK
<1>1. PICK kind \in {"papers", "related", "clear"} :
      \E im \in Bound(images[o], kind) \cup {images[o]} :
        /\ images' = [images EXCEPT ![o] = im]
        /\ wanted' = wanted \/ wanted' = [wanted EXCEPT ![o] = im.ver]
  BY DEF BindImages
<1>2. PICK im \in Bound(images[o], kind) \cup {images[o]} :
        /\ images' = [images EXCEPT ![o] = im]
        /\ wanted' = wanted \/ wanted' = [wanted EXCEPT ![o] = im.ver]
  BY <1>1
<1>3. /\ images \in [Orders -> Images] /\ wanted \in [Orders -> Versions]
      /\ images[o].ver \in Nat /\ images[o].ver <= Cardinality(served)
      /\ images[o].papers \in {"none", "some", "core"} /\ images[o].related \in BOOLEAN
      /\ Cardinality(served) + 1 <= Cardinality(Requests)
      /\ Cardinality(served) \in Nat /\ Cardinality(Requests) \in Nat
  <2>1. /\ images \in [Orders -> Images] /\ wanted \in [Orders -> Versions]
        /\ Cardinality(served) \in Nat /\ Cardinality(Requests) \in Nat /\ IsFiniteSet(served)
        /\ images[o].ver <= Cardinality(served)
    BY Counted DEF TypeInv, OrdersOK, CountsOK
  <2>2. Cardinality(served \cup {q}) = Cardinality(served) + 1
    BY <2>1, FS_AddElement
  <2>3. Cardinality(served \cup {q}) <= Cardinality(Requests)
    BY FS_Subset DEF RequestsServed, TypeInv, CountsOK
  <2> QED
    BY <2>1, <2>2, <2>3 DEF Images, Versions
<1>4. /\ im \in Images /\ im.ver <= Cardinality(served) + 1 /\ images[o].ver <= im.ver
      /\ im = images[o] \/ im.ver # 0
  <2>1. CASE im = images[o]
    BY <1>3, <2>1
  <2>2. CASE im \in Bound(images[o], kind)
    <3>1. /\ im.ver = images[o].ver + 1 /\ im.papers \in {"none", "some", "core"} /\ im.related \in BOOLEAN
          /\ im = [ver |-> im.ver, papers |-> im.papers, related |-> im.related]
      BY <1>3, <2>2 DEF Bound
    <3>2. im.ver \in Versions
      BY <1>3, <3>1 DEF Versions
    <3> QED
      BY <1>3, <3>1, <3>2 DEF Images
  <2> QED
    BY <2>1, <2>2
<1>5. im.ver \in Versions
  BY <1>4 DEF Images
<1>6. \A x \in Orders : images[x].ver \in Nat /\ images[x].ver <= Cardinality(served)
  BY <1>3 DEF TypeInv, CountsOK, Images, Versions
<1>7. \A x \in Orders : images'[x] = IF x = o THEN im ELSE images[x]
  BY <1>2, <1>3
<1> QED
  BY <1>0, <1>2, <1>3, <1>4, <1>5, <1>6, <1>7 DEF TypeInv, CountsOK

\* A step keeps the orders typed, and takes none back.
LEMMA OrdersStep ==
  ASSUME RequestsServed, TypeInv, [Next]_vars
  PROVE  OrdersOK' /\ created \subseteq created'
<1> USE DEF orderVars, requestVars, lockVars, history, RunVars, PollVars
<1> DEFINE Left == UNCHANGED <<orderVars, history>>
<1>0. OrdersOK
  BY DEF TypeInv
<1>1. CASE Left
  BY <1>0, <1>1 DEF OrdersOK
<1>create. ASSUME NEW o \in Orders, CreateOrder(o) PROVE OrdersOK' /\ created \subseteq created'
  <2>1. NoData \in Data /\ [f \in Fields |-> Draft] \in Data
    BY <1>0, DataTyped DEF OrdersOK
  <2> QED
    BY <1>create, <2>1, <1>0 DEF CreateOrder, OrdersOK
<1>update. ASSUME NEW q \in Requests, NEW o \in Orders, UpdateOrder(q, o)
           PROVE  OrdersOK' /\ created \subseteq created'
  <2>1. PICK fields \in SUBSET Fields :
          SaveOrder(o, view[q].data, Typed(q, view[q].data, fields), OverlapsOn(o, q))
    BY <1>update DEF UpdateOrder
  <2>2. Typed(q, view[q].data, fields) \in Data
    BY <1>update, Committed, DataTyped DEF UpdateOrder
  <2>3. data' \in [Orders -> Data] /\ fact' \in [Orders -> Data] /\ excused' \in SUBSET Orders
    BY <2>1, <2>2, SavedTyped
  <2> QED
    BY <1>update, <2>3, <1>0 DEF UpdateOrder, OrdersOK
<1>bind. ASSUME NEW q \in Requests, NEW o \in Orders, Bind(q, o)
         PROVE  OrdersOK' /\ created \subseteq created'
  <2>1. q \notin served
    BY <1>bind DEF Bind, Commits, TypeInv, ViewsOK
  <2>2. images' \in [Orders -> Images] /\ wanted' \in [Orders -> Versions] /\ dated' \in SUBSET Orders
    BY <1>bind, <2>1, BoundTyped DEF Bind
  <2> QED
    BY <1>bind, <2>2, <1>0 DEF Bind, OrdersOK
<1>finalize. ASSUME NEW q \in Requests, NEW o \in Orders, Finalize(q, o)
             PROVE  OrdersOK' /\ created \subseteq created'
  <2>1. PICK fields \in SUBSET Fields :
          SaveOrder(o, view[q].data, Typed(q, view[q].data, fields), OverlapsOn(o, q))
    BY <1>finalize DEF Finalize
  <2>2. Typed(q, view[q].data, fields) \in Data
    BY <1>finalize, Committed, DataTyped DEF Finalize
  <2>3. data' \in [Orders -> Data] /\ fact' \in [Orders -> Data] /\ excused' \in SUBSET Orders
    BY <2>1, <2>2, SavedTyped
  <2>4. q \notin served
    BY <1>finalize DEF Finalize, Commits, TypeInv, ViewsOK
  <2>5. images' \in [Orders -> Images] /\ wanted' \in [Orders -> Versions] /\ dated' \in SUBSET Orders
    BY <1>finalize, <2>4, BoundTyped DEF Finalize
  <2> QED
    BY <1>finalize, <2>3, <2>5, <1>0 DEF Finalize, OrdersOK
<1>load. ASSUME NEW w \in Runs, Load(w) PROVE OrdersOK' /\ created \subseteq created'
  <2>1. scanned' \in [Orders -> Versions]
    <3>1. OrderOf(w) \in Orders
      BY <1>load, <1>0 DEF Load, TypeInv, RunsOK, TasksOK, OrdersOK, OrderOf
    <3>2. images[OrderOf(w)].ver \in Versions
      BY <1>0, <3>1 DEF OrdersOK, Images
    <3> QED
      BY <1>load, <3>1, <3>2, <1>0 DEF Load, OrdersOK
  <2> QED
    BY <1>load, <2>1, <1>0 DEF Load, OrdersOK
<1>save. ASSUME NEW w \in Runs, SaveResult(w) PROVE OrdersOK' /\ created \subseteq created'
  <2> DEFINE o == OrderOf(w)
             new == Merged(run[w].seen, run[w].found, run[w].ver)
  <2>1. o \in Orders /\ new \in Data
    BY <1>save, MergedTyped DEF SaveResult, Reading
  <2>2. \E overlap \in BOOLEAN : SaveOrder(o, run[w].seen, new, overlap)
    BY <1>save DEF SaveResult
  <2> HIDE DEF o, new
  <2>3. data' \in [Orders -> Data] /\ fact' \in [Orders -> Data] /\ excused' \in SUBSET Orders
    BY <2>1, <2>2, SavedTyped
  <2> QED
    BY <1>save, <2>3, <1>0 DEF SaveResult, OrdersOK
<1>finish. ASSUME NEW w \in Runs, FinishTask(w) \/ RunFails(w)
           PROVE  OrdersOK' /\ created \subseteq created'
  <2>1. scanned' \in [Orders -> Versions]
    BY <1>finish, ScannedTyped DEF FinishTask, RunFails
  <2> QED
    BY <1>finish, <2>1, <1>0 DEF FinishTask, RunFails, OrdersOK
<1>unsynced. ASSUME NEW w \in Runs, SyncFails(w) PROVE OrdersOK' /\ created \subseteq created'
  <2>1. scanned' \in [Orders -> Versions]
    BY <1>unsynced, ScannedTyped DEF SyncFails
  <2> DEFINE o == OrderOf(w)
             new == Merged(run[w].seen, run[w].found, run[w].ver)
  <2>2. o \in Orders /\ new \in Data
    BY <1>unsynced, MergedTyped DEF SyncFails, Reading
  <2>3. (data' = data \/ data' = [data EXCEPT ![o] = new]) /\ excused' = excused \cup {o}
        /\ UNCHANGED <<layout, created, images, fact, wanted, dated>>
    BY <1>unsynced DEF SyncFails
  <2> HIDE DEF o, new
  <2> QED
    BY <2>1, <2>2, <2>3, <1>0 DEF OrdersOK
<1> QED
  <2>1. ASSUME NEW q \in Requests, NEW o \in Orders, Begin(q, o) PROVE Left
    BY <2>1, SMTT(30) DEF Begin
  <2>2. ASSUME NEW w \in Runs, Claim(w) \/ Recognise(w) \/ CheckImages(w) \/ SessionBreaks(w) PROVE Left
    BY <2>2 DEF Claim, Recognise, CheckImages, SessionBreaks
  <2>3. ASSUME NEW p \in Procs, PollStep(p) \/ PollUnlocked(p) \/ Crash(p) PROVE Left
    BY <2>3 DEF PollStep, BecomePoller, PollerStops, PollRecover, PollActivate, StartByPoller, PassEnds,
                PollUnlocked, Crash, LockStep
  <2>4. ASSUME NEW p \in Procs, NEW t, StartInBackground(p, t) PROVE Left
    BY <2>4 DEF StartInBackground
  <2>5. CASE KeyForgotten \/ OrphanExpires
    <3>1. Left
      BY <2>5 DEF KeyForgotten, OrphanExpires, LockStep
    <3> QED
      BY <1>1, <3>1
  <2>6. CASE UNCHANGED vars
    BY <2>6, <1>1 DEF vars
  <2> HIDE DEF Left
  <2> QED
    BY <1>1, <2>1, <2>2, <2>3, <2>4, <2>5, <2>6, <1>create, <1>update, <1>bind, <1>finalize, <1>load,
       <1>save, <1>finish, <1>unsynced DEF Next, RequestStep, RunStep

\* A step keeps the tasks, and their orders.
TasksStay ==
  /\ Len(tasks) <= Len(tasks')
  /\ DOMAIN tasks \subseteq DOMAIN tasks'
  /\ \A t \in DOMAIN tasks : tasks'[t].order = tasks[t].order

\* A step keeps one active task per order.
LEMMA TasksStep ==
  ASSUME RequestsServed, TypeInv, [Next]_vars
  PROVE  TasksOK' /\ TasksStay
<1> USE DEF orderVars, requestVars, lockVars, history, RunVars, PollVars
<1>0. /\ TasksOK /\ tasks \in Seq(Task) /\ DOMAIN tasks = 1 .. Len(tasks) /\ Len(tasks) \in Nat
      /\ created \subseteq created'
  BY Counted, OrdersStep DEF TypeInv, TasksOK
<1>1. CASE UNCHANGED tasks
  BY <1>0, <1>1 DEF TasksOK, TasksStay
<1>bind. ASSUME NEW q \in Requests, NEW o \in Orders, NEW trigger, Commits(q, o), created' = created,
                BindImages(q, o, trigger)
         PROVE  TasksOK' /\ TasksStay
  <2>1. view[q] # NoView /\ o \in created
    BY <1>bind, Committed
  <2>2. UNCHANGED tasks \/ \E enqueue : GetOrCreateTask(q, o, tasks', enqueue)
    BY <1>bind DEF BindImages
  <2>3. \/ UNCHANGED tasks
        \/ \E a \in BOOLEAN : /\ tasks' = Append(tasks, NewTask(o, a))
                              /\ a => ActiveOf(tasks, o) = {}
    BY <2>1, <2>2, Enqueued
  <2>4. ASSUME NEW a \in BOOLEAN, tasks' = Append(tasks, NewTask(o, a)), a => ActiveOf(tasks, o) = {}
        PROVE  TasksOK' /\ TasksStay
    <3>1. TasksOK' /\ Len(tasks') = Len(tasks) + 1 /\ \A t \in DOMAIN tasks : tasks'[t] = tasks[t]
      BY <1>bind, <2>1, <2>4, Added
    <3>2. DOMAIN tasks' = 1 .. Len(tasks')
      BY <3>1, LenProperties DEF TasksOK
    <3> QED
      BY <1>0, <3>1, <3>2 DEF TasksStay
  <2> QED
    BY <1>1, <2>3, <2>4
<1>claim. ASSUME NEW w \in Runs, Claim(w) PROVE TasksOK' /\ TasksStay
  <2> DEFINE t == run[w].task
             new == [tasks[t] EXCEPT !.status = "processing"]
  <2>1. CASE tasks' = [tasks EXCEPT ![t].status = "processing"]
    <3>1. t \in DOMAIN tasks /\ tasks[t] \in Task
      BY <1>claim, <1>0, ElementOfSeq DEF Claim, TypeInv, RunsOK
    <3>2. new \in Task /\ new.order = tasks[t].order /\ new.active = tasks[t].active
      BY <3>1 DEF Task
    <3>3. tasks' = [tasks EXCEPT ![t] = new]
      BY <2>1
    <3> HIDE DEF new, t
    <3>4. /\ tasks' \in Seq(Task) /\ Len(tasks') = Len(tasks) /\ DOMAIN tasks' = DOMAIN tasks
          /\ \A u \in DOMAIN tasks : tasks'[u] = IF u = t THEN new ELSE tasks[u]
      BY <1>0, <3>1, <3>2, <3>3, ExceptSeq, LenProperties
    <3>5. \A u \in DOMAIN tasks : tasks'[u].order = tasks[u].order /\ tasks'[u].active = tasks[u].active
      BY <3>2, <3>4
    <3>6. created' = created
      BY <1>claim DEF Claim
    <3> QED
      BY <1>0, <3>4, <3>5, <3>6 DEF TasksOK, TasksStay
  <2> QED
    BY <1>1, <1>claim, <2>1 DEF Claim
<1>set. ASSUME NEW w \in Runs, NEW s \in Statuses, SetTask(w, s), run[w].pc # "idle", created' = created
        PROVE  TasksOK' /\ TasksStay
  BY <1>set, <1>0, TaskSet DEF TasksStay, OrderOf
\* The poller's updates, of all tasks at once.
<1>map. ASSUME NEW new, tasks' = [t \in DOMAIN tasks |-> new[t]], created' = created,
               \A t \in DOMAIN tasks : new[t] \in Task /\ new[t].order = tasks[t].order,
               \A t, u \in DOMAIN tasks :
                 new[t].active /\ new[u].active /\ tasks[t].order = tasks[u].order => t = u
        PROVE  TasksOK' /\ TasksStay
  <2>1. /\ tasks' \in [1 .. Len(tasks) -> Task]
        /\ DOMAIN tasks' = DOMAIN tasks /\ \A t \in DOMAIN tasks : tasks'[t] = new[t]
    BY <1>0, <1>map
  <2>2. tasks' \in Seq(Task) /\ Len(tasks') = Len(tasks)
    BY <1>0, <2>1
  <2> QED
    BY <1>0, <1>map, <2>1, <2>2 DEF TasksOK, TasksStay
<1>recover. ASSUME NEW p \in Procs, PollRecover(p) PROVE TasksOK' /\ TasksStay
  <2>1. PICK stale \in Stale :
          tasks' = [t \in DOMAIN tasks |-> IF t \in stale THEN [tasks[t] EXCEPT !.status = "pending"]
                                           ELSE tasks[t]]
    BY <1>recover DEF PollRecover
  <2> DEFINE new == [t \in DOMAIN tasks |-> IF t \in stale THEN [tasks[t] EXCEPT !.status = "pending"]
                                            ELSE tasks[t]]
  <2>2. ASSUME NEW t \in DOMAIN tasks
        PROVE  new[t] \in Task /\ new[t].order = tasks[t].order /\ new[t].active = tasks[t].active
    <3>1. tasks[t] \in Task
      BY <1>0, ElementOfSeq
    <3> QED
      BY <3>1 DEF Task
  <2>3. tasks' = [t \in DOMAIN tasks |-> new[t]] /\ created' = created
    BY <1>recover, <2>1 DEF PollRecover
  <2> HIDE DEF new
  <2>4. \A t, u \in DOMAIN tasks :
          new[t].active /\ new[u].active /\ tasks[t].order = tasks[u].order => t = u
    BY <1>0, <2>2 DEF TasksOK
  <2> QED
    BY <1>map, <2>2, <2>3, <2>4
<1>activate. ASSUME NEW p \in Procs, PollActivate(p) PROVE TasksOK' /\ TasksStay
  <2> DEFINE new == [t \in DOMAIN tasks |-> IF t \in Activated THEN [tasks[t] EXCEPT !.active = TRUE]
                                            ELSE tasks[t]]
  <2>1. tasks' = [t \in DOMAIN tasks |-> new[t]] /\ created' = created
    BY <1>activate DEF PollActivate
  <2>2. ASSUME NEW t \in DOMAIN tasks
        PROVE  /\ new[t] \in Task /\ new[t].order = tasks[t].order
               /\ new[t].active <=> tasks[t].active \/ t \in Activated
    <3>1. tasks[t] \in Task
      BY <1>0, ElementOfSeq
    <3> QED
      BY <3>1 DEF Task
  <2> HIDE DEF new
  <2>3. ASSUME NEW t \in DOMAIN tasks, NEW u \in DOMAIN tasks, new[t].active, new[u].active,
               tasks[t].order = tasks[u].order
        PROVE  t = u
    <3> DEFINE o == tasks[t].order
    <3>1. \A x \in {t, u} : x \in Activated => ActiveOf(tasks, o) = {} /\ x = Lowest(QueuedOf(tasks, o))
      BY <2>3 DEF Activated
    <3>2. \A x \in {t, u} : tasks[x].active => x \in ActiveOf(tasks, o)
      BY <2>3 DEF ActiveOf
    <3> HIDE DEF o
    <3>3. CASE tasks[t].active /\ tasks[u].active
      BY <1>0, <2>3, <3>3 DEF TasksOK
    <3>4. CASE t \in Activated /\ u \in Activated
      BY <3>1, <3>4
    <3> QED
      BY <2>2, <2>3, <3>1, <3>2, <3>3, <3>4
  <2> QED
    BY <1>map, <2>1, <2>2, <2>3
<1> QED
  <2>1. ASSUME NEW o \in Orders, CreateOrder(o) PROVE UNCHANGED tasks
    BY <2>1 DEF CreateOrder
  <2>2. ASSUME NEW q \in Requests, NEW o \in Orders, RequestStep(q, o) PROVE TasksOK' /\ TasksStay
    BY <2>2, <1>1, <1>bind DEF RequestStep, Begin, UpdateOrder, Bind, Finalize
  <2>3. ASSUME NEW w \in Runs, \/ Load(w) \/ Recognise(w) \/ CheckImages(w) \/ SaveResult(w)
                               \/ FinishTask(w) \/ RunFails(w) \/ SessionBreaks(w) \/ SyncFails(w)
        PROVE  TasksOK' /\ TasksStay
    <3>1. run[w].pc # "idle" /\ created' = created
      BY <2>3 DEF Load, Recognise, CheckImages, SaveResult, FinishTask, RunFails, SessionBreaks, SyncFails,
                  Reading
    <3>2. UNCHANGED tasks \/ \E s \in Statuses : SetTask(w, s)
      <4>1. run[w].result \in Statuses
        BY DEF TypeInv, RunsOK, RunStates, Statuses
      <4> QED
        BY <2>3, <4>1 DEF Load, Recognise, CheckImages, SaveResult, FinishTask, RunFails, SessionBreaks,
                          SyncFails, Statuses, Ended
    <3> QED
      BY <1>1, <1>set, <3>1, <3>2
  <2>4. ASSUME NEW p \in Procs, \/ BecomePoller(p) \/ PollerStops(p) \/ StartByPoller(p) \/ PassEnds(p)
                                \/ PollUnlocked(p) \/ Crash(p)
        PROVE  UNCHANGED tasks
    BY <2>4 DEF BecomePoller, PollerStops, StartByPoller, PassEnds, PollUnlocked, Crash, LockStep
  <2>5. ASSUME NEW p \in Procs, NEW t, StartInBackground(p, t) PROVE UNCHANGED tasks
    BY <2>5 DEF StartInBackground
  <2>6. CASE KeyForgotten \/ OrphanExpires \/ UNCHANGED vars
    BY <2>6, <1>1 DEF KeyForgotten, OrphanExpires, LockStep, vars
  <2> QED
    BY <1>1, <1>claim, <1>recover, <1>activate, <2>1, <2>2, <2>3, <2>4, <2>5, <2>6
       DEF Next, RunStep, PollStep

\* The commits that count, and the requests that end.
LEMMA CountsStep ==
  ASSUME RequestsServed, TypeInv, [Next]_vars
  PROVE  CountsOK'
<1> USE DEF orderVars, requestVars, lockVars, history, RunVars, PollVars
<1>0. /\ CountsOK /\ IsFiniteSet(served) /\ Cardinality(served) \in Nat /\ Len(tasks) \in Nat
      /\ \A o \in Orders : images[o].ver \in Nat /\ images'[o].ver \in Nat
      /\ tasks' \in Seq(Task) /\ Len(tasks') \in Nat
  <2>1. OrdersOK /\ OrdersOK' /\ TasksOK'
    BY OrdersStep, TasksStep DEF TypeInv
  <2> QED
    BY <2>1, Counted, LenProperties DEF TypeInv, OrdersOK, Images, Versions, TasksOK
<1>1. ASSUME served' \in SUBSET Requests, served \subseteq served', Len(tasks') = Len(tasks), UNCHANGED images
      PROVE  CountsOK'
  <2>1. IsFiniteSet(served') /\ Cardinality(served) <= Cardinality(served') /\ Cardinality(served') \in Nat
    BY <1>1, FS_Subset, FS_CardinalityType DEF RequestsServed
  <2> QED
    BY <1>0, <1>1, <2>1 DEF CountsOK
<1>bind. ASSUME NEW q \in Requests, NEW o \in Orders, NEW trigger, Commits(q, o), BindImages(q, o, trigger)
         PROVE  CountsOK'
  <2>1. /\ view[q] # NoView /\ q \notin served /\ served' \in SUBSET Requests
        /\ Cardinality(served') = Cardinality(served) + 1
    BY <1>bind, Committed DEF TypeInv, ViewsOK
  <2>2. UNCHANGED tasks \/ \E enqueue : GetOrCreateTask(q, o, tasks', enqueue)
    BY <1>bind DEF BindImages
  <2>3. tasks' = tasks \/ \E a \in BOOLEAN : tasks' = Append(tasks, NewTask(o, a))
    BY <2>1, <2>2, Enqueued
  <2>4. Len(tasks') <= Len(tasks) + 1
    <3>1. tasks \in Seq(Task)
      BY DEF TypeInv, TasksOK
    <3>2. ASSUME NEW a \in BOOLEAN PROVE Len(Append(tasks, NewTask(o, a))) = Len(tasks) + 1
      BY <3>1
    <3> QED
      BY <1>0, <2>3, <3>2
  <2>5. /\ \A x \in Orders : images'[x].ver <= Cardinality(served) + 1
        /\ \A x \in Orders : Readable(images'[x]) => images'[x].ver # 0
    BY <1>bind, <2>1, BoundTyped
  <2> QED
    BY <1>0, <2>1, <2>4, <2>5 DEF CountsOK
<1>2. Len(tasks') = Len(tasks) => \/ CountsOK'
                                  \/ ~(UNCHANGED <<served, images>>)
  BY <1>1, <1>0 DEF CountsOK
<1>3. ASSUME NEW p \in Procs, Crash(p) PROVE CountsOK'
  BY <1>3, <1>1, <1>0 DEF Crash, CountsOK
<1>4. ASSUME NEW q \in Requests, NEW o \in Orders, RequestStep(q, o) PROVE CountsOK'
  <2>1. CASE Begin(q, o)
    BY <2>1, <1>2 DEF Begin
  <2>2. CASE UpdateOrder(q, o)
    <3>1. served' = served \cup {q} /\ UNCHANGED <<tasks, images>>
      BY <2>2 DEF UpdateOrder, Commits
    <3> QED
      BY <3>1, <1>0, <1>1 DEF CountsOK
  <2>3. CASE Bind(q, o) \/ Finalize(q, o)
    BY <2>3, <1>bind DEF Bind, Finalize
  <2> QED
    BY <1>4, <2>1, <2>2, <2>3 DEF RequestStep
<1>5. ASSUME UNCHANGED <<served, images>>, DOMAIN tasks' = DOMAIN tasks PROVE CountsOK'
  <2>1. DOMAIN tasks = 1 .. Len(tasks) /\ DOMAIN tasks' = 1 .. Len(tasks')
    BY <1>0, LenProperties DEF TypeInv, TasksOK
  <2>2. Len(tasks') = Len(tasks)
    BY <1>0, <1>5, <2>1
  <2> QED
    BY <1>2, <1>5, <2>2
<1>7. ASSUME NEW w \in Runs, RunStep(w) \/ RunFails(w) \/ SessionBreaks(w) \/ SyncFails(w)
      PROVE  CountsOK'
  <2>1. UNCHANGED <<served, images>> /\ run[w].task \in DOMAIN tasks
    BY <1>7, ZenonT(40) DEF RunStep, Claim, Load, Recognise, CheckImages, SaveResult, FinishTask, RunFails, SessionBreaks,
                SyncFails, Reading, TypeInv, RunsOK
  <2>2. DOMAIN tasks' = DOMAIN tasks
    BY <1>7 DEF RunStep, Claim, Load, Recognise, CheckImages, SaveResult, FinishTask, RunFails, SessionBreaks,
                SyncFails, SetTask
  <2> QED
    BY <2>1, <2>2, <1>5, SMTT(30)
<1>8. ASSUME NEW p \in Procs, PollRecover(p) \/ PollActivate(p) PROVE CountsOK'
  <2>1. UNCHANGED <<served, images>>
    BY <1>8 DEF PollRecover, PollActivate
  <2>2. DOMAIN tasks' = DOMAIN tasks
    BY <1>8 DEF PollRecover, PollActivate
  <2> QED
    BY <2>1, <2>2, <1>5
<1> QED
  <2>1. ASSUME NEW o \in Orders, CreateOrder(o) PROVE CountsOK'
    BY <2>1, <1>2 DEF CreateOrder
  <2>2. ASSUME NEW p \in Procs, \/ BecomePoller(p) \/ PollerStops(p) \/ StartByPoller(p) \/ PassEnds(p)
                                \/ PollUnlocked(p)
        PROVE  CountsOK'
    BY <2>2, <1>2 DEF BecomePoller, PollerStops, StartByPoller, PassEnds, PollUnlocked, LockStep
  <2>3. ASSUME NEW p \in Procs, NEW t, StartInBackground(p, t) PROVE CountsOK'
    BY <2>3, <1>2 DEF StartInBackground
  <2>4. CASE KeyForgotten \/ OrphanExpires \/ UNCHANGED vars
    BY <2>4, <1>2 DEF KeyForgotten, OrphanExpires, LockStep, vars
  <2> QED
    BY <1>3, <1>4, <1>7, <1>8, <2>1, <2>2, <2>3, <2>4 DEF Next, PollStep

\* A request's snapshot is of tasks that are still there.
LEMMA ViewsStep ==
  ASSUME RequestsServed, TypeInv, [Next]_vars
  PROVE  ViewsOK'
<1> USE DEF orderVars, requestVars, lockVars, history, RunVars, PollVars
<1>0. /\ ViewsOK /\ created \subseteq created' /\ Len(tasks) <= Len(tasks') /\ Len(tasks) \in Nat
      /\ Len(tasks') \in Nat /\ tasks \in Seq(Task)
      /\ \A q \in Requests : view[q] # NoView => Len(view[q].tasks) \in Nat
  <2>1. ViewsOK /\ created \subseteq created' /\ Len(tasks) <= Len(tasks') /\ TasksOK' /\ Len(tasks) \in Nat
        /\ tasks \in Seq(Task)
    BY OrdersStep, TasksStep, Counted DEF TypeInv, TasksStay, TasksOK
  <2> QED
    BY <2>1, LenProperties DEF ViewsOK, TasksOK
<1>1. CASE UNCHANGED <<view, served>>
  BY <1>0, <1>1 DEF ViewsOK
<1>2. ASSUME NEW q \in Requests, NEW o \in Orders, Begin(q, o) PROVE ViewsOK'
  <2>1. Snapshot(o).order = o /\ Snapshot(o).data = data[o] /\ Snapshot(o).images = images[o]
        /\ Snapshot(o).tasks = tasks
    BY DEF Snapshot
  <2>2. data[o] \in Data /\ images[o] \in Images /\ o \in created /\ q \notin served
        /\ UNCHANGED <<served, tasks, created>> /\ view' = [view EXCEPT ![q] = Snapshot(o)]
    BY <1>2 DEF Begin, TypeInv, OrdersOK
  <2>3. view' = [r \in Requests |-> view'[r]] /\ view'[q] = Snapshot(o)
        /\ \A r \in Requests \ {q} : view'[r] = view[r]
    BY <2>2, <1>0 DEF ViewsOK
  <2> HIDE DEF Snapshot
  <2> QED
    BY <1>0, <2>1, <2>2, <2>3 DEF ViewsOK
<1>3. ASSUME NEW q \in Requests, NEW o, Commits(q, o) PROVE ViewsOK'
  <2>1. view' = [view EXCEPT ![q] = NoView] /\ served' = served \cup {q}
    BY <1>3 DEF Commits
  <2>2. view' = [r \in Requests |-> view'[r]] /\ view'[q] = NoView
        /\ \A r \in Requests \ {q} : view'[r] = view[r]
    BY <2>1, <1>0 DEF ViewsOK
  <2> QED
    BY <1>0, <2>1, <2>2 DEF ViewsOK
<1>4. ASSUME NEW p \in Procs, Crash(p) PROVE ViewsOK'
  BY <1>0, <1>4 DEF Crash, ViewsOK
<1> QED
  <2>1. ASSUME NEW o \in Orders, CreateOrder(o) PROVE UNCHANGED <<view, served>>
    BY <2>1 DEF CreateOrder
  <2>2. ASSUME NEW p \in Procs, PollStep(p) \/ PollUnlocked(p) PROVE UNCHANGED <<view, served>>
    BY <2>2 DEF PollStep, BecomePoller, PollerStops, PollRecover, PollActivate, StartByPoller, PassEnds,
                PollUnlocked, LockStep
  <2>3. ASSUME NEW p \in Procs, NEW t, StartInBackground(p, t) PROVE UNCHANGED <<view, served>>
    BY <2>3 DEF StartInBackground
  <2>4. CASE KeyForgotten \/ OrphanExpires \/ UNCHANGED vars
    BY <2>4, <1>1, SMTT(30) DEF KeyForgotten, OrphanExpires, LockStep, vars
  <2>5. ASSUME NEW w \in Runs, RunStep(w) \/ RunFails(w) \/ SessionBreaks(w) \/ SyncFails(w)
        PROVE  UNCHANGED <<view, served>>
    BY <2>5 DEF RunStep, Claim, Load, Recognise, CheckImages, SaveResult, FinishTask, RunFails, SessionBreaks,
                SyncFails
  <2>6. ASSUME NEW q \in Requests, NEW o \in Orders, RequestStep(q, o) PROVE ViewsOK'
    BY <2>6, <1>2, <1>3 DEF RequestStep, UpdateOrder, Bind, Finalize
  <2> QED
    BY <1>1, <1>4, <2>1, <2>2, <2>3, <2>4, <2>5, <2>6 DEF Next

\* Only tasks that exist are queued or in a batch.
LEMMA QueuesStep ==
  ASSUME RequestsServed, TypeInv, [Next]_vars
  PROVE  QueuesOK'
<1> USE DEF orderVars, requestVars, lockVars, history, RunVars, PollVars
<1>0. QueuesOK /\ DOMAIN tasks \subseteq DOMAIN tasks' /\ TasksOK'
  BY TasksStep DEF TypeInv, TasksStay
<1>1. CASE UNCHANGED <<bg, poll>>
  BY <1>0, <1>1 DEF QueuesOK
<1>bind. ASSUME NEW q \in Requests, NEW o \in Orders, NEW trigger, Commits(q, o), BindImages(q, o, trigger),
                UNCHANGED poll
         PROVE  QueuesOK'
  <2>1. /\ view[q] # NoView /\ DOMAIN tasks' = 1 .. Len(tasks')
    BY <1>bind, <1>0, Committed, LenProperties DEF TasksOK
  <2>2. \/ UNCHANGED bg
        \/ \E enqueue : /\ GetOrCreateTask(q, o, tasks', enqueue)
                        /\ bg' = [bg EXCEPT ![ServedBy[q]] = bg[ServedBy[q]] \cup enqueue]
    BY <1>bind DEF BindImages
  <2>3. ASSUME NEW enqueue, GetOrCreateTask(q, o, tasks', enqueue),
               bg' = [bg EXCEPT ![ServedBy[q]] = bg[ServedBy[q]] \cup enqueue]
        PROVE  QueuesOK'
    <3>1. enqueue \subseteq DOMAIN tasks'
      BY <2>1, <2>3, Enqueued
    <3> QED
      BY <1>0, <1>bind, <2>3, <3>1 DEF QueuesOK
  <2> QED
    BY <1>1, <1>bind, <2>2, <2>3
<1>2. ASSUME NEW p \in Procs, StartByPoller(p) \/ PollRecover(p) \/ PassEnds(p) \/ Crash(p) PROVE QueuesOK'
  <2>1. poll[p].batch \subseteq DOMAIN tasks
        /\ poll[p] = [pc |-> poll[p].pc, batch |-> poll[p].batch]
    BY <1>0 DEF QueuesOK
  <2>2. \/ UNCHANGED bg
        \/ bg' = [bg EXCEPT ![p] = {}]
    BY <1>2 DEF StartByPoller, PollRecover, PassEnds, Crash
  <2>3. \E pc \in {"top", "activate", "run"}, batch \in SUBSET poll[p].batch :
          poll' = [poll EXCEPT ![p] = [pc |-> pc, batch |-> batch]]
    <3>1. CASE StartByPoller(p)
      <4> DEFINE batch == poll[p].batch \ {Lowest(poll[p].batch)}
      <4>1. poll' = [poll EXCEPT ![p].batch = batch]
        BY <3>1 DEF StartByPoller
      <4> HIDE DEF batch
      <4>2. poll' = [poll EXCEPT ![p] = [pc |-> "run", batch |-> batch]]
        BY <3>1, <4>1, <2>1 DEF StartByPoller
      <4> QED
        BY <4>2 DEF batch
    <3>2. CASE PollRecover(p)
      <4>1. poll' = [poll EXCEPT ![p].pc = "activate"]
        BY <3>2 DEF PollRecover
      <4> DEFINE new == [poll[p] EXCEPT !.pc = "activate"]
      <4>2. new = [pc |-> "activate", batch |-> poll[p].batch]
        BY <2>1
      <4>3. poll' = [poll EXCEPT ![p] = new]
        BY <4>1
      <4> HIDE DEF new
      <4> QED
        BY <4>2, <4>3
    <3>3. CASE PassEnds(p)
      <4>1. poll' = [poll EXCEPT ![p].pc = "top"]
        BY <3>3 DEF PassEnds
      <4> DEFINE new == [poll[p] EXCEPT !.pc = "top"]
      <4>2. new = [pc |-> "top", batch |-> poll[p].batch]
        BY <2>1
      <4>3. poll' = [poll EXCEPT ![p] = new]
        BY <4>1
      <4> HIDE DEF new
      <4> QED
        BY <4>2, <4>3
    <3>4. CASE Crash(p)
      BY <3>4 DEF Crash
    <3> QED
      BY <1>2, <3>1, <3>2, <3>3, <3>4
  <2> QED
    BY <1>0, <2>1, <2>2, <2>3 DEF QueuesOK
<1>3. ASSUME NEW p \in Procs, PollActivate(p) PROVE QueuesOK'
  <2>1. Activated \subseteq DOMAIN tasks
    BY DEF Activated
  <2> DEFINE batch == Activated \cup {t \in DOMAIN tasks : Claimable(t)}
  <2>2. batch \subseteq DOMAIN tasks'
    BY <1>0, <2>1
  <2>3. UNCHANGED bg /\ poll' = [poll EXCEPT ![p] = [pc |-> "run", batch |-> batch]]
    BY <1>3 DEF PollActivate
  <2> HIDE DEF batch
  <2> QED
    BY <1>0, <2>2, <2>3 DEF QueuesOK
<1>4. ASSUME NEW p \in Procs, NEW t, StartInBackground(p, t) PROVE QueuesOK'
  BY <1>4, <1>0 DEF StartInBackground, QueuesOK
<1> QED
  <2>1. ASSUME NEW o \in Orders, CreateOrder(o) PROVE UNCHANGED <<bg, poll>>
    BY <2>1 DEF CreateOrder
  <2>2. ASSUME NEW p \in Procs, BecomePoller(p) \/ PollerStops(p) \/ PollUnlocked(p)
        PROVE  UNCHANGED <<bg, poll>>
    BY <2>2 DEF BecomePoller, PollerStops, PollUnlocked, LockStep
  <2>3. CASE KeyForgotten \/ OrphanExpires \/ UNCHANGED vars
    BY <2>3, <1>1, SMTT(30) DEF KeyForgotten, OrphanExpires, LockStep, vars
  <2>4. ASSUME NEW w \in Runs, RunStep(w) \/ RunFails(w) \/ SessionBreaks(w) \/ SyncFails(w)
        PROVE  UNCHANGED <<bg, poll>>
    BY <2>4 DEF RunStep, Claim, Load, Recognise, CheckImages, SaveResult, FinishTask, RunFails, SessionBreaks,
                SyncFails
  <2>5. ASSUME NEW q \in Requests, NEW o \in Orders, RequestStep(q, o) PROVE QueuesOK'
    BY <2>5, <1>1, <1>bind DEF RequestStep, Begin, UpdateOrder, Bind, Finalize
  <2> QED
    BY <1>1, <1>2, <1>3, <1>4, <2>1, <2>2, <2>3, <2>4, <2>5 DEF Next, PollStep

\* A run that is over, or has just started.
LEMMA NoRunTyped ==
  /\ NoRun \in RunStates /\ NoRun.pc = "idle"
  /\ \A t \in TaskIds : [NoRun EXCEPT !.pc = "claim", !.task = t] \in RunStates
<1>1. 0 \in Versions
  BY FS_CardinalityType, RequestsServed DEF Versions, RequestsServed
<1>2. NoData \in Data
  BY DEF NoData, Data, Values
<1>3. NoRun \in RunStates /\ NoRun.pc = "idle"
  BY <1>1, <1>2 DEF NoRun, RunStates, RunPcs, Statuses, Ended
<1>4. ASSUME NEW t \in TaskIds PROVE [NoRun EXCEPT !.pc = "claim", !.task = t] \in RunStates
  BY <1>3 DEF RunStates, RunPcs
<1> QED
  BY <1>3, <1>4

\* A step keeps the runs on tasks that exist.
LEMMA RunsStep ==
  ASSUME RequestsServed, TypeInv, [Next]_vars
  PROVE  RunsOK'
<1> USE DEF orderVars, requestVars, lockVars, history, RunVars, PollVars
<1>0. RunsOK /\ DOMAIN tasks \subseteq DOMAIN tasks' /\ DOMAIN tasks \subseteq TaskIds /\ OrdersOK
  BY TasksStep, Counted DEF TypeInv, TasksStay
<1>1. CASE UNCHANGED run
  BY <1>0, <1>1 DEF RunsOK
\* A run that moves on, or ends.
<1>2. ASSUME NEW w \in Runs, NEW new \in RunStates, run' = [run EXCEPT ![w] = new],
             new.pc # "idle" => new.task \in DOMAIN tasks, new.pc \in Reading => new.ver # 0
      PROVE  RunsOK'
  BY <1>0, <1>2 DEF RunsOK
<1>3. ASSUME NEW w \in Runs, EndRun(w) PROVE RunsOK'
  BY <1>2, <1>3, NoRunTyped DEF EndRun, Reading
<1>4. ASSUME NEW w \in Runs, NEW pc \in RunPcs, Goto(w, pc), run[w].pc # "idle",
             pc \in Reading => run[w].pc \in Reading
      PROVE  RunsOK'
  <2> DEFINE new == [run[w] EXCEPT !.pc = pc]
  <2>1. new \in RunStates /\ new.pc = pc /\ new.task = run[w].task /\ new.ver = run[w].ver
    BY <1>0 DEF RunsOK, RunStates
  <2>2. run' = [run EXCEPT ![w] = new]
    BY <1>4 DEF Goto
  <2> HIDE DEF new
  <2> QED
    BY <1>0, <1>2, <1>4, <2>1, <2>2 DEF RunsOK
<1>5. ASSUME NEW w \in Runs, NEW t \in DOMAIN tasks, StartRun(w, t) PROVE RunsOK'
  <2> DEFINE new == [NoRun EXCEPT !.pc = "claim", !.task = t]
  <2>1. new \in RunStates /\ new.pc = "claim" /\ new.task = t
    BY <1>0, NoRunTyped DEF NoRun
  <2>2. UNCHANGED run \/ run' = [run EXCEPT ![w] = new]
    BY <1>5 DEF StartRun
  <2> HIDE DEF new
  <2> QED
    BY <1>1, <1>2, <2>1, <2>2 DEF Reading
<1>background. ASSUME NEW p \in Procs, NEW t, StartInBackground(p, t) PROVE RunsOK'
  <2>1. t \in DOMAIN tasks /\ <<p, "background">> \in Runs
    BY <1>background DEF StartInBackground, TypeInv, QueuesOK, Runs
  <2> QED
    BY <1>5, <1>background, <2>1 DEF StartInBackground
<1>poller. ASSUME NEW p \in Procs, StartByPoller(p) PROVE RunsOK'
  <2>1. poll[p].batch \subseteq DOMAIN tasks /\ poll[p].batch # {} /\ <<p, "poller">> \in Runs
    BY <1>poller DEF StartByPoller, TypeInv, QueuesOK, Runs
  <2>2. Lowest(poll[p].batch) \in DOMAIN tasks
    <3>1. poll[p].batch \in SUBSET Nat
      BY <2>1, <1>0 DEF TaskIds
    <3> QED
      BY <2>1, <3>1, LowestIn
  <2> QED
    BY <1>5, <1>poller, <2>1, <2>2 DEF StartByPoller
<1>load. ASSUME NEW w \in Runs, Load(w) PROVE RunsOK'
  <2> DEFINE o == OrderOf(w)
             status == tasks[run[w].task].status
             new == [run[w] EXCEPT !.pc = "recognise", !.ver = images[o].ver, !.seen = data[o],
                                   !.held = status]
  <2>1. run[w].task \in DOMAIN tasks /\ tasks[run[w].task] \in Task /\ tasks[run[w].task].order \in created
    BY <1>load, ElementOfSeq, LenProperties DEF Load, TypeInv, RunsOK, TasksOK
  <2>2. o \in Orders /\ images[o].ver \in Versions /\ data[o] \in Data /\ status \in Statuses
    BY <1>0, <2>1 DEF OrdersOK, OrderOf, Images, Task, Statuses
  <2> HIDE DEF o, status
  <2>3. /\ new \in RunStates /\ new.pc = "recognise" /\ new.task = run[w].task /\ new.ver = images[o].ver
    BY <1>0, <2>2 DEF RunsOK, RunStates, RunPcs
  <2>4. CASE Readable(images[o]) /\ run' = [run EXCEPT ![w] = new]
    <3>1. images[o].ver # 0
      BY <2>2, <2>4 DEF TypeInv, CountsOK
    <3> HIDE DEF new
    <3> QED
      BY <1>2, <2>1, <2>3, <2>4, <3>1
  <2>5. CASE EndRun(w)
    BY <1>3, <2>5
  <2> QED
    BY <1>load, <2>4, <2>5 DEF Load, o, status
<1>recognise. ASSUME NEW w \in Runs, Recognise(w) PROVE RunsOK'
  <2>1. PICK found \in SUBSET Fields, result \in {"finished", "finished_with_errors"} :
          run' = [run EXCEPT ![w] = [run[w] EXCEPT !.pc = "check", !.held = "processing",
                                                   !.found = found, !.result = result]]
    BY <1>recognise DEF Recognise
  <2> DEFINE new == [run[w] EXCEPT !.pc = "check", !.held = "processing", !.found = found, !.result = result]
  <2>2. new \in RunStates /\ new.pc = "check" /\ new.task = run[w].task /\ new.ver = run[w].ver
    BY <1>0, ZenonT(40) DEF RunsOK, RunStates, RunPcs, Statuses, Ended
  <2>3. run' = [run EXCEPT ![w] = new] /\ run[w].pc = "recognise"
    BY <1>recognise, <2>1 DEF Recognise
  <2> HIDE DEF new
  <2> QED
    BY <1>0, <1>2, <2>2, <2>3 DEF RunsOK, Reading
<1>crash. ASSUME NEW p \in Procs, Crash(p) PROVE RunsOK'
  <2>1. run' = [w \in Runs |-> IF HomeOf(w) = p THEN NoRun ELSE run[w]]
    BY <1>crash DEF Crash
  <2> QED
    BY <1>0, <2>1, NoRunTyped DEF RunsOK, Reading
<1> QED
  <2>1. ASSUME NEW o \in Orders, CreateOrder(o) PROVE UNCHANGED run
    BY <2>1 DEF CreateOrder
  <2>2. ASSUME NEW q \in Requests, NEW o \in Orders, RequestStep(q, o) PROVE UNCHANGED run
    BY <2>2 DEF RequestStep, Begin, UpdateOrder, Bind, Finalize
  <2>3. ASSUME NEW p \in Procs, \/ BecomePoller(p) \/ PollerStops(p) \/ PollRecover(p) \/ PollActivate(p)
                                \/ PassEnds(p) \/ PollUnlocked(p)
        PROVE  UNCHANGED run
    BY <2>3 DEF BecomePoller, PollerStops, PollRecover, PollActivate, PassEnds, PollUnlocked, LockStep
  <2>4. CASE KeyForgotten \/ OrphanExpires \/ UNCHANGED vars
    BY <2>4, <1>1 DEF KeyForgotten, OrphanExpires, LockStep, vars
  <2>5. ASSUME NEW w \in Runs, \/ Claim(w) \/ CheckImages(w) \/ SaveResult(w) \/ FinishTask(w)
                               \/ RunFails(w) \/ SessionBreaks(w) \/ SyncFails(w)
        PROVE  RunsOK'
    BY <2>5, <1>3, <1>4 DEF Claim, CheckImages, SaveResult, FinishTask, RunFails, SessionBreaks, SyncFails,
                            Reading, RunPcs
  <2> QED
    BY <1>1, <1>background, <1>poller, <1>load, <1>recognise, <1>crash, <2>1, <2>2, <2>3, <2>4, <2>5
       DEF Next, RunStep, PollStep

\* A step keeps the startup lock's key, its owners and its faults.
LEMMA KeyStep ==
  ASSUME TypeInv, [Next]_vars
  PROVE  LockOK'
<1> USE KeysTyped, FaultsBounded
    DEF orderVars, requestVars, lockVars, history, RunVars, PollVars, MayFail
<1>0. /\ key \in Procs \cup {NoOne, Ghost} /\ loop \in [Procs -> {"out", "in", "free"}]
      /\ lapsed \in SUBSET Procs /\ faults \in 0 .. MaxFaults
      /\ \A p \in Procs : loop[p] = "in" /\ p \notin lapsed => key = p
  BY DEF TypeInv, LockOK, Lock!LockTypeOK
<1>1. ASSUME UNCHANGED <<key, loop, lapsed>>, faults' = faults \/ (faults < MaxFaults /\ faults' = faults + 1)
      PROVE  LockOK'
  BY <1>0, <1>1 DEF LockOK, Lock!LockTypeOK
<1>2. ASSUME NEW p \in Procs, Lock!Acquire(p) PROVE LockOK'
  BY <1>0, <1>2, KeysTyped DEF LockOK, Lock!LockTypeOK, Lock!Acquire, KeysTyped
<1>3. ASSUME NEW p \in Procs, Lock!Unavailable(p) PROVE LockOK'
  BY <1>0, <1>3 DEF LockOK, Lock!LockTypeOK, Lock!Unavailable, Lock!MayLapse
<1>4. ASSUME NEW p \in Procs, Lock!Release(p) PROVE LockOK'
  BY <1>0, <1>4 DEF LockOK, Lock!LockTypeOK, Lock!Release, Lock!KeyReleasedBy
<1>5. ASSUME NEW p \in Procs, Lock!ReleaseFails(p) PROVE LockOK'
  BY <1>0, <1>5 DEF LockOK, Lock!LockTypeOK, Lock!ReleaseFails, Lock!MayLapse
<1>6. CASE Lock!OrphanExpires
  BY <1>0, <1>6, KeysTyped DEF LockOK, Lock!LockTypeOK, Lock!OrphanExpires, KeysTyped
<1>7. CASE Lock!ExpiresDuringPass
  BY <1>0, <1>7 DEF LockOK, Lock!LockTypeOK, Lock!ExpiresDuringPass, Lock!MayLapse
<1>8. ASSUME NEW p \in Procs, Crash(p) PROVE LockOK'
  BY <1>0, <1>8 DEF LockOK, Lock!LockTypeOK, Crash
<1>9. ASSUME NEW p \in Procs, PollRecover(p) PROVE LockOK'
  <2>1. faults' = faults \/ (faults < MaxFaults /\ faults' = faults + 1)
    BY <1>9 DEF PollRecover, Stale
  <2> QED
    BY <1>1, <1>9, <2>1 DEF PollRecover
<1> QED
  <2>1. ASSUME NEW o \in Orders, CreateOrder(o) PROVE LockOK'
    BY <2>1, <1>1 DEF CreateOrder
  <2>2. ASSUME NEW q \in Requests, NEW o \in Orders, RequestStep(q, o) PROVE LockOK'
    BY <2>2, <1>1 DEF RequestStep, Begin, UpdateOrder, Bind, Finalize
  <2>3. ASSUME NEW p \in Procs, BecomePoller(p) \/ PollerStops(p) \/ PollUnlocked(p) PROVE LockOK'
    BY <2>3, <1>2, <1>3, <1>4, <1>5 DEF BecomePoller, PollerStops, PollUnlocked, LockStep
  <2>4. ASSUME NEW p \in Procs, PollActivate(p) \/ StartByPoller(p) \/ PassEnds(p) PROVE LockOK'
    BY <2>4, <1>1 DEF PollActivate, StartByPoller, PassEnds
  <2>5. ASSUME NEW p \in Procs, NEW t, StartInBackground(p, t) PROVE LockOK'
    BY <2>5, <1>1 DEF StartInBackground
  <2>6. CASE KeyForgotten \/ OrphanExpires
    BY <2>6, <1>6, <1>7 DEF KeyForgotten, OrphanExpires, LockStep
  <2>7. ASSUME NEW w \in Runs, RunStep(w) \/ RunFails(w) \/ SessionBreaks(w) \/ SyncFails(w) PROVE LockOK'
    BY <2>7, <1>1 DEF RunStep, Claim, Load, Recognise, CheckImages, SaveResult, FinishTask, RunFails,
                      SessionBreaks, SyncFails
  <2>8. CASE UNCHANGED vars
    BY <2>8, <1>1 DEF vars
  <2> QED
    BY <1>8, <1>9, <2>1, <2>2, <2>3, <2>4, <2>5, <2>6, <2>7, <2>8 DEF Next, PollStep

\* The invariant holds, for any number of workers, orders, fields, requests and faults.
THEOREM Invariant == Spec => []TypeInv
<1>1. Init => TypeInv
  <2> SUFFICES ASSUME Init PROVE TypeInv
    OBVIOUS
  <2>1. 0 \in Versions /\ NoData \in Data
    BY FS_CardinalityType, RequestsServed DEF RequestsServed, Versions, NoData, Data, Values
  <2>2. NoImages \in Images /\ NoImages.ver = 0 /\ ~Readable(NoImages)
    BY <2>1 DEF NoImages, Images, Readable
  <2>3. /\ created = {} /\ served = {} /\ tasks = <<>> /\ tasks \in Seq(Task) /\ Len(tasks) = 0
        /\ DOMAIN tasks = {} /\ Cardinality(served) = 0
    BY FS_EmptySet DEF Init
  <2>4. OrdersOK
    BY <2>1, <2>2 DEF Init, OrdersOK
  <2>5. TasksOK /\ CountsOK
    BY <2>2, <2>3 DEF Init, TasksOK, CountsOK
  <2>6. ViewsOK
    BY DEF Init, ViewsOK
  <2>7. QueuesOK
    BY DEF Init, QueuesOK
  <2>8. RunsOK
    BY NoRunTyped DEF Init, RunsOK, Reading
  <2>9. LockOK
    BY FaultsBounded DEF Init, LockOK, Lock!LockInit, Lock!LockTypeOK, FaultsBounded
  <2> QED
    BY <2>4, <2>5, <2>6, <2>7, <2>8, <2>9 DEF TypeInv
<1>2. TypeInv /\ [Next]_vars => TypeInv'
  BY RequestsServed, OrdersStep, TasksStep, CountsStep, ViewsStep, QueuesStep, RunsStep, KeyStep DEF TypeInv
<1> QED
  BY <1>1, <1>2, PTL DEF Spec

\* Every reachable state is well typed.
THEOREM WellTyped == Spec => []TypeOK
<1>1. TypeInv => TypeOK
  <2> SUFFICES ASSUME TypeInv PROVE TypeOK
    OBVIOUS
  <2>1. DOMAIN tasks \subseteq TaskIds
    BY RequestsServed, Counted DEF TypeInv
  <2>2. bg \in [Procs -> SUBSET TaskIds]
        /\ poll \in [Procs -> [pc : {"top", "activate", "run"}, batch : SUBSET TaskIds]]
    BY <2>1 DEF TypeInv, QueuesOK
  <2>3. ASSUME NEW o \in Orders PROVE Cardinality(ActiveOf(tasks, o)) <= 1
    <3>1. \A t, u \in ActiveOf(tasks, o) : t = u
      BY DEF TypeInv, TasksOK, ActiveOf
    <3> QED
      BY <3>1, AtMostOne
  <2> QED
    BY <2>2, <2>3 DEF TypeInv, OrdersOK, TasksOK, CountsOK, RunsOK, RunStates, RunPcs, Statuses, LockOK, TypeOK
<1> QED
  BY <1>1, Invariant, PTL DEF Spec

-----------------------------------------------------------------------------
(***************************************************************************)
(* The projection.  What a request or a run has read of an order is what   *)
(* the order has, unless somebody else has committed since: then the       *)
(* commit that overlapped has excused the order.                           *)
(***************************************************************************)
ViewsCurrent ==
  \A q \in Requests : view[q] # NoView =>
    view[q].data = data[view[q].order] \/ view[q].order \in excused

RunsCurrent ==
  \A w \in Runs : run[w].pc \in Reading =>
    run[w].seen = data[OrderOf(w)] \/ OrderOf(w) \in excused

FactInv == FactFollowsData /\ ViewsCurrent /\ RunsCurrent

\* Others that have read the order.
Readers(o, q, w) ==
  \/ \E r \in Requests \ {q} : view[r] # NoView /\ view[r].order = o
  \/ \E x \in Runs \ {w} : run[x].pc \in Reading /\ OrderOf(x) = o

\* A save by a request or a run that ends its reading with it.
LEMMA SaveKeepsFacts ==
  ASSUME RequestsServed, TypeInv, TypeInv', TasksStay, FactInv, NEW o \in Orders, NEW old, NEW new, NEW overlap,
         SaveOrder(o, old, new, overlap), NEW q, NEW w, Readers(o, q, w) => overlap,
         old = data[o] \/ o \in excused,
         \A r \in Requests : view'[r] # NoView => r # q /\ view'[r] = view[r],
         \A x \in Runs : run'[x].pc \in Reading => x # w /\ run'[x] = run[x]
  PROVE  FactInv'
<1>1. data \in [Orders -> Data] /\ fact \in [Orders -> Data]
  BY DEF TypeInv, OrdersOK
<1>2. /\ excused \subseteq excused' /\ \A x \in Orders \ {o} : data'[x] = data[x] /\ fact'[x] = fact[x]
      /\ fact'[o] = new /\ data'[o] = (IF new = old THEN data[o] ELSE new)
      /\ data'[o] # data[o] /\ Readers(o, q, w) => o \in excused'
  BY <1>1 DEF SaveOrder
<1>3. FactFollowsData'
  BY <1>2 DEF FactInv, FactFollowsData
<1>4. ASSUME NEW r \in Requests, view'[r] # NoView
      PROVE  view'[r].data = data'[view'[r].order] \/ view'[r].order \in excused'
  <2>1. r # q /\ view'[r] = view[r] /\ view[r].order \in Orders
    BY <1>4 DEF TypeInv, ViewsOK, OrdersOK
  <2> QED
    BY <1>2, <1>4, <2>1 DEF FactInv, ViewsCurrent, Readers
<1>5. ASSUME NEW x \in Runs, run'[x].pc \in Reading
      PROVE  run'[x].seen = data'[OrderOf(x)'] \/ OrderOf(x)' \in excused'
  <2>1. x # w /\ run'[x] = run[x] /\ run[x].task \in DOMAIN tasks
    BY <1>5 DEF TypeInv, RunsOK, Reading
  <2>2. OrderOf(x)' = OrderOf(x) /\ OrderOf(x) \in Orders
    BY <2>1 DEF TasksStay, OrderOf, TypeInv, TasksOK, OrdersOK
  <2> QED
    BY <1>2, <1>5, <2>1, <2>2 DEF FactInv, RunsCurrent, Readers
<1> QED
  BY <1>3, <1>4, <1>5 DEF FactInv, ViewsCurrent, RunsCurrent

\* The columns orders are filtered by are those of the order, unless a transaction that
\* read the order earlier committed over another, or a projection failed.
THEOREM FactIsTrue == Spec => []FactFollowsData
<1>1. Init => FactInv
  BY DEF Init, FactInv, FactFollowsData, ViewsCurrent, RunsCurrent, NoRun, Reading
<1>2. TypeInv /\ TypeInv' /\ FactInv /\ [Next]_vars => FactInv'
  <2> SUFFICES ASSUME TypeInv, TypeInv', FactInv, [Next]_vars PROVE FactInv'
    OBVIOUS
  <2> USE RequestsServed DEF orderVars, requestVars, lockVars, history, RunVars, PollVars
  <2>0. /\ TasksStay /\ data \in [Orders -> Data] /\ fact \in [Orders -> Data]
        /\ \A q \in Requests : view[q] # NoView => view[q].order \in Orders
        /\ \A w \in Runs : run[w].pc \in Reading => run[w].task \in DOMAIN tasks
        /\ \A w \in Runs : run[w].pc \in Reading => OrderOf(w) \in Orders
    BY TasksStep, MergedTyped DEF TypeInv, OrdersOK, ViewsOK, RunsOK, Reading
  \* A step that leaves data and projection alone, and at most ends what has read them.
  <2>1. ASSUME UNCHANGED <<data, fact>>, excused \subseteq excused',
               \A q \in Requests : view'[q] # NoView =>
                 view'[q] = view[q] \/ view'[q].data = data[view'[q].order],
               \A w \in Runs : run'[w].pc \in Reading =>
                 \/ run[w].pc \in Reading /\ run'[w].seen = run[w].seen /\ run'[w].task = run[w].task
                 \/ run'[w].seen = data[OrderOf(w)']
        PROVE  FactInv'
    <3>1. FactFollowsData'
      BY <2>1 DEF FactInv, FactFollowsData
    <3>2. ViewsCurrent'
      BY <2>1 DEF FactInv, ViewsCurrent
    <3>3. ASSUME NEW w \in Runs, run'[w].pc \in Reading
          PROVE  run'[w].seen = data'[OrderOf(w)'] \/ OrderOf(w)' \in excused'
      <4>1. CASE run[w].pc \in Reading /\ run'[w].seen = run[w].seen /\ run'[w].task = run[w].task
        <5>1. OrderOf(w)' = OrderOf(w)
          BY <2>0, <4>1 DEF TasksStay, OrderOf
        <5> QED
          BY <2>1, <4>1, <5>1 DEF FactInv, RunsCurrent
      <4>2. CASE run'[w].seen = data[OrderOf(w)']
        BY <2>1, <4>2
      <4> QED
        BY <2>1, <3>3, <4>1, <4>2
    <3> QED
      BY <3>1, <3>2, <3>3 DEF FactInv, RunsCurrent
  <2>2. ASSUME UNCHANGED <<data, fact, excused, view, run>> PROVE FactInv'
    BY <2>1, <2>2
  <2>3. ASSUME UNCHANGED <<data, fact, excused, view>>, NEW w \in Runs, NEW new, run' = [run EXCEPT ![w] = new],
               new.pc \in Reading => run[w].pc \in Reading /\ new.seen = run[w].seen /\ new.task = run[w].task
        PROVE  FactInv'
    BY <2>1, <2>3 DEF TypeInv, RunsOK
  <2>create. ASSUME NEW o \in Orders, CreateOrder(o) PROVE FactInv'
    <3>1. /\ fact'[o] = data'[o] /\ \A x \in Orders \ {o} : data'[x] = data[x] /\ fact'[x] = fact[x]
          /\ UNCHANGED <<view, run, tasks, excused>> /\ o \notin created
      BY <2>0, <2>create DEF CreateOrder
    <3>2. FactFollowsData'
      BY <3>1 DEF FactInv, FactFollowsData
    <3>3. ViewsCurrent'
      BY <2>0, <3>1 DEF FactInv, ViewsCurrent, TypeInv, ViewsOK
    <3>4. \A w \in Runs : run[w].pc \in Reading => OrderOf(w) # o /\ OrderOf(w)' = OrderOf(w)
      BY <3>1, MergedTyped DEF OrderOf
    <3>5. RunsCurrent'
      BY <2>0, <3>1, <3>4 DEF FactInv, RunsCurrent
    <3> QED
      BY <3>2, <3>3, <3>5 DEF FactInv
  <2>begin. ASSUME NEW q \in Requests, NEW o \in Orders, Begin(q, o) PROVE FactInv'
    <3>1. Snapshot(o).order = o /\ Snapshot(o).data = data[o]
      BY DEF Snapshot
    <3>2. view' = [view EXCEPT ![q] = Snapshot(o)] /\ UNCHANGED <<data, fact, excused, run, tasks>>
      BY <2>begin DEF Begin
    <3>3. \A r \in Requests : view'[r] = view[r] \/ view'[r] = Snapshot(o)
      BY <3>2 DEF TypeInv, ViewsOK
    <3> HIDE DEF Snapshot
    <3> QED
      BY <2>1, <3>1, <3>2, <3>3
  <2>save. ASSUME NEW q \in Requests, NEW o \in Orders, Commits(q, o), UNCHANGED run,
                  \E new : SaveOrder(o, view[q].data, new, OverlapsOn(o, q))
           PROVE  FactInv'
    <3>1. \A r \in Requests : view'[r] # NoView => r # q /\ view'[r] = view[r]
      BY <2>save DEF Commits, TypeInv, ViewsOK
    <3>2. view[q].data = data[o] \/ o \in excused
      BY <2>save DEF Commits, FactInv, ViewsCurrent
    <3> DEFINE nobody == CHOOSE x : x \notin Runs
    <3>3. nobody \notin Runs
      BY NoSetContainsEverything
    <3> HIDE DEF nobody
    <3>4. Readers(o, q, nobody) => OverlapsOn(o, q)
      BY DEF Readers, OverlapsOn
    <3> QED
      BY <2>save, <2>0, <3>1, <3>2, <3>3, <3>4, SaveKeepsFacts
  <2>bind. ASSUME NEW q \in Requests, NEW o \in Orders, Bind(q, o) PROVE FactInv'
    <3>1. \A r \in Requests : view'[r] # NoView => view'[r] = view[r]
      BY <2>bind DEF Bind, Commits, TypeInv, ViewsOK
    <3>2. UNCHANGED <<data, fact, excused, run>>
      BY <2>bind DEF Bind
    <3> QED
      BY <2>1, <3>1, <3>2
  <2>load. ASSUME NEW w \in Runs, Load(w) PROVE FactInv'
    <3> DEFINE o == OrderOf(w)
               new == [run[w] EXCEPT !.pc = "recognise", !.ver = images[o].ver, !.seen = data[o],
                                     !.held = tasks[run[w].task].status]
    <3>1. run[w] \in RunStates /\ run[w].task \in DOMAIN tasks
      BY <2>load DEF Load, TypeInv, RunsOK
    <3>2. new.seen = data[o] /\ new.task = run[w].task
      BY <3>1 DEF RunStates
    <3>3. OrderOf(w)' = tasks[run'[w].task].order \/ OrderOf(w)' = tasks'[run'[w].task].order
      BY DEF OrderOf
    <3>4. CASE Readable(images[o])
      <4>1. run' = [run EXCEPT ![w] = new] /\ UNCHANGED <<tasks, data, fact, excused, view>>
        BY <2>load, <3>4 DEF Load
      <4> HIDE DEF new
      <4>2. OrderOf(w)' = o /\ run'[w].seen = data[o] /\ \A x \in Runs \ {w} : run'[x] = run[x]
        BY <4>1, <3>2 DEF OrderOf, TypeInv, RunsOK
      <4> QED
        BY <2>1, <4>1, <4>2
    <3>5. CASE EndRun(w)
      <4>1. run' = [run EXCEPT ![w] = NoRun] /\ NoRun.pc \notin Reading
        BY <3>5 DEF EndRun, NoRun, Reading
      <4> QED
        BY <2>load, <2>3, <4>1 DEF Load
    <3> QED
      BY <2>load, <3>4, <3>5 DEF Load
  <2>recognise. ASSUME NEW w \in Runs, Recognise(w) PROVE FactInv'
    <3>1. PICK found \in SUBSET Fields, result \in {"finished", "finished_with_errors"} :
            run' = [run EXCEPT ![w] = [run[w] EXCEPT !.pc = "check", !.held = "processing",
                                                     !.found = found, !.result = result]]
      BY <2>recognise DEF Recognise
    <3> DEFINE new == [run[w] EXCEPT !.pc = "check", !.held = "processing", !.found = found, !.result = result]
    <3>2. new.seen = run[w].seen /\ new.task = run[w].task
      BY DEF TypeInv, RunsOK, RunStates
    <3>3. run' = [run EXCEPT ![w] = new] /\ run[w].pc \in Reading /\ UNCHANGED <<data, fact, excused, view>>
      BY <2>recognise, <3>1 DEF Recognise, Reading
    <3> HIDE DEF new
    <3> QED
      BY <2>3, <3>2, <3>3
  <2>ends. ASSUME NEW w \in Runs, EndRun(w), UNCHANGED <<data, fact, excused, view>> PROVE FactInv'
    <3>1. run' = [run EXCEPT ![w] = NoRun] /\ NoRun.pc \notin Reading
      BY <2>ends DEF EndRun, NoRun, Reading
    <3> QED
      BY <2>3, <2>ends, <3>1
  <2>goto. ASSUME NEW w \in Runs, NEW pc, Goto(w, pc), UNCHANGED <<data, fact, excused, view>>,
                  pc \in Reading => run[w].pc \in Reading
           PROVE  FactInv'
    <3> DEFINE new == [run[w] EXCEPT !.pc = pc]
    <3>1. run' = [run EXCEPT ![w] = new] /\ new.seen = run[w].seen /\ new.task = run[w].task /\ new.pc = pc
      BY <2>goto DEF Goto, TypeInv, RunsOK, RunStates
    <3> HIDE DEF new
    <3> QED
      BY <2>3, <2>goto, <3>1
  <2>result. ASSUME NEW w \in Runs, SaveResult(w) PROVE FactInv'
    <3> DEFINE o == OrderOf(w)
               new == Merged(run[w].seen, run[w].found, run[w].ver)
               overlap == \/ \E r \in Requests : view[r] # NoView /\ view[r].order = o
                          \/ \E x \in Runs \ {w} : run[x].pc \in Reading /\ OrderOf(x) = o
    <3>1. SaveOrder(o, run[w].seen, new, overlap) /\ Goto(w, "finish") /\ UNCHANGED view
          /\ run[w].pc \in Reading
      BY <2>result DEF SaveResult, Reading
    <3>2. run[w].seen = data[o] \/ o \in excused
      BY <3>1 DEF FactInv, RunsCurrent
    <3> DEFINE nobody == CHOOSE x : x \notin Requests
    <3>3. nobody \notin Requests
      BY NoSetContainsEverything
    <3> HIDE DEF nobody
    <3>4. Readers(o, nobody, w) => overlap
      BY DEF Readers
    <3>5. o \in Orders
      BY <2>0, <3>1
    <3>6. \A x \in Runs : run'[x].pc \in Reading => x # w /\ run'[x] = run[x]
      BY <3>1 DEF Goto, TypeInv, RunsOK, RunStates, Reading
    <3> HIDE DEF o, new, overlap
    <3>7. \A r \in Requests : view'[r] # NoView => r # nobody /\ view'[r] = view[r]
      BY <3>1, <3>3
    <3> QED
      BY <2>0, <3>1, <3>2, <3>4, <3>5, <3>6, <3>7, SaveKeepsFacts
  <2>unsynced. ASSUME NEW w \in Runs, SyncFails(w) PROVE FactInv'
    <3> DEFINE o == OrderOf(w)
    <3>1. /\ o \in excused' /\ excused \subseteq excused' /\ \A x \in Orders \ {o} : data'[x] = data[x]
          /\ UNCHANGED <<fact, view>> /\ EndRun(w)
      BY <2>unsynced, <2>0 DEF SyncFails
    <3>2. \A x \in Runs : run'[x].pc \in Reading => run'[x] = run[x]
      BY <3>1 DEF EndRun, NoRun, Reading, TypeInv, RunsOK
    <3>3. FactFollowsData' /\ ViewsCurrent'
      <4> HIDE DEF o
      <4> QED
        BY <2>0, <3>1 DEF FactInv, FactFollowsData, ViewsCurrent
    <3>4. ASSUME NEW x \in Runs, run'[x].pc \in Reading
          PROVE  run'[x].seen = data'[OrderOf(x)'] \/ OrderOf(x)' \in excused'
      <4>1. run'[x] = run[x] /\ run[x].pc \in Reading
        BY <3>2, <3>4
      <4>2. OrderOf(x)' = OrderOf(x) /\ OrderOf(x) \in Orders
        BY <2>0, <4>1 DEF TasksStay, OrderOf
      <4> HIDE DEF o
      <4> QED
        BY <3>1, <4>1, <4>2 DEF FactInv, RunsCurrent
    <3> QED
      BY <3>3, <3>4 DEF FactInv, RunsCurrent
  <2>start. ASSUME NEW w \in Runs, NEW t, StartRun(w, t), UNCHANGED <<data, fact, excused, view>> PROVE FactInv'
    <3> DEFINE new == [NoRun EXCEPT !.pc = "claim", !.task = t]
    <3>1. UNCHANGED run \/ run' = [run EXCEPT ![w] = new]
      BY <2>start DEF StartRun
    <3>2. new.pc = "claim"
      BY DEF NoRun
    <3> HIDE DEF new
    <3> QED
      BY <2>2, <2>3, <2>start, <3>1, <3>2 DEF Reading
  <2>crash. ASSUME NEW p \in Procs, Crash(p) PROVE FactInv'
    <3>1. UNCHANGED <<data, fact, excused>>
      BY <2>crash DEF Crash
    <3>2. \A q \in Requests : view'[q] # NoView => view'[q] = view[q]
      BY <2>crash DEF Crash
    <3>3. \A w \in Runs : run'[w].pc \in Reading => run'[w] = run[w]
      BY <2>crash DEF Crash, NoRun, Reading
    <3> QED
      BY <2>1, <3>1, <3>2, <3>3
  <2> QED
    <3>1. ASSUME NEW q \in Requests, NEW o \in Orders, UpdateOrder(q, o) \/ Finalize(q, o) PROVE FactInv'
      BY <3>1, <2>save DEF UpdateOrder, Finalize
    <3>2. ASSUME NEW w \in Runs, Claim(w) PROVE FactInv'
      BY <3>2, <2>ends, <2>goto DEF Claim, Reading
    <3>3. ASSUME NEW w \in Runs, CheckImages(w) PROVE FactInv'
      BY <3>3, <2>ends, <2>goto DEF CheckImages, Reading
    <3>4. ASSUME NEW w \in Runs, FinishTask(w) \/ RunFails(w) \/ SessionBreaks(w) PROVE FactInv'
      BY <3>4, <2>ends DEF FinishTask, RunFails, SessionBreaks
    <3>5. ASSUME NEW p \in Procs, StartByPoller(p) PROVE FactInv'
      BY <3>5, <2>start DEF StartByPoller, Runs
    <3>6. ASSUME NEW p \in Procs, NEW t, StartInBackground(p, t) PROVE FactInv'
      BY <3>6, <2>start DEF StartInBackground, Runs
    <3>7. ASSUME NEW p \in Procs, \/ BecomePoller(p) \/ PollerStops(p) \/ PollRecover(p) \/ PollActivate(p)
                                  \/ PassEnds(p) \/ PollUnlocked(p)
          PROVE  FactInv'
      BY <3>7, <2>2 DEF BecomePoller, PollerStops, PollRecover, PollActivate, PassEnds, PollUnlocked, LockStep
    <3>8. CASE KeyForgotten \/ OrphanExpires \/ UNCHANGED vars
      BY <3>8, <2>2 DEF KeyForgotten, OrphanExpires, LockStep, vars
    <3> QED
      BY <2>create, <2>begin, <2>bind, <2>load, <2>recognise, <2>result, <2>unsynced, <2>crash,
         <3>1, <3>2, <3>3, <3>4, <3>5, <3>6, <3>7, <3>8 DEF Next, RequestStep, RunStep, PollStep
<1>3. FactInv => FactFollowsData
  BY DEF FactInv
<1> QED
  BY <1>1, <1>2, <1>3, Invariant, PTL DEF Spec

-----------------------------------------------------------------------------
(***************************************************************************)
(* The claim.  A run that has claimed its task works on a row in           *)
(* processing, which nobody else can claim; only the recovery puts such a  *)
(* row back, and only when its run is dead, as long as no slow run is      *)
(* taken for dead.                                                         *)
(***************************************************************************)
Working == RunPcs \ {"idle", "claim"}

ClaimInv ==
  /\ \A w \in Runs : run[w].pc \in Working => tasks[run[w].task].status = "processing"
  /\ \A w, x \in Runs :
       run[w].pc \in Working /\ run[x].pc \in Working /\ run[w].task = run[x].task => w = x

\* Every step keeps the claims apart.
LEMMA ClaimStep ==
  ASSUME RequestsServed, "slow" \notin FaultKinds, TypeInv, TypeInv', ClaimInv, [Next]_vars
  PROVE  ClaimInv'
<1> USE DEF orderVars, requestVars, lockVars, history, RunVars, PollVars
<1>0. /\ TasksStay /\ run \in [Runs -> RunStates]
      /\ \A w \in Runs : run[w].pc \in Working => run[w].task \in DOMAIN tasks
  BY TasksStep DEF TypeInv, RunsOK, Working
\* Runs that work on go on alone; their rows stay.
<1>1. ASSUME \A w \in Runs : run'[w].pc \in Working =>
               /\ run[w].pc \in Working /\ run'[w].task = run[w].task
               /\ tasks'[run[w].task].status = tasks[run[w].task].status
      PROVE  ClaimInv'
  BY <1>1 DEF ClaimInv
<1>2. CASE UNCHANGED <<run, tasks>>
  BY <1>1, <1>2
\* A run that works on, or ends.
<1>goes. ASSUME NEW w \in Runs, run[w].pc \in Working, NEW new \in RunStates, run' = [run EXCEPT ![w] = new],
                new.pc \in Working =>
                  new.task = run[w].task /\ tasks'[run[w].task].status = "processing",
                \A t \in DOMAIN tasks \ {run[w].task} : tasks'[t] = tasks[t]
         PROVE  ClaimInv'
  <2>1. \A x \in Runs : run'[x] = IF x = w THEN new ELSE run[x]
    BY <1>0, <1>goes
  <2>2. ASSUME NEW x \in Runs, run'[x].pc \in Working
        PROVE  /\ run[x].pc \in Working /\ run'[x].task = run[x].task
               /\ tasks'[run[x].task].status = tasks[run[x].task].status
    <3>1. CASE x = w
      BY <1>goes, <2>1, <2>2, <3>1 DEF ClaimInv
    <3>2. CASE x # w
      <4>1. run[x].pc \in Working /\ run'[x] = run[x]
        BY <2>1, <2>2, <3>2
      <4>2. run[x].task \in DOMAIN tasks \ {run[w].task}
        BY <1>0, <1>goes, <3>2, <4>1 DEF ClaimInv
      <4> QED
        BY <1>goes, <4>1, <4>2
    <3> QED
      BY <3>1, <3>2
  <2> QED
    BY <1>1, <2>2
\* A run that does not work yet starts, or gives up.
<1>waits. ASSUME NEW w \in Runs, NEW new, run' = [run EXCEPT ![w] = new], new.pc \notin Working, UNCHANGED tasks
          PROVE  ClaimInv'
  <2>1. \A x \in Runs : run'[x] = IF x = w THEN new ELSE run[x]
    BY <1>0, <1>waits
  <2> QED
    BY <1>1, <1>waits, <2>1
<1>none. NoRun \in RunStates /\ NoRun.pc \notin Working
  BY NoRunTyped DEF Working
<1>claim. ASSUME NEW w \in Runs, Claim(w) PROVE ClaimInv'
  <2> DEFINE t == run[w].task
             new == [run[w] EXCEPT !.pc = "load"]
  <2>1. CASE EndRun(w) /\ UNCHANGED tasks
    BY <1>waits, <1>none, <2>1 DEF EndRun
  <2>2. CASE /\ Claimable(t) /\ tasks' = [tasks EXCEPT ![t].status = "processing"] /\ Goto(w, "load")
    <3>1. t \in DOMAIN tasks /\ tasks[t] \in Task /\ run[w] \in RunStates
      BY <1>claim, ElementOfSeq, LenProperties DEF Claim, TypeInv, RunsOK, TasksOK
    <3>2. new.task = t /\ new.pc = "load" /\ run' = [run EXCEPT ![w] = new]
      BY <2>2, <3>1 DEF Goto, RunStates
    <3>3. tasks'[t].status = "processing" /\ \A u \in DOMAIN tasks \ {t} : tasks'[u] = tasks[u]
      BY <2>2, <3>1 DEF Task
    <3>4. \A x \in Runs : run[x].pc \in Working => run[x].task # t
      BY <2>2 DEF Claimable, ClaimInv
    <3> HIDE DEF new, t
    <3>5. \A x \in Runs : run'[x] = IF x = w THEN new ELSE run[x]
      BY <1>0, <3>2
    <3>6. \A x \in Runs : run'[x].pc \in Working => tasks'[run'[x].task].status = "processing"
      BY <1>0, <3>2, <3>3, <3>4, <3>5 DEF ClaimInv
    <3>7. \A x, y \in Runs :
            run'[x].pc \in Working /\ run'[y].pc \in Working /\ run'[x].task = run'[y].task => x = y
      BY <3>2, <3>4, <3>5 DEF ClaimInv
    <3> QED
      BY <3>6, <3>7 DEF ClaimInv
  <2> QED
    BY <1>claim, <2>1, <2>2 DEF Claim
<1>works. ASSUME NEW w \in Runs, \/ Load(w) \/ Recognise(w) \/ CheckImages(w) \/ SaveResult(w) \/ FinishTask(w)
                                 \/ RunFails(w) \/ SessionBreaks(w) \/ SyncFails(w)
          PROVE  ClaimInv'
  <2>1. run[w].pc \in Working /\ run[w] \in RunStates
    BY <1>works DEF Load, Recognise, CheckImages, SaveResult, FinishTask, RunFails, SessionBreaks, SyncFails,
                    Reading, Working, RunPcs, TypeInv, RunsOK
  <2>2. created' = created
    BY <1>works DEF Load, Recognise, CheckImages, SaveResult, FinishTask, RunFails, SessionBreaks, SyncFails,
                    orderVars
  <2>3. UNCHANGED tasks \/ \E s \in Statuses : SetTask(w, s)
    <3>1. run[w].result \in Statuses
      BY <2>1 DEF RunStates, Statuses
    <3> QED
      BY <1>works, <3>1 DEF Load, Recognise, CheckImages, SaveResult, FinishTask, RunFails, SessionBreaks,
                            SyncFails, Statuses, Ended
  <2>4. \A t \in DOMAIN tasks \ {run[w].task} : tasks'[t] = tasks[t]
    <3>1. ASSUME NEW s \in Statuses, SetTask(w, s)
          PROVE  \A t \in DOMAIN tasks \ {run[w].task} : tasks'[t] = tasks[t]
      BY <2>1, <2>2, <3>1, TaskSet, SMTT(30) DEF Working
    <3> QED
      BY <2>3, <3>1
  <2>5. EndRun(w) \/ UNCHANGED tasks \/ SetTask(w, "processing")
    BY <1>works DEF Load, Recognise, CheckImages, SaveResult, FinishTask, RunFails, SessionBreaks, SyncFails
  <2>6. EndRun(w) \/ tasks'[run[w].task].status = "processing"
    <3>1. CASE UNCHANGED tasks
      BY <2>1, <3>1 DEF ClaimInv
    <3>2. CASE SetTask(w, "processing")
      <4>1. tasks[run[w].task].status = "processing"
        BY <2>1 DEF ClaimInv
      <4> QED
        BY <2>1, <2>2, <3>2, <4>1, TaskSet DEF Working, Statuses
    <3> QED
      BY <2>5, <3>1, <3>2
  <2>7. CASE EndRun(w)
    BY <1>goes, <1>none, <2>1, <2>4, <2>7 DEF EndRun
  <2>8. CASE tasks'[run[w].task].status = "processing" /\ ~EndRun(w)
    <3>1. run'[w].task = run[w].task /\ run'[w] \in RunStates /\ run' = [run EXCEPT ![w] = run'[w]]
      <4>1. ASSUME NEW new, run' = [run EXCEPT ![w] = new], new.task = run[w].task
            PROVE  run'[w].task = run[w].task /\ run'[w] \in RunStates /\ run' = [run EXCEPT ![w] = run'[w]]
        BY <4>1, <1>0 DEF TypeInv, RunsOK
      <4>2. CASE Load(w)
        <5> DEFINE new == [run[w] EXCEPT !.pc = "recognise", !.ver = images[OrderOf(w)].ver,
                                         !.seen = data[OrderOf(w)], !.held = tasks[run[w].task].status]
        <5>1. run' = [run EXCEPT ![w] = new]
          BY <2>8, <4>2 DEF Load
        <5>2. new.task = run[w].task
          BY <2>1 DEF RunStates
        <5> HIDE DEF new
        <5> QED
          BY <4>1, <5>1, <5>2
      <4>3. CASE Recognise(w)
        <5>1. PICK found \in SUBSET Fields, result \in {"finished", "finished_with_errors"} :
                run' = [run EXCEPT ![w] = [run[w] EXCEPT !.pc = "check", !.held = "processing",
                                                         !.found = found, !.result = result]]
          BY <4>3 DEF Recognise
        <5> DEFINE new == [run[w] EXCEPT !.pc = "check", !.held = "processing",
                                         !.found = found, !.result = result]
        <5>2. new.task = run[w].task
          BY <2>1 DEF RunStates
        <5>3. run' = [run EXCEPT ![w] = new]
          BY <5>1
        <5> HIDE DEF new
        <5> QED
          BY <4>1, <5>2, <5>3
      <4>4. CASE \E pc : Goto(w, pc)
        <5>1. PICK pc : run' = [run EXCEPT ![w].pc = pc]
          BY <4>4 DEF Goto
        <5> DEFINE new == [run[w] EXCEPT !.pc = pc]
        <5>2. new.task = run[w].task /\ run' = [run EXCEPT ![w] = new]
          BY <2>1, <5>1 DEF RunStates
        <5> HIDE DEF new
        <5> QED
          BY <4>1, <5>2
      <4> QED
        BY <1>works, <2>8, <4>2, <4>3, <4>4
           DEF CheckImages, SaveResult, FinishTask, RunFails, SessionBreaks, SyncFails
    <3> QED
      BY <1>goes, <2>1, <2>4, <2>8, <3>1
  <2> QED
    BY <2>6, <2>7, <2>8, SMTT(30)
<1>recover. ASSUME NEW p \in Procs, PollRecover(p) PROVE ClaimInv'
  <2>1. PICK stale \in Stale :
          tasks' = [t \in DOMAIN tasks |-> IF t \in stale THEN [tasks[t] EXCEPT !.status = "pending"]
                                           ELSE tasks[t]]
    BY <1>recover DEF PollRecover
  <2>2. stale = Abandoned
    BY DEF Stale
  <2>3. \A w \in Runs : run[w].pc \in Working => run[w].task \notin Abandoned
    BY DEF Abandoned, LiveOn, Working
  <2>4. UNCHANGED run
    BY <1>recover DEF PollRecover
  <2> QED
    BY <1>0, <1>1, <2>1, <2>2, <2>3, <2>4
<1>activate. ASSUME NEW p \in Procs, PollActivate(p) PROVE ClaimInv'
  <2>1. \A t \in DOMAIN tasks : tasks'[t].status = tasks[t].status
    <3>1. \A t \in DOMAIN tasks : tasks[t] \in Task
      BY ElementOfSeq, LenProperties DEF TypeInv, TasksOK
    <3> QED
      BY <1>activate, <3>1 DEF PollActivate, Task
  <2> QED
    BY <1>0, <1>1, <1>activate, <2>1 DEF PollActivate
<1>request. ASSUME NEW q \in Requests, NEW o \in Orders, RequestStep(q, o) PROVE ClaimInv'
  <2>1. UNCHANGED run
    BY <1>request DEF RequestStep, Begin, UpdateOrder, Bind, Finalize
  <2>2. \A t \in DOMAIN tasks : tasks'[t] = tasks[t]
    <3>1. CASE UNCHANGED tasks
      BY <3>1
    <3>2. ASSUME NEW trigger, Commits(q, o), BindImages(q, o, trigger)
          PROVE  \A t \in DOMAIN tasks : tasks'[t] = tasks[t]
      <4>1. view[q] # NoView /\ tasks \in Seq(Task)
        BY <3>2, Committed DEF TypeInv, TasksOK
      <4>2. UNCHANGED tasks \/ \E enqueue : GetOrCreateTask(q, o, tasks', enqueue)
        BY <3>2 DEF BindImages
      <4>3. tasks' = tasks \/ \E a \in BOOLEAN : tasks' = Append(tasks, NewTask(o, a))
        BY <4>1, <4>2, Enqueued
      <4> QED
        BY <4>1, <4>3
    <3> QED
      BY <1>request, <3>1, <3>2 DEF RequestStep, Begin, UpdateOrder, Bind, Finalize
  <2> QED
    BY <1>0, <1>1, <2>1, <2>2
<1>start. ASSUME NEW w \in Runs, NEW t, StartRun(w, t), UNCHANGED tasks PROVE ClaimInv'
  <2>1. UNCHANGED run \/ run' = [run EXCEPT ![w] = [NoRun EXCEPT !.pc = "claim", !.task = t]]
    BY <1>start DEF StartRun
  <2>2. [NoRun EXCEPT !.pc = "claim", !.task = t].pc \notin Working
    BY DEF NoRun, Working
  <2> QED
    BY <1>2, <1>waits, <1>start, <2>1, <2>2
<1>crash. ASSUME NEW p \in Procs, Crash(p) PROVE ClaimInv'
  <2>1. run' = [w \in Runs |-> IF HomeOf(w) = p THEN NoRun ELSE run[w]] /\ UNCHANGED tasks
    BY <1>crash DEF Crash
  <2> QED
    BY <1>1, <1>none, <2>1
<1> QED
  <2>1. ASSUME NEW o \in Orders, CreateOrder(o) PROVE ClaimInv'
    BY <2>1, <1>2 DEF CreateOrder
  <2>2. ASSUME NEW p \in Procs, StartByPoller(p) PROVE ClaimInv'
    BY <2>2, <1>start DEF StartByPoller, Runs
  <2>3. ASSUME NEW p \in Procs, NEW t, StartInBackground(p, t) PROVE ClaimInv'
    BY <2>3, <1>start DEF StartInBackground, Runs
  <2>4. ASSUME NEW p \in Procs, BecomePoller(p) \/ PollerStops(p) \/ PassEnds(p) \/ PollUnlocked(p)
        PROVE  ClaimInv'
    BY <2>4, <1>2 DEF BecomePoller, PollerStops, PassEnds, PollUnlocked, LockStep
  <2>5. CASE KeyForgotten \/ OrphanExpires \/ UNCHANGED vars
    BY <2>5, <1>2 DEF KeyForgotten, OrphanExpires, LockStep, vars
  <2> QED
    BY <1>claim, <1>works, <1>recover, <1>activate, <1>request, <1>crash, <2>1, <2>2, <2>3, <2>4, <2>5
       DEF Next, RunStep, PollStep

\* Two workers poll under the startup lock at once only if one outlived its TTL, and two
\* runs never work on one task, as long as no slow run is taken for dead.
THEOREM RunsAreAlone == ASSUME "slow" \notin FaultKinds PROVE Spec => []RunsAlone
<1>1. Init => ClaimInv
  BY DEF Init, ClaimInv, NoRun, Working
<1>2. TypeInv /\ TypeInv' /\ ClaimInv /\ [Next]_vars => ClaimInv'
  BY ClaimStep, RequestsServed
<1>3. TypeInv /\ ClaimInv => RunsAlone
  <2> SUFFICES ASSUME TypeInv, ClaimInv PROVE RunsAlone
    OBVIOUS
  <2>1. Lock!AloneUnlessLapsed
    BY DEF TypeInv, LockOK, Lock!AloneUnlessLapsed
  <2>2. ASSUME NEW t \in TaskIds PROVE Cardinality(LiveOn(t)) <= 1
    <3>1. \A w, x \in LiveOn(t) : w = x
      BY DEF LiveOn, ClaimInv, Working, TypeInv, RunsOK, RunStates
    <3> QED
      BY <3>1, AtMostOne
  <2> QED
    BY <2>1, <2>2 DEF RunsAlone
<1> QED
  BY <1>1, <1>2, <1>3, Invariant, PTL DEF Spec

-----------------------------------------------------------------------------
(***************************************************************************)
(* New images.  While images that somebody wants recognised have not been  *)
(* read, the order has a task that is not over and whose run, if it has    *)
(* already read the images, has read these.                                *)
(***************************************************************************)
Late == Reading \cup {"finish"}

\* A task that is not over, and its run has not read older images than those wanted.
Waits(t) ==
  /\ tasks[t].status \notin Ended
  /\ \A w \in Runs : run[w].pc \in Late /\ run[w].task = t => run[w].ver >= wanted[tasks[t].order]

Awaited(o) == \E t \in DOMAIN tasks : tasks[t].order = o /\ Waits(t)

ActiveIsOpen == \A t \in DOMAIN tasks : tasks[t].active => tasks[t].status \notin Ended

ScanInv ==
  /\ ActiveIsOpen
  /\ \A o \in Orders : wanted[o] <= images[o].ver
  /\ \A o \in Orders : scanned[o] >= wanted[o] \/ o \in dated \/ Awaited(o)

\* Only a task that is not over holds the active scope of its order.
LEMMA ActiveStep ==
  ASSUME RequestsServed, TypeInv, ActiveIsOpen, [Next]_vars
  PROVE  ActiveIsOpen'
<1> USE DEF orderVars, requestVars, lockVars, history, RunVars, PollVars
<1>0. /\ tasks \in Seq(Task) /\ DOMAIN tasks = 1 .. Len(tasks) /\ Len(tasks) \in Nat
      /\ \A t \in DOMAIN tasks : tasks[t] \in Task
  BY ElementOfSeq, LenProperties DEF TypeInv, TasksOK
<1>1. CASE UNCHANGED tasks
  BY <1>1 DEF ActiveIsOpen
\* Each row as it was, or one that keeps the rule itself.
<1>2. ASSUME DOMAIN tasks' = DOMAIN tasks,
             \A t \in DOMAIN tasks : \/ tasks'[t] = tasks[t]
                                     \/ tasks'[t].active => tasks'[t].status \notin Ended
      PROVE  ActiveIsOpen'
  BY <1>2 DEF ActiveIsOpen
<1>bind. ASSUME NEW q \in Requests, NEW o \in Orders, NEW trigger, Commits(q, o), BindImages(q, o, trigger)
         PROVE  ActiveIsOpen'
  <2>1. view[q] # NoView
    BY <1>bind, Committed
  <2>2. UNCHANGED tasks \/ \E enqueue : GetOrCreateTask(q, o, tasks', enqueue)
    BY <1>bind DEF BindImages
  <2>3. UNCHANGED tasks \/ \E a \in BOOLEAN : tasks' = Append(tasks, NewTask(o, a))
    BY <2>1, <2>2, Enqueued
  <2>4. ASSUME NEW a \in BOOLEAN, tasks' = Append(tasks, NewTask(o, a)) PROVE ActiveIsOpen'
    <3>1. NewTask(o, a) \in Task /\ NewTask(o, a).status \notin Ended
      BY DEF NewTask, Task, Ended
    <3>2. /\ DOMAIN tasks' = 1 .. Len(tasks) + 1
          /\ \A t \in DOMAIN tasks : tasks'[t] = tasks[t]
          /\ tasks'[Len(tasks) + 1] = NewTask(o, a)
      BY <1>0, <2>4, <3>1, AppendProperties, LenProperties
    <3> QED
      BY <1>0, <3>1, <3>2 DEF ActiveIsOpen
  <2> QED
    BY <1>1, <2>3, <2>4
<1>claim. ASSUME NEW w \in Runs, Claim(w) PROVE ActiveIsOpen'
  <2>1. CASE tasks' = [tasks EXCEPT ![run[w].task].status = "processing"]
    <3>1. DOMAIN tasks' = DOMAIN tasks
      BY <2>1
    <3>2. \A t \in DOMAIN tasks : tasks'[t] = tasks[t] \/ tasks'[t].status = "processing"
      BY <1>0, <2>1 DEF Task
    <3> QED
      BY <1>2, <3>1, <3>2 DEF Ended
  <2> QED
    BY <1>1, <1>claim, <2>1 DEF Claim
<1>set. ASSUME NEW w \in Runs, NEW s \in Statuses, SetTask(w, s), run[w].pc # "idle" PROVE ActiveIsOpen'
  <2> DEFINE t == run[w].task
             written == IF s = run[w].held THEN tasks[t].status ELSE s
             active == tasks[t].active /\ s \notin Ended
             new == [tasks[t] EXCEPT !.status = written, !.active = active]
  <2>1. t \in DOMAIN tasks
    BY <1>set DEF TypeInv, RunsOK
  <2>2. new.status = written /\ new.active = active
    BY <1>0, <2>1 DEF Task
  <2>3. tasks' = [tasks EXCEPT ![t] = new]
    BY <1>set DEF SetTask
  <2>4. active => written \notin Ended
    BY <2>1 DEF ActiveIsOpen
  <2>5. new.active => new.status \notin Ended
    BY <2>2, <2>4
  <2> HIDE DEF new, t
  <2> QED
    BY <1>2, <2>1, <2>3, <2>5
<1>recover. ASSUME NEW p \in Procs, PollRecover(p) PROVE ActiveIsOpen'
  <2>1. PICK stale \in Stale :
          tasks' = [t \in DOMAIN tasks |-> IF t \in stale THEN [tasks[t] EXCEPT !.status = "pending"]
                                           ELSE tasks[t]]
    BY <1>recover DEF PollRecover
  <2>2. \A t \in DOMAIN tasks : tasks'[t] = tasks[t] \/ tasks'[t].status = "pending"
    BY <1>0, <2>1 DEF Task
  <2> QED
    BY <1>2, <2>1, <2>2 DEF Ended
<1>activate. ASSUME NEW p \in Procs, PollActivate(p) PROVE ActiveIsOpen'
  <2>1. \A t \in Activated : tasks[t].status = "pending"
    <3>1. ASSUME NEW t \in Activated PROVE t \in QueuedOf(tasks, tasks[t].order)
      <4>1. QueuedOf(tasks, tasks[t].order) \in SUBSET Nat
        BY <1>0 DEF QueuedOf
      <4> QED
        BY <4>1, LowestIn DEF Activated
    <3> QED
      BY <3>1 DEF QueuedOf
  <2>2. \A t \in DOMAIN tasks : tasks'[t] = tasks[t] \/ tasks'[t].status = "pending"
    BY <1>0, <1>activate, <2>1 DEF PollActivate, Task
  <2> QED
    BY <1>2, <1>activate, <2>2 DEF PollActivate, Ended
<1> QED
  <2>1. ASSUME NEW o \in Orders, CreateOrder(o) PROVE UNCHANGED tasks
    BY <2>1 DEF CreateOrder
  <2>2. ASSUME NEW q \in Requests, NEW o \in Orders, RequestStep(q, o) PROVE ActiveIsOpen'
    BY <2>2, <1>1, <1>bind DEF RequestStep, Begin, UpdateOrder, Bind, Finalize
  <2>3. ASSUME NEW w \in Runs, \/ Load(w) \/ Recognise(w) \/ CheckImages(w) \/ SaveResult(w)
                               \/ FinishTask(w) \/ RunFails(w) \/ SessionBreaks(w) \/ SyncFails(w)
        PROVE  ActiveIsOpen'
    <3>1. run[w].pc # "idle"
      BY <2>3 DEF Load, Recognise, CheckImages, SaveResult, FinishTask, RunFails, SessionBreaks, SyncFails,
                  Reading
    <3>2. UNCHANGED tasks \/ \E s \in Statuses : SetTask(w, s)
      <4>1. run[w].result \in Statuses
        BY DEF TypeInv, RunsOK, RunStates, Statuses
      <4> QED
        BY <2>3, <4>1 DEF Load, Recognise, CheckImages, SaveResult, FinishTask, RunFails, SessionBreaks,
                          SyncFails, Statuses, Ended
    <3> QED
      BY <1>1, <1>set, <3>1, <3>2
  <2>4. ASSUME NEW p \in Procs, \/ BecomePoller(p) \/ PollerStops(p) \/ StartByPoller(p) \/ PassEnds(p)
                                \/ PollUnlocked(p) \/ Crash(p)
        PROVE  UNCHANGED tasks
    BY <2>4 DEF BecomePoller, PollerStops, StartByPoller, PassEnds, PollUnlocked, Crash, LockStep
  <2>5. ASSUME NEW p \in Procs, NEW t, StartInBackground(p, t) PROVE UNCHANGED tasks
    BY <2>5 DEF StartInBackground
  <2>6. CASE KeyForgotten \/ OrphanExpires \/ UNCHANGED vars
    BY <2>6, <1>1 DEF KeyForgotten, OrphanExpires, LockStep, vars
  <2> QED
    BY <1>1, <1>claim, <1>recover, <1>activate, <2>1, <2>2, <2>3, <2>4, <2>5, <2>6
       DEF Next, RunStep, PollStep

\* A commit asks for the images it leaves, and images only get newer.
LEMMA AskedStep ==
  ASSUME RequestsServed, TypeInv, TypeInv', \A o \in Orders : wanted[o] <= images[o].ver, [Next]_vars
  PROVE  \A o \in Orders : wanted'[o] <= images'[o].ver
<1> USE DEF orderVars, requestVars, lockVars, history, RunVars, PollVars
<1>0. \A o \in Orders : wanted[o] \in Nat /\ images[o].ver \in Nat /\ images'[o].ver \in Nat
  BY DEF TypeInv, OrdersOK, Versions, Images
<1>1. CASE UNCHANGED <<wanted, images>>
  BY <1>1
<1>bind. ASSUME NEW q \in Requests, NEW o \in Orders, NEW trigger, Commits(q, o), BindImages(q, o, trigger)
         PROVE  \A x \in Orders : wanted'[x] <= images'[x].ver
  <2>1. q \notin served
    BY <1>bind DEF Commits, TypeInv, ViewsOK
  <2>2. \A x \in Orders : images[x].ver <= images'[x].ver
    BY <1>bind, <2>1, BoundTyped
  <2>3. UNCHANGED wanted \/ wanted' = [wanted EXCEPT ![o] = images'[o].ver]
    BY <1>bind DEF BindImages, TypeInv, OrdersOK
  <2> QED
    BY <1>0, <2>2, <2>3 DEF TypeInv, OrdersOK
<1> QED
  <2>1. ASSUME NEW o \in Orders, CreateOrder(o) PROVE UNCHANGED <<wanted, images>>
    BY <2>1 DEF CreateOrder
  <2>2. ASSUME NEW q \in Requests, NEW o \in Orders, RequestStep(q, o)
        PROVE  \A x \in Orders : wanted'[x] <= images'[x].ver
    BY <2>2, <1>1, <1>bind DEF RequestStep, Begin, UpdateOrder, Bind, Finalize
  <2>3. ASSUME NEW w \in Runs, \/ RunStep(w) \/ RunFails(w) \/ SessionBreaks(w) \/ SyncFails(w)
        PROVE  UNCHANGED <<wanted, images>>
    BY <2>3 DEF RunStep, Claim, Load, Recognise, CheckImages, SaveResult, FinishTask, RunFails, SessionBreaks,
                SyncFails
  <2>4. ASSUME NEW p \in Procs, \/ PollStep(p) \/ PollUnlocked(p) \/ Crash(p)
        PROVE  UNCHANGED <<wanted, images>>
    BY <2>4 DEF PollStep, BecomePoller, PollerStops, PollRecover, PollActivate, StartByPoller, PassEnds,
                PollUnlocked, Crash, LockStep
  <2>5. ASSUME NEW p \in Procs, NEW t, StartInBackground(p, t) PROVE UNCHANGED <<wanted, images>>
    BY <2>5 DEF StartInBackground
  <2>6. CASE KeyForgotten \/ OrphanExpires \/ UNCHANGED vars
    BY <2>6, <1>1 DEF KeyForgotten, OrphanExpires, LockStep, vars
  <2> QED
    BY <1>1, <2>1, <2>2, <2>3, <2>4, <2>5, <2>6 DEF Next
Promised == \A o \in Orders : scanned[o] >= wanted[o] \/ o \in dated \/ Awaited(o)

\* Where two looks at the tasks of an order agree, they agree on each.
LEMMA TaskKnown ==
  ASSUME NEW ts, NEW us, NEW o, TasksOf(ts, o) = TasksOf(us, o), NEW t \in DOMAIN ts, ts[t].order = o
  PROVE  t \in DOMAIN us /\ us[t] = ts[t]
<1>1. <<t, ts[t]>> \in TasksOf(us, o)
  BY DEF TasksOf
<1>2. PICK u \in DOMAIN us : us[u].order = o /\ <<t, ts[t]>> = <<u, us[u]>>
  BY <1>1 DEF TasksOf
<1>3. t = u /\ ts[t] = us[u]
  BY <1>2
<1> QED
  BY <1>3

\* So is which of them is active or queued.
LEMMA SameTasks ==
  ASSUME NEW ts, NEW us, NEW o, TasksOf(ts, o) = TasksOf(us, o)
  PROVE  /\ ActiveOf(ts, o) = ActiveOf(us, o) /\ QueuedOf(ts, o) = QueuedOf(us, o)
         /\ \A t \in ActiveOf(us, o) : ts[t] = us[t]
<1>1. \A t : (t \in DOMAIN ts /\ ts[t].order = o) <=> (t \in DOMAIN us /\ us[t].order = o)
  BY TaskKnown
<1>2. \A t \in DOMAIN us : us[t].order = o => ts[t] = us[t]
  BY TaskKnown
<1> QED
  BY <1>1, <1>2 DEF ActiveOf, QueuedOf

\* A run that reads images reads the newest; whatever else happens to it, its task or the
\* images, somebody is left who will.
LEMMA PromisedStep ==
  ASSUME RequestsServed, TypeInv, TypeInv', ClaimInv, ActiveIsOpen, Promised,
         \A o \in Orders : wanted[o] <= images[o].ver, "slow" \notin FaultKinds, [Next]_vars
  PROVE  Promised'
<1> USE DEF orderVars, requestVars, lockVars, history, RunVars, PollVars
<1> DEFINE LateGoesOn ==
             \A w \in Runs : run'[w].pc \in Late =>
               run[w].pc \in Late /\ run'[w].task = run[w].task /\ run'[w].ver = run[w].ver
           StaysOpen(t) == tasks[t].status \notin Ended => tasks'[t].status \notin Ended
<1>0. /\ TasksStay /\ run \in [Runs -> RunStates] /\ tasks \in Seq(Task)
      /\ \A w \in Runs : run[w].pc # "idle" => run[w].task \in DOMAIN tasks
      /\ \A t \in DOMAIN tasks : tasks[t] \in Task /\ tasks[t].order \in Orders
      /\ DOMAIN tasks = 1 .. Len(tasks) /\ Len(tasks) \in Nat
  <2>1. TasksStay /\ run \in [Runs -> RunStates] /\ \A w \in Runs : run[w].pc # "idle" => run[w].task \in DOMAIN tasks
    BY TasksStep DEF TypeInv, RunsOK
  <2>2. /\ tasks \in Seq(Task) /\ DOMAIN tasks = 1 .. Len(tasks) /\ Len(tasks) \in Nat
        /\ \A t \in DOMAIN tasks : tasks[t] \in Task
    BY ElementOfSeq, LenProperties DEF TypeInv, TasksOK
  <2>3. \A t \in DOMAIN tasks : tasks[t].order \in Orders
    BY <2>2 DEF Task
  <2> QED
    BY <2>1, <2>2, <2>3
<1>nat. /\ \A o \in Orders : /\ wanted[o] \in Nat /\ scanned[o] \in Nat /\ images[o].ver \in Nat
                             /\ wanted'[o] \in Nat /\ scanned'[o] \in Nat
        /\ \A w \in Runs : run[w].ver \in Nat
  BY DEF TypeInv, OrdersOK, RunsOK, RunStates, Versions, Images
\* Order by order: what was read is not forgotten, and a task that waits goes on waiting
\* or its order has been read.
<1>keeps. ASSUME NEW o \in Orders, wanted'[o] = wanted[o], scanned'[o] >= scanned[o],
                 o \in dated => o \in dated',
                 \A t \in DOMAIN tasks : tasks[t].order = o /\ Waits(t) =>
                   scanned'[o] >= wanted[o] \/ Waits(t)'
          PROVE  (scanned[o] >= wanted[o] \/ o \in dated \/ Awaited(o))'
  <2>1. CASE scanned[o] >= wanted[o]
    BY <1>nat, <1>keeps, <2>1
  <2>0. CASE o \in dated
    BY <1>keeps, <2>0
  <2>2. CASE Awaited(o)
    <3>1. PICK t \in DOMAIN tasks : tasks[t].order = o /\ Waits(t)
      BY <2>2 DEF Awaited
    <3>2. t \in DOMAIN tasks' /\ tasks'[t].order = o
      BY <1>0, <3>1 DEF TasksStay
    <3> QED
      BY <1>keeps, <3>1, <3>2 DEF Awaited
  <2> QED
    BY <2>0, <2>1, <2>2 DEF Promised
<1>waits. ASSUME NEW t \in DOMAIN tasks, Waits(t), StaysOpen(t), wanted'[tasks[t].order] = wanted[tasks[t].order],
                 LateGoesOn
          PROVE  Waits(t)'
  BY <1>0, <1>waits DEF Waits, TasksStay
\* Steps that end no task and read no images.
<1>quiet. ASSUME UNCHANGED <<wanted, scanned, dated>>, LateGoesOn, \A t \in DOMAIN tasks : StaysOpen(t)
          PROVE  Promised'
  <2>1. \A t \in DOMAIN tasks : Waits(t) => Waits(t)'
    BY <1>quiet, <1>waits
  <2> QED
    BY <1>quiet, <1>keeps, <1>nat, <2>1 DEF Promised
<1>none. NoRun.pc \notin Late
  BY DEF NoRun, Late, Reading
<1>same. CASE UNCHANGED <<wanted, scanned, dated, run, tasks>>
  BY <1>quiet, <1>same
\* A run ends with its task: what it has read has been read.
<1>ends. ASSUME NEW w \in Runs, run[w].pc \in Late, NEW s \in Statuses, SetTask(w, s), Scanned(w), EndRun(w),
                UNCHANGED <<wanted, dated, created>>
         PROVE  Promised'
  <2> DEFINE t == run[w].task
  <2>1. t \in DOMAIN tasks /\ OrderOf(w) \in Orders /\ OrderOf(w) = tasks[t].order
    BY <1>0, <1>ends DEF Late, Reading, OrderOf
  <2>2. \A u \in DOMAIN tasks \ {t} : StaysOpen(u)
    <3>1. run[w].pc # "idle"
      BY <1>ends DEF Late, Reading
    <3> QED
      BY <1>ends, <3>1, TaskSet
  <2>3. LateGoesOn
    BY <1>0, <1>ends, <1>none DEF EndRun
  <2>4. /\ scanned' = [scanned EXCEPT ![OrderOf(w)] = IF run[w].ver > scanned[OrderOf(w)] THEN run[w].ver
                                                      ELSE scanned[OrderOf(w)]]
        /\ scanned \in [Orders -> Versions]
    BY <1>ends DEF Scanned, TypeInv, OrdersOK
  <2>5. \A o \in Orders : scanned'[o] >= scanned[o]
    BY <1>nat, <2>1, <2>4
  <2>6. scanned'[OrderOf(w)] >= run[w].ver
    BY <1>nat, <2>1, <2>4
  <2>7. Waits(t) => run[w].ver >= wanted[OrderOf(w)]
    BY <1>ends, <2>1 DEF Waits
  <2>8. Waits(t) => scanned'[OrderOf(w)] >= wanted[OrderOf(w)]
    BY <1>nat, <2>1, <2>6, <2>7
  <2>9. \A u \in DOMAIN tasks \ {t} : Waits(u) => Waits(u)'
    BY <1>ends, <1>waits, <2>2, <2>3
  <2> QED
    BY <1>ends, <1>keeps, <2>1, <2>5, <2>8, <2>9 DEF Promised
<1>load. ASSUME NEW w \in Runs, Load(w) PROVE Promised'
  <2> DEFINE t == run[w].task
             o == OrderOf(w)
             new == [run[w] EXCEPT !.pc = "recognise", !.ver = images[o].ver, !.seen = data[o],
                                   !.held = tasks[t].status]
  <2>1. t \in DOMAIN tasks /\ o \in Orders /\ o = tasks[t].order /\ run[w].pc = "load" /\ UNCHANGED <<wanted, dated>>
    BY <1>0, <1>load DEF Load, OrderOf
  <2>2. CASE Readable(images[o]) /\ UNCHANGED <<tasks, scanned>> /\ run' = [run EXCEPT ![w] = new]
    <3>1. new.ver = images[o].ver /\ new.task = t
      BY <1>0 DEF RunStates
    <3> HIDE DEF new
    <3>2. \A x \in Runs : run'[x] = IF x = w THEN new ELSE run[x]
      BY <1>0, <2>2
    <3>3. ASSUME NEW u \in DOMAIN tasks, Waits(u) PROVE Waits(u)'
      BY <2>1, <2>2, <3>1, <3>2, <3>3 DEF Waits
    <3> QED
      BY <1>keeps, <1>nat, <2>1, <2>2, <3>3 DEF Promised
  <2>3. CASE SetTask(w, "skipped") /\ scanned' = [scanned EXCEPT ![o] = images[o].ver] /\ EndRun(w)
    <3>1. \A u \in DOMAIN tasks \ {t} : StaysOpen(u)
      <4>1. created' = created
        BY <1>load DEF Load
      <4> QED
        BY <2>1, <2>3, <4>1, TaskSet DEF Statuses, Ended
    <3>2. LateGoesOn
      BY <1>0, <2>3, <1>none DEF EndRun
    <3>3. scanned'[o] = images[o].ver /\ \A x \in Orders \ {o} : scanned'[x] = scanned[x]
      BY <2>1, <2>3 DEF TypeInv, OrdersOK
    <3>4. \A u \in DOMAIN tasks : tasks[u].order # o /\ Waits(u) => Waits(u)'
      BY <1>waits, <2>1, <3>1, <3>2
    <3>5. scanned'[o] >= wanted'[o]
      BY <2>1, <3>3
    <3>6. ASSUME NEW x \in Orders \ {o} PROVE (scanned[x] >= wanted[x] \/ x \in dated \/ Awaited(x))'
      BY <1>keeps, <1>nat, <2>1, <3>3, <3>4
    <3> QED
      BY <3>5, <3>6 DEF Promised
  <2> QED
    BY <1>load, <2>2, <2>3 DEF Load
\* A run that reports, looks at the images again or saves.
<1>works. ASSUME NEW w \in Runs, Recognise(w) \/ CheckImages(w) \/ SaveResult(w) \/ SessionBreaks(w)
          PROVE  Promised'
  <2>1. /\ run[w].pc \in Late /\ run[w] \in RunStates /\ run[w].pc # "idle"
        /\ UNCHANGED <<wanted, scanned, dated, created>>
    BY <1>0, <1>works DEF Recognise, CheckImages, SaveResult, SessionBreaks, Late, Reading
  <2>2. \E new : run' = [run EXCEPT ![w] = new] /\ (new.pc \notin Late \/ (new.task = run[w].task /\ new.ver = run[w].ver))
    <3>1. CASE EndRun(w)
      <4>1. run' = [run EXCEPT ![w] = NoRun]
        BY <3>1 DEF EndRun
      <4> WITNESS NoRun
      <4> QED
        BY <1>none, <4>1
    <3>2. CASE Recognise(w)
      <4>1. PICK found \in SUBSET Fields, result \in {"finished", "finished_with_errors"} :
              run' = [run EXCEPT ![w] = [run[w] EXCEPT !.pc = "check", !.held = "processing",
                                                       !.found = found, !.result = result]]
        BY <3>2 DEF Recognise
      <4>2. LET new == [run[w] EXCEPT !.pc = "check", !.held = "processing", !.found = found, !.result = result]
            IN  new.task = run[w].task /\ new.ver = run[w].ver
        BY <2>1 DEF RunStates
      <4> QED
        BY <4>1, <4>2
    <3>3. CASE \E pc : Goto(w, pc)
      <4>1. PICK pc : run' = [run EXCEPT ![w] = [run[w] EXCEPT !.pc = pc]]
        BY <3>3 DEF Goto
      <4>2. [run[w] EXCEPT !.pc = pc].task = run[w].task /\ [run[w] EXCEPT !.pc = pc].ver = run[w].ver
        BY <2>1 DEF RunStates
      <4> QED
        BY <4>1, <4>2
    <3> QED
      BY <1>works, <3>1, <3>2, <3>3 DEF CheckImages, SaveResult, SessionBreaks
  <2>3. LateGoesOn
    BY <1>0, <2>1, <2>2, SMTT(30)
  <2>4. UNCHANGED tasks \/ SetTask(w, "processing") \/ SetTask(w, "pending")
    BY <1>works DEF Recognise, CheckImages, SaveResult, SessionBreaks
  <2>5. ASSUME NEW s \in {"processing", "pending"}, SetTask(w, s) PROVE \A t \in DOMAIN tasks : StaysOpen(t)
    <3>1. s \in Statuses /\ s \notin Ended
      BY DEF Statuses, Ended
    <3>2. /\ \A t \in DOMAIN tasks \ {run[w].task} : tasks'[t] = tasks[t]
          /\ tasks'[run[w].task].status = IF s = run[w].held THEN tasks[run[w].task].status ELSE s
      BY <2>1, <2>5, <3>1, TaskSet
    <3> QED
      BY <3>1, <3>2
  <2>6. \A t \in DOMAIN tasks : StaysOpen(t)
    BY <2>4, <2>5
  <2> QED
    BY <1>quiet, <2>1, <2>3, <2>6, SMTT(30)
<1>claim. ASSUME NEW w \in Runs, Claim(w) PROVE Promised'
  <2>1. UNCHANGED <<wanted, scanned, dated>>
    BY <1>claim DEF Claim
  <2>2. \E new : run' = [run EXCEPT ![w] = new] /\ new.pc \notin Late
    <3>1. [run[w] EXCEPT !.pc = "load"].pc \notin Late
      BY <1>0 DEF RunStates, Late, Reading
    <3> QED
      BY <1>claim, <1>none, <3>1 DEF Claim, EndRun, Goto
  <2>3. LateGoesOn
    BY <1>0, <2>2
  <2>4. \A t \in DOMAIN tasks : StaysOpen(t)
    <3>1. UNCHANGED tasks \/ tasks' = [tasks EXCEPT ![run[w].task].status = "processing"]
      BY <1>claim DEF Claim
    <3>2. \A t \in DOMAIN tasks : tasks'[t] = tasks[t] \/ tasks'[t].status = "processing"
      BY <1>0, <3>1 DEF Task
    <3> QED
      BY <3>2 DEF Ended
  <2> QED
    BY <1>quiet, <2>1, <2>3, <2>4
<1>start. ASSUME NEW w \in Runs, NEW t, StartRun(w, t), UNCHANGED <<wanted, scanned, dated, tasks>> PROVE Promised'
  <2>1. UNCHANGED run \/ run' = [run EXCEPT ![w] = [NoRun EXCEPT !.pc = "claim", !.task = t]]
    BY <1>start DEF StartRun
  <2>2. [NoRun EXCEPT !.pc = "claim", !.task = t].pc \notin Late
    BY DEF NoRun, Late, Reading
  <2>3. LateGoesOn
    BY <1>0, <2>1, <2>2
  <2> QED
    BY <1>quiet, <1>start, <2>3
<1>recover. ASSUME NEW p \in Procs, PollRecover(p) PROVE Promised'
  <2>1. PICK stale \in Stale :
          tasks' = [t \in DOMAIN tasks |-> IF t \in stale THEN [tasks[t] EXCEPT !.status = "pending"]
                                           ELSE tasks[t]]
    BY <1>recover DEF PollRecover
  <2>2. \A t \in DOMAIN tasks : tasks'[t] = tasks[t] \/ tasks'[t].status = "pending"
    BY <1>0, <2>1 DEF Task
  <2>3. UNCHANGED <<wanted, scanned, dated, run>>
    BY <1>recover DEF PollRecover
  <2> QED
    BY <1>quiet, <2>2, <2>3 DEF Ended
<1>activate. ASSUME NEW p \in Procs, PollActivate(p) PROVE Promised'
  <2>1. \A t \in DOMAIN tasks : tasks'[t].status = tasks[t].status
    BY <1>0, <1>activate DEF PollActivate, Task
  <2>2. UNCHANGED <<wanted, scanned, dated, run>>
    BY <1>activate DEF PollActivate
  <2> QED
    BY <1>quiet, <2>1, <2>2
<1>crash. ASSUME NEW p \in Procs, Crash(p) PROVE Promised'
  <2>1. /\ run' = [w \in Runs |-> IF HomeOf(w) = p THEN NoRun ELSE run[w]]
        /\ UNCHANGED <<tasks, wanted, scanned, dated>>
    BY <1>crash DEF Crash
  <2>2. LateGoesOn
    BY <1>none, <2>1
  <2> QED
    BY <1>quiet, <2>1, <2>2
\* A commit that asks for its images leaves a task that no run has taken up.
<1>bind. ASSUME NEW q \in Requests, NEW o \in Orders, NEW trigger, Commits(q, o), BindImages(q, o, trigger),
                UNCHANGED <<run, scanned, created>>
         PROVE  Promised'
  <2>1. CASE UNCHANGED <<tasks, wanted, dated>>
    BY <1>bind, <1>same, <2>1
  <2>2. CASE /\ \E im : wanted' = [wanted EXCEPT ![o] = im]
             /\ dated' = IF TasksOf(view[q].tasks, o) = TasksOf(tasks, o) THEN dated \ {o} ELSE dated \cup {o}
             /\ \E enqueue : GetOrCreateTask(q, o, tasks', enqueue)
    <3>1. view[q] # NoView
      BY <1>bind DEF Commits
    <3>2. PICK enqueue : GetOrCreateTask(q, o, tasks', enqueue)
      BY <2>2
    <3>3. o \in created /\ \A t \in DOMAIN tasks : tasks'[t] = tasks[t]
      <4>1. o \in created
        BY <1>bind, Committed
      <4>2. \/ tasks' = tasks
            \/ \E a \in BOOLEAN : tasks' = Append(tasks, NewTask(o, a)) /\ (a => ActiveOf(tasks, o) = {})
        BY <3>1, <3>2, Enqueued
      <4>3. ASSUME NEW a \in BOOLEAN, tasks' = Append(tasks, NewTask(o, a)), a => ActiveOf(tasks, o) = {}
            PROVE  \A t \in DOMAIN tasks : tasks'[t] = tasks[t]
        BY <1>bind, <4>1, <4>3, Added
      <4> QED
        BY <4>1, <4>2, <4>3
    <3>4. ASSUME NEW x \in Orders \ {o} PROVE (scanned[x] >= wanted[x] \/ x \in dated \/ Awaited(x))'
      <4>1. wanted'[x] = wanted[x] /\ (x \in dated => x \in dated')
        BY <2>2
      <4>2. \A t \in DOMAIN tasks : tasks[t].order = x /\ Waits(t) => Waits(t)'
        BY <1>bind, <1>waits, <3>3, <4>1
      <4> QED
        BY <1>bind, <1>keeps, <1>nat, <4>1, <4>2
    <3>5. ASSUME NEW t \in DOMAIN tasks', tasks'[t].order = o, tasks'[t].status \notin Ended,
                 \A w \in Runs : run[w].pc \in Late => run[w].task # t
          PROVE  Awaited(o)'
      BY <1>bind, <3>5 DEF Awaited, Waits
    <3>6. ASSUME NEW t \in DOMAIN tasks, tasks[t].order = o, tasks[t].status \notin Ended \cup {"processing"}
          PROVE  Awaited(o)'
      <4>1. \A w \in Runs : run[w].pc \in Late => run[w].task # t
        BY <3>6 DEF ClaimInv, Late, Reading, Working, RunPcs
      <4>2. t \in DOMAIN tasks'
        BY <1>0 DEF TasksStay
      <4> QED
        BY <3>3, <3>5, <3>6, <4>1, <4>2
    <3>7. ASSUME NEW a \in BOOLEAN, tasks' = Append(tasks, NewTask(o, a)) PROVE Awaited(o)'
      <4>1. NewTask(o, a) \in Task /\ NewTask(o, a).status \notin Ended /\ NewTask(o, a).order = o
        BY DEF NewTask, Task, Ended
      <4>2. Len(tasks) + 1 \in DOMAIN tasks' /\ tasks'[Len(tasks) + 1] = NewTask(o, a)
        BY <1>0, <3>7, <4>1, AppendProperties, LenProperties
      <4>3. \A w \in Runs : run[w].pc \in Late => run[w].task # Len(tasks) + 1
        <5>1. Len(tasks) + 1 \notin DOMAIN tasks
          BY <1>0
        <5> QED
          BY <1>0, <5>1 DEF Late, Reading
      <4> QED
        BY <3>5, <4>1, <4>2, <4>3
    <3>8. o \in dated' \/ Awaited(o)'
      <4>0. CASE TasksOf(view[q].tasks, o) # TasksOf(tasks, o)
        BY <2>2, <4>0
      <4>1. CASE ActiveOf(tasks, o) = {}
        BY <3>2, <3>7, <4>1 DEF GetOrCreateTask
      <4>2. CASE ActiveOf(tasks, o) # {} /\ TasksOf(view[q].tasks, o) = TasksOf(tasks, o)
        <5>0. /\ ActiveOf(view[q].tasks, o) = ActiveOf(tasks, o)
              /\ QueuedOf(view[q].tasks, o) = QueuedOf(tasks, o)
              /\ \A t \in ActiveOf(tasks, o) : view[q].tasks[t] = tasks[t]
          BY <4>2, SameTasks
        <5>1. PICK t \in ActiveOf(tasks, o) :
                \/ /\ tasks[t].status = "processing"
                   /\ tasks' = IF QueuedOf(tasks, o) # {} THEN tasks ELSE Append(tasks, NewTask(o, FALSE))
                \/ tasks[t].status # "processing"
          BY <3>1, <3>2, <4>2, <5>0 DEF GetOrCreateTask
        <5>2. CASE tasks[t].status # "processing"
          BY <3>6, <5>1, <5>2 DEF ActiveIsOpen, ActiveOf
        <5>3. CASE QueuedOf(tasks, o) # {}
          BY <3>6, <5>3 DEF QueuedOf, Ended
        <5>4. CASE tasks' = Append(tasks, NewTask(o, FALSE))
          BY <3>7, <5>4
        <5> QED
          BY <5>1, <5>2, <5>3, <5>4
      <4> QED
        BY <4>0, <4>1, <4>2
    <3> QED
      BY <3>4, <3>8 DEF Promised
  <2> QED
    BY <1>bind, <2>1, <2>2 DEF BindImages
<1> QED
  <2> HIDE DEF LateGoesOn, StaysOpen
  <2>1. ASSUME NEW o \in Orders, CreateOrder(o) PROVE Promised'
    BY <2>1, <1>same DEF CreateOrder
  <2>2. ASSUME NEW q \in Requests, NEW o \in Orders, RequestStep(q, o) PROVE Promised'
    BY <2>2, <1>same, <1>bind DEF RequestStep, Begin, UpdateOrder, Bind, Finalize
  <2>3. ASSUME NEW w \in Runs, FinishTask(w) \/ RunFails(w) \/ SyncFails(w) PROVE Promised'
    <3>1. run[w].pc \in Late /\ UNCHANGED <<wanted, dated, created>> /\ Scanned(w) /\ EndRun(w)
      BY <2>3 DEF FinishTask, RunFails, SyncFails, Late, Reading
    <3>2. \E s \in Statuses : SetTask(w, s)
      <4>1. run[w].result \in Statuses
        BY <1>0 DEF RunStates, Statuses
      <4> QED
        BY <2>3, <4>1 DEF FinishTask, RunFails, SyncFails, Statuses, Ended
    <3> QED
      BY <1>ends, <3>1, <3>2
  <2>4. ASSUME NEW p \in Procs, StartByPoller(p) PROVE Promised'
    BY <2>4, <1>start DEF StartByPoller, Runs
  <2>5. ASSUME NEW p \in Procs, NEW t, StartInBackground(p, t) PROVE Promised'
    BY <2>5, <1>start DEF StartInBackground, Runs
  <2>6. ASSUME NEW p \in Procs, BecomePoller(p) \/ PollerStops(p) \/ PassEnds(p) \/ PollUnlocked(p)
        PROVE  Promised'
    BY <2>6, <1>same DEF BecomePoller, PollerStops, PassEnds, PollUnlocked, LockStep
  <2>7. CASE KeyForgotten \/ OrphanExpires \/ UNCHANGED vars
    BY <2>7, <1>same DEF KeyForgotten, OrphanExpires, LockStep, vars
  <2> QED
    BY <1>claim, <1>load, <1>works, <1>recover, <1>activate, <1>crash, <2>1, <2>2, <2>3, <2>4, <2>5, <2>6, <2>7
       DEF Next, RunStep, PollStep

\* When an order has come to rest, the newest images somebody asked to recognise have been
\* read, unless the request that bound them looked for a task on an old snapshot: for any number
\* of workers, requests, orders and faults, if no slow run is taken for dead.
THEOREM NewestAreScanned == ASSUME "slow" \notin FaultKinds PROVE Spec => []NewImagesScanned
<1>1. Init => ClaimInv /\ ScanInv
  <2> SUFFICES ASSUME Init PROVE ClaimInv /\ ScanInv
    OBVIOUS
  <2>1. tasks = <<>> /\ \A w \in Runs : run[w].pc = "idle"
    BY DEF Init, NoRun
  <2>2. \A o \in Orders : wanted[o] = 0 /\ scanned[o] = 0 /\ images[o].ver = 0
    BY DEF Init, NoImages
  <2>3. DOMAIN tasks = {}
    BY <2>1
  <2> QED
    BY <2>1, <2>2, <2>3 DEF ClaimInv, ScanInv, ActiveIsOpen, Working
<1>2. TypeInv /\ TypeInv' /\ ClaimInv /\ ScanInv /\ [Next]_vars => ClaimInv' /\ ScanInv'
  <2> SUFFICES ASSUME TypeInv, TypeInv', ClaimInv, ScanInv, [Next]_vars PROVE ClaimInv' /\ ScanInv'
    OBVIOUS
  <2>1. ClaimInv'
    BY ClaimStep, RequestsServed
  <2>2. ActiveIsOpen'
    BY ActiveStep, RequestsServed DEF ScanInv
  <2>3. \A o \in Orders : wanted'[o] <= images'[o].ver
    BY AskedStep, RequestsServed DEF ScanInv
  <2>4. Promised'
    BY PromisedStep, RequestsServed DEF ScanInv, Promised
  <2> QED
    BY <2>1, <2>2, <2>3, <2>4 DEF ScanInv, Promised
<1>3. ScanInv => NewImagesScanned
  BY DEF ScanInv, NewImagesScanned, Settled, Awaited, Waits
<1> QED
  BY <1>1, <1>2, <1>3, Invariant, PTL DEF Spec

-----------------------------------------------------------------------------
(* The money of the order (OrderMoney), at which two desks work beside the recognition; it  *)
(* shares no variable with it.                                                              *)
CONSTANTS Desks, Amounts, MaxWrites

VARIABLES order, info, pc, saw, writes, moneyExcused, mixed

Money == INSTANCE OrderMoney WITH excused <- moneyExcused

\* What an UPDATE leaves of an order is an order.
LEMMA OrderStays ==
  ASSUME NEW row \in Money!Order, NEW loaded \in Money!Order, NEW new \in Money!Order, NEW resent
  PROVE  Money!Updated(row, loaded, new, resent) \in Money!Order
<1> DEFINE out == Money!Updated(row, loaded, new, resent)
<1>1. DOMAIN row = {"finished", "paid", "rebate"}
  BY DEF Money!Order
<1>2. out = [c \in {"finished", "paid", "rebate"} |-> IF new[c] # loaded[c] \/ c \in resent THEN new[c] ELSE row[c]]
  BY <1>1 DEF Money!Updated
<1>3. out \in [{"finished", "paid", "rebate"} -> BOOLEAN]
  BY <1>2 DEF Money!Order
<1> QED  BY <1>3 DEF Money!Order

\* What an UPDATE leaves of the amounts are amounts.
LEMMA InfoStays ==
  ASSUME NEW row \in Money!Info, NEW loaded \in Money!Info, NEW new \in Money!Info, NEW resent
  PROVE  Money!Updated(row, loaded, new, resent) \in Money!Info
  BY DEF Money!Updated, Money!Info

\* A patch leaves amounts with their total.
LEMMA DerivedTotal ==
  ASSUME NEW loaded \in Money!Info, NEW P \in SUBSET Money!Parts, NEW patch \in [P -> Nat]
  PROVE  /\ Money!Derived(loaded, patch) \in Money!Info
         /\ Money!Derived(loaded, patch)["premium_total"] = Money!Total(Money!Derived(loaded, patch))
<1> DEFINE amounts == [p \in Money!Parts |-> IF p \in DOMAIN patch THEN patch[p] ELSE loaded[p]]
           out == Money!Derived(loaded, patch)
<1>1. amounts \in [Money!Parts -> Nat]
  BY DEF Money!Info
<1>2. Money!Total(amounts) \in Nat
  BY <1>1 DEF Money!Total, Money!Parts
<1>3. out = [c \in Money!Parts \cup {"premium_total"} |->
               IF c = "premium_total" THEN Money!Total(amounts) ELSE amounts[c]]
  BY DEF Money!Derived, Money!Info
<1> HIDE DEF amounts
<1>4. out \in Money!Info
  BY <1>1, <1>2, <1>3 DEF Money!Info
<1>5. out["premium_total"] = Money!Total(amounts) /\ \A p \in Money!Parts : out[p] = amounts[p]
  BY <1>3 DEF Money!Parts
<1>6. Money!Total(out) = Money!Total(amounts)
  BY <1>5 DEF Money!Total, Money!Parts
<1> QED  BY <1>4, <1>5, <1>6

\* An idle request remembers an order as it is created.
LEMMA FreshTyped == Money!Fresh.order \in Money!Order /\ Money!Fresh.info \in Money!Info
<1>1. Money!Fresh.order \in Money!Order
  BY DEF Money!Fresh, Money!Order
<1>2. Money!Fresh.info \in Money!Info
  BY DEF Money!Fresh, Money!Info
<1> QED  BY <1>1, <1>2

MoneyInv == Money!TypeOK /\ Money!MoneyFitsTogether

\* The order desk's patch.
LEMMA EditStep ==
  ASSUME Amounts \subseteq Nat, MoneyInv, NEW d \in Desks, Money!Edit(d)
  PROVE  MoneyInv'
<1> USE DEF MoneyInv
<1>0. PICK P \in (SUBSET Money!Parts) \ {{}}, resent \in SUBSET DOMAIN info : \E patch \in [P -> Amounts] :
        info' = Money!Updated(info, saw[d].info, Money!Derived(saw[d].info, patch), resent)
  BY DEF Money!Edit
<1>1. PICK patch \in [P -> Amounts] :
        info' = Money!Updated(info, saw[d].info, Money!Derived(saw[d].info, patch), resent)
  BY <1>0
<1> DEFINE new == Money!Derived(saw[d].info, patch)
<1>2. patch \in [P -> Nat] /\ P \in SUBSET Money!Parts
  BY <1>1
<1>3. saw[d].info \in Money!Info /\ info \in Money!Info
  BY DEF Money!TypeOK
<1>4. new \in Money!Info /\ new["premium_total"] = Money!Total(new)
  BY <1>2, <1>3, DerivedTotal
<1>5. info' \in Money!Info
  BY <1>1, <1>3, <1>4, InfoStays
<1>6. CASE saw[d].info = info
  <2>1. info' = Money!Updated(info, info, new, resent)
    BY <1>1, <1>6
  <2> HIDE DEF new
  <2>2. info' = new
    BY <2>1, <1>3, <1>4 DEF Money!Updated, Money!Info
  <2> QED  BY <2>2, <1>4
        DEF Money!Edit, Money!Leave, Money!TypeOK, Money!Fresh, Money!Order, Money!Info,
              Money!MoneyFitsTogether, Money!PaidMeansFinished, Money!TotalsAddUp, Money!Odd
<1>7. CASE saw[d].info # info
  <2>1. mixed' = TRUE
    BY <1>7 DEF Money!Edit
  <2>2. Money!TypeOK'
    <3>1. saw' = [saw EXCEPT ![d] = Money!Fresh] /\ pc' = [pc EXCEPT ![d] = "idle"]
          /\ order' = order /\ writes' = writes /\ moneyExcused' = moneyExcused
      BY DEF Money!Edit, Money!Leave
    <3> QED  BY <3>1, <2>1, <1>5, FreshTyped DEF Money!TypeOK
  <2>3. Money!MoneyFitsTogether'
    BY <2>1 DEF Money!Edit, Money!MoneyFitsTogether, Money!PaidMeansFinished, Money!TotalsAddUp,
          Money!Odd
  <2> QED  BY <2>2, <2>3
<1> QED  BY <1>6, <1>7

\* A request that writes the status leaves nothing odd, unless it reopens the order or
\* decided on what another changed.
LEMMA StatusStep ==
  ASSUME MoneyInv, NEW d \in Desks, NEW new \in Money!Order, NEW reopened \in BOOLEAN,
         ~reopened => ~Money!Odd(new), Money!WriteOrder(d, new, reopened)
  PROVE  MoneyInv'
<1>1. order' \in Money!Order
  BY OrderStays DEF MoneyInv, Money!TypeOK, Money!WriteOrder
<1>2. Money!TypeOK'
  BY <1>1 DEF MoneyInv, Money!TypeOK, Money!WriteOrder, Money!Leave, Money!Fresh, Money!Order,
        Money!Info
<1>3. Money!TotalsAddUp'
  BY DEF MoneyInv, Money!MoneyFitsTogether, Money!TotalsAddUp, Money!WriteOrder
<1>4. Money!PaidMeansFinished'
  <2>1. CASE reopened \/ saw[d].order # order
    BY <2>1 DEF Money!WriteOrder, Money!PaidMeansFinished
  <2>2. CASE ~reopened /\ saw[d].order = order
    <3>1. order' = Money!Updated(order, order, new, {})
      BY <2>2 DEF Money!WriteOrder
    <3>2. order \in Money!Order
      BY DEF MoneyInv, Money!TypeOK
    <3>3. order' = new
      BY <3>1, <3>2 DEF Money!Updated, Money!Order
    <3> QED  BY <3>3, <2>2 DEF Money!PaidMeansFinished
  <2> QED  BY <2>1, <2>2
<1> QED  BY <1>2, <1>3, <1>4 DEF MoneyInv, Money!MoneyFitsTogether

(* Every variable has its type, an order that is not finished is neither paid nor rebated, *)
(* and the total of its amounts is their sum: whatever the desks do at once, but for the   *)
(* overlaps that `moneyExcused` and `mixed` remember.                                           *)
THEOREM MoneyAlwaysFits ==
  ASSUME Amounts \subseteq Nat, MaxWrites \in Nat
  PROVE  Money!Spec => [](Money!TypeOK /\ Money!MoneyFitsTogether)
<1>1. Money!Init => MoneyInv
  <2>1. Money!Init => Money!TypeOK
    <3>1. Money!Init => /\ saw = [d \in Desks |-> Money!Fresh] /\ pc = [d \in Desks |-> "idle"]
                  /\ order = Money!Fresh.order /\ info = Money!Fresh.info /\ writes = 0 /\ moneyExcused = FALSE /\ mixed = FALSE
      BY DEF Money!Init
    <3>2. Money!Init => \A d \in Desks : saw[d] = Money!Fresh
      BY <3>1
    <3>3. Money!Init => pc \in [Desks -> {"idle", "writing"}] /\ writes \in 0 .. MaxWrites
      BY <3>1
    <3>4. Money!Init => moneyExcused \in BOOLEAN /\ mixed \in BOOLEAN
      BY <3>1
    <3> QED  BY <3>1, <3>2, <3>3, <3>4, FreshTyped DEF Money!TypeOK
  <2>2. Money!Init => info["premium_total"] = Money!Total(info)
    BY DEF Money!Init, Money!Fresh, Money!Parts, Money!Total
  <2> QED  BY <2>1, <2>2 DEF Money!Init, Money!Fresh, MoneyInv, Money!MoneyFitsTogether,
        Money!PaidMeansFinished, Money!TotalsAddUp, Money!Odd
<1>2. MoneyInv /\ [Money!Next]_(Money!vars) => MoneyInv'
  <2> SUFFICES ASSUME MoneyInv, [Money!Next]_(Money!vars)  PROVE MoneyInv'
    OBVIOUS
  <2>1. ASSUME NEW d \in Desks  PROVE saw[d].order \in Money!Order
    BY DEF MoneyInv, Money!TypeOK
  <2>2. CASE UNCHANGED Money!vars
    BY <2>2 DEF Money!vars, MoneyInv, Money!TypeOK, Money!MoneyFitsTogether,
          Money!PaidMeansFinished, Money!TotalsAddUp
  <2>3. ASSUME NEW d \in Desks, Money!Begin(d)  PROVE MoneyInv'
    BY <2>3 DEF Money!Begin, MoneyInv, Money!TypeOK, Money!MoneyFitsTogether,
          Money!PaidMeansFinished, Money!TotalsAddUp
  <2>4. ASSUME NEW d \in Desks, Money!Edit(d)  PROVE MoneyInv'
    BY <2>4, EditStep
  <2>5. ASSUME NEW d \in Desks, Money!SetFinished(d)  PROVE MoneyInv'
    <3>1. PICK finished \in BOOLEAN :
            Money!WriteOrder(d, [saw[d].order EXCEPT !.finished = finished], ~finished)
      BY <2>5 DEF Money!SetFinished
    <3> DEFINE new == [saw[d].order EXCEPT !.finished = finished]
    <3>2. new \in Money!Order /\ new.finished = finished
      BY <2>1 DEF Money!Order
    <3> HIDE DEF new
    <3>3. finished => ~Money!Odd(new)
      BY <3>2 DEF Money!Odd
    <3> QED  BY <3>1, <3>2, <3>3, StatusStep DEF new
  <2>6. ASSUME NEW d \in Desks, Money!Settle(d)  PROVE MoneyInv'
    <3>1. PICK paid \in BOOLEAN, rebate \in BOOLEAN :
            Money!WriteOrder(d, [saw[d].order EXCEPT !.paid = paid, !.rebate = rebate], FALSE)
      BY <2>6 DEF Money!Settle
    <3> DEFINE new == [saw[d].order EXCEPT !.paid = paid, !.rebate = rebate]
    <3>2. new \in Money!Order /\ new.finished = saw[d].order.finished
      BY <2>1 DEF Money!Order
    <3>3. ~Money!Odd(new)
      BY <3>2, <2>6 DEF Money!Odd, Money!Settle, Money!FinanceMayWrite
    <3> HIDE DEF new
    <3> QED  BY <3>1, <3>2, <3>3, StatusStep DEF new
  <2>7. ASSUME NEW d \in Desks, Money!Return(d)  PROVE MoneyInv'
    <3> DEFINE new == Money!Returned(saw[d].order)
    <3>1. new \in Money!Order /\ ~Money!Odd(new)
      BY <2>1 DEF Money!Order, Money!Returned, Money!Odd
    <3> QED  BY <3>1, <2>7, StatusStep DEF Money!Return
  <2>8. ASSUME NEW d \in Desks, Money!Abort(d)  PROVE MoneyInv'
    BY <2>8 DEF Money!Abort, Money!Leave, Money!Fresh, Money!Order, Money!Info, MoneyInv,
          Money!TypeOK, Money!MoneyFitsTogether,
                Money!PaidMeansFinished, Money!TotalsAddUp
  <2> QED  BY <2>2, <2>3, <2>4, <2>5, <2>6, <2>7, <2>8 DEF Money!Next
<1>3. Money!Spec => []MoneyInv
  BY <1>1, <1>2, PTL DEF Money!Spec
<1> QED  BY <1>3, PTL DEF MoneyInv

-----------------------------------------------------------------------------
(* The papers of the order (OrderImages), bound beside the recognition, which reads them    *)
(* with its data.                                                                           *)
CONSTANTS Uploads, Papers, slotOf, MultiSlots, MaxBinds

VARIABLES shown, files, binds, uploadPc, sent, shelfView, heldSlots, gone

Shelf == INSTANCE OrderImages WITH pc <- uploadPc, asked <- sent, saw <- shelfView, held <- heldSlots

\* The slots that show several papers are slots of papers.
Shelved == MultiSlots \subseteq Shelf!Slots /\ MaxBinds \in Nat

\* A request has deleted what was there, and is there yet, in the slots it has scanned ...
Deletions ==
  \A u \in Uploads :
    /\ heldSlots[u] \subseteq Shelf!Touched(u)
    /\ uploadPc[u] = "idle" => heldSlots[u] = {} /\ gone[u] = {}
    /\ uploadPc[u] = "insert" => Shelf!Touched(u) \subseteq heldSlots[u]
    /\ \A s \in Shelf!Slots :
         Shelf!InSlot(gone[u], s) = IF s \in heldSlots[u] THEN Shelf!InSlot(shown, s) \ Shelf!Kept(sent[u].papers, s)
                                    ELSE {}

\* ... since two hold a slot at once only if nothing is in it.
GapsShared ==
  \A u, v \in Uploads : u # v => \A s \in heldSlots[u] \cap heldSlots[v] : Shelf!InSlot(shown, s) = {}

\* Files are never removed.
FilesStay == \A u \in Uploads : shelfView[u].files \subseteq files

ShelfInv == Shelf!TypeOK /\ Deletions /\ GapsShared /\ FilesStay

\* What a request sends is shown in the slots it names, each as the deletion keeps it.
LEMMA NormalizedKept ==
  ASSUME Shelved, Shelf!TypeOK, NEW u \in Uploads
  PROVE  /\ Shelf!Normalized(sent[u].papers) \subseteq Papers
         /\ Shelf!Touched(u) \subseteq Shelf!Slots
         /\ \A i \in Shelf!Normalized(sent[u].papers) : slotOf[i] \in Shelf!Touched(u)
         /\ \A s \in Shelf!Slots : Shelf!InSlot(Shelf!Normalized(sent[u].papers), s) = Shelf!Kept(sent[u].papers, s)
<1> DEFINE papers == sent[u].papers
<1>1. PICK m \in Nat : papers \in [1 .. m -> Papers] /\ sent[u].clear \subseteq MultiSlots
  <2>1. sent[u] \in Shelf!Requested
    BY DEF Shelf!TypeOK
  <2>2. sent[u].papers \in Shelf!SeqOf(Papers, 2) /\ sent[u].clear \subseteq MultiSlots
    BY <2>1 DEF Shelf!Requested
  <2>3. PICK m \in 0 .. 2 : sent[u].papers \in [1 .. m -> Papers]
    BY <2>2 DEF Shelf!SeqOf
  <2> QED  BY <2>2, <2>3
<1> HIDE DEF papers
<1>2. Shelf!ToSet(papers) = {papers[k] : k \in 1 .. m}
  BY <1>1 DEF Shelf!ToSet
<1>3. Shelf!Touched(u) = sent[u].clear \cup {slotOf[i] : i \in Shelf!ToSet(papers)}
  BY DEF Shelf!Touched, papers
<1>4. Shelf!Normalized(papers) \subseteq Shelf!ToSet(papers) /\ Shelf!ToSet(papers) \subseteq Papers
  BY <1>1, <1>2 DEF Shelf!Normalized
<1>5. Shelf!Touched(u) \subseteq Shelf!Slots
  BY <1>1, <1>3, <1>4 DEF Shelved, Shelf!Slots
<1>6. ASSUME NEW s \in Shelf!Slots  PROVE Shelf!InSlot(Shelf!Normalized(papers), s) = Shelf!Kept(papers, s)
  <2>1. ASSUME NEW i \in Shelf!Kept(papers, s)  PROVE i \in Shelf!InSlot(Shelf!Normalized(papers), s)
    <3>1. PICK k \in 1 .. m : /\ i = papers[k] /\ slotOf[papers[k]] = s
                              /\ s \notin MultiSlots => \A n \in 1 .. m : n > k => slotOf[papers[n]] # s
      BY <1>1, <2>1 DEF Shelf!Kept
    <3>2. s \notin MultiSlots => \A n \in 1 .. m : slotOf[papers[n]] = slotOf[i] => n <= k
      BY <3>1
    <3> QED  BY <1>1, <1>2, <3>1, <3>2 DEF Shelf!Normalized, Shelf!InSlot
  <2>2. ASSUME NEW i \in Shelf!InSlot(Shelf!Normalized(papers), s)  PROVE i \in Shelf!Kept(papers, s)
    <3>1. i \in Shelf!Normalized(papers) /\ slotOf[i] = s
      BY <2>2 DEF Shelf!InSlot
    <3>2. CASE s \in MultiSlots
      <4>1. PICK k \in 1 .. m : papers[k] = i
        BY <1>2, <1>4, <3>1
      <4> QED  BY <1>1, <3>1, <3>2, <4>1 DEF Shelf!Kept
    <3>3. CASE s \notin MultiSlots
      <4>1. PICK k \in 1 .. m : papers[k] = i /\ \A n \in 1 .. m : slotOf[papers[n]] = slotOf[i] => n <= k
        BY <1>1, <3>1, <3>3 DEF Shelf!Normalized
      <4>2. \A n \in 1 .. m : n > k => slotOf[papers[n]] # s
        BY <3>1, <4>1
      <4> QED  BY <1>1, <3>1, <4>1, <4>2 DEF Shelf!Kept
    <3> QED  BY <3>2, <3>3
  <2> QED  BY <2>1, <2>2
<1> QED  BY <1>3, <1>4, <1>5, <1>6 DEF papers

\* A request that begins holds nothing yet.
LEMMA BindBegins ==
  ASSUME Shelved, ShelfInv, NEW u \in Uploads, Shelf!Begin(u)
  PROVE  ShelfInv' /\ shown' = shown
<1>1. PICK r \in Shelf!Requested \ {Shelf!Nothing} : sent' = [sent EXCEPT ![u] = r]
  BY DEF Shelf!Begin
<1>2. /\ uploadPc[u] = "idle" /\ uploadPc' = [uploadPc EXCEPT ![u] = "clear"]
      /\ shelfView' = [shelfView EXCEPT ![u] = [shown |-> shown, files |-> files]]
      /\ binds < MaxBinds /\ binds' = binds + 1
      /\ UNCHANGED <<shown, files, heldSlots, gone>>
  BY DEF Shelf!Begin
<1>3. Shelf!TypeOK'
  <2>1. binds' \in 0 .. MaxBinds
    BY <1>2 DEF ShelfInv, Shelf!TypeOK, Shelved
  <2>2. [shown |-> shown, files |-> files] \in [shown : SUBSET Papers, files : SUBSET Papers]
    BY DEF ShelfInv, Shelf!TypeOK
  <2> QED  BY <1>1, <1>2, <2>1, <2>2 DEF ShelfInv, Shelf!TypeOK
<1>4. Deletions'
  <2>1. heldSlots[u] = {} /\ gone[u] = {}
    BY <1>2 DEF ShelfInv, Deletions
  <2>2. ASSUME NEW v \in Uploads, v # u  PROVE sent'[v] = sent[v] /\ uploadPc'[v] = uploadPc[v] /\ Shelf!Touched(v)' = Shelf!Touched(v)
    BY <1>1, <1>2, <2>2 DEF ShelfInv, Shelf!TypeOK, Shelf!Touched
  <2>3. uploadPc'[u] = "clear"
    BY <1>2 DEF ShelfInv, Shelf!TypeOK
  <2> QED  BY <1>2, <2>1, <2>2, <2>3 DEF ShelfInv, Deletions, Shelf!InSlot
<1>5. GapsShared'
  BY <1>2 DEF ShelfInv, GapsShared, Shelf!InSlot
<1>6. FilesStay'
  BY <1>2 DEF ShelfInv, Shelf!TypeOK, FilesStay
<1> QED  BY <1>2, <1>3, <1>4, <1>5, <1>6 DEF ShelfInv

\* A slot is scanned as it is, alone or empty.
LEMMA SlotScanned ==
  ASSUME Shelved, ShelfInv, NEW u \in Uploads, NEW s \in Shelf!Slots, Shelf!ClearSlot(u, s)
  PROVE  ShelfInv' /\ shown' = shown
<1>1. /\ uploadPc[u] = "clear" /\ s \in Shelf!Touched(u) \ heldSlots[u] /\ Shelf!MayScan(u, s)
      /\ gone' = [gone EXCEPT ![u] = @ \cup (Shelf!InSlot(shown, s) \ Shelf!Kept(sent[u].papers, s))]
      /\ heldSlots' = [heldSlots EXCEPT ![u] = @ \cup {s}]
      /\ uploadPc' = [uploadPc EXCEPT ![u] = IF Shelf!Touched(u) \subseteq heldSlots'[u] THEN "insert" ELSE "clear"]
      /\ UNCHANGED <<shown, files, binds, sent, shelfView>>
  BY DEF Shelf!ClearSlot, Shelf!Scanned
<1>2. /\ heldSlots'[u] = heldSlots[u] \cup {s}
      /\ gone'[u] = gone[u] \cup (Shelf!InSlot(shown, s) \ Shelf!Kept(sent[u].papers, s))
      /\ uploadPc'[u] \in {"clear", "insert"} /\ (uploadPc'[u] = "insert" => Shelf!Touched(u) \subseteq heldSlots'[u])
      /\ \A v \in Uploads \ {u} : heldSlots'[v] = heldSlots[v] /\ gone'[v] = gone[v] /\ uploadPc'[v] = uploadPc[v]
      /\ \A v \in Uploads : Shelf!Touched(v)' = Shelf!Touched(v)
  BY <1>1 DEF ShelfInv, Shelf!TypeOK, Shelf!Touched
<1>3. Shelf!TypeOK'
  <2>1. Shelf!InSlot(shown, s) \subseteq Papers
    BY DEF ShelfInv, Shelf!TypeOK, Shelf!InSlot
  <2> QED  BY <1>1, <2>1 DEF ShelfInv, Shelf!TypeOK
<1>4. Deletions'
  <2>1. ASSUME NEW t \in Shelf!Slots
        PROVE  Shelf!InSlot(gone'[u], t) = IF t \in heldSlots'[u] THEN Shelf!InSlot(shown, t) \ Shelf!Kept(sent[u].papers, t)
                                           ELSE {}
    <3>1. CASE t = s
      <4>1. Shelf!InSlot(gone[u], s) = {}
        BY <1>1 DEF ShelfInv, Deletions
      <4> QED  BY <1>2, <3>1, <4>1 DEF Shelf!InSlot
    <3>2. CASE t # s
      <4>1. Shelf!InSlot(gone'[u], t) = Shelf!InSlot(gone[u], t)
        BY <1>2, <3>2 DEF Shelf!InSlot
      <4> QED  BY <1>2, <3>2, <4>1 DEF ShelfInv, Deletions
    <3> QED  BY <3>1, <3>2
  <2> QED  BY <1>1, <1>2, <2>1 DEF ShelfInv, Deletions, Shelf!InSlot
<1>5. GapsShared'
  <2>1. \A v \in Uploads \ {u} : s \in heldSlots[v] => Shelf!InSlot(shown, s) = {}
    BY <1>1 DEF Shelf!MayScan
  <2> QED  BY <1>1, <1>2, <2>1 DEF ShelfInv, GapsShared, Shelf!InSlot
<1>6. FilesStay'
  BY <1>1 DEF ShelfInv, FilesStay
<1> QED  BY <1>1, <1>3, <1>4, <1>5, <1>6 DEF ShelfInv

\* What a request holds when it has ended: nothing.
LEMMA BindLeaves ==
  ASSUME Shelved, ShelfInv, NEW u \in Uploads, Shelf!Leave(u)
  PROVE  /\ uploadPc'[u] = "idle" /\ heldSlots'[u] = {} /\ gone'[u] = {} /\ shelfView'[u].files = {}
         /\ \A v \in Uploads \ {u} :
              /\ uploadPc'[v] = uploadPc[v] /\ sent'[v] = sent[v] /\ shelfView'[v] = shelfView[v]
              /\ heldSlots'[v] = heldSlots[v] /\ gone'[v] = gone[v] /\ Shelf!Touched(v)' = Shelf!Touched(v)
         /\ uploadPc' \in [Uploads -> {"idle", "clear", "insert"}]
         /\ sent' \in [Uploads -> Shelf!Requested]
         /\ shelfView' \in [Uploads -> [shown : SUBSET Papers, files : SUBSET Papers]]
         /\ heldSlots' \in [Uploads -> SUBSET Shelf!Slots]
         /\ gone' \in [Uploads -> SUBSET Papers]
<1>1. /\ uploadPc' = [uploadPc EXCEPT ![u] = "idle"] /\ sent' = [sent EXCEPT ![u] = Shelf!Nothing]
      /\ shelfView' = [shelfView EXCEPT ![u] = Shelf!NoView] /\ heldSlots' = [heldSlots EXCEPT ![u] = {}]
      /\ gone' = [gone EXCEPT ![u] = {}]
  BY DEF Shelf!Leave
<1>2. Shelf!Nothing \in Shelf!Requested
  <2>1. <<>> \in [1 .. 0 -> Papers]
    OBVIOUS
  <2> QED  BY <2>1 DEF Shelf!Nothing, Shelf!Requested, Shelf!SeqOf
<1>3. Shelf!NoView \in [shown : SUBSET Papers, files : SUBSET Papers] /\ Shelf!NoView.files = {}
  BY DEF Shelf!NoView
<1> QED  BY <1>1, <1>2, <1>3 DEF ShelfInv, Shelf!TypeOK, Shelf!Touched

\* What an insert leaves in each slot.
LEMMA InsertShows ==
  ASSUME Shelved, ShelfInv, NEW u \in Uploads, Shelf!Insert(u), NEW s \in Shelf!Slots
  PROVE  /\ s \in Shelf!Touched(u) <=> s \in heldSlots[u]
         /\ Shelf!InSlot(shown', s) =
              IF s \in Shelf!Touched(u) THEN Shelf!Kept(sent[u].papers, s) \ (shelfView[u].shown \ shown)
              ELSE Shelf!InSlot(shown, s)
<1> DEFINE placed == Shelf!Normalized(sent[u].papers)
<1>1. uploadPc[u] = "insert" /\ shown' = (shown \ gone[u]) \cup (placed \ shelfView[u].shown)
  BY DEF Shelf!Insert, Shelf!Added
<1>2. s \in Shelf!Touched(u) <=> s \in heldSlots[u]
  BY <1>1 DEF ShelfInv, Deletions
<1>3. Shelf!InSlot(placed, s) = Shelf!Kept(sent[u].papers, s) /\ \A i \in placed : slotOf[i] \in Shelf!Touched(u)
  BY NormalizedKept DEF ShelfInv
<1> HIDE DEF placed
<1>4. Shelf!InSlot(shown', s) =
        (Shelf!InSlot(shown, s) \ Shelf!InSlot(gone[u], s)) \cup (Shelf!InSlot(placed, s) \ shelfView[u].shown)
  BY <1>1 DEF Shelf!InSlot
<1>5. CASE s \in Shelf!Touched(u)
  <2>1. Shelf!InSlot(gone[u], s) = Shelf!InSlot(shown, s) \ Shelf!Kept(sent[u].papers, s)
    BY <1>2, <1>5 DEF ShelfInv, Deletions
  <2>2. \A i \in Shelf!Kept(sent[u].papers, s) : i \in shown <=> i \in Shelf!InSlot(shown, s)
    BY <1>3 DEF Shelf!InSlot
  <2> QED  BY <1>2, <1>3, <1>4, <1>5, <2>1, <2>2
<1>6. CASE s \notin Shelf!Touched(u)
  <2>1. Shelf!InSlot(gone[u], s) = {}
    BY <1>2, <1>6 DEF ShelfInv, Deletions
  <2>2. Shelf!InSlot(placed, s) = {}
    BY <1>3, <1>6 DEF Shelf!InSlot
  <2> QED  BY <1>2, <1>4, <1>6, <2>1, <2>2
<1> QED  BY <1>5, <1>6

\* An insert disturbs nobody who holds a slot.
LEMMA BindInserts ==
  ASSUME Shelved, ShelfInv, NEW u \in Uploads, Shelf!Insert(u)
  PROVE  ShelfInv'
<1>1. /\ Shelf!Leave(u) /\ binds' = binds /\ Shelf!MayInsert(u)
      /\ shown' = (shown \ gone[u]) \cup Shelf!Added(u) /\ files' = files \cup Shelf!NewFiles(u)
  BY DEF Shelf!Insert
<1>2. Shelf!TypeOK'
  <2>1. Shelf!Normalized(sent[u].papers) \subseteq Papers /\ shelfView[u].files \subseteq files
    BY NormalizedKept DEF ShelfInv, FilesStay
  <2>2. shown' \subseteq files' /\ files' \subseteq Papers
    BY <1>1, <2>1 DEF Shelf!Added, Shelf!NewFiles, ShelfInv, Shelf!TypeOK
  <2> QED  BY <1>1, <2>2, BindLeaves DEF ShelfInv, Shelf!TypeOK
<1>3. ASSUME NEW v \in Uploads \ {u}, NEW s \in heldSlots[v], s \in Shelf!Slots
      PROVE  Shelf!InSlot(shown', s) = Shelf!InSlot(shown, s)
  <2>1. CASE s \notin Shelf!Touched(u)
    BY <1>3, <2>1, InsertShows
  <2>2. CASE s \in Shelf!Touched(u)
    <3>1. s \in heldSlots[u]
      BY <1>3, <2>2, InsertShows
    <3>2. Shelf!InSlot(shown, s) = {}
      BY <1>3, <3>1 DEF ShelfInv, GapsShared
    <3>3. \A i \in Shelf!Added(u) : slotOf[i] # s
      BY <1>1, <1>3 DEF Shelf!MayInsert
    <3> QED  BY <1>1, <3>2, <3>3 DEF Shelf!InSlot
  <2> QED  BY <2>1, <2>2
<1>4. \A v \in Uploads : heldSlots[v] \subseteq Shelf!Slots
  BY DEF ShelfInv, Shelf!TypeOK
<1>5. Deletions'
  <2>1. ASSUME NEW v \in Uploads, v # u, NEW s \in Shelf!Slots
        PROVE  Shelf!InSlot(gone'[v], s) =
                 IF s \in heldSlots'[v] THEN Shelf!InSlot(shown', s) \ Shelf!Kept(sent'[v].papers, s) ELSE {}
    BY <1>1, <1>3, <2>1, BindLeaves DEF ShelfInv, Deletions
  <2>2. ASSUME NEW v \in Uploads, v # u
        PROVE  /\ heldSlots'[v] \subseteq Shelf!Touched(v)'
               /\ uploadPc'[v] = "idle" => heldSlots'[v] = {} /\ gone'[v] = {}
               /\ uploadPc'[v] = "insert" => Shelf!Touched(v)' \subseteq heldSlots'[v]
    BY <1>1, <2>2, BindLeaves DEF ShelfInv, Deletions
  <2>3. uploadPc'[u] = "idle" /\ heldSlots'[u] = {} /\ gone'[u] = {}
    BY <1>1, BindLeaves
  <2>4. \A s \in Shelf!Slots : Shelf!InSlot(gone'[u], s) = {}
    BY <2>3 DEF Shelf!InSlot
  <2> QED  BY <2>1, <2>2, <2>3, <2>4 DEF Deletions, Shelf!InSlot
<1>6. GapsShared'
  <2>1. ASSUME NEW v \in Uploads, NEW w \in Uploads, v # w, NEW s \in heldSlots'[v] \cap heldSlots'[w]
        PROVE  Shelf!InSlot(shown', s) = {}
    <3>1. v # u /\ w # u /\ s \in heldSlots[v] \cap heldSlots[w]
      BY <1>1, <2>1, BindLeaves
    <3> QED  BY <1>3, <1>4, <2>1, <3>1 DEF ShelfInv, GapsShared
  <2> QED  BY <2>1 DEF GapsShared, Shelf!InSlot
<1>7. FilesStay'
  <2>1. ASSUME NEW v \in Uploads  PROVE shelfView'[v].files \subseteq files'
    BY <1>1, BindLeaves DEF ShelfInv, FilesStay
  <2> QED  BY <2>1 DEF FilesStay
<1> QED  BY <1>2, <1>5, <1>6, <1>7 DEF ShelfInv

\* A request that is given up leaves no trace.
LEMMA BindGivenUp ==
  ASSUME Shelved, ShelfInv, NEW u \in Uploads, Shelf!Abort(u)
  PROVE  ShelfInv' /\ shown' = shown
<1>1. Shelf!Leave(u) /\ UNCHANGED <<shown, files, binds>>
  BY DEF Shelf!Abort
<1>2. Shelf!TypeOK'
  BY <1>1, BindLeaves DEF ShelfInv, Shelf!TypeOK
<1>3. Deletions'
  <2>1. ASSUME NEW v \in Uploads, v # u
        PROVE  /\ heldSlots'[v] \subseteq Shelf!Touched(v)'
               /\ uploadPc'[v] = "idle" => heldSlots'[v] = {} /\ gone'[v] = {}
               /\ uploadPc'[v] = "insert" => Shelf!Touched(v)' \subseteq heldSlots'[v]
               /\ \A s \in Shelf!Slots : Shelf!InSlot(gone'[v], s) =
                    IF s \in heldSlots'[v] THEN Shelf!InSlot(shown', s) \ Shelf!Kept(sent'[v].papers, s) ELSE {}
    <3>1. /\ uploadPc'[v] = uploadPc[v] /\ heldSlots'[v] = heldSlots[v] /\ gone'[v] = gone[v]
          /\ sent'[v] = sent[v] /\ Shelf!Touched(v)' = Shelf!Touched(v)
      BY <1>1, <2>1, BindLeaves
    <3>2. \A s \in Shelf!Slots : Shelf!InSlot(shown', s) = Shelf!InSlot(shown, s)
      BY <1>1
    <3> QED  BY <3>1, <3>2 DEF ShelfInv, Deletions
  <2>2. uploadPc'[u] = "idle" /\ heldSlots'[u] = {} /\ gone'[u] = {}
    BY <1>1, BindLeaves
  <2>3. \A s \in Shelf!Slots : Shelf!InSlot(gone'[u], s) = {}
    BY <2>2 DEF Shelf!InSlot
  <2> QED  BY <2>1, <2>2, <2>3 DEF Deletions, Shelf!InSlot
<1>4. GapsShared'
  <2>1. ASSUME NEW v \in Uploads, NEW w \in Uploads, v # w, NEW s \in heldSlots'[v] \cap heldSlots'[w]
        PROVE  s \in heldSlots[v] \cap heldSlots[w]
    BY <1>1, <2>1, BindLeaves
  <2> QED  BY <1>1, <2>1 DEF ShelfInv, GapsShared, Shelf!InSlot
<1>5. FilesStay'
  <2>1. ASSUME NEW v \in Uploads  PROVE shelfView'[v].files \subseteq files'
    BY <1>1, BindLeaves DEF ShelfInv, FilesStay
  <2> QED  BY <2>1 DEF FilesStay
<1> QED  BY <1>1, <1>2, <1>3, <1>4, <1>5 DEF ShelfInv

(* A request that ends leaves in the slots it names the papers it sent for them, but for one *)
(* it took to be there, and other slots as they were: for any slots, papers and requests.    *)
THEOREM BindsAreShown ==
  ASSUME Shelved
  PROVE  Shelf!Spec => []Shelf!TypeOK /\ Shelf!BindShows
<1> DEFINE Shows ==
      \A u \in Uploads, s \in Shelf!Slots : Shelf!Insert(u) =>
        Shelf!InSlot(shown', s) =
          IF s \in Shelf!Touched(u) THEN Shelf!Kept(sent[u].papers, s) \ (shelfView[u].shown \ shown)
          ELSE Shelf!InSlot(shown, s)
<1>1. Shelf!Init => ShelfInv
  <2> SUFFICES ASSUME Shelf!Init  PROVE ShelfInv
    OBVIOUS
  <2>1. Shelf!Nothing \in Shelf!Requested
    <3>1. <<>> \in [1 .. 0 -> Papers]
      OBVIOUS
    <3> QED  BY <3>1 DEF Shelf!Nothing, Shelf!Requested, Shelf!SeqOf
  <2>2. Shelf!NoView \in [shown : SUBSET Papers, files : SUBSET Papers] /\ Shelf!NoView.files = {}
    BY DEF Shelf!NoView
  <2>3. Shelf!TypeOK
    BY <2>1, <2>2 DEF Shelf!Init, Shelf!TypeOK, Shelved
  <2> QED  BY <2>2, <2>3 DEF Shelf!Init, ShelfInv, Deletions, GapsShared, FilesStay, Shelf!InSlot
<1>2. ShelfInv /\ [Shelf!Next]_(Shelf!vars) => ShelfInv'
  <2>1. ASSUME ShelfInv, UNCHANGED Shelf!vars  PROVE ShelfInv'
    BY <2>1 DEF Shelf!vars, ShelfInv, Shelf!TypeOK, Deletions, GapsShared, FilesStay, Shelf!InSlot, Shelf!Touched
  <2> QED  BY <2>1, BindBegins, SlotScanned, BindInserts, BindGivenUp DEF Shelf!Next
<1>3. ShelfInv => Shows
  BY InsertShows
<1>4. ShelfInv => Shelf!TypeOK
  BY DEF ShelfInv
<1> HIDE DEF Shows
<1>5. Shelf!Spec => []ShelfInv
  BY <1>1, <1>2, PTL DEF Shelf!Spec
<1>6. Shelf!Spec => []Shelf!TypeOK
  BY <1>4, <1>5, PTL
<1>7. []ShelfInv => Shelf!BindShows
  BY <1>3, PTL DEF Shelf!BindShows, Shows
<1> QED  BY <1>5, <1>6, <1>7
=============================================================================
