------------------------------- MODULE OrderOcr -------------------------------
(***************************************************************************)
(* Orders and the recognition of their papers: the requests that create    *)
(* and edit orders and bind images (api/v1/orders.py), the rows OcrTask,   *)
(* the runs of run_ocr_task (services/ocr_worker.py) and the poller of     *)
(* every worker (main.py) with its startup lock.                           *)
(*                                                                         *)
(* A request reads through the snapshot its first query opens and commits  *)
(* everything at its end; a run commits after each paper and keeps the     *)
(* order as it loaded it (expire_on_commit is off).                        *)
(***************************************************************************)
EXTENDS Naturals, Sequences, FiniteSets

CONSTANTS
  Procs,      \* the gunicorn workers
  Layouts,    \* the instances: which workers are up, which requests come
  Orders,
  Fields,     \* the fields of an order's dynamic_data
  Requests,   \* requests that edit an order or bind images; each is served once
  ServedBy,   \* [Requests -> Procs]
  Empty,      \* a field without a value, or "-"
  Draft,      \* a value typed when the order was created
  NoOne, Ghost,
  FaultKinds, \* of "crash", "slow", "broken", "unsynced", "lock"
  MaxFaults

VARIABLES
  layout,     \* the instance of this behaviour
  created,    \* the orders that exist
  images,     \* order_image: a version for the set of images, what it has
  data,       \* order.dynamic_data
  fact,       \* order_fact: the data the row was projected from
  tasks,      \* ocr_task, in the order of ids
  view,       \* view[q]: the snapshot of a request, or NoView
  served,     \* requests that have been answered
  bg,         \* bg[p]: runs that requests have put into the background of a worker
  run,        \* run[w]: a call of run_ocr_task
  poll,       \* poll[p]: the pass of a poller
  key, loop, lapsed, faults,   \* the startup lock of the poller
  wanted,     \* history: the newest image version a bind asked to recognise
  scanned,    \* history: the newest image version a finished run has read
  excused,    \* history: orders whose data was committed under another's snapshot
  dated       \* history: orders whose wanted images were bound on an old look at their tasks

ASSUME RequestsServed == IsFiniteSet(Requests) /\ ServedBy \in [Requests -> Procs]
ASSUME KeysTyped == {NoOne, Ghost} \cap Procs = {}
ASSUME FaultsBounded == MaxFaults \in Nat

orderVars == <<layout, created, images, data, fact>>
requestVars == <<view, served>>
lockVars == <<key, loop, lapsed>>
history == <<wanted, scanned, excused, dated>>
vars == <<orderVars, tasks, requestVars, bg, run, poll, lockVars, faults, history>>

Lock == INSTANCE StartupLock WITH MaxLapses <- MaxFaults, lapses <- faults

Versions == 0 .. Cardinality(Requests)

\* A request's name is the value it typed, a number the value read on that version.
Values == {Empty, Draft} \cup Requests \cup (Versions \ {0})

NoData == [f \in Fields |-> Empty]
Data == [Fields -> Values]

Images == [ver : Versions, papers : {"none", "some", "core"}, related : BOOLEAN]

\* "core": vehicle certificate, identity card and driving licence are all there.
NoImages == [ver |-> 0, papers |-> "none", related |-> FALSE]

Ended == {"finished", "finished_with_errors", "failed", "skipped"}
Task == [order : Orders, status : {"pending", "processing"} \cup Ended, active : BOOLEAN]
NewTask(o, active) == [order |-> o, status |-> "pending", active |-> active]
TaskIds == 1 .. Cardinality(Requests)

ActiveOf(ts, o) == {t \in DOMAIN ts : ts[t].order = o /\ ts[t].active}
TasksOf(ts, o) == {<<t, ts[t]>> : t \in {u \in DOMAIN ts : ts[u].order = o}}
QueuedOf(ts, o) == {t \in DOMAIN ts : ts[t].order = o /\ ~ts[t].active /\ ts[t].status = "pending"}
Lowest(S) == CHOOSE t \in S : \A u \in S : t <= u

\* A call of run_ocr_task by the poller of a worker or in the background of a request.
Runs == Procs \X {"poller", "background"}
HomeOf(w) == w[1]
NoRun == [pc |-> "idle", task |-> 0, ver |-> 0, seen |-> NoData, held |-> "pending", found |-> {}, result |-> "failed"]
Reading == {"recognise", "check", "save"}
OrderOf(w) == tasks[run[w].task].order
LiveOn(t) == {w \in Runs : run[w].task = t /\ run[w].pc \notin {"idle", "claim"}}

NoView == <<>>
Snapshot(o) == [order |-> o, data |-> data[o], images |-> images[o], tasks |-> tasks]

MayFail(kind) == kind \in FaultKinds /\ faults < MaxFaults /\ faults' = faults + 1

\* _merge_if_empty: only fields without a value are filled.
Merged(dst, found, ver) == [f \in Fields |-> IF f \in found /\ dst[f] = Empty THEN ver ELSE dst[f]]

Init ==
  /\ layout \in Layouts
  /\ created = {}
  /\ images = [o \in Orders |-> NoImages]
  /\ data = [o \in Orders |-> NoData]
  /\ fact = [o \in Orders |-> NoData]
  /\ tasks = <<>>
  /\ view = [q \in Requests |-> NoView]
  /\ served = {}
  /\ bg = [p \in Procs |-> {}]
  /\ run = [w \in Runs |-> NoRun]
  /\ poll = [p \in Procs |-> [pc |-> "top", batch |-> {}]]
  /\ Lock!LockInit
  /\ wanted = [o \in Orders |-> 0]
  /\ scanned = [o \in Orders |-> 0]
  /\ excused = {} /\ dated = {}

-----------------------------------------------------------------------------
(* Requests                                                                 *)

\* create_order, create_order_draft: order, projection and info row in one transaction.
CreateOrder(o) ==
  /\ o \notin created
  /\ created' = created \cup {o}
  /\ \E dyn \in {NoData, [f \in Fields |-> Draft]} :
       /\ data' = [data EXCEPT ![o] = dyn]
       /\ fact' = [fact EXCEPT ![o] = dyn]
  /\ UNCHANGED <<layout, images, tasks, requestVars, bg, run, poll, lockVars, faults, history>>

\* The first query (the user's) opens the snapshot all plain reads go through.
Begin(q, o) ==
  /\ o \in created
  /\ q \in layout.requests
  /\ view[q] = NoView /\ q \notin served
  /\ view' = [view EXCEPT ![q] = Snapshot(o)]
  /\ UNCHANGED <<orderVars, tasks, served, bg, run, poll, lockVars, faults, history>>

\* The end of a request: its writes are committed, the snapshot is gone.
Commits(q, o) ==
  /\ view[q] # NoView /\ view[q].order = o
  /\ view' = [view EXCEPT ![q] = NoView]
  /\ served' = served \cup {q}

\* Others read the order's data before this commit and may write it after.
OverlapsOn(o, q) ==
  \/ \E r \in Requests \ {q} : view[r] # NoView /\ view[r].order = o
  \/ \E w \in Runs : run[w].pc \in Reading /\ OrderOf(w) = o

\* Mutant: the projection is forgotten.
SaveOrder_NoFact(o, old, new, overlap) ==
  /\ data' = IF new = old THEN data ELSE [data EXCEPT ![o] = new]
  /\ UNCHANGED fact
  /\ excused' = IF new # old /\ overlap THEN excused \cup {o} ELSE excused

\* The ORM writes dynamic_data as a whole and only if it differs from what was read;
\* the projection is upserted in any case.
SaveOrder(o, old, new, overlap) ==
  /\ data' = IF new = old THEN data ELSE [data EXCEPT ![o] = new]
  /\ fact' = [fact EXCEPT ![o] = new]
  /\ excused' = IF new # old /\ overlap THEN excused \cup {o} ELSE excused

Typed(q, old, fields) == [f \in Fields |-> IF f \in fields THEN q ELSE old[f]]

\* update_order_detail: the typed fields are merged into the data as read.
UpdateOrder(q, o) ==
  /\ Commits(q, o)
  /\ \E fields \in SUBSET Fields :
       SaveOrder(o, view[q].data, Typed(q, view[q].data, fields), OverlapsOn(o, q))
  /\ UNCHANGED <<layout, created, images, tasks, bg, run, poll, lockVars, faults, wanted, scanned, dated>>

\* Mutant: no follow-up is queued while a task is being processed.
GetOrCreateTask_NoFollowUp(q, o, after, enqueue) ==
  \/ /\ ActiveOf(tasks, o) = {}
     /\ after = Append(tasks, NewTask(o, TRUE))
     /\ enqueue = {Len(tasks) + 1}
  \/ /\ ActiveOf(tasks, o) # {}
     /\ after = tasks /\ enqueue = {}

\* The INSERT of an active task meets the unique index (committed rows), the queries
\* after a refusal meet the snapshot.  enqueue: the id to run in the background.
GetOrCreateTask(q, o, after, enqueue) ==
  LET seen == view[q].tasks IN
  \/ /\ ActiveOf(tasks, o) = {}
     /\ after = Append(tasks, NewTask(o, TRUE))
     /\ enqueue = {Len(tasks) + 1}
  \/ /\ ActiveOf(tasks, o) # {} /\ ActiveOf(seen, o) = {}
     /\ after = tasks /\ enqueue = {}
  \/ /\ ActiveOf(tasks, o) # {}
     /\ \E t \in ActiveOf(seen, o) :
          \/ /\ seen[t].status = "processing"
             /\ after = IF QueuedOf(seen, o) # {} THEN tasks ELSE Append(tasks, NewTask(o, FALSE))
             /\ enqueue = {}
          \/ /\ seen[t].status # "processing"
             /\ after = tasks /\ enqueue = {t}

\* What new images, or clearing the related ones, make of an order's images.  Papers
\* are replaced, never cleared.
Bound(old, kind) ==
  [ver : {old.ver + 1},
   papers : IF kind = "papers" /\ old.papers # "core" THEN {"some", "core"} ELSE {old.papers},
   related : {IF kind = "papers" THEN old.related ELSE kind = "related"}]

\* The rows stay when images come again under the same keys or there are none to clear.
SameRows(old, kind) ==
  \/ kind = "papers" /\ old.papers # "none"
  \/ kind = "related" /\ old.related
  \/ kind = "clear" /\ ~old.related

\* Related images stand in for papers while a core paper is missing.
WantsOcr(papersSeen, kind) == kind = "papers" \/ (kind = "related" /\ papersSeen # "core")

BindImages(q, o, trigger) ==
  \E kind \in {"papers", "related", "clear"} :
  \E im \in Bound(images[o], kind) \cup {images[o]} :
    /\ IF im = images[o] THEN SameRows(images[o], kind) ELSE kind = "clear" => images[o].related
    /\ images' = [images EXCEPT ![o] = im]
    /\ \/ /\ ~(trigger /\ WantsOcr(view[q].images.papers, kind))
          /\ UNCHANGED <<tasks, bg, wanted, dated>>
       \/ /\ trigger /\ WantsOcr(view[q].images.papers, kind)
          /\ wanted' = [wanted EXCEPT ![o] = im.ver]
          /\ dated' = IF TasksOf(view[q].tasks, o) = TasksOf(tasks, o) THEN dated \ {o} ELSE dated \cup {o}
          /\ \E enqueue \in SUBSET TaskIds :
               /\ GetOrCreateTask(q, o, tasks', enqueue)
               /\ bg' = [bg EXCEPT ![ServedBy[q]] = @ \cup enqueue]

\* bind_order_images
Bind(q, o) ==
  /\ Commits(q, o)
  /\ \E trigger \in BOOLEAN : BindImages(q, o, trigger)
  /\ UNCHANGED <<layout, created, data, fact, run, poll, lockVars, faults, scanned, excused>>

\* finalize_order_upload: typed fields, images, task and projection together.
Finalize(q, o) ==
  /\ Commits(q, o)
  /\ BindImages(q, o, TRUE)
  /\ \E fields \in SUBSET Fields :
       SaveOrder(o, view[q].data, Typed(q, view[q].data, fields), OverlapsOn(o, q))
  /\ UNCHANGED <<layout, created, run, poll, lockVars, faults, scanned>>

-----------------------------------------------------------------------------
(* Runs                                                                     *)

RunVars == <<orderVars, requestVars, lockVars>>

Goto(w, pc) == run' = [run EXCEPT ![w].pc = pc]
EndRun(w) == run' = [run EXCEPT ![w] = NoRun]

\* run_ocr_task looks at the status first and leaves what is not pending.
StartRun(w, t) ==
  /\ run[w].pc = "idle"
  /\ run' = IF tasks[t].status = "pending" THEN [run EXCEPT ![w] = [NoRun EXCEPT !.pc = "claim", !.task = t]] ELSE run

StartInBackground(p, t) ==
  /\ t \in bg[p]
  /\ StartRun(<<p, "background">>, t)
  /\ bg' = [bg EXCEPT ![p] = @ \ {t}]
  /\ UNCHANGED <<RunVars, tasks, poll, faults, history>>

StartByPoller(p) ==
  /\ poll[p].pc = "run" /\ poll[p].batch # {}
  /\ StartRun(<<p, "poller">>, Lowest(poll[p].batch))
  /\ poll' = [poll EXCEPT ![p].batch = @ \ {Lowest(@)}]
  /\ UNCHANGED <<RunVars, tasks, bg, faults, history>>

\* Mutant: the claim trusts the status read before it.
Claimable_Unconditional(t) == TRUE

Claimable(t) == tasks[t].status = "pending" /\ tasks[t].active

\* _claim_task: one conditional UPDATE, committed; the row count decides.
Claim(w) ==
  /\ run[w].pc = "claim"
  /\ \/ /\ Claimable(run[w].task)
        /\ tasks' = [tasks EXCEPT ![run[w].task].status = "processing"]
        /\ Goto(w, "load")
     \/ /\ ~Claimable(run[w].task)
        /\ EndRun(w)
        /\ UNCHANGED tasks
  /\ UNCHANGED <<RunVars, bg, poll, faults, history>>

\* _set_task writes the columns that differ from the row as this run knows it; an end
\* gives up the active scope.
SetTask(w, status) ==
  LET t == run[w].task
      written == IF status = run[w].held THEN tasks[t].status ELSE status
      active == tasks[t].active /\ status \notin Ended IN
  tasks' = [tasks EXCEPT ![t] = [@ EXCEPT !.status = written, !.active = active]]

Scanned(w) == scanned' = [scanned EXCEPT ![OrderOf(w)] = IF run[w].ver > @ THEN run[w].ver ELSE @]

Readable(im) == im.papers # "none" \/ im.related

\* The task, the order and its images are read through one new snapshot.
Load(w) ==
  LET o == OrderOf(w) IN
  /\ run[w].pc = "load"
  /\ \/ /\ Readable(images[o])
        /\ run' = [run EXCEPT ![w] = [@ EXCEPT !.pc = "recognise", !.ver = images[o].ver, !.seen = data[o],
                                              !.held = tasks[run[w].task].status]]
        /\ UNCHANGED <<tasks, scanned>>
     \/ /\ ~Readable(images[o])
        /\ SetTask(w, "skipped")
        /\ scanned' = [scanned EXCEPT ![o] = images[o].ver]
        /\ EndRun(w)
  /\ UNCHANGED <<RunVars, bg, poll, faults, wanted, excused, dated>>

\* The papers are read one by one, _set_task reports each.  A paper that yields nothing
\* is an error of its slot, also when the service is not configured.
Recognise(w) ==
  /\ run[w].pc = "recognise"
  /\ SetTask(w, "processing")
  /\ \E found \in SUBSET Fields, result \in {"finished", "finished_with_errors"} :
       /\ found = {} => result = "finished_with_errors"
       /\ run' = [run EXCEPT ![w] = [@ EXCEPT !.pc = "check", !.held = "processing",
                                             !.found = found, !.result = result]]
  /\ UNCHANGED <<RunVars, bg, poll, faults, history>>

SameImages(w) == images[OrderOf(w)].ver = run[w].ver

\* The signature of the images is read again; a change discards the result and puts the
\* task back into the queue.
CheckImages(w) ==
  /\ run[w].pc = "check"
  /\ \/ /\ SameImages(w)
        /\ Goto(w, "save")
        /\ UNCHANGED tasks
     \/ /\ ~SameImages(w)
        /\ SetTask(w, "pending")
        /\ EndRun(w)
  /\ UNCHANGED <<RunVars, bg, poll, faults, history>>

\* Result and projection are committed from the data as loaded before the recognition.
SaveResult(w) ==
  LET o == OrderOf(w) IN
  /\ run[w].pc = "save"
  /\ SaveOrder(o, run[w].seen, Merged(run[w].seen, run[w].found, run[w].ver),
               \/ \E r \in Requests : view[r] # NoView /\ view[r].order = o
               \/ \E x \in Runs \ {w} : run[x].pc \in Reading /\ OrderOf(x) = o)
  /\ Goto(w, "finish")
  /\ UNCHANGED <<layout, created, images, tasks, requestVars, bg, poll, lockVars, faults, wanted, scanned, dated>>

FinishTask(w) ==
  /\ run[w].pc = "finish"
  /\ SetTask(w, run[w].result)
  /\ Scanned(w)
  /\ EndRun(w)
  /\ UNCHANGED <<RunVars, bg, poll, faults, wanted, excused, dated>>

\* An exception that leaves the session usable ends the task as failed.
RunFails(w) ==
  /\ run[w].pc \in Reading
  /\ MayFail("broken")
  /\ SetTask(w, "failed")
  /\ Scanned(w)
  /\ EndRun(w)
  /\ UNCHANGED <<RunVars, bg, poll, wanted, excused, dated>>

\* A failed flush leaves a session that cannot commit: the row stays in processing.
SessionBreaks(w) ==
  /\ run[w].pc \in Reading \cup {"finish"}
  /\ MayFail("broken")
  /\ EndRun(w)
  /\ UNCHANGED <<RunVars, tasks, bg, poll, history>>

\* The upsert of the projection fails after the order was flushed: the commit of the
\* failed task also commits the order.
SyncFails(w) ==
  LET o == OrderOf(w)
      new == Merged(run[w].seen, run[w].found, run[w].ver) IN
  /\ run[w].pc = "save"
  /\ MayFail("unsynced")
  /\ data' = IF new = run[w].seen THEN data ELSE [data EXCEPT ![o] = new]
  /\ excused' = excused \cup {o}
  /\ SetTask(w, "failed")
  /\ Scanned(w)
  /\ EndRun(w)
  /\ UNCHANGED <<layout, created, images, fact, requestVars, bg, poll, lockVars, wanted, dated>>

-----------------------------------------------------------------------------
(* The poller                                                               *)

PollVars == <<orderVars, requestVars, bg, run>>

LockStep(p, A) == A /\ UNCHANGED <<PollVars, tasks, poll, history>>

\* _ocr_poller_supervisor: a busy key is tried again later; without Redis the loop runs
\* unlocked and for good.
BecomePoller(p) == p \in layout.procs /\ LockStep(p, Lock!Acquire(p))
PollUnlocked(p) == p \in layout.procs /\ "lock" \in FaultKinds /\ LockStep(p, Lock!Unavailable(p))
KeyForgotten == "lock" \in FaultKinds /\ LockStep(NoOne, Lock!ExpiresDuringPass)
OrphanExpires == LockStep(NoOne, Lock!OrphanExpires)

\* The renewal at the top of the loop finds another's token, or Redis fails it.
PollerStops(p) ==
  /\ poll[p].pc = "top"
  /\ \/ key # p /\ LockStep(p, Lock!Release(p))
     \/ "lock" \in FaultKinds /\ LockStep(p, Lock!ReleaseFails(p))

Polls(p) == loop[p] = "free" \/ (loop[p] = "in" /\ key = p)

\* A row is stale when updated_at is old: its run has died, or is slow.
Processing == {t \in DOMAIN tasks : tasks[t].status = "processing" /\ tasks[t].active}
Abandoned == {t \in Processing : LiveOn(t) = {}}

\* Mutant: nothing is recovered.
Stale_Never == {{}}

\* The sets of tasks a pass may find stale.
Stale == {Abandoned} \cup
         IF "slow" \in FaultKinds /\ faults < MaxFaults THEN {Abandoned \cup {t} : t \in Processing} ELSE {}

\* _reset_stale_processing_ocr_tasks, one committed UPDATE
PollRecover(p) ==
  /\ poll[p].pc = "top" /\ Polls(p)
  /\ \E stale \in Stale :
       /\ tasks' = [t \in DOMAIN tasks |-> IF t \in stale THEN [tasks[t] EXCEPT !.status = "pending"] ELSE tasks[t]]
       /\ faults' = IF stale \subseteq Abandoned THEN faults ELSE faults + 1
  /\ poll' = [poll EXCEPT ![p].pc = "activate"]
  /\ UNCHANGED <<PollVars, lockVars, history>>

\* Mutant: a follow-up is activated next to the active task of its order.
Activated_Always == {t \in DOMAIN tasks : t \in QueuedOf(tasks, tasks[t].order)}

\* The follow-ups whose order has no active task, the oldest of each order.
Activated == {t \in DOMAIN tasks :
                LET o == tasks[t].order IN
                ActiveOf(tasks, o) = {} /\ QueuedOf(tasks, o) # {} /\ t = Lowest(QueuedOf(tasks, o))}

\* _activate_queued_ocr_followups, then the ids of the pending tasks are read.
PollActivate(p) ==
  /\ poll[p].pc = "activate"
  /\ tasks' = [t \in DOMAIN tasks |-> IF t \in Activated THEN [tasks[t] EXCEPT !.active = TRUE] ELSE tasks[t]]
  /\ poll' = [poll EXCEPT ![p] = [pc |-> "run",
                                 batch |-> Activated \cup {t \in DOMAIN tasks : Claimable(t)}]]
  /\ UNCHANGED <<PollVars, lockVars, faults, history>>

PassEnds(p) ==
  /\ poll[p].pc = "run" /\ poll[p].batch = {} /\ run[<<p, "poller">>].pc = "idle"
  /\ poll' = [poll EXCEPT ![p].pc = "top"]
  /\ UNCHANGED <<PollVars, tasks, lockVars, faults, history>>

\* A worker dies with its requests, runs and poller; gunicorn starts another.
Crash(p) ==
  /\ p \in layout.procs
  /\ MayFail("crash")
  /\ view' = [q \in Requests |-> IF ServedBy[q] = p THEN NoView ELSE view[q]]
  /\ served' = served \cup {q \in Requests : ServedBy[q] = p /\ view[q] # NoView}
  /\ bg' = [bg EXCEPT ![p] = {}]
  /\ run' = [w \in Runs |-> IF HomeOf(w) = p THEN NoRun ELSE run[w]]
  /\ poll' = [poll EXCEPT ![p] = [pc |-> "top", batch |-> {}]]
  /\ key' = IF key = p THEN Ghost ELSE key
  /\ loop' = [loop EXCEPT ![p] = "out"]
  /\ lapsed' = lapsed \ {p}
  /\ UNCHANGED <<orderVars, tasks, history>>

-----------------------------------------------------------------------------
RunStep(w) ==
  Claim(w) \/ Load(w) \/ Recognise(w) \/ CheckImages(w) \/ SaveResult(w) \/ FinishTask(w)

PollStep(p) ==
  \/ BecomePoller(p) \/ PollerStops(p)
  \/ PollRecover(p) \/ PollActivate(p) \/ StartByPoller(p) \/ PassEnds(p)

RequestStep(q, o) == Begin(q, o) \/ UpdateOrder(q, o) \/ Bind(q, o) \/ Finalize(q, o)

Next ==
  \/ \E o \in Orders : CreateOrder(o)
  \/ \E q \in Requests, o \in Orders : RequestStep(q, o)
  \/ \E w \in Runs : RunStep(w) \/ RunFails(w) \/ SessionBreaks(w) \/ SyncFails(w)
  \/ \E p \in Procs :
       \/ PollStep(p) \/ PollUnlocked(p) \/ Crash(p)
       \/ \E t \in TaskIds : StartInBackground(p, t)
  \/ KeyForgotten \/ OrphanExpires

Spec == Init /\ [][Next]_vars

\* The event loops run what is ready, calls to the recogniser time out, keys expire.
Fairness ==
  /\ \A w \in Runs : WF_vars(RunStep(w))
  /\ \A p \in Procs : WF_vars(PollStep(p))
  /\ WF_vars(OrphanExpires)

FairSpec == Spec /\ Fairness

-----------------------------------------------------------------------------
TypeOK ==
  /\ layout \in Layouts
  /\ created \in SUBSET Orders
  /\ images \in [Orders -> Images]
  /\ data \in [Orders -> Data] /\ fact \in [Orders -> Data]
  /\ tasks \in Seq(Task) /\ \A o \in Orders : Cardinality(ActiveOf(tasks, o)) <= 1
  /\ served \in SUBSET Requests
  /\ bg \in [Procs -> SUBSET TaskIds]
  /\ run \in [Runs -> [pc : {"idle", "claim", "load", "recognise", "check", "save", "finish"},
                       task : {0} \cup TaskIds, ver : Versions, seen : Data,
                       held : {"pending", "processing"} \cup Ended,
                       found : SUBSET Fields, result : Ended]]
  /\ poll \in [Procs -> [pc : {"top", "activate", "run"}, batch : SUBSET TaskIds]]
  /\ Lock!LockTypeOK
  /\ wanted \in [Orders -> Versions] /\ scanned \in [Orders -> Versions]
  /\ excused \in SUBSET Orders /\ dated \in SUBSET Orders

(* The columns orders are filtered and listed by are those of the order, unless a       *)
(* transaction that read the order earlier committed over another, or a projection      *)
(* failed (order_fact, sync_order_fact_from_dynamic_data).                              *)
FactFollowsData == \A o \in Orders : fact[o] # data[o] => o \in excused

(* Two pollers hold the startup lock at once only if one outlived its TTL (main.py       *)
(* 104-151, 328-360); and however many pollers and background runs there are, two of     *)
(* them never work on one task, as long as no slow run is taken for dead (the claim of   *)
(* ocr_worker.py 851-872).                                                              *)
RunsAlone ==
  /\ Lock!AloneUnlessLapsed
  /\ \A t \in TaskIds : Cardinality(LiveOn(t)) <= 1

\* No request is under way, no task of the order is waiting or being processed.
Settled(o) ==
  /\ \A q \in Requests : view[q] = NoView
  /\ \A t \in DOMAIN tasks : tasks[t].order = o => tasks[t].status \in Ended
  /\ \A w \in Runs : run[w].task # 0 => OrderOf(w) # o

(* When an order has come to rest, the newest images somebody asked to recognise have   *)
(* been read by a run that reported its end: what follow-ups, the comparison of the     *)
(* images and the recovery are for.  A request that bound them may have looked for a    *)
(* task through a snapshot from before another request's or a run's commit.             *)
NewImagesScanned == \A o \in Orders : Settled(o) => scanned[o] >= wanted[o] \/ o \in dated

(* Every task is finished in the end: claimed, recovered, activated and run again as    *)
(* often as it takes.                                                                   *)
EveryTaskEnds ==
  \A t \in TaskIds :
    (t \in DOMAIN tasks) ~> (t \in DOMAIN tasks /\ tasks[t].status \in Ended)

(* "Avoid overwriting manual corrections" (ocr_worker.py 149-153): no step replaces a   *)
(* value a user typed by one that was recognised.                                       *)
TypedKept ==
  [][\A o \in Orders, f \in Fields : data[o][f] \in Requests => data'[o][f] \in Requests]_vars
=============================================================================
