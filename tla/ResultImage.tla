------------------------------ MODULE ResultImage ------------------------------
(***************************************************************************)
(* The image of a quote's result (ai_assistant_service.py): the message    *)
(* with the result is committed without it, and a background job of some   *)
(* worker renders it and writes it into the message's metadata.  The chat  *)
(* request schedules the job; opening the conversation schedules it again  *)
(* while the image is missing.  A worker runs one job for a message at a   *)
(* time, and a key in Redis keeps the workers apart.                       *)
(*                                                                         *)
(* A recall of images marks the same metadata.  Both write all of it, from *)
(* the snapshot they read it in.                                           *)
(***************************************************************************)
EXTENDS Naturals

CONSTANTS Workers, NoWorker, MaxFaults, MaxRecalls  \* bounds on the faults and the recalls

VARIABLES
  meta,      \* metadata_json of the message
  scheduled, \* the workers that have its key in their set of scheduled jobs
  job,       \* job[w]: where the job of a worker stands
  view,      \* view[w]: the metadata the job has read
  holds,     \* the workers whose job was given a claim
  claim,     \* the key in Redis
  recall, recallView, recalls,
  faults,
  loose      \* history: a job worked without its claim

vars == <<meta, scheduled, job, view, holds, claim, recall, recallView, recalls, faults, loose>>

Metadata == [image : {"pending", "done", "failed"}, recalled : BOOLEAN]
Unread == [image |-> "pending", recalled |-> FALSE]

\* The chat request that got the result schedules the first job.
Init ==
  /\ meta = Unread
  /\ \E w \in Workers :
       scheduled = {w} /\ job = [v \in Workers |-> IF v = w THEN "claim" ELSE "idle"]
  /\ view = [w \in Workers |-> Unread]
  /\ holds = {} /\ claim = NoWorker
  /\ recall = "idle" /\ recallView = Unread /\ recalls = 0
  /\ faults = 0 /\ loose = FALSE

-----------------------------------------------------------------------------
MayFail == faults < MaxFaults /\ faults' = faults + 1
NoFault == UNCHANGED faults

Step(w, from, to) == job[w] = from /\ job' = [job EXCEPT ![w] = to]
SameRecall == UNCHANGED <<recall, recallView, recalls>>

\* The conversation is opened and shows a result without its image.
Schedule(w) ==
  /\ meta.image = "pending" /\ w \notin scheduled
  /\ scheduled' = scheduled \cup {w}
  /\ Step(w, "idle", "claim")
  /\ NoFault /\ SameRecall
  /\ UNCHANGED <<meta, view, holds, claim, loose>>

\* Mutant: SET without NX.
Taken_Never == FALSE

Taken == claim # NoWorker

\* Without Redis the job works unclaimed.
Claim(w) ==
  /\ \/ /\ ~Taken
        /\ Step(w, "claim", "load")
        /\ claim' = w /\ holds' = holds \cup {w}
        /\ NoFault /\ UNCHANGED loose
     \/ /\ Taken
        /\ Step(w, "claim", "release")
        /\ NoFault /\ UNCHANGED <<claim, holds, loose>>
     \/ /\ Step(w, "claim", "load")
        /\ MayFail /\ loose' = TRUE
        /\ UNCHANGED <<claim, holds>>
  /\ SameRecall
  /\ UNCHANGED <<meta, scheduled, view>>

Load(w) ==
  /\ \/ Step(w, "load", IF meta.image = "pending" THEN "render" ELSE "release") /\ NoFault
     \/ Step(w, "load", "clear") /\ MayFail
  /\ view' = [view EXCEPT ![w] = meta]
  /\ SameRecall
  /\ UNCHANGED <<meta, scheduled, holds, claim, loose>>

\* save_quote_result_card_image in a thread; an incomplete card or upload raises.
Render(w) ==
  /\ Step(w, "render", "save") \/ Step(w, "render", "clear")
  /\ NoFault /\ SameRecall
  /\ UNCHANGED <<meta, scheduled, view, holds, claim, loose>>

Save(w) ==
  /\ \/ /\ Step(w, "save", "release")
        /\ meta' = [view[w] EXCEPT !.image = "done"]
        /\ NoFault
     \/ Step(w, "save", "clear") /\ MayFail /\ UNCHANGED meta
  /\ SameRecall
  /\ UNCHANGED <<scheduled, view, holds, claim, loose>>

\* _clear_async_quote_result_image_pending looks again, in a transaction of its own.
Clear(w) ==
  /\ Step(w, "clear", IF meta.image = "pending" THEN "give up" ELSE "release")
  /\ view' = [view EXCEPT ![w] = meta]
  /\ NoFault /\ SameRecall
  /\ UNCHANGED <<meta, scheduled, holds, claim, loose>>

GiveUp(w) ==
  /\ Step(w, "give up", "release")
  /\ \/ meta' = [view[w] EXCEPT !.image = "failed"] /\ NoFault
     \/ MayFail /\ UNCHANGED meta
  /\ SameRecall
  /\ UNCHANGED <<scheduled, view, holds, claim, loose>>

\* Mutant: the key of a finished job stays in the set.
Discarded_Never(w) == scheduled

Discarded(w) == scheduled \ {w}

\* The script deletes the key only with the job's own token.
Release(w) ==
  /\ Step(w, "release", "idle")
  /\ scheduled' = Discarded(w)
  /\ claim' = IF w \in holds /\ claim = w THEN NoWorker ELSE claim
  /\ holds' = holds \ {w}
  /\ view' = [view EXCEPT ![w] = Unread]
  /\ NoFault /\ SameRecall
  /\ UNCHANGED <<meta, loose>>

JobStep(w) ==
  Claim(w) \/ Load(w) \/ Render(w) \/ Save(w) \/ Clear(w) \/ GiveUp(w) \/ Release(w)

\* The process dies; its key stays in Redis.
Crash(w) ==
  /\ MayFail
  /\ job' = [job EXCEPT ![w] = "idle"]
  /\ view' = [view EXCEPT ![w] = Unread]
  /\ scheduled' = scheduled \ {w} /\ holds' = holds \ {w}
  /\ SameRecall
  /\ UNCHANGED <<meta, claim, loose>>

\* The key of a job that is gone expires.
OrphanExpires ==
  /\ claim # NoWorker /\ claim \notin holds
  /\ claim' = NoWorker
  /\ NoFault /\ SameRecall
  /\ UNCHANGED <<meta, scheduled, job, view, holds, loose>>

\* A job is slower than the TTL of its key.
Lapse ==
  /\ claim \in holds /\ MayFail
  /\ claim' = NoWorker /\ loose' = TRUE
  /\ SameRecall
  /\ UNCHANGED <<meta, scheduled, job, view, holds>>

\* db_recall_session_images
StartRecall ==
  /\ recall = "idle" /\ recalls < MaxRecalls
  /\ recall' = "marking" /\ recallView' = meta /\ recalls' = recalls + 1
  /\ UNCHANGED <<meta, scheduled, job, view, holds, claim, faults, loose>>

Marked(m) == [m EXCEPT !.recalled = TRUE]

EndRecall ==
  /\ recall = "marking"
  /\ meta' = IF recallView.recalled THEN meta ELSE Marked(recallView)
  /\ recall' = "idle" /\ recallView' = Unread
  /\ UNCHANGED <<scheduled, job, view, holds, claim, recalls, faults, loose>>

Next ==
  \/ \E w \in Workers : Schedule(w) \/ JobStep(w) \/ Crash(w)
  \/ OrphanExpires
  \/ Lapse
  \/ StartRecall
  \/ EndRecall

Spec == Init /\ [][Next]_vars

\* The event loop runs the jobs, keys expire, and the user opens the conversation again.
Fairness ==
  /\ \A w \in Workers : WF_vars(JobStep(w)) /\ WF_vars(Schedule(w))
  /\ WF_vars(OrphanExpires)

-----------------------------------------------------------------------------
TypeOK ==
  /\ meta \in Metadata /\ recallView \in Metadata
  /\ scheduled \subseteq Workers /\ holds \subseteq Workers
  /\ job \in [Workers -> {"idle", "claim", "load", "render", "save", "clear", "give up", "release"}]
  /\ view \in [Workers -> Metadata]
  /\ claim \in Workers \cup {NoWorker}
  /\ recall \in {"idle", "marking"} /\ recalls \in 0 .. MaxRecalls
  /\ faults \in 0 .. MaxFaults /\ loose \in BOOLEAN

\* An image that is there is taken away only by a recall that has read the message before,
\* or after a job worked without its claim.
ImageKept ==
  [][meta.image = "done" /\ meta'.image # "done" =>
       loose \/ (EndRecall /\ recallView.image # "done")]_vars

\* A result that waits for its image gets it, or is marked as having none.
ImageSettles == meta.image = "pending" ~> meta.image # "pending"
===============================================================================
