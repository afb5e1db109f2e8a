---------------------------- MODULE MCConversation ----------------------------
(***************************************************************************)
(* Three parts of a conversation for TLC, one of them chosen at the start: *)
(* its quote tasks (QuoteTask), the image of a result (ResultImage) and    *)
(* the notices of a quote (Notices).  The others stand still.              *)
(***************************************************************************)
EXTENDS MCQuoteTask

VARIABLES
  part,
  meta, scheduled, job, jobView, holds, claim, recall, recallView, recalls, faults, loose,
  maxSaid, isolation, chat, chatView, own, attempt, confirmed, quotePc, said, shown, waits,
  sending, kept, outcome, seen, dropped, troubles

Image == INSTANCE ResultImage WITH
  Workers <- {n1, n2}, NoWorker <- NoOne, MaxFaults <- 2, MaxRecalls <- 1, view <- jobView

\* A text and two parts of it that have nothing in common.
Contained == {<<"text", "text">>, <<"part", "part">>, <<"rest", "rest">>, <<"text", "part">>,
              <<"text", "rest">>, <<"own", "own">>}

Notes == INSTANCE Notices WITH
  Texts <- {"text", "part", "rest"}, Contains <- Contained, Long <- {"text", "part", "rest"}, Own <- "own",
  Bounds <- {<<4>>, <<1, 1>>}, MaxTroubles <- 1, rows <- chat, view <- chatView, pc <- quotePc,
  answer <- outcome

noticeVars == <<maxSaid, isolation, chat, chatView, own, attempt, confirmed, quotePc, said, shown,
                waits, sending, kept, outcome, seen, dropped, troubles>>
imageVars == <<meta, scheduled, job, jobView, holds, claim, recall, recallView, recalls, faults, loose>>

PartsInit ==
  /\ Init
  /\ Image!Init
  /\ Notes!Init
  /\ part \in {"tasks", "image", "notices"}
  /\ part # "notices" => maxSaid = <<4>> /\ isolation = "repeatable read"
  /\ part # "image" => scheduled = {n1}

PartsNext ==
  /\ UNCHANGED part
  /\ \/ part = "tasks" /\ Next /\ UNCHANGED <<imageVars, noticeVars>>
     \/ part = "image" /\ Image!Next /\ UNCHANGED <<vars, noticeVars>>
     \/ part = "notices" /\ Notes!Next /\ UNCHANGED <<vars, imageVars>>

Fairly(p, A) == part = p /\ A

\* The fairness of QuoteTask and of ResultImage, while their part is chosen.
PartsSpec ==
  /\ PartsInit /\ [][PartsNext]_<<part, vars, imageVars, noticeVars>>
  /\ \A r \in Requests : WF_vars(Fairly("tasks", Step(r)))
  /\ \A w \in {n1, n2} : WF_imageVars(Fairly("image", Image!JobStep(w)))
  /\ \A w \in {n1, n2} : WF_imageVars(Fairly("image", Image!Schedule(w)))
  /\ WF_imageVars(Fairly("image", Image!OrphanExpires))

(* QuoteTask!TypeOK, ResultImage!TypeOK and Notices!TypeOK *)
PartsTypeOK == TypeOK /\ Image!TypeOK /\ Notes!TypeOK

(* ResultImage!ImageKept *)
ImageKept == Image!ImageKept

(* ResultImage!ImageSettles, if its part is chosen *)
ImageSettles == (part = "image" /\ meta.image = "pending") ~> meta.image # "pending"

(* Notices!ToldExactlyOnce *)
ToldExactlyOnce == Notes!ToldExactlyOnce
===============================================================================
