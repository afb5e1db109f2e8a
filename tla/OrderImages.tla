----------------------------- MODULE OrderImages -----------------------------
(***************************************************************************)
(* The papers of one order (api/v1/orders.py): finalize and images/bind    *)
(* replace what a slot shows.  Both delete the rows of every slot they     *)
(* name that they do not want, then insert what they want and do not find. *)
(*                                                                         *)
(* The DELETE reads what is committed and locks the rows it scans, with    *)
(* the gap; the look for an existing row reads the snapshot the request    *)
(* opened.  Gap locks do not exclude each other, but an insert waits for   *)
(* those of others, and of two that wait for each other one is rolled back.*)
(***************************************************************************)
EXTENDS Naturals, SequencesExt

CONSTANTS
  Uploads,    \* the places of requests in flight; each serves any number of them
  Papers,     \* storage keys, which name the slot
  slotOf,
  MultiSlots, \* slots that show several papers
  MaxBinds    \* bound on the requests

VARIABLES
  shown,  \* order_image
  files,  \* image_file
  binds,  \* the number of requests so far
  pc,
  asked,  \* asked[u]: the papers of the request, in its order, and the slots to clear
  saw,    \* saw[u]: order_image and image_file in the request's snapshot
  held,   \* held[u]: the slots whose rows and gap the request has locked
  gone    \* gone[u]: the rows it has deleted

vars == <<shown, files, binds, pc, asked, saw, held, gone>>

Slots == {slotOf[i] : i \in Papers}
InSlot(S, s) == {i \in S : slotOf[i] = s}

\* Up to two papers; only slots that show several can be cleared.
Requested == [papers : SeqOf(Papers, 2), clear : SUBSET MultiSlots]
Nothing == [papers |-> <<>>, clear |-> {}]
NoView == [shown |-> {}, files |-> {}]

Init ==
  /\ shown = {} /\ files = {} /\ binds = 0
  /\ pc = [u \in Uploads |-> "idle"]
  /\ asked = [u \in Uploads |-> Nothing]
  /\ saw = [u \in Uploads |-> NoView]
  /\ held = [u \in Uploads |-> {}]
  /\ gone = [u \in Uploads |-> {}]

-----------------------------------------------------------------------------
\* desired_sks: every paper sent for a slot that shows several, else the last one.
Kept(papers, s) ==
  {papers[k] : k \in {k \in DOMAIN papers :
     /\ slotOf[papers[k]] = s
     /\ s \notin MultiSlots => \A n \in DOMAIN papers : n > k => slotOf[papers[n]] # s}}

\* normalized_images: the same choice, made apart.
Normalized(papers) ==
  {i \in ToSet(papers) : slotOf[i] \notin MultiSlots =>
     \E k \in DOMAIN papers :
       papers[k] = i /\ \A n \in DOMAIN papers : slotOf[papers[n]] = slotOf[i] => n <= k}

Touched(u) == asked[u].clear \cup {slotOf[i] : i \in ToSet(asked[u].papers)}

Leave(u) ==
  /\ pc' = [pc EXCEPT ![u] = "idle"]
  /\ asked' = [asked EXCEPT ![u] = Nothing]
  /\ saw' = [saw EXCEPT ![u] = NoView]
  /\ held' = [held EXCEPT ![u] = {}]
  /\ gone' = [gone EXCEPT ![u] = {}]

\* The first query of the request opens its snapshot.
Begin(u) ==
  /\ pc[u] = "idle" /\ binds < MaxBinds
  /\ \E r \in Requested \ {Nothing} : asked' = [asked EXCEPT ![u] = r]
  /\ saw' = [saw EXCEPT ![u] = [shown |-> shown, files |-> files]]
  /\ pc' = [pc EXCEPT ![u] = "clear"]
  /\ binds' = binds + 1
  /\ UNCHANGED <<shown, files, held, gone>>

\* Rows that another request has scanned are locked until it ends.
MayScan(u, s) == \A v \in Uploads \ {u} : s \in held[v] => InSlot(shown, s) = {}

\* Mutant: only the rows of the snapshot are deleted.
Scanned_Snapshot(u, s) == InSlot(shown \cap saw[u].shown, s)

Scanned(u, s) == InSlot(shown, s)

ClearSlot(u, s) ==
  /\ pc[u] = "clear" /\ s \in Touched(u) \ held[u] /\ MayScan(u, s)
  /\ gone' = [gone EXCEPT ![u] = @ \cup (Scanned(u, s) \ Kept(asked[u].papers, s))]
  /\ held' = [held EXCEPT ![u] = @ \cup {s}]
  /\ pc' = [pc EXCEPT ![u] = IF Touched(u) \subseteq held'[u] THEN "insert" ELSE "clear"]
  /\ UNCHANGED <<shown, files, binds, asked, saw>>

\* The rows it adds: those its snapshot does not show.
Added(u) == Normalized(asked[u].papers) \ saw[u].shown
NewFiles(u) == Normalized(asked[u].papers) \ saw[u].files

\* An insert waits while another request holds the gap.
MayInsert(u) == \A i \in Added(u), v \in Uploads \ {u} : slotOf[i] \notin held[v]

\* A file or a row that the snapshot does not show may exist: the request then fails.
Insert(u) ==
  /\ pc[u] = "insert" /\ MayInsert(u)
  /\ NewFiles(u) \cap files = {} /\ Added(u) \cap shown = {}
  /\ shown' = (shown \ gone[u]) \cup Added(u)
  /\ files' = files \cup NewFiles(u)
  /\ Leave(u)
  /\ UNCHANGED binds

\* A duplicate key, a deadlock, a lock wait that timed out, a lost connection.
Abort(u) == pc[u] # "idle" /\ Leave(u) /\ UNCHANGED <<shown, files, binds>>

Next ==
  \E u \in Uploads :
    \/ Begin(u)
    \/ \E s \in Slots : ClearSlot(u, s)
    \/ Insert(u)
    \/ Abort(u)

Spec == Init /\ [][Next]_vars

-----------------------------------------------------------------------------
TypeOK ==
  /\ shown \subseteq files /\ files \subseteq Papers
  /\ binds \in 0 .. MaxBinds
  /\ pc \in [Uploads -> {"idle", "clear", "insert"}]
  /\ asked \in [Uploads -> Requested]
  /\ saw \in [Uploads -> [shown : SUBSET Papers, files : SUBSET Papers]]
  /\ held \in [Uploads -> SUBSET Slots]
  /\ gone \in [Uploads -> SUBSET Papers]

\* A request that has ended leaves in every slot it names exactly the papers it sent for
\* it, however many others replaced them meanwhile, and other slots as they were.  One
\* thing may be missing: a paper of its snapshot that another request has removed since,
\* which it takes to be still there.
BindShows ==
  [][\A u \in Uploads, s \in Slots : Insert(u) =>
       InSlot(shown', s) =
         IF s \in Touched(u) THEN Kept(asked[u].papers, s) \ (saw[u].shown \ shown)
         ELSE InSlot(shown, s)]_vars
=============================================================================
