----------------------------- MODULE QuoteMaterial -----------------------------
(***************************************************************************)
(* The material of one quote case (quote_assistant_service.py): images in  *)
(* slots, what was read from them, what the user typed and what the user   *)
(* overrode by hand, as chat messages and image recalls leave it, with the *)
(* owner's name and the sort of number plate that are derived from these.  *)
(*                                                                         *)
(* A value is named by where it comes from: the image it was read from or  *)
(* the request it was typed with.  Every request works on the snapshot of  *)
(* its transaction; the case row is locked FOR UPDATE, which does not      *)
(* refresh a case already loaded, and a commit sends the columns that      *)
(* differ from what was loaded.  Chat messages hold their process's chat   *)
(* lock, or its interrupt lock while a quote is running; a recall holds    *)
(* none.                                                                   *)
(***************************************************************************)
EXTENDS Naturals

CONSTANTS
  Chats, Recalls,  \* the places of requests in flight; each serves any number of them
  ServedBy,        \* the worker process of each chat
  Images,
  reads,           \* the fields recognised in each image
  ByHand,          \* the fields that are typed or adjusted
  Electric,        \* the values that speak for a new energy vehicle
  Nothing,
  MaxChanges       \* bound on the changes of the material

Places == Chats \cup Recalls

Slots == {"vehicle_cert", "driving_license_main", "idcard_front"}
Fields == {"vin", "plate_no", "owner_name", "id_name", "energy_type", "license_type"}
Manages == [vehicle_cert |-> {"vin", "energy_type"}, driving_license_main |-> {"vin", "plate_no", "owner_name"},
            idcard_front |-> {"id_name"}]

Values == Images \cup Chats \cup {Nothing}
NoLock == <<"none", "none">>
Locks == ({ServedBy[c] : c \in Chats} \X {"chat", "interrupt"}) \cup {NoLock}

VARIABLES
  rows,    \* the rows of quote_case_image
  case,    \* normalized_data of the case, with the manual overrides kept in it
  pc,
  lock,    \* the lock a chat request waits for or holds
  saw,     \* the snapshot of each request's transaction
  changes, \* how often the material changed
  beside,  \* history: the locks under which others committed since that snapshot
  excused  \* history: the images for which requests overlapped, or that changed slot

vars == <<rows, case, pc, lock, saw, changes, beside, excused>>

Empty == [f \in Fields |-> Nothing]
Absent == [status |-> "absent", slot |-> "vehicle_cert"]
NoView == [rows |-> [i \in Images |-> Absent], case |-> [data |-> Empty, overrides |-> Empty]]
Current == [rows |-> rows, case |-> case]

Init ==
  /\ rows = NoView.rows
  /\ case = NoView.case
  /\ pc = [p \in Places |-> "idle"]
  /\ lock = [p \in Places |-> NoLock]
  /\ saw = [p \in Places |-> NoView]
  /\ changes = 0
  /\ beside = [p \in Places |-> {}]
  /\ excused = {}

-----------------------------------------------------------------------------
InSlot(view, s) == {i \in Images : view[i].status = "active" /\ view[i].slot = s}

\* What is recognised of the fields of an image's slot, if it is there.
Recognised(view, i) ==
  IF view[i].status = "active" THEN reads[i] \cap Manages[view[i].slot] ELSE {}

\* The images a field can be taken from; which one is a matter of recognition quality.
Shown(view, f) == {i \in Images : f \in Recognised(view, i)}

\* The images that say what another one says too; none of them need be preferred.
Rivals(view) ==
  {i \in Images : \E f \in Recognised(view, i) : Shown(view, f) # {i}} \cup {Nothing}

\* A slot with an image in which anything was recognised takes over all its fields.
Dropped(view) == UNION {Manages[view[i].slot] : i \in {j \in Images : Recognised(view, j) # {}}}

\* _merge_data and _merge_quote_data_overrides
Merged(base, over) == [f \in Fields |-> IF over[f] # Nothing THEN over[f] ELSE base[f]]

\* Mutant: nothing is ever taken out.
Keeps(data, fields) == data

Without(data, fields) == [f \in Fields |-> IF f \in fields THEN Nothing ELSE data[f]]

\* _clean_quote_dynamic_data: who is not named as the owner is the person on the identity card.
Named(data) == [data EXCEPT !.owner_name = IF @ # Nothing THEN @ ELSE data.id_name]

\* What speaks for a sort of number plate: a plate of new energy, the energy named, and what
\* certificates say of it.
Says(data, view) ==
  (({data.plate_no} \cap Electric) \cup {data.energy_type}
    \cup Shown(view, "energy_type")) \ {Nothing}

\* Mutant: what was decided once is never decided anew.
LicenseType_Once(data, view) ==
  IF data.license_type # Nothing \/ Says(data, view) = {} THEN data.license_type
  ELSE CHOOSE v \in Says(data, view) : Says(data, view) \cap Electric # {} => v \in Electric

\* _resolve_license_type_decision: once new energy, always new energy; then what speaks for it,
\* then what speaks for fuel, then what it was.
LicenseType(data, view) ==
  LET said == Says(data, view) IN
  IF data.license_type \in Electric \/ said = {} THEN data.license_type
  ELSE CHOOSE v \in said : said \cap Electric # {} => v \in Electric

\* _normalize_quote_case_data: kept data, then images, then typed text, then overrides.
\* `best` is the image preferred where several are shown.
Normalized(base, view, text, manual, best) ==
  LET overrides == Merged(base.overrides, manual)
      Read(shown) == IF shown = {} THEN Nothing ELSE IF best \in shown THEN best ELSE CHOOSE i \in shown : TRUE
      read == [f \in Fields |-> Read(Shown(view, f))]
      kept == Without(Named(base.data), Dropped(view))
      data == Named(Merged(Merged(Merged(kept, Named(read)), Named(text)), overrides)) IN
  [data |-> IF overrides.license_type # Nothing THEN data
            ELSE [data EXCEPT !.license_type = LicenseType(data, view)],
   overrides |-> overrides]

\* What a commit makes of a value it loaded as `read` and now holds as `mine`.
Sent(mine, read, stored) == IF mine = read THEN stored ELSE mine

\* The images of which an overlapped request may leave values it should not: its own,
\* those others changed, those its older case has values of, and replaced ones the case has.
Overlapping(p, own) ==
  IF Current = saw[p] THEN {}
  ELSE own \cup {i \in Images :
         \/ rows[i] # saw[p].rows[i]
         \/ \E f \in Fields : saw[p].case.data[f] = i
         \/ rows[i].status # "active" /\ \E f \in Fields : case.data[f] = i}

Done(p) ==
  /\ pc' = [pc EXCEPT ![p] = "idle"]
  /\ lock' = [lock EXCEPT ![p] = NoLock]
  /\ saw' = [saw EXCEPT ![p] = NoView]
  /\ changes' = IF Current' = Current THEN changes ELSE changes + 1
  /\ beside' = [q \in Places |->
       IF q = p \/ pc[q] # "working" THEN {}
       ELSE IF Current' = Current THEN beside[q] ELSE beside[q] \cup {lock[p]}]

-----------------------------------------------------------------------------
\* Mutant: nobody waits.
Unlocked(l) == TRUE

Free(l) == \A d \in Chats : pc[d] = "working" => lock[d] # l

\* "Start the actual chat handling from a fresh transaction after the per-session lock."
TakeLock(c) ==
  /\ pc[c] = "idle" /\ changes < MaxChanges
  /\ \E kind \in {"chat", "interrupt"} :
       /\ Free(<<ServedBy[c], kind>>)
       /\ lock' = [lock EXCEPT ![c] = <<ServedBy[c], kind>>]
  /\ pc' = [pc EXCEPT ![c] = "working"]
  /\ saw' = [saw EXCEPT ![c] = Current]
  /\ UNCHANGED <<rows, case, changes, beside, excused>>

\* The case a chat works on: loaded FOR UPDATE by the sweep if a quote is running, and
\* otherwise the one of its snapshot.
Loaded(c) == {case, saw[c].case}

Commit(c, base, view, text, manual) ==
  /\ \E best \in Rivals(view) : case' = Sent(Normalized(base, view, text, manual, best), base, case)
  /\ Done(c)

\* handle_quote_images_message: one image into a slot, whose other images it replaces.
TakeImage(c) ==
  /\ pc[c] = "working"
  /\ \E i \in Images, s \in Slots, base \in Loaded(c) :
       LET seen == saw[c].rows
           others == InSlot(seen, s) \ {i}
           status == Sent("active", seen[i].status, rows[i].status)
           view == [j \in Images |-> IF j = i THEN [status |-> status, slot |-> s]
                                     ELSE IF j \in others THEN [seen[j] EXCEPT !.status = "replaced"]
                                     ELSE seen[j]] IN
         /\ seen[i].status = "absent" => rows[i].status = "absent"  \* a unique key
         /\ rows' = [j \in Images |->
              IF j = i THEN [status |-> status, slot |-> Sent(s, seen[i].slot, rows[i].slot)]
              ELSE IF j \in others THEN [rows[j] EXCEPT !.status = "replaced"] ELSE rows[j]]
         /\ excused' = excused \cup Overlapping(c, {i} \cup others)
              \cup (IF seen[i].status # "absent" /\ seen[i].slot # s THEN {i} ELSE {})
         /\ Commit(c, base, view, Empty, Empty)

\* handle_quote_text_material_message: a typed value.
TakeText(c) ==
  /\ pc[c] = "working"
  /\ UNCHANGED rows
  /\ \E f \in ByHand, base \in Loaded(c) :
       Commit(c, base, saw[c].rows, [Empty EXCEPT ![f] = c], Empty)
  /\ excused' = excused \cup Overlapping(c, {})

\* A form or an adjustment: a value set by hand, for good.
TakeOverride(c) ==
  /\ pc[c] = "working"
  /\ UNCHANGED rows
  /\ \E f \in ByHand, base \in Loaded(c) :
       Commit(c, base, saw[c].rows, Empty, [Empty EXCEPT ![f] = c])
  /\ excused' = excused \cup Overlapping(c, {})

\* handle_quote_message: the material as it is, once more.
TakeQuote(c) ==
  /\ pc[c] = "working"
  /\ UNCHANGED rows
  /\ \E base \in Loaded(c) : Commit(c, base, saw[c].rows, Empty, Empty)
  /\ excused' = excused \cup Overlapping(c, {})

BeginRecall(r) ==
  /\ pc[r] = "idle" /\ changes < MaxChanges
  /\ pc' = [pc EXCEPT ![r] = "working"]
  /\ saw' = [saw EXCEPT ![r] = Current]
  /\ UNCHANGED <<rows, case, lock, changes, beside, excused>>

\* recall_quote_case_images: without the fields of the images' slots; no lock but those of the
\* rows it writes.
Recall(r) ==
  /\ pc[r] = "working"
  /\ \E gone \in SUBSET {i \in Images : saw[r].rows[i].status = "active"} :
       LET fields == UNION {Manages[saw[r].rows[i].slot] : i \in gone}
           base == [saw[r].case EXCEPT !.data = Without(@, fields)]
           view == [i \in Images |-> IF i \in gone THEN [saw[r].rows[i] EXCEPT !.status = "deleted_by_user"]
                                     ELSE saw[r].rows[i]] IN
         /\ gone # {}
         /\ rows' = [i \in Images |-> IF i \in gone THEN [rows[i] EXCEPT !.status = "deleted_by_user"]
                                      ELSE rows[i]]
         /\ \E best \in Rivals(view) :
              case' = Sent(Normalized(base, view, Empty, Empty, best), saw[r].case, case)
         /\ excused' = excused \cup Overlapping(r, gone)
  /\ Done(r)

\* A deadlock, an unreadable image or a lost process: nothing of the request stays.
Abort(p) ==
  /\ pc[p] # "idle"
  /\ UNCHANGED <<rows, case, excused>>
  /\ Done(p)

Chat(c) ==
  \/ TakeLock(c) \/ TakeImage(c) \/ TakeText(c) \/ TakeOverride(c) \/ TakeQuote(c)

Next ==
  \/ \E c \in Chats : Chat(c)
  \/ \E r \in Recalls : BeginRecall(r) \/ Recall(r)
  \/ \E p \in Places : Abort(p)

Spec == Init /\ [][Next]_vars

-----------------------------------------------------------------------------
TypeOK ==
  /\ rows \in [Images -> [status : {"absent", "active", "replaced", "deleted_by_user"}, slot : Slots]]
  /\ case \in [data : [Fields -> Values], overrides : [Fields -> Values]]
  /\ pc \in [Places -> {"idle", "working"}]
  /\ lock \in [Places -> Locks]
  /\ beside \in [Places -> SUBSET Locks]
  /\ excused \subseteq Images

\* Others committed meanwhile that share no lock with a request; having none is no lock.
Overtaken(p) == beside[p] \ ({lock[p]} \ {NoLock}) # {}

\* A step replaces an adjustment by a newer one, or its request was overtaken.
NoAdjustmentLost ==
  \A f \in Fields : case.overrides[f] # Nothing /\ case'.overrides[f] # case.overrides[f] =>
    \E p \in Places :
      pc[p] = "working" /\ pc'[p] = "idle" /\ (case'.overrides[f] = p \/ Overtaken(p))

(* An adjustment made by hand is replaced by a newer one of the same field, or lost to a *)
(* request that another one overlapped under another lock (a recall, or a message with   *)
(* the interrupt lock): never between messages that share a lock.                        *)
AdjustmentsKept == [][NoAdjustmentLost]_vars

\* What was derived from an image is taken back only when something else is read: the owner's
\* name, from an identity card, when a vehicle licence is; the sort of number plate, if that is
\* fuel, when something speaks for new energy, and otherwise never.
StillDerived(i, f) ==
  \/ /\ f = "owner_name" /\ rows[i].slot = "idcard_front"
     /\ f \notin Dropped(rows) \/ case.data.id_name = i
  \/ f = "license_type" /\ (i \in Electric \/ Says(case.data, rows) \cap Electric = {})

(* Nothing read from a recalled image stays in the quote's data, and of a replaced image  *)
(* only what its slot has no newer reading for, except what was derived from it, as long  *)
(* as no request overlapped another and the image was not moved between slots, through    *)
(* any sequence of uploads, typed values, adjustments and recalls.                        *)
RecallForgets ==
  \A i \in Images \ excused, f \in Fields :
    case.data[f] = i =>
      \/ rows[i].status = "active" \/ StillDerived(i, f)
      \/ f # "license_type" /\ rows[i].status = "replaced" /\ f \notin Dropped(rows)
===============================================================================
