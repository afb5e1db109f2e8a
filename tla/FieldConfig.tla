------------------------------ MODULE FieldConfig ------------------------------
(***************************************************************************)
(* The fields of the order form: what the start sows (seed_order_fields),  *)
(* what an administrator edits (services/field_config_service.py), and the *)
(* form each role is shown, which every worker keeps in a cache of its own *)
(* (api/v1/field_config.py).                                               *)
(*                                                                         *)
(* A request for a form reads one snapshot and puts the form later; an     *)
(* edit commits, reads its row again and only then clears the cache of its *)
(* own worker.  The ORM sends the columns that differ from what was read.  *)
(***************************************************************************)
EXTENDS Naturals, FiniteSets, Sequences

CONSTANTS
  Workers,
  Roles,
  Edits,      \* the fields and rows an administrator may send
  None,
  TTL,        \* of a cached form
  LastTime,   \* bound on the clock
  MaxCommits, \* bound on the commits
  MaxReads    \* bound on the requests for a form in flight in each worker

VARIABLES
  past,     \* the tables as committed, oldest first, and when
  cache,    \* worker -> role -> a form, of which commit, and when it was put
  reading,  \* worker -> the requests for a form that have read
  saving,   \* worker -> the edit in flight
  answered, \* history: worker -> the commit of the last edit it answered
  given,    \* history: field -> the roles it was last given
  mixed,    \* history: the fields last edited on a row whose roles had changed
  clock

configVars == <<past, cache, reading, saving, answered, given, mixed, clock>>

Now == past[Len(past)]
Larger(m, n) == IF m > n THEN m ELSE n

-----------------------------------------------------------------------------
\* build_seed_spec, with one field that two groups share and one that is in one of them:
\* what a list of orders shows by default ...
ListExtra(field) == IF field \in {"vin", "id_name"} THEN "in list" ELSE "none"

\* ... and the groups in the order they are sown.
OrderFields == {[field |-> "vin", label |-> "certificate", extra |-> ListExtra("vin")]}
IdFields == {[field |-> "id_name", label |-> "name", extra |-> ListExtra("id_name")]}
DrivingFields == {[field |-> "vin", label |-> "licence", extra |-> "none"]}

Sown == <<OrderFields, IdFields, DrivingFields>>
Fields == {"vin", "id_name"}

Blank == [label |-> "none", extra |-> "none", visible |-> TRUE, view |-> None, edit |-> None]

\* Mutant: an update sends every column.
Updated_Whole(row, loaded, new) == new

\* What an UPDATE leaves of a row: the columns that differ from what was loaded are sent.
Updated(row, loaded, new) == [c \in DOMAIN row |-> IF new[c] # loaded[c] THEN new[c] ELSE row[c]]

\* _get_or_create_field sets what the spec says and leaves the roles alone.
Wanted(row, seed) == [row EXCEPT !.label = seed.label, !.extra = seed.extra, !.visible = TRUE]

\* One group after the other: each is flushed before the next is looked for.
SowGroup(field, at, group) ==
  LET seeds == {s \in group : s.field = field} IN
  IF seeds = {} THEN at
  ELSE LET new == Wanted(at.read, CHOOSE s \in seeds : TRUE) IN
       [row |-> Updated(at.row, at.read, new), read |-> new]

\* The row that seed_order_fields leaves where it read one and finds another.
SownRow(field, row, read) ==
  LET order == SowGroup(field, [row |-> row, read |-> read], Sown[1])
      id == SowGroup(field, order, Sown[2])
  IN  SowGroup(field, id, Sown[3]).row

OrBlank(row) == IF row = None THEN Blank ELSE row

SownRows(now, read) == [f \in Fields |-> SownRow(f, OrBlank(now.rows[f]), OrBlank(read.rows[f]))]

\* The unique key of the fields: a row was inserted since the look for it.
Collides(now, read) == \E f \in Fields : read.rows[f] = None /\ now.rows[f] # None

Commit(rows, grouped) == past' = Append(past, [rows |-> rows, grouped |-> grouped, at |-> clock])

\* seed_order_fields, when it has read the tables `read`.
Sow(read) ==
  /\ (Now.grouped => read.grouped) /\ ~Collides(Now, read)
  /\ Commit(SownRows(Now, read), TRUE)
  /\ UNCHANGED <<cache, reading, saving, answered, given, mixed, clock>>

-----------------------------------------------------------------------------
\* _is_visible_for_role and _is_editable_for_role: a list of roles decides if there is one.
Allows(roles, default, role) == IF roles = None THEN default ELSE role \in roles

Item(field, row, role) ==
  [field |-> field, label |-> row.label, extra |-> row.extra, editable |-> Allows(row.edit, TRUE, role)]

\* The form of a role: nothing as long as there are no groups.
Form(tables, role) ==
  IF ~tables.grouped THEN <<>>
  ELSE [g \in DOMAIN Sown |->
          LET fields == {s.field : s \in Sown[g]}
              shown == {f \in fields : Allows(tables.rows[f].view, tables.rows[f].visible, role)} IN
          {Item(f, tables.rows[f], role) : f \in shown}]

\* Mutant: one entry for all roles.
CacheKey_NoRole(role) == CHOOSE r \in Roles : TRUE

\* _cache_key; the only module the frontend asks for is "order".
CacheKey(role) == role

Entry(w, role) == cache[w][CacheKey(role)]

\* _get_cached_form_config: a hit changes nothing.
Live(w, role) == Entry(w, role) # None /\ clock < Entry(w, role).at + TTL

\* get_form_config, no entry or one that has expired: the tables are read, in one snapshot ...
ReadForm(w, role) ==
  /\ ~Live(w, role) /\ Cardinality(reading[w]) < MaxReads[w]
  /\ cache' = [cache EXCEPT ![w][CacheKey(role)] = None]
  /\ reading' = [reading EXCEPT ![w] = @ \cup {[role |-> role, commit |-> Len(past)]}]
  /\ UNCHANGED <<past, saving, answered, given, mixed, clock>>

\* ... and the form is put, with no look at what was saved or cleared meanwhile.
PutForm(w) ==
  /\ \E r \in reading[w] :
       /\ reading' = [reading EXCEPT ![w] = @ \ {r}]
       /\ cache' = [cache EXCEPT ![w][CacheKey(r.role)] =
            [form |-> Form(past[r.commit], r.role), commit |-> r.commit, at |-> clock,
             late |-> r.commit < Len(past)]]
  /\ UNCHANGED <<past, saving, answered, given, mixed, clock>>

DropRead(w) ==
  /\ \E r \in reading[w] : reading' = [reading EXCEPT ![w] = @ \ {r}]
  /\ UNCHANGED <<past, cache, saving, answered, given, mixed, clock>>

-----------------------------------------------------------------------------
\* upsert, for a manager or super_admin: upsert_field_config looks for the row ...
BeginSave(w) ==
  /\ saving[w] = None /\ Len(past) < MaxCommits
  /\ \E e \in Edits :
       saving' = [saving EXCEPT ![w] = [field |-> e.field, new |-> e.row, read |-> Now.rows[e.field], commit |-> None]]
  /\ UNCHANGED <<past, cache, reading, answered, given, mixed, clock>>

RolesOf(row) == [view |-> row.view, edit |-> row.edit]

EndSave(w) == saving' = [saving EXCEPT ![w] = None]

\* ... and commits it; the unique key refuses a second insert.
Save(w) ==
  LET it == saving[w]
      row == Now.rows[it.field] IN
  /\ it # None /\ it.commit = None
  /\ it.read = None => row = None
  /\ Commit([Now.rows EXCEPT ![it.field] = IF row = None THEN it.new ELSE Updated(row, it.read, it.new)],
            Now.grouped)
  /\ saving' = [saving EXCEPT ![w].commit = Len(past) + 1]
  /\ given' = [given EXCEPT ![it.field] = RolesOf(it.new)]
  /\ mixed' = IF row = None \/ RolesOf(row) = RolesOf(it.read) THEN mixed \ {it.field}
              ELSE mixed \cup {it.field}
  /\ UNCHANGED <<cache, reading, answered, clock>>

SaveRefused(w) ==
  /\ saving[w] # None /\ saving[w].commit = None /\ EndSave(w)
  /\ UNCHANGED <<past, cache, reading, answered, given, mixed, clock>>

\* Mutant: the forms of other roles stay.
Cleared_One(entries) == [entries EXCEPT ![CHOOSE r \in Roles : TRUE] = None]

\* _invalidate_form_config_cache_for_module
Cleared(entries) == [role \in Roles |-> None]

\* The row is read again, then the cache of this worker is cleared.
Answer(w) ==
  /\ saving[w] # None /\ saving[w].commit # None
  /\ cache' = [cache EXCEPT ![w] = Cleared(@)]
  /\ answered' = [answered EXCEPT ![w] = Larger(@, saving[w].commit)]
  /\ EndSave(w)
  /\ UNCHANGED <<past, reading, given, mixed, clock>>

\* The second read fails: the edit is there, the cache is not cleared, the answer is an error.
RefreshFails(w) ==
  /\ saving[w] # None /\ saving[w].commit # None
  /\ EndSave(w)
  /\ UNCHANGED <<past, cache, reading, answered, given, mixed, clock>>

Tick ==
  /\ clock < LastTime /\ clock' = clock + 1
  /\ UNCHANGED <<past, cache, reading, saving, answered, given, mixed>>

ConfigInit ==
  /\ past = <<[rows |-> [f \in Fields |-> None], grouped |-> FALSE, at |-> 0]>>
  /\ cache = [w \in Workers |-> [role \in Roles |-> None]]
  /\ reading = [w \in Workers |-> {}] /\ saving = [w \in Workers |-> None]
  /\ answered = [w \in Workers |-> 1]
  /\ given = [f \in Fields |-> RolesOf(Blank)] /\ mixed = {}
  /\ clock = 0

\* What a worker does for its requests.
Request(w) ==
  \/ \E role \in Roles : ReadForm(w, role)
  \/ PutForm(w) \/ DropRead(w)
  \/ BeginSave(w) \/ Save(w) \/ SaveRefused(w) \/ Answer(w) \/ RefreshFails(w)

ConfigNext ==
  \/ \E w \in Workers : Request(w)
  \/ Len(past) < MaxCommits /\ \E i \in DOMAIN past : Sow(past[i])
  \/ Tick

ConfigSpec == ConfigInit /\ [][ConfigNext]_configVars

\* What a process leaves behind when it ends.
Forgotten(gone) ==
  /\ cache' = [w \in Workers |-> IF w \in gone THEN [role \in Roles |-> None] ELSE cache[w]]
  /\ reading' = [w \in Workers |-> IF w \in gone THEN {} ELSE reading[w]]
  /\ saving' = [w \in Workers |-> IF w \in gone THEN None ELSE saving[w]]

-----------------------------------------------------------------------------
RoleLists == (SUBSET Roles) \cup {None}
Row == [label : {"none", "certificate", "name", "licence", "own"}, extra : {"in list", "none"},
        visible : BOOLEAN, view : RoleLists, edit : RoleLists]

ConfigTypeOK ==
  /\ \A i \in DOMAIN past :
       /\ \A f \in Fields : past[i].rows[f] \in Row \cup {None}
       /\ past[i].grouped \in BOOLEAN /\ past[i].at \in 0 .. LastTime
       /\ past[i].grouped => \A f \in Fields : past[i].rows[f] # None
  /\ \A w \in Workers :
       /\ \A role \in Roles : cache[w][role] # None => cache[w][role].commit \in DOMAIN past
       /\ \A r \in reading[w] : r \in [role : Roles, commit : DOMAIN past]
       /\ saving[w] # None => [field |-> saving[w].field, row |-> saving[w].new] \in Edits
       /\ answered[w] \in DOMAIN past
  /\ given \in [Fields -> [view : RoleLists, edit : RoleLists]] /\ mixed \subseteq Fields
  /\ clock \in 0 .. LastTime

\* A form that is shown is the form of its reader's role at one commit.  If no commit fell
\* between its reading and its putting, it is no older than the last edit its worker
\* answered, and what replaced it did so less than the TTL ago.
FormsFollow ==
  \A w \in Workers, role \in Roles : Live(w, role) =>
    LET e == Entry(w, role) IN
    /\ e.form = Form(past[e.commit], role)
    /\ e.late \/
         /\ e.commit >= answered[w]
         /\ e.commit < Len(past) => clock < past[e.commit + 1].at + TTL

\* No start and no edit takes away the roles an administrator gave a field, unless the last edit
\* was made on a row whose roles had changed.
RolesKept ==
  \A f \in Fields \ mixed : Now.rows[f] # None => RolesOf(Now.rows[f]) = given[f]
===============================================================================
