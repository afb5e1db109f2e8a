---------------------------- MODULE StartupProofs ----------------------------
(***************************************************************************)
(* What the forms of the workers show and what their starts leave, for any *)
(* number of workers, roles, edits, commits, starts and failures.          *)
(***************************************************************************)
EXTENDS Startup, FiniteSetTheorems, TLAPS

\* What an administrator sends is a field and its row; the mark of an absent row is no row and
\* no number.
Setting ==
  /\ Edits \subseteq [field : Fields, row : Row]
  /\ None \notin Row /\ None \notin Nat
  /\ TTL \in Nat /\ LastTime \in Nat /\ MaxChanges \in Nat

\* The limits are at least one (main.py); there are as many orders as there are.
Deployed ==
  /\ Setting /\ Setups \subseteq Setup
  /\ IsFiniteSet(Orders) /\ Orders \subseteq Nat
  /\ BatchSize \in Nat \ {0} /\ MaxBatches \in Nat \ {0}

Tables == [rows : [Fields -> Row \cup {None}], grouped : BOOLEAN, at : 0 .. LastTime]
Entries ==
  [form : {Form(t, role) : t \in Tables, role \in Roles}, commit : Nat, at : 0 .. LastTime, late : BOOLEAN]
Saves == [field : Fields, new : Row, read : Row \cup {None}, commit : Nat \cup {None}]
Given == [view : RoleLists, edit : RoleLists]

\* Groups come with all their fields.
HistoryOK ==
  /\ past \in Seq(Tables) /\ past # <<>> /\ clock \in 0 .. LastTime
  /\ \A i \in DOMAIN past : past[i].grouped => \A f \in Fields : past[i].rows[f] # None

\* What a request has in hand names commits there are.
HandsOK ==
  /\ reading \in [Workers -> SUBSET [role : Roles, commit : DOMAIN past]]
  /\ saving \in [Workers -> Saves \cup {None}]
  /\ \A w \in Workers : saving[w] # None =>
       /\ saving[w].commit \in DOMAIN past \cup {None}
       /\ [field |-> saving[w].field, row |-> saving[w].new] \in Edits
  /\ answered \in [Workers -> DOMAIN past]

\* A form is that of one commit.  Unless it was late when it was put, nothing had replaced
\* it then, nor has its worker answered a newer edit since without clearing it.
EntryOK(w, role) ==
  LET e == cache[w][role] IN
  /\ e.commit \in DOMAIN past /\ e.at <= clock
  /\ e.form = Form(past[e.commit], role)
  /\ e.late \/ /\ e.commit >= answered[w]
               /\ e.commit < Len(past) => past[e.commit + 1].at >= e.at

CacheOK ==
  /\ cache \in [Workers -> [Roles -> Entries \cup {None}]]
  /\ \A w \in Workers, role \in Roles : cache[w][role] # None => EntryOK(w, role)

\* Nobody has given roles to a field that has no row.
RolesOK ==
  /\ given \in [Fields -> Given] /\ mixed \subseteq Fields
  /\ \A f \in Fields :
       IF Now.rows[f] = None THEN given[f] = RolesOf(Blank)
       ELSE f \notin mixed => RolesOf(Now.rows[f]) = given[f]

ConfigInv == HistoryOK /\ HandsOK /\ CacheOK /\ RolesOK

-----------------------------------------------------------------------------
LEMMA BlankIsRow == Blank \in Row /\ RolesOf(Blank) \in Given
  BY DEF Blank, Row, RoleLists, RolesOf, Given

LEMMA RolesTyped == ASSUME NEW row \in Row PROVE RolesOf(row) \in Given
  BY DEF Row, RolesOf, Given

\* What an UPDATE leaves of a row is a row, and its roles are the new ones if those read were
\* those it finds, or stay if they are not changed.
LEMMA UpdatedRow ==
  ASSUME NEW row \in Row, NEW loaded \in Row, NEW new \in Row
  PROVE  /\ Updated(row, loaded, new) \in Row
         /\ RolesOf(row) = RolesOf(loaded) => RolesOf(Updated(row, loaded, new)) = RolesOf(new)
         /\ RolesOf(new) = RolesOf(loaded) => RolesOf(Updated(row, loaded, new)) = RolesOf(row)
<1> DEFINE Columns == {"label", "extra", "visible", "view", "edit"}
           out == Updated(row, loaded, new)
<1>1. DOMAIN row = Columns
  BY DEF Row
<1>2. out = [c \in Columns |-> IF new[c] # loaded[c] THEN new[c] ELSE row[c]]
  BY <1>1 DEF Updated
<1>3. out = [label |-> out["label"], extra |-> out["extra"], visible |-> out["visible"],
             view |-> out["view"], edit |-> out["edit"]]
  BY <1>2
<1>4. out \in Row
  BY <1>2, <1>3 DEF Row
<1>5. /\ out.view = IF new.view # loaded.view THEN new.view ELSE row.view
      /\ out.edit = IF new.edit # loaded.edit THEN new.edit ELSE row.edit
  BY <1>2
<1> QED  BY <1>4, <1>5 DEF RolesOf, Row

\* A group of the seed leaves rows, with their roles.
LEMMA GroupKeepsRoles ==
  ASSUME NEW f, NEW at \in [row : Row, read : Row],
         NEW group \in {OrderFields, IdFields, DrivingFields}
  PROVE  /\ SowGroup(f, at, group) \in [row : Row, read : Row]
         /\ RolesOf(SowGroup(f, at, group).row) = RolesOf(at.row)
<1> DEFINE seeds == {s \in group : s.field = f}
           seed == CHOOSE s \in seeds : TRUE
           new == Wanted(at.read, seed)
<1>1. CASE seeds = {}
  BY <1>1 DEF SowGroup
<1>2. CASE seeds # {}
  <2>1. seed \in group
    BY <1>2
  <2>2. seed.label \in {"certificate", "name", "licence"} /\ seed.extra \in {"in list", "none"}
    <3>1. \A s \in OrderFields \cup IdFields \cup DrivingFields :
            s.label \in {"certificate", "name", "licence"} /\ s.extra \in {"in list", "none"}
      <4>1. \A field : ListExtra(field) \in {"in list", "none"}
        BY DEF ListExtra
      <4>2. \A s \in OrderFields : s.label = "certificate" /\ s.extra = ListExtra("vin")
        BY DEF OrderFields
      <4>3. \A s \in IdFields : s.label = "name" /\ s.extra = ListExtra("id_name")
        BY DEF IdFields
      <4>4. \A s \in DrivingFields : s.label = "licence" /\ s.extra = "none"
        BY DEF DrivingFields
      <4> QED  BY <4>1, <4>2, <4>3, <4>4
    <3> HIDE DEF seed
    <3> QED  BY <2>1, <3>1
  <2> HIDE DEF seed
  <2>3. new \in Row /\ RolesOf(new) = RolesOf(at.read)
    BY <2>2 DEF Wanted, Row, RolesOf
  <2>4. SowGroup(f, at, group) = [row |-> Updated(at.row, at.read, new), read |-> new]
    BY <1>2 DEF SowGroup, seed
  <2> QED  BY <2>3, <2>4, UpdatedRow
<1> QED  BY <1>1, <1>2

\* So does the whole seed.
LEMMA SeedKeepsRoles ==
  ASSUME NEW f, NEW row \in Row, NEW read \in Row
  PROVE  SownRow(f, row, read) \in Row /\ RolesOf(SownRow(f, row, read)) = RolesOf(row)
<1> DEFINE a == SowGroup(f, [row |-> row, read |-> read], Sown[1])
           b == SowGroup(f, a, Sown[2])
           c == SowGroup(f, b, Sown[3])
<1>1. Sown[1] = OrderFields /\ Sown[2] = IdFields /\ Sown[3] = DrivingFields
  BY DEF Sown
<1>2. a \in [row : Row, read : Row] /\ RolesOf(a.row) = RolesOf(row)
  BY <1>1, GroupKeepsRoles
<1> HIDE DEF a
<1>3. b \in [row : Row, read : Row] /\ RolesOf(b.row) = RolesOf(row)
  BY <1>1, <1>2, GroupKeepsRoles
<1> HIDE DEF b
<1>4. c \in [row : Row, read : Row] /\ RolesOf(c.row) = RolesOf(row)
  BY <1>1, <1>3, GroupKeepsRoles
<1> HIDE DEF c
<1>5. SownRow(f, row, read) = c.row
  BY DEF SownRow, a, b, c
<1> QED  BY <1>4, <1>5

\* A commit adds to the history.
LEMMA Appended ==
  ASSUME HistoryOK, NEW t \in Tables, past' = Append(past, t)
  PROVE  /\ past' \in Seq(Tables) /\ past' # <<>>
         /\ Len(past) \in Nat \ {0} /\ Len(past') = Len(past) + 1
         /\ DOMAIN past = 1 .. Len(past) /\ DOMAIN past' = 1 .. Len(past) + 1
         /\ \A i \in DOMAIN past : past'[i] = past[i]
         /\ past'[Len(past) + 1] = t /\ Now' = t
<1>1. past \in Seq(Tables) /\ past # <<>>
  BY DEF HistoryOK
<1> QED  BY <1>1 DEF Now

LEMMA NowIsATable ==
  ASSUME HistoryOK
  PROVE  Now \in Tables /\ Len(past) \in DOMAIN past /\ Len(past) \in Nat \ {0} /\ DOMAIN past = 1 .. Len(past)
<1>1. past \in Seq(Tables) /\ past # <<>>
  BY DEF HistoryOK
<1>2. Len(past) \in Nat \ {0} /\ DOMAIN past = 1 .. Len(past)
  BY <1>1
<1>3. past[Len(past)] \in Tables
  BY <1>1, <1>2
<1> QED  BY <1>2, <1>3 DEF Now

-----------------------------------------------------------------------------
\* Time passes or a commit is added.
Grown ==
  \/ past' = past /\ clock' \in clock .. LastTime
  \/ clock' = clock /\ \E t \in Tables : t.at = clock /\ past' = Append(past, t)

\* A form that stays in the cache of a worker that answers nothing stays good.
LEMMA EntryStays ==
  ASSUME HistoryOK, Grown, LastTime \in Nat,
         NEW w \in Workers, NEW role \in Roles, cache[w][role] \in Entries, EntryOK(w, role),
         cache'[w][role] = cache[w][role], answered'[w] = answered[w]
  PROVE  EntryOK(w, role)'
<1> DEFINE e == cache[w][role]
<1>1. e.commit \in DOMAIN past /\ e.commit \in Nat /\ e.at \in Nat /\ e.at <= clock /\ clock \in Nat
  BY DEF EntryOK, Entries, HistoryOK
<1>2. CASE past' = past /\ clock' \in clock .. LastTime
  BY <1>1, <1>2 DEF EntryOK
<1>3. CASE clock' = clock /\ \E t \in Tables : t.at = clock /\ past' = Append(past, t)
  <2>1. PICK t \in Tables : t.at = clock /\ past' = Append(past, t)
    BY <1>3
  <2>2. /\ Len(past) \in Nat /\ Len(past') = Len(past) + 1
        /\ DOMAIN past = 1 .. Len(past) /\ DOMAIN past' = 1 .. Len(past) + 1
        /\ \A i \in DOMAIN past : past'[i] = past[i]
        /\ past'[Len(past) + 1] = t
    BY <2>1, Appended
  <2>3. e.commit \in DOMAIN past' /\ past'[e.commit] = past[e.commit]
    BY <1>1, <2>2
  <2>4. e.commit < Len(past') => past'[e.commit + 1].at >= e.at \/ e.commit < Len(past)
    <3>1. CASE e.commit = Len(past)
      BY <3>1, <2>1, <2>2, <1>1
    <3> QED  BY <3>1, <1>1, <2>2
  <2>5. e.commit < Len(past) => past'[e.commit + 1] = past[e.commit + 1]
    BY <1>1, <2>2
  <2>6. e.form = Form(past'[e.commit], role)
    BY <2>3 DEF EntryOK
  <2> QED  BY <1>1, <1>3, <2>3, <2>4, <2>5, <2>6 DEF EntryOK
<1> QED  BY <1>2, <1>3 DEF Grown

\* What is in hand stays good while the history grows.
LEMMA HandsStay ==
  ASSUME HistoryOK, Grown, HandsOK, UNCHANGED <<reading, saving, answered>>
  PROVE  HandsOK'
<1>1. DOMAIN past \subseteq DOMAIN past'
  <2>1. CASE past' = past
    BY <2>1
  <2>2. ASSUME NEW t \in Tables, past' = Append(past, t)  PROVE DOMAIN past \subseteq DOMAIN past'
    <3>1. DOMAIN past = 1 .. Len(past) /\ DOMAIN past' = 1 .. Len(past) + 1 /\ Len(past) \in Nat
      BY <2>2, Appended
    <3> QED  BY <3>1
  <2> QED  BY <2>1, <2>2 DEF Grown
<1> QED  BY <1>1 DEF HandsOK

\* Edits of a worker touch no form as long as they answer nothing.
LEMMA CacheStays ==
  ASSUME HistoryOK, Grown, LastTime \in Nat, CacheOK, UNCHANGED <<cache, answered>>
  PROVE  CacheOK'
<1>1. ASSUME NEW w \in Workers, NEW role \in Roles, cache'[w][role] # None  PROVE EntryOK(w, role)'
  <2>1. cache[w][role] \in Entries /\ EntryOK(w, role)
    BY <1>1 DEF CacheOK
  <2> QED  BY <2>1, EntryStays
<1> QED  BY <1>1 DEF CacheOK

LEMMA SowStep ==
  ASSUME Setting, ConfigInv, NEW i \in DOMAIN past, Sow(past[i])
  PROVE  ConfigInv'
<1> DEFINE read == past[i]
           rows == SownRows(Now, read)
           t == [rows |-> rows, grouped |-> TRUE, at |-> clock]
<1>1. Now \in Tables /\ read \in Tables /\ clock \in 0 .. LastTime
  BY NowIsATable DEF ConfigInv, HistoryOK
<1>2. ASSUME NEW f \in Fields
      PROVE  rows[f] \in Row /\ RolesOf(rows[f]) = RolesOf(OrBlank(Now.rows[f]))
  <2>1. OrBlank(Now.rows[f]) \in Row /\ OrBlank(read.rows[f]) \in Row
    BY <1>1, BlankIsRow DEF OrBlank, Tables
  <2>2. rows[f] = SownRow(f, OrBlank(Now.rows[f]), OrBlank(read.rows[f]))
    BY DEF SownRows
  <2> QED  BY <2>1, <2>2, SeedKeepsRoles
<1>3. rows \in [Fields -> Row]
  BY <1>2 DEF SownRows
<1> HIDE DEF rows
<1>4. t \in Tables
  BY <1>1, <1>3 DEF Tables
<1>5. past' = Append(past, t) /\ UNCHANGED <<cache, reading, saving, answered, given, mixed, clock>>
  BY DEF Sow, Commit, rows
<1>6. Grown
  BY <1>4, <1>5 DEF Grown
<1>7. HistoryOK'
  <2>1. /\ past' \in Seq(Tables) /\ past' # <<>>
        /\ Len(past) \in Nat /\ DOMAIN past = 1 .. Len(past) /\ DOMAIN past' = 1 .. Len(past) + 1
        /\ \A j \in DOMAIN past : past'[j] = past[j]
        /\ past'[Len(past) + 1] = t
    BY <1>4, <1>5, Appended DEF ConfigInv
  <2>2. ASSUME NEW j \in DOMAIN past', past'[j].grouped, NEW f \in Fields  PROVE past'[j].rows[f] # None
    <3>1. CASE j \in DOMAIN past
      BY <2>1, <2>2, <3>1 DEF ConfigInv, HistoryOK
    <3>2. CASE j = Len(past) + 1
      BY <2>1, <3>2, <1>3 DEF Setting
    <3> QED  BY <2>1, <3>1, <3>2
  <2> QED  BY <2>1, <2>2, <1>1, <1>5 DEF HistoryOK
<1>8. RolesOK'
  <2>1. Now' = t
    BY <1>4, <1>5, Appended DEF ConfigInv
  <2>2. ASSUME NEW f \in Fields
        PROVE  Now'.rows[f] # None /\ (f \notin mixed => RolesOf(Now'.rows[f]) = given[f])
    <3>1. Now'.rows[f] = rows[f] /\ rows[f] \in Row
      BY <2>1, <1>3
    <3>2. f \notin mixed => RolesOf(OrBlank(Now.rows[f])) = given[f]
      BY DEF ConfigInv, RolesOK, OrBlank
    <3> QED  BY <3>1, <3>2, <1>2 DEF Setting
  <2> QED  BY <2>2, <1>5 DEF ConfigInv, RolesOK
<1> QED  BY <1>5, <1>6, <1>7, <1>8, HandsStay, CacheStays DEF ConfigInv, Setting

LEMMA SaveStep ==
  ASSUME Setting, ConfigInv, NEW w \in Workers, Save(w)
  PROVE  ConfigInv'
<1> DEFINE it == saving[w]
           row == Now.rows[it.field]
           left == IF row = None THEN it.new ELSE Updated(row, it.read, it.new)
           t == [rows |-> [Now.rows EXCEPT ![it.field] = left], grouped |-> Now.grouped, at |-> clock]
<1>1. it \in Saves /\ it.field \in Fields /\ it.new \in Row /\ it.read \in Row \cup {None}
  BY DEF Save, ConfigInv, HandsOK, Saves
<1>2. Now \in Tables /\ clock \in 0 .. LastTime /\ row \in Row \cup {None}
  BY <1>1, NowIsATable DEF ConfigInv, HistoryOK, Tables
<1>3. row # None => row \in Row /\ it.read \in Row
  BY <1>1, <1>2 DEF Save
<1>4. left \in Row
  BY <1>1, <1>3, UpdatedRow
<1>5. row = None \/ RolesOf(row) = RolesOf(it.read) => RolesOf(left) = RolesOf(it.new)
  BY <1>1, <1>3, UpdatedRow
<1>6. /\ past' = Append(past, t)
      /\ saving' = [saving EXCEPT ![w].commit = Len(past) + 1]
      /\ given' = [given EXCEPT ![it.field] = RolesOf(it.new)]
      /\ mixed' = IF row = None \/ RolesOf(row) = RolesOf(it.read) THEN mixed \ {it.field}
                  ELSE mixed \cup {it.field}
      /\ UNCHANGED <<cache, reading, answered, clock>>
  BY DEF Save, Commit
<1> HIDE DEF left
<1>7. t.rows \in [Fields -> Row \cup {None}] /\ t \in Tables
  BY <1>1, <1>2, <1>4 DEF Tables
<1>8. Grown
  BY <1>6, <1>7 DEF Grown
<1>9. /\ past' \in Seq(Tables) /\ past' # <<>>
      /\ Len(past) \in Nat /\ DOMAIN past = 1 .. Len(past) /\ DOMAIN past' = 1 .. Len(past) + 1
      /\ \A j \in DOMAIN past : past'[j] = past[j]
      /\ past'[Len(past) + 1] = t /\ Now' = t
  BY <1>6, <1>7, Appended DEF ConfigInv
<1>10. t.rows[it.field] = left /\ \A f \in Fields \ {it.field} : t.rows[f] = Now.rows[f]
  BY <1>1, <1>2 DEF Tables
<1>11. HistoryOK'
  <2>1. Now.grouped => \A f \in Fields : Now.rows[f] # None
    BY NowIsATable DEF ConfigInv, HistoryOK, Now
  <2>2. ASSUME NEW j \in DOMAIN past', past'[j].grouped, NEW f \in Fields  PROVE past'[j].rows[f] # None
    <3>1. CASE j \in DOMAIN past
      BY <1>9, <2>2, <3>1 DEF ConfigInv, HistoryOK
    <3>2. CASE j = Len(past) + 1
      <4>1. past'[j] = t /\ t.grouped = Now.grouped /\ left # None
        BY <1>4, <1>9, <3>2 DEF Setting
      <4>2. Now.rows[f] # None
        BY <2>1, <2>2, <4>1
      <4> QED  BY <1>10, <4>1, <4>2
    <3> QED  BY <1>9, <3>1, <3>2
  <2> QED  BY <1>2, <1>6, <1>9, <2>2 DEF HistoryOK
<1>12. HandsOK'
  <2>1. DOMAIN past \subseteq DOMAIN past' /\ Len(past) + 1 \in DOMAIN past' /\ Len(past) + 1 \in Nat
    BY <1>9
  <2>2. saving'[w] = [it EXCEPT !.commit = Len(past) + 1] /\ \A v \in Workers \ {w} : saving'[v] = saving[v]
    BY <1>6 DEF ConfigInv, HandsOK
  <2>3. saving'[w] \in Saves /\ saving'[w].commit = Len(past) + 1
    BY <1>1, <2>1, <2>2 DEF Saves
  <2>4. saving' \in [Workers -> Saves \cup {None}]
    BY <1>6, <2>2, <2>3 DEF ConfigInv, HandsOK
  <2>5. ASSUME NEW v \in Workers, saving'[v] # None
        PROVE  /\ saving'[v].commit \in DOMAIN past' \cup {None}
               /\ [field |-> saving'[v].field, row |-> saving'[v].new] \in Edits
    <3>1. CASE v = w
      <4>1. it # None /\ [field |-> it.field, row |-> it.new] \in Edits
        BY DEF Save, ConfigInv, HandsOK
      <4>2. saving'[w].field = it.field /\ saving'[w].new = it.new
        BY <1>1, <2>2 DEF Saves
      <4> QED  BY <2>1, <2>3, <3>1, <4>1, <4>2
    <3>2. CASE v # w
      BY <2>1, <2>2, <2>5, <3>2 DEF ConfigInv, HandsOK
    <3> QED  BY <3>1, <3>2
  <2> QED  BY <1>6, <2>1, <2>4, <2>5 DEF ConfigInv, HandsOK
<1>13. RolesOK'
  <2>1. given' \in [Fields -> Given] /\ mixed' \subseteq Fields
    BY <1>1, <1>6, RolesTyped DEF ConfigInv, RolesOK
  <2>2. given'[it.field] = RolesOf(it.new) /\ \A f \in Fields \ {it.field} : given'[f] = given[f]
    BY <1>1, <1>6 DEF ConfigInv, RolesOK
  <2>3. ASSUME NEW f \in Fields
        PROVE  IF Now'.rows[f] = None THEN given'[f] = RolesOf(Blank)
               ELSE f \notin mixed' => RolesOf(Now'.rows[f]) = given'[f]
    <3>1. CASE f = it.field
      <4>1. Now'.rows[f] = left /\ left # None
        BY <1>4, <1>9, <1>10, <3>1 DEF Setting
      <4>2. f \notin mixed' => row = None \/ RolesOf(row) = RolesOf(it.read)
        BY <1>6, <3>1
      <4> QED  BY <1>5, <2>2, <3>1, <4>1, <4>2
    <3>2. CASE f # it.field
      <4>1. Now'.rows[f] = Now.rows[f] /\ given'[f] = given[f] /\ (f \in mixed' <=> f \in mixed)
        BY <1>6, <1>9, <1>10, <2>2, <3>2
      <4> QED  BY <4>1 DEF ConfigInv, RolesOK
    <3> QED  BY <3>1, <3>2
  <2> QED  BY <2>1, <2>3 DEF RolesOK
<1> QED  BY <1>6, <1>8, <1>11, <1>12, <1>13, CacheStays DEF ConfigInv, Setting

\* Who reads, puts a form, looks at a row or clears a cache commits nothing.
LEMMA NothingCommitted ==
  ASSUME ConfigInv, UNCHANGED <<past, given, mixed, clock>>
  PROVE  HistoryOK' /\ RolesOK' /\ Now' = Now
  BY DEF ConfigInv, HistoryOK, RolesOK, Now

LEMMA ReadFormStep ==
  ASSUME Setting, ConfigInv, NEW w \in Workers, NEW role \in Roles, ReadForm(w, role)
  PROVE  ConfigInv'
<1>1. /\ cache' = [cache EXCEPT ![w][role] = None]
      /\ reading' = [reading EXCEPT ![w] = @ \cup {[role |-> role, commit |-> Len(past)]}]
      /\ UNCHANGED <<past, saving, answered, given, mixed, clock>>
  BY DEF ReadForm, CacheKey
<1>2. Len(past) \in DOMAIN past
  BY NowIsATable DEF ConfigInv
<1>3. HandsOK'
  BY <1>1, <1>2 DEF ConfigInv, HandsOK
<1>4. CacheOK'
  <2>1. cache' \in [Workers -> [Roles -> Entries \cup {None}]]
    BY <1>1 DEF ConfigInv, CacheOK
  <2>2. ASSUME NEW v \in Workers, NEW r \in Roles, cache'[v][r] # None  PROVE EntryOK(v, r)'
    <3>1. cache'[v][r] = cache[v][r]
      BY <1>1, <2>2 DEF ConfigInv, CacheOK
    <3> QED  BY <1>1, <2>2, <3>1 DEF ConfigInv, CacheOK, EntryOK
  <2> QED  BY <2>1, <2>2 DEF CacheOK
<1> QED  BY <1>1, <1>3, <1>4, NothingCommitted DEF ConfigInv

LEMMA PutFormStep ==
  ASSUME Setting, ConfigInv, NEW w \in Workers, PutForm(w)
  PROVE  ConfigInv'
<1>0. UNCHANGED <<past, saving, answered, given, mixed, clock>>
  BY DEF PutForm
<1>1. PICK r \in reading[w] :
        /\ reading' = [reading EXCEPT ![w] = @ \ {r}]
        /\ cache' = [cache EXCEPT ![w][r.role] =
             [form |-> Form(past[r.commit], r.role), commit |-> r.commit, at |-> clock,
              late |-> r.commit < Len(past)]]
  BY DEF PutForm, CacheKey
<1> DEFINE e == [form |-> Form(past[r.commit], r.role), commit |-> r.commit, at |-> clock,
                 late |-> r.commit < Len(past)]
<1>2. r.role \in Roles /\ r.commit \in DOMAIN past
  BY DEF ConfigInv, HandsOK
<1>3. /\ Len(past) \in Nat /\ DOMAIN past = 1 .. Len(past) /\ past[r.commit] \in Tables
      /\ clock \in 0 .. LastTime
  BY <1>2, NowIsATable DEF ConfigInv, HistoryOK
<1>4. e \in Entries
  <2>1. e.form \in {Form(t, role) : t \in Tables, role \in Roles}
    BY <1>2, <1>3
  <2> HIDE DEF Form
  <2> QED  BY <1>2, <1>3, <2>1 DEF Entries
<1>5. cache' \in [Workers -> [Roles -> Entries \cup {None}]]
  <2> HIDE DEF e
  <2>1. cache' = [cache EXCEPT ![w][r.role] = e]
    BY <1>1 DEF e
  <2> QED  BY <1>2, <1>4, <2>1 DEF ConfigInv, CacheOK
<1>6. ASSUME NEW v \in Workers, NEW role \in Roles, cache'[v][role] # None  PROVE EntryOK(v, role)'
  <2>1. CASE v = w /\ role = r.role
    <3>1. cache'[v][role] = e
      BY <1>1, <1>2, <2>1 DEF ConfigInv, CacheOK
    <3>2. e.commit = r.commit /\ e.at = clock /\ e.form = Form(past[r.commit], role)
          /\ (r.commit < Len(past) => e.late)
      BY <2>1
    <3> HIDE DEF e
    <3>3. e.late \/ e.commit = Len(past)
      BY <1>2, <1>3, <3>2
    <3>4. answered[w] \in 1 .. Len(past)
      BY <1>3 DEF ConfigInv, HandsOK
    <3>5. e.late \/ (e.commit >= answered[w] /\ ~(e.commit < Len(past)))
      BY <1>3, <3>3, <3>4
    <3> QED  BY <1>0, <1>2, <1>3, <2>1, <3>1, <3>2, <3>5 DEF EntryOK
  <2>2. CASE v # w \/ role # r.role
    <3>1. cache'[v][role] = cache[v][role]
      BY <1>1, <1>2, <2>2 DEF ConfigInv, CacheOK
    <3> QED  BY <1>0, <1>6, <3>1 DEF ConfigInv, CacheOK, EntryOK
  <2> QED  BY <2>1, <2>2
<1>7. HandsOK'
  BY <1>0, <1>1 DEF ConfigInv, HandsOK
<1> QED  BY <1>0, <1>5, <1>6, <1>7, NothingCommitted DEF ConfigInv, CacheOK

\* An edit that is looked for, refused or not answered.
LEMMA NoAnswerStep ==
  ASSUME Setting, ConfigInv, NEW w \in Workers, BeginSave(w) \/ SaveRefused(w) \/ RefreshFails(w) \/ DropRead(w)
  PROVE  ConfigInv'
<1>1. UNCHANGED <<past, cache, answered, given, mixed, clock>>
  BY DEF BeginSave, SaveRefused, RefreshFails, DropRead
<1>2. HandsOK'
  <2>1. CASE BeginSave(w)
    <3>1. PICK edit \in Edits :
            saving' = [saving EXCEPT ![w] = [field |-> edit.field, new |-> edit.row,
                                             read |-> Now.rows[edit.field], commit |-> None]]
      BY <2>1 DEF BeginSave
    <3>2. edit.field \in Fields /\ edit.row \in Row
      BY DEF Setting
    <3>3. Now.rows[edit.field] \in Row \cup {None}
      BY <3>2, NowIsATable DEF ConfigInv, Tables
    <3>4. saving'[w] \in Saves /\ saving'[w].commit = None
          /\ saving'[w].field = edit.field /\ saving'[w].new = edit.row
      BY <3>1, <3>2, <3>3 DEF ConfigInv, HandsOK, Saves
    <3>5. saving' \in [Workers -> Saves \cup {None}] /\ \A v \in Workers \ {w} : saving'[v] = saving[v]
      BY <3>1, <3>2, <3>3 DEF ConfigInv, HandsOK, Saves
    <3>6. [field |-> saving'[w].field, row |-> saving'[w].new] \in Edits
      <4>1. edit \in [field : Fields, row : Row]
        BY DEF Setting
      <4>2. edit = [field |-> edit.field, row |-> edit.row]
        BY <4>1
      <4> QED  BY <3>4, <4>2
    <3> QED  BY <1>1, <2>1, <3>4, <3>5, <3>6 DEF ConfigInv, HandsOK, BeginSave
  <2>2. CASE SaveRefused(w) \/ RefreshFails(w)
    BY <1>1, <2>2 DEF ConfigInv, HandsOK, SaveRefused, RefreshFails, EndSave
  <2>3. CASE DropRead(w)
    BY <1>1, <2>3 DEF ConfigInv, HandsOK, DropRead
  <2> QED  BY <2>1, <2>2, <2>3
<1>3. CacheOK'
  BY <1>1 DEF ConfigInv, CacheOK, EntryOK
<1> QED  BY <1>1, <1>2, <1>3, NothingCommitted DEF ConfigInv

LEMMA AnswerStep ==
  ASSUME Setting, ConfigInv, NEW w \in Workers, Answer(w)
  PROVE  ConfigInv'
<1>1. /\ cache' = [cache EXCEPT ![w] = Cleared(@)]
      /\ answered' = [answered EXCEPT ![w] = Larger(@, saving[w].commit)]
      /\ saving' = [saving EXCEPT ![w] = None]
      /\ UNCHANGED <<past, reading, given, mixed, clock>>
  BY DEF Answer, EndSave
<1>2. saving[w].commit \in DOMAIN past
  BY DEF Answer, ConfigInv, HandsOK
<1>3. HandsOK'
  BY <1>1, <1>2 DEF ConfigInv, HandsOK, Larger
<1>4. CacheOK'
  <2>1. \A role \in Roles : cache'[w][role] = None
    BY <1>1 DEF ConfigInv, CacheOK, Cleared
  <2>2. ASSUME NEW v \in Workers, NEW role \in Roles, cache'[v][role] # None  PROVE EntryOK(v, role)'
    <3>1. v # w /\ cache'[v] = cache[v] /\ answered'[v] = answered[v]
      BY <1>1, <2>1, <2>2 DEF ConfigInv, CacheOK, HandsOK
    <3> QED  BY <1>1, <2>2, <3>1 DEF ConfigInv, CacheOK, EntryOK
  <2>3. cache' \in [Workers -> [Roles -> Entries \cup {None}]]
    BY <1>1 DEF ConfigInv, CacheOK, Cleared
  <2> QED  BY <2>2, <2>3 DEF CacheOK
<1> QED  BY <1>1, <1>3, <1>4, NothingCommitted DEF ConfigInv

\* Whatever a worker does for its requests.
LEMMA RequestStep ==
  ASSUME Setting, ConfigInv, NEW w \in Workers, Request(w)
  PROVE  ConfigInv'
  BY ReadFormStep, PutFormStep, NoAnswerStep, SaveStep, AnswerStep DEF Request

LEMMA TickStep == ASSUME Setting, ConfigInv, Tick PROVE ConfigInv'
<1>1. clock' \in clock .. LastTime /\ clock' \in 0 .. LastTime
  BY DEF Tick, Setting, ConfigInv, HistoryOK
<1>2. Grown
  BY <1>1 DEF Tick, Grown
<1>3. HistoryOK' /\ RolesOK'
  BY <1>1 DEF Tick, ConfigInv, HistoryOK, RolesOK, Now
<1> QED  BY <1>2, <1>3, HandsStay, CacheStays DEF Tick, ConfigInv, Setting

LEMMA ConfigStutters == ASSUME ConfigInv, UNCHANGED configVars PROVE ConfigInv'
  BY DEF configVars, ConfigInv, HistoryOK, HandsOK, CacheOK, EntryOK, RolesOK, Now

\* Before the first start there is nothing.
LEMMA ConfigStart == ASSUME Setting, ConfigInit PROVE ConfigInv
<1> DEFINE t == [rows |-> [f \in Fields |-> None], grouped |-> FALSE, at |-> 0]
<1>1. t \in Tables
  BY DEF Tables, Setting
<1>2. past = <<t>>
  BY DEF ConfigInit
<1>3. past \in Seq(Tables) /\ past # <<>> /\ DOMAIN past = {1} /\ past[1] = t /\ Now = t
  BY <1>1, <1>2 DEF Now
<1>4. HistoryOK
  BY <1>3 DEF ConfigInit, HistoryOK, Setting
<1>5. HandsOK
  BY <1>3 DEF ConfigInit, HandsOK
<1>6. CacheOK
  BY DEF ConfigInit, CacheOK
<1>7. RolesOK
  BY <1>3, BlankIsRow DEF ConfigInit, RolesOK
<1> QED  BY <1>4, <1>5, <1>6, <1>7 DEF ConfigInv

\* What is shown was put less than the TTL ago.
LEMMA FormsAreGood == ASSUME Setting, ConfigInv PROVE FormsFollow /\ RolesKept
<1>1. ASSUME NEW w \in Workers, NEW role \in Roles, Live(w, role)
      PROVE  LET e == Entry(w, role) IN
             /\ e.form = Form(past[e.commit], role)
             /\ e.late \/
                  /\ e.commit >= answered[w]
                  /\ e.commit < Len(past) => clock < past[e.commit + 1].at + TTL
  <2> DEFINE e == cache[w][role]
  <2>1. Entry(w, role) = e /\ e # None /\ clock < e.at + TTL
    BY <1>1 DEF Live, Entry, CacheKey
  <2>2. EntryOK(w, role) /\ e \in Entries
    BY <2>1 DEF ConfigInv, CacheOK
  <2>3. e.at \in Nat /\ clock \in Nat /\ TTL \in Nat /\ e.commit \in DOMAIN past
    BY <2>2 DEF Entries, EntryOK, ConfigInv, HistoryOK, Setting
  <2>4. e.commit < Len(past) => past[e.commit + 1].at \in Nat
    <3>1. past \in Seq(Tables)
      BY DEF ConfigInv, HistoryOK
    <3>2. e.commit < Len(past) => past[e.commit + 1] \in Tables
      BY <2>3, <3>1
    <3> QED  BY <3>2 DEF Tables
  <2>5. ~e.late /\ e.commit < Len(past) => clock < past[e.commit + 1].at + TTL
    BY <2>1, <2>2, <2>3, <2>4 DEF EntryOK
  <2> QED  BY <2>1, <2>2, <2>5 DEF EntryOK
<1>2. RolesKept
  BY DEF ConfigInv, RolesOK, RolesKept
<1> QED  BY <1>1, <1>2 DEF FormsFollow

LEMMA ConfigTyped == ASSUME ConfigInv PROVE ConfigTypeOK
<1>1. \A i \in DOMAIN past : past[i] \in Tables
  BY DEF ConfigInv, HistoryOK
<1>2. ASSUME NEW w \in Workers
      PROVE  /\ \A role \in Roles : cache[w][role] # None => cache[w][role].commit \in DOMAIN past
             /\ \A r \in reading[w] : r \in [role : Roles, commit : DOMAIN past]
             /\ saving[w] # None => [field |-> saving[w].field, row |-> saving[w].new] \in Edits
             /\ answered[w] \in DOMAIN past
  BY <1>1 DEF ConfigInv, HandsOK, CacheOK, EntryOK
<1> QED  BY <1>1, <1>2 DEF ConfigInv, HistoryOK, RolesOK, Given, Tables, ConfigTypeOK

(* Whatever is sown, edited and read at once in any number of workers, forms follow what is  *)
(* configured, no older than promised, and fields keep the roles they were given.            *)
THEOREM FormsAlwaysFollow ==
  ASSUME Setting
  PROVE  ConfigSpec => [](ConfigTypeOK /\ FormsFollow /\ RolesKept)
<1>1. ConfigInit => ConfigInv
  BY ConfigStart
<1>2. ConfigInv /\ [ConfigNext]_configVars => ConfigInv'
  BY RequestStep, SowStep, TickStep, ConfigStutters DEF ConfigNext
<1>3. ConfigInv => ConfigTypeOK /\ FormsFollow /\ RolesKept
  BY FormsAreGood, ConfigTyped
<1> QED  BY <1>1, <1>2, <1>3, PTL DEF ConfigSpec

-----------------------------------------------------------------------------
Phases == Pieces \cup {"down", "seed", "seeding", "facts", "filling", "serving", "failed"}
PastSchema == {"seed", "seeding", "facts", "filling", "serving"}

\* What may be added is there once a worker is through with it, and found missing before.
SchemaOK ==
  /\ setup \in Setup /\ setup.had \subseteq schema /\ schema \subseteq setup.had \cup setup.adds
  /\ boot \in [Workers -> Phases] /\ DOMAIN found = Workers
  /\ \A w \in Workers :
       /\ boot[w] = "column" => setup.adds \cap {"table"} \subseteq schema
       /\ boot[w] = "index" => setup.adds \cap {"table", "column"} \subseteq schema
       /\ boot[w] \in PastSchema => setup.adds \subseteq schema
       /\ boot[w] \in Pieces /\ found[w] # None => found[w] \subseteq setup.adds /\ setup.adds \ schema \subseteq found[w]

Present == Orders \ Missing

\* As many facts are there as n batches hold, or all.
Filled(n) == Missing = {} \/ Cardinality(Present) >= n * BatchSize

\* A batch is of the data there are, as far as there is no fact yet, and adds its size to the
\* facts that are there beside it, unless it is the last.
BatchOK(w) ==
  LET batch == DOMAIN found[w] IN
  /\ batch \subseteq Orders /\ found[w] \in [batch -> 0 .. MaxChanges]
  /\ \A o \in batch : fact[o] = None => found[w][o] = data[o]
  /\ batches[w] < MaxBatches
  /\ \/ Missing \subseteq batch
     \/ Cardinality(batch) = BatchSize /\ Cardinality(Present \ batch) >= batches[w] * BatchSize

FactsOK ==
  /\ data \in [Orders -> 0 .. MaxChanges] /\ fact \in [Orders -> 0 .. MaxChanges \cup {None}]
  /\ overwritten \subseteq Orders /\ \A o \in Orders \ overwritten : fact[o] \in {None, data[o]}
  /\ skipped \subseteq Workers /\ batches \in [Workers -> 0 .. MaxBatches]

\* Who sows has read a commit; who fills in facts has filled in as many as its batches hold,
\* and who is done as many as the limit.
StagesOK ==
  /\ FactsOK
  /\ \A w \in Workers :
       /\ boot[w] = "seeding" /\ found[w] # None => found[w] \in DOMAIN past
       /\ boot[w] = "filling" /\ found[w] = None => Filled(batches[w])
       /\ boot[w] = "filling" /\ found[w] # None => BatchOK(w)
       /\ boot[w] = "serving" /\ w \notin skipped /\ setup.fills => Filled(MaxBatches)

KeysOK ==
  /\ online \subseteq Workers
  /\ keys \in [{"seed", "facts"} -> Workers \cup {NoKey, Ghost}]

StartInv == ConfigInv /\ SchemaOK /\ StagesOK /\ KeysOK

\* The pieces of the schema are added in the order the workers go through them.
LEMMA SchemaStep ==
  ASSUME SchemaOK, StartNext
  PROVE  SchemaOK'
<1> USE DEF SchemaOK, Pieces, Phases, PastSchema
<1>1. ASSUME NEW w \in Workers, Start(w)  PROVE SchemaOK'
  BY <1>1 DEF Start, Step
<1>2. ASSUME NEW w \in Workers, Look(w)  PROVE SchemaOK'
  BY <1>2 DEF Look
<1>3. ASSUME NEW w \in Workers, Extend(w)  PROVE SchemaOK'
  <2>1. setup' = setup /\ boot[w] \in Pieces /\ found[w] # None /\ found' = [found EXCEPT ![w] = None]
    BY <1>3 DEF Extend, Step
  <2>2. \/ boot' = [boot EXCEPT ![w] = After[boot[w]]] /\ boot[w] \notin found[w] /\ schema' = schema
        \/ boot' = [boot EXCEPT ![w] = "failed"] /\ schema' = schema
        \/ /\ boot' = [boot EXCEPT ![w] = After[boot[w]]] /\ boot[w] \in found[w]
           /\ schema' = schema \cup {boot[w]}
    BY <1>3 DEF Extend, Step, NothingToAdd
  <2>3. After["table"] = "column" /\ After["column"] = "index" /\ After["index"] = "seed"
    BY DEF After
  <2>4. found[w] \subseteq setup.adds /\ setup.adds \ schema \subseteq found[w]
    BY <2>1
  <2>5. boot' \in [Workers -> Phases] /\ DOMAIN found' = Workers
    BY <2>1, <2>2, <2>3
  <2>6. schema \subseteq schema' /\ schema' \subseteq setup.had \cup setup.adds
    BY <2>2, <2>4
  <2>7. \/ boot' = [boot EXCEPT ![w] = "failed"]
        \/ boot' = [boot EXCEPT ![w] = After[boot[w]]] /\ setup.adds \cap {boot[w]} \subseteq schema'
    BY <2>2, <2>4
  <2>8. ASSUME NEW v \in Workers
        PROVE  /\ boot'[v] = "column" => setup.adds \cap {"table"} \subseteq schema'
               /\ boot'[v] = "index" => setup.adds \cap {"table", "column"} \subseteq schema'
               /\ boot'[v] \in PastSchema => setup.adds \subseteq schema'
               /\ boot'[v] \in Pieces /\ found'[v] # None =>
                    found'[v] \subseteq setup.adds /\ setup.adds \ schema' \subseteq found'[v]
    <3>1. CASE v = w
      <4>0. found'[v] = None
        BY <2>1, <3>1
      <4>1. CASE boot' = [boot EXCEPT ![w] = "failed"]
        BY <4>0, <4>1, <3>1
      <4>2. CASE boot[w] = "table" /\ boot'[w] = "column" /\ setup.adds \cap {"table"} \subseteq schema'
        BY <4>0, <4>2, <3>1
      <4>3. CASE boot[w] = "column" /\ boot'[w] = "index" /\ setup.adds \cap {"column"} \subseteq schema'
        BY <4>0, <4>3, <2>6, <3>1
      <4>4. CASE boot[w] = "index" /\ boot'[w] = "seed" /\ setup.adds \cap {"index"} \subseteq schema'
        <5>1. setup.adds \subseteq schema'
          <6>1. setup.adds \subseteq {"table", "column", "index"}
            BY DEF Setup
          <6>2. setup.adds \cap {"table", "column"} \subseteq schema
            BY <4>4
          <6> QED  BY <4>4, <2>6, <6>1, <6>2
        <5> QED  BY <4>0, <4>4, <5>1, <3>1
      <4> QED  BY <4>1, <4>2, <4>3, <4>4, <2>1, <2>3, <2>7
    <3>2. CASE v # w
      <4>1. boot'[v] = boot[v] /\ found'[v] = found[v]
        BY <2>1, <2>2, <3>2
      <4> QED  BY <2>6, <4>1
    <3> QED  BY <3>1, <3>2
  <2> QED  BY <2>1, <2>5, <2>6, <2>8
<1>4. ASSUME NEW w \in Workers, TakeSeed(w) \/ Seed(w) \/ SeedFails(w)  PROVE SchemaOK'
  BY <1>4 DEF TakeSeed, Seed, SeedFails, Seeds, Step
<1>5. ASSUME NEW w \in Workers, ReadSeed(w) \/ SeedAgain(w) \/ LookForOrders(w) \/ FillIn(w)  PROVE SchemaOK'
  BY <1>5 DEF ReadSeed, SeedAgain, Seeds, LookForOrders, FillIn
<1>6. ASSUME NEW w \in Workers, TakeFacts(w) \/ FactsDone(w) \/ StartFails(w)  PROVE SchemaOK'
  BY <1>6 DEF TakeFacts, FactsDone, StartFails, Step
<1>7. ASSUME NEW gone, Ended(gone)  PROVE SchemaOK'
  BY <1>7 DEF Ended
<1>8. ASSUME UNCHANGED <<setup, schema, boot, found>>  PROVE SchemaOK'
  BY <1>8
<1>9. ASSUME NEW w \in Workers, ChangeOrder(w)  PROVE SchemaOK'
  BY <1>8, <1>9 DEF ChangeOrder
<1>10. ASSUME NEW w \in Workers, Serve(w)  PROVE SchemaOK'
  BY <1>8, <1>10 DEF Serve, bootVars
<1>11. ASSUME NEW k, KeyExpires(k)  PROVE SchemaOK'
  BY <1>8, <1>11 DEF KeyExpires
<1>12. ASSUME Tick, UNCHANGED bootVars  PROVE SchemaOK'
  BY <1>8, <1>12 DEF bootVars
<1> HIDE DEF SchemaOK
<1> QED
  BY <1>1, <1>2, <1>3, <1>4, <1>5, <1>6, <1>7, <1>9, <1>10, <1>11, <1>12 DEF StartNext, Halt, Die

\* Only these touch the tables of the fields: a seed, a request, an end, the time.
LEMMA ConfigStep ==
  ASSUME Setting, ConfigInv, StagesOK, StartNext
  PROVE  ConfigInv'
<1>1. ASSUME NEW w \in Workers, Seed(w)  PROVE ConfigInv'
  <2>1. Sow(past[found[w]]) /\ found[w] \in DOMAIN past
    BY <1>1 DEF Seed, Seeds, StagesOK
  <2> QED  BY <2>1, SowStep
<1>2. ASSUME NEW gone, Ended(gone)  PROVE ConfigInv'
  <2>1. /\ cache' = [w \in Workers |-> IF w \in gone THEN [role \in Roles |-> None] ELSE cache[w]]
        /\ reading' = [w \in Workers |-> IF w \in gone THEN {} ELSE reading[w]]
        /\ saving' = [w \in Workers |-> IF w \in gone THEN None ELSE saving[w]]
        /\ answered' = [w \in Workers |-> IF w \in gone THEN 1 ELSE answered[w]]
        /\ UNCHANGED <<past, given, mixed, clock>>
    BY <1>2 DEF Ended, Forgotten
  <2>2. 1 \in DOMAIN past
    BY NowIsATable DEF ConfigInv
  <2>3. HandsOK'
    BY <2>1, <2>2 DEF ConfigInv, HandsOK
  <2>4. CacheOK'
    <3>1. cache' \in [Workers -> [Roles -> Entries \cup {None}]]
      BY <2>1 DEF ConfigInv, CacheOK
    <3>2. ASSUME NEW w \in Workers, NEW role \in Roles, cache'[w][role] # None  PROVE EntryOK(w, role)'
      <4>1. w \notin gone /\ cache'[w] = cache[w] /\ answered'[w] = answered[w]
        BY <2>1, <3>2 DEF ConfigInv, CacheOK
      <4> QED  BY <2>1, <3>2, <4>1 DEF ConfigInv, CacheOK, EntryOK
    <3> QED  BY <3>1, <3>2 DEF CacheOK
  <2> QED  BY <2>1, <2>3, <2>4, NothingCommitted DEF ConfigInv
<1>3. ASSUME NEW w \in Workers, Serve(w)  PROVE ConfigInv'
  BY <1>3, RequestStep DEF Serve
<1>4. ASSUME NEW w \in Workers, Start(w) \/ Look(w) \/ Extend(w)  PROVE UNCHANGED configVars
  BY <1>4 DEF Start, Look, Extend
<1>5. ASSUME NEW w \in Workers, TakeSeed(w) \/ ReadSeed(w) \/ SeedAgain(w) \/ SeedFails(w)
      PROVE  UNCHANGED configVars
  BY <1>5 DEF TakeSeed, ReadSeed, SeedAgain, SeedFails
<1>6. ASSUME NEW w \in Workers,
             TakeFacts(w) \/ LookForOrders(w) \/ FillIn(w) \/ FactsDone(w) \/ StartFails(w) \/ ChangeOrder(w)
      PROVE  UNCHANGED configVars
  BY <1>6 DEF TakeFacts, LookForOrders, FillIn, FactsDone, StartFails, ChangeOrder
<1>7. ASSUME NEW k, KeyExpires(k)  PROVE UNCHANGED configVars
  BY <1>7 DEF KeyExpires
<1> QED
  BY <1>1, <1>2, <1>3, <1>4, <1>5, <1>6, <1>7, TickStep, ConfigStutters DEF StartNext, Halt, Die

\* Commits are never taken back.
LEMMA PastStays ==
  ASSUME Setting, ConfigInv, StagesOK, StartNext
  PROVE  DOMAIN past \subseteq DOMAIN past'
<1>1. ASSUME NEW t, past' = Append(past, t)  PROVE DOMAIN past \subseteq DOMAIN past'
  <2>1. past \in Seq(Tables)
    BY DEF ConfigInv, HistoryOK
  <2> QED  BY <1>1, <2>1
<1>2. ASSUME NEW w \in Workers, Seed(w)  PROVE DOMAIN past \subseteq DOMAIN past'
  BY <1>1, <1>2 DEF Seed, Sow, Commit
<1>3. ASSUME NEW w \in Workers, Serve(w)  PROVE DOMAIN past \subseteq DOMAIN past'
  <2>1. past' = past \/ Save(w)
    BY <1>3 DEF Serve, Request, ReadForm, PutForm, DropRead, BeginSave, SaveRefused, Answer, RefreshFails
  <2> QED  BY <1>1, <2>1 DEF Save, Commit
<1>4. ASSUME NEW w \in Workers, Start(w) \/ Look(w) \/ Extend(w)  PROVE past' = past
  BY <1>4 DEF Start, Look, Extend, configVars
<1>5. ASSUME NEW w \in Workers, TakeSeed(w) \/ ReadSeed(w) \/ SeedAgain(w) \/ SeedFails(w)
      PROVE  past' = past
  BY <1>5 DEF TakeSeed, ReadSeed, SeedAgain, SeedFails, configVars
<1>6. ASSUME NEW w \in Workers,
             TakeFacts(w) \/ LookForOrders(w) \/ FillIn(w) \/ FactsDone(w) \/ StartFails(w) \/ ChangeOrder(w)
      PROVE  past' = past
  BY <1>6 DEF TakeFacts, LookForOrders, FillIn, FactsDone, StartFails, ChangeOrder, configVars
<1>7. ASSUME NEW k, KeyExpires(k)  PROVE past' = past
  BY <1>7 DEF KeyExpires, configVars
<1>8. ASSUME NEW gone, Ended(gone)  PROVE past' = past
  BY <1>8 DEF Ended
<1> QED
  BY <1>2, <1>3, <1>4, <1>5, <1>6, <1>7, <1>8 DEF StartNext, Halt, Die, Tick
-----------------------------------------------------------------------------
\* Numbers of facts are numbers, and grow with the facts.
LEMMA FactsCount ==
  ASSUME Deployed, NEW S, NEW T, S \subseteq T, T \subseteq Orders
  PROVE  Cardinality(S) \in Nat /\ Cardinality(T) \in Nat /\ Cardinality(S) <= Cardinality(T)
<1>1. IsFiniteSet(T)
  BY FS_Subset DEF Deployed
<1>2. IsFiniteSet(S) /\ Cardinality(S) <= Cardinality(T)
  BY <1>1, FS_Subset
<1> QED  BY <1>1, <1>2, FS_CardinalityType

\* As facts appear and nothing else is done, who has filled in enough still has.
LEMMA StillFilled ==
  ASSUME Deployed, Missing' \subseteq Missing, NEW n \in Nat, Filled(n)
  PROVE  Filled(n)'
<1>1. Present \subseteq Present' /\ Present' \subseteq Orders
  BY DEF Present
<1>2. Cardinality(Present) <= Cardinality(Present') /\ Cardinality(Present) \in Nat /\ Cardinality(Present') \in Nat
  BY <1>1, FactsCount
<1>3. CASE Missing = {}
  BY <1>3 DEF Filled
<1>4. CASE Cardinality(Present) >= n * BatchSize
  <2>1. n * BatchSize \in Nat
    BY DEF Deployed
  <2>2. Cardinality(Present') >= n * BatchSize
    BY <1>2, <1>4, <2>1
  <2> QED  BY <2>2 DEF Filled
<1> QED  BY <1>3, <1>4 DEF Filled

LEMMA BatchStill ==
  ASSUME Deployed, Missing' \subseteq Missing, NEW w, found'[w] = found[w], batches'[w] = batches[w], batches[w] \in Nat,
         \A o \in Orders : fact'[o] = None => fact[o] = None /\ data'[o] = data[o], BatchOK(w)
  PROVE  BatchOK(w)'
<1> DEFINE batch == DOMAIN found[w]
<1>1. /\ batch \subseteq Orders /\ found[w] \in [batch -> 0 .. MaxChanges]
      /\ \A o \in batch : fact[o] = None => found[w][o] = data[o]
      /\ batches[w] < MaxBatches
      /\ \/ Missing \subseteq batch
         \/ Cardinality(batch) = BatchSize /\ Cardinality(Present \ batch) >= batches[w] * BatchSize
  BY DEF BatchOK
<1>2. Present \ batch \subseteq Present' \ batch /\ Present' \ batch \subseteq Orders
  BY DEF Present
<1> HIDE DEF batch
<1>3. /\ Cardinality(Present \ batch) <= Cardinality(Present' \ batch)
      /\ Cardinality(Present \ batch) \in Nat /\ Cardinality(Present' \ batch) \in Nat
  BY <1>2, FactsCount
<1>4. \/ Missing' \subseteq batch
      \/ Cardinality(batch) = BatchSize /\ Cardinality(Present' \ batch) >= batches[w] * BatchSize
  <2>1. batches[w] * BatchSize \in Nat
    BY DEF Deployed
  <2> QED  BY <1>1, <1>3, <2>1
<1>5. \A o \in batch : fact'[o] = None => found[w][o] = data'[o]
  BY <1>1
<1> QED  BY <1>1, <1>4, <1>5 DEF BatchOK, batch

\* Where nothing but the stage of one worker changes and it neither fills in nor serves
LEMMA StageChanges ==
  ASSUME Deployed, SchemaOK, StagesOK, DOMAIN past \subseteq DOMAIN past', NEW w \in Workers,
         NEW phase \in {"table", "column", "index", "seed", "seeding", "facts", "failed"},
         Step(w, phase), UNCHANGED <<setup, batches, data, fact, overwritten, skipped>>
  PROVE  StagesOK'
<1>1. FactsOK' /\ \A n : Filled(n)' = Filled(n)
  BY DEF StagesOK, FactsOK, Filled, Present, Missing
<1>2. ASSUME NEW v \in Workers, v # w
      PROVE  boot'[v] = boot[v] /\ found'[v] = found[v] /\ (BatchOK(v) => BatchOK(v)')
  BY <1>2 DEF Step, SchemaOK, BatchOK, Present, Missing
<1>3. boot'[w] = phase /\ found'[w] = None
  BY DEF Step, SchemaOK
<1> QED  BY <1>1, <1>2, <1>3 DEF StagesOK

\* What the batch of a worker leaves
LEMMA FilledIn ==
  ASSUME Deployed, SchemaOK, StagesOK, NEW w \in Workers, FillIn(w)
  PROVE  /\ FactsOK' /\ Filled(batches[w])' /\ Missing' \subseteq Missing
         /\ \A o \in Orders : fact'[o] = None => fact[o] = None
<1> DEFINE batch == DOMAIN found[w]
           n == batches[w]
<1>1. BatchOK(w) /\ FactsOK /\ None \notin 0 .. MaxChanges /\ n \in Nat
  BY DEF FillIn, StagesOK, FactsOK, Deployed, Setting
<1>2. /\ batch \subseteq Orders /\ found[w] \in [batch -> 0 .. MaxChanges]
      /\ \A o \in batch : fact[o] = None => found[w][o] = data[o]
      /\ n < MaxBatches
      /\ \/ Missing \subseteq batch
         \/ Cardinality(batch) = BatchSize /\ Cardinality(Present \ batch) >= n * BatchSize
  BY <1>1 DEF BatchOK
<1>3. /\ fact' = [o \in Orders |-> IF o \in batch THEN found[w][o] ELSE fact[o]]
      /\ overwritten' = (overwritten \ batch) \cup (batch \ Missing)
      /\ batches' = [batches EXCEPT ![w] = n + 1] /\ data' = data /\ skipped' = skipped
  BY DEF FillIn
<1> HIDE DEF batch
<1>4. FactsOK'
  <2>1. fact' \in [Orders -> 0 .. MaxChanges \cup {None}]
    BY <1>1, <1>2, <1>3 DEF FactsOK
  <2>2. n + 1 \in 0 .. MaxBatches
    BY <1>1, <1>2 DEF Deployed
  <2>3. \A o \in Orders \ overwritten' : fact'[o] \in {None, data'[o]}
    BY <1>1, <1>2, <1>3 DEF FactsOK, Missing
  <2> QED  BY <1>1, <1>2, <1>3, <2>1, <2>2, <2>3 DEF FactsOK
<1>5. Missing' = Missing \ batch
  BY <1>1, <1>2, <1>3 DEF Missing
<1>6. Missing' = {} \/ Cardinality(Present') >= (n + 1) * BatchSize
  <2>1. CASE Missing \subseteq batch
    BY <1>5, <2>1
  <2>2. CASE Cardinality(batch) = BatchSize /\ Cardinality(Present \ batch) >= n * BatchSize
    <3> DEFINE beside == Present \ batch
    <3>1. Present' = beside \cup batch /\ beside \cap batch = {} /\ beside \subseteq Orders
      BY <1>2, <1>5 DEF Present, Missing
    <3> HIDE DEF beside
    <3>2. IsFiniteSet(beside) /\ IsFiniteSet(batch)
      BY <1>2, <3>1, FS_Subset DEF Deployed
    <3>3. Cardinality(Present') = Cardinality(beside) + Cardinality(batch)
      <4>1. Cardinality(beside \cup batch) = Cardinality(beside) + Cardinality(batch) - Cardinality(beside \cap batch)
        BY <3>2, FS_Union
      <4>2. Cardinality(beside \cap batch) = 0
        BY <3>1, FS_EmptySet
      <4> QED  BY <3>1, <3>2, <4>1, <4>2, FS_CardinalityType
    <3>4. Cardinality(beside) \in Nat /\ Cardinality(beside) >= n * BatchSize
      BY <2>2, <3>2, FS_CardinalityType DEF beside
    <3>5. (n + 1) * BatchSize = n * BatchSize + BatchSize /\ n * BatchSize \in Nat /\ BatchSize \in Nat
      BY <1>1 DEF Deployed
    <3>6. Cardinality(Present') >= (n + 1) * BatchSize
      BY <2>2, <3>3, <3>4, <3>5
    <3> QED  BY <3>6
  <2> QED  BY <1>2, <2>1, <2>2
<1>7. \A o \in Orders : fact'[o] = None => fact[o] = None
  BY <1>1, <1>2, <1>3
<1>8. Filled(batches[w])'
  <2>1. batches'[w] = n + 1
    BY <1>1, <1>3 DEF FactsOK
  <2> QED  BY <1>6, <2>1 DEF Filled
<1> QED  BY <1>4, <1>5, <1>7, <1>8

\* The facts are filled in from the data there are, unless there is a fact already.
LEMMA StagesStep ==
  ASSUME Deployed, ConfigInv, SchemaOK, StagesOK, StartNext
  PROVE  StagesOK'
<1>0. /\ None \notin 0 .. MaxChanges /\ MaxChanges \in Nat /\ Setting /\ MaxBatches \in Nat
      /\ boot \in [Workers -> Phases] /\ DOMAIN found = Workers
      /\ Len(past) \in DOMAIN past /\ DOMAIN past \subseteq DOMAIN past'
      /\ FactsOK /\ \A w \in Workers : batches[w] \in Nat
  <2>1. Setting
    BY DEF Deployed
  <2>2. Len(past) \in DOMAIN past
    BY <2>1, NowIsATable DEF ConfigInv
  <2>3. DOMAIN past \subseteq DOMAIN past'
    BY <2>1, PastStays
  <2> QED  BY <2>1, <2>2, <2>3 DEF Deployed, Setting, SchemaOK, StagesOK, FactsOK
<1>1. ASSUME NEW w \in Workers, Start(w) \/ TakeSeed(w) \/ SeedFails(w) \/ Seed(w) \/ StartFails(w)
      PROVE  StagesOK'
  BY <1>0, <1>1, StageChanges DEF Start, TakeSeed, SeedFails, Seed, StartFails
<1>2. ASSUME NEW w \in Workers, Extend(w)  PROVE StagesOK'
  <2>1. After[boot[w]] \in {"column", "index", "seed"}
    BY <1>2 DEF Extend, After, Pieces
  <2>2. Step(w, After[boot[w]]) \/ Step(w, "failed")
    BY <1>2 DEF Extend
  <2> QED  BY <1>0, <1>2, <2>1, <2>2, StageChanges DEF Extend
<1>3. ASSUME UNCHANGED <<setup, batches, data, fact, overwritten, skipped, boot>>, DOMAIN found' = Workers,
             \A v \in Workers : \/ found'[v] = found[v]
                               \/ boot[v] \notin {"seeding", "filling", "serving"}
                               \/ (boot[v] = "seeding" /\ found'[v] \in DOMAIN past)
      PROVE  StagesOK'
  <2>1. FactsOK' /\ \A n : Filled(n)' = Filled(n)
    BY <1>0, <1>3 DEF FactsOK, Filled, Present, Missing
  <2>2. \A v \in Workers : found'[v] = found[v] /\ BatchOK(v) => BatchOK(v)'
    BY <1>3 DEF BatchOK, Present, Missing
  <2> QED  BY <1>0, <1>3, <2>1, <2>2 DEF StagesOK
<1>4. ASSUME NEW w \in Workers, Look(w)  PROVE StagesOK'
  BY <1>0, <1>3, <1>4 DEF Look, Pieces
<1>5. ASSUME NEW w \in Workers, ReadSeed(w) \/ SeedAgain(w)  PROVE StagesOK'
  BY <1>0, <1>3, <1>5 DEF ReadSeed, SeedAgain, Seeds
<1>6. ASSUME NEW w \in Workers, TakeFacts(w)  PROVE StagesOK'
  <2>1. /\ batches' = [batches EXCEPT ![w] = 0] /\ UNCHANGED <<setup, data, fact, overwritten>>
        /\ \/ Step(w, "filling") /\ skipped' = skipped \ {w}
           \/ Step(w, "serving") /\ skipped' = skipped \cup {w}
           \/ ~setup.fills /\ Step(w, "serving") /\ skipped' = skipped
    BY <1>6 DEF TakeFacts
  <2>2. FactsOK' /\ \A n : Filled(n)' = Filled(n)
    BY <1>0, <2>1 DEF FactsOK, Filled, Present, Missing
  <2>3. Filled(0)
    <3>1. Cardinality(Present) \in Nat
      BY FactsCount DEF Present
    <3> QED  BY <3>1 DEF Filled, Deployed
  <2>4. ASSUME NEW v \in Workers, v # w
        PROVE  /\ boot'[v] = boot[v] /\ found'[v] = found[v] /\ batches'[v] = batches[v]
               /\ v \in skipped' <=> v \in skipped
               /\ BatchOK(v) => BatchOK(v)'
    <3>1. boot'[v] = boot[v] /\ found'[v] = found[v]
      BY <1>0, <2>1, <2>4 DEF Step
    <3>2. batches'[v] = batches[v]
      BY <1>0, <2>1, <2>4 DEF FactsOK
    <3>3. v \in skipped' <=> v \in skipped
      BY <2>1, <2>4
    <3>4. Missing' = Missing /\ Present' = Present
      BY <2>1 DEF Present, Missing
    <3>5. BatchOK(v) => BatchOK(v)'
      BY <2>1, <3>1, <3>2, <3>4 DEF BatchOK
    <3> QED  BY <3>1, <3>2, <3>3, <3>5
  <2>5. /\ found'[w] = None /\ batches'[w] = 0
        /\ \/ boot'[w] = "filling"
           \/ boot'[w] = "serving" /\ (w \in skipped' \/ ~setup.fills)
    BY <1>0, <2>1 DEF Step, FactsOK
  <2> QED  BY <1>0, <2>1, <2>2, <2>3, <2>4, <2>5 DEF StagesOK
<1>7. ASSUME NEW w \in Workers, LookForOrders(w)  PROVE StagesOK'
  <2>1. /\ boot[w] = "filling" /\ found[w] = None /\ Missing # {} /\ ~LimitReached(batches[w])
        /\ UNCHANGED <<past, setup, boot, batches, data, fact, overwritten, skipped>>
    BY <1>7 DEF LookForOrders, configVars
  <2>2. PICK batch \in SUBSET Missing :
          /\ Cardinality(batch) = Smaller(BatchSize, Cardinality(Missing))
          /\ found' = [found EXCEPT ![w] = [o \in batch |-> data[o]]]
    BY <1>7 DEF LookForOrders
  <2>3. Cardinality(Present) >= batches[w] * BatchSize
    BY <2>1 DEF StagesOK, Filled
  <2>4. Present \ batch = Present /\ batch \subseteq Orders
    BY <2>2 DEF Present, Missing
  <2>5. batches[w] < MaxBatches
    BY <1>0, <2>1 DEF LimitReached
  <2>6. Missing \subseteq batch \/ Cardinality(batch) = BatchSize
    <3>1. IsFiniteSet(Missing)
      BY FS_Subset DEF Missing, Deployed
    <3>2. Cardinality(batch) = Cardinality(Missing) => batch = Missing
      BY <3>1, FS_Subset
    <3>3. Cardinality(batch) = BatchSize \/ Cardinality(batch) = Cardinality(Missing)
      BY <2>2 DEF Smaller
    <3> QED  BY <3>2, <3>3
  <2>7. found'[w] = [o \in batch |-> data[o]] /\ \A v \in Workers : v # w => found'[v] = found[v]
    BY <1>0, <2>2
  <2>8. BatchOK(w)'
    <3> DEFINE f == [o \in batch |-> data[o]]
    <3>1. DOMAIN f = batch /\ \A o \in batch : f[o] = data[o]
      OBVIOUS
    <3>2. f \in [batch -> 0 .. MaxChanges]
      BY <1>0, <2>4 DEF FactsOK
    <3>3. found'[w] = f
      BY <2>7
    <3>4. Missing' = Missing /\ Present' = Present
      BY <2>1 DEF Missing, Present
    <3> HIDE DEF f
    <3> QED  BY <2>1, <2>3, <2>4, <2>5, <2>6, <3>1, <3>2, <3>3, <3>4 DEF BatchOK
  <2>9. FactsOK' /\ \A n : Filled(n)' = Filled(n)
    BY <1>0, <2>1 DEF FactsOK, Filled, Present, Missing
  <2>10. \A v \in Workers : v # w /\ BatchOK(v) => BatchOK(v)'
    BY <2>1, <2>7 DEF BatchOK, Present, Missing
  <2>11. Filled(batches[w])'
    BY <2>1, <2>9 DEF StagesOK, Filled, Present, Missing
  <2> QED  BY <1>0, <2>1, <2>7, <2>8, <2>9, <2>10, <2>11 DEF StagesOK
<1>8. ASSUME NEW w \in Workers, FillIn(w)  PROVE StagesOK'
  <2>1. /\ FactsOK' /\ Filled(batches[w])' /\ Missing' \subseteq Missing
        /\ \A o \in Orders : fact'[o] = None => fact[o] = None
    BY <1>8, FilledIn
  <2>2. /\ found' = [found EXCEPT ![w] = None] /\ batches' = [batches EXCEPT ![w] = batches[w] + 1]
        /\ UNCHANGED <<past, setup, boot, data, skipped>> /\ boot[w] = "filling"
    BY <1>8 DEF FillIn, configVars
  <2>3. found'[w] = None /\ batches'[w] = batches[w] + 1
        /\ \A v \in Workers : v # w => found'[v] = found[v] /\ batches'[v] = batches[v]
    BY <1>0, <2>2 DEF FactsOK
  <2>4. \A v \in Workers : v # w /\ BatchOK(v) => BatchOK(v)'
    BY <1>0, <2>1, <2>2, <2>3, BatchStill
  <2>5. \A n \in Nat : Filled(n) => Filled(n)'
    BY <2>1, StillFilled
  <2> QED  BY <1>0, <2>1, <2>2, <2>3, <2>4, <2>5 DEF StagesOK
<1>9. ASSUME NEW w \in Workers, FactsDone(w)  PROVE StagesOK'
  <2>1. /\ boot[w] = "filling" /\ found[w] = None /\ (Missing = {} \/ LimitReached(batches[w]))
        /\ Step(w, "serving") /\ UNCHANGED <<past, setup, batches, data, fact, overwritten, skipped>>
    BY <1>9 DEF FactsDone, configVars
  <2>2. Filled(MaxBatches)
    <3>1. Filled(batches[w]) /\ batches[w] \in 0 .. MaxBatches
      BY <1>0, <2>1 DEF StagesOK, FactsOK
    <3>2. Missing = {} \/ batches[w] = MaxBatches
      BY <1>0, <2>1, <3>1 DEF LimitReached
    <3> QED  BY <3>1, <3>2 DEF Filled
  <2>3. FactsOK' /\ \A n : Filled(n)' = Filled(n)
    BY <1>0, <2>1 DEF FactsOK, Filled, Present, Missing
  <2>4. \A v \in Workers : v # w =>
          boot'[v] = boot[v] /\ found'[v] = found[v] /\ (BatchOK(v) => BatchOK(v)')
    BY <1>0, <2>1 DEF Step, BatchOK, Present, Missing
  <2>5. boot'[w] = "serving"
    BY <1>0, <2>1 DEF Step
  <2> QED  BY <1>0, <2>1, <2>2, <2>3, <2>4, <2>5 DEF StagesOK
<1>10. ASSUME NEW gone, Ended(gone)  PROVE StagesOK'
  <2>1. /\ boot' = [w \in Workers |-> IF w \in gone THEN "down" ELSE boot[w]]
        /\ found' = [w \in Workers |-> IF w \in gone THEN None ELSE found[w]]
        /\ UNCHANGED <<past, setup, batches, data, fact, overwritten, skipped>>
    BY <1>10 DEF Ended
  <2>2. FactsOK' /\ \A n : Filled(n)' = Filled(n)
    BY <1>0, <2>1 DEF FactsOK, Filled, Present, Missing
  <2>3. \A v \in Workers : v \notin gone =>
          boot'[v] = boot[v] /\ found'[v] = found[v] /\ (BatchOK(v) => BatchOK(v)')
    BY <2>1 DEF BatchOK, Present, Missing
  <2>4. \A v \in Workers : v \in gone => boot'[v] = "down"
    BY <2>1
  <2> QED  BY <1>0, <2>1, <2>2, <2>3, <2>4 DEF StagesOK
<1>11. ASSUME NEW w \in Workers, ChangeOrder(w)  PROVE StagesOK'
  <2>1. PICK o \in Orders :
          /\ data[o] < MaxChanges
          /\ data' = [data EXCEPT ![o] = data[o] + 1] /\ fact' = [fact EXCEPT ![o] = data[o] + 1]
          /\ overwritten' = overwritten \ {o}
    BY <1>11 DEF ChangeOrder
  <2>2. UNCHANGED <<past, setup, boot, found, skipped, batches>>
    BY <1>11 DEF ChangeOrder, configVars
  <2>3. data[o] + 1 \in 0 .. MaxChanges /\ data[o] + 1 # None
    BY <1>0, <2>1 DEF FactsOK
  <2>4. FactsOK'
    BY <1>0, <2>1, <2>2, <2>3 DEF FactsOK
  <2>5. \A p \in Orders : fact'[p] = None => fact[p] = None /\ data'[p] = data[p]
    BY <1>0, <2>1, <2>3 DEF FactsOK
  <2>6. Missing' \subseteq Missing
    BY <2>5 DEF Missing
  <2>7. \A v \in Workers : BatchOK(v) => BatchOK(v)'
    BY <1>0, <2>2, <2>5, <2>6, BatchStill
  <2>8. \A n \in Nat : Filled(n) => Filled(n)'
    BY <2>6, StillFilled
  <2> QED  BY <1>0, <2>2, <2>4, <2>7, <2>8 DEF StagesOK
<1>12. ASSUME UNCHANGED <<setup, batches, data, fact, overwritten, skipped, boot, found>>  PROVE StagesOK'
  BY <1>0, <1>3, <1>12
<1>13. ASSUME NEW w \in Workers, Serve(w)  PROVE StagesOK'
  BY <1>12, <1>13 DEF Serve, bootVars
<1>14. ASSUME NEW k, KeyExpires(k)  PROVE StagesOK'
  BY <1>12, <1>14 DEF KeyExpires
<1>15. ASSUME Tick, UNCHANGED bootVars  PROVE StagesOK'
  BY <1>12, <1>15 DEF bootVars
<1> QED
  BY <1>1, <1>2, <1>4, <1>5, <1>6, <1>7, <1>8, <1>9, <1>10, <1>11, <1>13, <1>14, <1>15
  DEF StartNext, Halt, Die

\* A key is a worker's, a dead one's or nobody's.
LEMMA KeysStep ==
  ASSUME KeysOK, StartNext
  PROVE  KeysOK'
<1> USE DEF KeysOK
<1>1. ASSUME NEW w \in Workers, Start(w) \/ Look(w) \/ Extend(w)  PROVE KeysOK'
  BY <1>1 DEF Start, Look, Extend
<1>2. ASSUME NEW w \in Workers, TakeSeed(w) \/ TakeFacts(w)  PROVE KeysOK'
  BY <1>2 DEF TakeSeed, TakeFacts, Takes, Misses
<1>3. ASSUME NEW w \in Workers, SeedFails(w) \/ Seed(w) \/ FactsDone(w)  PROVE KeysOK'
  BY <1>3 DEF SeedFails, Seed, FactsDone, Returns
<1>4. ASSUME NEW w \in Workers, ReadSeed(w) \/ SeedAgain(w) \/ LookForOrders(w) \/ FillIn(w) \/ ChangeOrder(w)
      PROVE  KeysOK'
  BY <1>4 DEF ReadSeed, SeedAgain, LookForOrders, FillIn, ChangeOrder
<1>5. ASSUME NEW w \in Workers, StartFails(w)  PROVE KeysOK'
  BY <1>5 DEF StartFails
<1>6. ASSUME NEW k, KeyExpires(k)  PROVE KeysOK'
  BY <1>6 DEF KeyExpires
<1>7. ASSUME NEW gone, Ended(gone)  PROVE KeysOK'
  BY <1>7 DEF Ended
<1>8. ASSUME UNCHANGED <<online, keys>>  PROVE KeysOK'
  BY <1>8
<1>9. ASSUME NEW w \in Workers, Serve(w)  PROVE KeysOK'
  BY <1>8, <1>9 DEF Serve, bootVars
<1>10. ASSUME Tick, UNCHANGED bootVars  PROVE KeysOK'
  BY <1>8, <1>10 DEF bootVars
<1> HIDE DEF KeysOK
<1> QED
  BY <1>1, <1>2, <1>3, <1>4, <1>5, <1>6, <1>7, <1>9, <1>10 DEF StartNext, Halt, Die

(* However the starts of the workers, their requests, failures, deaths and restarts         *)
(* interleave: a worker serves on all of the schema that was there or may be added, and     *)
(* nothing else is added; unless it left the facts to another, as many are there as the     *)
(* limit allows, or all, and they are those of the data; forms and roles are as in          *)
(* FormsAlwaysFollow.                                                                       *)
THEOREM StartsStaySound ==
  ASSUME Deployed
  PROVE  StartSpec => [](ConfigTypeOK /\ StartTypeOK /\ StartsSound)
<1>0. Setting
  BY DEF Deployed
<1>1. StartInit => StartInv
  <2> SUFFICES ASSUME StartInit  PROVE StartInv
    OBVIOUS
  <2>1. ConfigInv
    BY <1>0, ConfigStart DEF StartInit
  <2>2. SchemaOK
    BY DEF StartInit, SchemaOK, Pieces, Phases, PastSchema, Deployed, Setup
  <2>3. StagesOK
    <3>1. /\ data = [o \in Orders |-> 0] /\ fact = [o \in Orders |-> None] /\ overwritten = {} /\ skipped = {}
          /\ batches = [w \in Workers |-> 0]
      BY DEF StartInit
    <3>2. \A w \in Workers : boot[w] = "down"
      BY DEF StartInit
    <3>3. 0 \in 0 .. MaxChanges /\ 0 \in 0 .. MaxBatches
      BY DEF Deployed, Setting
    <3> QED  BY <3>1, <3>2, <3>3 DEF StagesOK, FactsOK
  <2>4. KeysOK
    BY DEF StartInit, KeysOK
  <2> QED  BY <2>1, <2>2, <2>3, <2>4 DEF StartInv
<1>2. StartInv /\ [StartNext]_startVars => StartInv'
  <2>1. StartInv /\ StartNext => StartInv'
    BY <1>0, ConfigStep, SchemaStep, StagesStep, KeysStep DEF StartInv
  <2>2. StartInv /\ UNCHANGED startVars => StartInv'
    <3> SUFFICES ASSUME StartInv, UNCHANGED startVars  PROVE StartInv'
      OBVIOUS
    <3>1. ConfigInv'
      BY <1>0, ConfigStutters DEF StartInv, startVars
    <3>2. UNCHANGED <<past, setup, schema, boot, found, online, keys, skipped, batches, data, fact, overwritten>>
      BY DEF startVars, configVars, bootVars
    <3>3. StagesOK'
      BY <3>2 DEF StartInv, StagesOK, FactsOK, Filled, BatchOK, Present, Missing
    <3>4. SchemaOK' /\ KeysOK'
      BY <3>2 DEF StartInv, SchemaOK, KeysOK
    <3> QED  BY <3>1, <3>3, <3>4 DEF StartInv
  <2> QED  BY <2>1, <2>2
<1>3. StartInv => ConfigTypeOK /\ StartTypeOK /\ StartsSound
  <2> SUFFICES ASSUME StartInv  PROVE ConfigTypeOK /\ StartTypeOK /\ StartsSound
    OBVIOUS
  <2>1. ConfigTypeOK /\ FormsFollow /\ RolesKept
    BY <1>0, FormsAreGood, ConfigTyped DEF StartInv
  <2>2. SchemaWhole
    BY DEF StartInv, SchemaOK, PastSchema, SchemaWhole
  <2>3. FactsFilled
    BY DEF StartInv, StagesOK, FactsOK, Filled, Present, FactsFilled
  <2>4. StartTypeOK
    <3>1. schema \subseteq Pieces
      BY DEF StartInv, SchemaOK, Setup
    <3> QED  BY <3>1 DEF StartInv, SchemaOK, StagesOK, FactsOK, KeysOK, Phases, StartTypeOK
  <2> QED  BY <2>1, <2>2, <2>3, <2>4 DEF StartsSound
<1> QED  BY <1>1, <1>2, <1>3, PTL DEF StartSpec
=============================================================================
