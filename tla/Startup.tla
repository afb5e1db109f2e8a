-------------------------------- MODULE Startup --------------------------------
(***************************************************************************)
(* The start of the workers (main.py lifespan): each compares the schema   *)
(* with the models and adds the pieces it may add (core/db.py), one of     *)
(* them sows the fields of the form under a Redis key, one fills in facts  *)
(* of older orders under another, a limited number, and then they serve,   *)
(* each without waiting for the others.  A worker whose start fails makes  *)
(* gunicorn halt, and all start again.                                     *)
(***************************************************************************)
EXTENDS FieldConfig

CONSTANTS
  Setups,       \* what is switched on, and what the database has: see `Setup`
  Orders,       \* the orders from before the facts, by number
  BatchSize, MaxBatches, \* ORDER_FACT_BACKFILL_BATCH_SIZE and ORDER_FACT_BACKFILL_MAX_BATCHES
  NoKey, Ghost, \* a key nobody holds, or a process that is gone
  MaxStarts,    \* bound on the starts
  MaxLapses,    \* bound: dead workers, keys and calls that fail
  MaxChanges    \* bound on the changes of an order

VARIABLES
  setup,       \* one of the Setups
  schema,      \* of the table, the column and the index that the models want, those there are
  boot, found, \* worker -> how far it has started, what it found missing or read
  online,      \* the workers with a Redis client
  keys,        \* what the two keys hold
  skipped,     \* history: the workers that left the facts to another
  batches,     \* worker -> the batches of facts it has filled in
  data, fact,  \* the orders, and their facts
  overwritten, \* history: the orders whose fact was filled in over another
  starts, lapses

bootVars == <<setup, schema, boot, found, online, keys, skipped, batches, data, fact, overwritten, starts, lapses>>
startVars == <<configVars, bootVars>>

Pieces == {"table", "column", "index"}

\* `adds`: AUTO_CREATE_TABLES, AUTO_ADD_COLUMNS and AUTO_ADD_INDEXES, all off by default;
\* `refuses`: AUTO_ADD_COLUMNS_STRICT, with a column that is NOT NULL without a default;
\* `sows`: AUTO_SEED_FIELDS; `fills`: ORDER_FACT_BACKFILL_ENABLED
Setup == [adds : SUBSET Pieces, had : SUBSET Pieces, refuses : BOOLEAN, sows : BOOLEAN, fills : BOOLEAN]
After == [table |-> "column", column |-> "index", index |-> "seed"]

MayLapse == lapses < MaxLapses /\ lapses' = lapses + 1

Step(w, phase) ==
  /\ boot' = [boot EXCEPT ![w] = phase]
  /\ found' = [found EXCEPT ![w] = None]

-----------------------------------------------------------------------------
Start(w) ==
  /\ boot[w] = "down" /\ starts < MaxStarts /\ \A v \in Workers : boot[v] # "failed"
  /\ starts' = starts + 1
  /\ \/ online' = online \cup {w} /\ UNCHANGED lapses
     \/ MayLapse /\ online' = online \ {w}
  /\ Step(w, "table")
  /\ UNCHANGED <<configVars, setup, schema, keys, skipped, batches, data, fact, overwritten>>

\* _diff_tables, _diff_missing_columns, _diff_missing_indexes; what may not be added is logged.
Look(w) ==
  /\ boot[w] \in Pieces /\ found[w] = None
  /\ found' = [found EXCEPT ![w] = setup.adds \ schema]
  /\ UNCHANGED <<configVars, setup, schema, boot, online, keys, skipped, batches, data, fact, overwritten, starts, lapses>>

\* Another worker has added the piece meanwhile; for a column that is ignored.
AddedMeanwhile(piece) == piece \in schema /\ piece # "column"

\* Strict mode refuses a column that would need a value in the rows there are.
Refuses(piece) == piece = "column" /\ setup.refuses

\* The index may be one of the missing column.
MayLackColumn(piece) == piece = "index" /\ "column" \notin schema

\* Mutant: strict mode leaves the column out and goes on.
NothingToAdd_LeftOut(w, piece) == piece \notin found[w] \/ Refuses(piece)

NothingToAdd(w, piece) == piece \notin found[w]

\* Each statement commits by itself.
Extend(w) ==
  LET piece == boot[w]
      denied == AddedMeanwhile(piece) \/ Refuses(piece) IN
  /\ piece \in Pieces /\ found[w] # None
  /\ \/ NothingToAdd(w, piece) /\ Step(w, After[piece]) /\ UNCHANGED schema
     \/ ~NothingToAdd(w, piece) /\ (denied \/ MayLackColumn(piece)) /\ Step(w, "failed") /\ UNCHANGED schema
     \/ ~NothingToAdd(w, piece) /\ ~denied /\ Step(w, After[piece]) /\ schema' = schema \cup {piece}
  /\ UNCHANGED <<configVars, setup, online, keys, skipped, batches, data, fact, overwritten, starts, lapses>>

-----------------------------------------------------------------------------
\* acquire_lock
Takes(w, k) ==
  /\ w \in online /\ keys[k] = NoKey
  /\ keys' = [keys EXCEPT ![k] = w]
  /\ UNCHANGED lapses

\* ... returns None for a busy key, without Redis, and when the call fails.
Misses(w, k) ==
  /\ UNCHANGED keys
  /\ IF w \in online /\ keys[k] = NoKey THEN MayLapse ELSE UNCHANGED lapses

\* release_lock compares the token; a call that fails leaves the key to its TTL.
Returns(w, k) ==
  \/ keys' = [keys EXCEPT ![k] = IF @ = w THEN NoKey ELSE @] /\ UNCHANGED lapses
  \/ keys[k] = w /\ MayLapse /\ keys' = [keys EXCEPT ![k] = Ghost]

KeyExpires(k) ==
  /\ keys[k] # NoKey
  /\ IF keys[k] = Ghost THEN UNCHANGED lapses ELSE MayLapse
  /\ keys' = [keys EXCEPT ![k] = NoKey]
  /\ UNCHANGED <<configVars, setup, schema, boot, found, online, skipped, batches, data, fact, overwritten, starts>>

\* Without the key of the seed nothing is sown, also if there is no Redis.
TakeSeed(w) ==
  /\ boot[w] = "seed"
  /\ \/ setup.sows /\ Takes(w, "seed") /\ Step(w, "seeding")
     \/ setup.sows /\ Misses(w, "seed") /\ Step(w, "facts")
     \/ ~setup.sows /\ Step(w, "facts") /\ UNCHANGED <<keys, lapses>>
  /\ UNCHANGED <<configVars, setup, schema, online, skipped, batches, data, fact, overwritten, starts>>

ReadSeed(w) ==
  /\ boot[w] = "seeding" /\ found[w] = None /\ Len(past) < MaxCommits
  /\ found' = [found EXCEPT ![w] = Len(past)]
  /\ UNCHANGED <<configVars, setup, schema, boot, online, keys, skipped, batches, data, fact, overwritten, starts, lapses>>

Seeds(w) == boot[w] = "seeding" /\ found[w] # None
GroupsAppeared(read) == Now.grouped /\ ~read.grouped

\* _get_or_create_group: the first group, inserted meanwhile, makes it roll back and look again.
SeedAgain(w) ==
  /\ Seeds(w) /\ GroupsAppeared(past[found[w]])
  /\ found' = [found EXCEPT ![w] = Len(past)]
  /\ UNCHANGED <<configVars, setup, schema, boot, online, keys, skipped, batches, data, fact, overwritten, starts, lapses>>

\* _get_or_create_field: a field that was inserted meanwhile makes it roll back too, and then
\* the groups it holds are lost.
SeedFails(w) ==
  /\ Seeds(w) /\ ~GroupsAppeared(past[found[w]]) /\ Collides(Now, past[found[w]])
  /\ Step(w, "failed") /\ Returns(w, "seed")
  /\ UNCHANGED <<configVars, setup, schema, online, skipped, batches, data, fact, overwritten, starts>>

Seed(w) ==
  /\ Seeds(w) /\ Sow(past[found[w]])
  /\ Step(w, "facts") /\ Returns(w, "seed")
  /\ UNCHANGED <<setup, schema, online, skipped, batches, data, fact, overwritten, starts>>

-----------------------------------------------------------------------------
Missing == {o \in Orders : fact[o] = None}

\* The facts are filled in without the key if there is no Redis.
TakeFacts(w) ==
  /\ boot[w] = "facts"
  /\ batches' = [batches EXCEPT ![w] = 0]
  /\ \/ setup.fills /\ Takes(w, "facts") /\ Step(w, "filling") /\ skipped' = skipped \ {w}
     \/ /\ setup.fills /\ w \notin online /\ Step(w, "filling") /\ skipped' = skipped \ {w}
        /\ UNCHANGED <<keys, lapses>>
     \/ setup.fills /\ w \in online /\ Misses(w, "facts") /\ Step(w, "serving") /\ skipped' = skipped \cup {w}
     \/ ~setup.fills /\ Step(w, "serving") /\ UNCHANGED <<keys, lapses, skipped>>
  /\ UNCHANGED <<configVars, setup, schema, online, data, fact, overwritten, starts>>

\* Mutant: one batch too few.
LimitReached_Early(n) == n + 1 >= MaxBatches

\* _run_order_fact_backfill_once stops here, and logs how many facts remain missing.
LimitReached(n) == n >= MaxBatches

Smaller(m, n) == IF m < n THEN m ELSE n

\* backfill_missing_order_facts: the first orders without a fact, with their data ...
LookForOrders(w) ==
  /\ boot[w] = "filling" /\ found[w] = None /\ Missing # {} /\ ~LimitReached(batches[w])
  /\ \E batch \in SUBSET Missing :
       /\ Cardinality(batch) = Smaller(BatchSize, Cardinality(Missing))
       /\ \A o \in batch, later \in Missing \ batch : o < later
       /\ found' = [found EXCEPT ![w] = [o \in batch |-> data[o]]]
  /\ UNCHANGED <<configVars, setup, schema, boot, online, keys, skipped, batches, data, fact, overwritten, starts, lapses>>

\* ... and their facts, which replace those that have appeared.
FillIn(w) ==
  /\ boot[w] = "filling" /\ found[w] # None
  /\ fact' = [o \in Orders |-> IF o \in DOMAIN found[w] THEN found[w][o] ELSE fact[o]]
  /\ overwritten' = (overwritten \ DOMAIN found[w]) \cup (DOMAIN found[w] \ Missing)
  /\ found' = [found EXCEPT ![w] = None]
  /\ batches' = [batches EXCEPT ![w] = @ + 1]
  /\ UNCHANGED <<configVars, setup, schema, boot, online, keys, skipped, data, starts, lapses>>

\* _run_order_fact_backfill_once
FactsDone(w) ==
  /\ boot[w] = "filling" /\ found[w] = None /\ (Missing = {} \/ LimitReached(batches[w]))
  /\ Step(w, "serving") /\ Returns(w, "facts")
  /\ UNCHANGED <<configVars, setup, schema, online, skipped, batches, data, fact, overwritten, starts>>

\* A query of the start fails, perhaps for a table or a column that is missing: the keys are
\* given back on the way out.
StartFails(w) ==
  /\ boot[w] \notin {"down", "failed", "serving"}
  /\ IF {"table", "column"} \subseteq schema THEN MayLapse ELSE UNCHANGED lapses
  /\ Step(w, "failed")
  /\ keys' = [k \in DOMAIN keys |-> IF keys[k] = w THEN NoKey ELSE keys[k]]
  /\ UNCHANGED <<configVars, setup, schema, online, skipped, batches, data, fact, overwritten, starts>>

-----------------------------------------------------------------------------
Ended(workers) ==
  /\ Forgotten(workers)
  /\ boot' = [w \in Workers |-> IF w \in workers THEN "down" ELSE boot[w]]
  /\ found' = [w \in Workers |-> IF w \in workers THEN None ELSE found[w]]
  /\ answered' = [w \in Workers |-> IF w \in workers THEN 1 ELSE answered[w]]
  /\ keys' = [k \in DOMAIN keys |-> IF keys[k] \in workers THEN Ghost ELSE keys[k]]
  /\ UNCHANGED <<past, given, mixed, clock, setup, schema, online, skipped, batches, data, fact, overwritten, starts>>

\* gunicorn halts when a worker fails to boot.
Halt == (\E w \in Workers : boot[w] = "failed") /\ Ended(Workers) /\ UNCHANGED lapses

Die(w) == boot[w] \notin {"down", "failed"} /\ MayLapse /\ Ended({w})

\* An order changes with its fact.
ChangeOrder(w) ==
  /\ boot[w] = "serving"
  /\ \E o \in Orders :
       /\ data[o] < MaxChanges
       /\ data' = [data EXCEPT ![o] = @ + 1] /\ fact' = [fact EXCEPT ![o] = data[o] + 1]
       /\ overwritten' = overwritten \ {o}
  /\ UNCHANGED <<configVars, setup, schema, boot, found, online, keys, skipped, batches, starts, lapses>>

Serve(w) == boot[w] = "serving" /\ Request(w) /\ UNCHANGED bootVars

StartInit ==
  /\ ConfigInit
  /\ setup \in Setups /\ schema = setup.had
  /\ boot = [w \in Workers |-> "down"] /\ found = [w \in Workers |-> None]
  /\ online = {} /\ keys = [k \in {"seed", "facts"} |-> NoKey]
  /\ skipped = {} /\ batches = [w \in Workers |-> 0]
  /\ data = [o \in Orders |-> 0] /\ fact = [o \in Orders |-> None] /\ overwritten = {}
  /\ starts = 0 /\ lapses = 0

StartNext ==
  \/ \E w \in Workers :
       \/ Start(w) \/ Look(w) \/ Extend(w)
       \/ TakeSeed(w) \/ ReadSeed(w) \/ SeedAgain(w) \/ SeedFails(w) \/ Seed(w)
       \/ TakeFacts(w) \/ LookForOrders(w) \/ FillIn(w) \/ FactsDone(w)
       \/ StartFails(w) \/ Die(w) \/ ChangeOrder(w) \/ Serve(w)
  \/ \E k \in {"seed", "facts"} : KeyExpires(k)
  \/ Halt
  \/ Tick /\ UNCHANGED bootVars

StartSpec == StartInit /\ [][StartNext]_startVars

-----------------------------------------------------------------------------
StartTypeOK ==
  /\ setup \in Setup /\ schema \subseteq Pieces /\ online \subseteq Workers /\ skipped \subseteq Workers
  /\ boot \in [Workers -> Pieces \cup {"down", "seed", "seeding", "facts", "filling", "serving", "failed"}]
  /\ \A k \in DOMAIN keys : keys[k] \in Workers \cup {NoKey, Ghost}
  /\ batches \in [Workers -> 0 .. MaxBatches] /\ overwritten \subseteq Orders
  /\ \A o \in Orders : fact[o] \in 0 .. MaxChanges \cup {None}

\* What a worker serves on is what there was and all that may be added; nothing else is ever
\* added.  By default nothing may be, and a worker serves on what there is.
SchemaWhole ==
  /\ schema \subseteq setup.had \cup setup.adds
  /\ \A w \in Workers : boot[w] = "serving" => setup.had \cup setup.adds \subseteq schema

\* A worker that serves where facts are to be filled in leaves none missing, or as many are
\* there as its batches hold, or it left them to one that held the key or could not be
\* asked about.  A fact is that of the order's data, unless it replaced another.
FactsFilled ==
  /\ \A w \in Workers \ skipped : boot[w] = "serving" /\ setup.fills =>
       Missing = {} \/ Cardinality(Orders \ Missing) >= MaxBatches * BatchSize
  /\ \A o \in Orders \ overwritten : fact[o] \in {None, data[o]}

(* However the starts of the workers, edits and readers interleave, what may be added to    *)
(* the schema is there, what is shown follows what is configured, roles are kept and facts  *)
(* are filled in as far as the limit goes: SchemaWhole, FactsFilled, FormsFollow, RolesKept.*)
StartsSound == SchemaWhole /\ FactsFilled /\ FormsFollow /\ RolesKept
===============================================================================
