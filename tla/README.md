# Verification of the dingchang backend

The backend (FastAPI, SQLAlchemy on MySQL, Redis; two gunicorn workers, `Dockerfile:50`)
quotes car insurance from chat messages: it logs in to insurers' platforms on behalf of an
account, keeps those sessions alive, submits quotes and records the results, reads vehicle
and identity papers by OCR, and keeps orders with their papers and their money. Its hard
behaviour is in what several requests and workers do to the same rows and Redis keys
between two `await`s, each on a snapshot of its own. These modules model that part.

Contents: [the system](#the-system), [modules](#modules-and-the-code),
[runs](#runs), [bounds and abstractions](#bounds-and-abstractions), [fairness](#fairness),
[proofs](#proofs), [findings](#findings), [not modelled](#not-modelled), [plan](#plan).

## The system

| component | state it keeps | operations | what is hard | correct when |
|---|---|---|---|---|
| platform session manager (`services/quote_platforms/session_manager.py`) | account row and state row in MySQL, a Redis mirror, leases in Redis, one asyncio lock per account and process, versions | login, challenge (verification code), quote, queries, keepalive, clear | three copies written at different moments; transactions that roll back after the mirror was written; repeatable-read snapshots older than another worker's commit; leases lost by failed renewals | one session at a time, versions grow by one, an accepted login is never lost to an older one or left unusable, one lease owner, every operation ends |
| login tasks, credentials, keepalive pass (`quote_assistant_service.py` 5830-6990, 7100-7500) | rows `QuotePlatformAccountLoginTask`, status in the account row | start, submit code, reset, keepalive | row locks taken before the process lock; two requests that find no open task | ended tasks stay ended; a code always has a task; a usable session is shown as such |
| amounts of a result (`picc/business.py` 8245-8690, `quote_result_validation.py`, `quote_assistant_service.py` 13004-13710) | amounts, card, price items and total of a quote task's result | build, validate, redraw with another joint sale | each redraw starts from a redrawn result and moves totals kept in four places | what is shown is what the platform charges and offers |
| quote task and case lifecycle (`quote_assistant_service.py`) | rows `QuoteCase`, `QuoteTask` | quote, adjust, requote, status, expiry, account switching | a cancellation during the platform call; re-checks through an old snapshot; a commit in the middle of the handler | a cancelled or outdated quote is never a success; the case names a live task |
| quote tasks left waiting (`quote_assistant_service.py` 10730-11380, 13850-14440, 15868-16434, 17650-18640) | old rows that wait for a login's code or for the confirmation of a duplicate | find who waits, expire, cancel, supersede, resume, take the code | case and task each have a status and must change it together, over a dozen handlers; material and parameters change during the wait | one attempt at a time; case and task wait together; a success is for the material of now |
| quote material (`quote_assistant_service.py`) | rows `QuoteCaseImage`, `normalized_data` and manual overrides of the case | upload, typed values, adjustments, recall, replacement of a slot | a recall takes none of the locks the messages take, `FOR UPDATE` does not refresh a loaded case; what is derived from an image is kept beside it | what was read from a recalled image is gone, what was derived from it only stays where the code leaves it; what a person set stays |
| platform account quota (`quote_assistant_service.py` 4080-4420, 7030-7110) | row `QuotePlatformAccountQuota`, `quota_status` | select, reserve, release, reset of the period | a row lock held across the platform call; unlocked readers that write | uses equal successful quotes; never above the limit |
| a login at PICC (`picc/login.py`, `picc/base.py`) | web session, cookies, token, context of a login that waits | slide, code, token, validation, restart | a slide lapses between the question and the code; tokens arrive in any order | what is kept was logged in; a right code counts; tokens never go back |
| PICC adapter (`platforms/picc/`) | the form of one quote | probe, prepare, submit, correct, adjust in at most six rounds | objections that come one at a time, in the platform's order, old policies' among them | dates only move forward; what is shown answers the form that was sent |
| renewal of a policy (`quote_assistant_service.py` 11700-12290, 14600-14760, `picc/business.py` 1180-1700) | the policy found for a case, the choices that win over it | look up, score, keep, use again, look before a normal quote | the chat lock is given up during the lookup, messages change the car meanwhile | the policy is this car's; what the user asked for is what is quoted |
| choice of the vehicle (`picc/business.py` 2300-4400, 6380-6930, 7290-7650) | the catalogue's rows found, the form | search with terms from papers, frame number and earlier quotes; pick, confirm, fill, correct | vague terms return other cars; the platform may name another code after the form is filled | the form names the car of the papers, and agrees with itself |
| notices of the platform (`quote_assistant_service.py` 12290-12700, `picc/business.py` 5550-5900) | notices of an attempt, flags "published", messages | say, publish from the adapter's thread, carry in the result, append, answer | two transactions and a timeout for one message; an unlocked look before each insert | each notice is in the chat, once |
| chat messages and session locks (`ai_assistant_service.py`, `chat_session_lock.py`, `api/v1/ai_assistant.py`) | messages of a conversation, two asyncio locks per conversation and process | send, retry, answer, notices of a quote | the lock is given up around platform calls and taken again; retries over two workers | a message is answered once; a retry gets its own answer |
| result image (`ai_assistant_service.py` 1660-1900) | metadata of a message, set of scheduled jobs per worker, claim in Redis | schedule, render, give up, recall | the job outlives the request or dies with the worker; metadata written as a whole | an image comes once and stays |
| OCR pipeline (`ocr_worker.py`, `main.py`, `api/v1/orders.py`) | rows `OcrTask` with a unique active scope, order data | enqueue, queue a follow-up, claim, recognise, requeue, recover stale | two workers on one task; results for replaced images; data merged from an old read | one run per task; the newest images get read; edits kept |
| orders: papers, amounts, status; finance (`api/v1/orders.py`, `api/v1/finance.py`, `order_fact_service.py`) | `order_image`, `image_file`, `order`, `order_info`, `order_fact` | create, edit, bind, finalize, finish, pay, rebate, return | nothing is locked between reading and writing | slots show what the last upload sent; totals add up; what is paid is finished |
| startup locks (`main.py`) | Redis keys with TTL | take, renew, give back | locks that nothing renews | one poller unless one outlived its TTL |
| start of the workers (`main.py` lifespan, `core/db.py`, `order_fact_service.py`) | schema, two Redis keys, facts of older orders | complete the schema, sow, fill in facts, serve | workers start at once and do not wait for each other; a failed start halts them all | who serves has the whole schema; facts are those of the data |
| field configuration (`field_config_service.py`, `api/v1/field_config.py`) | rows of fields and groups, a cache of forms per worker | sow, edit, read, invalidate | a fill that races an invalidation; an edit clears one worker's cache only | a form is that of one commit and not staler than promised; roles given are kept |
| users and access (`users_service.py`, `core/access_control.py`, the ACL helpers of orders, finance, customers) | rows `User` with role, teams, creator; what they reach | create, change, delete; list, open, offer | each rule is written two or three times: list, button, endpoint; the user is read before the handler's snapshot | lists show what opens; teams fit roles; ranks go up |
| user sessions (`auth_service.py`, `api/deps.py`, `models/session.py`) | session rows | log in, call, log out, lapse | a login counts on a snapshot, a call writes what it read before | no more sessions than the limit; who works stays logged in |
| browser runtime, Taipingyang adapter, customers, channels, storage, OCR cleaning, result drawing, scripts | CRUD rows, files | CRUD, projections, pure functions | little concurrency of their own | see [not modelled](#not-modelled) |

Who calls whom: a chat request (`ai_chat`) takes a conversation lock, opens a transaction
and calls `handle_quote_message`; that changes the material, inserts a quote task, reserves
quota and calls `quote_platform_runtime.quote(db=db)`, which is the session manager **in the
same transaction**; the session manager takes the process lock and the Redis lease of the
account, loads the session, calls the adapter, whose rounds may take minutes, and saves rows
and mirror. The answer becomes a message, whose image is rendered by a job of the worker.
The keepalive loop and the login endpoints call the same session manager from other
transactions. Orders queue OCR tasks that a background task of the request or the poller of
any worker runs; what is recognised is merged into the order and projected to `order_fact`.
`PROJECT.json` lists every component and, under `hazards`, each place where this bites with
the property that watches it.

## Modules and the code

Each module's head comment says what it reduces; `PROJECT.json`, `map`, gives the lines of
every definition. Throughout, a request's snapshot is a variable of the request, set by its
first read, and a commit writes what the ORM would send: the columns that differ from it.

**`AccountSession`** — one platform account and all operations on its session. A task is a
request handler or a keepalive pass with its transaction; it runs the stretches of
`AccountSessionActor.login`, `submit_challenge` and `_execute_business_like` between two
awaits that others can observe:

| state | code |
|---|---|
| `db`, `dirty`, `rowOwner` | committed account and state row; the rows as flushed by the transaction that owns their locks; that transaction |
| `view` | what a transaction's snapshot and identity map say of the rows: the version test reads this, not `db` |
| `mirror`, `lease`, `redisUp` | Redis: the session copy, the two leases (`_lease_key`), availability |
| `localLock` | `AccountSessionActor._lock` of each process |
| `held` | what a `_RedisLeaseLock` object believes: `owned`, `lost` once a renewal failed |
| `cur`, `prev`, `next`, `then` | `running`, `previous` and the snapshot being saved, and what follows the save |
| `codeTask` | a committed login task awaits its code |

`Begin` … `EndTransaction` is the request; `LocalLock`, `AcquireLease`/`SkipLease`/
`LeaseRefused` the two `async with`; `Load` is `store.load` with the restoration of a
preserved session; `CheckVersion`, `FlushSession`, `SaveMirror` the three awaits of
`store.save`; `Answer` the adapter's answer with what each operation builds from it;
`Discard`, `ClearRows`, `ClearMirror` the other writers. `RenewRaises`, `RenewRefused`,
`LeaseExpires`, `Stall`, `Failover`, `RedisDown`, `RedisUp`, `Crash` are the environment.

**`SessionLifecycle`** — the abstract specification: one session, its statuses and versions,
and that an accepted login is given up only for a newer one. `AccountSession` implements it
with `session <- mirror` (`RefinesLifecycle`).

**`LoginTask`** — the login tasks of one account with its row: requests that start a login,
submit a code or change the credentials, and keepalive passes. The session manager appears
as its lock (`actor`) and what its operations make of the session.

**`AccountQuota`** — one account's quota row and `quota_status` over days: `Select` (which
ends a finished period in memory), `Publish` (the flush of the task), `Reserve`
(`FOR UPDATE`), `Answer`, `Succeed`, `Release`, `Abort`, `Midnight`.

**`QuoteTask`** — the quote attempts of one conversation. A request goes through `Arrive`
(which lock), `EnterSession`, `LockCase`, `Sweep` (expire stale tasks, cancel running ones,
change the material, commit), `Select` (an account with quota, material still the same),
`InsertTask` (commit), `Reserve`, `PlatformAnswers`, `ReenterSession`, `Check`, `LockTask`,
`Recheck`, `TakeTaskRow`/`TakeCaseRow`/`Write`, `Finish`. `view` is the transaction's read
view: opened by the first plain read after a commit, at REPEATABLE READ; `Visible` is what
plain reads return. `Isolation` is a constant because the code sets none and the server
decides (`core/db.py:39`); MySQL's default is REPEATABLE READ.

**`WaitingTask`** — what each kind of message does to a quote task that an earlier version left
waiting; nothing creates one today, yet every handler of the conversation looks for it. A
state of the rows is a record and each helper of the code an operator on such records
(`Ended`, `Refreshed`, `Superseded`, `LapsedSwept`, `OrphansSwept`, `Continued`, …), so that
`Quoting`, `Changing`, `Redrawing`, `GivingUp`, `Coding`, `Uploading`, `Typing`, `Forming`,
`Asking` call them as the handlers do. `Message` is one of these; `PlatformAnswers` is what
follows the code (`AfterCode`) or the quote (`AfterQuote`); `TimePasses` crosses the ends of
the code's life and of a running task's; `ConfigChanges` changes the platform's parameters.

**`PiccLogin`** — the session of one account at PICC, with the web sessions, slides and tokens
the platform knows: a login (`BeginWeb`, `SolveToAsk`), a code (`CheckForm`, `SolveToSend`,
`Precheck`, `FormalLogin`, `Validate`, `KeepLogin`), which asks again, begins anew or fails as
`_submit_challenge_sync` sorts the platform's words, and keepalive, quota check, queries and
quotes with the token each answer brings. The second client of the quota check throws its
token away, as do an expired session and a gateway that does not answer: those web sessions
are in `dropped`, of which `KeptIsTrue` says nothing about the newest token. A login whose
first request fails is thrown away although the platform accepted it, and a restarted
challenge forgets the session put aside ([findings](#findings)).

**`QuoteMaterial`** — the images of a case, what was read from them, what was typed and what
was overridden. `Chat` is a whole message of any kind with its lock, `BeginRecall`/`Recall`
the recall, `Abort` a rollback. `Normalized` is the merge of kept data, images, text and
overrides, with what is derived: the owner's name from the identity card (`Named`) and the
sort of number plate (`LicenseType`, decided from what `Says` something of it and from what
was decided before). A value is named by its origin, so that a property can ask where a
value in the data comes from.

**`PiccQuote`** — the rounds of one quote: `Probe`, `Prepare`, `Submit`, `Resubmit` (with the
vehicle corrected), `AdjustAfterObjection`, `AdjustAfterQuote`, `Result`. What the platform
would accept (`wants`) is chosen at the start and known to the program through objections.

**`QuoteAmounts`** — the amounts of a conversation's quotes. `BeginQuote`/`FinishQuote` build
a result from what the platform charges (`bill`) and its response names (`Built`), `Real` is
`quote_result_real_data_error`, `BeginRedraw`/`FinishRedraw` the message "非车 N" that puts
another premium for the joint sale on the latest result without a new quote (`Redrawn`).

**`Renewal`** — the policy of a case. `Message` is a command or a changed choice up to its
quote or its lookup, `Upload` pictures without a command; both cancel a lookup that runs.
`NotFound`, `FoundPolicy` end it, or `SeesCancelled` where the snapshot shows the
cancellation. `Score`, `Reusable`, `Decision`, `Amount` are the pure rules: which policy
wins, whether a kept one still fits, which licence type and sum are quoted.

**`VehicleChoice`** — the row of the platform's catalogue a quote is for. `Terms` are what is
searched for, in order; `Ask`/`Nothing` the search with the rows that may be used
(`Usables`), `Pick` the rules that pick one (`Compatible`, `Ambiguous`, `Score`), `Confirm` the
precise query and the form it fills (`Filled`, `Licence`), `Send` the answer, which may name
another code: then the search starts anew for it, or the confirmed vehicle is taken over
(`Accepted`). A row knows its family, what a search for one sales name returns, so that a
property can ask whether the car of the form is the car of the papers.

**`Notices`** — what the platform says during a quote. The adapter's thread (`Say…`)
publishes through a coroutine with its own transaction (`Look`, `AppendNotice`) and waits
three seconds; what it could not publish is carried by the result and appended by the
quote's transaction (`LookKept`, `AppendKept`) before the failure is answered (`Respond`),
or another attempt follows. The isolation level is chosen at the start.

**`ChatMessages`** — `send_message` with its retries: `Send`, `ServeAgain` (a retry answered
from what is there), `Handle`, `AppendUser`, `StartQuote`, `Notice`, `QuoteReturns`,
`Answer`, `Fail`; the lock on the session's row orders what is appended.

**`ResultImage`** — the job that completes a result's image in each worker, its claim in
Redis, its cleanup, and a recall that marks the same metadata; with crashes, outages and
claims that lapse.

**`OrderOcr`** — creation, editing and binding requests of orders as far as recognition and
projection go, the OCR tasks, the runs and the pollers, instantiating **`StartupLock`** (the
key that lets one worker poll). **`OrderImages`** — the rows of finalize and images/bind,
with the gap locks of their deletes. **`OrderMoney`** — amounts, total, finished, paid and
rebated under the order desk and the finance desk.

**`FieldConfig`** — the tables of the form's fields as a history of commits (`past`), and each
worker's cache of forms: `ReadForm` reads a snapshot, `PutForm` caches it later; an edit goes
through `BeginSave` (reads the row), `Save` (sends the changed columns, commits), `Answer`
(reads it again, clears this worker's cache) or `RefreshFails`. `Sow` is the seed, group after
group. A cached form names the commit it was read from, so that a property can ask how old it
is. **`Startup`** extends it with the start of each worker: `Look`/`Extend` for table, column
and index, each under its own switch (`setup.adds`), and the strict one (`setup.refuses`);
`TakeSeed` … `Seed` under one Redis key; `TakeFacts` … `FactsDone` under the other, at most
`MaxBatches` batches of facts, if they are filled in at all (`setup.fills`); and `Serve`, in
which a worker does what `FieldConfig` lets it; a failed start halts all (`Halt`), a worker
may die at any time.

**`Users`** — users with role, teams and creator, the orders and groups they may reach.
`Enter` is the authentication, `Read` the handler's snapshot; then one action per writing
endpoint. `MayAssign`, `Manages`, `Lists`, `ListsOrder`, `OpensOrder`, `ListsTask`,
`ListsFinance`, `OpensFinance`, … are the access rules, one operator for each place of the
code that states one.

**`UserSessions`** — the sessions of one user: `BeginLogin` (the snapshot), `Insert`,
`FinishLogin` (ends idle and surplus sessions, commits), `Read`/`Answer`/`Logout` a call with
a token, with what it read and what it writes apart.

**Instances.** `MCAccountSession`, `MCQuoteTask`, `MCOrderOcr` give one module its tasks and
workers. `MCLife`, `MCSessions`, `MCAccounts`, `MCOrders`, `MCConversation`, `MCQuotes` hold several
parts and choose one at the start (`part`, `deployment`); the parts not chosen stand still,
and the part's fairness is asked of the chosen one only (`Fairly`). So a run asks one
question of neighbouring components without the product of their states.
Each `<Module>Proofs` holds the theorems about its module. Definitions named
`<Definition>_<Change>`, or marked `Mutant:`, are what a plausible bug would make of a
definition; no action uses them.

## Runs

| run | question | result |
|---|---|---|
| `life` | where nothing fails, does the session in Redis lead a legal life and no login get lost or stuck: any operations in one process, or logins and codes in two? Does every operation of a second account end, whatever fault comes, although row lock and process lock are taken in both orders? | `NoLoginStranded`, `RefinesLifecycle`, `LoginNeverOverwritten`, `OpsFinishHere` (`OpsFinish`, only thanks to the lock wait timeout) hold, 0.6M states |
| `sessions` | one account in two processes with a fault: are the leases exclusive? Or: do users' teams and access rules agree; are a user's sessions limited, and kept while used; does every form follow the stored configuration, and does a worker serve on all the schema it may have, with as many facts as the limit allows, however the start is configured? | `PartsTypeOK`, `LeaseExclusive`, `TeamsConsistent`, `ListsMatch`, `SessionsKept` (`SessionsLimited`, `UsedStays`), `StartsSound` (`SchemaWhole`, `FactsFilled`, `FormsFollow`, `RolesKept`) hold, 2.9M states |
| `lost_update` | quote and login in two workers | `LoginNeverOverwritten` violated |
| `challenge_restart` | a code restarted by the platform | `PreservedLoginKept` violated |
| `crash_in_login` | a worker dies in a login | `StoredSessionRestored` violated |
| `accounts` | the quota under three quotes at once or over three days; or login tasks under two requests and a keepalive loop; or any three messages to a quote task left waiting; or three operations of the session at PICC | `PartsTypeOK`, `UsesTrue` (`SuccessesCounted`, `NoOverspend`, `NoPhantomUse`), `TasksSound` (`EndedStaysEnded`, `CodeHasTask`), `LoggedInIsShown`, `WaitingEndsWell` (`OneAttempt`, `WaitTogether`), `SessionSound` (`KeptIsTrue`, `CodesCount`, `TokensForward`) hold, 0.9M states |
| `quota_midnight` | overlapping quotes on the first day of a period | `SuccessesCounted` violated |
| `conversation` | quote tasks in one worker (where chat lock and row locks can block each other), slow quotes, a crash, two accounts with one use each, default isolation; or the image of a result in two workers; or the notices of a quote | `PartsTypeOK`, `UsedMatchesSuccesses`, `CurrentNotCancelled`, `RequestsEnd`, `ImageKept`, `ImageSettles`, `ToldExactlyOnce` (`NoticesTold`, `ToldOnce`) hold, 1.0M states |
| `quotes` | quote tasks over two workers at READ COMMITTED; or the messages under retries; or the material; or the rounds at PICC; or the amounts of results and their redraws; or the policy a quote renews; or the vehicle it is for | `PartsTypeOK`, `CancelledNeverSucceeds`, `SuccessIsCurrent`, `RetriesAnswered` (`AnsweredOnce`, `RetryGetsOwnAnswer`), `RecallForgets`, `AdjustmentsKept`, `QuotedAsAsked` (`NeverEarlier`, `ShownIsAsked`, `Met`), `AmountsTrue`, `RenewedAsAsked` (`PolicyFits`, `AskedIsQuoted`), `VehicleTrue` (`RightCar`, `OneVehicle`) hold, 2.6M states |
| `quote_cancel_overwritten` | a quote cancelled during its platform call, default isolation | `CancelledNeverSucceeds` violated |
| `orders` | recognition with one fault; or overlapping uploads; or two desks at the money of an order | `PartsTypeOK`, `FactFollowsData`, `RunsAlone`, `NewImagesScanned`, `EveryTaskEnds`, `BindShows`, `MoneyFitsTogether` (`PaidMeansFinished`, `TotalsAddUp`) hold, 0.8M states |
| `ocr_typed_lost` | a value typed while the papers are read | `TypedKept` violated |

All runs say `CHECK_DEADLOCK FALSE`: requests are bounded in number, so the system stops
when they have ended. That nobody waits for ever before that is what `OpsFinish`,
`RequestsEnd` and `EveryTaskEnds` say.

Each property of a passing run is broken by a mutant of the code's own definitions
(`PROJECT.json`, `mutants`): a lease released without comparing its token, a reservation
kept by a failed attempt, a re-check that is dropped, a claim without its status test, a
delete that spares what it should replace, a retry that takes the last answer it finds.

Some properties excuse an overlap the code does not exclude, and say so in a history
variable (`excused`, `dated`, `mixed`, `loose`, `beside`, `unclaimed`, `late`, `outrun`): they then state exactly
under which interleavings the guarantee ends. What happens inside the excuse is known:

- `TotalsAddUp`: two edits that overlap leave a total of neither.
- `PaidMeansFinished`: a manager who reopens an order through `orders/status` leaves it
  paid; a return decided on an old snapshot leaves an unfinished order paid.
- `BindShows`: the look for an existing row reads the snapshot after the delete has read
  what is committed; an upload that takes a paper for still there leaves a single slot empty.
- `AdjustmentsKept`, `RecallForgets`: a recall that overlaps a message may undo it; an
  image moved to another slot keeps its old slot's values in the data when recalled.
- `RecallForgets` is about what was read. A recall takes the fields of the image's slot out of
  the data, not what was derived from them (`StillDerived`): the owner's name taken from an
  identity card stays after the card has been recalled, until another paper or the user names
  an owner; and the sort of number plate stays (`license_type`,
  its colour code and the decision in the case), "new energy" for good, since the next
  decision reads the field first (lines 1696-1700), and "fuel" until something speaks for
  new energy. No comment or document says that a recall takes these back, so this is noted
  here and not among the findings.
- `ImageKept`: a recall that read the message before the image came writes it away; a job
  may likewise write away the mark of a recall.
- `QuotedAsAsked`: a form rebuilt for another vehicle loses the hours adjusted before.
- `AmountsTrue`: where the platform gives its own total and the premium of the joint sale
  comes from the lookup of a plan, the total with tax leaves that premium out (`gap`); taking
  the joint sale off later then shows a total below the platform's.
- A redraw: a quote that came without a joint sale refuses every later one. The premium of a
  refused redraw stays in the case, so the next quote asks for it.
- `RenewedAsAsked`: a lookup whose cancellation its snapshot hides writes the
  case back as it knew it: old choices return, and the former car's policy is quoted with
  the new pictures. A licence type confirmed by a lookup outlives the replacement of the car
  (`quote_assistant_service.py:1687`); a plain "报价" repeated after a renewal was found goes
  out as a normal quote; a policy is taken although plate or engine contradict it when
  another mark agrees.
- `VehicleTrue`: the code cannot tell other cars from a term that names only kind of body or
  energy, from a brand the papers do not name as one, or from the words of an earlier quote
  with the same plate whose frame number cannot be compared (`Blind`). Brand and kind of
  energy together are searched and their rows used without the frame number, although the
  brand alone is not; the first form may mix fields of the row picked and the row confirmed.
- `WaitingEndsWell`: a task that takes its code keeps its `started_at`, so a wait of up to
  600 seconds leaves the platform as little as 300 of the 900 after which another message
  declares the task failed (`late`); its answer is then recorded over that. When the
  platform asks for a second code, that one lapses with the first. "取消" does not give up a
  wait for a code, the request for it is repeated. The branch of `handle_quote_message` that
  answers an expired code (line 17805) is dead: the sweep at its start has ended the task.
- `CodeHasTask`: the answer to a code sets the task to "needs_code" and the account with it. If
  a reset ended the task meanwhile, the task's status equals what the request read and is not
  sent, while the account's is sent when the account showed another status: it then asks for a
  code nobody can submit until a login starts anew (`outrun`). The same if the account's own
  status equals what the request read while another has changed it. A start is none of these
  requests: it has flushed "logging_in", so whatever status follows is sent (`Start`). That takes
  three requests and a pass, or four requests, more than the run has; the theorem covers it.
- `NewImagesScanned`: a bind whose snapshot shows other tasks of its order than there are by
  now (`dated`) may find none to follow and queue nothing. If the run that is under way has
  compared the images before, or fails, the newer images are not read until somebody binds
  again.
- `NoticesTold`: a fourth unpublished notice is lost, and so is one of an attempt that broke
  off by anything but a business error. A long text counts as told when it is part of one
  that was told, or contains one, and may then stand for another in turn: of the long texts
  B, "A B" and A, said in this order, the chat keeps B only. So the property speaks of all
  notices that hang together in this way (`Family`): one of them is told.
- `ToldOnce`: at the default isolation the answer to a failure, or the warning of a
  duplicate, repeats a notice published during the call, because the look for it reads the
  snapshot from before the call; and whatever a late or failed publication repeats, at either
  level, is excused.
- `RetryGetsOwnAnswer`, `AnsweredOnce`: a retry that comes after a notice of a lost quote is
  served the notice and the quote never run again; a retry during the platform call, or
  behind a newer message, is handled again; it may also find the answer to a message before
  it, which came late.

- `TeamsConsistent`: of two overlapping updates of a manager each sends the column it
  changes, which may leave a default team off the list (`crossed`).
- `SessionsLimited`: logins that overlap count without each other and may exceed the limit.
- `UsedStays`: a call that found a session idle ends it although another call used it since.
- `FormsFollow`: an edit clears the cache of the worker it ran in and no other, and leaves even
  that one if the row cannot be read again after the commit: for up to 300 seconds forms are
  older than the edit. A form read before an edit and cached after it (`late`) has no such
  bound: its 300 seconds start when it is cached.
- `RolesKept`: an edit on a row whose roles were changed meanwhile sends a column only where it
  differs from what it read, so a field may be left with one edit's viewers and the other's
  editors (`mixed`).
- `FactsFilled`: the backfill writes with ON DUPLICATE KEY UPDATE and may replace a fact that
  appeared since it looked by an older one (`overwritten`); the next edit of the order repairs
  it. Whoever misses the key serves without waiting for the facts (`skipped`). Nobody waits
  for all of them either: after `ORDER_FACT_BACKFILL_MAX_BATCHES` batches (20 of 1000 orders by
  default) the worker logs how many are missing and serves, and a search for what the facts hold does
  not find those orders until they are edited or a later start gets to them; with `ORDER_FACT_BACKFILL_ENABLED=0` none are
  filled in. The property says how many there are at least.
- `SchemaWhole`: by default no table, column or index may be added; what is missing is logged
  and the worker serves on what there is, or fails in the first query of the start that needs
  it. The property then says no more than that the schema stays as it was.

Seen on the way, and left as the code has it: a changed password ends no session; a manager
whose teams were reduced cannot even reset the password of staff outside them; an order may
name a deleted group of customers; the assistant's order queries apply the rule of teams to
sales staff too, where the order endpoints apply the rule of the own orders; a field that two
groups share, the frame number among them, ends with the label of the last group sown and
without the place in the default list that `build_seed_spec` gives it; a worker that does not
sow serves at once and may cache an empty form for 300 seconds; without Redis nobody sows;
with `AUTO_SEED_FIELDS=0` nothing is saved of what `seed_initial_data` adds, which commits
only on behalf of the fields; a seed that meets a field inserted meanwhile loses the groups it
holds and fails the start; of two workers that add the same table or index one fails to start,
and all start again.

The two isolation levels are the point of `QuoteTask`: at the default one the branches
"cancelled" and "material changed" after the platform call are dead, because the reads
behind them return the snapshot opened before it; at READ COMMITTED they work and the
properties they exist for hold.

## Bounds and abstractions

- Sessions: `MaxOps` (3 to 5 operations started), `MaxFaults` (1), two or three tasks on one
  or two workers. Every hazard listed needs at most two logins, an interfering operation and
  one fault. `life` has four operations without a fault and three with one. `Excluded` removes platform answers from an instance: `expired` and `restart`
  where the refinement is checked, because an expired session is allowed to be forgotten
  (not a step of `SessionLifecycle`) and `restart` is the finding of `challenge_restart`.
- `LoginTask`: two requests and one pass. `AccountQuota`: three quotes, limit 2 on one day,
  or limit 1 over three days one at a time; `quota_midnight` has both.
- `QuoteTask`: `MaxTasks` is at least requests times accounts, so it never blocks an
  insertion. Two requests meet on every lock pairwise.
- `PiccLogin`: three operations, five web sessions, four tokens; one operation at a time, since
  two that overlap are `AccountSession`'s.
- `WaitingTask`: the task left and two attempts after it, two cases, three messages; one
  worker, whose conversation lock makes a message one step but for the platform's calls;
  reads of what is committed. After a task was taken for dead only answers follow.
- `QuoteMaterial`: two places for messages of one worker, one for recalls, two images (a
  certificate of new energy; a licence or identity card of fuel, with both names), three
  slots, four fields that are read and the two derived from them, the kind of energy to type,
  `MaxChanges` 3: an upload, a replacement and a recall, or an upload, another and its recall. Left
  out: `transfer_vehicle`, which every merge decides anew from the licence's date of issue or takes away; the
  car's name and brand derived from the model, which leave with the fields of its slot; the
  sorts of number plate that a renewal's lookup (`Renewal`) or a chosen type of account decide.
- `PiccQuote`: two insurances, days 0 to `LastDay` (2) and the rounds the code has.
- `QuoteAmounts`: bills with and without commercial insurance and a joint sale of the
  platform's, four sets of amounts a response may name, premiums 0, 3 (there is a plan) and 5
  (there is none), three tasks: a quote, its redraw and a redraw of that.
- `Renewal`: two callers of one worker, three cars (one without its frame number), four
  policies (the right one, another car's with the same plate and engine, one with another
  engine, another type's), `MaxMessages` 3.
- `VehicleChoice`: four rows of the catalogue (two generations, two families, one electric),
  thirty-five kinds of papers, four earlier quotes, four settings, `MaxTries` 2.
- `Notices`: up to four notices in one attempt or one in each of two, one failed or late
  publication. The look at the last 40 messages is not bounded, and a rollback of the
  quote's transaction is left out.
- `ChatMessages`: three callers in two workers, a quote, an ordinary message and a follow-up
  the frontend sends by itself, `MaxSends` 3, `MaxNotices` 1. `ResultImage`: two workers,
  `MaxFaults` 2, `MaxRecalls` 1.
- `OrderOcr`: one order, one field, one fault. Its `slow` fault is left to its module: a run
  taken for dead works beside its successor by design, and nothing promises otherwise.
- `OrderImages`: two places for uploads, `MaxBinds` 3, two papers of a single slot, one of a
  slot with several. `OrderMoney`: two desks, amounts 0 and 1, `MaxWrites` 5.
- `Users`: three users, the first administrator among them, two teams, an order and a group, two requests,
  `MaxWrites` 4: a manager, a member of staff, an order, a change of one of them.
  `Startup`: two workers, two orders and one batch of one, so that the limit leaves a fact
  missing; `MaxStarts` 3, `MaxLapses` 1, `MaxChanges` 1, no readers. Four ways to deploy it: all
  switched on over an empty database; the default, with a column missing; strict mode, which
  refuses that column; and nothing but indexes, without seed and facts. A column that may not
  be added may make an index fail that names it, and any query (`StartFails`).
  `FieldConfig` by itself: `MaxCommits` 3, a clock to 1 with a TTL of 1, one request for a form
  at a time in each worker that reads (one of two): a fill, an edit and an expiry in any order.
  `UserSessions`: three logins, two sessions allowed, one call, a clock to 3 with a timeout
  of 1 and a heartbeat of 0.
- Places (`Chats`, `Callers`, `Uploads`, `Desks`) serve any number of requests one after the
  other, so a bound counts changes, not actors.
- Sessions carry the name of the login they stem from (`gen`, `kept`) instead of cookies.
  The account row and its state row share one lock; a flush touches both.
- Lock waits may fail at once when a row is locked: InnoDB's timeout is shorter than a
  keepalive pass or a platform call may hold a row, and a victim of a deadlock is refused at
  once.
- In `QuoteTask` the material is a version number, its fingerprint the number itself; what
  the material consists of is `QuoteMaterial`. Accounts are tried in any order instead of by
  rank. A slow quote (`MaySlow`) may be expired by others at any time while it runs.
- Left out of `QuoteTask`: the lookup of a policy before a normal quote, which is `Renewal`;
  `case.status` and `quote_count`.

## Fairness

- Weak fairness of each task's or request's own next step (`AccountSession`, `QuoteTask`):
  the event loop runs ready coroutines; asyncio locks wake waiters in order and their
  holders' critical sections end; keepalives and quota checks are bounded by
  `_await_runtime_result`, other calls by the timeouts of the PICC HTTP client
  (`platforms/picc/base.py:90-129`); a lease is waited for at most `wait_seconds`; InnoDB
  ends each lock wait by `innodb_lock_wait_timeout`. It suffices although locks may be taken
  by others meanwhile, because there are finitely many requests.
- `LoginTask`: strong fairness of a request's step, since the keepalive loop comes back for
  ever and both locks are handed over in order of arrival; weak fairness of the passes,
  which start every 30 seconds.
- `OrderOcr`: weak fairness of runs (calls to the recogniser time out), of the pollers and of
  the expiry of a dead worker's key.
- `ResultImage`: weak fairness of the job, of the key's expiry and of `Schedule`, that is, of
  the user who opens the conversation again: nothing else restarts a lost job, and
  `ImageSettles` is true on that condition only.
- New requests, faults, lapses and Redis coming back are not fair.

## Proofs

`AccountSessionProofs` (constants as in `SessionAssumption`, nothing about their size):

- `Typed`: `TypeOK`. One step per action, with lemmas on what the session builders, `load`,
  a flush and the end of a lease return.
- `LeaseMutualExclusion`: `LeaseExclusive`, assuming `NoTokenLost`, i.e. no `stall` and no
  `failover` among `FaultKinds`. With them the property is false: a stalled worker believes
  in its lease until the next renewal and no fencing token protects the rows. The property
  is not inductive: it speaks of beliefs only. `LeaseInv` adds that a believed lease is in
  Redis under its owner's token (`TokenInRedis`) and that nobody outside the locked section
  has one (`NoLeaseOutside`), so that `op`, and with it the lease class, cannot change under
  a held lease.

- Where nothing fails, `Undisturbed => …`: `SessionsLiveLegally`, that Redis' copy refines
  `SessionLifecycle`; `NoLoginLeftBehind`, that no login is stuck once nothing runs;
  `StoredSessionsStay`, `LoginsOnlyGrow` and `PreservedLoginsStay`, the three properties that
  `crash_in_login`, `lost_update` and `challenge_restart` refute elsewhere. `Undisturbed` is
  what these need: no fault and no removal of the account's session, no challenge begun
  anew, and either one process whose platform calls do not find the session expired, or any
  number of processes that only log in and take codes. Tasks, operations and their order are
  free, as is how a transaction ends. `LifeInv` adds to `LeaseInv` which lock is held where
  (`LocksOf`), so that one operation is between its lease and its exit (`OneInside`): by the
  process lock, or because logins and codes share a lease. That one works on the session in
  Redis and has a legal successor in hand (`TaskOK`), a session nobody works on is settled
  (`MirrorOK`), and every copy of the rows, committed, flushed or read, is that session or
  an older one (`CopiesOK`). Without the copies it is not inductive: `load` takes the newer of
  two versions and a stale row must lose.

`QuoteTaskProofs` (constants as in `QuoteAssumption`):

- `Typed`: `TypeOK`, at either isolation level, with lemmas on commits, insertions and sweeps.
- `CurrentStaysLive`: `CurrentNotCancelled`, at either level. Given the types it is inductive.
  Only three actions write the rows: a sweep clears the name when it cancels anything, an
  insertion names a running task, and a commit that changes the name also writes the outcome
  of the task it names (`CommittedNotCancelled`). This holds although a commit may overwrite a
  cancellation, and although each reads the name from an old snapshot.
- `UsesAreSuccesses`: `UsedMatchesSuccesses`, at either level. The property says nothing of a
  transaction under way; `UsedInv` adds what each reservation has in store: who holds an
  account's row lock, that what it will write is the committed count plus its own use, and
  that each success is the task of one request that has committed.
- `CancelledStays`: `CancelledNeverSucceeds`, assuming READ COMMITTED, without which it is
  false (finding 4). `LookInv` carries what the last look has shown to the write: the task is
  locked between them, so nobody cancels it.
- `SuccessesAreCurrent`: `SuccessIsCurrent`, assuming READ COMMITTED and `~MaySlow`. `FreshInv`
  ties the material a quote was sent with to that of the case while its task is running. A
  slow quote declared failed by a sweep no longer counts as running, so a later change of
  the material does not cancel it: three requests, more than the run has.
- `RenewalsAreAsAsked` (of the instance `Renews`; `Policed`: cars and policies have a licence type):
  types and `RenewedAsAsked`, for any cars, policies and lookups under way. `LookupKnows`: a
  lookup that was not cancelled still has the car of the case and what the user chose.
  `ScoreFits` is the arithmetic: what the marks of a policy are worth together never makes up
  for another frame number, or for another plate and engine, so a score that is not negative
  means a policy that fits; `ReusableFits`: so does the test by which a kept policy is used again.
- `VehicleStaysTrue` (of the instance `Choice`; `Registered`: papers name their own family, a frame
  number has one, rows differ in their codes): types and `VehicleTrue`. A term that is
  searched for names the car's family or is an earlier quote's that cannot be compared
  (`TermsSound`), so the rows accepted are the car's or the search was blind (`UsablesSound`);
  whatever becomes part of a form was picked from such rows and is compatible
  (`PicksCompatible`), and stays so through both corrections (`AcceptedSound`).
- `QuotesAreAsAsked` (of the instance `Asking`; `Sold`: there is a day to start on): types and
  `QuotedAsAsked`, for any number of days. The six rounds suffice because an objection that names a
  date settles it for good, so what is wrong (`Wrongs`) only shrinks, and one quote with other
  dates settles the whole form (`Settled`): four rounds at most. `ReplyFits`: what is adjusted or
  shown is an answer to the form last posted.

`AccountQuotaProofs`: `Typed`; `UsesAreTrue`: `Orderly => UsesTrue` (the run's instances are
`Orderly`: quotes that overlap within a day, or days and quotes one after the other), for any
limit and number of quotes. In `UsesInv` the row lock is held from a reservation to its commit
by one request at a time (`LockIsReservation`), so whoever holds it has read what the row has
and will write one use more (`Reservations`), although what another selected from may be old
(`Selections`); no count runs ahead of the successes granted and the one under way (`Claims`).
At the end `AmountsStayTrue` of the instance `Amounts` (`Priced`: amounts are numbers, nothing is no
offer): types and `AmountsTrue`, for any bill, amounts named and number of results. `TaskOK`: a
success is over, proved and true, and a redraw was made from an earlier success, so the task a
redraw takes over from (`Latest`) is known to be true whatever it was redrawn from before.
`BuiltTrue`: what is built from any response is true to the bill; `RedrawnTrue`: moving every
total by the difference of two joint sales keeps them what the car premiums, the tax and the
new joint sale add up to. Last, `MaterialStaysTrue` of the instance `Material` (`Filed`: messages,
recalls, images and the mark of nothing are different things): types, `RecallForgets` and
`AdjustmentsKept`, for any images, what they say, messages and recalls in flight. `ValuesOK`: a
value that names an image was read from it in the slot it is in, and the image is there or
replaced by one that says nothing of it (`ReadFrom`); or it is a name the identity card gave
and nothing has replaced (`NamedFrom`), or a sort of number plate that would be decided the
same way now (`DecidedFrom`). `SeenOrExcused`: a request either has seen what there is, or was
overlapped and what it may spoil is excused. `LocksHeld`: nobody commits under a lock that
another holds, so whoever writes over a newer adjustment was overtaken under another lock. The
attempt corrected both properties: two recalls that overlap lose an adjustment too, and a
message overlapped by another upload brings back an image's value after it was replaced, which
needs more changes than the run has; `Overtaken` and `Overlapping` say so now.

`OrderOcrProofs` (constants as in the module's three assumptions; any number of workers, orders,
fields, requests and faults):

- `Invariant`, `WellTyped`: `TypeOK`, which includes that an order has at most one active task and
  that there are no more tasks than requests: `CountsOK` counts the served requests.
- `FactIsTrue`: `FactFollowsData`. `ViewsCurrent`, `RunsCurrent`: what a request's snapshot or a run
  has read is the data of the order, unless a commit that overlapped has excused it.
- `RunsAreAlone`: `RunsAlone`, with `"slow"` not among the faults, without which it is false by
  design. `ClaimInv`: a task somebody works on is in processing and his only; the recovery
  touches only what nobody works on.
- `NewestAreScanned`: `NewImagesScanned`, with the same assumption. `Promised`: while wanted images
  are unread, their order has a task that is not over and whose run, if it has loaded images
  already, has loaded these (`Waits`); a run that ends has reported what it read.

- `MoneyAlwaysFits` (of the instance `Money`): types and `MoneyFitsTogether`, inductive as they
  stand, for amounts in `Nat`.
- `BindsAreShown` (of the instance `Shelf`): types and `BindShows`. `Deletions`: what a request has
  deleted and not yet committed is, in each slot it has scanned, what is shown there now and
  not kept. It is preserved because two requests hold one slot only when nothing is shown in
  it (`GapsShared`): a scan finds no row to lock there, and both may insert.

`UsersProofs`: `Typed`; `TeamsStayConsistent`: `TeamsConsistent`, where requests decide on users as
they were before others changed or deleted them. `Known`: a snapshot is out of date in teams at
most, since role and creator never change and ids are not given away again; `Created`: everyone
but the first administrator has a creator. `ListsAlwaysMatch`: `ListsMatch` is a matter of the rules
alone and holds in every state. `Setting` says that there is a team, that the marks of an
absent row are no rows, and that nobody is created as administrator. At the end `SessionsAreKept`
of the instance `Logged` (`Limits`: logins are numbered and finitely many, a session is allowed):
`SessionsKept`, for any limit, timeout and number of logins and calls. `Counted` is the heart: a
live session has at most one less than the limit among the live ones that were committed when
its login began. Where every two live ones saw each other, the one that saw most has all
others among these (`LimitHolds`). `Views`: in a login's snapshot its own session is the
newest and nothing is expired that is not by now. `FrontIsShort`: in an order, fewer than
`k + 1` have fewer than `k` before them; a greatest value comes from the well-foundedness of `<`.

`StartupProofs` (`Setting`: edits are typed, the mark of no row is neither a row nor a number):
`FormsAlwaysFollow`: `FormsFollow` and `RolesKept`, for any edits, workers and clock: an entry of the cache
that is not late was current when it was put, and since then its worker has answered no edit
without clearing it. `StartsStaySound` (`Deployed`: besides, finitely many numbered orders, batches of
at least one, and any `setup`): types and `StartsSound`. A worker has the pieces of the schema it has
been through, as far as they may be added, and lacks at most what it found missing; a
database that began with more than that keeps it. Who fills in the facts has as many as its
batches hold (`Filled`), since facts never disappear, and has read the data there are as long as
there is no fact.

`LoginTaskProofs` (`Setting`: finitely many requests, which are not passes): `Typed`;
`LoginTasksAreSound`: `TasksSound`. `Known` says what a request may believe of the tasks: those it
read and, for a start, one more at the end; a pass none but these and never a code of its
own. `CommitSound` is the heart: what any commit does to tasks and account, column by column.
At the end `PiccSessionsStayTrue` of the instance `Picc` (`Countable`: there is a web session and a
token): `SessionSound` and the types, for any number of operations, web sessions and tokens.
`PiccInv` says what holds at each place of an operation. While an account logs in, what is kept is
what was kept before; a login begun anew for a code was in trouble, or its code was wrong
and the slide had lapsed (`LoginOK`). Past the formal login the client has its web session's newest
token (`CodeOK`), and the client of an operation never less than what is kept (`BusinessOK`).
`AnsweredIs` is the lemma about tokens: whatever header and cookie come, in whatever order
they were issued, a client goes on with the newest of all it had and got.

`NoticesProofs` (`TextsFit`: texts contain themselves, what contains a long text is long, the
program's own text is none of the platform's; containment need not even be transitive):
`NoticesTyped`; `AllToldOnce`: `ToldExactlyOnce`, for any texts, notices and attempts.
`NoticesAccountedFor` is the invariant. `Accounted`: each notice is in the chat, ahead in what
the result carries, dropped, or related to an earlier one, so the first of a family cannot
be missing. `Quietly`, while nothing failed: one notice is published at a time, each one kept
back is part of one published before it, and a row the snapshot does not show is a notice of
this attempt that no earlier one kept back repeats (`NewRows`). Hence the quote's transaction,
which cannot see such a row, knows its text from the result it carries (`UnknownIsFresh`).
TLC checked the invariant with a text, two parts of it and a short word, with four notices in
one attempt or three in two, and two failures. At the end `ImagesStay` of the instance `Pictures`:
`ImageKept`, for any workers, recalls and failures. As long as no job went on without its
claim, one job at most is past it (`ClaimsHeld`), what it is about to write for has no image
(`ImageWanted`), and an image that a recall has read is still there (`RecallKnows`).
Last, `RetriesStayAnswered` of the instance `Talk` (`Marked`: no caller and no message is the mark of
none, sends are counted): types and `RetriesAnswered`, for any callers, messages and sends.
`RequestOK`: a request that handles a message has been refused every answer there was when it
began, unless another message came between, and only the one writer appends it; the row of a
message comes before whatever is said to it (`RowsFollow`), so the answer found after it and
before the next message of the user is not one to a later message.

Model-checked only: liveness, which speaks of fairness; what the refinement of
`SessionLifecycle` and the other properties of sessions promise in the cases of `Excluded` or a
fault that `Undisturbed` leaves out; and the properties of the modules without a theorem
(`WaitingTask`).
Theorems about the parts that a run instantiates (`OrderImages`, `OrderMoney`, `QuoteAmounts`,
`QuoteMaterial`, `PiccQuote`, `PiccLogin`, `Renewal`, `ResultImage`, `ChatMessages`, `VehicleChoice`, `Users`,
`UserSessions`, `FieldConfig`, `Startup`, `LoginTask`, `Notices`) are stated of the part's own
`Spec`; their assumptions on constants are hypotheses, since the instance gives the constants
their values. No theorem uses a property of `RECURSIVE` operators; there are none.

## Findings

1. `lost_update` — the version test of `save` reads the transaction's own snapshot, and
   login and quote take different leases: a quote may overwrite a login of another worker.
2. `challenge_restart` — the session put aside during a login is dropped when PICC restarts
   the challenge.
3. `crash_in_login` — a `logging_in` copy is published in Redis before the commit; after a
   crash its higher version hides the usable row.
4. `quote_cancel_overwritten` — after the platform call the task is re-read through the
   snapshot opened before it; SUCCESS is written over CANCELLED.
5. `quota_midnight` — the reset of a finished period is decided on rows read without a lock
   and written whatever is in the row by then: a use counted meanwhile is lost.
6. `ocr_typed_lost` — recognised values are merged into the order as it was before the
   recognition: a value typed meanwhile is replaced, although the merge is written not to.

## Not modelled

- Taipingyang is a stub; no enabled adapter needs a browser, so nothing drives
  `browser_runtime` today. `_start_sms_task`, `_mark_quote_account_challenge_attention` and
  `_ensure_default_config_ready_for_enabled_account` have no caller.
- Customers and channels are CRUD in one transaction each. What
  orders' handlers refuse by status and amount is left out too: finalize, for instance, accepts the amounts of a finished order that the
  order's own PUT refuses.
- OCR cleaning, classification and the drawing of results are functions over texts and
  pictures; storage, the HTTP side of PICC and the filling of its forms are input and output.
  Scripts and images are not part of the running system.
- The daily inspection over groups of accounts, the operator's
  configuration of quotas, the eviction of idle locks from the registry, the paging and
  deletion of conversations.

Most of the repository's lines are such text work: recognising what a message or a paper
says, and filling and reading the platform's forms. The modules cover its control, so the
share of lines they translate stays small however many properties are added.

## Plan

1. Proofs about the other modules, each from its type invariant:
   `StartupLock`, `WaitingTask.WaitingEndsWell` (each ending also takes the task's name from its case).
2. `AccountSession` with expired sessions and challenges begun anew: an abstract specification
   in which a session may be forgotten, refined outside `Undisturbed` too.
3. An abstract `QuoteAttempt` (inserted, answered, one outcome) that `QuoteTask` implements.
4. The inspection over groups of accounts.
