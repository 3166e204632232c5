# TLA+ models of the short-stay operations backend

The program is a multi-tenant backend (FastAPI, Celery, Postgres, Redis) that
runs short-stay flats: it ingests reservations from property management systems,
moves each flat through its operational states by the clock, schedules cleanings,
follows incidents and the owner's approval of their cost, and does the
surrounding work (notifications, statements, pricing, reviews, messaging).
These modules model the part of it where several actors move one piece of state,
check it with TLC on small instances and prove the main results with TLAPS.

Paths below are relative to `backend/app/` in the source tree.

## 1. The system

### Components

| Component | State | Operations that change it | Interacts with | What makes it correct |
|---|---|---|---|---|
| Scheduler (`scheduler/`) | a Redis key per job with a token and a lease; nothing else | the beat jobs: take the lock, list active tenants, run one transaction per tenant, release | calls the use cases of every other component | at most one execution per lease; one tenant's failure costs the others nothing; a lock is always freed again |
| Property state machine (`properties/domain/`) | none: pure functions over a flat, its stays, tasks and incidents | `evaluate` for each of fifteen triggers, the contextual resolver | called by properties, cleaning, maintenance, ingest | the two hand-kept tables (policy and resolver) agree; a blocked flat waits for a person |
| Properties (`properties/application`) | `Property.current_operational_state`, the history of transitions | three clock jobs, the cancellation advance, a person's transition | reads reservations and settings; calls the cleaning provisioner | exactly one stay decides a move; the state is one the stays, tasks and incidents justify |
| Reservations (`reservations/`) | the stay: status, check-in and check-out, guests, amounts | create, update, cancel; two reminder jobs | guests, the outbox; none calls the state machine | a stay read in time is reminded, once |
| PMS ingest (`integrations/application/ingest.py`) | writes reservations and guests | upsert of a feed row under two advisory locks, with the cancellation trigger | properties, reservations, guests, timeline | a booking and a guest exist once; a cancellation is told once and frees only the flat that waits for that stay |
| Cleaning (`cleaning/`) | tasks: status, assignee, stay, verdict; photos and checklist; objects in a store | create, assign, accept, reject, start, complete, cancel, validate; tick, upload; provision at checkout | the state machine, in the same transaction; the object store, outside it | a stay has one live task; the flat's cleaning states are backed by tasks; no flat is declared free over a guest; what is completed has its evidence |
| Incidents (`maintenance/`) | incident: status, severity, technician, costs; owner approvals; photos | report, classify, triage, assign, accept, reject, en route, parts, resume, resolve, cancel; answer an approval | the state machine; the AI classifier | urgent incidents hold the flat; nothing is closed over the threshold without an answer for that cost |
| Webhook queue (`integrations/application/webhooks.py`) | `webhook_events`: processed, attempts, next_attempt_at | receive; claim, re-read, mark, charge | PMS sync, properties, scheduler | a claim belongs to one run; every notice is processed or exhausted; attempts are bounded |
| PMS sync and credentials | per-property provider and credential | sync, import, credential rotation | ingest | one provider's failure stays its own |
| Notifications (`notifications/`) | logs with status, attempts, deadline, breach | enqueue, dispatch, retry, escalate breached deadlines | channels (e-mail, WhatsApp) | tried a bounded number of times, sent only when confirmed, a breach escalated once |
| Statements and expenses | monthly statements, expenses, approvals | create, edit, delete, ask, answer, generate, reconcile | maintenance costs | a billed expense is not changed behind its statement |
| Pricing | rules, recommendations by day | run, approve, reject, apply | properties | a decided price stands; the others follow from the rule and their neighbour |
| Reviews | reviews and reply drafts | create, classify, draft, approve, edit, regenerate, ignore | AI | a new review is classified, taken up or parked |
| Access codes | access records, the projection on the stay | sweep, move on by operators | reservations, notifications | the record settles with the stay |
| Messaging | conversations and messages; the numbers of the tenants, the events of WhatsApp | inbound, reply, escalate, resolve; receive, record, queue, claim and file a message of WhatsApp | AI, notifications; the provider, the broker | an urgent message is with a person until it is resolved, and alerted once; a message is filed once, in its guest's conversation |
| Users (`auth/`) | users with role and status; sessions, tokens | create, change role and status; login, refresh, recovery | the tenant's row lock | an active owner remains |
| Guests (`guests/`) | guests with documents, the report's status on the stay; the links to the portal | check-in, save document, file, set the stay's guest; issue, send, revoke a link | reservations, the police's service, e-mail | the document is that of the stay's guest; a stay is filed once; the link issued last is the one that works |
| Demonstration (`cli/demo_reset.py`) | the rows and objects of the demonstration tenant | bootstrap, empty, restore, seed, sweep, while visitors use it | every table of the tenant, the object store | the published accounts are there after a reset; rows and objects agree |
| Tenants, platform, audit, timeline, dashboard, core, other commands, frontend, infra | their own rows, or none | sequential CRUD and read models | all | tenant isolation |

### Who runs concurrently

Three kinds of actor share the database: HTTP requests, Celery jobs started by
beat, and, inside a job, one session per tenant. Sessions are READ COMMITTED, and
an aggregate is typically read, decided on and saved by columns, without a version
and without `FOR UPDATE`. The exceptions are modelled as what they are: the
tenant's row for user administration, an expense under edit, `SKIP LOCKED` for
the classification of reviews, the advisory locks of an import, the conditional
claim of a stay by a check-in, of a message by a worker, the unique index over a stay's
live links. A refused request rolls its transaction back as a
whole; what was sent to a provider or put in a store is not rolled back.

### What is hard to test

`PROJECT.json` lists each hazard at its line. In groups:

* leases that lapse under a live run, releases that are lost, workers that die
  (scheduler, webhook queue, notifications);
* copies read before an `await` and saved whole after it (incidents, flats, tasks,
  conversations, access records, reviews, prices);
* locks taken after a first look without them, and rows locked in opposite order
  (imports, check-ins, expenses);
* long legal sequences: two stays that follow or overlap each other, tasks
  rejected and cancelled in the middle of a turnover, incidents of several
  severities around a checkout, approvals asked, answered and asked again;
* one step of several failing after part of the work was committed (the tenant
  loop, the re-reads of a webhook batch, the sends of the outbox, a photo's object and
  its row, a reset of the demonstration);
* deliveries repeated by a provider and tasks repeated or lost by a broker (messages of WhatsApp);
* two tables kept by hand that must agree (the policy and the resolver);
* hours that do not exist or exist twice in the flat's zone, and a search by UTC dates
  for what is due by local hours.

## 2. Modules

| Module | Models | Extends |
|---|---|---|
| `JobLock` | `task_lock`, `run_for_every_tenant`, `run_in_marked_session` | |
| `PropertyStateMachine` | `state_machine.py`, `state_resolution.py`, `clock_triggers.py`, as operators | |
| `StateMachineWalk` | a flat that is handed any sequence of triggers in any of a set of contexts | `PropertyStateMachine` |
| `PropertyLifecycle` | one flat with its clock jobs, stays, feed rows, tasks and incidents | `PropertyStateMachine` |
| `IncidentApproval` | one incident, its approvals and concurrent requests on stale copies | |
| `WebhookQueue` | the queue, its claims, the commits inside a tenant's work, the charges | |
| `NotificationOutbox` | the notification log, its dispatch and the escalation of breaches | |
| `NoticeDelivery` | abstract: what the outbox promises about one notice | |
| `TenantOwners` | the administration of a tenant's users under its row lock | |
| `ExpenseLedger` | expenses, the owner's answers, monthly statements, the reconciliation | |
| `ReviewInbox` | reviews and drafts, the classification job, people | |
| `AccessCodes` | access records, the sweep, operators, the projection on the stay | |
| `GuestConversation` | a conversation, its handover to a person, crossing messages | |
| `PriceDesk` | recommended prices of a flat, the runs, the decisions | |
| `FeedImport` | imports with their locks, bookings, guests by address | |
| `GuestRegistration` | check-ins, documents, the report to the police | |
| `CleaningEvidence` | one cleaning task under crossing requests, its checklist and photos | |
| `StayReminders` | the reminders of one stay under late, failing sweeps | |
| `WhatsAppInbox` | messages of guests from the provider's delivery to the conversation | |
| `MessageIntake` | abstract: what the inbox promises about one message | |
| `PortalLinks` | the links to a stay's portal under crossing requests | |
| `DemoReset` | the reset of the demonstration tenant, with its visitors | |
| `BackOffice` | the fourteen desks from `NotificationOutbox` to `DemoReset`, each alone, and their fairness | those fourteen |
| `MC...` | the constants of the instances TLC checks | the module named |
| `...Proofs` | the theorems about the module named; `FrontOfficeProofs` those about the inbox, the links and the reset, `BackOfficeProofs` those about the other desks and the office | the module named, `TLAPS` |

Definitions named `Bug...` are faulty variants of the definition that follows
them. No specification uses them; they are there so that each property can be shown
to fail when that definition has that fault.

History variables (`overlapped`, `crossed`, `mixed`, `raced`, `savedOver`, `overwritten`,
`stale`, ...) record that something happened which the code does not prevent and after which a
property is not claimed. Section 6 says for each what happens then.

### JobLock

`owner` and `ttl` are the Redis key and its remaining lease, `pc`, `age`,
`listed`, `done`, `failed` belong to an execution, `active` is the tenants table.
`Acquire`/`Skip` are `SET NX PX`, `Release` the compare-and-delete script,
`ReleaseLost` its swallowed failure, `WorkerDies` a killed process, `Tick` the passage
of time (Redis itself is external). `TenantDone`/`TenantFailed` are one turn
of the tenant loop. The lease is `TTL` ticks; in the code it is three cadences.

### PropertyStateMachine, StateMachineWalk

An evaluation is an operator (`EvaluateStay`, `EvaluateCleaning`,
`EvaluateIncident`, `EvaluateManual`) whose value is the state the flat moves to
or the refusal that stands for the exception raised, in the order in which the
code raises. Instants are naturals, a local day is `SlotsPerDay` of them;
zones and clock changes are reduced to the flag `ok` of a stay, false when one
of its hours cannot be resolved, which is the only thing the resolver reads of
them. `StateMachineWalk` stores the last trigger and its outcome
and chooses contexts freely, including contexts no sequence of handlers produces:
what holds there holds for any caller.

### PropertyLifecycle

`flat`, `res`, `task`, `inc` are the committed rows, `now` the clock. An action is
one handler or job run from its first read to its commit, with every state change
it makes: `process_checkouts` also provisions the task and assigns the only
cleaner, `RejectCleaningTask` and `CancelCleaningTask` also create the
replacement, `IngestKnown` also fires the cancellation trigger. A handler that
answers 409 rolls back, so it is an action that is not enabled; a refusal the code
swallows (`_fire_trigger`) leaves the flat and keeps the rest.
Details that decide nothing are merged: `CLASSIFIED` stands for the active
incident statuses after `OPEN` (their order is `IncidentApproval`'s subject),
`MEDIUM` also for `LOW`.

### IncidentApproval

A request reads the incident (`ReadIncident`), decides on that copy and saves every
column of it (`Save`); between the two, others commit. An answer to an
approval reads the approval first, is held by the row lock of its UPDATE, and
reads the incident only then (`ReadApproval`, `LockApproval`, `Approve`,
`RejectCost`). `RolledBack` is every refusal, error and lost connection.
`overlapped` is a history variable: it is false as long as no two requests were open
at once, and the properties that need that say so.

### WebhookQueue

`notice` is the committed `webhook_events`; a run selects, then claims by
compare-and-swap, then works its batch tenant by tenant. What matters is where
commits fall: the re-read of each provider commits the tenant's session, so does the
advance when some flat awaits a check-in, and the last commit marks what landed. `pending`
holds the charges a tenant's session has made and not committed. `Raises` rolls the
session back, `ChargeTenant` is what the batch does about it. Time is reduced to `due`,
which `ComesDue` sets again at any moment, under a live run too (`lapsed`).
`portfolio` is the tenants' properties as far as a re-read tells them apart: the tenant and provider of each. The sync goes over the
properties by provider and passes over those it is not asked for, so a re-read of a provider that no property resolves to
calls nobody, reports no failure, commits, and lands (`RereadLands`); only where there is a property can it fail or be ambiguous.
`AddProperty` adds the first one of a provider; the provider of a property is not patchable, `set_pms_provider` has no caller and no code
deletes a property, so the portfolio only grows. `expected` is the history of notices that came when their destination was in it.
Notices without a tenant or with an unknown provider have their own branches in
the code; the receiver never records one and they are left out.

### NotificationOutbox and NoticeDelivery

`log` is `notification_logs`, an original and the alert its breach produces being a row each.
A dispatch lists what is PENDING (`ListPending`), and for each notice commits the
attempt, calls the adapter and commits the outcome; `seen` is the attempts it read with its
list and counts on from. `DispatchStops` ends it anywhere, with what is committed.
An escalation reads SENT notices past their deadline and queues the alerts and marks the
breaches in one transaction. Executions may overlap when the job's lease lapses
(`MaxOverlaps`). A row with several recipients or channels is several rows here. `NoticeDelivery`
says the same of one notice without lists, processes or commits; `DeliversAsPromised` maps a
notice to `trying` while some dispatch is sending it.

### TenantOwners

A request takes the tenant's row (`LockTenant`, `SELECT ... FOR UPDATE`), counts the
other active owners if its change would remove one, and writes; `CreateUser` takes no lock. The rows are `role` and `status`.

### ExpenseLedger

`expense` is a set of at most one row per item. A clerk loads without a lock; the save locks the row, compares it with
what it may write (`Frozen`) and only then writes. The generator lists a month without a lock and
later writes the statement and its number on the listed rows (`raced` when the list was no longer true).
`FetchPending` and `Materialise` are the reconciliation. A statement's notes and status bear on no expense and are left out.

### ReviewInbox

`TakeBatch` is the locked batch, whose locks end with the first commit (`held`), so later copies may be stale.
A person loads a review or its draft and saves every column of it. `Chokes` is the exception a stale
or unfiltered review raises, which ends the tenant's run.

### AccessCodes

`ListMissing`, `ListRevocable` and `CommitSweep` are the two queries and the commit of the sweep; stays and operators move in between.
Every write of a record also writes `shown`, the stay's `access_status`.

### GuestConversation

`Receive` is the first save of an inbound message (it locks the row until its commit), then the message
is answered or handed over; the staff's requests load, work and save. `urgent` and `announced` are what happened since the last resolution.

### PriceDesk

`CalculatePrice` is the calculator with its rounding and guardrails over integers; `Curve` prices
the horizon day by day, each within the daily change of the day before, as a recursive function.
A run lists the rule, reads the horizon, and upserts it in one statement that spares what a person decided. The rule
and the occupancy it went by are kept in `basis` for the property.

### FeedImport

A transaction's uncommitted work is `unit`; `locks` are the advisory locks of bookings and addresses it keeps until it
commits. `ImportEnds` commits. `PageEnds` does if the page cancelled a stay and some flat awaits a check-in; otherwise the advance is not called, or returns
before its commit, and the work and the locks go on into the next page. The flats are not modelled here, so either may happen. `RollsBack` is an error or the deadlock abort of two imports that lock in opposite order.
`LoadStay` and `SaveStay` are what people do meanwhile, without those locks.

### GuestRegistration

A check-in may make a guest and claim the stay for it by a conditional update (`ClaimStay`), then saves the document and
writes the report's status from what it read (`readAt`). The office saves a stay from a copy. `File` is the call to the
police's service and `SaveOutcome` what is made of the answer; `FilerStops` loses it.

### CleaningEvidence

`inHand` are the copies requests decide on; a completion reads the evidence after the task (`GatherEvidence`) and
`SaveTask` writes every column. An upload checks, puts the object, commits the row, and deletes the object if the commit
raises; each step may fail, `UploadDies` ends it. The same upload serves incidents (`ForIncident`). The flat, the
assignee and the index of live tasks are `PropertyLifecycle`'s; here they are reasons to roll back.

### StayReminders

Time is counted in slots of UTC and the flat's zone is `Zone` slots ahead. A sweep reads its instant and the stays, then the
guest and the mails queued before, then commits. Sweeps of one job exclude each other (`JobLock`) and the jobs write different types,
so one is under way at a time. `Hidden` counts the slots in which the search by UTC dates does not see a stay whose
24-hour reminder is due (section 6).

### WhatsAppInbox and MessageIntake

A receiver looks up the tenant of the number (`ResolveNumber`), records the event under its unique id and commits (`RecordDelivery`),
and then hands a task to the broker (`Queue`), which may hand it out more than once. A worker claims the event by a conditional
update that waits for whoever has claimed it (`Claim`), finds or inserts the conversation (`EnsureThread`), and commits the lot
(`FileMessage`); until then its claim and its conversation are in its transaction only. `ReceiverStops` and `WorkerFails` are crashes
and errors. `shelf` is where each message was filed, in order. `MessageIntake` says of a message, without deliveries, tasks or
transactions, that it is taken once and filed at most once, in a conversation it belongs in; `FiledAsPromised` maps the event to the
taking and the pipeline's commit to the filing.

### PortalLinks

A request is a transaction: its UPDATE revokes the live links it sees (`AskPortal`, `RevokeLive`), its INSERT meets the unique index over
live links and waits for an open transaction that holds one (`AddLink`, `FlushLink`), a sending request mails the link before its
commit (`MailLink`). `PortalFails` rolls everything back but the mail. `latest`, `withdrawn` and `forlorn` are history.

### DemoReset

`Bootstrap` recreates the administrators and commits; `Scope` to `CommitReset` is the one transaction under the tenant's lock; `SweepObject`
deletes the objects of the rows it emptied, afterwards. Visitors rename and change accounts, and put objects before they add
their rows. `stranded` is the history of objects a failure has left behind.

### BackOffice

The fourteen desks share neither a table nor a call in what the modules say of them, so a behaviour of `BackOffice` is one of a single
desk, chosen at the start. This is an economy of runs and no abstraction: side by side they would interleave, and no property speaks of two of them.
The liveness properties are asked of the desk that works (`BreachesAreAnswered` is `BreachReachesItsEnd` where that desk is the outbox, and so
`AnswersArrive`, `ReviewsAreClassified` and `AccessSettles`); elsewhere they would speak of a desk at rest.

## 3. Runs

| Run | Instance | Shows | Size |
|---|---|---|---|
| `job_lock` | 2 executions, 2 tenants, lease 2 | no overlap within the lease, the loop's bookkeeping, and that the lock is always freed again | 147 thousand states |
| `state_machine_walk` | 5 sets of stays, 6 of tasks, all of 4 incidents, 2 instants | policy and resolver agree; only a person releases a blocked flat | 193 states, about a million evaluations |
| `lifecycle_cleaning` | 2 stays (back to back or overlapping, one with a bad hour), 3 tasks, 1 cleaner, 5 instants | the turnover with rejections, cancellations and date changes: `CleaningStatesAreBacked`, `OneLiveCleaningPerStay`, `NoReleaseOverAGuest` | 285 thousand |
| `lifecycle_incidents` | 1 stay, 2 tasks, 2 cleaners, 2 incidents, 3 severities | incidents around a stay and its cleaning: `IncidentsHoldTheFlat` | 434 thousand |
| `incident_approval` | 2 requests, 2 approvals, costs below, above and far above the threshold | the cost gate with stale copies, and in serial behaviours | 265 thousand |
| `webhook_queue` | 2 notices, of two providers, the second without a property at first, or of two tenants; 2 runs, 2 attempts, 1 death, 1 lapse | claims, budgets, marks, and that every notice settles | 797 thousand |
| `back_office` | one desk at a time, below | twenty-five properties of fourteen desks | 424 thousand |
| `checkout_means_departed`, `other_cancellation`, `closed_stays_closed`, `returns_to_the_technician`, `one_attempt_per_claim` | as small as the disagreement allows | section 6 | |

The desks of `back_office`:

| Desk | Instance | Properties |
|---|---|---|
| outbox | 1 notice with a deadline and its alert, 2 dispatches that may overlap once and stop once, 1 escalation, 2 attempts | `SendsAreBounded`, `BreachIsEscalatedOnce`, `BreachesAreAnswered`, `DeliversAsPromised` |
| owners | 2 users, 2 administrators at once | `TenantKeepsAnOwner` |
| ledger | 2 expenses, 1 month, 1 clerk, 1 generator, amounts below and above the threshold, 1 question each | `StatementAddsUp`, `AnswersArrive` |
| reviews | 2 reviews, 1 person, batches of 2 | `ReviewsAreClassified` |
| access | 1 stay that changes six times, 1 operator | `AccessSettles` |
| talk | 2 messages in progress, 1 colleague | `UrgentMessagesReachAPerson` |
| prices | 2 rules, a horizon of 2 days, 1 day that passes, 2 runs, 1 decision in hand | `DecidedPriceStands`, `HorizonIsCoherent` |
| imports | 1 booking, 1 address, 2 imports of 2 feeds that lock the other way round, one of two pages, 1 edit by hand | `OneGuestPerEmail`, `CancellationToldOnce` |
| guests | 2 check-ins, 1 manager, 1 filer, 2 reports | `DocumentStaysWithTheStay`, `FiledOnce` |
| evidence | 2 requests at once and 3 in all from any live status, 1 item, 1 required photo and 1 of an incident | `StoreMatchesTheRows`, `CompletedWithItsEvidence` |
| reminders | days of 2 slots, a flat half a day east of UTC, 8 slots, 2 changes of the stay | `RemindedInTime` |
| whatsapp | 2 messages of 1 phone to 1 number, 2 tenants, 1 receiver, 2 workers, each task handed out twice | `FiledAsPromised` |
| portal | 2 links, 3 requests | `LastLinkWorks`, `MailedLinkIsKept` |
| demo | 1 administrator, 1 field worker, 3 objects, 2 resets, 2 uploads, 1 photo | `PhotographsMatchTheStore`, `ResetRestoresTheAccounts` |

Why these bounds. Two executions, requests or runs are the fewest that can
overlap; a third adds a second overlap of the same kind. A lease of two ticks
tells a young run from one that outlived it. Two stays give a previous and a next guest; three tasks
give a task, its replacement and a task added by hand; two incidents give the one closed
and the one that holds the flat. Three costs around one threshold give a bill that needs no
approval, one that does, and one that exceeds what was approved. Two attempts tell
a retry from exhaustion. In the back office, two users are the fewest that can remove each other; two reviews give an older
one that stands in the way; six changes cancel and revive a stay with a sweep in each gap; two days of prices give one with a
neighbour, and the passing day shifts the horizon under a run; two feeds in opposite order produce the deadlock; a photo
of each kind tells the two tables apart; a zone half a day from UTC with a check-in at local midnight is where UTC dates
and local days differ most; two messages of one guest race for one conversation, and two copies of one task for one claim; two tenants let
a number change hands between a delivery and its redelivery; a third request finds what two that crossed have left; two resets put the second
one's scope between the first one's commit and its sweep. One escalation is run because two make the run too long; that two which overlap are outside
what is claimed is in the property, and the proof covers any number. `MaxTime`, `MaxDeaths`, `MaxLapses`, `MaxStops`,
`MaxOverlaps`, `MaxApprovals`, `MaxBookingMoves`, `MaxToday`, `MaxSweeps`, `MaxOpen`, `MaxEdits`, `MaxReports`, `MaxVisits`,
`LastSlot`, `MaxChanges` and `MaxCopies` bound the clock and the number of times something happens; they stand in guards
and nowhere else. `LookBehind` is the code's thirty days and never binds at
these sizes. Symmetry is declared only in runs without liveness.

Deadlock is checked wherever the system always has something to do. `job_lock`, `back_office` and the webhook
runs switch it off: every execution may have ended, every notice be settled, every desk at its bounds.

The only type invariant that is run is `DesksTypeOK`. The types of the other modules are proved for every instance, and no run
repeats them.

### Fairness

`JobLock!FairSpec`: the clock ticks (Redis expires keys by itself), and a worker that
is alive continues its run (`run_for_every_tenant` is straight-line code, each turn ends or
raises). A dead worker owes nothing: `WorkerDies` takes it out of `Step`.

`WebhookQueue!FairSpec`: a lease or a delay ends, and each run goes on. The latter is two facts:
beat starts the job every minute, and a worker that is alive continues. No fairness
is asked of providers: a re-read may fail every time, and the notice is
then exhausted.

`BackOffice!Fairness`, each for the desk that works: a dispatch, an escalation, the reconciliation, the classification and the
sweep go on whenever they can. Beat starts each of these jobs at its cadence, and a worker that is alive continues. Nothing is asked
of a provider (every send may fail), of the classifier, of a stay, or of a person; where a property needs somebody to be there to
alert, it says so (`<>[]roster`), and where a stay must have come to rest, too.

## 4. What is proved

All theorems hold for every value of the constants that meets the module's ASSUME; these say
only that constants have their types and that the null values are not members of the
sets they complete.

* **JobLockProofs.** `LockInv` (types, `HoldsWhileYoung`, an idle run has age 0) is
  inductive: `HoldsWhileYoung` says a young run holds the key with exactly `TTL - age`
  left, which is what makes `NX` and the token comparison enough. The absence of
  overlap within the lease and that no lock is stolen (`NobodyElseReleases`, which no run repeats) follow. `LoopInv` (what is done or failed was listed,
  disjointly, and nothing is left once the loop is over) gives the bookkeeping.
* **PropertyStateMachineProofs, StateMachineWalkProofs.** Lemmas about what each
  evaluation can answer; from them the agreement of policy and resolver in
  *any* context, and that only a person's trigger leaves a blocked state.
* **PropertyLifecycleProofs.** One lemma per handler says how it may move the flat
  (`ClockMoves`, `AssignMoves`, `CancelMoves`, ...); each invariant then follows by
  cases on the handlers. The invariants are inductive together with the types; cancelling a
  started cleaning is the case that needs `CLEANING_SCHEDULED` and `CLEANING_IN_PROGRESS`
  to be left by every cancellation. The two action properties (no release over a guest,
  urgent incidents hold the flat) follow from the same lemmas.
* **IncidentApprovalProofs.** `GateInv`: every row there is, the committed one and
  every copy a request holds, either is not closed above the threshold or has an answered approval
  for that cost, and its approved cost came from an answered approval. It is stated over the copies because
  `Save` writes them back; answered approvals never become unanswered
  (`AnswersStay`). This gives the first half of `OverThresholdWasAnswered`, for any number of concurrent requests. `SerialInv`
  adds, as long as requests never overlapped, that the only open request's copy is the row, that a
  question is open exactly while the incident waits or was cancelled, and that approved costs were approved; it
  gives the other half and `OneQuestionAtATime`.

* **WebhookQueueProofs.** `ClaimInv`: a notice a run holds whose claim did not lapse is not due, and nobody
  else holds it. Only `Lease` adds to what a run holds and it takes only what is due, so this is inductive
  and gives `ClaimedByOne`. The marks follow from `ExpectedIsServed` (a destination that was in the
  portfolio when a notice came is still in it, because the portfolio only grows) and `LandedInv` (of the groups a run counts as landed, the
  expected notices were re-read).
  `BudgetInv` bounds the tries: a claim either has cost its notice an attempt already (`Even`), or
  the run that holds it still has its re-read, its mark or its charge ahead (`WillSettle`); one lemma, `PromiseKept`, shows
  for every step of a run that the promise stands or is kept. A claim therefore starts from an even
  account, below the budget; a death breaks a promise and is counted.

* **BackOfficeProofs.**
  *Outbox:* two groups of steps touch different halves of the state, the dispatches and the rest. `AnswerIsAboutSending` and the types give `SentWasConfirmed` for any number of dispatches, stops
  and overlaps. While dispatches have not overlapped, `OneDispatch` (one at most is not idle), `ListIsFresh` (what it has still to
  deliver is as it read it, so counting on from the list is counting on from the row) and `TriesAreCounted` (sends are the
  attempts of the row and at most `stops` more) are inductive and give `SendsAreBounded`. `EscalationInv` says a candidate in hand
  is not marked, while escalations have not overlapped; it gives `BreachIsEscalatedOnce`. The refinement
  `OutboxDeliversAsPromised` has one lemma per kind of step, each of which is a step of `NoticeDelivery` or a stutter. From the promise alone follow
  `NoticesSettleOnTheirTries` (`TriesBack`: a notice on its try or sent was tried, a failed one spent its budget) and `SettledNoticesStay`.
  *Owners:* `LockHeldByOne` and `CountStands`: what a request counted under the lock stays true, because nobody else is past the lock and
  a user created meanwhile can only add an owner.
  *Evidence:* `UploadsInv` says of each upload what is in the store and in the table by where it is; `JudgedInv` says of the
  row and of every copy in hand that it carries a verdict exactly if it is completed, and that a completed one has its evidence, which
  is never taken back. A stale save therefore replaces one such row by another.
  *Reminders:* `DecidedInv` says what a decided sweep writes; `InTimeIsDue` is the arithmetic: the interval a reminder is due in lies
  inside the days the query asks for, up to `Hidden`, by two lemmas on division (`DivBelow`, `DivAbove`).
  *Guests:* `ClaimInv` (one check-in at a time has claimed the stay, and only a stay without a guest), `PortalInv` (the guest a check-in
  works for is the one it claims with or the stay's) and `FilingInv` (while nothing crossed, one filer at most is past the call, and an
  accepted report is saved or about to be).
  *Imports:* `EmailInv` (an import that has added a guest holds the lock of the address, and nobody is known by it yet) and
  `BookingInv` (what an import writes it has locked, it still sees what it looked up, and has told of what it cancelled); the longest case is the
  end of a transaction, committed or rolled back (`EndsKeepFeed`).
  *Conversation:* `CopiesFit`: the row and every copy in hand is handed over exactly if it says ESCALATED, and a resolved escalation goes with a
  resolved conversation; while nothing was overwritten, the copies that matter are the row.
  *Ledger:* `BillKeepsLedger` says what a statement charges (a row the list held and nobody changed, or the month is `raced`), and every
  later write leaves a billed row alone (`BilledStand`). `NewcomersAreAlone` and `AskedInBounds` carry the types.
  *Prices:* `Curve` is a recursive function over days. `LeastNumber` takes the least member of a set of numbers from the well-foundedness of
  `<`; with it `WalkExists` builds the walk of any length and `CurveIsAWalk` shows that `Curve` satisfies its own equation, so every price is a
  number and each follows from the day before. `RunsFit` says of each run what its rule, plan and day are.
  *Reviews:* `CopiesAreDrafted` (no copy has a summary without a draft) and `TickIsSmall` (a batch taken by rank is no larger than its size).
  *Access:* `RoomIsLeft`: the records of a stay are at most as many as the changes of its status, with one or two to spare where a sweep is about to
  add; so the next number exists, and `RecordsInHand` says that what is saved or revoked exists or is that number.
  *Office:* `DesksWorkAsSpecified`: a behaviour of `BackOffice` is one of each of its fourteen desks' specification, since a step is a step of the
  desk that works and the others rest. `DesksTypeCorrect` and `OfficeKeepsItsPromises` carry the desks' theorems over to it, the two refinements
  included.
* **FrontOfficeProofs.**
  *Inbox:* `ClaimedByOne` (a claimed message is new, and claimed by one worker) makes a message's only filing possible once; `InsertedIsNew` (a
  conversation being inserted is like none that stands, nor like one that another worker inserts) is what the wait on the index buys;
  `HandledForItsTenant` and `ThreadsSuit` say that what a worker is about to commit is for the event's tenant and in a conversation the message
  belongs in. They are inductive together with the types. The refinement `InboxFilesAsPromised` maps the first recording of an event to `Take` and the pipeline's
  commit to `File`; every other step, redeliveries, repeated tasks and crashes included, is a stutter. From
  the promise alone follow `ConversationsAreNotShared` (`FiledRight`: a filed message belongs in its conversation) and `FiledStaysFiled`.
  *Links:* `RequestsFit` (what a transaction revokes it saw, and is still live) and `RequestsApart` (two transactions have no link in common, and one
  that has inserted is alone with the stay's links) give both properties.
  *Reset:* `RunsBeside` (at most one run is past the lock, and nobody commits meanwhile) and `UploadsApart` (an object in hand is in no other
  hand, and no row's) give the agreement of rows and store; `RunFits` says what a run has restored by where it is.

`PROJECT.json` lists the theorems with the property each one states. A theorem about one desk speaks of the desk's own specification
(`OwnersSpec`, `FeedSpec`, ...); those about the office carry it over.

Some results are proved and not run again, because another property covers them at the sizes of a run: the two halves of
`CleaningStatesAreBacked` and of `IncidentsHoldTheFlat`, `HoldsWhileYoung`, `NobodyElseReleases`, `SentWasConfirmed`,
`VerdictGoesWithCompletion`, `FiledAtMostOnce` and `OneThreadPerGuestAndFlat`.

**Only model-checked.** Liveness (`LockIsFreedAgain`, `EveryNoticeSettles`, `BreachesAreAnswered`, `AnswersArrive`,
`ReviewsAreClassified`, `AccessSettles`): the prover does not handle fairness and ENABLED. Every invariant and action property the
passing runs check, and the two refinements, are theorems.
No module uses a recursive operator.

## 5. How to read a property

Each has a comment that says what it means for the code. The ones worth an argument:

* `OverThresholdWasAnswered` is *answered*, not *approved*, when requests overlap: two answers to one approval may both see it
  PENDING, and the later one can turn a yes already acted upon into a no. Only without overlap is it
  a yes.
* `CleaningStatesAreBacked` assumes for its second half, `AwaitingCleaningIsCovered`, that every checkout provisions its task; with
  automatic creation off, the flat legitimately waits for a person.
* `ClaimedByOne` excepts a notice whose claim lapsed under the run: the code's claim
  holds fifteen minutes and is not renewed.
* `ProcessedWasReread` speaks of the notices in `expected`: those that came while their tenant had a property of their provider. Of the others nothing is
  promised (section 6).
* `EveryNoticeSettles` is stated as *again and again nothing received is unsettled*: a settled notice stays settled and there are finitely many,
  so that is the same as every notice settling, and half the work for TLC.
* `BudgetBoundsTries` counts claims, not attempts: this is what an operator pays in
  provider calls. A worker that dies gives its claim back without a charge, hence `deaths`.
* `SendsAreBounded` allows one send more for every execution that stopped: the attempt is committed first, but a stop on the last attempt leaves the
  notice PENDING, and the list has no filter on attempts.
* `DeliversAsPromised` promises nothing any more once two dispatches have overlapped; `NoticeDelivery` says so in its next-state
  relation rather than in an assumption.
* `StoreMatchesTheRows` cannot say that rows and objects agree: a commit whose answer is lost leaves a row whose object the compensating
  delete removes. It says that this is the only way.
* `CompletedWithItsEvidence` is not about the moment of completion only: a stale save can take a completion away and another bring it back.
* `FiledAsPromised` says at most once, never that a message is filed: a task that is lost or a run that fails leaves the event recorded and
  unprocessed for good (section 6).
* `LastLinkWorks` takes a revocation at its word only for the links it found: one issued beside it stays.
* `RemindedInTime` speaks of sweeps that committed: those that fail or never ran leave the reminder to a later one, as long as there is one before the event.

## 6. Where code and documents disagree

Five disagreements have a run that exhibits them and a finding in `PROJECT.json`: the
checkout of a past stay moves a flat with the next guest inside; a feed row that
cancels one stay frees a flat that waits for another; a stale copy reopens a closed
incident; the approval of a closing cost puts an incident in progress that no technician
has; a webhook claim costs two attempts when a charge is committed by the next provider's re-read.

The models show others, documented here only; most are what the history variables of section 2 except.

* **Lifecycle and incidents.** An incident closed during
  a stay's cleaning puts the flat in AWAITING_CLEANING with its task already assigned, so starting
  that task is refused until somebody cancels it; closing an incident is refused
  while two stays overlap or an hour of the window cannot be resolved; two stays due at once make the clock job skip the flat until a person
  changes one; two answers to one approval both take effect; a stale save can leave a CLASSIFIED incident
  with a technician.
* **Webhooks.** A notice of a provider that no property of its tenant resolves to is marked processed with nothing re-read:
  `SyncReservationsFromPmsUseCase.execute` skips every group (`integrations/application/use_cases.py:184-187`), commits with
  `provider_failures` empty, and `_reread_one` takes that for a re-read (`integrations/application/webhooks.py:635`). Neither creating an endpoint nor
  receiving a notice asks whether there is such a property. `docs/reservations-webhooks.md:137-139` has one re-read call per destination, and
  `mark_processed` says that "a re-read serves every notice that named the same destination"
  (`integrations/domain/repositories.py:106-114`). A property added later does not bring the notice back; the periodic sync
  reads what it missed only as far back as its window (`scheduler/tasks.py:422`).
* **Outbox.** `notifications/application/use_cases.py:326-339` bounds redelivery by the maximum of attempts, but `list_pending` has no such
  filter. Two overlapping dispatches do not "each burn their own attempt" (`scheduler/tasks.py:686`): both write the attempts of
  their list plus one, and the slower one can turn a SENT row FAILED, its breach with it.
* **Ledger.** The save's docstring has every order of save and generation end well (`statements/infrastructure/repositories.py:317-322`); the
  generator's list is not locked, so an amount can change between the list and the statement. Approving an older question clears a later,
  higher amount; an expense can be inserted in a month closed since the check; a rejection of an expense already billed is only reported.
  A statement's notes are saved with the status of a stale copy, so SENT can go back to READY (not modelled).
* **Reviews.** `list_pending_classification` (`reviews/infrastructure/repositories.py:383-416`) does not ask for the status, although its
  docstring says a low-confidence review does not come back: such a review raises on every tick, ends the tenant's run, and starves newer
  ones. Regenerating replaces an APPROVED draft, and a stale edit takes an approval back.
* **Access.** An operator's stale save revives a revoked record; with a sweep in between the stay then shows the wrong one.
* **Messaging.** A human reply with a slow send between load and save can undo an escalation; two urgent messages at once alert twice; an
  ambiguous sender on a RESOLVED thread is not escalated, unlike `messaging/application/whatsapp_inbound.py:270` ("Before, not after").
  A run that fails leaves its event unprocessed so that "a retry — Meta's, or a manual one — can pick it up"
  (`scheduler/whatsapp_tasks.py:188-189`), but a redelivery of a recorded message is answered as a duplicate and queues nothing
  (`messaging/application/webhooks.py:190`), and nothing lists unprocessed events.
* **Prices.** An approval can land on a price that was regenerated after it was shown; two crossed decisions can take back an APPROVED or
  APPLIED row; a decision between a run's read and its upsert leaves the neighbours measured against another price until the next run.
* **Imports.** Two imports that carry the same bookings in opposite order deadlock, and the loser's whole page is lost, although one bad row
  is not to cost the good ones (`integrations/application/ingest.py:144`); a cancellation by hand that crosses an import is told twice; the guest
  of a rejected row stays.
* **Guests.** Two check-ins at once write GUEST_CHECKIN_COMPLETED twice; two filers both file; a second one's rejection overwrites SUBMITTED;
  FAILED has no way out; a stale readiness write can undo a filing although `status_for` says it may not; the office's stale save of a stay parts it from its
  document.
* **Evidence.** A tick or an upload whose check preceded the completion is committed after it, although evidence cannot be filed "after
  finishing" (`cleaning/application/use_cases.py:2141-2144`); a critical incident reported between the evidence and the commit does not block;
  a cancelled task without a replacement can come back by a stale save; two overlapping completions can overwrite a manager's FAILED with PASSED;
  the branch of `_replacement_for` said not to be reachable is, when two cancellations cross.
* **Reminders.** `reservations/application/use_cases.py:508-514` has a day on each side cover every zone and both leads, "never a hole". A
  stay whose check-in hour is less than its zone's offset east of UTC has its check-in on the UTC date before; for the first `Hidden` of the 24
  hours before it the query does not return it, and a sweep then does not remind. A stay that is moved is not reminded again; one booked within two hours gets both mails at once.

## 7. Not modelled

* **The flat's row with read and save apart** (`properties/infrastructure/repositories.py:188`). `PropertyLifecycle` takes handlers as serial
  transactions. A clock job that commits between a person's read and save is overwritten, and both histories are kept; the code
  has no lock or version there, so no invariant of section 4 that speaks of the flat holds for overlapping handlers, and there is no weaker one it aims at.
* **Of the reset of the demonstration**: the content of the dataset, the login locks and the purge of the audit trail, which come last; the
  tenant's store is taken not to change.
* **Sessions, tokens, recovery.** Their correctness is about credentials and their hashes.
* **A statement's own status, notes and document; the expiry of access records** (nothing writes `valid_to`) **and the mail with the code; messages on tasks and incidents; cost documents and approvals of type OTHER; in-app reads of notices; the detector of stalled flats**: sequential writes of one row, or logs.
* **Provider adapters and their mappings, AI text, the CSV reader, encryption, the storage backends beyond put and delete, read models, the other commands, the frontend, the scripts and the
  infrastructure.** They are I/O or data, and no property here tells their values apart. They make up most of the repository by lines.

Transactions appear as the atomicity of actions, tenancy as one tenant's data per model; the filter that enforces tenancy is not modelled.
