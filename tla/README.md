# Verification of upstic_server

upstic_server is the backend of a recruitment and staffing agency: NestJS
services over MongoDB (through Mongoose), Redis and, where it is available,
BullMQ. This directory holds TLA+ modules of its business services, the TLC
configurations that model-check them and TLAPS proofs about them.

Contents: [the system](#the-system), [modules](#the-modules),
[runs](#the-runs), [findings](#findings), [proofs](#proofs),
[limits](#what-is-not-shown), [plan](#plan).

Tools: `tlc -workers 2 -config X.cfg M` checks module `M`, `tlapm M.tla` checks
the proofs of `M`. Source paths below are relative to `src/src/` of the
repository.

## The system

### How a service works

Every operation of the business services has one shape:

    findById  ->  guards and assignments on the copy  ->  save  ->  notify

with an `await` between the parts. `ecosystem.config.js` starts one process per
core and restarts a process that ends or grows too large. So between the read
and the save of a request any number of other requests may run, in this process
or in another, and any request may end between two of its steps. Nothing else
keeps requests apart: there are no transactions and no locks. What is left are
three mechanisms of Mongoose and MongoDB, and most of the questions this project
asks are about what they do and do not protect:

  - a save sends the paths that were modified on the copy (`$set`) and the
    elements that were pushed (`$push`), not the document. A guard that was true
    of the copy is not asked again;
  - the version of a document is compared with the copy's only when a save pushes
    inside an element of an array or writes a whole array;
  - unique indexes, where a schema declares one.

Most of the rules of a document are in its model: methods that assign to a copy and
save it, and hooks that run in every save and derive some paths from others, of the
copy. The models under `models/` have this shape whether or not a service calls
them; some are called by nothing yet and are modelled as the methods stand.

Some services put work in a queue. `app.module.ts` decides whether BullMQ is
registered before it has looked for Redis, so that it never is; the services
fall back to a `Map` in memory that a callback of `setInterval` walks over. The
callbacks are asynchronous and the interval does not wait for them.

### Components

| Component | State | Operations | Hard behaviours | Here |
|---|---|---|---|---|
| Timesheets: `services/timesheet.service.ts`, `models/Timesheet.ts` | status, deletion flag, entries, total, payroll mark, audit log; approval queue | create, add entry, clock events, submit, approve, reject, delete, restore, mark as paid | stale copies, creation without a unique index, failing queue | `Timesheet` |
| Clock events of an entry: same files | events, verified flags, duration, version | record, verify | out-of-order events, version check, breaks | `ClockEvents` |
| Payroll: `services/payroll.service.ts`, `models/Payroll.ts` | status, payment, tax code, collected timesheets | create, approve, pay, record failure, tax code | stale copies, timesheets that change after collection | `Payroll`, `PayrollSystem` |
| Job offers: `services/job-offer.service.ts`, `models/JobOffer.ts`, schema | offers, their history | create, respond, update, delete, expire | a second read without a test, the expiry sweep | `JobOffer` |
| Availability records: `models/Availability.ts` | dates, recurrence, slots, exceptions, status, version | activate, deactivate, slots, exceptions; overlap, query | calendar arithmetic, hooks at save, array versions | `Availability` |
| Profile verification queue: `services/worker-profile.service.ts` | `Map` of tasks, attempts | put, walk, retry, give up | overlapping callbacks, restarts | `FallbackQueue` |
| Reports: `services/report.service.ts`, its schema | reports, `Map` of tasks | request, generate, retry | attempts that the schema drops | `Reports` |
| Analytics: `services/analytics.service.ts` | reports, `Map` of tasks | generate, walk, retry, give up | a task that puts another task | `AnalyticsQueue` |
| Documents: `services/document.service.ts`, `models/Document.ts` | status, compliance, expiry, shares | upload, use, update, share, revoke, verify, reject, delete, sweep | a sweep over what it collected earlier; lists written as a whole | `Documents` |
| Ratings: `services/rating.service.ts`, `models/Rating.ts` | scores, average, status | create, update, publish, dispute, resolve, respond, delete | an average calculated on a copy | `Rating` |
| Invoices and billing: `models/Invoice.ts`, `services/billing.service.ts` | payments, amounts, status | add payment, send, remind; charge, record, mark | derived amounts, three steps that may break off | `Invoice` |
| Subscriptions: `models/Subscription.ts` | plan, billing, end, payments | activate, cancel, renew, change plan, payments | billing sent path by path | `Subscription` |
| Payment methods: `models/PaymentMethod.ts` | default, status of cards | add, default, verify, expire, delete | a hook with a database call of its own | `PaymentMethods` |
| Tax settings: `models/TaxSettings.ts` | rates, exemptions | add, change, remove, activate | changes by place | `TaxSettings` |
| Report templates: `models/ReportTemplate.ts` | elements with references, edition | add, remove, status, use | validation of a copy | `ReportTemplate` |
| Generated reports and documents: `models/ReportGeneration.ts`, `models/DocumentGeneration.ts` | status, outputs, deliveries; access | marks, retries, access, clean-up | late failures, several processors | `Generations` |
| Feedback: `models/Feedback.ts` | status, resolution, responses | respond, review, resolve, archive | the hook that gives a status back | `Feedback` |
| Notifications: `models/Notification.ts` | deliveries by channel, status | mark, deliver, cancel; updates of many | a status that three sides write | `Notification` |
| Messages: `models/Messaging.ts`, `models/Message.ts` | receipts; participants, archive, last message; reactions | mark, delete; join, leave, archive; react | find-then-push | `Messaging` |
| Contact forms: `models/ContactUs.ts` | status, assignment, notes | view, assign, note, resolve, close | statuses set by older copies | `ContactUs` |
| Contact details: `models/ContactDetails.ts` | code, verification; primary mark | verify, opt out; make primary | one mark over several documents | `ContactDetails` |
| Preferences: `models/UserPreferences.ts` | keys and values | read, set, reset | creation on first use, places | `UserPreferences` |
| Clients: `services/client.service.ts` | contacts | add, change, delete | whole documents written back | `ClientContacts` |
| Devices: `services/device.service.ts` | registration, status, usage | register, count, delete | find-then-insert, counts on copies | `Devices` |
| Caches: `utils/caching.ts`, `middleware/cacheHandler.ts` | keys, tags, lock | fill, change, invalidate, lock | a fill racing an invalidation | `CacheUtils`, `TaggedCache` |
| Rooms: `components/realtime/RealtimeUpdates.ts` | sockets, two maps | connect, subscribe, leave, disconnect | several sockets of one user | `Rooms` |
| Others (see `PROJECT.json`) | | | | not modelled, with the reason |

How they meet: `createPayroll` queries the timesheets that timesheet.service
saved and keeps their hours (modelled by `PayrollSystem`). Timesheets, payrolls
and offers end their operations with a notification, which is a log line in this
repository and changes no state; approval jobs go to a queue no code consumes.
Two components call across a border that matters: `processPayment` of billing.service
writes a status into invoices behind the back of the hook of `models/Invoice.ts`
(both in `Invoice`), and the middleware of `cacheHandler.ts` shares sets of keys
with the invalidations (`TaggedCache`). Everything else is connected by the database
only.

### What makes each component correct

  - Timesheets: the lifecycle draft, submitted, approved, paid with its side
    branches; the total is the sum of the entries; nothing is paid that was not
    submitted and approved; a paid timesheet is known to be paid; the audit log
    explains the document.
  - Clock events: the stored duration is the one of the stored events, and for a
    log that makes sense it is the minutes worked.
  - Payroll: paid once and only after approval; computed from approved
    timesheets and their hours.
  - Job offers: one offer for a job and a candidate; an answer stays; the history
    explains the status.
  - Availability: the query and the overlap test find what recurs in a range and
    nothing else; no exception is lost; what has ended does not come back.
  - Queues: every task is processed, or given up after three attempts with a
    message about it; no task is passed over.
  - Models of documents: what was added to a list stays until it is taken out; paths
    that are derived from others belong to them although both are sent separately; a
    status has its reason in the rest of the document; what is over is not undone by
    an older copy; a change by place reaches the element it was made for.
  - Marks over several documents (default method, primary contact): one of each.
  - Caches: an old value does not outlive the invalidation of its source.

Where the code keeps such a rule only without overlap, the property says exactly
which overlap breaks it, and the check shows that nothing else does.

## The modules

    Lifecycle                 abstract: what a service promises about statuses
      ^            ^
    Timesheet    Payroll      implement it (with StatusesSeen as the mapping)
      ^     ^      ^   ^
      |    PayrollSystem \    both services over one database
    Sums                  \
                           Services     one component per behaviour:
    MongooseDocument          JobOffer, Payroll, and
      ^                       AnalyticsQueue, PaymentMethods, CacheUtils,
      |                       TaggedCache, Rooms, and
    Rating  Documents  Invoice  Subscription  TaxSettings  ReportTemplate
    Generations  Feedback  Notification  Messaging  ContactUs
    ContactDetails  UserPreferences  ClientContacts  Devices

    ClockEvents   Availability   FallbackQueue   Reports

    TimesheetProofs  PayrollProofs  ClockEventsProofs  AvailabilityProofs
    FallbackQueueProofs  ModelProofs <- ServicesProofs <- KeptProofs

MC modules give the constants their values. The faulty variants near the top of
each module are not part of its specification: each is a mistake that one of the
properties notices when it takes the place of the definition it is named after.

**Requests.** A slot `req[r]` (`call[r]` in `Payroll`) is one request. A *read*
action takes the copy, evaluates the guards (a guard that fails is a request that
changes nothing, and is left out) and stores the update to be sent; a *save*
action merges it into what the database has by then; `Abort` ends the request
between two steps and stands for crashes, refused writes and failed look-ups.

**`Timesheet`.** `doc[s]` holds the scalar paths, `entries[s]` and `audit[s]`
the arrays. `Saving` keeps the copy as read (`old`) and as changed (`new`);
`Merge` writes a path only if the two differ, as Mongoose does; `PreSave` is the
hook of the model that recomputes the total from the copy's entries.
`VersionMatches` is the version check, which among the operations concerns
`recordClockEvent` only. Regular, overtime and holiday hours are kept as their
sum. Left out: expenses, which the schema declares as strings so that none can be
saved; the status QUERIED, which nothing writes; the list queries.

**`ClockEvents`** takes one entry of one timesheet. `Duration` folds `Clock` over
the events sorted by time; `OtherSave` stands for all other saves of the
timesheet, each of which increments the version because it pushes to `auditLogs`.

**`Payroll`.** `sheet` is what `createPayroll` reads, and changes at any time;
`PayrollSystem` replaces it by a state function of `Timesheet`. Amounts are left
out: they are a function of the hours and the rate, fixed at creation. The
statuses processing and cancelled are written by nothing. `log` and `items` keep
history for the properties.

**`JobOffer`.** `updateJobOfferStatus` reads again and tests nothing, so that a
change of status has three parts: `checked`, `saving` and, for a rejection with a
reason, `giving`. `late[o]` tells whether the expiry date is past. The sweep of
expired offers collects a set and visits one after the other. (No code calls the
sweep yet; it is modelled as what a scheduler would run.)

**`Availability`.** One document, its `plan` fixed at creation. Days are numbers;
`AddMonths` and its neighbours are what JavaScript's `Date` does to them, the overflow
of `setMonth` included. Exceptions are a set: the list is only asked whether a date is in it.
Dates are at midnight and ranges are in order. `Queried` is `findByDateRange` whole: it
asks for ACTIVE, which `CheckOverlap` does not, and of a recurrence for its end and for the
start of the availability, where `CheckOverlap` takes the start of the recurrence. Left
out: `markNotificationSent` (one flag) and the searches by preference and place.

**`FallbackQueue`.** Tasks are numbered in the order in which they are put: a
`Map` is walked in the order of insertion and shows a walk what is added and
deleted meanwhile, so a walk behind task `i` comes to the least pending number
above `i`. `tick[k]` is one callback; several run side by side.

**`Reports`** has the same loop with the attempts kept in the stored report.
`StoredAttempts` is what the schema keeps of them.

**`Lifecycle`** promises either that an operation finds a document in the status
it asks for (`StrictSpec`), or that this status is one that the document has had
(`Spec`). Services that test a copy keep the first one request at a time, and the
second always.

**`MongooseDocument`** is the shape of one document and of the requests that work on
copies of it. `Change` is the first half of a method (`findById`, guards,
assignments, the hooks of the save, all of the copy), `SaveCopy` the second:
`Merged` writes the paths that differ from the copy as it was read, appends what
was pushed, writes changed elements by their places and assigned arrays as a whole;
`Accepted` compares the version in the last two cases; `CountsVersion` says when it
goes up. Elements that are changed by place compare the version and do not count it
up, which is why `TaxSettings` and `UserPreferences` have a property about it. Each
model extends this module with its paths, and with one action per method.

What a model keeps beside the document is in `world`: the clock (a day, or whether a
date is over) where the methods ask for it, and the history the properties speak of.

**`AnalyticsQueue`** is a second loop like that of `FallbackQueue`, but processing a
task is generating a report, which stores another report and puts another task
behind the walk, so that the walk comes to it: no report is ever done (`NeverDone`
says how many remain).

**`Documents`** has the sweep as three kinds of steps, collect, remind, expire, with
other requests between them. Nothing calls the sweep yet. `uploadDocument` leaves
`fileUrl` and `fileKey` empty, which the schema refuses; the model starts from what
the call would store.

**`Rating`** keeps lists of scores and their average in tenths. `publishRating` asks for
no status, so that a deleted rating may be published; this is modelled as it is.

**`Invoice`** has the hook that derives amounts and status from the payments of the
copy, and the three steps of `processPayment`. The status that `MarkPaid` writes has
no payment in the invoice behind it, and the hook of the next save replaces it.

**`Subscription`** counts dates in months. A billing cycle is a number of months or
`Custom`, for which nothing calculates a date: the hook leaves the next billing date, and
`renew` leaves it where the subscription starts now. Payments are as callers give them
(`Given`), one that is paid without a date included. The hook replaces the date that
`changePlan` has just calculated; `cancel(false)` never leads to CANCELLED; both as in the
code.

**`PaymentMethods`** and the second part of **`ContactDetails`** are about several
documents of which one has a mark. A save is two or three calls of the database:
`updateMany` (or `findOne` and `save`) takes the mark from the others, then the copy
is saved. `ContactDetails` has two specifications: the verification of one contact
(`VerificationInit`), and the mark (`PrimaryInit`).

**`TaxSettings`**, **`ReportTemplate`** and **`UserPreferences`** have elements with names
that are looked up in the copy and changed by place. `id` of an element tells
elements of one name apart. The `version` that `ReportTemplate.ts` counts itself is
called `edition`.

**`Generations`** and **`Messaging`** hold two and three models with one `Init` and `Next`
each; a conversation begins without participants or with one. **`Feedback`**,
**`Notification`**, **`ContactUs`** have statuses that methods and hooks write from older and
newer copies.

**`ClientContacts`** does not merge: `findByIdAndUpdate` gets the whole document and
the version of the copy is not compared. Deleting a contact that is not there writes the
document back too. **`Devices`** numbers the documents of one
device id, for a registration that finds nothing inserts one.

**`CacheUtils`** and **`TaggedCache`** count the changes of the source and what a cached
value has seen of them. Commands of Redis are single steps, except that the
middleware's `setex` and `sadd` are two, and `invalidateByTags` three. A read that fails
is answered like a key that is not cached (`Miss` asks for nothing), and the two deletions
of an invalidation are sent together: the set goes even if the deletion of its keys
was refused.

**`Rooms`** has no overlap, for handlers run to their end; what is hard is that the
maps know users and socket.io knows sockets.

**`Services`** puts the components that share no state into one specification.
`component` is chosen in the initial state and never changes; `stored`, `copy`,
`world`, `saves` and `past` stand for the variables of the one that was chosen. Its
properties name, for each component, the property of the component's module that
they consist of. Its constants are open, so that the theorems of `ModelProofs`,
`ServicesProofs` and `KeptProofs` are about every value of them; `MCServices` gives them values.

## The runs

| Run | Instance | What it shows |
|---|---|---|
| `timesheet_race` | one timesheet, two requests, two entries, seven saves | what survives any overlap: the deletion flag, the audit log explaining the status, payment only after submission and approval, the payroll mark, a total made of entries some request knew, entries that come after the end of the draft only from requests that had seen it (`DraftWorkEnds`), and `Lifecycle!Spec` |
| `timesheet_serial` | one timesheet of ten saves and a second one of the same week, one request | one request at a time: `Lifecycle!StrictSpec`, the exact total, that a second payment is possible only through deletion and restoration, and that a second live timesheet is possible only through restoration |
| `timesheet_total` | two requests, four saves | *violated*: the total is the sum of the entries |
| `payroll_twice` | one payroll, two requests | *violated*: a payroll is paid once |
| `payroll_system` | one timesheet of six saves under two overlapping requests, one payroll under one | collected timesheets had been submitted and approved and their hours are hours of entries (`ItemsExplained`), a timesheet marked as paid is collected only after an approval saved after the mark (`ProcessedNotCollected`), `Lifecycle!StrictSpec` of payroll |
| `services` | two overlapping requests on one of: two offers of one pair, one payroll, one document of each model, a cache, a queue; sockets for the rooms | see the next table |
| `job_offer_sweep` | one offer, two requests | *violated*: an accepted offer stays accepted |
| `clock_events` | five kinds of events, logs of up to five, two requests | the duration belongs to the events, verification marks what was seen, the duration is the minutes worked, and negative only if somebody clocked in or out during a break or clocked in twice around one (3.4 million states) |
| `availability` | ten plans, ranges between eight dates of four months, two requests | query and overlap test agree on what is active, but for a recurrence that starts before its availability, no daily, weekly or biweekly occurrence is missed, no exception is lost, nothing is revived after its end |
| `availability_monthly` | the same | *violated*: no monthly occurrence is missed |
| `fallback_queue` | three tasks, three callbacks | why a task leaves, how often a failure is told, and that every task leaves |
| `reports_retry` | one report, one callback at a time | *violated*: a report is tried three times |

The properties of `services` ask one question each of every component it is a
question for:

| Property | Question | Components |
|---|---|---|
| `TypesOK` | do all variables have their types | all |
| `OneOfferPerPair`, `HistoryExplains`, `AnswerOverwrittenByOlderTest` | one offer per pair; the history has the status and answers are dated; who may overwrite an answer | job offers |
| `PaymentAfterApproval`, `PayrollImplementsLifecycle` | payment only after approval; `Lifecycle!Spec` | payroll |
| `ListsKept` | is anything lost from a list, or does it come back | shares, payments, responses, receipts, participants, reactions, rates, notes, outputs, users with access, preferences |
| `DerivedAgree` | do derived paths belong together | average of scores, amounts of an invoice, compliance, usage of a device, maps of rooms |
| `StatusHasReason` | has a status its reason | invoices, notifications, messages, conversations, feedback, contact forms, generated documents, analytics |
| `TemplateConsistent` | do references resolve that no save has seen together | report templates |
| `UndoneByOlderCopies` | what may undo what is over | resolutions, read notifications, deleted messages, participants who left, closed submissions, deleted documents, counted sessions |
| `ExpiredBySomeoneWhoSawIt` | who may let a document expire before its date | documents |
| `UpdatesReachTheirElement` | does a change by place reach its element | tax settings, preferences |
| `PartsOnlyByOverlap` | which overlap alone breaks what belongs together | billing and plan, default method, primary contact, verification, contacts of a client, completed report, keys of preferences, registration, caches, lock, rooms |

**Bounds.** They are guards named in the modules: `MaxEntries`, `MaxWrites`,
`MaxSaves`, `MaxHistory`, `MaxEvents`, `MaxVersion`, `MaxTasks`, `MaxReports`,
`MaxRuns`, `MaxChanges`, `LastDay`, `LastMonth`. Two requests are enough for the
overlaps, since each save depends
on one copy and on what is stored: what several other requests do between a read
and a save, one other slot does in turn. Seven saves reach submission,
approval and payment with an interfering operation between any two; ten reach a
payment, deletion, restoration and a second payment. `MaxWrites` is given for each
timesheet: in `timesheet_serial` the second timesheet is only created. Six saves of
`payroll_system` are creation, an entry, submission, approval, the mark, and one more
approval by an older copy, which makes the marked timesheet one that is collected
again. Five events are the shortest
log with a negative duration. Three callbacks and three tasks have two callbacks
at one task and a third that passes them. Two offers are the least that could
break the index; two slots let the sweep overlap a response. The dates of
`availability` are the first and last days of January and February and days
inside them, where the arithmetic of months differs.

In `services` the stored document of a model changes up to three times: the read of
an older copy, a save that it does not know, its own save, and one more change on
what it leaves. Notifications, tax settings and subscriptions (`FewSaves`), whose states
are many, change twice; the contacts of a client, devices and generated reports
(`ManySaves`) four times, for a contact that is lost and comes back, a device that is
deleted and registered again, and a report that fails after it was completed, is processed
again and completed by an older copy; messages and
conversations five times, for a conversation that is archived, opened and archived
again while an older copy waits; primary contacts, of which there are three, six times,
because one change of the mark takes two saves; payrolls seven times. Two changes of a
cached source are one that the value has seen and one that it has not. Three reports of analytics are the request's own and
two that its task makes. One user is enough for receipts, participants and reactions,
where each user's elements are looked up by themselves; the users with access to a
generated document are two (`OtherUsers`), because their list is also written as a whole.
Subscriptions have a plan with a custom cycle, and payments that are due or paid without
a date. Requests are interchangeable and the
run uses their symmetry; its properties are invariants and action properties,
for which that is sound.

`services` runs components that share nothing. A behaviour is one of the component
chosen in the initial state, so that the run is the sum of its components: 4.7
million states in about three minutes.

**Fairness.** Only `FallbackQueue` has a liveness property that is checked:
`EveryTaskEnds`. It assumes that the interval goes on firing when there is
something to do (weak fairness of some `Fire`) and that what a callback awaits is
settled in the end (weak fairness of each callback's steps): database operations
have time limits and Node runs every resolved continuation. It does not assume
that a task succeeds or that the process never restarts. The other services only
act on requests, and a request may end anywhere, so nothing has to happen in them;
they are specified by safety alone.

**Deadlock** is checked in every run.

## Findings

  - `timesheet_total`: two requests that add entries to one timesheet push both
    entries, and the second save stores a total without the first
    (`services/timesheet.service.ts:161`).
  - `payroll_twice`: two payments that both read an approved payroll both take
    effect (`services/payroll.service.ts:174`).
  - `job_offer_sweep`: a response, an update or the sweep that tested a pending
    offer is saved over an acceptance (`services/job-offer.service.ts:199`).
  - `availability_monthly`: in a range that starts on the last of a month the walk
    over the months passes over shorter months (`models/Availability.ts:635`).
  - `reports_retry`: the count of attempts is kept in a path that the schema drops,
    so that a report is retried for ever (`services/report.service.ts:122`).

### What the models showed besides

These are outcomes that the properties allow because the code leads to them, and that
a reader of the code may not expect. No statement of the repository contradicts
them, except for the two comments named.

  - Two requests may make two defaults of payment methods (the comment at
    `models/PaymentMethod.ts:438` wants one), or two primary contacts, or none
    (`models/ContactDetails.ts:328`): the call of the hook and the save are separate. A
    method of a company leaves the user's other methods alone.
  - Deleting a card that is past its date ends with EXPIRED: the hook runs
    after the assignment. `setAsDefault` asks for no status.
  - A change of a tax rate by place counts no version (`models/TaxSettings.ts:549`), so
    that a removal which read before it takes the change back.
  - Overlapping changes of a template's contents count one edition; overlapping changes of
    a plan mix cycle and price; cancelling while renewing may end a subscription
    before it starts.
  - The status that `billing.service` sets is undone by the next save of the invoice.
  - `markAsRead` on a notification that is not delivered in the app has its status taken
    back by the hook in the same save.
  - `updateContact` of a client stores a contact with a new `_id`, and any whole document that
    is written back loses the contacts added meanwhile.
  - A session of a device that took no time sends the count and not the total, which did not
    change, so that the two may come from different copies; they are still those of some
    set of sessions, and that is what is proved of them.
  - An update of a device with part of the security flags resets the others
    (`services/device.service.ts:95`).
  - A new code for a contact that is verified leaves it verified; the status VERIFIED can be
    set without a code.
  - A report of analytics is never done, for its task generates another report.
  - A socket that leaves its rooms may leave another socket of its user in rooms that
    are not listed any more.

## Proofs

TLAPS proves the following for every value of the constants. Assumptions are the
named ASSUMEs of the modules: bounds are naturals, markers such as `NoPayroll`
are no members of what they mark the absence of, entries and events are records of
integers, the set of callbacks is finite, and so is the set of request slots of `Timesheet`
(for `DraftWorkEnds`, which counts them). Of `Services`: scores are from 1 to 5 (the
schema has these limits) and weights are naturals; there are requests, and finitely
many at a time; the total of an invoice and the
amounts paid are naturals other than 0; a session of a device takes a natural number
of seconds, 0 included; the last day is a natural; the marker for no document is
neither a request nor one of the documents or copies that a proof tells it from; a user
has finitely many preferences; the channels of notifications are finitely many (the
schema lists them); plans last whole months or are custom and their prices are naturals.
`PayrollProofs` uses none.

| Theorem | Statement |
|---|---|
| `TimesheetProofs!TypeCorrect`, `DeletedFlagSafe`, `StatusAudited` | `TypeOK`, `DeletedFlag`, `StatusIsAudited` |
| `TimesheetProofs!PaymentsFollowApproval`, `MarkIsKept` | `PaidAfterApproval`, `PayrollMarkKept` |
| `TimesheetProofs!TimesheetRefinesLifecycle` | `Spec => Lifecycle!Spec` |
| `TimesheetProofs!TotalsAreKnown` | `TotalOfKnownEntries` |
| `TimesheetProofs!FewEntriesAfterDraft` | `DraftWorkEnds` |
| `TimesheetProofs!TotalsAreSums`, `PaidAgainOnlyAfterRestore` | under `[]OneCopyEach`: `TotalIsSum`, `RepaidOnlyAfterRestore` |
| `TimesheetProofs!TimesheetRefinesStrictLifecycle` | `Spec /\ []OneCopyEach => Lifecycle!StrictSpec` |
| `TimesheetProofs!OneLiveSheet` | under `[]OneCreationEach`: `OneLiveUnlessRestored` |
| `TimesheetProofs!PayrollsAreExplained`, `MarkedCollectedOnlyAfterApproval` | of `PayrollSystem`: `ItemsExplained`, `ProcessedNotCollected` |
| `TimesheetProofs!TimesheetsInSystem`, `PayrollsInSystem` | `PayrollSystem` implements `Timesheet` and `Payroll` |
| `TimesheetProofs!OneLiveSheetInSystem`, `PayrollsRefineStrictLifecycle` | of `PayrollSystem`: `OneLiveUnlessRestored` under `[]OneCreationEach`, `PayrollImplementsStrictLifecycle` under `[]OneCopyOfPayroll` |
| `ClockEventsProofs!TypeCorrect`, `DurationSafe`, `VerificationSafe` | `TypeOK`, `DurationOfEvents`, `VerifiesWhatWasSeen` |
| `ClockEventsProofs!MinutesSafe`, `NegativeSafe` | `DurationCountsMinutes`, `NegativeOnlyByMistake` |
| `PayrollProofs!TypeCorrect`, `PaymentsFollowApproval` | `TypeOK`, `PaymentAfterApproval` |
| `PayrollProofs!PayrollRefinesLifecycle` | `Spec => Lifecycle!Spec` |
| `PayrollProofs!NoneIsPaidTwice`, `PayrollRefinesStrictLifecycle` | under `[]OneCopyEach`: `PaidOnce`, `Lifecycle!StrictSpec` |
| `ModelProofs!TypeCorrect`, `OneOffer`, `HistoryKnows`, `AnswersHold` | `TypeOK`, `OneOfferPerPair`, `HistoryExplains`, `AnswerOverwrittenByOlderTest` |
| `AvailabilityProofs!TypeCorrect`, `QueryExact`, `OccurrencesFound`, `ExceptionsAreKept`, `NoRevival` | `TypeOK`, `DateRangeQueryExact`, `OccurrenceFound`, `ExceptionsKept`, `NoRevivalAfterEnd` |
| `FallbackQueueProofs!TypeCorrect`, `TasksLeaveForAReason`, `FailureToldOncePerCallback` | `TypeOK`, `LeavesForAReason`, `ToldOncePerCallback` |
| `ServicesProofs!OneOfferInServices`, `HistoryInServices`, `AnswersInServices` | of `Services`: `OneOfferPerPair`, `HistoryExplains`, `AnswerOverwrittenByOlderTest` |
| `ServicesProofs!PaymentsFollowApprovals`, `PayrollsFollowLifecycle` | `PaymentAfterApproval`, `PayrollImplementsLifecycle` |
| `ServicesProofs!DerivedAgrees` | `DerivedAgree`: averages, amounts, compliance, usage, the maps of rooms |
| `ServicesProofs!TemplatesConsistent` | `TemplateConsistent` |
| `ServicesProofs!ExpiredBySomeone` | `ExpiredBySomeoneWhoSawIt` |
| `ServicesProofs!UpdatesReach` | `UpdatesReachTheirElement` |
| `ServicesProofs!StatusesHaveReasons` | `StatusHasReason`: invoices, notifications, messages, conversations, feedback, contact forms, generated documents, analytics |
| `ServicesProofs!UndoneExplained` | `UndoneByOlderCopies`, for the eight models it names |
| `ServicesProofs!PartsExplained` | `PartsOnlyByOverlap`, for all that it names: subscriptions, payment methods, contacts, clients, reports, preferences, devices, caches, rooms |
| `KeptProofs!ListsStayKept` | `ListsKept`, for all twelve models it names |

Some theorems have a condition, because without it the code does not keep what they
say (`timesheet_total` and `payroll_twice` show two of the counterexamples).
`OneCopyEach`: no two requests hold copies of one document that they have yet to save.
`OneCreationEach`: no two creations for one worker, job and week are under way at
once. Both ask for less than the runs do that take one request at a time: requests for
different documents overlap, and so do those that only read. So the theorems say which
overlap it is that breaks the rule.

The inductive invariants, and why the properties need them:

  - *Timesheet*: a save that waits is one its operation may send (`PendingSave`):
    a status it writes differs from the one in its copy, status and flag go
    together in the update. Without it nothing can be said of what a late save
    does to status and flag, which are merged path by path. That the stored total
    stays an integer rests on the facts about sums.
  - *Timesheet, history* (`HistoryInv`): payment after approval, the payroll mark and the
    refinement need to know why a save may be waiting. What its operation asked of
    the copy was true of the timesheet once, and the audit log only grows: the source
    of the move that a waiting save makes is a status the timesheet has had
    (`Earned`), and a copy with a payroll was read after a save of the mark
    (`Marked`). So an approval that is saved late still comes after a submission, and
    a payment after an approval, though the status may be another one by then. The
    refinement is read off `Earned`: each save of a status is a `Move`, an insertion
    a `Create`, everything else a stutter.
  - *Timesheet, totals* (`TotalInv`): entries are only appended, so a copy's entries are a
    beginning of the stored list whatever is saved meanwhile. The total that a save sends
    is the sum of that beginning and of the entry the save itself pushes, which may
    find its place behind others; `SumToAgrees` is about sums that agree up to a
    place.
  - *Timesheet, end of the draft* (`DraftInv`): a bound on the entries that have come since a
    draft ended is not inductive, for more may be on their way. Those that have come
    and the requests that still hold an entry (`Adding`) are together fewer than the slots
    (`FewCome`): the request that ended the draft held none, a save exchanges one for the
    other, and no request takes a copy with an entry from a timesheet that is no draft. A
    clock event that waits is of an older version (`PendingClock`), which the check of the
    version refuses.
  - *Timesheet, one copy* (`SerialInv`): a request that holds a copy holds the stored
    document, because nobody else may save it; every guard is then true of what is
    stored, and the strict lifecycle, the exact total and the second payment follow.
  - *Timesheet, creation* (`CreationInv`): a creation that found no timesheet of its key
    finds none when it inserts, for nothing but another creation or a restoration
    makes one.
  - *PayrollSystem* (`SystemInv`): an approved timesheet was submitted, then approved, and
    approved after each time it was paid, because the last entry of its log that
    writes a status explains the status (`StatusIsAudited`). `createPayroll` collects
    what is approved when it reads; that the log says so stays true, whatever
    becomes of the timesheet before the payroll is inserted. The hours that it takes are
    a total, of which `TotalInv` says what it is the sum of. That the two services
    keep their own specifications beside each other needs no invariant: a step of one is
    a step or a stutter of the other, and `Payroll` lets its timesheets change anyhow.
  - *Rating*: scores are assigned as a whole, which a save may do only at the version its
    copy was read at, and every such save counts the version up. So a copy whose version
    is the stored one has the stored scores and the stored average, and each copy is
    consistent in itself. That two consistent pairs merge into a consistent one fails
    without the version, which is why the property alone is not inductive.
  - *Saves of documents* (`MergedFields`, `MergedPlaces`, `MergedPushes`): what `Accepted` and
    `Merged` leave, path by path: a scalar path is the copy's where the copy changed it
    and the stored one elsewhere; an array is the stored one with the elements of the
    copy pushed behind it or put at their places; an array that was assigned is the
    copy's, and then the copy was read from the stored version. The proofs about
    models start from this.
  - *Invoice* (`InvoiceInv`): amounts and status are derived in the copy, and the payments
    are pushed. A copy's payments are a beginning of the stored ones (`Begins`), so of two
    overlapping payments each sends amounts that agree with each other, and the hook
    derives them from the copy's sum: it is the pair of due and paid that agrees, and that is
    sent together or not at all.
  - *Documents* (`DocumentInv`): status and compliance change together in every method, so that
    a save that sends one sends the other (`Compliant`, of both sides of the copy, and no
    two statuses have one compliance). A copy is `expired` only if its date was past for
    the request that made it. A copy of the stored version has as many shares as the stored
    document (`CurrentShares`), without which a late revocation might lose one.
  - *Devices* (`DeviceInv`): count and total of a copy are those of some of the recorded
    sessions (`SessionsExplained`) as long as the stored document has the copy's number; a copy of a
    document that was deleted says nothing about the one registered after it.
  - *Rooms* (`RoomsInv`): the types and that the two maps are each other's inverse, which is
    inductive once both are seen as relations (`RoomsAt`).
  - *Report templates* (`TemplateInv`): elements are appended and not renamed, so the names of
    a copy are still at their places (`SameNames`) whatever is saved meanwhile. What an
    array refers to after a save is what it referred to or what the copy's did
    (`OldOrNewReferences`); the first resolves in what is stored, which loses no name, and the
    second resolves in the copy, which `Valid` has looked at and whose names are stored or
    sent with it. Sections are written as a whole and nothing refers to them. For the
    edition: a save that adds an element and does not raise the edition finds one that
    another save has raised.
  - *Lists with ids* (`ListsInv`, for tax settings and preferences): an update is stored by
    the place at which the copy had the element, while other requests move elements. It
    reaches its element because a copy of the stored version has the stored ids at
    the stored places (`SameIds`), and an update is accepted for no other copy. A copy
    either has elements pushed, with ids that nobody else gives (`Pushes`: an id is given
    once, by the request and the number of saves when its copy was made), or has elements of
    its old list only (`Taken`); so no id ever is in a list twice (`OneEach`), and what
    has an id after a save is the element that had it before. An assigned list may bring
    back an older value of another element, which the property admits.
  - *User preferences* (`PreferenceInv`) add that an id tells the key of its element and that
    a copy changes the value of no key but its own (`ChangesItsKey`); `setPreferences`,
    a fold over the keys, is followed key by key (`IsFoldOfKeys`). Before the first
    insertion every copy is a document to be created.
    A key is in the list twice only by a push of a copy that had looked for it in vain
    (`PushesNewKeys`), because an id is given for one key and a save in a slot gives each
    key one id.
  - *Paths that are no arrays* (`Sent`, `SentPaths`): after a save such a path has what the
    copy has if the copy changed it, and what was stored if not. For most models that is
    the argument, with an invariant that says which method sends what together.
  - *Feedback* (`FeedbackCopy`): a copy sends a resolution with a date that differs from the one
    it read, so that the date is sent too, and takes a date away only with the mark.
    *Generated reports*, *contact verification*, *contact forms* and *generated documents*
    need no more than which method sends which status.
  - *Notifications* (`NotificationInv`): the status is what the hook derives from the
    deliveries of the copy. It was marked because those deliveries have statuses that were
    marked, and marks are never taken back; a delivery that changes its status has its
    own method's (`DeliveryChange`), and if it is a failure another count.
  - *Messages* (`MessageInv`): a copy sends a status together with the receipt it is of, and
    what was deleted stays marked as deleted. *Conversations* (`ConversationInv`): only
    an addition makes a participant active (`Rejoins`); an archival sends a date that
    differs from the one it read, and a last message is sent with its date.
  - *Subscriptions* (`SubscriptionInv`): a method changes plan, cycle and price together or
    none of them (`BillsAs`), and cancels at once, ends nothing, or ends with what was billed
    (`EndsAs`).
  - *Payment methods* (`PaymentInv`): a request that has unset the other defaults
    knows every default that was stored since. *Primary contacts* (`MarkInv`): a copy that
    no save has overlapped knows its contact's mark, and its hook all marks but those it has
    left; a save makes every other copy overlapped.
  - *Clients and contacts* (`ClientInv`): a copy has what was read, less what its request takes,
    and what its request made (`ListChanged`).
  - *Analytics* (`QueueInv`): each report has one task, and a failed report one with three
    attempts; until a process ends, a task that was put is in the Map, has succeeded or
    has been given up, and the last one is in the Map or one was given up. *Caches* (`CacheInv`,
    `TaggedInv`): nothing has to be known beforehand but what a caller may be doing.
  - *Lists that one method pushes to* (`Counted`: responses, notes, outputs of reports): the
    length of the list is the number of requests that were saved with an element. Whether
    a save counts is decided when the copy is made; that it pushes the element, whatever was
    pushed since, follows from the copy's length as read (`OneMore`) and
    `MergedPlaces`.
  - *Lists of users* (`UserList`: receipts, participants, reactions): who was added has a
    place, and a place is of somebody who was added. A user may have several places, for
    requests that overlap push the same user, each of which has not seen the other's.
    How many is bounded by the slots, which is inductive only together with those still to
    come: the places that a user has and the requests that hold a copy to push the user are
    at most as many as there are slots (`Room`). A request that saves exchanges one for the
    other, and a user who has a place is pushed by no copy that is made later.
  - *Payments of a subscription* (`PaymentsInv`): the list has the length of the list of those
    that were given, and what a copy knows of a payment began as that payment was given: an
    undated one was given so, and is paid only if it was given as paid. A status by place
    is stored with its date or over one that has a date.
  - *Users with access* (`AccessInv`): a removal assigns the list, so only a copy of the
    stored version may (`Without`, a recursive function, is unfolded in turns); an
    addition pushes. So who has access was given it and not removed since.
  - *Failed deliveries of a report* (`FailuresInv`): the count of the first place of a
    recipient never goes beyond the failures saved for the recipient, and is not 0 if there
    was one, though each copy writes the count it read plus one; the places that overlapping
    requests push begin without failures, and the first place stays the first.
  - *Elements with ids* (`ElementsInv`, for tax settings and preferences): what is stored is what
    was added less what was removed. A save pushes ids that were never added before
    (`GivenBefore`, `KeptCopy`), and a list that is assigned is that of a copy of the
    stored version.
  - *Services* (`ServicesInv`): the invariant of the component that was chosen. A step of
    `Services` is one of that component, or a stutter.
  - *ClockEvents*: a copy whose version is the current one holds the current events,
    because every save increments the version. So a recording that passes the
    version check stores the duration of exactly the events it stores. The
    properties themselves say nothing of copies and are not inductive.
  - *ClockEvents, the loop*: `FoldLeft` is unfolded into the states of the loop
    (`LoopStates`), and what they satisfy is proved turn by turn. For minutes worked
    (`Counted`): the sum is the number of minutes of work in sessions that are over, and
    what the open session would add is the number of its minutes so far. For negative
    durations (`Sound`): the breaks to be taken off fit in the session they are taken
    off; a break that runs began in the session or was broken. The first attempt at
    this proof failed, for the property did not hold: clocking in a second time after a break
    leaves the break's time with the shorter session. The instance checked before had no
    such log; the property now names this mistake too, and the instance has it.
  - *Payroll*: a waiting save counts on a guard that was true of a stored payroll,
    and histories only grow: a save of a payment or of a failure waits only if an
    approval is in the history (`SaveHasReason`), and a stored status has its
    operation in the history (`StatusHasReason`). The refinement uses the same
    invariant: a save of an approval or a payment is a `Move` whose source status
    has been seen, an insertion is a `Create`, everything else stutters.
  - *JobOffer*: `TypeOK`, pairs belong to existing offers, a request that passed its
    test found no answer (`TestedNoAnswer`), and the invariants themselves. The
    action property follows from them in one step.
  - *Availability*: copies agree with the stored document as long as their version
    is current (`CopiesAgree`), and the dates are valid. The two properties about
    ranges are about the operators and need only the types and the validity.
  - *FallbackQueue*: of every task, the messages sent plus the callbacks that still
    stand at it are at most the callbacks there are (`ToldBound`). While the task
    is pending nothing was told; once it is deleted no walk comes to it, and a
    message costs the callback that leaves. `MinOfNaturals` gives the walk its
    next task.
  - *Sums*: `SumsExist`, and that sums of integers are integers, by an induction over
    the naturals (`NatSetInduction`) that is itself proved from the least element of a
    set of naturals (`LeastOfNaturals`), and that from the library's theorem that `<` is
    well-founded on the naturals. The induction theorems of the library take
    an operator as a parameter, which the provers cannot instantiate; this one speaks of
    the set of the numbers that have the property. The modules that need these facts have
    them each: `TimesheetProofs` for totals, `ModelProofs` for payments and sessions,
    `ClockEventsProofs` for the loop, `FallbackQueueProofs` for `MinOfNaturals`.

`ModelProofs` has job offers, what a save stores, and ratings, invoices, documents, devices,
report templates, tax settings and preferences; `ServicesProofs` has the other models, the
queue, the caches and the rooms, and the composition; `KeptProofs` has what becomes of the
lists. The last two take longest, about twenty minutes each with two provers at a time.

Three properties were false as they had been stated, and no run had shown it, because the
bounds were too small; the attempts to prove them did. That an
archived conversation has its date fails when a save that takes it from the archive, of a
copy that was not in the archive but had a date, comes after two more archivals:
`LastMessageDated` now states what holds of every state, and `DateLostOnlyByOverlap` which
step loses the date. `OtherBillingOnlyByOverlap` asked for another plan in the copy, where
another cycle or price is enough. `SecondPrimaryOnlyByOverlap` did not see that the hook of
a copy takes the mark from one contact and leaves others with it (`left`), once an
overlap has made a second one. `services` has the bounds that reach
all three.

## What is not shown

Only model-checked: liveness (`EveryTaskEnds`; the proof system does not cover
fairness); and, of the components of `services`, `TypesOK`. The invariants that are proved
have the types they need, which for most components is less than all of `TypesOK`.

What a recursive definition computes for every input is beyond induction theorems with
an operator as parameter; where this project needs such a fact, for sums and for the
loop over clock events, it is proved by induction over a set of numbers.

Violated runs show that a statement of the repository does not hold; they prove
nothing else about the service.

Not modelled: the contents of documents, messages and reports; amounts of money
other than those of invoices and subscriptions; time of day below the granularity
that a property needs; validation of requests by controllers; authentication and
access control.

The map covers an eighth of the lines of the repository, and most of the rest has no
behaviour that could be modelled faithfully:

  - `components/` (a fifth of the lines) holds classes that nothing imports, most of
    them outlines that call methods or import modules which do not exist. The one with
    state and code enough to be modelled as it stands is `RealtimeUpdates.ts`.
  - Services that cannot be loaded or fail at their first call because they import
    names that do not exist: compliance monitoring, scheduling, shifts, the static
    services, the availability service.
  - Declarations: schemas, data transfer objects, interfaces, configuration,
    modules, controllers and validators that only pass calls on.
  - Services of single reads and writes, and aggregations that only read: users,
    workers, matching, mail, statistics.
  - `schemas/application.schema.ts` has neither applicants nor timeline, so that
    updating an application's status always throws, and no index, so that two
    applications of one worker may be inserted: one line each, without a protocol.
  - `models/NotificationSettings.ts`, `DocumentTemplate.ts`, `NotificationTemplate.ts`: no code
    uses them. The first assigns nested records whose treatment by Mongoose depends on
    how they are declared; the other two have the shapes of lists and status
    marks that the modelled ones have already.

Taken from libraries as the services use them: Mongoose's saves (modified paths,
pushes, the version), MongoDB's atomic update of one document and its unique
indexes, `Map` iteration, `Date`, the restart of processes by pm2. Their
definitions are marked external in `PROJECT.json`.

## Plan

Done, in this order: timesheets, sums and their proofs; payroll and the abstract
lifecycle; the two over one database; clock events; job offers; availability; the
two queues; the shape of Mongoose documents and the models that follow it, from those
about money (invoices, payment methods, subscriptions, tax) to messages and
preferences; clients and devices; caches and rooms; the proofs about the history
of timesheets and what payroll collects; totals, one request at a time, and the
duration of a log of clock events; the components of `services` with open constants, and
the proofs about ratings, documents, invoices, devices, rooms, report templates, tax
settings and preferences, then about the other components of `services`, and about what
becomes of their lists. The order followed the money.

What could follow:

 1. The types of the components of `services` (`TypesOK`) as a theorem.
 2. The settings and template models of documents and notifications, and the services that
    cannot be loaded today, once there is code that uses them.
