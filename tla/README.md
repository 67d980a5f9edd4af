# Mansar Trucking v2: formal models

TLA+ models of this repository's own logic, the TLC runs that check them and the
TLAPS proofs about them. `PROJECT.json` lists every component, run, mutant, source
line, hazard and theorem; this file explains them.

## 1. The system

A small trucking company runs its fleet with three programs:

- **`apps/api`**, a NestJS server over PostgreSQL (Prisma, READ COMMITTED). All
  shared state is in its tables. Each request is handled by one async function;
  handlers of different requests interleave at every `await`, and the database's
  row locks, conditional updates and constraints are all that orders them.
- **`apps/mobile`**, the drivers' app: React Native on one JavaScript thread,
  with a Kotlin module that captures positions on threads of its own, a
  foreground service and a SQLite queue.
- **`apps/web`**, the admins' browser interface, with a Next.js back end for it that
  keeps no state but cookies.

Receipts are files in an S3-compatible store that phone and browser upload to
directly, with an authorization the API signs.

### Components, their state and what makes them correct

| Component | State | Operations that change it | What has to hold |
|---|---|---|---|
| Trips (`trips.service.ts`) | `trips`: status, driver, vehicle, window, text | create, update, assign, cancel, verify, close, start, complete | the lifecycle is followed; no double booking; one running trip per driver and vehicle; started only with an active linked driver and an active vehicle |
| Drivers (`drivers.service.ts`) | `drivers`: status, linked login, profile | create, update, setStatus, linkUser, unlinkUser | the driver of a running trip keeps its login; deactivation ends the login's sessions |
| Vehicles (`vehicles.service.ts`) | `vehicles`: status, plate, data | create, update, setStatus | one vehicle per plate, however it was typed; see Trips |
| Expenses (`expenses.service.ts`) | `expenses`: status, trip | two submissions, review | no verified trip with an unreviewed expense; costs only of journeys that took place |
| Receipts (`receipts.service.ts`, `storage/`) | `receipts`; the stored objects | intent, confirm | what is confirmed is what was verified; final once confirmed or reviewed |
| Refresh sessions (`refresh-session.service.ts`, `auth.service.ts`) | `refresh_sessions` | login, refresh, logout, logout-all, reset, deactivation | one usable token per family; reuse detected once; an ended family stays ended |
| Maintenance (`maintenance.service.ts`) | `maintenance_records`, audit rows | create, update, complete, cancel | terminal once completed or cancelled; chronology; the trail tells the life of the record |
| Location ingestion (`trips.service.ts`) | `trip_location_samples` | ingestLocationSamples | idempotent; per sample; only for the driver's own trip and window |
| Location queue (`TripLocationQueue.kt`) | SQLite rows and a dropped count per login | enqueue, delete, acknowledge | bounded per login; losses counted |
| Location drain (`location-drain.ts`) | pass in flight, timer, backoff | start, stop, poke, drainOneBatch | nothing deleted before it was answered for; never two passes; never stuck |
| Orchestrator (`trip-location-orchestrator.ts`) | the projection of one login: trip, capture, problem, unknown completion | initialize, start, complete, enable, retry, sign out, reconcile | capture exactly while the trip runs; sign-out only once capture is over |
| Native service (`TripLocationService.kt`, `TripLocationRuntime.kt`) | the capture session, the provider subscription, the emission filter | start, stop, pause, resume, fixes | no row behind a stop; a pause holds; whoever waits is answered |
| Background drain (`background-drain.ts`) | a fence with owner and epoch | open, close, headless task | no batch behind a sign-out |
| Session manager (mobile) | refresh token in the key store, access token, user | bootstrap, login, refresh, logout, logout-all | one rotation at a time; a late answer never replaces or revives a session |
| Browser session and BFF (web) | two cookies, a Web Lock | login, refresh, logout, proxied requests | tabs never replay each other's token; every fetch settles |
| Screens (mobile and web) | what each shows, what it has asked for | reads, presses, submissions | what is shown was so; a question is confirmed as it was asked; nothing taken is taken back |
| Wire (api client, parsers) | a call and what its user is told | calls | no row the API serves is refused by a client; "refused" means nothing was written |

They interact through rows: starting a trip reads the driver and the vehicle,
verifying one reads its expenses, a receipt follows its expense and the driver's
link, ingestion reads the link and the trip. Clients meet the server through HTTP
requests that may be lost, delayed, repeated, or answered after the client gave up.

What is hard in it (`PROJECT.json`, `hazards`, has the lines): checks and claims that are
separate statements; lock order; bulk updates that work from a snapshot; work done between
two transactions; requests that take effect after their caller gave up; half-done batches;
a bounded queue shared by logins and threads; timers against a stop; a capture session, an
orchestrator and a sign-out that wait for each other; screens that act on what they were
told earlier; and that each of these ends at last.

## 2. Modules

```
FleetTables                rows, constraints and state tables shared by
  TripRules                the business rules, one atomic step per operation
  Fleet                    the same operations as concurrent transactions
    FleetProofs            ... implement TripRules, which keep their invariant
SessionFamilies            what a family of refresh tokens promises
  RefreshSessions          the transactions on refresh_sessions
    RefreshSessionsProofs  ... implement SessionFamilies
  SessionEndpoints         what the promise gives a client that knows its tokens only
    PhoneSession           the driver app's session manager
      PhoneProofs          its proofs, and those of DriverTrip
    BrowserSession         the admin's browser: cookies, tabs, the lock they share
      WebProofs            its proofs, and those of TripPage and TripRoute
ReceiptRules               what a receipt promises
  Receipts                 intents and confirmations around an unlocked HEAD
    RecordsProofs          ... implement ReceiptRules; and the proofs of Maintenance
                           and RecordForms
  ExpenseView              the driver's screen of an expense, picker and upload
  ExpensePage              the admin's page of an expense
    ScreenProofs           the proofs of both, of ListScreen and of WireContract
LocationHistory            what becomes of a captured position
  LocationDelivery         queue, one pass, network, ingestion handler
    LocationDrain          when passes begin: pokes, timers, backoff
      LocationProofs       ... implements LocationHistory; the proofs of SamplePath
LocationQueue              the queue's cap and dropped count, two logins
FixAdmission               a fix from the provider to the queue
BackgroundDrain            the headless task and the sign-out fence
CaptureService             the capture session: bridge, main thread, provider, monitor
  DeviceProofs             the proofs of these four and of TripTracking
SamplePath                 one position through every place that may refuse it
TripTracking               the orchestrator between server, bridge and driver
TripRoute                  the recorded route an admin pages through
Maintenance                the work log of the vehicles
TripPage, DriverTrip       the page of a trip: the admin's, the driver's
ListScreen                 the lists of both clients
RecordForms                the forms of vehicles, drivers, trips and maintenance
WireContract               one call: row, projection, parser, what the user is told
MCFleet, MCRequests, MCReceipts, MCLocationQueue, MCClients, MCDevice, MCCapture,
MCTracking, MCScreens, MCJourney      instances for TLC
```

Indentation means "implements or extends". A definition whose comment begins with
"Variant" is a mutant: what the code would do with one plausible bug. No
specification uses them.

### The API transactions (Fleet, RefreshSessions, Receipts)

One action per statement that locks, reads what a later statement relies on, or
writes; `req[p].at` is the statement request `p` runs next. A transaction of these
services writes with its last statement (a claim or an insert), so that statement
and the commit are one step: until the commit nobody sees the row, and from the
write on nobody else can claim it. `SELECT ... FOR UPDATE` and a matching `UPDATE`
wait for the row's lock; an `UPDATE` whose condition does not match the committed
row does not wait and claims nothing. `Rollback` (and `Fail` in Receipts) lets any
transaction fail at any statement. Transactions that lock nothing before a single
conditional claim are one action: what they read before the claim only chooses
which error to answer, and the claim repeats it.

- **FleetTables**: the columns guards read. A window is the set of instants it
  covers, so half-open ranges overlap exactly when sets meet. The exclusion
  constraints and partial unique indexes of the migrations are `ScheduleConflict`
  and `RunningConflict`; the claims of assign and start fail on them.
- **Fleet**: assign (driver row, vehicle row, claim), start (driver row, trip
  read, vehicle row, claim), complete, cancel (one claim per source state, in the
  order of `CANCELLABLE_FROM`), verify (trip row, pending expenses, claim), both
  submissions, unlink (driver row, running trip, update), and the single claims.
- **RefreshSessions**: login (read and password check, then insert), rotation
  (claim, user, insert; or classification of a miss and the reuse incident),
  logout, logout-all, password reset and deactivation. A revocation of many rows
  is two steps, `RevokeBegin` and `RevokeFinish`, because a READ COMMITTED
  `UPDATE` picks its rows from a snapshot, waits, and tests each again.
- **Receipts**: `lockScope` as a driver or an admin; intent (write and commit, then
  sign) and confirmation (capture, HEAD with nothing locked, lock again, claim).
  `Upload` by anyone with an unexpired authorization, review and relinking may
  happen at every point.

### Positions (LocationDelivery, LocationDrain, LocationQueue)

- **LocationDelivery**: one action per stretch between two awaits of `runOnce`
  (read, post, record the attempt, delete), requests in flight (`call`) that go on
  when their pass gave up, and the ingestion handler: link and trip read once
  (`Receive`), one statement per sample (`Ingest`; the insert and the
  classification of a taken id are one step because stored rows never change), an
  answer or a failure at any point (`Respond`). Capture, completion of trips, unlinking
  and the death of the app happen at any time. A sample in `Late` was recorded
  outside the window of an ended trip; the window is checked before the insert,
  so a late sample that was stored while the trip ran is refused if sent again.
- **LocationDrain**: `createLocationDrain`'s coordinator. `Drain` is `poke` and
  `drainOneBatch`, called by the screen, by the native kick and by the headless task.
  `timer` is the index of the delay armed. "blocked" stands for the `blocked-*`
  outcomes and `queue-error`, which are handled alike. A `progress` that deleted
  nothing cannot occur: `corresponds` demands an answer for each sample submitted.
- **LocationQueue**: the table shared by the logins of a phone, and
  `acknowledgeDropped` as the two statements it is, beside `enqueue` on the
  capture thread.

### The phone (PhoneSession, CaptureService, FixAdmission, BackgroundDrain, TripTracking)

- **PhoneSession**: one action per stretch between two awaits. A task is a call of
  the manager or the rotation that calls share; `mutations` is the promise chain
  every use of the key store goes through; `fresh` is the comparison of the
  generation a task captured with the present one. A request may be lost before or
  after it was served, or be served after its sender gave up (`late`).
- **CaptureService**: three threads around one monitor: bridge calls, the service's
  main-thread messages, the provider's answers. A session is an object; two of them
  may name the same owner and trip (`endIfActive` compares values).
- **FixAdmission**: `handleFix` holds the monitor while it checks, decides, inserts
  and accepts. A fix is handled however late it was dispatched: after a pause, a stop,
  or the start of an equal session. Places lie on a line.
- **BackgroundDrain**: `openBackgroundDrain`, `closeBackgroundDrain` and the headless
  task's batches. The task's wall-clock budget may end it before any batch.
- **TripTracking**: every operation of the orchestrator against the server, the
  bridge, the main thread and the provider, from one login to the next.

### The clients (BrowserSession, the screens, RecordForms, WireContract)

Screens are React components: a press is one step with its state updates, an answer
comes at any moment, and what a component remembers in closures or refs (a cancelled
effect, a mounted flag) is a field of the request. Each screen's module holds
what the API does as far as the screen can tell: through ReceiptRules for expenses,
as a few statuses for trips, as rows for lists and forms.

- **ExpenseView** and **ExpensePage**: attach (pick, authorize, upload, confirm), review,
  preview; what was lost, and what the other section did meanwhile.
- **TripPage**: the text, the assignment with its searches, the lifecycle's question.
- **DriverTrip**: start and completion through the orchestrator, whose lost answers are
  settled by one read.
- **ListScreen**: one effect that reads a page under a filter, page turns, filing and
  finishing of rows. It has the moment between state updates queued after an await and
  React's commit.
- **RecordForms**: forms of four tables. Vehicles, drivers and trips send every field
  they hold, a job of maintenance only those that differ from what its form was filled
  with. A plate is settled into one spelling before the unique key sees it.
- **WireContract**: per resource, which values the schema, the column, the projection and
  the client's parser tell apart, and how a call ends: expected status, refusal,
  unreadable body, no answer.
- **TripRoute**: offset pages over rows that still arrive, latest position, count; of
  the list on screen, which rows it shows and on how many lines.
- **SamplePath**: the filters from the provider to the admin's map, in both directions.

## 3. What TLC checks

Every run visits every reachable state of its instance. Six of the runs hold several
instances: Init picks one, and what the others have stands still. Those of
`fleet_races` are of one module, under different bounds; those of `requests_races` are
the two halves of the API that lock rows. The others hold parts that share no state and
stand together because they share constants or belong to the same side of the system; a
property of such a run is a property of the part it names.

| Run | Instance | Asks |
|---|---|---|
| `fleet_races` | 2 trips, 2 drivers, 1 vehicle, 1 login. Either 3 requests, 1 window, 1 expense; or 2 requests, 2 windows back to back, no expense | do concurrent requests keep the business rules (`RefinesRules`) and what they rely on (`FleetInv`); no lock cycle; cancellation complete; bookings exclusive for overlapping windows, and only for those (in `FleetInv`) |
| `requests_races` | 2 requests, fair. Either 2 families and 2 rows of one login; or one family and a driver to deactivate; or the fleet with 1 trip, 2 drivers, 1 window | do rotation, replay and every kind of revocation implement `SessionFamilies`, detect reuse once and never rewrite why a token was revoked; is every request answered, on both sides, those that wait for their first row included |
| `clients_parts` | drain: 2 positions of a trip, 1 request, queue of 2, batches of 1, 2 delays. Browser: 2 tabs, 1 family of 2 tokens, 1 late request | one pass at a time whoever pokes, no timer without a reason, no poke forgotten, every pass ends, a running drain empties the queue; tabs never replay, every fetch settles |
| `device_parts` | session: 2 calls, 2 rotations, 2 families of 2 tokens, 1 late. Queue: 2 logins, 4 positions, cap 2. Headless task: 2 drivers, 2 batches, 5 epochs. Service: 3 sessions, 2 callbacks, 1 caller. Fixes: 2 captures of a trip, 3 places, 3 ticks, 1 waiting fix | `PhoneInv`, `NoResurrection`, `ReplayNeedsALoss`; `QueueInv`; `NoBatchBehindSignOut`; `CaptureInv`, `ResumeHonest`; `NoRowBehindAStop`, `SuppressionJustified` |
| `tracking_overlaps` | 1 trip, 2 operations | `TrackingInv`: a capture ends with the session it was for, "not tracking" is true, in front of the driver the queue drains |
| `screens_parts` | driver's trip: 2 reads, 2 calls. Expense view: 2 images, 3 presses. Expense page. List: 2 rows, pages of 1, 2 asked. Forms: vehicle and job, 2 names, 2 calls, 1 change by others. Wire: numbers of 2 digits, 1 row | `ListInv`, `ExpenseViewInv`, `ExpensePageInv`, `NothingTakenBack`; `ScreensInv` (`DriverTripInv`, `FormsInv`, `WireInv` in their parts), `NothingUndone` (what the driver's screen shows, what a save writes) |
| `journey_parts` | delivery: 3 positions of 2 trips, one late; queue of 2, batches of 2, 2 requests in flight. Sample: 3 positions, batches of 2. Route: 3 positions, pages of 1, 2 runs. Trip page: 2 candidates, 2 sent, 1 read. Receipts: 1 expense, 2 drivers, 1 login, 2 declarations, 2 requests. Workshop: 1 record, 2 requests, 2 days, 4 audit rows | `DeliveryInv`, `DeliveryRefinesHistory`; `ReceiptsInv`, `RefinesReceiptRules`, `WriterIsLinked`; `WorkshopInv`; `JourneyInv` (`SamplePathInv`, `RouteInv`, `TripPageInv` in their parts) |
| `sessions_deactivation` | 1 login, 1 driver, 1 family of 2 tokens, 2 requests | *fails:* does a deactivation leave no session alive |
| `receipts_authorization` | 1 expense, 2 requests | *fails:* is no authorization signed for a confirmed receipt |
| `queue_gap` | 2 logins, cap 2 | *fails:* is every lost position shown before its count is cleared |
| `tracking_signout` | 1 trip, 2 operations | *fails:* is capture over when the driver is signed out |
| `capture_resume` | 4 sessions, 2 callbacks, 1 caller | *fails:* is a resume answered only once the provider listens |

Each property of a passing run has a mutant: the definition named in `PROJECT.json` is
replaced by its "Variant" (a lock not taken, a claim without its condition, an
unchecked answer, a poke forgotten), and the same run finds the property violated.

**Bounds.** They are the constants above; a "bound" comment marks each one a guard
uses. Three requests are the smallest number for which one holds a row, one waits for
it and one comes between two of their statements; a second trip makes them compete for
a driver and a vehicle, and a second window makes bookings that do not overlap. Liveness
is checked with two requests. Two families tell a user's bulk revocation from a
family's, and one login from the next; in `requests_races` ids of families and rows are
used up in one order, which they allow because nothing tells them apart. A queue of two
with three positions overflows, a batch of two can be half ingested, and two trips make
a batch stop at the boundary. Two calls and two rotations let a rotation be joined,
overtaken and followed by another. Two rows on pages of one make every page turn
matter, and a third row can arrive in front of both. Parsers judge the rows of a page
one by one, so one row is enough for the wire. In the forms a trip behaves like a job
where it ends and like a vehicle in what it sends, so the run has those two; `Entity`
also takes "driver" and "trip". Interchangeable names are symmetric in the runs without
liveness, and names of parts that never move together may coincide.

The proofs of section 4 remove these bounds from every safety property, which is why the
instances can be small; only liveness rests on them.

**Deadlock** is checked in the runs of fleet, requests, drain and browser, receipts
(`receipts_authorization`) and queue, where something can always go on. The other runs
say `CHECK_DEADLOCK FALSE`: a part may come to rest (a screen with nothing to do, a trip
that is closed) or use up its bounds. That nobody waits for somebody who waits for him is
a property: `NoLockCycle`, `MutationsServed` (in `PhoneInv`), `WaitersServed` (in
`CaptureInv`), `EveryPassEnds`, `EveryFetchSettles`.

### Fairness

- `SF_vars(Proceeds(p))` for each API request (MCRequests): a handler is one `async` function
  that awaits statement after statement, and PostgreSQL serves those who wait for
  a row's lock in turn, so a request whose next statement becomes possible again and
  again is not passed over for ever. That includes its first: `Queues` and `TakesRow` are
  the requests that meet a locked row. `Rollback` and new arrivals are not fair.
- `LocationDrain` uses weak fairness: timers fire (`TimerFires`), native calls
  settle (`EndPass`, `ProceedPass`), the deadline of `withDeadline` ends a request
  nobody answers (one of the steps of `ProceedPass`), handlers on the server run
  (`Serve`): this is `PassFairness`. `IdlePoke` is the orchestrator's 30 s heartbeat while a trip runs in the
  foreground. `Recovers` is fair: one day the network works. Without it nothing can be
  promised; captures, stops, restarts and completion are not fair.
- `BrowserSession`: weak fairness of answers (every fetch settles or fails) and of a
  tab going on, strong fairness of entering the lock, which the browser grants in the
  order of requests. Pressing, closing tabs and losing answers are not fair.

## 4. What TLAPS proves

For every number of requests, trips, drivers, vehicles, sessions, receipts, positions,
logins and so on (`PROJECT.json`, `theorems`):

| Module | Theorems |
|---|---|
| `FleetProofs` | `RulesInv` of the business rules; `FleetInv`, and from it `Settled`, `CostsOfJourneys`, `RunningDriverLinked`, `NoDoubleBooking`, `NoInvariantError`, `CancelNeverMissesACancellableTrip`, `LockStages`, `NoLockCycle`; the transactions implement `TripRules` |
| `RefreshSessionsProofs` | `SessionsInv`, and from it `OneActivePerFamily`, `OneReusePerToken`, `RevocationIsFinal`; the transactions implement `SessionFamilies` |
| `RecordsProofs` | `ReceiptsInv`, and from it `ConfirmedWasHeld`, `WriterIsLinked`; the transactions implement `ReceiptRules`; `WorkshopInv`; `FormsInv`, and of every step `FormsStep` |
| `LocationProofs` | `DeliveryInv`; the delivery implements `LocationHistory`, the drain implements the delivery, so that the drain too loses nothing (`PositionsKept`); `TimerJustified`, `PokeHonoured`; `SamplePathInv` |
| `DeviceProofs` | `QueueInv`; `NoRowBehindAStop`, `SuppressionJustified`; `NoBatchBehindSignOut`; `CaptureInv`, `ResumeHonest`; `TrackingInv` |
| `PhoneProofs` | `PhoneInv`, `NoResurrection`, `ReplayNeedsALoss`; `DriverTripInv`, `NeverBack` |
| `WebProofs` | `TabsNeverReplay`; `TripPageInv`; `RouteInv` |
| `ScreenProofs` | `ListInv`; `ExpenseViewInv`; `ExpensePageInv`, `NothingTakenBack`; `WireInv` |

**The transactions of the API** share one argument. What has to hold is true between
two statements of a transaction only because of what that transaction has locked or
read, so the properties alone are not inductive. `Holds(p)` says, for every place a
request can be in, what it relies on: which rows it has locked, and which facts about
them its earlier statements established (a driver still active, a trip still
completed, a token still active). The invariant is the typing, the rules about the
tables, and `Holds(p)` of every request. For a step of request `p` three things are
proved:

1. the tables still obey the rules: the step is a step of the abstract
   specification, or leaves the tables alone;
2. `Holds(p)` afterwards, from `Holds(p)` before and the step's guards;
3. `Keeps(q)` for every other request `q`: the step leaves `q`'s state, the rows `q`
   has locked and their locks as they were. `KeepsHolds` derives `Holds(q)` from it. In
   Fleet the one fact a request relies on without a lock, that a trip it failed to
   cancel as a draft is no draft, is stable because no step makes a draft.

`LockStages`, with `FleetInv`, is what makes `NoLockCycle` provable: whoever holds a
vehicle or a trip waits at most for a row later in the order DRIVER, VEHICLE, TRIP, so
among any set of requests one of the latest stage waits for nobody in it. In
`RefreshSessions` a bulk update relies on the rows it picked not having become fresh
again (`Holds`), and it changes only rows that nobody else has locked, because it waits
for them (`RevokeFinishStep`). For the refinement every step is of one of three kinds
(`KindsOfSteps`): it leaves the rows alone, only revokes, or inserts.

**Maintenance** locks nothing beforehand. `WorkshopIndInv` adds to `WorkshopInv` what a
request that claimed its record relies on (`Claimed`: it holds the row until its audit
row is written, and commits what it asked of the row that is still committed) and what
one that was refused has seen (`Asked`: of a record that is over it is refused for good).

**Forms.** `FormsIndInv` adds to `FormsInv` what is under way: a page that shows a row
shows one that exists, and was filled from stored values (`FormFits`); a call that is on
its way carries, of the fields its admin did not type, nothing in the form of maintenance
and what the form was filled with in the others (`SendsWhatWasTyped`). The latter needs
that text and value convert into each other and back, which holds for stored spellings
and whole minutes only: hence the rows are kept in the stored spelling, and the form of a
job, which shows the minute of a mark that has seconds, must not send it (`Differs`).
`FormsStep`, that a save writes what was typed, follows from it at the step that serves
the call.

**Positions.** `DeliveryInv` is inductive as it is: `CallInv` says what a request in
flight has stored and answered so far and how that relates to the pass that sent it,
`PassInv` that what a pass is about to delete was answered for, sample by sample. Two
facts about data are lemmas on their own: `BatchLemma`, that the batch `Read` picks
exists, is made of the oldest rows and is of one trip, and `OldestLemma` and
`EvictedLemma` for the row a full queue evicts. Both need that a set of numbers has a
least one, which the library's well-founded induction gives for a definite set.
`DrainSteps` shows that a step of the drain moves the delivery as one of its own steps
or not at all; the timer's lemma then only looks at the coordinator. In `QueueIndInv` the
counts are right because rows and losses are disjoint, finite and named by different ids.

The path of a sample takes one fact about data, that whatever the capture filter keeps is
admitted by every later place (`UsableAdmitted`), and one about the batch: `PathIndInv` keeps
queue and tables to one row per id, so a batch in strict order names no id twice, the
schema admits it, and an answer that names the same ids in the same order can only be
refused when it was damaged on its way.

**Fixes and the headless task.** A fix is handled under the monitor, so nothing comes
between its check, its insert and its acceptance: no stop and no pause, which wait for
the monitor (`NoRowBehindAStop`), and no resume, which needs a pause. `FixIndInv` adds
that the emission filter is what the queue last stored for the capture, except between
insert and acceptance (`Lags`), when the fix being handled is the one stored. In `ErrandIndInv`
epochs of the fence only grow, so a task that began before a sign-out carries a smaller
one than the fence from then on; that is the comparison each batch makes.

**The capture service.** Its main thread handles messages that were posted for an
instance which may be gone when they arrive. `CaptureIndInv` therefore has three layers.
`MessagesFit`: the queue of messages alternates between "create" and "destroy", so each
start command finds an instance. `OnItsWay`: a session that was claimed is in the hands
of the bridge, in a message, or served (`Serves`). And what the instance knows of the
session it serves: an attempt to resume it is pending only while it is paused
(`AttemptsArePaused`), its drain is kicked unless it is (`ServedFaithfully`), a subscription is for the session owned and
no other (`OnlyForItsSession`), and there is one whenever positions are wanted
(`SubscribedAsNeeded`). The last two hold only of an instance asked to resume nothing but what it serves
(`~service.ahead`; see `capture_resume`). `WaitersServed`, that whoever waits for an attempt waits for one that will
be decided, holds in any case.

**The orchestrator.** `TrackingInv` speaks of an orchestrator at rest; `TrackingIndInv`
says what operations in flight owe. Generations do the work of locks: an operation that
is no longer `Live` publishes nothing.

- `Fenced`: once a sign-out or a loss has begun no operation is live and nothing
  captures, unless the driver began something since (`overlapped`); a start answered
  behind the fence has its session stopped at once.
- `StopsInOrder`: a proof that capture stopped is about the past. If something captures
  again, whoever started it is behind the proof in the queue of the native-modules
  thread, so its answer comes later, and it says so. Hence `Queued`, that each call is in
  that queue once, and `Waiting`, the same for resumes.
- `QuietIsDecided`: "inactive" over a running capture does not last, for some operation
  will still publish what it finds, or stop the capture.
- `DrainOwed`: a foreground that did not start the drain is owed it by an operation.

`GoesOn` and `Finishes` say what an operation must leave true that awaits something else,
or ends; the lemma of each answer is then about where its branches lead.

**Screens.** What makes a screen right is the order in which answers may come in.

- `ListIndInv`: between a page turn or reload and the effect that reads, everything in
  flight is older than what is wanted (`Behind`); afterwards every request still adopted
  is the one in force, and one that counted after a filing has counted the filed row
  (`InStep`).
- `ViewIndInv`: what is shown, or on its way, is not ahead of the API
  (`AheadOfNothing`); an attempt begins only on a screen that has been read, so that no
  older read can hide what it does (`Exclusive`); whenever no attempt is at the API the
  screen knows what the attempts reached, whichever answers were lost (`UpToDate`).
- `PageIndInv` has the same two bounds (`PageAhead`, `PageUpToDate`). Its sections ask
  for reads that nobody withdraws, so between them stands `PageOrder`: which answer may
  still be on its way to which state of the page. `NothingTakenBack` follows.

- `RouteIndInv`: on an open page one request is in force, and controls are held for it
  alone (`Awaited`). A page that is added continues the list (`Continues`): rows only
  arrive, so a row's place in the route only grows, and a row that was read for the first
  page has been shown or still lies ahead. When "Load more" is withdrawn after an empty
  page, places have no gap (`EmptyPage`), so no such row lies behind it.

What an action of a screen does at the API is a step of `ReceiptRules` (`ViewIsApi`,
`PageIsApi`), and that only moves on (`ApiMovesOn`).

- `TripPageIndInv`: a question about the lifecycle is open exactly while its change is
  under way, one at a time (`OneQuestion`); while text or assignment may still be
  answered nothing but a cancellation can have been asked about (`OnlyCancellable`), for
  the page shows the trip as planned all along; the read of a driver that counts is of the
  driver on the page (`DriverFollowed`). So the question confirmed is the one asked.
- `DriverTripIndInv`: what is shown, or on its way, was so (`OnlyWhatWas`); question and
  call are about what is shown (`AboutTheShown`); a completion is asked of a trip that
  runs, and its answer is later than what it asked about (`MovesOn`), which is why the
  stage shown never goes back.
- `WireIndInv`: a call is on its way, refused, or answered with what its resource
  projects (`CallFits`), and only a client that has a parser for the answer makes it
  (`MayAsk`). That each parser accepts what the projection of its rows can be is a lemma
  per resource.

**The phone's session.** `PhoneInv` says nothing of a task in the middle of something,
so it is far from inductive. `PhoneIndInv` adds four parts:

- `Shapes`: what a task carries at each await. Whoever presents a token has one; only a
  login carries an identity before it is stored.
- `SameIdentity`: there is one login behind the store, the published user, the access
  token and every task that is still fresh. A task of another login is not fresh.
- `Overtaken`: behind a rotation that writes although it is stale waits the operation
  that overtook it, still fresh, and it empties the store. `NoResurrection` is this at
  the step of the write.
- `Lineage`: families tell logins apart. A family is born with one login; the token of
  a login not stored yet shares its family with nothing else; a token that is being
  presented is the stored one, or of another family than the stored one.
  `ReplayNeedsALoss` follows: what a detected replay revokes is neither stored nor about
  to be.

Each action cites a lemma for what it does: `MoveStep`, `SettleStep`, `JoinStep`,
`ForgetStep`.

**The browser.** Tabs share two cookies and a lock, and any tab may be closed at any
await. `BrowserIndInv` says that beyond the queue an attempt holds the lock
(`UnderLock`), that what is posted is what the cookies hold, unless they hold another
login (`PostedIsHeld`), and that a login whose answer is under way shares its family with
nothing else (`LoginApart`). A tab that posts then presents the token that is current for
its family or one of a login that is over; neither is a replay that costs a tab its
session.

**Assumptions** used: the values for "none", "nobody", "unborn" and "ended" are not ids,
tokens or outcomes; an expense belongs to a driver, a position to a trip; caps and batch
sizes are positive; the phone has at least one rotation to share. All are named next to
the constants, and TLC evaluates them on the runs. The theorems of FixAdmission, of the
screens, the browser and the wire state theirs themselves (`ViewConstants`,
`PageConstants`, `BrowserConstants`, `FormConstants`, `WireConstants`, `RouteConstants`,
`PathConstants`): sizes and bounds are numbers, a page and a batch hold at least one row,
the expense on the screen is an expense, a request belongs to a tab, and the values for
"none" are no tokens, drivers, marks, rows or values.

**What proving found.** Three models said something the code does not, which no bounded
run had shown. In ExpenseView and ExpensePage a read never sent could be taken for the
answer "no receipt". In BackgroundDrain a sign-out with no headless task running marked
one as running behind it. All three now follow the code. In the capture service the last
step of the proof had no answer to a second start command queued for one instance; its
shortest behaviour needs a fourth session, one more than the run had, and is the
divergence 5 of section 6.

**Model-checked only.** Liveness (`RequestsAnswered`, `EveryPassEnds`, `QueueDrains`,
`EveryFetchSettles`) and ENABLED are out of the prover's reach. Every other property of
a passing run is proved.

## 5. What is not modelled

- The audit log (append-only, never read back, except for maintenance, whose trail a
  property reads), signed access tokens, guards and throttling, the CLI, configuration
  and health probes; texts, amounts, wording, headers and URLs, except where a parser
  judges them (WireContract). Login forms, and the tracking section of the driver's app.
- Deadlock between two bulk updates of one user's sessions: PostgreSQL may lock their
  rows in different orders and then aborts one, which the model has as `Rollback`.
  `NoLockCycle` is about explicit row locks, whose order the code chooses.
- The clock. A window is a set of instants nobody compares with "now"; tokens lapse,
  authorizations expire and timers fire at any moment, in any order. Login reads the user,
  hashes, and inserts later; a password reset or deactivation in between is seen only by
  the models of the API.
- What a part does to another part's tables is split where the models meet:
  `SetDriverStatus` of Fleet leaves sessions to `Deactivate` of RefreshSessions, whose
  `UnlinkUser` leaves running trips to Fleet.

## 6. Where the code and its documentation disagree

1. **Deactivation against a rotation in flight** (`sessions_deactivation`). A rotation
   that claimed its token before the deactivation's bulk `UPDATE` took its snapshot
   commits first; the update then skips the rotated row, and the replacement is not in
   its snapshot. The family goes on after the driver is inactive, where the comment
   says that no session survives.
2. **An authorization after the confirmation** (`receipts_authorization`). `uploadIntent`
   commits and signs afterwards; a confirmation between the two leaves a confirmed
   receipt for which an upload is still authorized.
3. **A loss nobody saw** (`queue_gap`). `acknowledgeDropped` clears whatever the count
   has become since it was shown.
4. **Signed out with a capture running** (`tracking_signout`). An operation begun while a
   sign-out uploads its last batch starts capture again behind the proof that it stopped.
5. **Told too early** (`capture_resume`). A start command of an earlier session that is
   still queued for the instance retires the subscription a later resume waits for; the
   resume is answered as applied although nothing listens.

Met on the way, in the models as the code does it:

- A caller that joined a rotation of the login before is told "invalid", and `bootstrap`
  or `refresh` then forgets the session that was just opened; ADR 0008 and
  `session-manager.ts:24-30` promise that a late result does not touch a newer session. The
  store and the memory still agree, so no property above fails.
- In the browser, a refresh answered after a logout sets its cookies again; a failed logout
  keeps the access cookie.
- An expense filed without an idempotency key, a driver or a trip created, may be filed
  twice after a lost answer; a second vehicle is refused by its plate. An odometer beyond
  a four-byte integer passes the schema and fails in the database.
- `endIfActive` compares sessions by value: an old instance's end can end an equal
  successor, and a late fix of the old instance is admitted for it. A start, a stop and a
  start before the first `onStartCommand` let the first instance adopt the second session,
  which its own start command then serves once more.
- The route is captioned "oldest first" (`trip-location.tsx:307`), but rows delivered late
  are appended behind newer ones when more is loaded (`trip-location.tsx:240`).
- A completion's pause is undone by a reconciliation that runs at the same time
  (against the comment at `trip-location-orchestrator.ts:1008-1011`). After a sign-out
  that could not prove the stop, the drain stays stopped and the fence closed.
- The headless task's single flight does not look at the owner. An upload goes on after
  its screen is gone, under the next login's token.
- Vehicle, driver and trip forms send all they hold, so a later save puts back another
  admin's correction; the form of maintenance was written to avoid that. Typing during a
  save is overwritten by its answer. A create answered after its form was left still opens
  the new page. Saving one record of maintenance reads the list again and drops what was
  typed into the others. A page past the last one says that nothing matches, and has no
  way back.
