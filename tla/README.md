# Verification of agendamento-saas

TLA+ models of the scheduling API in `apps/api` (NestJS, Prisma, PostgreSQL) and of
the web application in `apps/web` (Next.js, React), the TLC runs that check them on
small instances, and TLAPS proofs about them. Paths below are relative to the
repository; line numbers are those of the commit the models were translated from.

## 1. The system

A company (tenant) has employees, services, clients and appointments.
Staff manage appointments in a panel over an authenticated API; clients book on a public
page. E-mails are not sent by the requests: they are rows of a table
(transactional outbox) that a worker empties. Every instance of the API runs
the same code, the cron jobs included, against one PostgreSQL database.

| Component | State | Operations | Hard behaviour |
| --- | --- | --- | --- |
| appointments (`appointments.service.ts`) | `Appointment` | create, updateStatus, cancel, reschedule; reads | validation on a read that precedes the transaction; advisory lock of the employee; unconditional updates by id |
| audit (`appointment-audit.ts`) | `AppointmentAuditLog` | recordAppointmentAudit | same transaction as the change; refuses an actor whose role changed |
| public booking (`public-booking.service.ts`) | `Client`, `Appointment` | createAppointment; window, services, slots | two advisory locks; client found or created by phone |
| clients (`clients.service.ts`) | `Client` | create, update, remove, restore | the staff's changes take no lock |
| Turnstile (`turnstile-verification.service.ts`) | none | verify | external call with a timeout; configurations that must refuse |
| availability (`availability.service.ts`) | `AvailabilityRule` | getAvailableSlots, setAvailability | replace by delete and insert; slots are read outside the transaction that uses them |
| blocked times | `BlockedTime` | create, remove | check, then insert, without a transaction |
| queue (`notification-queue.service.ts`, `notifications.service.ts`) | `NotificationDelivery` | enqueueEmail and five kinds of e-mail | upsert by `dedupeKey` in the caller's transaction |
| worker (`notification-worker.service.ts`) | `NotificationDelivery`, `reminderSentAt` | claim, validate, send, mark, recover | several instances, crashes, late SMTP answers, retries |
| e-mail (`email.service.ts`) | none | sendMail | accepted, refused, or unknown |
| reminders (`appointment-reminders.service.ts`) | none of its own | one job per minute | several instances, moves and cancellations meanwhile |
| team members | `Membership`, `Employee.membershipId` | create, updateRole, linkEmployee | role and link are checked before the transaction |
| auth | `User`, `Tenant`, `Membership` | register, login, guards | unique slug and e-mail between check and insert |
| employees, services, tenants, logo | their tables | CRUD, setServices, upload | replace under concurrency, unique names |
| public page (`agendar/[slug]/page.tsx`, `turnstile-widget.tsx`) | React state, the widget's token | choose, book, retry | answers out of order, aborted requests, lost answers, tokens good for one use |
| panel: `configuracoes`, `funcionarios`, `horarios`, `agenda`, `login`, `panel-shell.tsx` | React state, `localStorage` | forms, lists, saves | handlers that go on, after an await, with the state of an older rendering; nothing is aborted; windows share the session |
| dashboard, notification list, users, health, the other pages | none | reads, a list with a form | none of their own |

Components talk through the database alone, except for the calls inside a
request and those of a page to the API. What orders them is: the advisory locks
`(tenant, "client:" phone)`, `(tenant, employee)`, `("notification-delivery", id)`
and `("appointment-reminder", id)`, unique keys, row locks, and the atomicity of
a transaction. PostgreSQL runs READ COMMITTED (Prisma's default): each statement
sees what is committed when it runs.

What makes each part correct:

* appointments and public booking: no two live appointments of an employee
  overlap; a client's public bookings do not either; a cancelled appointment
  stays so; every change has its audit row and its e-mail, and no other; the log is
  a chain; one client per phone; no deadlock.
* queue and worker: a row is sent by one instance at a time; a settled row does
  not move again; a message the server accepted is not sent again; no row is
  forgotten.
* reminders: one reminder per appointment and start, but for the faults that hide an
  accepted message; `reminderSentAt` tells the
  truth about the present start; a moved appointment can be reminded of its new
  start.
* availability: a slot that was booked lies in the working hours and outside blocked
  times; a replacement replaces everything; intervals do not overlap.
* the people of a tenant: only STAFF members are linked to employees; nobody
  loses a link by a request that knew nothing of it; an employee's services are
  replaced as a whole; a unique key is broken only in a race.
* public page: a token goes out once; what is booked was verified, is what was on
  show and is told to the visitor; what he is told is booked; no spinner stays.
* panel: what a page shows, and what it sends, belongs together; no edit is lost
  unseen; a save changes what was edited and nothing else.

## 2. The modules

| Module | Models | Role |
| --- | --- | --- |
| `Calendar` | what the API promises of appointments, each operation one step | abstract specification |
| `Booking` | appointments, audit, public booking, clients, the enqueueing side of the queue | core; implements `Calendar` |
| `Delivery` | the life cycle of a `NotificationDelivery` row | abstract specification |
| `NotificationWorker` | queue and worker, e-mail outcomes | implements `Delivery` |
| `Reminders` | reminder job, worker, appointment changes, settings | composition; implements `Delivery` |
| `Schedule` | availability, blocked times, and the bookings and moves that read them | core |
| `Administration` | registration, team members, an employee's link and services, the slug | core |
| `Turnstile` | `verify` as a function of configuration, token and Cloudflare's answer | used by `PublicPage` |
| `PublicPage` | the public page, its widget, the visitor, the API behind it | composition |
| `SettingsPage`, `EmployeesPage`, `AgendaPage`, `HoursPage`, `SessionPages` | one page of the panel each, with its part of the API; the session | parts of `Panel` |
| `ZonedTime` | the instant of a wall-clock time | used by `HoursPage` |
| `Panel` | the panel: one page mounted, over the same variables | composition |
| `BookingProofs`, `CalendarProofs`, `NotificationWorkerProofs`, `RemindersProofs`, `ScheduleProofs`, `AdministrationProofs`, `PublicPageProofs`, `PanelProofs` | | TLAPS proofs |
| `MCBooking`, `MCNotificationWorker`, `MCReminders`, `MCSchedule`, `MCAdministration`, `MCPublicPage`, `MCPanel` | | instances and symmetry sets for TLC |

### Booking and Calendar

`appt`, `outbox`, `audit` and `clientRows` are the tables; `cliLock` and `empLock` the
advisory locks; `pc` and `arg` what each request is doing and has read. A
request is served once and an appointment is named by the request that creates
it, so `Requests` bounds everything. One action is the code between two points
at which another request may run:

| Code | Actions |
| --- | --- |
| reads and validation before `$transaction` | `BeginCreate`, `BeginPublic`, `BeginStatus`, `BeginCancel`, `BeginReschedule`, or `Refuse` |
| `pg_advisory_xact_lock` | `LockClient`, `LockEmployee` |
| client lookup and client conflict query | `CheckClient` |
| employee conflict query | `CheckEmployee`, or `RejectConflict` (409) |
| writes, outbox, audit, COMMIT | `CommitCreate`, `CommitPublic`, `CommitStatus`, `CommitCancel`, `CommitReschedule` |
| an exception, a timeout or a lost connection inside the transaction | `Fail` |

The writes of a transaction and its COMMIT are one action because nobody sees
them before, and because the row lock of the UPDATE makes a second writer of the same
appointment wait. `endsAt` is the start plus the duration the appointment keeps.
Working hours, blocked times, dates, permissions and inactive records only refuse
requests (`Refuse`); the lookup of slots is kept as the conflict query it
contains. In `BeginReschedule` that lookup uses a duration of its own, because
the service's may have changed since. 
Clients are told apart by the normalised phone. `clientRows` counts, for each, the
active rows that public bookings made and says whether the staff has one;
`AddClient` and `RemoveClient` are the staff's create or restore and remove,
which take no lock. A phone that is changed is left out.

`Calendar` says what remains of all that for somebody who sees the tables only: `Create`,
`Request`, `UpdateStatus`, `Cancel` and `Reschedule`, each one step that finds employee and client
free and writes appointment, log and e-mail together. It promises as much as the code keeps and
no more: an operation on an appointment is decided on a version the appointment has had,
which need not be the present one, and a free interval is free up to appointments that were
cancelled and came back. `CalendarSpec` is `Booking` implementing it: `book` is `appt`,
`public` the appointments whose first audit row has the actor PUBLIC, `log` the set of their audit
rows (action, status and start), `mails` the outbox. Locks, reads and validations are stutters;
the commits are the steps.

### NotificationWorker and Delivery

`row` is the table, `worker` what each instance is doing, `clock` the minute, which
jumps between `Moments`. A batch takes `now` when it starts and uses it for every
query and every claim, as the code does. `mails` counts what the SMTP server
accepted and `since` when a row was really claimed; both are history.
The claim is two actions, the try-lock with its query and the update by id, so
that the advisory lock carries weight. An instance may stop for any time
at any await (an action simply does not happen) and may crash (`Crash`, at most
`MaxCrashes`). `Faults` admits two more outcomes, `"markSentFails"` (the database
refuses the mark after the message was accepted) and `"closedInData"` (the
connection is lost in DATA with another code than ETIMEDOUT); `faulty` remembers the
rows that met one. `Delivery` is the life cycle the repository's README draws;
`QueueSpec` is `NotificationWorker` implementing it, where a FAILED row without
`failedAt` counts as pending; `Reminders` has a `QueueSpec` of its own. The recovery's limit of 100 rows is not modelled;
`Take` is the limit of 50 candidates.

### Reminders

`row` is indexed by the dedupe key: appointment and start. Requests read first and
write later; `MaxInFlight` says how many may be between the two, and `lost` names the
appointments that one of them wrote over a change it had not read, as
`appointments.service.ts` does by updating by id. The job and the
worker keep their own `now`. Retry times and the age of abandoned rows are in
`NotificationWorker`; here a row may be retried or given up (`GiveUpUncertain`) at
any time, while its worker may still answer. `left` is history: the starts an
appointment was moved away from. Two faults make the worker take an accepted message for a failure
and send the reminder again: the connection is lost in DATA with another code than ETIMEDOUT
(`SmtpClosesInData`), and the mark itself fails (`MarkSentFails`). `faults` counts them, and
`RepeatsAreFaults` says that nothing else repeats a reminder.

### Schedule

One employee and one day. `rules` and `blocks` hold the committed rows, each with the
request (`by`) that wrote it; `appt` the appointments, `dur` the service's present
duration; `pc` and `arg` what a request is doing and has read. One action is one query:

| Code | Actions |
| --- | --- |
| `setAvailability`: DELETE, INSERT, COMMIT | `BeginReplace` (the snapshot of the DELETE), `DeleteMany`, `CreateMany`, `CommitReplace`, `Rollback` |
| `BlockedTimesService.create`, `remove` | `BeginBlock`, `CreateBlock`; `BeginRemove`, `RemoveBlock` |
| `ServicesService.update` of `durationMin` | `SetDuration` |
| `getAvailableSlots` in `create` and `reschedule` | `BeginBook`, `BeginReschedule`, `ReadRules`, `ReadBlocks`, `ReadAppointments` |
| the transaction that writes the appointment | `WriteAppointment`, `RejectAppointment` (its locks are `Booking`'s) |

PostgreSQL's part is in three guards: a DELETE waits for rows another transaction has
deleted and does not see rows committed after it began; an INSERT waits for an
uncommitted row with its key; a committed one breaks the unique key and rolls the
transaction back. Two multi-row INSERTs that cross and are resolved by PostgreSQL's
deadlock detector are the `Rollback` of one of them. `Minute` and `SlotInterval`
are time units: 'HH:mm' cuts off what is below a minute, the slot loop advances by
`SlotInterval`. History: `raced` are the requests overtaken by a
change of what they had read, `due` the appointments written by others since whose
writing neither hours nor blocks changed. Cancellations only free time and are left to `Booking`;
time zones, dates and the active flags are left out.

### Administration

`users`, `member`, `slug`, `link` and `performs` are the columns of the tables the
operations meet in. One action is one query; the last statement of a transaction is one
action with its COMMIT, because no lock it takes outlives it.

| Code | Actions |
| --- | --- |
| `AuthService.register` | `BeginRegister`, `ChooseSlug` (the look-ups of e-mail and slug), `InsertUser`, `CreateOwner` (tenant and membership), the inserts against their unique keys |
| `TeamMembersService.create` | `BeginCreate`, `InsertUser`, `CreateMember` |
| `updateRole`, `linkEmployee` | `BeginRole`, `UnlinkForRole`, `SetRole`; `BeginLink`, `ReadEmployee`, `UnlinkOld`, `LinkEmployee`; `BeginUnlink`, `Unlink` |
| `EmployeesService.setServices` | `BeginServices`, `SeeServices` (the snapshot of the DELETE), `DeleteServices`, `InsertRow` for each row of the INSERT but the last, `InsertServices` |
| `TenantsService.updateCurrent` of the slug | `BeginSlug`, `Rename` |

`createMany` is one INSERT that adds its rows one by one, in the order the client sent the ids: `put`
are the rows that are there, `next` the one it is at. A transaction that waits for a row or a key
of another has its guard disabled; when some wait for
each other (`Deadlocked`), `BreakDeadlock` is PostgreSQL's detector; a transaction may also
fail for reasons of its own (`Rollback`). A row carries as `by` the request
that last wrote it, and `missed` is history: the pairs of requests of which the second
took effect between the first one's first read and its end. The properties say
what goes wrong only between such pairs. Roles are those the DTOs let through;
hashing and tokens are left out.

### Turnstile and PublicPage

`page` is the component's state, `token` what has become of the token it
holds, `widget` the widget while it is shown, `post` the request of the form, `appts` what the API has.
A click, an answer or a callback of the widget is one action with the React
effects its changes set off: React runs them before the next event. The effects that load
employees and times abort the request before; an aborted request is never heard of again, and what its
`finally` would have reset stays set. Lists keep what they were loaded for, so that
`SlotsAreOfTheChoice` says something.

The widget solves, fails, expires and is mounted anew; a token whose widget is gone is
`"orphan"`, because nobody will report its expiry. A token that was sent is `"sent"`. The
API answers a POST by `Verify` (`Turnstile`), the minimum advance and the
conflict queries; its transaction is one step here (`Booking` has it in detail). The
connection may break at any time: a request that is out may have been served or not,
and the page only sees the failure. One that was not may still be served, long after: it is in
`adrift`, of which `MaxAdrift` bounds the size, until `ServeLate`. The API knows a client by the phone
alone, and the visitor may give another with every request, or one that is not his: where an appointment
of any client meets the requested one in time, the client's conflict is found or not (`Book`). The
other fields of the form are left out; a day is one date.

### The panel

Each page module has three variables: `ui` the component's state, `net` the
requests under way, `db` what the API stores of it. The API's part of a request and the page's
reaction to the answer are two actions. A handler goes on after an await with the
values of the rendering it was created in, so a request carries what its handler will use.

* `SettingsPage`: `form` and `saved`, four sections of which two suffice, the logo that
  was picked. `handleSubmit` is up to three requests: PATCH the fields of the section,
  upload the logo, read back. `wish` is history: what the user wrote and no request has
  stored since.
* `EmployeesPage`: the list under its filter, the form (open or not), switching an employee
  on and off, the section with the services of one employee; meanwhile others switch
  services on and off (`ServiceChanges`).
* `AgendaPage`: the list of a date, the look-up of times for the form and for a move,
  create, status, cancel and move. Nothing is aborted; `overtaken`, `crossed`
  and `moveCrossed` are history: something older was under way when the choice changed.
* `HoursPage`: the week, one form replaced as a whole, and blocked times, each a request of
  its own, after which the list is loaded anew. Entered times become instants by
  `ZonedLocalToIso`; the zone is the one the session remembers.
* `SessionPages`: `localStorage` with token, user and company, shared by all windows; login,
  logout, a 401, opening and leaving pages, `/tenants/current` of the shell, whose answer
  stores the user and the company again, and the settings page's
  `SynchronizeStoredTenant`.

`Panel` composes them over the same variables: `route` says which page a behaviour
visits. Leaving a page unmounts it, and pages share only the session.

## 3. What is checked

The runs use 2 workers. `booking_fair`, `publicpage_fair`, `reminders_safety` and `panel_safety`
take one to two minutes each, the others less.

| Run | Question | Bounds |
| --- | --- | --- |
| `booking_safety` | `CalendarSpec`, `DoubleBookingOnlyByRevival`, `OutboxMatchesAudit`, `LoggedStatusIsCurrent`, `LoggedPreviousWasCurrent` | 4 requests of any kind but the staff's clients, 1 employee, 1 client, starts 0 and 1, durations 1 and 2 |
| `booking_fair` | `PublicClientExclusive`, `OneClientPerPhone`, `EveryRequestReturns` | 3 requests, the staff's clients included, 2 employees, 1 phone, fairness |
| `booking_revival` | violated: `CanceledStaysCanceled` | as `booking_safety` |
| `notificationworker_fair` | `QueueSpec`, `NoConcurrentSending`, `DuplicateOnlyAfterFault`, `SentWasAccepted`, `EveryDeliverySettles` | 2 instances, an e-mail and a reminder, 2 attempts, batches of 1, minutes 0 and 10, 1 crash, every fault, fairness |
| `notificationworker_retry` | violated: `RetryIsSafe` | 1 e-mail, `"closedInData"` |
| `reminders_safety` | `RepeatsAreFaults`, `MarkerMeansSent`, `SentIsMarked` | 1 appointment, starts 1 and 2, hours 0 and 1, both faults, 2 requests that may overlap, 1 job, 2 workers, 2 attempts |
| `reminders_moved` | violated: `MovedCanBeReminded` | 1 appointment, 2 requests |
| `schedule_fair` | `ReplacementIsWhole`, `OverlapsAreUnseen`, `SlotIsFree`, `EveryRequestReturns` | 3 requests of any kind, a day of 8 units, slots every 4, a minute of 2, durations 4 and 6, fairness |
| `administration_safety` | `LinkedIsStaff`, `LinksAreTakenKnowingly`, `UniqueErrorsAreRaces`, `ServicesAreReplacedWhole`, `DeadlocksAreCrossings` | 3 requests of any kind, the owner and 2 addresses, 2 employees, 2 services, 2 slugs |
| `publicpage_fair` | `TokenSentOnce`, `BookedWasVerified`, `SlotsAreOfTheChoice`, `BookedIsTold`, `ConfirmedIsBooked`, `WaitingEnds` | 2 services, an employee for each, 1 date, 1 time, 1 appointment of others, 1 request adrift; three configurations: development without the widget, production, production with a test secret; fairness |
| `panel_safety` | `EditsAreKept`, `OthersSectionsStay`, `ServicesAreTheirOwn`, `ListIsOfTheDate`, `SlotsAreOfTheForm`, `OnlyEditedDays`, `RemovedStaysAway`, `BlockedAsEntered`, `OneLogin` | 2 sections with a field each and a logo; 2 employees, 1 service; 2 dates, 1 appointment; 1 day, 2 intervals, 2 blocked times, 2 zones; 2 windows, 2 accounts, 2 logins; 2 requests under way |
| `panel_inactive` | violated: `CheckedCanBeSaved` | as `panel_safety` |

Why the bounds are enough. In `Booking` the deepest interleaving known, a
revival into an interval that was booked again, takes four requests: book,
confirm, cancel, book. Starts 0 and 1 with durations 1 and 2 give equal, partly
overlapping and adjacent intervals. In `NotificationWorker` two instances and two
rows with batches of one make the rows compete; two attempts reach both the
retry and exhaustion; ten minutes is the exact age at which a row is abandoned. In
`Reminders` two requests and two starts suffice for moving away and back, and for one
request writing over another; the hours 0 and 1 are before and at the first start, and two attempts
let each fault repeat a reminder. In `Schedule`
a race needs two requests and its consequence for a booking a third; a start
inside a minute, an interval that is not a multiple of the slots and a service that no
longer fits occur among the constants. The initial hours are any valid timetable. In
`Administration` every race is one of two requests, the third makes the state they meet in
(a member to link, a link to lose); an employee each lets two requests wait for each
other, and so do two services in one order and the other. In `PublicPage` a second service and a second employee make the lists change
under the visitor, and an appointment of somebody else makes the one time vanish; one request
adrift may be served before, between or after those the visitor sends next. In the
panel two requests under way are the least that can cross, and two logins in two windows the
least that can be mixed.

Every property has been seen to fail on a plausible defect of the code it is about
(the mutated definitions stand beside the real ones and are marked `mutant`).

Fairness. `Booking!FairSpec` is weak fairness of the steps of a request that
has started: the server and the database go on, and PostgreSQL serves lock
waiters; nobody is obliged to send a request. `Schedule!FairSpec` is the same; that a transaction runs out
of time (`Rollback`) is possible and never relied on. `NotificationWorker!FairSpec` is weak
fairness of time, of the cron job of every instance and of the steps of a batch; a
crash ends a batch, the next minute starts another. `PublicPage!FairSpec` is weak fairness
of the answers, which include failures: a request is answered or breaks; nothing is expected of the
visitor. The other modules state no fairness. Deadlock is checked except in
`NotificationWorker` and `Reminders`, which may stop at the end of their horizon.

### What the code does not keep

Four runs show a sentence of the repository violated by what the code does:

* `booking_revival` (README.md:225): `updateStatus` validates on a stale read and
  updates by id. A confirmation that overlaps a cancellation revives the
  appointment; when its interval was booked meanwhile, that is a double booking,
  the only way to one (`DoubleBookingOnlyByRevival`).
* `notificationworker_retry` (README.md:739, 749): only ETIMEDOUT in DATA is
  uncertain; a connection lost in DATA is retried. A failing `markSent`
  (`"markSentFails"`) leads to the same retry.
* `reminders_moved` (README.md:842): the cancelled row of a start blocks the
  reminder when the appointment returns to it.
* `panel_inactive` (README.md:171): an employee performs a service that was deactivated. The
  page shows no box for it and sends its id with the others, and the API refuses the
  whole list: the services of such an employee cannot be changed on the page.

The passing runs bound other anomalies by naming, in the property, the one way they
come about:

* a lost race in the audit log (`LoggedPreviousWasCurrent`): a change logs as previous a
  status that is not current only if its request read before the change in between. For the same
  reason one of two concurrent moves can be undone with neither audit row nor e-mail
  (`startsAtChanged` compares with a stale start, README.md:351), and the reminder's
  marker then belongs to the old start; `MarkerMeansSent` and `SentIsMarked` except
  just the appointments in `lost`.
* rows that stand side by side (`OverlapsAreUnseen`, `ServicesAreReplacedWhole`): two
  replacements of hours or services, or two blocked times, that could not see each other leave the
  union, whatever `validateDays` (availability.service.ts:491) checked.
* a move looks up its slot with the service's present duration and writes the
  appointment with its own, and slots are compared as 'HH:mm', seconds cut off; so
  it may end after the working hours or inside a blocked time (README.md:193).
  `SlotIsFree` is what does hold.
* a claim is as old as its batch, so the last rows of a slow batch are given up
  before the ten minutes of README.md:753; no property depends on it.
* a member that is no longer STAFF may keep an employee, and a link may be overwritten, when
  the requests overtook each other (`LinkedIsStaff`, `LinksAreTakenKnowingly`); two links may
  wait for each other until PostgreSQL ends one, and so may two lists of services for one employee whose
  ids the clients sent in different orders (`DeadlocksAreCrossings`); the
  user sees an error that is none of the service's own.
* a reminder is repeated after each fault that hides an accepted message (`faults` in
  `RepeatsAreFaults`), as README.md:761, which promises no exactly-once, lets expect.
* a visitor whose answer was lost, and who tries again with another phone and another employee, books
  the time twice: the API knows a client by the phone, which may be edited at any time and which
  `startAgain` (page.tsx:507) empties. No property denies it; `ConfirmedIsBooked` and
  `BookedIsTold` say what holds of each of the two.
* the hours page, when its first requests fail, shows an empty week with the same
  buttons; saving it replaces the stored hours (`ui.failed` in `OnlyEditedDays`).
* lists of the agenda, of blocked times and of services come in any order, and the last
  one to arrive stays (`overtaken`, `crossed`, `hurried` in the properties).
* near a change of clocks an entered time becomes an instant an hour off, and it is taken in
  the zone of the session, not that of the company (`Steady`, `SessionZone`).
* the shell stores the user it was mounted with again when `/tenants/current` answers late,
  so the token of one login and the user of another stand side by side (`overtaken` in `OneLogin`).

Not run, for lack of state in them: clearing the e-mail, phone or notes of a record
in a form sends `undefined`, which leaves the column as it was; choices of links that
were not saved are reset when another row of `usuarios` is.

## 4. What is proved

The theorems hold for every value of the constants under the named assumptions of the
modules, which say of what sort the constants are and that `None` is a fresh
value. Each proof has one step per action, and one below it per conjunct the action can
disturb. Every passing property is proved but the four liveness ones, and of
those the safety argument they rest on is. `TypeOK` is proved of every module (of the panel's
pages as a part of `PanelInv`) and is no property of a run.

`BookingProofs` holds for any sets of requests, employees, clients, starts and
durations, under the assumptions of `Booking` (starts are
naturals, durations positive).

* `TypeCorrect == Spec => []TypeOK`.
* `NoOtherDoubleBooking == Spec => []DoubleBookingOnlyByRevival`.

`DoubleBookingOnlyByRevival` is not inductive: that a request may write says nothing
unless one knows that its conflict check still holds. The inductive
invariant is `IInv == TypeInv /\ BookInv`, with

* `Held`: a request at `checkEmployee`, or a booking or move at `write`, holds the lock of its employee,
  so at most one request per employee is there;
* `Target`: what a request holds about its appointment (employee, duration, that a
  creation's appointment does not exist yet) is still so;
* `CanceledIsLogged`: a CANCELED appointment has a CANCELED audit row;
* `Checked`: a booking or move about to write has, against every appointment
  that never was cancelled, no overlap. Only the employee's lock keeps this true,
  since every write that could add an overlap needs the same lock; a status change
  cannot, because it only makes an appointment occupy its interval that either did
  so already or was cancelled, and then its log says so.

The log comes next: `JInv == IInv /\ LogInv`, where `LogInv` relates the last row of
an appointment's log to its status and what a running request has read to the rows written
since.

* `OutboxFollowsLog == Spec => []OutboxMatchesAudit`,
  `LogEndsInStatus == Spec => []LoggedStatusIsCurrent`,
  `LogIsChain == Spec => []LoggedPreviousWasCurrent`.

Then the clients: `KInv` is `JInv` with `ClientHeld` (whoever is past
`CheckClient` holds the lock of its phone), `StillMissing` (a client it did not find is still
not there, or the staff's), `ClientChecked` (the client's live public
bookings do not overlap the one to be written) and `Live`, `Unmoved` for what a move of the
staff may change meanwhile. The staff's steps change the rows of clients without a lock, but never add one of
a booking (`Fewer`).

* `PhoneHasOneClient == Spec => []OneClientPerPhone`,
  `ClientsAreNotDoubleBooked == Spec => []PublicClientExclusive`.

Last the locks: `HoldersInv` says that a lock belongs to a request that has taken it and has not ended, the
client's to one that may still need the employee's, the employee's to one that needs nothing more.

* `NobodyWaitsInACircle == Spec => []WaitsEnd`: who is waited for is another request, in its
  transaction, and no three requests wait one for the next. It is the safety part of
  `EveryRequestReturns`: what is left to TLC is that fairness moves whoever does not wait.

`CalendarProofs` has the refinement. `MInv` is `KInv` with `Allowed`: a request changes the status as
the one it read allows, and a move has read a start. Each commit is one step of `Calendar`, with the
free intervals from `Checked` and `ClientChecked` and the version it was decided on from `LogInv`.

* `ImplementsCalendar == Spec => CalendarSpec`.
* `CalendarIsExclusive` and `FinishedWereConfirmed` are what follows from `Calendar` itself: an
  employee is at two appointments at once only if one of them had been cancelled, and, through
  the refinement, an appointment of `Booking` that is COMPLETED or NO_SHOW has been CONFIRMED, in
  whatever order stale updates were written.

`NotificationWorkerProofs` holds for any instances, rows, moments, crashes and faults. `Inv` is
`TypeOK` with `WorkerInv` (the row a worker holds is open; the row it sends was taken from the
queue and has not come back; it knows whether the server has the message), `RowInv` (only a row
without a message is open, but for the faults) and `Apart` (no two workers send one row).

* `TypeCorrect`, `OneSender == Spec => []NoConcurrentSending`,
  `NoOtherDuplicate == Spec => []DuplicateOnlyAfterFault`, `SentIsAccepted == Spec => []SentWasAccepted`.
* `ImplementsQueue == Spec => QueueSpec`: every step of a worker is, under the refinement mapping,
  a step of the life cycle of `Delivery` or leaves it as it is.
* `NoRowIsForgotten == Spec => []EveryRowIsFound`: a row that is not settled is found by the
  queries of a batch, to be sent or to be given up, from a minute on that is at most 180 minutes away,
  the longest retry delay. `InTime` is why: a row is due, and was claimed, at
  a time some batch has read (`worker[w].now <= clock`). It is the safety part of `EveryDeliverySettles`.

`RemindersProofs` holds for any appointments, starts, requests, jobs and workers. `Inv` is `TypeOK` with
`WorkInv` (a row that a worker has claimed does not come back before it is through, and a
row that waits has no message but those that faults hid) and `MarkInv` (a marker belongs to the present start, or the appointment is
in `lost`, also in the hands of a request that is about to write).

* `TypeCorrect`, `OnlyFaultsRepeat == Spec => []RepeatsAreFaults`,
  `MarkerIsTrue == Spec => []MarkerMeansSent`, `SentReminderIsMarked == Spec => []SentIsMarked`.
* `ImplementsQueue == Spec => QueueSpec`: the reminders' rows live as `Delivery` says, though the job may
  prepare one again, a second worker may come upon it and it may be given up while its worker
  still sends. A row that waits has attempts left (`RowInv`), and only the owner of the claim writes
  the result, with as many tries as the row has. No run checks this one.

`ScheduleProofs` holds for any requests, timetables, blocked intervals, starts,
durations, minute and slot interval, under `TimeAssumption` and `NoneAssumption`.

* `TypeCorrect == Spec => []TypeOK`.
* `HoursAreReplaced == Spec => []ReplacementIsWhole` and
  `NoOtherOverlap == Spec => []OverlapsAreUnseen`, from `IInv == TypeOK /\ Hist`. That two
  rows missed each other can only be concluded at the commit if one knows that
  rows appear when their request ends (`Written`), so that nobody has seen a row of a
  request that is still running (`SeenWritten`), and that a replacement will delete whatever it saw
  that is still there (`GoneIsSeen`): what it saw and others deleted never comes back.
* `BookedSlotIsFree == Spec => []SlotIsFree`, from `SlotInv`: what an unraced request has read
  is still what the tables hold (for blocks, a superset, since they may be removed), and
  before it writes, its slot is free.
* `NobodyWaitsInACircle == Spec => []WaitsEnd`, the safety part of `EveryRequestReturns`, from
  `LocksInv`: only one transaction at a time holds rows it has deleted (`OneDeletes`), because of what
  two snapshots saw the older one has not more left (`Ordered`), and a DELETE that is about to run meets
  what others hold, or finds nothing (`MeetsOrMisses`). So an INSERT may wait for a transaction
  that commits, a DELETE for one that inserts, and there it ends. An INSERT is a whole here: that two may
  cross row by row, as in `Administration`, is among what `Rollback` stands for.

`AdministrationProofs` holds for any requests, addresses, employees, services and slugs. Every
conclusion rests on one argument: what a request has read about a row is still so when it
writes, or the request that changed the row is in `missed`.

* `TypeCorrect == Spec => []TypeOK`.
* `LinksAreOfStaff == Spec => []LinkedIsStaff` and `LinksGoKnowingly == Spec => LinksAreTakenKnowingly`, from
  `LinkInv`, the argument for role and link.
* `ServicesStandWhole == Spec => []ServicesAreReplacedWhole`, from `ServicesInv`: as in `ScheduleProofs`,
  nobody has seen rows of a request that is still running, and what DELETE saw is gone.
* `FailuresAreRaces == Spec => []UniqueErrorsAreRaces`, from `KeysInv`: a slug or an address that was
  looked up and found free is free, or was taken by a request in `missed`.
* `OnlyTheseDeadlock == Spec => []DeadlocksAreCrossings`: a request that waits holds no other row,
  unless it links or replaces services. Of those that replace the services of one employee only one
  can have deleted rows that others wait for, so in a circle two of
  them are in their INSERT, and one of the two has put a row (`CircleCrosses`).

`PublicPageProofs` holds for any services, employees, dates, times, configurations and other
clients. `Inv` is `TypeOK` with `ListsInv` (only the request for the present selection
is heard of, and nothing is selected while it is under way), `SentInv` (a token that was sent is on
the page only while its request is under way), `ToldInv`, `ConfirmInv` (what the page confirms it has
told, and an answer on its way confirms what there is) and `BookedWasVerified`.

* `TypeCorrect`, `TokensGoOnce == Spec => []TokenSentOnce`, `BookingsAreVerified == Spec => []BookedWasVerified`,
  `TimesAreOfTheChoice == Spec => []SlotsAreOfTheChoice`, `BookingsAreTold == Spec => []BookedIsTold`,
  `ConfirmationsAreTrue == Spec => []ConfirmedIsBooked`.

* `EveryWaitIsAnswered == Spec => []WaitsForAnAnswer`, the safety part of `WaitingEnds`: behind every
  spinner is a request under way, for what is selected now. The effects abort a request
  only when they send another or when nobody waits (`Asked`).

`PanelProofs` holds for any sections, employees, services, dates, slots, blocked times, zones,
windows and accounts. `PanelInv` is the invariant of the page that is mounted:

* settings: a field that shows what is stored waits for nothing, and while a save is at one of its
  stages, what the stages before it had to store is stored (`Stages`): `ChangesAreKept` (`EditsAreKept`) and
  the action property `SectionsStay` (`OthersSectionsStay`).
* employees: while a section with services is open, what is under way is for it, unless requests
  crossed (`OnlyItsServices`, `ItsServices`): `ServicesAreChecked` (`ServicesAreTheirOwn`).
* agenda: lists and slots that are still to come are of the date and the look-up on show, unless an older
  one overtook or crossed them: `DateIsListed` (`ListIsOfTheDate`), `TimesAreOffered` (`SlotsAreOfTheForm`).
* hours: days nobody changed hold what is stored; identifiers are used once, and a list under way has
  nothing that is gone, unless lists crossed (`ListsWithoutGone`); the lemma `WeekClock` is about `ZonedLocalToIso` in any zone:
  `DaysStay` (`OnlyEditedDays`), `RemovedIsGone` (`RemovedStaysAway`), `BlockedAtItsTime` (`BlockedAsEntered`).
* session: while no shell was asking for its company when somebody logged in, token and user are of
  one login, in storage and in what a shell or page was mounted with (`OneOfAll`, `CompanyToo`, `ShownIsMounted`): `OneAccount` (`OneLogin`).

Only model-checked: liveness, because the prover has no ENABLED. That is `EveryRequestReturns` of `Booking`
and of `Schedule`, `EveryDeliverySettles` and `WaitingEnds`. What is proved of each is that nobody is ever
in a state in which it could not end; that fairness then ends it is seen on the instances.

## 5. Not modelled, and the plan

Left out for good:

* the generated Prisma client (29 000 of the 56 000 lines under `apps`), which no
  module could say anything about; what it does is in the models as tables, unique keys and
  READ COMMITTED;
* reads that change nothing: lists, dashboard, notification list, users, health;
* JSX, styles, message texts, and the validation of single fields;
* password hashing, the signature of tokens and the decoding of images, whose correctness
  is not a question of states;
* the pages `clientes`, `servicos`, `usuarios`: lists with a form, like `funcionarios`;
  `notificacoes`, `auditoria` and the dashboard only show what they load.

Left out, and where it could go:

1. The booking window and the phone formats (`public-booking.service.ts`) as pure operators
   against a reference definition. In the models the window refuses a request
   (`Refuse`) and a client is its normalised phone; so `clients.update`, which changes a phone, has
   no counterpart either.
2. The check for a service's name that precedes its insert: the shape of
   `register` in `Administration`.
3. A second appointment and a second job in `Reminders`, and two days in `Schedule`, where the
   instances are as large as their runs can be. The proofs about `Reminders` hold for any
   number of both; `Schedule` has one day by its variables.
