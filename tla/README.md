# TLA+ models of the court and academy system

The repository is one Go program (`package main`, about 72 000 lines without its
tests) that runs a sports court and a training academy: public booking requests,
a booking desk, payments and receipts, one-to-one training packages, monthly
court plans, enrolments and monthly fees, training groups, attendance, payroll,
a cash book, tournaments, SMS. It keeps its state in one SQL database, SQLite or
PostgreSQL as `DB_DRIVER` says, and nearly everything that is hard about it comes
from one fact: HTTP handlers run concurrently, each reads what it needs, decides
in Go, and writes afterwards, and the two databases give different guarantees
about what happened in between.

This directory models that: the modules keep the read, decide and write steps
of the handlers apart, let other handlers in between, and take the transaction
semantics of either driver as a parameter.

- **SQLite** (`sqliteRuntimeDSN`, `app_bootstrap.go:418`): WAL, deferred
  transactions, a busy timeout. A transaction that has read works on a snapshot.
  Its first write fails with `SQLITE_BUSY_SNAPSHOT` once anybody has committed
  since, and there is one writer at a time. The models take that failure at the
  commit that causes it: the commit ends every request that is reading
  (`Overtaken`). The overtaken transaction would have had only its failure left.
  A transaction that begins with a write is one step.
- **PostgreSQL**: the handlers open transactions at the default level, READ
  COMMITTED. Every statement reads what is committed, and an `UPDATE`
  re-evaluates only its own `WHERE`. Row locks exist where the code takes them
  (`FOR UPDATE`, an upsert, a row already written) and nowhere else. Handlers
  that send `?` placeholders through a plain `sql.Tx` fail there; their actions
  exist on SQLite only.

`Transactions` states this once for the modules of the back office; the booking
desk and the reminders have it in their own actions.

## Inventory

| Component | State | Operations | Hard behaviour | What makes it correct |
|---|---|---|---|---|
| Booking desk (`finance_booking_services.go`, `request_validation.go`, `booking_options.go`, `booking_views.go`) | `space_schedules`, `court_layouts`, `court_closures` | create, public request, edit, reschedule, confirm, reject, hold, expire, cancel, complete | a slot is read and written by separate statements; configuration is loaded before or inside the transaction | the court is never overbooked; an answer is given once; a paid booking stays put |
| Booking payments (`finance_booking_services.go`, `booking_receivables_archive.go`, `finance_controls.go`) | `booking_financials`, `booking_payment_collections`, `receipt_sequences`, the archive, the period lock | collect with discount or overpayment, void, archive, restore, lock | a snapshot is recomputed from what one transaction sees; a void takes no row lock | snapshot = collections; nothing beyond the balance unless approved; receipts have no gap; what is closed stays closed |
| One-to-one packages (`finance_booking_services.go`) | `one_to_one_bookings`, `one_to_one_booking_sessions`, the quote in `booking_financials` | schedule next, resize, complete, cancel, attend | reads outside the transaction; counters recomputed | counters = sessions; finished stays finished; a number is one appointment; its price is what payments go by |
| Referrals (`finance_booking_services.go`, `finance_cashbook.go`) | `referral_partners`, `booking_referrals`, their payouts | refer with a booking, set the commission, pay out, void | the commission changes while bookings and payouts are under way | a commission is paid once, at the recorded amount |
| Monthly court plans (`mcp.go`) | `mcp_pricing_bands`, `mcp_monthly_plans` with rules and sessions, `mcp_payment_collections` | price, create, confirm, pay, void | one table lock per window, against a desk that takes none; hours that have no price | the sessions of a confirmed plan have their courts; every hour has a session (it has not, see `plan_hours`) |
| Monthly fee SMS (`monthly_fee_reminder*.go`) | `monthly_fee_sms_reminders`, the gateway | prepare, claim, send, record | several processes, crashes, a gateway that does not answer | one message a month; honest status; everybody is tried |
| Booking communications (`booking_communications.go`, `operations_booking_handlers.go`) | access tokens, communications log, cancellation requests | announce a change, issue a link, send, request and review a cancellation | each statement commits on its own; the process may stop between any two | told once; one request waits; an approved one has a cancelled booking |
| Enrolments (`finance_booking_services.go`, `enrollment_*.go`, `unenrollment_*.go`) | `student_enrollments`, status history, payments | create, edit, leave, take up again, transfer, delete, pay, void a payment | payments race with leaving; check and delete | status = history; a transfer closes its origin; money keeps its enrolment |
| Monthly fees (`lookup_state_services.go`, `finance_booking_services.go`) | leaves, terms, `student_monthly_payments` | take leave, change terms, pay | two computations of one fee | register and counter agree; nothing beyond the due |
| Cash book (`finance_cashbook.go`, `finance_controls.go`) | accounts, transactions, operation keys, counts, the period lock | record, approve, transfer, open, adjust, count, void, lock | forms posted twice; the period lock asked early | posted once; a transfer is covered; history keeps its account |
| Payroll (`payroll_*.go`), advances (`staff_advances.go`) and profiles (`salary_profiles.go`) | runs, salaries, adjustments, advances, profiles | generate, recalculate, approve, pay, void, close; create and switch profiles | two runs claim one session; conflicts checked in another statement | each session is paid once; paid = posted; hours count once |
| Training groups (`finance_booking_services.go`, `group_session_occurrences.go`, `payroll_history.go`) | members, staff, their histories, timetable, sheets, occurrences | save in two transactions, transfer, enrol, mark, complete | a save across midnight; a stop between its transactions | history is current, and the past stays |
| Student attendance (`course_attendance_service.go`, `shared_attendance.go`) | `attendance_records`, `course_attendance_records` | save a sheet from the office or the shared page, mark a day | the enrolment changes between roster and save | the page overwrites nothing; marked only while enrolled |
| Staff attendance (`staff_attendance*.go`) | register, work sessions of a day | save, delete | statements of two saves interleave on PostgreSQL | sessions of a day are disjoint |
| Tournaments (`tournament_services.go`) | income, entries, their transactions | create, update income, sponsor, pay, spend, void | check of the lock outside the transaction | net income = ledger |
| Catalogue (`finance_booking_services.go`, `operations_booking_handlers.go`) | games, activities, layouts, closures, prices, offerings, programmes | create, edit, delete each | references by slug, not by foreign key, and checked in another statement | what names an entry finds it |
| Uploads (`uploads_presenters.go`, `operations_booking_handlers.go`) | photos and QR codes of students, images of events | create, edit, delete | the file system takes no part in the transaction | what a row names is on disk |
| Accounts (`public_auth_handlers.go`, `security_identity.go`) | users, sessions, one-time codes | sign in, verify, reset | attempts counted by separate statements | not modelled |
| Schema bootstrap and migrations (`postgres_migrations.go`, `bootstrap_lifecycle.go`) | `schema_migrations` | run the missing ones | processes that start together | not modelled |
| Reports, templates, forms, divisions, seed data | none of their own | read, render | - | not modelled |

How they meet: everything meets in the database. The booking desk owns
`space_schedules`; payments set `booking_financials.paid`, which stops edits and
reschedules at the desk; a one-to-one session owns an appointment row on the
desk and writes its status, and the desk can close that row without knowing the
session; a plan counts the bookings of the desk in its hours and the desk does
not count plans; confirming a request at a new price, or editing a package,
rewrites the amount that payments settle; an enrolment's history decides who is in a group, who may be
marked, and what payroll counts; every payment and void posts to the finance
tables and asks (or does not ask) the period lock. No component calls back into
another, and only the SMS scheduler and the expiry of overdue requests run
without a user.

## Modules

| Module | Models |
|---|---|
| `CourtSlots` | slots, overlap, layouts and closures, as pure operators |
| `CourtInventory` | the abstract desk: reservations taken, moved, released in one step |
| `BookingCapacity` | the handlers of the booking desk and the court configuration |
| `Transactions` | how requests share the database: look, go on, commit, be overtaken, give up |
| `BookingPayments`, `OneToOnePackages`, `MonthlyPlans`, `Referrals` | what customers owe; composed by `MCCollections` |
| `Enrolments`, `TrainingGroups`, `Uploads`, `SalaryProfiles` | records of students and staff; composed by `MCPeople` |
| `FinanceCashbook`, `Tournaments`, `Catalogue` | books and what is sold; composed by `MCBooks` |
| `MonthlyBilling`, `BookingCommunications`, `StudentAttendance`, `StaffAttendance`, `PayrollRun` | the work of the office; composed by `MCBackOffice` |
| `FeeReminders` | the SMS cycle of several processes and the gateway |
| `SetSums` | lemmas about sums over finite sets, for the totals of money and hours |
| `CourtInventory_proofs`, `BookingCapacity_proofs`, `FeeReminders_proofs` | theorems about these modules |
| `Collections_proofs`, `People_proofs`, `Books_proofs`, `Office_proofs` | theorems about the components that the `MC` module of the same name composes (`MCBackOffice` for the last) |
| `MC...` | instances and symmetry for TLC |

`map` in PROJECT.json gives, for every definition, the lines it stands for.

The four large `MC` modules choose a *part* in the initial state: a behaviour is
of one component (or half of one), with two requests to it at a time, and the
other parts stay as they began, so that the state space is their sum and not their
product. With one exception the parts of an instance share no table that their
actions look at. The exception is `booking_financials.quoted_amount`: the edit of
a package writes it and payments are judged by it. One operator, `Requote`, is the
write, and either part has the edit: `Resize` in `OneToOnePackages` with the
counters and the quote, `EditPackage` in `BookingPayments` with the quote, at any
moment and at any price, since payments do not look at the counters nor packages
at what is paid.

Where other components meet, the meeting is likewise an action of the module that
reads the other one's table, as the weakest thing the other component may do to it
(`DeskBooks` and closures in `MonthlyPlans`, `CloseAppointment` in
`OneToOnePackages`, `ChangeStatus` in `StudentAttendance`, enrolment changes in
`TrainingGroups`). `MCBookingDesk` chooses in the same way between two settings of
the desk on SQLite: a court for one game or another while the clock runs, and a
configuration that changes before the hour begins; on PostgreSQL there is one.

### CourtSlots and CourtInventory

A booking occupies a *slot*: an activity, a quantity of it, and a span, which is
the set of half hours it covers. `schedulesOverlap` compares minutes; two
intervals on the half-hour grid overlap exactly when these sets meet. A layout
offers a number of units of each activity. The code sums the units of all
bookings that overlap the candidate, candidate included, and looks for one
active layout that covers the sum for every activity: `FitsSomeLayout`. `Usage`
is the cardinality of the set of (booking, unit) pairs, which is the sum, stated
so that the prover can reason about it with the theorems on cardinality.

`CourtInventory` has one variable, the live reservations, and three actions:
`Reserve` (one or several spans, all or none), `Move`, `Release`.

### BookingCapacity

| Variable | Code |
|---|---|
| `schedule` | rows of `space_schedules`, with `booking_financials.paid` and the state of the session an appointment row belongs to |
| `active`, `closures` | `court_layouts.active`, active `court_closures` |
| `layoutEdits` | layout handlers that have counted the other active layouts and not yet written |
| `now` | the wall clock, in half hours |
| `pc`, `job` | the requests in flight: phase, candidate rows, compared status, loaded layouts |

A handler that needs capacity goes through `Begin...` (validate and load the
configuration), `CheckSlot` (`querySchedulesForSlot`,
`validateSpaceScheduleSlotAgainstLayouts`) and `Commit`. Creation, public
requests, appointments and edits load the configuration before their transaction
(so they are not overtaken until they have read the slot), confirmation and
rescheduling inside it (so they are overtaken from the start): that is
`Reading`. `Written` says which columns each operation leaves, `MayWrite` is the
`WHERE ... AND status = ?` of the request transitions and the paid check of the
edit. Transitions that touch one row and compare what they saw are single
actions: `Decide`, `Expire`, `CancelBooking`, `FinishBooking`. So are the ones
that stand for another module's work: `FinishAppointment`, `CollectPayment`,
`VoidPayments`.

Two reductions are worth knowing. An admin edit sends `?` placeholders inside its
transaction, which PostgreSQL rejects, so `BeginEdit` exists on SQLite only. And
`deleteSpaceSchedule` refuses any booking that has a `booking_financials` row,
which every booking gets at creation, so no step deletes.

### BookingPayments

`financial` holds the quoted amount and the paid snapshot of each booking,
`collection` the payments, each standing for its finance transaction as well
(the two are voided together and by nothing else). A request reads and
validates (`BeginCollect`, `BeginVoid`), writes its own rows and computes the
snapshot from what it can see (`WriteCollect`, `WriteVoid`), and commits.
The `FOR UPDATE` on the booking at `finance_booking_services.go:6478` keeps two
payments of one booking apart on PostgreSQL; the row lock the upsert of
`nextReceiptNumberTx` holds until commit does so for receipt numbers. A void
locks the collection it voids and nothing else. Amounts are small integers;
`over` is the part of an amount that was approved as an overpayment.

The bookings of `OneToOne` are the first sessions of packages. They are confirmed
when they are created, and `EditPackage` may change their quote to any amount, also
to one below what has been collected: `updateOneToOneBookingPackage` looks neither
at the collections nor at the archive. It does update the row of the booking, which
keeps it apart from a payment on PostgreSQL. `OnlyApprovedOverpayment` therefore
has two parts. An ordinary booking is within its quote at every moment. For a
package, whoever commits a payment leaves it within the quote of that moment.

### OneToOnePackages

One package and its sessions by number. `ReadPackage`, `CountSessions` and
`ReadNumber` are the three reads of `scheduleNextOneToOneSession` outside any
transaction; `InsertSession` is its transaction. `ReadForResize` and `Resize`
are the two halves of `updateOneToOneBookingPackage`; the second writes the package,
the counters and the quote of `PackageBooking` in one transaction. Completion, cancellation
and attendance look at the session, write it by id and recompute the counters
(`WriteSession`), and commit (`CommitSession`); attendance of a session that is
already completed only marks it. `CloseAppointment` is the booking desk ending
the appointment as it would any booking.

### MonthlyPlans and Referrals

`MonthlyPlans` is `mcp.go`: `bands` price a plan by the number of its sessions
and the tier of their hours (`MayAddBand`, `BandFor`, `Gross`); a plan holds its
weekday hours of a month (`SessionsOf`), of which those that have a price become
its sessions (`Priced`): `buildMCPPlanPreview` notes the others as conflicts, and
`validateMCPPreviewAvailabilityTx` empties that list before anybody looks at it.
`total` is the number of all of them. Creation and confirmation first update
`pricing_settings`, which makes them one at a time (`WindowFree`); on SQLite
nobody else commits while one is open (`MayCommit`), on PostgreSQL the desk does.
`LookToPayPlan` and `PayPlan` are apart because `collectMCPPaymentAt` reads the
plan before its transaction. `DeskBooks` and `ChangeClosure` are what the desk
may do to an hour meanwhile.

`Referrals` has a booking as far as its payout looks at it (`standing`), the
commission that the row keeps, and the payouts. `Refer` writes booking and
commission together; `PayOut` and `VoidPayout` compare and set the `paid` flag
with the finance transaction.

### Enrolments, MonthlyBilling

`Enrolments` is one student: `enrolment` is a row with its course, start, flag,
the transaction of its admission fee and the enrolment it came from; `history`
the intervals of `student_enrollment_status_history`; `ledger` the finance
transactions. Every `LookTo...` is the reading part of a transaction, the action
after it the writing part; transfer and reactivation lock the row on PostgreSQL.
`Synced` is `syncStudentEnrollmentStatusHistoryTx` with its two special cases, an
interval that would be empty and a backdated change. Deleting the student reads
outside of any transaction.

`MonthlyBilling` is one enrolment in one month, with the two computations of its
fee: `RegisterFee` (`listStudentPaymentRowsByDivisionIDs`) and `CounterFee`
(`collectStudentMonthlyPaymentAmountAtWithAdjustment`), in cents, with the
rounding of `normalizeMoney`.

### TrainingGroups, StudentAttendance, StaffAttendance

`TrainingGroups` is one group on a calendar of days. A save is `CheckForm`
(validation, outside), `CreateGroup` or `UpdateGroup` (members, timetable; the
coaches go) and `ReplaceStaff` (a second transaction: the coaches come back), and
the process may stop between the two (`StopBetween`) or midnight pass
(`NextDay`). `HistoryOf` is the upsert of a history: what is wanted stays open,
what began today and is not wanted goes, the rest is closed today. `TransferAway`
and `Enrol` come from the enrolments. The history variable `cut` says that a save
has stopped between its transactions.

`StudentAttendance` has the sheet of one session, saved by the office or by the
shared page under the lock on the group, and the days a course is marked, under
the lock on the enrolment. `StaffAttendance` has one day of one member of the
staff; on PostgreSQL its DELETE and INSERT statements are steps of their own,
waiting for each other as unique indexes and deleted rows make them.

### Uploads

Every handler is files first (`LookToAdmit`, `LookToEdit`, `LookToPublish`), row
second, removal of the old files third, and may stop between any two. `named` of
an open request is what it would still remove. The history variable `tangled`
holds the rows that two requests have edited at the same time.

### PayrollRun, SalaryProfiles

`PayrollRun` is one coach and two periods that overlap: `salary` by run and
source, with the sessions it pays, what it withholds for an advance, and its
finance transaction. `AskToGenerate` reads run, profile and sessions outside the
transaction (`Begin`, `Sync`), which locks the sessions on PostgreSQL.
`AddAdjustment` is where a deduction becomes a repayment, `CollectRepayment` the
counter.

`SalaryProfiles` is what a profile counts: profiles are created and switched by a
check and a write that are apart (`overlapped` says that two such changes met);
hours come from the register and from sessions marked as worked, reconciled where
both say the same (`Hours`, `Reconciled`). Students (`PaidTrainees`) come from a
`roster` that other components write and this one only reads: enrolments with
their first day and flag, their leaves and status history, the histories of groups
and coaches, attendance. A roster may mark a student on a day before they were
enrolled or in the group: `saveAttendanceHandler` asks who is in it now.

### FinanceCashbook, Tournaments, Catalogue

A *form* of `FinanceCashbook` is what an operation key is made of; `Ask` is the
question to the period lock before the transaction, `LookToPost` what it reads,
`Post` what it writes, `Answer` the replay of an entry already made with the key.
Voiding and approving ask the lock inside. `counted` are the cash counts.

`Tournaments` is one tournament: entry fees are one transaction that appears,
changes and goes with the income (`FirstPost`, `Repost`, `Unpost`), every other
entry has one that can be voided.

`Catalogue` has the tables the booking pages are made of, which name each other
by slug. What looks first and writes in another statement is two actions; what
relies on nothing another operation changes is one.

### BookingCommunications

One booking, with its `outbox` (`booking_communications` by event key) and what
the gateway took (`delivered`). Each request carries what it does next; every
action is one statement, and `GiveUp` may end the request after any of them.
`ExpireRequest` is the sweep, `HourBegins` and `TokenExpires` the clock.

### FeeReminders

`reminder` is the table by student and month, `texted` counts what reached the
guardian's phone, `pc` and `cycle` are one cycle per process. Each statement of
`deliverMonthlyFeeSMSReminders` commits on its own and is one action. `Send`
chooses freely whether a message that got no answer has arrived. `Crash` and
`DatabaseError` may hit at any statement; `Restart` is the scheduler starting
again. `Owe` lets a student begin or cease to owe at any moment, because the
balance is what the rest of the system does.

## Runs

"S" are distinct states. Every passing run explores its whole state space.

| Run | Driver | S | Question and answer |
|---|---|---|---|
| `booking_desk` | SQLite | 2.2 M | two handlers; an hour and a half hour inside it, badminton or futsal; or closures, layouts and payments that change meanwhile: no overbooking, the handlers implement `CourtInventory`, a confirmation is right when it commits, a paid booking is not moved |
| `booking_postgres` | PostgreSQL | 1.1 M | compare-and-swap keeps answers final |
| `collections` | both | 3.6 M | payments of bookings, packages, monthly plans and commissions: the snapshots and counters agree with the rows, nothing is collected twice, what is closed stays closed, the sessions of a confirmed plan have their courts |
| `people` | both | 2.1 M | enrolments, a group, files and salary profiles: status, history and money of an enrolment agree, transfers close their origin, the past of a group stays, files are on disk, an hour is paid once |
| `books` | both | 2.9 M | cash book, tournament, catalogue: a form is one entry, balances and histories hold, locked entries stay, the net income is the ledger's, references resolve |
| `office` | both | 2.9 M | a month's fee, messages and cancellation requests, payroll, attendance: one due and nothing beyond it, told once, a session paid once, sheets not overwritten |
| `reminders` | PostgreSQL | 0.3 M | two processes, two students, two faults: safety and liveness |
| `booking_pg_race` | PostgreSQL | - | **violated** `NoOverbooking` |
| `packages_allowance` | SQLite | - | **violated** `AllowanceRespected` |
| `plan_hours` | either | - | **violated** `HoursAreSessions` |
| `payroll_advance` | SQLite | - | **violated** `AdvanceRecoveredOnce` |
| `group_edit` | either | - | **violated** `AttendanceStays` |

Several properties of these runs are conjunctions of named parts
(`BooksAgree` is `EnteredOnce`, `OpeningAgrees` and `HistoryKeepsItsAccount`):
each part is stated and commented in its module. Those that begin with
`driver = "sqlite"` are promises the code keeps only there; the comment says what
PostgreSQL does instead.

What the violated ones show (PROJECT.json `findings` quotes the text each one
disagrees with):

- `booking_pg_race`: READ COMMITTED with no lock on the slot. Two requests load,
  both check the empty slot, both commit.
- `packages_allowance`: on either driver; the package is made smaller between the
  count of a scheduling request and its insert.
- `plan_hours`: one request, no race. An hour for whose tier and number there is no
  price gets no session; the conflict that says so is lost, and the plan is created
  with fewer sessions than it has hours, all the same counted in its total.
- `payroll_advance`: one administrator, no race. What a salary withholds becomes
  a repayment only if another adjustment is added to it later; paid without one,
  it counts as never repaid and is withheld or collected again.
- `group_edit`: saving a group replaces its timetable; `attendance_records` go
  with the old sessions, also those of students who have been transferred away.

### Seen while modelling

Not claimed as disagreements with a document; the models have each of these
steps, and the properties are stated so as to leave them open.

- *Booking desk.* Two administrators may each deactivate the layout that the
  other counted as the last active one (`finance_booking_services.go:4202`). A closure
  published between the loading of the configuration and the commit of a creation
  is not seen. An archived booking goes on through the request workflow. The desk
  can end the appointment of a session that then goes on consuming the allowance.
- *Payments.* A booking payment is posted without asking the period lock
  (`finance_booking_services.go:6588`), while voids and the cash book ask it. On
  PostgreSQL a void computes the snapshot beside a payment it cannot see, two
  finished sessions of a package may not count each other, and a session completed
  and cancelled by two requests keeps the later outcome.
- *Package prices.* Editing a package sets the quote of its booking whatever was
  collected (`finance_booking_services.go:3080`). A price below that leaves more
  collected than is quoted, with no approval; the desk then shows an overpaid
  booking and takes nothing more. The price may also be 0.
- *Monthly plans.* Two cashiers can overpay one plan (`mcp.go:1068` reads it before
  the transaction), and a collection beside a void leaves stale totals. The desk
  never looks at `mcp_plan_sessions`. Two bands created at once may overlap.
- *Referrals.* The unique source index counts voided payouts
  (`finance_cashbook.go:1026`): a commission whose payout was voided cannot be paid
  again. The payout does not work on PostgreSQL. A commission stays paid when the
  booking is cancelled later.
- *Enrolments.* Transfer and leaving look at payments and groups, not at
  `course_attendance_records`. A backdated leave or a moved start can make closed
  intervals of the history overlap. The admission fee can be collected twice. On
  PostgreSQL a payment between the check and the DELETE goes with the enrolment; on
  either driver one between the two halves of `deleteAdmission` does.
- *Monthly fees.* The register applies the discounted fee and the leave policy,
  the counter the fee of the programme and the days of leave.
- *Groups.* The form sends no `coach_ids`, so that every save takes all coaches
  away and gives them back; a stop in between leaves none, and midnight a gap.
  Validation outside the transaction may add a student who is being transferred.
- *Staff attendance.* On PostgreSQL two saves of one day may leave overlapping
  sessions, and a deletion beside a save sessions without a register row.
- *Payroll.* A run that holds a salary approved and paid on its own can be
  neither approved nor closed. Recalculation revives a salary whose payment was
  voided, which can then not be paid. Generating for everybody checks no overlap
  of periods. The statements of a deduction are refused by PostgreSQL.
- *Profiles.* The quantity ignores the dates of a profile; every run pays a
  monthly profile once; two sessions at one time are two; two administrators can
  create conflicting profiles; a profile for all programmes and one for a
  programme both pay the hours of the register; nothing writes
  `staff_work_time_records`.
- *Cash book.* An entry that asked before the lock may appear in a locked period
  (`finance_cashbook.go:2481`). A statement counts pending entries in its opening
  sum and not in its running balance.
- *Tournaments.* On PostgreSQL two updates from no income both insert a
  transaction. Entries of a locked period can be changed through the tournament.
- *Catalogue.* Two administrators may delete an activity or a game that the
  other is using. `deleteGame` looks at offerings only, `updateCourtActivity` not
  at layouts. Relinking keeps the slug of the activity.
- *Uploads.* Two edits of one row may write back a path whose file is gone; a
  stop leaves files that no row names; deleting a student leaves the files.
- *Communications.* A desk that rejects a request after another has approved it
  still sends its message; a stop between cancelling and marking leaves the
  request waiting for good; a stale check can file a request on a cancelled
  booking; two links can be active (`booking_communications.go:237`).
- *Migrations.* Two processes that start at once may both find a migration
  missing (`postgres_migrations.go:186`).

### Bounds, and why they suffice

- **Two requests.** The properties relate one request to what was committed
  between its read and its write, so one interferer shows the pattern; the
  theorems below remove the bound where they apply.
- **Two bookings, one court hour.** Overbooking needs two bookings that each fit
  and do not fit together. `HourAndHalf` has the case the slot key alone misses,
  a half hour inside an hour. `EitherUse` has two bookings that fit
  together (two badminton courts), and two that each fit a layout and fit none
  together. Quantities above one and requests for
  several spans are covered by the theorems only.
- **`Horizon = 1`**: the half hour before the court hour and its beginning, so
  that requests expire and bookings start. In the part of `booking_desk` whose
  configuration changes the clock stands: what a confirmation looks at then does not
  depend on it. **`MaxLayoutEdits = 1`**: a confirmation races one
  layout edit.
- **Two payments, prices up to 2, overpayment up to 1** (`collections`): a payment
  and one beside it or after its void; part payment, full payment, discount,
  overpayment. On PostgreSQL two payments share a day, on SQLite they are of one
  booking. `LastDay = 2` has a day inside and one outside the locked period.
- **`MaxSessions = 2`, `MaxNumber = 3`**: a cancelled session and the one that
  replaces it. **One package, `OneToOne = {b1}`**, beside one ordinary booking
  (`b2`). `Scope` lets one of the two bookings change in a behaviour on SQLite, where
  transactions exclude one another whatever they touch, and both on PostgreSQL. In
  the part `packages` the price goes with the number of sessions (`PackageScope`),
  which nothing there looks at; among the payments it is free.
  **Two plans of up to two hours for one court**, two bands, one plan payment: two
  plans that want one court, and a price that depends on the number. `collections`
  and `booking_desk` are the longest runs, two to three minutes.
- **Two enrolments, two courses, two days, one payment** (`people`): an origin and
  its transfer, yesterday and today. `Scope` keeps attendance and payments apart,
  whose checks do not meet. **One student and one member of staff, two days, two
  timetables** for the group: yesterday's history under today's save.
  **Two students, one event, four files**: both files of both. **Three days, two
  profiles, hours that meet and overlap, one group** for pay; its rosters have an
enrolment that was left and taken up again, and any days marked.
- **Two accounts, five forms and a count, one lock date** (`books`): forms that
  draw on one account, inside and outside the locked days. **One other entry, two
  transactions** of a tournament. **Two games, two layouts, three edits** of the
  catalogue: a rename, and what it leaves behind, twice.
- **A month of 31 days, fee 3000, three spans of leave, three days of start**
  (`office`): leaves that meet, cross the beginning and fill the month; a first
  month in full, halved and free. **Three changes, two requests to cancel, one
  link, one message sent by hand.** **Two overlapping periods and one session in
  both.** **Two days of a course; hours 9, 11, 12** of staff: sessions that meet
  and overlap.
- **One reminder hour, two students, two processes, two faults**: the rows of two
  months do not interact (a cycle carries its month), a crash can be followed by
  an error, and one student's error leaves the other to be tried again. `month`
  moves past `LastMonth` when the hour passes, so that cycles outlast it.

Handlers, ids, payments and workers are interchangeable in the specifications,
and the runs that check only safety use that symmetry. `reminders` checks
liveness and uses none. Deadlock is off where a part really ends: a booking that
has had its changes and messages and a group of which nothing is left to do
(`office`, `people`, `group_edit`).

### Fairness

Only `FeeReminders` states liveness. `FairSpec` gives each process weak fairness
of `Work(p)`, its cycle as a whole: the ticker of
`startMonthlyFeeSMSReminderScheduler` fires every minute, statements return or
fail, and `sendSMSMessage` has a timeout of 15 seconds. Nothing is assumed of
`Restart` (no document promises that a stopped process comes back), of the
clock, of who owes, or that faults do not happen; they are only finitely many.
`EveryoneIsTried` therefore ends in "or every process is stopped", and
`ClaimIsAnswered` in "or a fault": a crash between claim and outcome leaves the
row at `sending` for good, which the code prefers to a second message. The other
components serve one request at a time to its answer and promise nothing that
takes time: a request that is overtaken fails, and its user tries again or not.

## Proofs

Eight modules hold theorems; they prove every safety invariant and every action
property that the passing runs check, component by component and for every value
of the constants. The four modules with several components take one
`...Spec` for each: `InitRequests`, the component's initial state, and its
next-state relation, the same that the `MC` module of its run takes as one of its
parts. `CollectionsAreApart`, `OfficeAreApart`, `PeopleAreApart` and `BooksAreApart`
say that this is enough: a behaviour of the `MC` module is a behaviour of one of the
`...Spec`s. `CollectionsTyped`, `OfficeTyped`, `PeopleTyped` and `BooksTyped` are
its `TypeOK`, which speaks of the parts that are not looked at too: in
`Collections_proofs` that needs `Served`, that open requests are of the operations of
the part, since two of the type invariants say what requests carry. `driver` is a variable there, so that one theorem speaks of both databases.

Each component has one inductive invariant, and all of them have the same three
parts: what the rows are (types, and how tables refer to each other), what each
open request carries, and *what it has read that is still so*. The last part is
where the two databases differ. On SQLite it holds because a commit ends every
other request that has read (`Overtaken`); on PostgreSQL it holds for rows that
the request has locked, or that no action takes back, and for nothing else. A
property that a theorem claims on SQLite only is one that needs the rest.

The assumptions are the named ones of the modules: ids and requests are sets,
bounds and amounts natural numbers, forms finite where a sum runs over them.

### The booking desk

`BookingCapacity_proofs` and `CourtInventory_proofs` assume `SlotsAssumption` and
`BookingAssumption`: ids are finitely many (cardinalities need it), spans are
non-empty sets of half hours, capacities are natural numbers, there is a layout.

On both drivers:

- `TypeCorrect`: `Spec => []TypeOK`.
- `StatusesAdvance`: `Spec => StatusOrder`, a booking goes through its statuses in
  one direction.
- `PaidBookingsStay`: `Spec => PaidBookingKeepsItsSlot`.

The invariant of the last two is `OwnInv`. It says of every open request that the
ids it will insert are nobody else's and the row it will change exists, that a
booking waiting for an answer is not paid, and that the rows a request inserts
are unpaid. Who changes a row then compares the status (`MayWrite`) or the `paid`
flag with the row itself in the step that writes it, whatever was read before.

On SQLite:

- `RequestsStayCurrent`: `Spec => []RequestsAreCurrent`.
- `ConfirmationsAreCurrent`: `Spec => ConfirmationIsCurrent`.
- `Refinement`: `Spec => Inventory!Spec`, through the mapping `held <- Held(schedule)`.
- `InventoryNeverOverbooked`: the abstract desk keeps `NoOverbooking`.
- `NeverOverbooked`: `Spec => []NoOverbooking`.

`NoOverbooking` is not inductive: a request that has checked its slot may commit
later, and the state says nothing of what it checked. `LookedInv` adds it to
`OwnInv`: the candidates of an open request still fit the live bookings of *now*
(`StillAvailable`), and a confirmation has the closures, layouts and status of now
(`AnswerIsCurrent`). Both hold because every commit ends every other reader, and
`CheckSlot` establishes the first. From them each `Commit` is a `Reserve`, `Move`
or stutter of the abstract desk, and each row transition a `Release` or a stutter
(`StepRefines`).

The abstract argument is about a half hour: if a step leaves a booking n that
fits with everything it overlaps, then at each half hour of n everything on court
overlaps n, and needs no more than what n was checked with (`UsageMonotone`,
`SupportsMonotone`); at the other half hours nothing was added
(`AdmissibleStep`). It is proved in `CourtInventory_proofs` and instantiated with
`held <- Held(schedule)`.

On PostgreSQL `booking_pg_race` shows why these cannot hold.

### The reminders

`FeeReminders_proofs` holds for every set of processes and students and any
number of months and faults, from `RemindersAssumption` alone.

- `OwnershipHolds`: `Spec => []IInv`, with `IInv` the type invariant, `OneSender`,
  `ClaimOwnsRow`, `NoDuplicateSMS` and `StatusIsHonest` together.
- `AtMostOneSender`, `NeverTwice`, `StatusTellsTheTruth`: its parts.
- `OutcomesStay`: the action property, from the same invariant.

None of the safety properties is inductive alone. `NoDuplicateSMS` needs to know
that a process about to send has not sent, and that nobody else is about to send
for the same row; that needs the row to be at `sending` while somebody owns it,
since a claim takes only pending rows. `ClaimOwnsRow` says this, and `OneSender`
that the owner is unique. Two lemmas then carry every action: a step that
changes no row and leads to no claim (`QuietStep`), and a step that gives one row
a status and is made by the row's owner if it has one (`RowStep`). Only `Claim`,
which makes an owner, and `Send`, which owners make, need an argument of their
own. `ClaimOwnsRow` is a step of the argument and no run asks it by itself.

### Sums

Money and hours are sums over finite sets, written with `MapThenSumSet`, whose
definition recurs over the set. `SetSums` proves what the other modules use: the
sum of a set is that of the set without one member, plus this member (`SumTake`,
`SumAdd`); it depends on the values in the set alone (`SumSame`), is a number
(`SumInt`, `SumNat`), grows with its terms (`SumAtMost`), and the sum of the sizes
of disjoint finite sets is the size of their union (`SumOfSizes`). The principle
of induction over finite sets takes a predicate as a parameter and cannot be
cited; the lemmas take a *smallest* set that is an exception instead
(`Smallest`, from the fact that the sizes are natural numbers) and show that it
has a smaller one.

### Collections

*Payments* (`PaymentsInv`).

- `SnapshotsAgree`, on SQLite: what an open transaction has computed for the
  booking (`Computed`) is what the collections give together with its own row, so
  that the commit, which writes both, leaves them in agreement.
- `ReceiptsAreNumbered`: a request that has written holds the sequence row until
  it commits (`Apart`), so that its number is the next one; one that gives up
  leaves no gap.
- `NothingOverpaid`: on PostgreSQL the lock on the booking keeps two payments of it
  apart, and a payment from an edit of its package; on SQLite the commit ends the
  other. Either way what r will collect still `Fits` the quote when it commits
  (`CommitCovers`), which is the second part of the property. The first,
  `NoneOverpaid`, is an invariant of the ordinary bookings, whose quote changes
  with their confirmation only, before anything is collected; a void only takes
  away. Of a package nothing is claimed between two payments.
- `ClosedPaymentsStay`: while a payment is under way its booking cannot be archived
  (the lock on the booking, or the end of the payment), and a void compares
  `voided_by` when it writes.

*Packages* (`PackagesInv`, with the rows of the payments in its state, since
`Resize` writes a quote). `ProgressIsSynchronized` is the same argument over
`Refreshed`, what the sessions say of the package. `FinishedSessionsStay` needs
that a request which looked at a scheduled session on SQLite finds it so.

*Plans* (`MonthlyInv`). `PlansShareTheirCourts`: one request at a time is in the
window of `pricing_settings`, so that the sessions it will insert fit beside those
there are (`PlanJob`), on either driver. It speaks of the sessions that are stored,
which need not be all the hours of the plan. That a confirmation has room beside the
desk's bookings too (`ConfirmJob`) needs SQLite, since the desk takes no lock.
`CourtsShared` is the consequence that is inductive: no slot has more courts in
plans than there are.

*Referrals* (`ReferralsInv`). `CommissionsAgree`: a payout is inserted only where
there was none at all, voided ones included, and a void takes back all there are;
beside the agreement itself the invariant needs only that who pays or voids does
it for a referral that exists.

`PaymentsTyped`, `PackagesTyped`, `MonthlyTyped` and `ReferralsTyped` are the type
invariants.

### Office

*Monthly fees* (`BillingInv`). `MonthIsPricedAlways` is arithmetic over the
month: without a discount, and with leaves of the policy `legacy_prorated` if any,
the two computations of the code come to the same fee, whatever the day
of start, the fee and the length of the month are. `NothingIsPaidBeyondDue`, on
SQLite: the due that a request has read is the due of now. Leaves are disjoint on
SQLite, and their ids are keys (`LeavesNumbered`), which the counting of days needs.

*Communications* (`CommunicationsInv`). `CustomerIsAlwaysTold` holds on both
drivers, with the process stopping between any two statements. It has two halves
that share no table. `Asked` is about the booking: what it needs beyond the
property is what the approval has done before it marks the request, namely that
a request that goes on to close one finds the booking cancelled. `Told` is about its
messages: an event key is inserted once
(`idx_booking_communications_event_channel`), so that only the request that
inserted it goes on to send (`OneDispatch`); while it does, the row is pending and
the gateway has nothing yet (`Dispatched`); hence nothing is handed over twice,
and a row says `sent` only where the gateway took it (`Counted`).

*Sheets* (`AttendanceInv`). `SavesAreSound`, an action property on both drivers:
one request writes a sheet, and the page that goes on saw none (`SheetIsLocked`,
from the lock on the group); the day that will be marked is still covered
(`StatusIsCurrent`, on PostgreSQL from the lock on the enrolment, on SQLite because
the change of status ends the save).

*Staff attendance* (`StaffInv`). `WorkNeverOverlaps` on SQLite, where a save is one
transaction and its form is acceptable by itself.

*Payroll* (`PayrollInv`). `PayrollSettlesOnce`, on SQLite: what a request has read of
a salary or a run is still so (`StillSo`), and what it is about to generate is
claimed by no other salary (`GeneratesWell`). A generation writes two salaries of
a run and an approval all of them; `Touches` says what such a step leaves alone.

`BillingTyped`, `CommunicationsTyped`, `AttendanceTyped`, `StaffTyped` and
`PayrollTyped` are the type invariants. That of the communications needs that the
outcome a request will record is one that the gateway gave (`CommunicationRows`).

### People

*Enrolments* (`EnrolmentsInv`). `EnrolmentsAgreeAlways`, on both drivers: every
history has one open interval, with the flag of the enrolment (`HistoriesKept`),
which `SyncedFollows` shows of `Synced` in each of its cases; the transaction an
enrolment names is a standing admission of it (`AdmissionsKept`).
`TransfersClose`: who transfers an enrolment finds it active, on PostgreSQL by the
row lock. `MoneyStays`, on SQLite: nobody has paid since the request looked
(`UnpaidStill`).

*Groups* (`GroupsInv`). `HistoriesStand`: histories are well kept, that is begun,
not empty and disjoint for each person (`WellKept`), the open rows are the members,
and, unless a save is between its transactions or has stopped there, the staff
(`StaffShown`). `HistoryIsWritten` is the lemma all writers share: after `HistoryOf`
the history is well kept, its open rows are what was wanted, and no day that has
passed says anything else of anybody.

*Uploads* (`UploadsInv`). `FilesAlwaysStand`: a file has one owner, a row with the
requests that have read it or a request that will insert one (`OneOwner`); two
requests with one row have tangled it (`OneReader`); so that who removes the old
files of a row removes nobody else's. `Ready` says what a request may count on
between saving files and writing the row.

*Profiles* (`SalariesInv`). `PayAlwaysCountsOnce` has three parts. One profile of a
kind on a day: active profiles do not conflict as long as no two changes of
profiles overlapped (`ProfilesApart`). Hours paid once: hours are counted as the
size of a set of pairs of day and hour, to which each work session adds its own
(`SumOfSizes`). Students: what the code finds by comparing the ends of intervals is
what a look at every single day of the period counts, for each of the three bases
and for any roster (`StudentsByDay`).

`EnrolmentsTyped`, `GroupsTyped`, `UploadsTyped` and `SalariesTyped` are the type
invariants.

### Books

*Cash book* (`CashbookInv`). `BooksAgreeAlways`: a form that a request is about to
post is not in the book (`CashbookJob`), on PostgreSQL because the operation key
keeps the others waiting (`KeysApart`); an account with entries is there. The
opening balance (`OpeningShown`) and the parts of `EntriesStaySettled` that compare
a balance hold on SQLite, where what `MayEnter` asked of the books is so at the
commit.

*Tournaments* (`TournamentInv`). `TournamentAlwaysAgrees`, on SQLite: every amount
that the tournament shows has a transaction of its own (`FeesPosted`,
`ItemsPosted`), and the sums on both sides change by the same amount when one comes,
changes or goes (`FeesMove`, `ItemComes`, `ItemGoes`).

*Catalogue* (`CatalogueInv`). `CatalogueAlwaysResolves`: as long as operations do
not overlap, what one has looked at is so still (`StillThere`), and references
resolve. However they overlap, prices and programmes have the slug of their game
(`OfItsGame`), since ids are not used again.

`CashbookTyped`, `TournamentsTyped` and `CatalogueTyped` are the type invariants.

### Only model-checked

- The liveness of the reminders, `EveryoneIsTried` and `ClaimIsAnswered`: liveness
  under fairness and `ENABLED` are out of the prover's reach.
- Everything about PostgreSQL that the properties exclude; the violated runs and
  "Seen while modelling" say what happens there.

Also out of reach are induction principles with an operator as parameter (`SetSums`
is the way around for sums) and recursive operators, which no module here declares.

### What the proofs changed in the models

- `BookingPayments`: whether a row is free for a booking was asked of the other
  requests in a way that held for one request vacuously; it names them now.
- `MonthlyPlans`: the weekly hours of a plan are a finite set, and a span of leave in
  `MonthlyBilling` has two ends in order. Both were so in the runs and said nowhere.
- `Catalogue` is written without the functions of the `TLC` module, and the layout
  it is seeded with is named among the forms a layout may have.
- `Referrals`: the commissions that may be set include 0, which is how none is set.
- `SalaryProfiles`: the rosters of the runs had no enrolment that was left and taken up
  again, and marked students only on days on which they were enrolled, which the code
  does not require. The proof counts for any roster, and the run now has both.

## Not modelled, and why

- *Accounts, sign-in and verification.* Who is allowed to do what: handlers are
  modelled behind their permission checks. One-time codes count their attempts by
  statements of their own and would make a module of the same kind as the others.
- *Schema bootstrap and migrations.* They run before the first request; what two
  processes do that start at once is listed as a hazard, and there is no module
  for it yet.
- *Reports, exports, insights, statements, receipts.* They read and format.
- *Templates, directory forms, divisions, UAT seed data.* Rendering, fields that
  no property here depends on, and test data.
- *Bookings:* titles, notes, contacts. *Cash book:* categories and the specified
  ledgers, which are labels on an entry. *Profiles:* the amounts. *Shared
  attendance:* the tokens of its links.
- *The switches of the catalogue* (closures, programmes, automatic acceptance) are
  written by one statement that looks at nothing.
- *Other uploads* (staff, sponsors, advertisements) follow the pattern of those
  modelled.
- *Two edits of one training group that overlap on PostgreSQL*: a save is one of
  its two transactions at a time, and the second one's statements are not taken
  apart.
- *Clock skew and time zones:* there is one clock. *A PostgreSQL session lost inside
  a transaction* is the same as giving up.

## Plan

Done, in this order: the booking desk with its abstract inventory, proved;
payments; packages; reminders, proved; the driver semantics of `Transactions`;
communications, attendance and referrals, proved; enrolments, monthly fees,
groups, uploads; payroll and profiles; cash book, tournaments, catalogue; monthly
plans; staff attendance; then the safety invariants and action properties of all of
them, proved.

Next:

1. An abstract ledger of what customers pay (quoted, collected, settled in one step)
   that `BookingPayments` implements, as the booking desk implements
   `CourtInventory`.
2. What the desk and the packages, or enrolments and groups, promise each other: the
   weakest thing that one module lets the other do, shown to include what the other
   does.
3. What remains true on PostgreSQL of the components whose theorems exclude it: the
   part of each invariant that locks and compared columns protect.
4. Models of the one-time codes and sessions of `public_auth_handlers.go`, of the
   migration runner with two processes, and of overlapping edits of one group.
