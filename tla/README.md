# Asas School backend: models, checks and proofs

This directory holds TLA+ models of the Asas School backend (Django, DRF,
PostgreSQL), the TLC configurations that check them, and TLAPS proofs.  It is
the verification project kept beside the code in `src/`; paths below are
relative to the repository root.

## 1. How to read the models

The backend is a set of Django applications over one PostgreSQL database,
served by several processes, plus a push worker and a timer command.  There is
no `ATOMIC_REQUESTS`; isolation is READ COMMITTED.  That fixes the atomicity of
every model:

* a statement outside a transaction is a step of its own;
* a `transaction.atomic` block is split where another transaction can get in:
  at each row lock it may have to wait for, and between what it reads without
  a lock and its commit.  A block whose only wait is its first statement is one
  step guarded by that lock;
* what a process read into memory stays in its own variables until it uses it.

Comparisons with "now" are timers that time actions move; amounts are cents;
names, texts and ids are model values.  An action carries the name of the
function it models.  Definitions marked `Mutant:` are plausible bugs; replacing
the definition that follows by one must violate the property the project
description (`PROJECT.json`, `mutants`) pairs it with.

## 2. Inventory

| component | state it keeps | operations | what is hard | what makes it correct |
|---|---|---|---|---|
| push outbox worker (`notifications/push_worker.py`, `push_services.py`) | push columns of notification rows; a batch in memory | claim, read devices, send chunks, record, expire, stop | leases that lapse, crashes after sending, two workers, partial failures | no late result wins, settled is final, every pending row ends, sent is true |
| notifications (`notifications/services.py`) | notification rows, unique event keys | create one, create many, mark read | two fan-outs with the same keys; recipient changes between check and insert | one row per event key and recipient, none for the wrong recipient |
| push devices (`notifications/device_services.py`) | device rows: owner, token, active | register, unregister, disable dead | two sign-ins with one token; a dead answer for an old token; deleted owner | one active row per token, at most the limit per user |
| accounts and sessions (`accounts/`) | user rows: active, must_change_password, token_version | login, refresh, logout everywhere, reset, change, (de)activate | stale user object on save; refresh racing with revocation | a revoked session never comes back, a reset is not lost |
| roles and permissions (`accounts/services.py`) | role, business permissions | change role, replace permissions | two managers, checks on different rows | somebody can still manage permissions |
| guardian deletion (`accounts/services.py`) | user, links, notifications, devices, import rows | delete | concurrent inserts for the guardian | nothing personal remains |
| finance (`finance/`) | plans, accounts, discounts, payments | create plan, discount, pay, cancel, change price | check-then-insert under row locks taken in different orders; rounding; accounts moved by corrections | nobody overpays, decisions hold at commit, every request ends |
| enrollments and placement (`students/`) | enrollment section, student audit log | enroll, transfer, correct, patch, delete | full-row PATCH from a stale copy; attendance and scores racing with a correction | section follows the audit chain; history belongs to the section it was made in |
| student registration and import (`students/student_import_*.py`) | job, rows with leases, students, guardians | validate, claim, execute, refresh | leases, crash between rows, poison rows, duplicate guardians | each row executed at most once, job status agrees with rows |
| attendance (`attendance/`) | sheets, records | create sheet, update, bulk, normal departure | roster of a day while students move | one sheet per section and day |
| grades (`grades/`) | assessments, section links, scores | create, update, schedule, publish, save scores | saving while publishing, lowering the maximum | no score above the maximum, published results do not change |
| announcements (`announcements/`) | publish time, notified time | publish, notify due | request and timer announce the same one | announced once |
| appointments, school requests | status | request, approve/reject, answer | two deciders | decided once |
| homework and attachments (`homework/`, `config/attachment_*`) | row with a file name, file store | create, replace, remove | file deleted at commit, row saved from a stale copy | no row without its file, no file without a row |
| teaching assignments (`teaching/`) | start and end dates | create, end, reopen | check without a lock | one open assignment per section and subject |
| academic structure (`academics/`) | years, terms, grades, sections, supervisor scope | CRUD, activate | uniqueness of the active year and term | by database constraint |
| audit log, behavior, dashboard, mobile reads, configuration | rows written once, or nothing | insert, read | little | not modelled, reasons in `PROJECT.json` |

Interactions: every application calls `notifications/services.py` inside its own
transaction, so a notification exists exactly when the change it announces
committed; the push worker is the only consumer.  Enrolling and creating a
plan create financial accounts; correcting a placement moves them; the import
executes registration, enrollment and account creation per row; deleting a
guardian touches notifications, devices and import rows.

`PROJECT.json` lists, under `hazards`, each place where one of these can go
wrong and the properties that cover it, or why none does.

## 3. The modules

| modules | models | abstract specification | run |
|---|---|---|---|
| `PushOutbox`, `MCPushOutbox`, `PushOutboxProofs` | push worker and its table | `PushPromise` | `push_*` |
| `FinanceLedger`, `MCFinanceLedger`, `FinanceLedgerProofs`, `Sums` | tuition accounts | `FinanceBook` | `finance_*` |
| `StudentImport`, `MCStudentImport`, `StudentImportProofs` | imports and registration | `ImportPromise` | `import_*` |
| `Accounts`, `MCAccounts`, `AccountsProofs` | accounts, sessions, roles, permissions | | `accounts` |
| `GuardianData` (in `MCAccounts`), `GuardianDataProofs` | devices, notifications, closing of accounts | | `accounts` |
| `Placement`, `PlacementProofs` | enrollments with their log, against attendance and scores | | `school_day` |
| `SchoolDay`, `MCSchoolDay`, `SchoolDayProofs` | the five below and `Placement` as parts of one school | | `school_day` |
| `Attendance` (in `SchoolDay`) | the sheets of one section | | `school_day` |
| `GradeBook` (in `SchoolDay`) | assessments, scores, publication | | `school_day` |
| `Postings` (in `SchoolDay`) | announcements, homework, files, the timer command | | `school_day` |
| `Decisions` (in `SchoolDay`) | appointments and letters | | `school_day` |
| `SchoolYear` (in `SchoolDay`) | years, terms, teaching assignments | | `school_day` |

The modules meet in tables one of them writes and the others only read, and
each keeps of such a table what its own operations depend on: `Placement` has
the race of transfers with attendance and scores, so that in `Attendance` and
`GradeBook` nobody moves; the end of a guardian link or of an assignment is a
step of every module that reads them; `FinanceLedger` has placement corrections
as far as they move money; what becomes of a notification row after it was
inserted is `PushOutbox`.  `MCAccounts` and `SchoolDay` bring modules
together whose behaviours do not interleave: a behaviour is one of a single
part (`topic`, `part`), with the operations of one scenario.  `SchoolDay` has
constants of its own for all of them, so that its theorems hold for every
school; `MCSchoolDay` gives those constants the values of the run.  It assumes
`Sensible` of each part (what the definitions of that module say about their
constants), which TLC evaluates for the instance.

Every safety and action property of the passing runs is a theorem for all values of
the constants, under the assumptions named in the sections below; the runs show that
those assumptions can be met and that the properties say something (each has a
mutant that breaks it).  The liveness properties `EventuallySettled`,
`RequestsEnd` and `JobsFinish` are checked by TLC only: TLAPS has no proof rules for
fairness and `ENABLED`.

## 4. The push outbox: `PushOutbox`, `PushPromise`

One row per notification with the push columns of `notifications/models.py`;
one process per `run_push_worker` with the batch it has in memory (`job`).
`ClaimBatch` is the transaction of `claim_batch`: expire stale rows, lease due
ones.  `ReadDevices`, `SendChunk` and `DisableDeadDevices` are one call of
`send_claimed_notifications`, `RecordResults` the conditional updates of
`record_results`; `BatchFails`, `RequestStop`, `ExitWorker`, `KillWorker` and
`StartWorker` are `PushWorker.run` and systemd.  `BecomesDue`, `LeaseLapses`
and `GrowsStale` are time.  Firebase answers anything for each delivery;
`accepted` is a ghost that remembers what it really took, also when the answer
was lost.  Accounts and device rows change under the worker by the actions of
the section "What the accounts and device endpoints change".

`PushPromise` says what the statuses of `docs/production_deployment.md`
(section 8) mean for one row, without leases, workers or time; `PushOutbox`
implements it with the mapping `status`, `push_attempts`,
`push_delivered_device_ids`.

| run | question | bounds |
|---|---|---|
| `push_races` | two workers, leases that lapse under a slow batch, partial deliveries, retries: who may write a row, and do the statuses mean what `PushPromise` says? | 1 row, 2 devices, 2 workers, 2 attempts; a lease token per worker and one left on a row; no faults |
| `push_settles` | with errors, stops and kills, is a row settled truthfully, once, and in the end? | 1 row, 1 device, 2 workers, 1 attempt, 1 fault, fair workers and time |
| `push_batches` | with leases sized as the guide asks, is anything sent by two workers at once, also when a batch holds several rows? | 2 rows, 1 device, 2 workers, batch and chunk of 2, push switched on or off, no late sends |
| `push_expired_sent` | finding: `expired` is not "never sent" | 1 row, 2 devices |

Kills are left out of `push_races`: a lease that lapses (not bounded) already
makes a live worker look dead, and the theorems below hold with any number of
faults.  One row is enough for the races because the protocol couples rows only through
the batch (covered by `push_batches`) and the oldest-first limits.
`MaxFaults` bounds errors, stops and kills.

Fairness (`FairSpec`): systemd has `Restart=always` and the loop of
`PushWorker.run` never ends by itself, so each worker's next step is weakly
fair; time passes.  Requests, users and faults owe nothing.  Nothing is assumed
of Firebase or of the speed of a batch: with `LateSends` every attempt may
outlive its lease, and `EventuallySettled` still holds because expiry looks at
age only.

**Proved** (`PushOutboxProofs`, for any finite sets of rows and devices, any
workers and any fresh supply of tokens, under `OutboxAssumption`):
`TypeCorrect`; `LeaseInvariant`, the inductive invariant; and from it
`HolderStaysCurrent`, `PendingNeverStuck`, `SentIsTrue`, `OutcomesAreFinal`,
`ProgressSurvives` and the refinement `OutboxKeepsPromise`.  The argument: a
token is never issued twice while anyone remembers it, so a row that still
carries a worker's token was touched by nobody since that worker claimed it
(`HolderIsCurrent`); then the absolute values `record_results` writes are one
attempt on top of the current ones.  `HolderIsCurrent` is not inductive alone:
it needs exclusive tokens, that only pending rows carry one, and that what a
batch has delivered was accepted.

`NothingIsResent` is
`NoConcurrentResend` under the assumption the guide asks for, `~LateSends`: a
batch is over before its lease is.  Its invariant `ResendInv` relates four
things: a worker's token is still on every row of its batch (`BatchHeld`), so
two batches share no row (`BatchesDisjoint`); its copy has every delivery the
rows have recorded (`CopiesCover`); and what it still has to send is not
delivered according to that copy (`TodoIsNew`).  `EventuallySettled` (liveness) is
checked by TLC only.

## 5. Finance: `FinanceLedger`, `FinanceBook`

One academic year.  An enrollment has the grade of its section, an account has
a plan (named by its grade), discounts and payments.  A request locks rows one
by one (`todo`, `lock`), decides (`Check`), and commits; PostgreSQL's part is
modelled from how the code uses it: a joined `SELECT ... FOR UPDATE` locks the
rows of all its tables, a row changed during the wait is read again, foreign
keys take `FOR KEY SHARE` (so an insert waits for a locked parent), a deadlock
has a victim.  `CancelDiscount` and `CancelPayment` take one lock first and are
one step.  Totals, their rounding and the three decisions are
`calculate_account_totals`, `quantize_usd` and the checks of
`create_student_discount`, `record_payment` and `update_tuition_plan_price`.
Corrections and patches of enrollments appear as far as they concern money: a
correction moves the account to the new grade's plan, a PATCH writes back the
section it read.

`FinanceBook` is the same ledger with one atomic step per operation, decided on
the state it changes.

| run | question | bounds |
|---|---|---|
| `finance_money` | can two concurrent requests on an account decide on the same remaining amount, or a price change or correction slip in between? | 1 account, 2 plans of 5 and 3 cents, a 50% and a fixed discount, 2 ids each, so roundings (2.5 to 3) happen; PATCHes of the enrollment; students without guardian, where no notification adds a lock |
| `finance_accounts` | plans and enrollments created while others correct and change prices; does every request end though lock orders differ? | 2 enrollments, 2 grades without a plan at the start, one price; a payment and a price change, which lock plan and account in different orders, are among the operations |
| `finance_overdiscount` | finding: a correction leaves discounts above the new price | |
| `finance_stale_patch` | finding: a PATCH undoes a correction and the account no longer matches | |

Two requests at a time are enough for the lost-update cases: each decision
depends on one account and one plan, and every other request either holds one
of their locks or does not touch them (that is what the proof makes precise for
any number).  Cent-sized prices keep the sums small while every comparison
(fully paid, exactly equal, one over) occurs.

Fairness: `SF` on each request's next step, since PostgreSQL queues the waiters
of a row lock and detects deadlocks.

**Proved** (`FinanceLedgerProofs`, for any sets of requests, enrollments and
grades, under `LedgerAssumption`): `TypeCorrect` (with the foreign keys),
`VerdictsStayTrue`, `PlanIsPinned` and the refinement `LedgerImplementsBook`.
The argument is rely-guarantee: `Courteous` says what a step of one request may
do to rows it has not locked, `Bystander` that a courteous step leaves every
other request's locks and decision as they were, and one lemma per step that it
is courteous and leaves its own request in order.  The inductive invariant
`LedgerInv` records, for each stage, which locks a request holds or still waits
for; `VerdictsHold` alone is not inductive.  The proof needs the foreign keys as
much as the `FOR UPDATE`s: without `CommitRows` a new plan or a correction would
slip under a checked price change.

`NobodyOverpays` and `OnlyMovesExceed` follow from the refinement: what a step
of `FinanceBook` does to an account, together with `MoneyInv` (finitely many
discounts and payments, a paid account is pinned, what remains is not
negative).  They speak of totals, which `MapThenSumSet` computes recursively.
Module `Sums` proves what is needed of them: the recursive function exists on
every finite set (`SumExists`), it is the only one (`SumUnique`), and it may
take any element first (`TotalsAddUp`).  No induction theorem with an operator
parameter is used: a set of counterexamples has a smallest member, because
strict inclusion of finite sets is well-founded (`SmallestSubset`).  That
payments never exceed what is left in cents holds for every rounding of
percentages, since `DiscountUsd` enters only as a natural number.
`RequestsEnd` (liveness) stays with TLC.

Not modelled: conversion of SYP amounts (the equivalent is an input; an amount
that rounds to zero is among them), remaining preview, listings.

## 6. Student import: `StudentImport`, `ImportPromise`

`jobs` and `rows` are the two tables of an import, `students` counts what was
created from each row or registration form, `accounts` says who has a national
id, `yearOpen` is the status of the rows' academic year, `lock` the row locks
and the uncommitted accounts (an insert waits for them).  `Workers` are requests
of `StudentImportProcessView`, `Clerks` requests of `StudentRegistrationView`.

`Upload` is `create_student_import_job`; that its reads happen earlier than its
insert makes no difference to anybody else.  `ClaimRows` is the transaction of
`_claim_rows`.  `TakeRow`, `Revalidate`, `LockYear`, `FindGuardian`,
`InsertGuardian` and `CommitRow` are one transaction of `_execute_claimed_row`,
split where it reads, waits or commits; a failure on the way is `FailRow`, the
savepoint rolled back and the row settled.  A registration goes through the
last four as well (`register_student`).  `CountRows` and `SaveJob` are
`_refresh_job`.  `Abort` is any unexpected exception or crash, `LeaseLapses`
the ten minutes of a lease, `ChangeYear` and `CreateStaff` the rest of the
school.  What is wrong with a row on its own (`HasIssues`) is abstracted to the
two cases that other requests can bring about: a closed year and a national id
of somebody who is no guardian.  The data of one guardian agree in all rows and
forms, so `guardian_data_conflict` does not arise.

`ImportPromise` has no leases, locks or requests: a row is imported (one
student) or refused (none) once, a job is finished after all its rows, with
errors exactly if one was refused.

| run | question | bounds |
|---|---|---|
| `import_siblings` | two siblings in a file and a third at the desk: who creates the guardian, does anything go in twice, and does the job finish? | 2 rows, batches of 1, 2 requests, 1 registration, 1 fault |
| `import_twice` | finding: one student in two files is created twice | 2 jobs of 1 row |

`MaxFaults` bounds aborts and leases that lapse under a living request; leases
of dead requests always lapse.  Two requests are enough for the lease protocol
because a third holds neither the row nor the job.  Two rows show every way in
which requests share a job (three rows with batches of two do not finish in
minutes); the theorems hold for any number.

Fairness (`FairSpec`): requests go on (`SF`, as PostgreSQL queues waiters),
time passes, and the client asks for the next batch as long as the job is not
finished; the server has no worker of its own for imports.  A row whose
execution fails unexpectedly every time is not covered: it would be claimed
first again and again, and nothing in the code ends its job.

**Proved** (`StudentImportProofs`, for any sets of jobs, rows, forms and
requests, under `ImportAssumption`): `TypeCorrect`, `CountersAreExact`,
`ProgressOnlyGrows`, `ClosedYearsStayClosed`, `RefusalsAreJust` and the
refinement `ImportKeepsPromise`.  The inductive invariant `ImportInv` says which
locks a request holds at each stage and what it knows thanks to them: the row it
works on is still being processed, the year is open, and between counting and
saving the counts lie between the job's counters and the rows (`CountsOK`), with
equality once all rows are settled.  As in finance, `Courteous` says what a step
may do to what others rely on and `Bystander` that this is enough for them;
`Effects` classifies the steps once for all theorems.  `FinalCountersExact`
alone is not inductive: a request that counted before the last row settled must
be shown unable to save afterwards.  `JobsFinish` (liveness) stays with TLC.

## 7. Accounts: `Accounts`

`row` has the columns of `accounts_user` that decide something, `perms`,
`scope` and `links` the tables beside it, `token` the pairs of tokens that are
out.  A request copies the account of its sender when it is authenticated
(`me`) and of its target when it is validated (`was`), as Django's `request.user`
and `get_object` do, and both copies may be old when its transaction runs.
`Start...` is authentication with the permission classes and the serializer's
validation; `SetActive`, `ResetPassword`, `ChangePassword`, `UpdateMe`,
`DeleteGuardian`, `CreateAccount` and `UpdateAccount` are transactions guarded
by the lock of their target.  `StartRefresh` and `IssueTokens` are the two halves
of a refresh: the version is compared in the first, the pair handed out in the
second.  `FindAdmins`, `LockAdmins`, `LockTarget` and `CommitPermissions` are
`replace_user_business_permissions`, which locks several rows.

`revoked` counts how often the sessions of an account were to end; a session
remembers the count at its sign-in, so `RevokedStaysOut` says that tokens of
before are not accepted after, whatever versions they carry.  `patched` names
the accounts to which `WebMeUpdateSerializer` wrote an older copy: such a PATCH
does undo a deactivation or a reset, and the properties except these accounts.

**Proved** (`AccountsProofs`, for any sets of accounts, requests and sessions
and any number of revocations): `TypeOK`, `RevokedStaysOut`, `ScopeMatchesRole`
and `ManagersRemain`, all the properties of the run about this module.  None is
inductive by itself.  `AccountsInv` adds `UserOK` (the version of an account is
one more than its revocations), `SessionOK` (the version in a token is one more
than the revocations at its time, which with `UserOK` makes equal versions mean
equal times), the same of the pair that a refresh carries between its halves,
`FieldsOK` (what validation found out about a request and is still true later:
accounts are never deleted, and a scope is asked for only together with the
role of a supervisor, in the copy), and `LocksOK` with `HeldByAdmins`: between
`LockAdmins` and the commit the administrators counted on are locked by this
request and still active administrators, so the verdict on the last manager
holds until the commit.  Every step is then `GoodStep(p)`: it keeps its own
part and is `Courteous` to the others, above all to accounts they have locked.
That `ManagersRemain` needs no exception shows that profile patches do not
touch it: they wait for the lock.

## 8. Devices and notifications of guardians: `GuardianData`

`device`, `older` (their order by `last_seen_at`) and `note` are the tables,
`userLock` and `rowLock` PostgreSQL's row locks.  `LockGuardian` to
`StoreDevice` are `register_push_device`, a step per wait; `SaveDevice` stands
for the unique index on active tokens, which waits for a token that is being
stored and then refuses it.  `Validate`, `BulkInsert` and `OneByOne` are
`create_notifications` with its fallback after a clash, `LockAccount` to
`CommitClosing` are `delete_guardian_account`.

| run | question | bounds |
|---|---|---|
| `accounts` | does an ended session stay ended; do scopes follow roles; can managers lose the last permission; do devices and fan-outs survive concurrent sign-ins, inserts and closings? | 3 accounts and one to be created, 2 requests, 2 sessions, versions up to 3, ten sets of operations that share state; 2 guardians, 2 installations, 2 tokens, limit 1, 1 event, 2 transactions |

Two requests at a time and two revocations are enough for a stale copy to meet
a newer row twice.  Sets of operations keep the instance small; each pairs the
operations that write the same columns.  A limit of one device makes every
second sign-in push another device out.  Only safety is checked, under no
fairness; deadlock checking is off because behaviours end at their bounds.

**Proved** (`GuardianDataProofs`, for any sets of guardians, tokens, events and
transactions, any finite set of installations and any limit of at least one:
`Sensible`): `DevicesInOrder` and `NobodyIsMissed`.  The invariant `GuardianInv`
says per transaction what keeps them true between its waits.  A registration
holds its guardian's row and its device's (`LocksOK`); the token it is about to
store is on no active device except those it will switch off, and no other
transaction is storing it (`StoreOK`): all because a registration that wants an
active device switched off must lock it, and `SaveDevice` waits for a token
that is being stored.  A closing has locked the devices it is going to delete, and a
fan-out inserts for exactly those who lack the notification (`FanOutOK`).
`Gentle(p)` is what a step of one transaction may do to the others: leave locked
rows and their tokens alone, activate only a device it has locked, keep
notifications of open accounts.  That switching off the excess leaves the limit
(`RestFits`) is a fact about finite sets in a line: whoever is left has fewer than
`Limit` newer ones, so the oldest of them bounds them all (`FirstInLine`).
`AccountsProofs` carries both theorems to the behaviours of `MCAccounts`, which
asserts `Sensible` of its instance so that TLC evaluates it.

## 9. Placement: `Placement`

`section`, `since` and `log` are an enrollment with its `StudentAuditLog`,
`records` the attendance records, `score` the section a score was recorded
under.  `stay` is a ghost: the sections the student really was in on a day.  A
transaction reads (`Start...`), locks (`Lock...`: `select_related` joins year
and section into the `SELECT ... FOR UPDATE`, and a row that moved during the
wait no longer matches its join), and writes; a foreign key to a locked section
waits.  `Transfer` and `Correct` are `transfer_student_between_sections` and
`correct_enrollment_placement`, `StartSheet` to `StoreSheet`
`create_attendance_sheet` over `get_effective_attendance_roster`, `StartScore`
to `StoreScore` what `save_assessment_scores_bulk` depends on,
`SectionOnExamDay` is `get_enrollment_section_id_on_date`.

`StartPatch` and `Patch` are the PATCH of an enrollment: it saves every column of
the copy it read, and so may put back the section a transfer or a correction
took the student from.  The ghost `rewound` remembers the enrollments to which
that has happened.

`PresentWhereTheyBelong` compares the records with `stay`, not with what the
roster says.  `ScoresMeetHistory` says that a new score is under the section in which
the exam day ended, and that nothing changes afterwards what the register says of
days gone by.  The end of the day is what `get_enrollment_section_id_on_date`
computes (it undoes transfers of later days only); its docstring speaks of the
start of the date (`grades/selectors.py:15`), which differs on a day with
transfers.  The property follows the code, and attendance goes by the start of the
day.  It has two exceptions, which the code has.  `BulkAssessmentScoresSerializer`
loads the enrollments before any lock, `get_enrollment_section_id_on_date` takes
the section of that copy when there is no transfer, and nothing reads the row
again under the locks: a correction that commits in between (`Outdated`) finds no
score yet, and the score is then stored under the section the correction took
back.  While such a request is under way nothing is promised of its enrollment
(`Uncertain`).  And nothing is promised of one that is `rewound`.

**Proved** (`PlacementProofs`, for any sets of enrollments, sections and
transactions, any number of days and moves and any operations together, PATCHes
included): `TypeOK` and `HistoryIsAChain`.  The chain alone is not inductive:
`JobOK` adds that between its lock and its write a request holds the row lock and
its copy of the section is the present one, `RowOK` that an enrollment that does
not exist has an empty log and no lock, so that enrolling and deleting start from
nothing.
`PresentWhereTheyBelong` and `ScoresMeetHistory` are proved from
`BelongInv`.  `DaysOK` says that the first section of today is what the log and
the row make of it, `SatOK` the same of the last section of the exam day (before
that day: of the row), `RecordOK` is the property itself.  They hold through a
step because of what a request keeps true between its check and its write
(`HeldOK`): a checked correction finds no transfer, record or score until it
writes, since records and scores need the row lock it holds; a locked sheet has
the section of everyone on its roster locked, and so no correction of them is
under way; a locked score likewise, unless its copy was outdated.  Until an
enrollment moves, all copies of it agree (`Agreed`).  The proof goes by
`FairStep`: what a step of one transaction may do to a row (`RowStep`) and to what
the others have checked; each action is shown to be such a step.  That the first
and last of the moves exist (`MinIn`, `MaxIn`) comes from `SmallestSubset` of `Sums`.

## 10. Attendance: `Attendance`

`sheet` has the records of the roster by day, `notices` the notifications of
absences.  `Normalized` is `normalize_and_validate_record` with its clearing of
fields; `TakeAttendance` is `create_attendance_sheet` once the roster is settled;
`AskPatch`, `AskBulk` and `AskDeparture` find and validate against what they
read, `Edit` and `NormalDeparture` read again under the row locks and apply all
or nothing.  `Today`, `HistoryDays`, `Summary` and `Rate` are the phone's views.

**Proved** (for any pupils, staff, days, times and inputs): what the part owes
to `EditsKeepEditsOfOthers`, `BooksAddUp`, `FamiliesAreTold` and `TablesOK`.
`AttendanceInv` says of every record on a sheet that it makes sense, and of a
request only that its sheet exists and that what it says is data: nothing a
request read may be relied upon, which is why it reads again under the locks.
That normalising never changes a field that was not named, except by the
clearing a status asks for, and always ends in a record that makes sense, are
lemmas about `Normalized` and `Cleared` for every record and every input.  That
the counts of the phone add up and the rate stays within 100 is arithmetic over
the cardinality of disjoint sets.

## 11. Grades: `GradeBook`

`exam`, `status`, `schedule`, `score` and `audit` are `Assessment`,
`AssessmentSection` (results and schedule), `StudentScore` and `ScoreAuditLog`;
`told` the notifications.  A request is validated by its view (`Ask...`, with
the duplicate check that takes no lock) and carried out under its row locks
(`Create`, `Update`, `Delete`, `SaveScores`, `PublishSchedule`,
`UnpublishSchedule`, `PublishSection`, `PublishGrade`).  `TermResults`,
`PhoneResults`, `PhoneExams` and `Percentage` are what staff and phones read.

**Proved** (for any finite set of assessments, any pupils, sections, staff and
scores): what the part owes to `PublishedResultsStand`, `BooksAddUp`,
`FamiliesAreTold` and `TablesOK`.  `BookInv` relates the four tables: a score
lies in a section its assessment is given in and within the maximum the
assessment has now, its log is a chain that ends with it, and an assessment
that is gone is given nowhere (`ScoreOK`, `ExamOK`).  Of a request under way it
needs the shape only, since every handler looks at statuses, maxima and
scores again under its locks.  The percentage of a term is a quotient of sums over a
set of assessments; that the one sum bounds the other is `TotalsGrow` of `Sums`.

## 12. Announcements, homework, files: `Postings`

`row` is an announcement or a homework, `targets` the two many-to-many tables of
an announcement, `files` the storage.  A write is `Ask` (find the row and its
target sets, validate, prepare the upload under a name of its own), `Lock`
(announcements only), `Store` (the file is written during `save()`), `Commit`
and `CleanUp` (the callback that removes the replaced file, which may fail or
never run).  `Commit` is `serializer.save()` with what surrounds it: `NewRow` writes
every column, those the request does not name from the copy it read (`seen`);
`NewTargets` replaces only the sets it names, over what is in the tables by then;
the notifications go to the sets as they are after that.  The validation and
`require_supervisor_targets` went by the sets as they were read (`among`,
`MeantTargets`): nothing reads them again under the lock.  `StartJob`, `SkipRow`,
`NotifyRow` and `FailRow` are `notify_due_announcements` with `skip_locked`, the
due condition checked again under the lock, and keyset batches.

So two PATCHes can leave the scope of one with the sets of the other, and two that
replace a file, each from its own copy of the row, can leave a row whose file is
gone.  The run reaches both.  `TargetsFitScope` says that the first comes from
nothing else: scope and sets that fit do not come apart except by the commit of
a request that was validated for sets another request has replaced (`Overtaken`).
`FilesMatchRows` says nothing of the files of requests that overtook each
other (the ghost `disputed`: what the outdated copy and the row name at such a
commit), and of every other file that rows and storage agree.

**Proved** (for any disjoint sets of announcements and homework, any sections,
children, editors, assignments and batch size, and any number of requests at
a time): what the part owes to `FamiliesAreTold` and `TablesOK`, and
`TargetsFitScope`, from `PostInv`; and `FilesMatchRows`, from `FilesInv`.
`PostInv` says that a row lock has a request behind it that works on
that row (`PostOK`), and of each request that what it will write has the columns
and is valid for the sets it read, that it holds the lock from `Lock` or `Store`
on, that the flag it read under the lock of an announcement is still the flag of
the row, and that the row of a creation is nobody else's (`WritingOK`).  The flag
is why an announcement goes out once: the timer passes over rows that are locked,
so nobody sets it between the lock and the commit.  `StoreInv` adds that
names come one after the other (`NamesOld`), that no two rows name one undisputed
file (`NamesDiffer`), that until the commit an upload is on no row, in no other
request, and in the storage once it is stored (`UploadOK`), and that after it the
replaced file is on no row (`RemovalOK`): then every step leaves the same files
without a name, or one more where a removal fails.

## 13. Appointments and letters: `Decisions`; calendar: `SchoolYear`

`Decisions`: `RequestAppointment` and `SendLetter` insert a case, `Ask` finds it,
`Lock` takes the row lock and looks at the status again, `DecideAppointment` and
`AnswerLetter` commit the outcome together with the notification.  An inactive
guardian makes `create_notification` refuse, and with it the decision on an
appointment; the answer to a letter only leaves the notification out.

**Proved** (for any staff, guardians, cases and texts): `DecisionsStand`, and
what the part owes to `FamiliesAreTold` and `TablesOK`.  `DecisionsInv` adds to the consistency of the rows that
whoever holds a row lock found the case open under it, and that a guardian was
told exactly the status of the row.  `Sensible` lists what is assumed of the
constants: blank is a text, ids differ, there is a first time.

`SchoolYear`: years, terms and teaching assignments are rows of the form start,
end, and so on.  A request validates its merged row against the others without
a lock (`Ask...`), `Save` writes every column later and only the constraints of
the tables (`Fits`) see what happened in between.  `raced` remembers that a row
was saved after one its validation had not seen: the constraints keep one year
and one term active in any case, the rest of `PeriodsInOrder` is promised as
long as no request overtook another, through any sequence of ends, reopenings
and shifted dates.

**Proved** (for any years, terms, assignments, plans and days): what the part owes
to `BooksAddUp` and `TablesOK`.  `CalendarInv` adds to the order of the rows that
what a request has validated is valid as long as nothing was written since
(`AskedOK`, by the counter `saves`); a save that comes later sets `raced`, and
then only what the constraints of the tables keep is claimed.

## 14. The run `school_day`

| part | question | bounds |
|---|---|---|
| placement | does everything recorded of a student agree with where the student was? | 2 enrollments, 3 sections of 2 grades, 2 transactions, 1 to 3 days, 2 moves each, nine sets of operations |
| attendance | do several editors of a sheet keep each other's edits, are records consistent, is each absence announced once? | 2 pupils, 2 staff, 2 days, 2 edits after the first sheet |
| grades | do published results stand, do scores, maxima and logs agree, who is told? | 2 assessments, 2 sections with a pupil each, a teacher and a supervisor, 3 requests, six sets of operations |
| postings | is an announcement made once, to those who then find it; do scope and target sets, rows and files match? | 2 announcements or 1 homework, 3 pupils with 2 guardians, 3 requests of one or two editors, at most one file mishap, eleven sets of operations |
| decisions | is a case decided once, and its guardian told? | 1 appointment, 1 letter, 2 staff, 1 guardian, one account or link that ends, 3 half days |
| calendar | do periods fit into each other after ends, reopenings and moves? | 2 years, 2 terms, 2 assignments on 2 subjects, 3 requests, 4 days |

Each hazard these modules are about needs two requests on one row and, for
files and reopenings, a third that uses the result.  Symmetry is over the
transactions of `Placement`, which are interchangeable.  Nothing is assumed of
fairness; deadlock checking is off because days and requests run out.  Two
scenarios of `Placement` have a PATCH beside moves: it saves the section it read
and breaks the chain of the audit log, the defect `finance_stale_patch` shows for
money, and from there on nothing is promised of that enrollment (`rewound`).

**Proved** (`SchoolDayProofs`): `TablesOK`, `BooksAddUp`, `FilesMatchRows`,
`TargetsFitScope`, `EditsKeepEditsOfOthers`, `PublishedResultsStand`, `DecisionsStand`
and `FamiliesAreTold`, each for `SchoolSpec` and every value of the constants.  A step
of the school day is a step of one part or leaves that part as it is
(`PartSteps`), and a behaviour of `Placement` too (`PlacementThrough`), so
`SchoolInv` is the conjunction of the invariants of the parts, each while its
part is the one at work.  The properties of `Placement` are proved in
`PlacementProofs` for its own `Spec`.

## 15. Not modelled

Behaviour records, the audit log, the dashboard, settings: no shared mutable
state or no decision on it (`PROJECT.json` gives the reason for each).  Single-row
CRUD of grades, sections and subjects, PATCHes of a person's own columns, the
reading of Excel files and the recompression of images, throttling, the
serialisation of tokens.  Enrolling a student again after the removal, and work
that runs over midnight, are bounds of `Placement`.

## 16. What a reader should know of the code

Met while modelling, outside what the properties promise:

* a PATCH that races a DELETE inserts the row again (enrollments, homework,
  years, terms, assignments); two PATCHes with a file can leave a row whose file
  is removed, and two that change the scope of an announcement scope and target
  sets of different requests (`announcements/views.py:304`; section 12).  The row
  and its two prefetched sets are three queries of the code and one step of
  `Postings`: an old row with newer sets is left out, and the invariants of
  section 12 relate what a request read of the one to the other in no way;
* a score may be stored under a section that a correction took back while the
  request was under way (`grades/services.py:308`; section 9), and
  `grades/selectors.py:15` promises the section of the start of a date where the
  code returns that of its end;
* two requests that validate at the same time can store overlapping terms or
  assignments (no exclusion constraint), and assessments that the duplicate
  check would refuse (`grades/services.py:89`); shrinking a year checks its
  terms, not its teaching assignments (`academics/serializers.py:63`);
* a profile PATCH writes an older copy of the account and undoes a deactivation
  or reset (`accounts/serializers.py:734`); a change of password overwrites a
  reset made since its validation (`:498`); an account PATCH without a role
  asks for the role of the copy it validated (`:816`); a change of role or a
  deactivation does not ask who still manages permissions;
* a notification or device can be stored for a guardian just after the account
  was closed; a link that becomes inactive during a fan-out fails the operation
  of the caller (`notifications/services.py:150`); a dead device is disabled by
  primary key although it may have a new token (`push_services.py:199`);
* an appointment of a guardian whose account is inactive can never be decided;
  one pupil who came late refuses a normal departure for all; creating an
  assessment for a grade does not check a teacher's assignment;
* publishing and saving scores lock rows in different orders: PostgreSQL aborts
  one of them.
