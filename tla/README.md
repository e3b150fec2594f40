# Verification of skv-hr-server

TLA+ models of the HR server in `src/src` (NestJS, TypeScript, MongoDB), the
TLC configurations that check them on small instances, and TLAPS proofs of the
properties that matter most for every instance. Paths below are relative to
the repository; `modules/` stands for `src/src/modules/`.

## The system

The server keeps the HR data of many companies (tenants): employees, branches,
shifts, attendance, leave, overtime, payroll. A client calls a REST controller;
guards check the token, the company's subscription and the role; a service
runs the operation against MongoDB through repositories. There is no queue, no
lock, no scheduler and no worker: **a handler is an `async` function that
awaits database operations one after another, and any other handler may run
between two of them.** Every operation is scoped to one `companyId`.

What makes it hard:

- *No transactions.* A service that changes two collections performs two
  updates; if the second throws or the process dies, the first stays.
- *No version checks.* Services read a document, check its status and later
  update it by `_id` alone (`updateRequest`, `updatePeriod`, `updateLog`), so
  the status that was checked may be gone.
- *Few unique indexes.* Most "at most one" rules are a query before an insert.
- *Retries.* A client that got no answer repeats its request; nothing
  recognises the second one.

### Components

| Component | State | Operations that change it | What makes it correct |
| --- | --- | --- | --- |
| leave (`modules/leave`) | leave types, requests with their approvals, one balance per employee, type and year | request, approve, reject, cancel, adjustBalance, type CRUD | one decision per request, one deduction per approval, no two live requests that clash, balances add up |
| payroll (`modules/payroll`) | periods, payslips | createPeriod, generatePayroll, hrReviewPeriod, payPeriod, updatePayslipAdjustments | one payslip per employee and period, totals add up, statuses of period and payslips agree, the workflow never goes back |
| attendance (`modules/attendance`) | attendance logs | checkIn, checkOut, manualAdjust | one check-in a day, no check-out without a check-in, reports that agree with each other and with the payroll |
| attendance-adjustments | adjustment requests; writes logs | create, cancel, approve, reject | one correction log per approval, the day keeps its punches |
| outside-work | outside work requests; writes logs | request, approve, reject | the log of an approved request is marked, no other is |
| ot (`modules/ot`) | overtime requests | request, approve, reject, cancel | one decision, the hours within the policy |
| employees | profiles; writes user accounts | create, update, softDelete, deactivate, reactivate, changeRole | the plan's limit, every employee has an account of their own with their phone, and it goes with them |
| branches | branches; updates users and employees | create, update, status, assignManager | the plan's limit, one manager on both sides |
| companies, plans, subscription guard | company, subscription, plan | create, suspend, activate, assignPlan, updateSubscription, extendSubscription, plan CRUD | an extension that was granted is served, updates are not lost |
| shifts | shifts, assignments | CRUD, assign, bulk-assign | one assignment on a day, nobody without a shift |
| company-policies | versions of the policy | createVersion, updatePayrollPolicy | what is in effect holds every change that is due |
| tax-configs | configuration, brackets | getOrCreate, update, calculate | progressive tax: no gap, no overlap |
| auth, users | users with one refresh token each | login, refresh, logout, change and reset password | a changed password ends the sessions |
| notifications | documents; map of sockets | send, mark read; connect, disconnect | a late disconnect removes no newer socket |
| announcements, devices, documents, uploads, departments, positions, holidays | single documents | CRUD | nothing across operations |
| audit-logs, dashboard, reports, health | append-only or none | | read-only |

Interactions: employees, branches and companies read plans; payroll reads
employees, attendance, approved overtime, approved leave, policies and tax
configuration; adjustments and outside work write attendance logs; leave,
overtime and adjustments create notifications and audit entries; every request
passes the subscription guard. `PROJECT.json` lists every component with its
status and every hazard with the line where it bites.

## Modules

| Module | Models | Checked by |
| --- | --- | --- |
| `ApprovalWorkflow` | abstract: one decision per request, its effect applied exactly once, unless two handlers decided it or one abandoned it | refined by `LeaveRequests`, `AttendanceDay` and `Overtime` |
| `LeaveRequests` | `leave.service.ts`, `leave.repository.ts` and their schemas | `MCLeaveRequests` |
| `LeaveRequestsProofs` | theorems about it | TLAPS |
| `PayrollCycle` | abstract: drafted, reviewed and paid payslips of one period | refined by `PayrollPeriod` |
| `PayrollPeriod` | `payroll.service.ts`, `payroll.repository.ts` and their schemas | `MCPayrollPeriod` |
| `PayrollPeriodProofs` | theorems about it | TLAPS |
| `AttendanceDay` | the writes of `attendance`, `attendance-adjustments` and `outside-work`, which share a collection | `MCAttendanceDay` |
| `AttendanceDayProofs` | theorems about it | TLAPS |
| `Staffing` | the writes of `employees.service.ts` to the employees and users collections, and `createOwner` of `companies.service.ts` | `MCStaffing` |
| `StaffingProofs` | theorems about it | TLAPS |
| `Serving` | the handlers, as the modules below share them | through them |
| `Sessions` | passwords and refresh tokens: `auth.service.ts`, and where `employees.service.ts` writes passwords | `MCOffice` |
| `Subscription` | `companies.service.ts`, `plans.service.ts` and `subscription.guard.ts` on one company | `MCOffice` |
| `Overtime` | `ot.service.ts`, `ot.repository.ts` and their schemas | `MCOffice` |
| `Branches` | `branches.service.ts` | `MCOffice` |
| `ShiftRoster` | assignments of `shifts.service.ts` and `shifts.repository.ts` | `MCOffice` |
| `Policies` | `company-policies.service.ts`, its repository, and `updatePayrollPolicy` of payroll | `MCOffice` |
| `PunchClock` | `attendance.service.ts` and `attendance.repository.ts` over several days: windows, statuses, records, reports, summaries, and the days the payroll counts | `MCOffice`, `MCNightShift` |
| `PayFigures` | `tax-calculation.service.ts`, `tax-configs.service.ts` and the calculation inside `payroll.service.ts` | `MCOffice` |
| `Routes` | the controllers, the order of `app.module.ts`, and the guards' decisions | `MCOffice` |
| `CompanyProofs` | theorems about `Sessions`, `Subscription`, `Branches`, `Policies` and `PayFigures` | TLAPS |
| `WorkTimeProofs` | theorems about `Overtime`, `ShiftRoster` and `PunchClock` | TLAPS |
| `OfficeProofs` | that each of them keeps its rule in the specification `office` checks | TLAPS |
| `Sums` | lemmas about sums over finite sets, for balances and the tax | TLAPS |

### How code becomes actions

A member of `Handlers` is a request the server is serving. `pc[h]` names the
operation it awaits next, `job[h]` the document it works on, and `draft`,
`seen`, `copy`, ... are its local variables. One action is what happens from
one awaited operation to the next: the write, then the checks and branches up to the next await. Two kinds of steps are
merged. A handler's reads before its first write are one step when nothing the
properties see can depend on the gap between them; where it does, the read is
a step of its own (`GenerateList`, `AdjustCheck`). And a handler that awaits
only one operation that matters is one action (`AdjustBalance`,
`ManualAdjust`, `OutingCreate`).

A single-document operation is atomic, as MongoDB promises. `insertMany` and
`updateMany` are not: `GenerateInsert` and `MoveStamp` write one payslip each,
in any order, and `MoveScan` fixes the set an `updateMany` visits when it
begins.

`Fail(h)` stops a handler wherever it is: the operation throws or the process
dies. What was written stays. A restart needs no action of its own, since no
state that matters lives in the process. A lost answer is a handler that has
finished; the client's retry is one more `Receive`.

Definitions named `X_SomeBug` stand before `X`, differ from it the way a
plausible mistake would, and are used nowhere: they are the mutants that
`PROJECT.json` names, and every checked property is refuted by one of them.

### LeaveRequests

`status`, `form` and `approvals` are the fields of a request document;
`balance` is the balance document per employee, type and year, in half days.
`notices` are the notification documents. The actions follow
`request` (`RequestCheck`, `RequestCreate`), `approve` (`ApproveRead`,
`ApproveWrite`, `ApproveCharge`, `ApproveTell`), `reject`, `cancel` and
`adjustBalance`. A request by name alone has no leave type and is never
deducted (`Typed`). The year of a deduction is that of the first day.

The DTO takes any ISO text for a date (`@IsDateString`), with or without a time
of day, and the service makes an instant of it (`new Date`), so `form` holds
instants: `DayLength` of them make a day, and a date alone is the first of its
day, midnight in UTC. `findOverlapping` compares the instants (`Meets`): two
requests at times of one day that lie apart are both accepted, and rightly so
for the model. So `Clash`, what should not happen, is said independently of that
comparison: two live requests of an employee have an instant in common, or they
were given by dates alone (`DatesAlone`) and have a day in common. `Charge` is
`totalDays`: the whole days between the instants, rounded down, and one; a
half-day request counts 0.5 whatever its dates.

### PayrollPeriod

One period of one company. `Slots` are the payslip documents: nothing in the
database keeps an employee to one, so an employee has a sequence of them.
`Pay` is what the calculation yields; the calculation reads other collections
and writes none. `GenerateList` takes the first page of active employees, any
set of `PageSize` of them, since the sort order does not say who is on it.
`Deactivate` and `Reactivate` are what the employees component does meanwhile;
`Reactivate` also stands for an employee who is newly created.

Every operation checks the status of the period when it begins and relies on it
until it ends. `behind` holds the handlers under which another one has moved the
period since: it is filled by the *other* handler's write of the period
(`Overtake`), never by comparing statuses at the write that is judged. A handler
that checks too little is therefore not in it, and what it does wrong is not
excused.

### AttendanceDay

The logs of one employee on one day in the order of their creation, with their
type, status and the log they correct. `Counted` is the filter of
`findTodayCheckIn`, `Visible` that of `withoutSupersededLogs`. Times, places
and windows are left out: the refusals they cause write nothing, so the model
allows more than the server does. Corrections whose target lies on another day
or belongs to someone else are not modelled. Audit entries and notifications
end every handler and nothing depends on them here.

### Staffing

`phone` and `user` are fields of the employee document, `login` (its phone) and
`role` of the user document; `NoPhone` stands for a document that does not
exist. Both collections have a unique index on the *text* of the phone, while
`create` looks for an account by `phoneVariants`, every spelling of the number:
`Phones` are texts, `LineOf` is the number a text means. The actions follow
`create` (`CreateCount`, `CreateStore`, `CreateSeek`, `CreateOpen`,
`CreateLink`), `update` (`UpdateRead`, `UpdateStore`, `UpdateFollow`) and
`softDelete` (`DeleteRead`, `DeleteEmployee`, `DeleteAccount`); `changeRole` and
`createOwner` are one write each. The roles that may be assigned are one value
(`"EMPLOYEE"`); `CreateStore` may end at `assertCanAssignRole`, whatever the
actor. Employees who have left count as employees here: their status is left
out, as are codes; passwords are in `Sessions`.

### Serving, and the modules built on it

`Serving` holds what the smaller components have in common: `pc[h]`, the
operation a handler awaits, and `work[h]`, what it has read. `Enter`, `Goto`,
`Leave`, `AtOnce` and `Abandoned` are the ways a handler moves. Their
definitions are short, so that an action of a component shows only what that
component does.

**Sessions.** A user document holds one password and the hash of one refresh
token, which `stored` stands for by the password its session began with.
`login` and `refresh` read (`LoginRead`, `RefreshRead`) and then store and hand
out a token (`IssueStore`); `changePassword` of auth reads, writes the password,
and drops the session (`ChangeRead`, `ChangeWrite`, `ChangeForget`). The
password that employees sets, by `changePassword`, `create` or `update`, leaves
the session (`SetPassword`). `refresh` compares tokens by bcrypt, which reads 72
bytes: all tokens of one user begin with the same ones, so a token compares
equal whenever some session of the user is stored. Access tokens and expiry are
left out.

**Subscription.** One company and the plans on sale. `assignPlan`,
`updateSubscription` and `extendSubscription` read the company, put together a
whole new `subscription`, and write it (`StoreTerm`) over whatever is there; an
update may name a start, an end and a status, and what it leaves out is as read;
`extendSubscription` reads twice, since it goes through `updateSubscription`.
`Served` is what the guard decides: it looks at the status and end of the
subscription, and never at the status of the company, since there always is a
subscription.

**Overtime.** `request`, `approve`, `reject`, `cancel` and `updatePolicy`, with
the notifications of managers. Notifications addressed to a populated document
instead of an id reach a room nobody joins and are left out, as are rates.

**Branches.** `create` reads the plan, counts the active branches and stores.
Activation, `update` with `isActive` and removal are one write each. The first
write of `assignManager` looks an account up by the text of a populated
document, which is no id: it throws before anything is written, so there is no
action for it.

**ShiftRoster.** `assignToEmployee` looks for one overlapping assignment, and
then creates, changes or refuses, or closes that one and creates;
`bulkAssignShift` does so for one employee after another and goes on when one
is refused, which `queue` holds. `ShiftRequests` are the lists and the terms
that requests ask for; an employee may be in a list more than once, as the DTO
permits. The shift documents are left out.

**Policies.** A version is a copy of the version that comes into effect last,
with the changes of the request. A part of a version is the number of the
version that changed it, so a lost change is visible. `MergeRead`, `MergeCopy`
are the payroll page, which takes the payroll fields from the version in effect
and the rest from the last.

**PunchClock.** Times are units since midnight of day 0 in Bangkok. Four days
meet here: that of the server (`ServerDay`, check-in and check-out), of Bangkok
(`BangkokDay`, schedule and records), of UTC (`UTCDay`, summaries) and the
payroll's time between two dates. `lag` says whether the server runs in
Bangkok's zone or in UTC. The handlers are `checkIn`, `checkOut`, the correction
of an approved adjustment and `manualAdjust`; the reports are operators over the
logs. Places, the geofence and breaks are left out. The steps of an approval are
in `AttendanceDay`.

**PayFigures.** A single action, `Generate`, computes one payslip for any of a
set of employees and policies; the properties compare it with a reference
definition of the tax and with payslips for one day or unit more. Amounts are
whole; rounding to the nearest unit is as in the code. Brackets and salaries are
any: the code refuses none. Two clauses of `PayAddsUp` hold of some only, and say
so by a hypothesis: those on the amount of the tax, of brackets that follow one
another (`BracketsFollow`: the first begins at 0, each later one a unit above the
end of the one before, as in the default configuration); those on a day's pay,
of salaries that divide by the days (`WholePay`), since what the code does with
a fraction is floating point. `MCInputs` has salaries of both kinds. A roster is
the sequence of assignments as loaded, and a day's shift is that of the first
one that covers it (`find`), even if another one does too.

**Routes.** The handlers of each controller, in the order they are declared;
`Declared` is the table of the controllers in the order of `app.module.ts`, each
with its prefix, roles and features, which a handler without its own takes over
(`Controller`). `Request` sends a request to any route with any role, any
plan and any standing, and records which route the router takes and whether
the guards let it through. A company whose `planId` names a plan that is gone,
and a user without a company, are left out.

### History variables

Most safety rules of this server hold only as long as nothing races. Instead
of assuming that, the properties say *what must have gone wrong* when a rule
is broken, and history variables, which no guard reads, record it at the step
where it happens:

| Variable | Recorded when |
| --- | --- |
| `stale` (leave, attendance) | a decision overwrote a status other than the one read |
| `cut` | a handler failed between two writes of one operation |
| `since`, `twins` | a leave request was created while another one was between check and creation |
| `blame` (payroll) | two generations ran at once ("overlap"), one was abandoned ("cut"), or a handler in `behind` wrote ("stale") |
| `behind` (payroll) | a handler wrote the period while these were under way, relying on the status they had read |
| `expected` | employees active all along and on every page |
| `outrun`, `rushed` | a check-in was created on an outdated check |
| `revived` | an outside work approval overwrote the status of an adjusted log |
| `retyped` | HR gave a log another type |
| `outrun`, `crowded` (staffing) | an employee was stored by a handler whose count another one has outdated |
| `muddled` | an account was linked, updated or left behind by a handler that failed, had read something else by now, was refused by the index, or found the account by another spelling |
| `cut`, `refused` (staffing) | a creation ended between the employee and the link: by a failure or conflict, by the role check |
| `owners` | accounts that `createOwner` made |
| `excused`, `explained` (sessions) | a change of password overtook a login or refresh, was cut before it dropped the session, or came from employees; an older token was presented |
| `overridden`, `behind`, `promised`, `lost` (subscription) | the status was set by hand; a handler's reading is older than another's write; what an extension granted; such a handler wrote over it |
| `otFirst`, `otBehind`, `otRaced`, `otOver`, `otCut` | the first decision; a handler another has overtaken, and the request it decided; a limit changed after filing; filing was cut before the managers were told |
| `overtaken`, `excess` (branches) | a branch was stored on an outdated count or plan, activated again, or left by a smaller plan |
| `rivalled`, `muddled`, `lasting`, `severed` (shifts) | an employee was assigned on an outdated view, or a span stretched over a second assignment; who was given a shift without an end; a replacement was given up after the close |
| `changed`, `disordered` (policies) | what each version was to change; a version comes into effect before an earlier one, or was copied before another was stored |
| `odd` (clock) | a log that another check-in, or midnight, overtook |

So `ChargedExactlyOnce` says that a request is deducted exactly once if
approved and never otherwise, *for every request no handler decided from an
outdated read and no failure cut short*. Were the code to lose a guard or to
swap two writes, a wrong balance would appear without either.

## Runs

| Run | Question | Bounds |
| --- | --- | --- |
| `leave_concurrent` | What can two handlers do to two requests and a balance, with failures anywhere, and is it still the abstract workflow? | 2 handlers, 2 requests, 1 employee, 1 type and none, the instants midnight, noon and the next midnight of one balance year, one adjustment |
| `leave_serial` | One request at a time and without failures: does an approval settle? | 1 handler, 2 requests, 2 employees, two midnights, on either side of New Year |
| `leave_overlap` | Is overlapping leave refused when requests race? (violation) | as `leave_concurrent` |
| `payroll_concurrent` | What can two handlers do to one period, with failures anywhere and employees coming and going? | 2 handlers, 2 employees, a page of 1, 2 payslips per employee |
| `payroll_serial` | One request at a time and without failures: does the code implement the abstract cycle, and does a generation close? | 1 handler, 2 employees with different pay, a page of 2, with and without adjustments |
| `payroll_order` | Does a period keep the documented order? (violation) | as `payroll_concurrent`, a page of 2 |
| `attendance_corrections` | Do corrections, and corrections of corrections, keep the day's punches and match their requests? | 2 handlers, 2 adjustments, 3 logs |
| `staffing` | When can the quota, an employee's login or the link to the account go wrong, with failures anywhere? | 2 handlers, 2 employees, 2 accounts, 3 texts of 2 numbers, a quota of 1 |
| `staffing_refused` | Can every employee log in once created? (violation) | as `staffing`, 1 handler, no failures |
| `attendance_outside` | What can check-in, check-out, HR, a correction and outside work do to one day, and are both kinds of requests the abstract workflow? | 2 handlers, 1 adjustment, 1 outside work request, 2 logs; HR makes logs check-outs |
| `office` | What must have gone wrong when a rule of one of the nine smaller components is broken? | 2 handlers; per component below |
| `night_shift` | Can a worker of a night shift check in as it begins? (violation) | by the hour, 22:00 to 06:00, 2 days, 1 handler |

`office` is one run over nine desks: a behaviour begins at one of them and
serves the requests of that component only, because none of the nine reads or
writes what another one keeps, and their interleavings would multiply the states
and show nothing. Its bounds are, in `MCOffice.cfg`:

| Desk | Bounds | Why |
| --- | --- | --- |
| sessions | 3 users, 1 change of each password | one with a number of its own, one inactive, one SUPER_ADMIN with the same number; one change tells old from new |
| subscription | 1 plan, dates 1 and 2, ACTIVE and EXPIRED asked for | an extension needs a later date than the one before, and a decision that bars |
| overtime | 1 request, 2 employees, 1 manager, limits and lengths 4 and 5 | 4 is the default; a second request shares nothing with the first |
| branches | 3 branches, limits 1 and 2 | one more than either limit, and a limit that falls |
| shifts | 2 assignments, 2 employees, 3 days; every term for one employee, four terms for both | an assignment, one that overlaps, and a bulk request that goes on; three days, so that an assignment can begin between the end of another and the first day of a replacement |
| policies | 3 versions, 3 instants | a version stored between the copy and the store of another, and one that comes into effect before it |
| clock | 1 worker, 2 days of 4 units, one zone unit, 3 logs, 1 log that HR writes, no weekend | each of the midnights falls between two punches |
| pay | 4 days, 3 brackets that follow one another, salaries 0, 1000 and 2400, three rosters, every mode | one bracket each is not reached, ended in and passed; 2400 divides by the days of every period and 1000 by those of some; in one roster two assignments cover a day |
| router | every route, every role, 4 plans and none, in good standing or not | complete but for the plans, which show every switch |

Why the bounds are enough: a race here is two handlers on one document, and
every handler awaits at most three writes, so two handlers that begin again
after they end show every pair of interleavings, and a third adds only repeats of
them. Two requests are needed for overlaps and for effects that must not leak
from one to the other. Midnight, noon and the next midnight give requests that
lie apart on one day, touch, overlap, and share a day without sharing an instant,
by dates alone and not, of one day and of two. That years have accounts of their
own is in `leave_serial` and, for any years, in `LedgerCorrect`. A
page of 1 with two employees makes the page too short; two payslips per
employee make duplicates. Three logs let a correction be corrected. A
quota of 1 with two employees is reached at once; two texts of one number and
a third of another make every kind of match. Documents that are deleted do not
come back, so `Employees` and `Accounts` also bound what one run creates. The
bounds
`MaxTotal`, `MaxSlips`, `MaxLogs`, `Retypes` and `Adjustments` stop counters
and inputs; each is a constant, and the proofs hold for every value.

Deadlock is not checked where every bounded document may end in a final state
with no handler at work, nor at a desk whose bounds are reached; it is checked
for payroll, where employees always come and go. Symmetry is used in runs
without liveness only, over handlers, requests, accounts, assignments, and
employees who are treated the same.

**Fairness.** An awaited operation returns or throws: the driver has timeouts.
Hence weak fairness of `Resume(h) \/ Fail(h)`, per handler; clients are not
assumed to send anything. The runs without failures (`UndisturbedFairSpec`)
use weak fairness of `Resume(h)`. `ApprovalSettles` and `OutsideSettles` say
that an approval reaches its balance or log, `GenerationCloses` that a period
with payslips leaves DRAFT.

### Results

- Every pass run holds.
- Leave, overtime, adjustments and outside work are one workflow
  (`ApprovalWorkflow`), *whatever* races or fails: a request is submitted once,
  takes one decision, is never pending again, and its approval is applied once,
  as long as it is not contested, that is, decided by two handlers or abandoned
  by one; and what happens to a contested request no other one feels. Payroll
  implements `PayrollCycle` without races and failures only: a period is a
  single document that every handler contests.
- Some things hold *whatever* races or fails: balances stay a ledger of the
  deductions (`LedgerBalanced`), the approvals of a decided request name the
  decision its status shows (`AuditMatchesDecision`), payslip totals add up
  (`PayslipBalanced`), a correction never removes the last punch of its type
  from the day (`DayKeepsItsPunches`).
- Others hold only as far as the history variables say; the traces TLC finds
  when the explanation is left out are the hazards of `PROJECT.json`.
- *Finding* `leave_overlap`: `leave.service.ts` checks for overlaps (line 80)
  and creates the request (line 90) in two steps; two requests for the same
  days are both accepted, although the test says such a request is refused.
- *Finding* `payroll_order`: `generatePayroll` checks DRAFT when it starts and
  writes GENERATED at its end; a second generation that is slow puts a
  reviewed period back, against the workflow the schema documents.
- *Finding* `staffing_refused`: `create` in `employees.service.ts` stores the
  employee (line 209) before it checks whether the actor may give the role
  (line 222). A refused creation leaves an employee without an account, whose
  phone number blocks the repeated request, although the DTO says that
  employees can always log in.
- *Finding* `night_shift`: `guardCheckInWindow` in `attendance.service.ts` (lines
  802 to 805) closes check-in 120 minutes after the *clock* time of the shift's
  end. For a shift from 22:00 to 06:00 that is 08:00, so at 22:00, as the
  shift begins, check-in is refused as past its end; only
  `guardCheckOutWindow` (line 819) asks whether the shift runs overnight.
- The records, reports, summaries and the payroll tell the same story of a
  month only with the exceptions `RecordsAddUp` names, each the effect of one of
  the four midnights: the last day of a period is never paid, who comes before
  07:00 in Bangkok counts in the summary of the day before, and so on.
- `PayAddsUp` names two more: brackets that follow one another and begin one unit after the one before
  ends lose up to one unit of taxable income each, and for shift workers under
  CALENDAR_30 no assignments are loaded, so no attendance is paid.

## Theorems

TLAPS proves, for any number of handlers, requests, employees, accounts, days,
payslips, users, branches, plans, dates, shifts, policy versions, logs and tax
brackets:

| Theorem | Statement |
| --- | --- |
| `TypeCorrect`, `PayrollTypeCorrect`, `DayTypeCorrect`, `StaffingTypeCorrect` | the type invariants |
| `TrailCorrect` | `AuditMatchesDecision`, with its conjunct `NoticeAfterCharge` |
| `DeductionCorrect` | `ChargedExactlyOnce` |
| `OverlapCorrect` | `OverlapExplained` |
| `LedgerCorrect` | `LedgerBalanced` |
| `BalanceCorrect` | `PayslipBalanced` |
| `StatusCorrect`, `WorkflowCorrect` | `StatusesAgree`, `WorkflowOrderExplained` |
| `DuplicatesCorrect`, `CoverageCorrect` | `DuplicatesExplained`, `NobodyForgotten` |
| `DayCorrect` | `DayKeepsItsPunches` |
| `PunchesCorrect`, `OrphanCorrect` | `OneCheckInExplained`, `NoOrphanCheckOut` |
| `CorrectionsCorrect` | `CorrectionsMatch`: `CorrectedExactlyOnce` and `LinkedCorrection` |
| `OutsideCorrect` | `OutsideExplained` |
| `QuotaCorrect` | `QuotaExplained` |
| `LoginCorrect`, `AccountsCorrect` | `LoginFollows`; `AccountsMatch`: `OneEmployeeEach` and `AccountsBelong` |
| `CreatingCorrect` | `LoginExplained` |
| `OwnerCorrect` | `OwnerExplained` |
| `SessionTypeCorrect`, `SubscriptionTypeCorrect`, `OvertimeTypeCorrect`, `BranchTypeCorrect`, `ShiftTypeCorrect`, `PolicyTypeCorrect`, `PunchTypeCorrect` | the type invariants of these components |
| `SessionCorrect` | `SessionsFollowPassword` |
| `SubscriptionCorrect` | `SubscriptionExplained` |
| `OvertimeCorrect` | `OvertimeExplained` |
| `BranchQuotaCorrect` | `BranchQuotaExplained` |
| `ShiftRosterCorrect` | `OneShiftADay` |
| `PolicyChangesKept` | `PolicyKeepsChanges` |
| `RecordsCorrect` | `RecordsAddUp` |
| `PayCorrect` | `PayAddsUp` |
| `OfficeTypeCorrect`, `OfficeCorrect` | `OfficeTypeOK`; the rules of the eight components above at their desks |
| `RoutesCorrect` | `ShownIsServed` in the specification that `office` checks |

The refinements:

| Theorem | Statement |
| --- | --- |
| `WorkflowImplemented` | leave: `ImplementsWorkflow`, for any number of handlers and any failures |
| `DayWorkflowImplemented` | adjustments and outside work: the same |
| `OvertimeImplemented`, `OfficeOvertime` | overtime: `ImplementsOvertime`, alone and at its desk |
| `UncontestedAlone` | with one handler and no failures no leave request is contested, so the abstract workflow is implemented without exceptions |
| `CycleImplemented` | with one handler, no failures and room for a payslip (`MaxSlips > 0`), `ImplementsCycle`: initial states and every step of payroll map to `PayrollCycle` |

What races excuse is never taken when there is one handler, even one that may
fail at every step, so these theorems name no history of a race:

| Theorem | With one handler |
| --- | --- |
| `NoOverlapAlone` | no two live leave requests of an employee have an instant in common, nor, given by dates alone, a day (`NoOverlap`, which `leave_overlap` refutes for two handlers) |
| `OrderAlone` | a period keeps the documented order (`WorkflowOrder`, which `payroll_order` refutes for two handlers) |
| `StatusesAlone` | the status of every payslip is one that the period allows |
| `DayAlone` | two check-ins only after an outside work approval brought an adjusted one back; OUTSIDE_APPROVED only for a request that is APPROVED |
| `CorrectionsAlone` | an adjustment that was not cut short has one correction log if APPROVED, none otherwise |
| `QuotaAlone` | a company has no more employees than its plan allows |
| `OvertimeAlone` | an overtime request has one decision and the entry that records it |
| `ExtensionAlone` | an extension that was granted is served until an admin decides otherwise |
| `PolicyAlone` | if each version comes into effect after the one before, what is in effect holds every change that is due |

The rows from the `SessionTypeCorrect` one to `PayCorrect` are about the
specification of the component alone (`SessionSpec`, `SubscriptionSpec`,
`OvertimeSpec`, `BranchSpec`, `ShiftSpec`, `PolicySpec`, `PunchSpec`, `PaySpec`);
`OfficeCorrect` carries them over to the specification that `office` checks.

They rest on the named assumptions on the constants, which TLC evaluates in the
runs, and on nothing else. Most say only that the constants are the sets and
functions their comments say. One says more: `PunchClockAssumption`, that the zone
is less than a day ahead of UTC, a shift starts and ends at times of a day, and
the month is a nonempty range of days. What `PayCorrect` needs of brackets and
salaries is no assumption: it stands in `PayAddsUp` at the clauses that need it
(`BracketsFollow`, `WholePay`). Nothing in `tax-configs.service.ts` refuses brackets
with gaps or overlaps; for those the theorem says that payslip and items
add up, and nothing of the amount of the tax.

How the proofs go. The type invariant comes first, with one more conjunct: a
handler that is not idle works on a document (`Working`, `Holding`). Then each
property is strengthened by what handlers in flight have read:

- `Positions`: a handler that waits to decide has read a PENDING request with
  no approvals; so whatever it overwrites, its array has one entry.
- `Deductions`: for a request that is neither stale nor cut, the number of
  deductions made plus the handler about to make one is 1 if it is APPROVED
  and typed, 0 otherwise; two such handlers are one.
- `Overlaps`: besides the property, a checked draft clashes with no request
  but those created since its check. The check compares instants; that it also
  keeps days apart which were given by dates alone is a lemma on whole days.
- `CopiesBalanced`: the copy an adjustment works on balances too, so the
  totals computed from it balance whatever the payslip is by now.
- `Agreement` and `DraftIsCalm`: while nothing stale has happened, the
  payslips a review or payment has still to visit are the only ones that
  lag, and in DRAFT no review is under way.
- `InTime`: a handler under way that is not in `behind` still finds the period in
  the status it read, so what it writes is the next step of the workflow
  (`WorkflowCorrect`), and nobody else writes once the period is PAID.
- `OneGeneration`: without "overlap" and "cut" at most one generation is under
  way, and no employee still on its page has a payslip.
- `Links`: an employee under creation has no account yet and one handler only;
  the account another handler has read is still the employee's. Nothing in the
  code says so: it holds because only `create` links, and only its own employee.
- `AccountsKnown`: employees have different phones, an account not muddled is
  open and follows (`LoginKnown`), and when its employee is gone nobody else uses
  it (`Closing`), which is why `softDelete` takes no login from another employee.
  `LoginFollows`, `OneEmployeeEach` and `AccountsBelong` need one another, so
  they are proved together.
- `QuotaKnown`: a handler about to store whose count is not outdated still has
  room; the cardinalities come from the library's facts on finite sets.
- `Coverage`: an expected employee has a payslip or is on the page of every
  generation under way.
- `Current`: a login or refresh that nothing excuses has read the present
  password; so what it stores follows it.
- `Renewing`: a handler that keeps the end and status of the subscription is about
  to store those it has, unless it is behind; one that extends stores an ACTIVE one. Hence whatever is written serves what was promised.
- `Reading`, `Filing`: a handler about to decide overtime that nobody overtook
  has read it pending, without an entry; one about to file keeps to the limit.
  `Undecided`, that a pending request has no entry and no decision yet, holds
  whatever races.
- `PlanKnown`, `RoomKnown`: as `QuotaKnown`, with a plan that may change too.
- `Ledger`: an account's used days are the sum of the charges deducted from it.
  A deduction changes one summand; that this adds its charge to the sum is a
  fact about sums over finite sets (`Sums`, which argues from a smallest
  counterexample, since there is no induction over an operator; the tax, a sum
  over brackets, needs the same facts).
- Refinement of `ApprovalWorkflow`: the state of a request is its status, it is
  binding if its approval has something to apply (overtime has nothing), contested if it is in `stale` or
  `cut` (overtime: `otRaced`), and its effect counts as applied *with* the
  decision: what handlers are still to apply is added (leave, outside work), a
  correction whose request is not yet decided is taken off (adjustments). Every
  step is on one request and spares all others (`StepOnOneRequest`). If that one
  is uncontested, its counted effect is that of its status (`UncontestedApplied`),
  so the step is a decision or nothing; if it becomes contested, `Contest` admits
  whatever its handlers do to it.
- Refinement of `PayrollCycle`: the payslips made so far, and those already
  stamped, map to the abstract sets; a handler's other steps are stutters.
- One handler: what it read before its write nobody has changed
  (`Undisturbed`, `ReadsHold`, `CountsHold`, `CopiesCurrent`), so the histories
  of races stay empty, and the explained property becomes the plain one.
- `Rosters`: the spans of an employee who is not muddled are disjoint
  (`Roster`), a handler that nobody rivalled still sees the overlap it read
  (`OwnDoc`, `OpenDoc`) or none (`Free`), and whoever was given a shift without
  an end has one or is about to (`Lasts`).
- `Versioned`: while nothing is disordered, versions come into effect in the
  order they are stored (`Ordered`), so what is due is a prefix, and version
  `n` holds the last change of every part up to `n` (`Complete`), as the copy
  of a handler that is still up to date does.
- `ByDay`: the logs are in the order of time but for those HR writes, and no
  two check-ins of a server's day are ordinary unless one is `odd`. What the
  records, reports and summaries then say of a day follows from where the
  midnights of server, Bangkok and UTC lie between its logs.
- The tax: if brackets follow one another, a bracket is charged what the schedule makes due but for one unit
  (`PartOfDue`), hence `TaxClose`; one unit of income falls into at most one
  bracket (`PartRises`), so the rounded tax rises by 0 or 1 (`TaxSteps`), social
  security too, and what is left never falls (`NetRises`). That a payslip adds up
  needs nothing of the brackets.
- `AtDesks`: the conjunction of the above, each at its desk.
- The routes: `ShownIsServed` is about one long table, and proving it by trying
  every pair of routes would be hopeless. No route of a controller hides a
  later one of the same controller, which compares a handful of paths each time
  and goes by their length and fixed words; controllers with different first
  words hide nothing of one another, so tables are put together word by word
  (`employees` and `shifts`, which two controllers share, are told apart by
  hand). So the router reaches every route a request is meant for
  (`HandlerReached`), and the guard that is then asked looks at that route's own
  features (`GuardAsShown`), whatever plans there are.

Each is shown to hold initially and to be preserved by every action, one step
per action. Actions that touch one request or payslip are split into the frame
(all others keep their state) and the one.

What failed attempts showed:

- `OneShiftADay` was not an invariant on three days, although two days in the
  run had not shown it. A handler reads an open-ended assignment; another one
  ends it early and begins a second one in the gap; the first now closes the
  assignment it read on the day before *its* first day, and so stretches it over
  the second one. `CloseStore` now counts that as a change on an outdated view,
  and the run has three days.
- `PayAddsUp` bounded the difference to the schedule by -100 and 50 hundredths,
  which was true of the three sample brackets only. With more brackets the
  income lost is a unit *per bracket passed*; the property now says so
  (`UnitsLost`) and leaves nothing but the rounding.
- The assumptions of `PunchClock` said too little of zones, shifts and months for
  the theorems to hold, and now say what the code and its default data give. Of
  `PayFigures` they were too strong: what they said of brackets and salaries is no
  rule of the code, and now stands where the property needs it.
- A condition on the status at the write excused every write that was out of
  order in `WorkflowOrderExplained`, a forgotten check too. The excuse is now
  `behind`, which only another handler's write gives; the proof needs `InTime`
  for that.
- A bulk assignment took lists of one or two different employees; the proof
  needed neither, and the DTO permits any list that is not empty.

Model-checked only: the liveness properties (`ApprovalSettles`,
`GenerationCloses`, `OutsideSettles`), which need fairness and ENABLED, out of
the provers' reach; and the four violations, which are traces. Every invariant
and every other property of a passing run has a theorem. No module
declares a recursive operator: sums are folds of the community modules, and what
the proofs need of them is proved in `Sums`.

## Not modelled, and why

- Employee codes. The highest code is found by sorting texts; every case of it
  turns on the characters of a text, and no rule rests on the codes, since
  documents are linked by id.
- What only lists: lists, pages, exports, the dashboard, the reports that other
  modules ask attendance, leave and overtime for. The reports of attendance
  itself are in `PunchClock`.
- Single-document CRUD without a rule across operations: announcements,
  devices, departments, positions, holidays, leave types, the fields of shifts,
  plans, branches and companies that no rule looks at. Their routes are in
  `Routes`.
- Tax configurations as documents: two requests that find no global one both
  store the default, and the two are equal; a company's own is kept to one by a
  unique index. What they say is a constant of `PayFigures`.
- Places and the geofence: whether a point is near a branch is a calculation
  with floating-point numbers, and a refusal writes nothing.
- The socket map of the notifications gateway, and messages over it: a message
  is lost when nobody is connected, and nothing in the database depends on it.
- Access tokens and the expiry of tokens: no document keeps them.
- Uploads, object storage, mail, logging, health: input and output.
- Compiled output (`src/dist`), seeds and scripts (`src/src/database`,
  `src/scripts`), which run by hand and alone.

## Plan

What is left, in order of importance:

1. Payroll generation with `PayFigures` in place of the constant `Pay`, once
   attendance and leave are composed with it.
2. A weaker abstract payroll cycle that holds under races, as `contested` is for
   the approval workflow.
