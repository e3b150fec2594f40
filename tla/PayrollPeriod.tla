-------------------------- MODULE PayrollPeriod --------------------------
(***************************************************************************)
(* One payroll period of one company and its payslips: PayrollService.     *)
(*                                                                         *)
(* As in LeaveRequests, a handler is a sequence of awaited MongoDB         *)
(* operations.  A period is one document and an update of it is atomic;    *)
(* insertMany and updateMany touch the payslips one document at a time,    *)
(* and other handlers run, or the process dies, between two documents.     *)
(* No update checks that the period still has the status that was read.    *)
(***************************************************************************)
EXTENDS Integers, FiniteSets

CONSTANTS
    Handlers,       \* the requests the server may be serving at the same time
    Employees,      \* employee profiles of the tenant
    Pay,            \* [Employees -> [gross, deductions]]: the calculated payroll
    PageSize,       \* generatePayroll loads one page of employees: 1000
    Amounts,        \* what manual <<additions, deductions>> may sum up to
    MaxSlips        \* bound: payslips of one employee for the period

ASSUME PayrollAssumption ==
    /\ Pay \in [Employees -> [gross : Int, deductions : Int]]
    /\ PageSize \in Nat /\ MaxSlips \in Nat
    /\ Amounts \subseteq Int \X Int

-----------------------------------------------------------------------------
(* Data *)

PeriodStatus == {"DRAFT", "GENERATED", "HR_REVIEWED", "PAID"}
SlipStatus == {"NONE", "DRAFT", "HR_REVIEWED", "PAID"}

\* The n-th payslip inserted for an employee.
Slots == Employees \X (1..MaxSlips)

Payslips == [status : SlipStatus, added : Int, taken : Int,
             gross : Int, deductions : Int, net : Int]

\* No such document.
NoSlip == [status |-> "NONE", added |-> 0, taken |-> 0,
           gross |-> 0, deductions |-> 0, net |-> 0]

\* What an adjustment has not read yet.
NoSlot == <<>>

\* A generated payslip has no manual adjustments yet.
NewSlip_AsPeriod(e) ==
    [status |-> "GENERATED", added |-> 0, taken |-> 0, gross |-> Pay[e].gross,
     deductions |-> Pay[e].deductions, net |-> Pay[e].gross - Pay[e].deductions]
NewSlip(e) ==
    [status |-> "DRAFT", added |-> 0, taken |-> 0, gross |-> Pay[e].gross,
     deductions |-> Pay[e].deductions, net |-> Pay[e].gross - Pay[e].deductions]

\* The status of the period that hrReviewPeriod and payPeriod require, by the
\* status they are about to write.
Before == [HR_REVIEWED |-> "GENERATED", PAID |-> "HR_REVIEWED"]

\* "overlap": a generation started while another was under way; "cut": one was
\* abandoned before it closed the period; "stale": a handler wrote although
\* another had moved the period since it read the period's status.
Mishaps == {"overlap", "cut", "stale"}

PCs == {"idle", "list", "insert", "scan", "stamp", "check", "adjust"}

\* Where a handler relies on the status of the period it has read.
Relying == PCs \ {"idle", "check"}

-----------------------------------------------------------------------------
VARIABLES
    period,         \* status of the period
    slip,           \* [Slots -> Payslips]
    active,         \* employees with status ACTIVE
    pc,             \* [Handlers -> PCs]: the operation the handler awaits next
    page,           \* [Handlers -> employees insertMany has still to insert]
    mark,           \* [Handlers -> the status a review or payment writes, or NONE]
    left,           \* [Handlers -> payslips updateMany has still to visit]
    held,           \* [Handlers -> the payslip an adjustment works on]
    copy,           \* [Handlers -> Payslips]: that payslip as it was read
    \* history, for the properties only
    expected,       \* employees active all along and on every page so far
    blame,          \* what has gone wrong so far, of Mishaps
    behind          \* handlers whose period another has moved since they read it

docs == <<period, slip, active>>
local == <<pc, page, mark, left, held, copy>>
history == <<expected, blame, behind>>
vars == <<docs, local, history>>

Exists(s) == slip[s].status # "NONE"
Generating(h) == pc[h] \in {"list", "insert"}

Goto(h, to) == pc' = [pc EXCEPT ![h] = to]

Blame(mishap, condition) ==
    blame' = blame \cup (IF condition THEN {mishap} ELSE {})

\* The handler writes by the status of the period it has read.
Write(h) == Blame("stale", h \in behind)

\* It answers, having moved the period under the handlers that rely on it ...
Overtake(h) ==
    behind' = (IF period' = period THEN behind
               ELSE {g \in Handlers : pc[g] \in Relying}) \ {h}

\* ... or having left the period as it was.
Leave(h) == behind' = behind \ {h}

-----------------------------------------------------------------------------
(* generatePayroll *)

\* Only a DRAFT period may be generated.
GenerateRead_AnyStatus(h) ==
    /\ pc[h] = "idle"
    /\ Goto(h, "list")
    /\ Blame("overlap", \E g \in Handlers : Generating(g))
    /\ UNCHANGED <<docs, page, mark, left, held, copy, expected, behind>>
GenerateRead(h) ==
    /\ pc[h] = "idle"
    /\ period = "DRAFT"
    /\ Goto(h, "list")
    /\ Blame("overlap", \E g \in Handlers : Generating(g))
    /\ UNCHANGED <<docs, page, mark, left, held, copy, expected, behind>>

\* findPaginated: the first page of the active employees.
GenerateList(h) ==
    /\ pc[h] = "list"
    /\ \E found \in SUBSET active :
         /\ \/ found = active /\ Cardinality(active) <= PageSize
            \/ Cardinality(found) = PageSize /\ Cardinality(active) > PageSize
         /\ page' = [page EXCEPT ![h] = found]
         /\ expected' = expected \ (active \ found)
    /\ Goto(h, "insert")
    /\ UNCHANGED <<docs, mark, left, held, copy, blame, behind>>

\* insertMany, one payslip.  No unique index refuses a second one.
GenerateInsert(h, e) ==
    /\ pc[h] = "insert" /\ e \in page[h]
    /\ \E n \in 1..MaxSlips :
         /\ ~Exists(<<e, n>>) /\ \A m \in 1..(n - 1) : Exists(<<e, m>>)
         /\ slip' = [slip EXCEPT ![<<e, n>>] = NewSlip(e)]
    /\ page' = [page EXCEPT ![h] = @ \ {e}]
    /\ Write(h)
    /\ UNCHANGED <<period, active, pc, mark, left, held, copy,
                   expected, behind>>

\* updatePeriod, whatever the status is by now.
GenerateClose_Early(h) ==
    /\ pc[h] = "insert"
    /\ period' = "GENERATED"
    /\ Goto(h, "idle")
    /\ page' = [page EXCEPT ![h] = {}]
    /\ Write(h) /\ Overtake(h)
    /\ UNCHANGED <<slip, active, mark, left, held, copy, expected>>
GenerateClose_NoUpdate(h) ==
    /\ pc[h] = "insert" /\ page[h] = {}
    /\ Goto(h, "idle")
    /\ UNCHANGED <<docs, page, mark, left, held, copy, history>>
GenerateClose(h) ==
    /\ pc[h] = "insert" /\ page[h] = {}
    /\ period' = "GENERATED"
    /\ Goto(h, "idle")
    /\ Write(h) /\ Overtake(h)
    /\ UNCHANGED <<slip, active, page, mark, left, held, copy,
                   expected>>

-----------------------------------------------------------------------------
(* hrReviewPeriod and payPeriod *)

\* Both require one status of the period, then stamp and move the period on.
MoveRead(h, status) ==
    /\ pc[h] = "idle"
    /\ period = Before[status]
    /\ Goto(h, "scan")
    /\ mark' = [mark EXCEPT ![h] = status]
    /\ UNCHANGED <<docs, page, left, held, copy, history>>

HrReviewRead(h) == MoveRead(h, "HR_REVIEWED")
PayRead(h) == MoveRead(h, "PAID")

\* updatePayslipStatuses: updateMany finds the payslips of the period ...
MoveScan(h) ==
    /\ pc[h] = "scan"
    /\ left' = [left EXCEPT ![h] = {s \in Slots : Exists(s)}]
    /\ Goto(h, "stamp")
    /\ UNCHANGED <<docs, page, mark, held, copy, history>>

\* ... and writes their status one by one.
MoveStamp(h, s) ==
    /\ pc[h] = "stamp" /\ s \in left[h]
    /\ slip' = [slip EXCEPT ![s] =
                  [status |-> mark[h], added |-> @.added, taken |-> @.taken,
                   gross |-> @.gross, deductions |-> @.deductions, net |-> @.net]]
    /\ left' = [left EXCEPT ![h] = @ \ {s}]
    /\ Write(h)
    /\ UNCHANGED <<period, active, pc, page, mark, held, copy,
                   expected, behind>>

\* updatePeriod, after the last payslip.
MoveClose_Early(h) ==
    /\ pc[h] = "stamp"
    /\ period' = mark[h]
    /\ Goto(h, "idle")
    /\ left' = [left EXCEPT ![h] = {}]
    /\ mark' = [mark EXCEPT ![h] = "NONE"]
    /\ Write(h) /\ Overtake(h)
    /\ UNCHANGED <<slip, active, page, held, copy, expected>>
MoveClose(h) ==
    /\ pc[h] = "stamp" /\ left[h] = {}
    /\ period' = mark[h]
    /\ Goto(h, "idle")
    /\ mark' = [mark EXCEPT ![h] = "NONE"]
    /\ Write(h) /\ Overtake(h)
    /\ UNCHANGED <<slip, active, page, left, held, copy,
                   expected>>

-----------------------------------------------------------------------------
(* updatePayslipAdjustments *)

\* Loads the payslip, then the period, which must be GENERATED.
AdjustRead(h, s) ==
    /\ pc[h] = "idle" /\ Exists(s)
    /\ held' = [held EXCEPT ![h] = s]
    /\ copy' = [copy EXCEPT ![h] = slip[s]]
    /\ Goto(h, "check")
    /\ UNCHANGED <<docs, page, mark, left, history>>

Drop(h) ==
    /\ held' = [held EXCEPT ![h] = NoSlot]
    /\ copy' = [copy EXCEPT ![h] = NoSlip]

AdjustCheck_Skipped(h) ==
    /\ pc[h] = "check"
    /\ Goto(h, "adjust")
    /\ UNCHANGED <<docs, page, mark, left, held, copy, history>>
AdjustCheck(h) ==
    /\ pc[h] = "check"
    /\ IF period = "GENERATED"
       THEN Goto(h, "adjust") /\ UNCHANGED <<held, copy>>
       ELSE Goto(h, "idle") /\ Drop(h)
    /\ UNCHANGED <<docs, page, mark, left, history>>

\* The payslip with new manual amounts: those it was read with are taken out
\* of the totals first.
Adjusted_OnTop(old, now, added, taken) ==
    LET gross == old.gross + added
        deductions == old.deductions + taken
    IN [status |-> now.status, added |-> added, taken |-> taken,
        gross |-> gross, deductions |-> deductions, net |-> gross - deductions]
Adjusted(old, now, added, taken) ==
    LET gross == old.gross - old.added + added
        deductions == old.deductions - old.taken + taken
    IN [status |-> now.status, added |-> added, taken |-> taken,
        gross |-> gross, deductions |-> deductions, net |-> gross - deductions]

\* updatePayslip sets the adjustments and all three totals at once; the status
\* stays what it is in the database.
AdjustWrite(h, added, taken) ==
    LET s == held[h] IN
    /\ pc[h] = "adjust"
    /\ slip' = [slip EXCEPT ![s] = Adjusted(copy[h], @, added, taken)]
    /\ Goto(h, "idle")
    /\ Drop(h) /\ Leave(h)
    /\ UNCHANGED <<period, active, page, mark, left, expected, blame>>

-----------------------------------------------------------------------------
(* Surroundings *)

\* EmployeesService deactivates or reactivates an employee meanwhile.
Deactivate(e) ==
    /\ e \in active
    /\ active' = active \ {e}
    /\ expected' = expected \ {e}
    /\ UNCHANGED <<period, slip, local, blame, behind>>

Reactivate(e) ==
    /\ e \in Employees \ active
    /\ active' = active \cup {e}
    /\ UNCHANGED <<period, slip, local, history>>

\* The awaited operation throws, or the process dies: the rest never runs.
Fail(h) ==
    /\ pc[h] # "idle"
    /\ Blame("cut", Generating(h))
    /\ Goto(h, "idle")
    /\ page' = [page EXCEPT ![h] = {}]
    /\ mark' = [mark EXCEPT ![h] = "NONE"]
    /\ left' = [left EXCEPT ![h] = {}]
    /\ Drop(h) /\ Leave(h)
    /\ UNCHANGED <<docs, expected>>

-----------------------------------------------------------------------------
(* The specification *)

\* createPeriod has stored the period.
Init ==
    /\ period = "DRAFT"
    /\ slip = [s \in Slots |-> NoSlip]
    /\ active \in SUBSET Employees
    /\ pc = [h \in Handlers |-> "idle"]
    /\ page = [h \in Handlers |-> {}]
    /\ mark = [h \in Handlers |-> "NONE"]
    /\ left = [h \in Handlers |-> {}]
    /\ held = [h \in Handlers |-> NoSlot]
    /\ copy = [h \in Handlers |-> NoSlip]
    /\ expected = active
    /\ blame = {} /\ behind = {}

\* A client sends a request.
Receive(h) ==
    \/ GenerateRead(h)
    \/ HrReviewRead(h)
    \/ PayRead(h)
    \/ \E s \in Slots : AdjustRead(h, s)

\* An awaited operation returns and the handler goes on.
Resume(h) ==
    \/ GenerateList(h)
    \/ \E e \in Employees : GenerateInsert(h, e)
    \/ GenerateClose(h)
    \/ MoveScan(h)
    \/ \E s \in Slots : MoveStamp(h, s)
    \/ MoveClose(h)
    \/ AdjustCheck(h)
    \/ \E sums \in Amounts : AdjustWrite(h, sums[1], sums[2])

Staff == \E e \in Employees : Deactivate(e) \/ Reactivate(e)

Undisturbed == (\E h \in Handlers : Receive(h) \/ Resume(h)) \/ Staff
Next == Undisturbed \/ \E h \in Handlers : Fail(h)

Spec == Init /\ [][Next]_vars

\* No operation fails and every awaited operation returns.
UndisturbedSpec == Init /\ [][Undisturbed]_vars
UndisturbedFairSpec == UndisturbedSpec /\ \A h \in Handlers : WF_vars(Resume(h))

-----------------------------------------------------------------------------
(* Properties *)

\* Types of every variable.
TypeOK ==
    /\ period \in PeriodStatus
    /\ slip \in [Slots -> Payslips]
    /\ active \subseteq Employees
    /\ pc \in [Handlers -> PCs]
    /\ page \in [Handlers -> SUBSET Employees]
    /\ mark \in [Handlers -> {"NONE", "HR_REVIEWED", "PAID"}]
    /\ left \in [Handlers -> SUBSET Slots]
    /\ held \in [Handlers -> Slots \cup {NoSlot}]
    /\ copy \in [Handlers -> Payslips]
    /\ expected \subseteq Employees
    /\ blame \subseteq Mishaps
    /\ behind \subseteq Handlers

\* The totals of every payslip are the calculated ones plus its manual
\* adjustments, and net pay is gross pay less deductions, however many
\* adjustments race on outdated copies (updatePayslipAdjustments).
PayslipBalanced ==
    \A s \in Slots : Exists(s) =>
        /\ slip[s].gross = Pay[s[1]].gross + slip[s].added
        /\ slip[s].deductions = Pay[s[1]].deductions + slip[s].taken
        /\ slip[s].net = slip[s].gross - slip[s].deductions

Twice(e) == \E m, n \in 1..MaxSlips : m # n /\ Exists(<<e, m>>) /\ Exists(<<e, n>>)

\* An employee has two payslips for the period only if two generations were
\* under way at once or one was abandoned and repeated (generatePayroll).
DuplicatesExplained == (\E e \in Employees : Twice(e)) => blame \cap {"overlap", "cut"} # {}

\* Whoever has been employed all along has a payslip once the period has left
\* DRAFT, unless the page of employees was too short (generatePayroll).
NobodyForgotten ==
    period # "DRAFT" =>
        \A e \in expected : \E n \in 1..MaxSlips : Exists(<<e, n>>)

\* The statuses payslips may have in each status of the period.
Allowed ==
    [DRAFT |-> {"DRAFT"}, GENERATED |-> {"DRAFT", "HR_REVIEWED"},
     HR_REVIEWED |-> {"HR_REVIEWED", "PAID"}, PAID |-> {"PAID"}]

\* Payslips and period agree: unless a handler went on although another had
\* moved the period it had read, a paid period has only paid payslips, a reviewed
\* one only reviewed or paid ones (hrReviewPeriod, payPeriod, generatePayroll).
StatusesAgree ==
    "stale" \notin blame => \A s \in Slots : Exists(s) => slip[s].status \in Allowed[period]

\* The workflow the schema documents: DRAFT, GENERATED, HR_REVIEWED, PAID, one
\* step at a time and never back.
Steps == {<<"DRAFT", "GENERATED">>, <<"GENERATED", "HR_REVIEWED">>,
          <<"HR_REVIEWED", "PAID">>}

WorkflowOrder == [][ period' # period => <<period, period'>> \in Steps ]_vars

\* A handler finishes that another had overtaken.
Overtaken == \E h \in behind : pc'[h] # pc[h]

\* The status checks of the handlers guard the period and what has been paid
\* (generatePayroll, hrReviewPeriod, payPeriod, updatePayslipAdjustments): the
\* period moves otherwise, and a paid payslip changes, only by a handler under
\* way while another moved the period, or, the payslip, after such a handler.
WorkflowOrderExplained ==
    [][ /\ period' # period => <<period, period'>> \in Steps \/ Overtaken
        /\ \A s \in Slots : slip[s].status = "PAID" /\ slip'[s] # slip[s] =>
               Overtaken \/ "stale" \in blame' ]_vars

\* Liveness (generatePayroll): once payslips exist the period leaves DRAFT.
GenerationCloses == (\E s \in Slots : Exists(s)) ~> period # "DRAFT"

\* The promise of a payroll period, kept when requests are served one at a time
\* and none fails.
Cycle == INSTANCE PayrollCycle WITH
    Drafted <- [e \in Employees |-> Pay[e].gross - Pay[e].deductions],
    stage <- period,
    stamp <- [e \in Employees |->
                IF Twice(e) THEN "TWICE" ELSE slip[<<e, 1>>].status],
    net <- [e \in Employees |-> slip[<<e, 1>>].net]

ImplementsCycle == Cycle!CycleSpec
=============================================================================
