-------------------------- MODULE LeaveRequests --------------------------
(***************************************************************************)
(* Leave requests and leave balances: src/src/modules/leave.               *)
(*                                                                         *)
(* Every HTTP request runs a handler of LeaveService.  A handler is a      *)
(* sequence of awaited MongoDB operations; each operation touches one      *)
(* document and is atomic, and other handlers run between two of them.     *)
(* There is no transaction and no version check: what a handler read is    *)
(* used as it was read.  A handler is one member of Handlers here, and pc  *)
(* says which operation it awaits next.  Any operation may fail (database  *)
(* error, process crash); what was written before stays written.           *)
(*                                                                         *)
(* One tenant is modelled: every query of the repository is scoped to it.  *)
(***************************************************************************)
EXTENDS Integers, Sequences, FiniteSets, FiniteSetsExt

CONSTANTS
    Handlers,       \* the requests the server may be serving at the same time
    Requests,       \* identities of leave request documents
    Employees,      \* employee profiles of the tenant
    Linked,         \* those with a user account, which alone can be notified
    LeaveTypes,     \* the leaveTypeIds requests carry; request() looks none of them up
    ByName,         \* "no leaveTypeId": the request only carries leaveTypeName
    Moments,        \* the instants requests may start or end at (new Date(dto.startDate))
    DayLength,      \* instants per day; days begin at midnight in UTC
    YearOf,         \* [Moments -> Int]: Date.getFullYear()
    Adjustments,    \* the amounts HR may add to a balance, in half days
    MaxTotal,       \* bound: |totalDays| of a balance, in half days
    NoRequest       \* a handler that serves no request document

ASSUME LeaveAssumption ==
    /\ Employees # {} /\ Moments # {}
    /\ Moments \subseteq Int
    /\ DayLength \in Nat \ {0}
    /\ YearOf \in [Moments -> Int]
    /\ Linked \subseteq Employees
    /\ ByName \notin LeaveTypes
    /\ NoRequest \notin Requests
    /\ Adjustments \subseteq Int
    /\ MaxTotal \in Nat

-----------------------------------------------------------------------------
(* Data *)

Status == {"NONE", "PENDING", "APPROVED", "REJECTED", "CANCELLED"}

\* What the employee fills in.  The dates are ISO texts, with or without a time
\* of day: new Date makes instants of them, midnight in UTC of a date alone.
Forms ==
    [emp : Employees, type : LeaveTypes \cup {ByName},
     start : Moments, end : Moments, half : BOOLEAN]

NoForm == CHOOSE f \in Forms : TRUE      \* stands where there is no form yet

Accounts == Employees \X LeaveTypes \X {YearOf[m] : m \in Moments}

\* totalDays in half days: a half-day request counts 0.5 whatever its dates, any
\* other the whole days from its start to its end, rounded down, and one.
Charge(f) == IF f.half THEN 1 ELSE 2 * ((f.end - f.start) \div DayLength + 1)

AccountOf(f) == <<f.emp, f.type, YearOf[f.start]>>

\* The date condition of findOverlapping: it compares instants.
Meets_Exclusive(f, g) == f.start < g.end /\ f.end > g.start
Meets(f, g) == f.start <= g.end /\ f.end >= g.start

PCs == {"idle", "create", "approve", "reject", "cancel",
        "charge", "tellApproved", "tellRejected"}

-----------------------------------------------------------------------------
VARIABLES
    status,         \* [Requests -> Status]; "NONE": not created
    form,           \* [Requests -> Forms]
    approvals,      \* [Requests -> Seq of decisions]: the approvals array
    balance,        \* [Accounts -> [total, used, remaining]]; no document = zeros
    notices,        \* [Requests -> set of decisions a notification tells of]
    pc,             \* [Handlers -> PCs]: the operation the handler awaits next
    job,            \* [Handlers -> the request document it works on]
    draft,          \* [Handlers -> Forms]: the form a "create" will store
    seen,           \* [Handlers -> [status, approvals]] of the document it read
    \* history, for the properties only
    charged,        \* [Requests -> Nat]: how often the balance was deducted
    stale,          \* requests decided by a handler whose read was out of date
    cut,            \* requests whose decision was abandoned half way
    since,          \* [Handlers -> requests created since its overlap check]
    twins           \* pairs {r, q}: one was created during the other's check

docs == <<status, form, approvals, balance, notices>>
local == <<pc, job, draft, seen>>
history == <<charged, stale, cut, since, twins>>
vars == <<docs, local, history>>

Nothing == [status |-> "NONE", approvals |-> <<>>]

-----------------------------------------------------------------------------
(* What the queries see *)

Typed(r) == form[r].type \in LeaveTypes
Active(r) == status[r] \in {"PENDING", "APPROVED"}

\* findOverlapping: a live request of the employee with an instant of f.
Overlapping_ApprovedOnly(f) ==
    {r \in Requests : status[r] = "APPROVED" /\ form[r].emp = f.emp
                      /\ Meets(form[r], f)}
Overlapping(f) ==
    {r \in Requests : Active(r) /\ form[r].emp = f.emp /\ Meets(form[r], f)}

-----------------------------------------------------------------------------
(* Handlers *)

Goto(h, to) == pc' = [pc EXCEPT ![h] = to]

\* The response is sent: the handler's local variables are gone.
Done(h) ==
    /\ Goto(h, "idle")
    /\ job' = [job EXCEPT ![h] = NoRequest]
    /\ draft' = [draft EXCEPT ![h] = NoForm]
    /\ seen' = [seen EXCEPT ![h] = Nothing]

\* request(): the dates are in order and findOverlapping found nothing.
RequestCheck(h, r, f) ==
    /\ pc[h] = "idle"
    /\ status[r] = "NONE" /\ \A g \in Handlers : job[g] # r   \* a new identity
    /\ f.start <= f.end
    /\ Overlapping(f) = {}
    /\ Goto(h, "create")
    /\ job' = [job EXCEPT ![h] = r]
    /\ draft' = [draft EXCEPT ![h] = f]
    /\ UNCHANGED <<docs, seen, history>>

\* request(): createRequest; the messages to the managers leave no state.
RequestCreate(h) ==
    LET r == job[h] IN
    /\ pc[h] = "create"
    /\ status' = [status EXCEPT ![r] = "PENDING"]
    /\ form' = [form EXCEPT ![r] = draft[h]]
    /\ Done(h)
    /\ since' = [g \in Handlers |->
                    IF g # h /\ pc[g] = "create" THEN since[g] \cup {r}
                    ELSE IF g = h THEN {} ELSE since[g]]
    /\ twins' = twins \cup {{r, q} : q \in since[h]}
    /\ UNCHANGED <<approvals, balance, notices, charged, stale, cut>>

\* approve(), reject() and cancel() load the request and refuse it unless it is
\* PENDING; the handler keeps the document it loaded.
ReadPending_AnyStatus(h, r, next) ==
    /\ pc[h] = "idle"
    /\ status[r] # "NONE"
    /\ Goto(h, next)
    /\ job' = [job EXCEPT ![h] = r]
    /\ seen' = [seen EXCEPT ![h] = [status |-> status[r], approvals |-> approvals[r]]]
    /\ UNCHANGED <<docs, draft, history>>
ReadPending(h, r, next) ==
    /\ pc[h] = "idle"
    /\ status[r] = "PENDING"
    /\ Goto(h, next)
    /\ job' = [job EXCEPT ![h] = r]
    /\ seen' = [seen EXCEPT ![h] = [status |-> status[r], approvals |-> approvals[r]]]
    /\ UNCHANGED <<docs, draft, history>>

ApproveRead(h, r) == ReadPending(h, r, "approve")
RejectRead(h, r) == ReadPending(h, r, "reject")
CancelRead(h, r, user) == form[r].emp = user /\ ReadPending(h, r, "cancel")

\* updateRequest filters on the identity alone: it also rewrites a request that
\* another handler decided since this one read it.
WriteDecision(h, decision) ==
    LET r == job[h] IN
    /\ status' = [status EXCEPT ![r] = decision]
    /\ stale' = IF status[r] = seen[h].status THEN stale ELSE stale \cup {r}
    /\ UNCHANGED <<form, balance, notices, charged, cut, since, twins>>

\* The new approvals array: the one that was read, and an entry.
Approvals(h, decision) ==
    [approvals EXCEPT ![job[h]] = Append(seen[h].approvals, decision)]

\* approve(): a request by name only has no balance to deduct.
ApproveWrite_NoCharge(h) ==
    /\ pc[h] = "approve"
    /\ WriteDecision(h, "APPROVED")
    /\ approvals' = Approvals(h, "APPROVED")
    /\ Goto(h, "tellApproved")
    /\ UNCHANGED <<job, draft, seen>>
ApproveWrite(h) ==
    /\ pc[h] = "approve"
    /\ WriteDecision(h, "APPROVED")
    /\ approvals' = Approvals(h, "APPROVED")
    /\ Goto(h, IF Typed(job[h]) THEN "charge" ELSE "tellApproved")
    /\ UNCHANGED <<job, draft, seen>>

RejectWrite_NotInEnum(h) ==
    /\ pc[h] = "reject"
    /\ WriteDecision(h, "DECLINED")
    /\ approvals' = Approvals(h, "DECLINED")
    /\ Goto(h, "tellRejected")
    /\ UNCHANGED <<job, draft, seen>>
RejectWrite(h) ==
    /\ pc[h] = "reject"
    /\ WriteDecision(h, "REJECTED")
    /\ approvals' = Approvals(h, "REJECTED")
    /\ Goto(h, "tellRejected")
    /\ UNCHANGED <<job, draft, seen>>

\* cancel() leaves the approvals as they are and tells nobody.
CancelWrite(h) ==
    /\ pc[h] = "cancel"
    /\ WriteDecision(h, "CANCELLED")
    /\ UNCHANGED approvals
    /\ Done(h)

\* upsertBalance: one $inc of usedDays and remainingDays; nothing is checked.
Deduct_UsedOnly(b, amount) ==
    [total |-> b.total, used |-> b.used + amount, remaining |-> b.remaining]
Deduct(b, amount) ==
    [total |-> b.total, used |-> b.used + amount, remaining |-> b.remaining - amount]

ApproveCharge(h) ==
    LET r == job[h] IN
    /\ pc[h] = "charge"
    /\ balance' = [balance EXCEPT
                     ![AccountOf(form[r])] = Deduct(@, Charge(form[r]))]
    /\ charged' = [charged EXCEPT ![r] = @ + 1]
    /\ Goto(h, "tellApproved")
    /\ UNCHANGED <<status, form, approvals, notices, job, draft, seen,
                   stale, cut, since, twins>>

\* notifyEmployee: a notification document, for an employee with an account.
Tell(h, at, decision) ==
    LET r == job[h] IN
    /\ pc[h] = at
    /\ notices' = IF form[r].emp \in Linked
                  THEN [notices EXCEPT ![r] = @ \cup {decision}]
                  ELSE notices
    /\ Done(h)
    /\ UNCHANGED <<status, form, approvals, balance, history>>

ApproveTell(h) == Tell(h, "tellApproved", "APPROVED")
RejectTell(h) == Tell(h, "tellRejected", "REJECTED")

\* adjustBalance: one $inc of totalDays and remainingDays.
Grant(b, amount) ==
    [total |-> b.total + amount, used |-> b.used, remaining |-> b.remaining + amount]

AdjustBalance(a, amount) ==
    /\ balance[a].total + amount \in -MaxTotal..MaxTotal
    /\ balance' = [balance EXCEPT ![a] = Grant(@, amount)]
    /\ UNCHANGED <<status, form, approvals, notices, local, history>>

\* The awaited operation throws, or the process dies: the rest never runs.
Fail(h) ==
    /\ pc[h] # "idle"
    /\ cut' = IF pc[h] \in {"charge", "tellApproved", "tellRejected"}
              THEN cut \cup {job[h]} ELSE cut
    /\ since' = [since EXCEPT ![h] = {}]
    /\ Done(h)
    /\ UNCHANGED <<docs, charged, stale, twins>>

-----------------------------------------------------------------------------
(* The specification *)

Init ==
    /\ status = [r \in Requests |-> "NONE"]
    /\ form = [r \in Requests |-> NoForm]
    /\ approvals = [r \in Requests |-> <<>>]
    /\ balance = [a \in Accounts |-> [total |-> 0, used |-> 0, remaining |-> 0]]
    /\ notices = [r \in Requests |-> {}]
    /\ pc = [h \in Handlers |-> "idle"]
    /\ job = [h \in Handlers |-> NoRequest]
    /\ draft = [h \in Handlers |-> NoForm]
    /\ seen = [h \in Handlers |-> Nothing]
    /\ charged = [r \in Requests |-> 0]
    /\ stale = {} /\ cut = {} /\ twins = {}
    /\ since = [h \in Handlers |-> {}]

\* A client sends a request; the handler runs up to its first write.
Receive(h) ==
    \/ \E r \in Requests, f \in Forms : RequestCheck(h, r, f)
    \/ \E r \in Requests : ApproveRead(h, r)
    \/ \E r \in Requests : RejectRead(h, r)
    \/ \E r \in Requests, user \in Employees : CancelRead(h, r, user)

\* An awaited operation returns and the handler goes on.
Resume(h) ==
    \/ RequestCreate(h)
    \/ ApproveWrite(h)
    \/ RejectWrite(h)
    \/ CancelWrite(h)
    \/ ApproveCharge(h)
    \/ ApproveTell(h)
    \/ RejectTell(h)

Adjust == \E a \in Accounts, amount \in Adjustments : AdjustBalance(a, amount)

Undisturbed == (\E h \in Handlers : Receive(h) \/ Resume(h)) \/ Adjust
Next == Undisturbed \/ \E h \in Handlers : Fail(h)

\* Every awaited operation returns or throws.
Fairness == \A h \in Handlers : WF_vars(Resume(h) \/ Fail(h))

Spec == Init /\ [][Next]_vars
FairSpec == Spec /\ Fairness

\* No operation fails.
UndisturbedSpec == Init /\ [][Undisturbed]_vars
UndisturbedFairSpec == UndisturbedSpec /\ \A h \in Handlers : WF_vars(Resume(h))

-----------------------------------------------------------------------------
(* Properties *)

\* Types of every variable.
TypeOK ==
    /\ status \in [Requests -> Status]
    /\ form \in [Requests -> Forms]
    /\ approvals \in [Requests -> Seq({"APPROVED", "REJECTED"})]
    /\ balance \in [Accounts -> [total : Int, used : Int, remaining : Int]]
    /\ notices \in [Requests -> SUBSET {"APPROVED", "REJECTED"}]
    /\ pc \in [Handlers -> PCs]
    /\ job \in [Handlers -> Requests \cup {NoRequest}]
    /\ draft \in [Handlers -> Forms]
    /\ seen \in [Handlers -> [status : Status,
                              approvals : Seq({"APPROVED", "REJECTED"})]]
    /\ charged \in [Requests -> Nat]
    /\ stale \subseteq Requests
    /\ cut \subseteq Requests
    /\ since \in [Handlers -> SUBSET Requests]
    /\ twins \subseteq SUBSET Requests

\* The balance documents are a ledger of the deductions: for every employee,
\* type and year, usedDays is what the deductions of the requests amount to and
\* remainingDays is totalDays less usedDays, whatever HR adds meanwhile and
\* whichever handlers fail (upsertBalance, adjustBalance).
LedgerBalanced ==
    \A a \in Accounts :
        /\ balance[a].remaining = balance[a].total - balance[a].used
        /\ balance[a].used =
             MapThenSumSet(LAMBDA r : charged[r] * Charge(form[r]),
                           {r \in Requests : charged[r] > 0 /\ AccountOf(form[r]) = a})

\* A handler about to deduct for r.
Charging(r) == {h \in Handlers : pc[h] = "charge" /\ job[h] = r}

\* Deductions match decisions (approve): a request that no handler decided from
\* an outdated read and that no failure cut short is deducted once if it is
\* APPROVED with a leave type, or a handler is just about to, and never
\* otherwise.  So every wrong balance goes back to two decisions in flight at
\* once or to a handler that died between status and balance.
ChargedExactlyOnce ==
    \A r \in Requests \ (stale \cup cut) :
        IF status[r] = "APPROVED" /\ Typed(r)
        THEN \/ charged[r] = 1 /\ Charging(r) = {}
             \/ charged[r] = 0 /\ \E h \in Handlers : Charging(r) = {h}
        ELSE charged[r] = 0 /\ Charging(r) = {}

\* Nobody is told of an approval whose deduction has not happened (the order of
\* updateRequest, upsertBalance and notifyEmployee in approve).
NoticeAfterCharge ==
    \A r \in Requests : "APPROVED" \in notices[r] /\ Typed(r) => charged[r] > 0

\* What is told of a decision is true, even when decisions raced (approve,
\* reject).  status and approvals come from the same update, and an update
\* never carries an entry of an earlier decision: the array of a decided request
\* names exactly the decision its status shows.  And a notification of an
\* approval is of one that has been deducted.
AuditMatchesDecision ==
    /\ \A r \in Requests :
         status[r] \in {"APPROVED", "REJECTED"} => approvals[r] = <<status[r]>>
    /\ NoticeAfterCharge

\* The instants and the days (in UTC) of a request, and whether it was given by
\* dates alone.
Span(f) == f.start..f.end
DaysOf(f) == (f.start \div DayLength)..(f.end \div DayLength)
DatesAlone(f) == f.start % DayLength = 0 /\ f.end % DayLength = 0

\* Two live requests of one employee that have an instant in common or, given by
\* dates alone, a day.  Requests with times of day may lie apart on one day: the
\* code accepts them both, and they do not clash.
Clash(r, q) ==
    /\ r # q /\ Active(r) /\ Active(q)
    /\ form[r].emp = form[q].emp
    /\ \/ Span(form[r]) \cap Span(form[q]) # {}
       \/ /\ DatesAlone(form[r]) /\ DatesAlone(form[q])
          /\ DaysOf(form[r]) \cap DaysOf(form[q]) # {}

\* request() refuses overlapping leave: two live requests of one employee clash
\* only if one was created between the other's check and its creation, or if a
\* decision from an outdated read brought one of them back to life.  Although
\* instants are compared, this holds of every day that dates alone name.
OverlapExplained ==
    \A r, q \in Requests :
        Clash(r, q) => {r, q} \in twins \/ r \in stale \/ q \in stale

\* No two live requests of one employee clash.  It holds when requests are
\* served one at a time, and the code does not enforce it beyond that.
NoOverlap == \A r, q \in Requests : ~Clash(r, q)

\* Liveness (approve): an APPROVED request with a leave type is deducted, is
\* decided anew by a racing handler, or its handler failed.
ApprovalSettles ==
    \A r \in Requests :
        (status[r] = "APPROVED" /\ Typed(r))
            ~> (charged[r] > 0 \/ r \in cut)

\* What approve, reject and cancel promise together, with any number of handlers
\* and failures: a request leaves PENDING by one decision and no handler brings it
\* back, the decision of a request that nobody contests is final, and its
\* deduction comes with the approval and once.  The deduction counts as applied
\* from the status write on, when the handler can no longer turn back.
Workflow == INSTANCE ApprovalWorkflow WITH
    state <- status,
    binding <- {r \in Requests : status[r] # "NONE" /\ Typed(r)},
    applied <- [r \in Requests |->
                  charged[r] + IF Charging(r) = {} THEN 0 ELSE 1],
    contested <- stale \cup cut

ImplementsWorkflow == Workflow!WorkflowSpec
=============================================================================
