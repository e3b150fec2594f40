--------------------------- MODULE AttendanceDay ---------------------------
(***************************************************************************)
(* The attendance logs of one employee on one day, and the requests that   *)
(* change them: AttendanceService, AttendanceAdjustmentsService and        *)
(* OutsideWorkService, which all write the same collection.                *)
(*                                                                         *)
(* Handlers interleave between awaited database operations, as in          *)
(* LeaveRequests.  Times, places and the windows of the shift are left     *)
(* out: a check-in or check-out that the guards refuse writes nothing.     *)
(* Audit entries and notifications come last in every handler and are left *)
(* out too.                                                                *)
(***************************************************************************)
EXTENDS Integers, FiniteSets

CONSTANTS
    Handlers,       \* the requests the server may be serving at the same time
    Adjustments,    \* identities of attendance adjustment requests
    Outings,        \* identities of outside work requests
    MaxLogs,        \* bound: attendance logs of the day
    Retypes,        \* bound: the types manual adjustments give
    NoRequest       \* a handler that serves no request document

Requests == Adjustments \cup Outings

ASSUME AttendanceAssumption ==
    /\ Adjustments \cap Outings = {}
    /\ NoRequest \notin Requests
    /\ MaxLogs \in Nat
    /\ Retypes \subseteq {"CHECK_IN", "CHECK_OUT", "OTHER"}

-----------------------------------------------------------------------------
(* Data *)

Logs == 1..MaxLogs          \* attendance logs in the order of creation
NoLog == 0

\* What an adjustment may ask for; a manual adjustment may also make a log
\* something else, a break for one.
Punches == {"CHECK_IN", "CHECK_OUT"}
Types == Punches \cup {"OTHER"}

\* "PLAIN" stands for what check-in and check-out compute: NORMAL, LATE_MINOR,
\* LATE and EARLY_LEAVE.
LogStatus == {"PLAIN", "MANUAL_ADJUSTED", "OUTSIDE_APPROVED"}

LogDocs == [type : Types \cup {"NONE"}, status : LogStatus, fixes : Logs \cup {NoLog}]
NoDoc == [type |-> "NONE", status |-> "PLAIN", fixes |-> NoLog]

Status == {"NONE", "PENDING", "APPROVED", "REJECTED", "CANCELLED"}

PCs == {"idle", "checkIn", "checkOut", "submit", "correct", "confirm",
        "accept", "mark", "refuse", "cancel"}

-----------------------------------------------------------------------------
VARIABLES
    log,            \* [Logs -> LogDocs]; type "NONE": not created
    status,         \* [Requests -> Status]; "NONE": not created
    target,         \* [Requests -> attendanceLogId]
    wants,          \* [Adjustments -> Punches]: the type asked for
    link,           \* [Adjustments -> correctionLogId]
    pc,             \* [Handlers -> PCs]: the operation the handler awaits next
    job,            \* [Handlers -> the request document it works on]
    draft,          \* [Handlers -> [type, target]]: what "submit" will store
    fix,            \* [Handlers -> the correction log it has created]
    \* history, for the properties only
    made,           \* [Requests -> Nat]: how often the request changed the logs
    stale,          \* requests decided by a handler whose read was out of date
    cut,            \* requests whose approval was abandoned half way
    outrun,         \* handlers whose check for a check-in is out of date
    rushed,         \* check-ins created by such a handler
    revived,        \* adjusted logs that an outside work approval overwrote
    retyped         \* logs that a manual adjustment gave another type

docs == <<log, status, target, wants, link>>
local == <<pc, job, draft, fix>>
history == <<made, stale, cut, outrun, rushed, revived, retyped>>
vars == <<docs, local, history>>

NoDraft == [type |-> "CHECK_IN", target |-> NoLog]

-----------------------------------------------------------------------------
(* What the queries see *)

Exists(n) == log[n].type # "NONE"

\* findTodayCheckIn passes over adjusted logs.
Counted(n) == log[n].type = "CHECK_IN" /\ log[n].status # "MANUAL_ADJUSTED"
CheckedIn == \E n \in Logs : Counted(n)

\* withoutSupersededLogs: the logs no other log corrects.
Visible == {n \in Logs : Exists(n) /\ \A m \in Logs : log[m].fixes # n}

\* The next log to be created is n.
Fresh(n) == ~Exists(n) /\ \A m \in Logs : m < n => Exists(m)

Write(n, type, newStatus, fixes) ==
    log' = [log EXCEPT ![n] = [type |-> type, status |-> newStatus, fixes |-> fixes]]

-----------------------------------------------------------------------------
(* Handlers *)

Goto(h, to) == pc' = [pc EXCEPT ![h] = to]

Done(h) ==
    /\ Goto(h, "idle")
    /\ job' = [job EXCEPT ![h] = NoRequest]
    /\ draft' = [draft EXCEPT ![h] = NoDraft]
    /\ fix' = [fix EXCEPT ![h] = NoLog]

Start(h, to, r) ==
    /\ pc[h] = "idle"
    /\ Goto(h, to)
    /\ job' = [job EXCEPT ![h] = r]
    /\ UNCHANGED <<docs, draft, fix, history>>

-----------------------------------------------------------------------------
(* AttendanceService *)

\* checkIn(): there is no check-in yet ...
CheckInRead_Unchecked(h) == Start(h, "checkIn", NoRequest)
CheckInRead(h) == ~CheckedIn /\ Start(h, "checkIn", NoRequest)

\* ... and the log is created, whatever has been created since.
CheckInCreate(h) ==
    /\ pc[h] = "checkIn"
    /\ \E n \in Logs :
         /\ Fresh(n)
         /\ Write(n, "CHECK_IN", "PLAIN", NoLog)
         /\ rushed' = IF h \in outrun THEN rushed \cup {n} ELSE rushed
    /\ outrun' = (outrun \cup {g \in Handlers : pc[g] = "checkIn"}) \ {h}
    /\ Done(h)
    /\ UNCHANGED <<status, target, wants, link, made, stale, cut, revived, retyped>>

\* checkOut(): there is a check-in.
CheckOutRead_Unchecked(h) == Start(h, "checkOut", NoRequest)
CheckOutRead(h) == CheckedIn /\ Start(h, "checkOut", NoRequest)

CheckOutCreate(h) ==
    /\ pc[h] = "checkOut"
    /\ \E n \in Logs : Fresh(n) /\ Write(n, "CHECK_OUT", "PLAIN", NoLog)
    /\ Done(h)
    /\ UNCHANGED <<status, target, wants, link, history>>

\* manualAdjust(): one update of a log, of its type too if HR says so.
ManualAdjust_NotInEnum(n, type) ==
    /\ Exists(n)
    /\ Write(n, type, "MANUAL_ADJUSTMENT", log[n].fixes)
    /\ UNCHANGED <<status, target, wants, link, local, history>>
ManualAdjust(n, type) ==
    /\ Exists(n)
    /\ Write(n, type, "MANUAL_ADJUSTED", log[n].fixes)
    /\ retyped' = IF type = log[n].type THEN retyped ELSE retyped \cup {n}
    /\ UNCHANGED <<status, target, wants, link, local,
                   made, stale, cut, outrun, rushed, revived>>

-----------------------------------------------------------------------------
(* Requests *)

\* The document is new and its handler alone knows it.
Unborn(r) == status[r] = "NONE" /\ \A g \in Handlers : job[g] # r

\* AttendanceAdjustmentsService.create(): the log to correct, if the employee
\* names one, has the type asked for ...
AdjustmentRead_AnyType(h, a, type, n) ==
    /\ Unborn(a)
    /\ n # NoLog => Exists(n)
    /\ pc[h] = "idle"
    /\ Goto(h, "submit")
    /\ job' = [job EXCEPT ![h] = a]
    /\ draft' = [draft EXCEPT ![h] = [type |-> type, target |-> n]]
    /\ UNCHANGED <<docs, fix, history>>
AdjustmentRead(h, a, type, n) ==
    /\ Unborn(a)
    /\ n # NoLog => log[n].type = type
    /\ pc[h] = "idle"
    /\ Goto(h, "submit")
    /\ job' = [job EXCEPT ![h] = a]
    /\ draft' = [draft EXCEPT ![h] = [type |-> type, target |-> n]]
    /\ UNCHANGED <<docs, fix, history>>

\* ... and the unique index admits one PENDING request per type.
AdjustmentCreate(h) ==
    LET a == job[h] IN
    /\ pc[h] = "submit"
    /\ IF \E b \in Adjustments : status[b] = "PENDING" /\ wants[b] = draft[h].type
       THEN UNCHANGED <<status, target, wants>>
       ELSE /\ status' = [status EXCEPT ![a] = "PENDING"]
            /\ target' = [target EXCEPT ![a] = draft[h].target]
            /\ wants' = [wants EXCEPT ![a] = draft[h].type]
    /\ Done(h)
    /\ UNCHANGED <<log, link, history>>

\* OutsideWorkService.request(): nothing is looked up.
OutingCreate(o, n) ==
    /\ Unborn(o)
    /\ n # NoLog => Exists(n)
    /\ status' = [status EXCEPT ![o] = "PENDING"]
    /\ target' = [target EXCEPT ![o] = n]
    /\ UNCHANGED <<log, wants, link, local, history>>

\* Every decision starts with the request read as PENDING.
ReadPending(h, r, to) == status[r] = "PENDING" /\ Start(h, to, r)

AdjustmentApproveRead(h, a) == ReadPending(h, a, "correct")
OutingApproveRead(h, o) == ReadPending(h, o, "accept")
RejectRead(h, r) == ReadPending(h, r, "refuse")
CancelRead(h, a) == ReadPending(h, a, "cancel")

\* The update filters on the identity alone.
Decide(h, decision) ==
    LET r == job[h] IN
    /\ status' = [status EXCEPT ![r] = decision]
    /\ stale' = IF status[r] = "PENDING" THEN stale ELSE stale \cup {r}

Reject(h) ==
    /\ pc[h] = "refuse"
    /\ Decide(h, "REJECTED")
    /\ Done(h)
    /\ UNCHANGED <<log, target, wants, link, made, cut, outrun, rushed, revived, retyped>>

Cancel(h) ==
    /\ pc[h] = "cancel"
    /\ Decide(h, "CANCELLED")
    /\ Done(h)
    /\ UNCHANGED <<log, target, wants, link, made, cut, outrun, rushed, revived, retyped>>

-----------------------------------------------------------------------------
(* Approvals *)

\* AttendanceAdjustmentsService.approve(): first the correction log ...
AdjustmentCorrect(h) ==
    LET a == job[h] IN
    /\ pc[h] = "correct"
    /\ \E n \in Logs :
         /\ Fresh(n)
         /\ Write(n, wants[a], "MANUAL_ADJUSTED", target[a])
         /\ fix' = [fix EXCEPT ![h] = n]
    /\ made' = [made EXCEPT ![a] = @ + 1]
    /\ Goto(h, "confirm")
    /\ UNCHANGED <<status, target, wants, link, job, draft,
                   stale, cut, outrun, rushed, revived, retyped>>

\* ... then the request, with the identity of the log.
AdjustmentConfirm_Forgotten(h) ==
    /\ pc[h] = "confirm"
    /\ Done(h)
    /\ UNCHANGED <<docs, history>>
AdjustmentConfirm_NoLink(h) ==
    /\ pc[h] = "confirm"
    /\ Decide(h, "APPROVED")
    /\ Done(h)
    /\ UNCHANGED <<log, target, wants, link, made, cut, outrun, rushed, revived, retyped>>
AdjustmentConfirm(h) ==
    /\ pc[h] = "confirm"
    /\ Decide(h, "APPROVED")
    /\ link' = [link EXCEPT ![job[h]] = fix[h]]
    /\ Done(h)
    /\ UNCHANGED <<log, target, wants, made, cut, outrun, rushed, revived, retyped>>

\* OutsideWorkService.approve(): first the request ...
OutingAccept_NoStatus(h) ==
    /\ pc[h] = "accept"
    /\ IF target[job[h]] = NoLog
       THEN Done(h)
       ELSE Goto(h, "mark") /\ UNCHANGED <<job, draft, fix>>
    /\ UNCHANGED <<docs, history>>
OutingAccept_NoLog(h) ==
    /\ pc[h] = "accept"
    /\ Decide(h, "APPROVED")
    /\ Done(h)
    /\ UNCHANGED <<log, target, wants, link, made, cut, outrun, rushed, revived, retyped>>
OutingAccept(h) ==
    /\ pc[h] = "accept"
    /\ Decide(h, "APPROVED")
    /\ IF target[job[h]] = NoLog
       THEN Done(h)
       ELSE Goto(h, "mark") /\ UNCHANGED <<job, draft, fix>>
    /\ UNCHANGED <<log, target, wants, link, made, cut, outrun, rushed, revived, retyped>>

\* ... then its log, whatever has become of either meanwhile.
OutingMark(h) ==
    LET o == job[h]
        n == target[o]
    IN
    /\ pc[h] = "mark"
    /\ Write(n, log[n].type, "OUTSIDE_APPROVED", log[n].fixes)
    /\ revived' = IF log[n].status = "MANUAL_ADJUSTED" THEN revived \cup {n} ELSE revived
    /\ made' = [made EXCEPT ![o] = @ + 1]
    /\ Done(h)
    /\ UNCHANGED <<status, target, wants, link, stale, cut, outrun, rushed, retyped>>

\* The awaited operation throws, or the process dies: the rest never runs.
Fail(h) ==
    /\ pc[h] # "idle"
    /\ cut' = IF pc[h] \in {"confirm", "mark"} THEN cut \cup {job[h]} ELSE cut
    /\ outrun' = outrun \ {h}
    /\ Done(h)
    /\ UNCHANGED <<docs, made, stale, rushed, revived, retyped>>

-----------------------------------------------------------------------------
(* The specification *)

Init ==
    /\ log = [n \in Logs |-> NoDoc]
    /\ status = [r \in Requests |-> "NONE"]
    /\ target = [r \in Requests |-> NoLog]
    /\ wants = [a \in Adjustments |-> "CHECK_IN"]
    /\ link = [a \in Adjustments |-> NoLog]
    /\ pc = [h \in Handlers |-> "idle"]
    /\ job = [h \in Handlers |-> NoRequest]
    /\ draft = [h \in Handlers |-> NoDraft]
    /\ fix = [h \in Handlers |-> NoLog]
    /\ made = [r \in Requests |-> 0]
    /\ stale = {} /\ cut = {} /\ outrun = {}
    /\ rushed = {} /\ revived = {} /\ retyped = {}

\* A client sends a request; the handler runs up to its first write.
Receive(h) ==
    \/ CheckInRead(h)
    \/ CheckOutRead(h)
    \/ \E a \in Adjustments, type \in Punches, n \in Logs \cup {NoLog} :
          AdjustmentRead(h, a, type, n)
    \/ \E a \in Adjustments : AdjustmentApproveRead(h, a) \/ CancelRead(h, a)
    \/ \E o \in Outings : OutingApproveRead(h, o)
    \/ \E r \in Requests : RejectRead(h, r)

\* An awaited operation returns and the handler goes on.
Resume(h) ==
    \/ CheckInCreate(h)
    \/ CheckOutCreate(h)
    \/ AdjustmentCreate(h)
    \/ AdjustmentCorrect(h)
    \/ AdjustmentConfirm(h)
    \/ OutingAccept(h)
    \/ OutingMark(h)
    \/ Reject(h)
    \/ Cancel(h)

\* Requests that are served with a single write.
Serve ==
    \/ \E n \in Logs, type \in Retypes : ManualAdjust(n, type)
    \/ \E o \in Outings, n \in Logs \cup {NoLog} : OutingCreate(o, n)

Next == Serve \/ \E h \in Handlers : Receive(h) \/ Resume(h) \/ Fail(h)

Spec == Init /\ [][Next]_vars

\* Every awaited operation returns or throws.
FairSpec == Spec /\ \A h \in Handlers : WF_vars(Resume(h) \/ Fail(h))

-----------------------------------------------------------------------------
(* Properties *)

\* Types of every variable.
TypeOK ==
    /\ log \in [Logs -> LogDocs]
    /\ status \in [Requests -> Status]
    /\ target \in [Requests -> Logs \cup {NoLog}]
    /\ wants \in [Adjustments -> Punches]
    /\ link \in [Adjustments -> Logs \cup {NoLog}]
    /\ pc \in [Handlers -> PCs]
    /\ job \in [Handlers -> Requests \cup {NoRequest}]
    /\ draft \in [Handlers -> [type : Punches, target : Logs \cup {NoLog}]]
    /\ fix \in [Handlers -> Logs \cup {NoLog}]
    /\ made \in [Requests -> Nat]
    /\ stale \subseteq Requests /\ cut \subseteq Requests
    /\ outrun \subseteq Handlers
    /\ rushed \subseteq Logs /\ revived \subseteq Logs /\ retyped \subseteq Logs

\* checkIn() refuses a second check-in: two logs that findTodayCheckIn counts
\* exist only if the later one was created on an outdated check, or an outside
\* work approval overwrote the adjusted status that had taken one out of sight.
OneCheckInExplained ==
    \A m, n \in Logs :
        m < n /\ Counted(m) /\ Counted(n) =>
            n \in rushed \/ m \in revived \/ n \in revived

\* checkOut() requires a check-in: an untouched check-out comes after a log
\* that is a check-in, or was one before HR gave it another type.
NoOrphanCheckOut ==
    \A n \in Logs :
        log[n].type = "CHECK_OUT" /\ log[n].status = "PLAIN" =>
            \E m \in Logs : m < n /\ (log[m].type = "CHECK_IN" \/ m \in retyped)

\* Corrections take a log out of the day only to replace it: unless HR has
\* retyped a log, a day that has a log of a type shows one of that type
\* (AttendanceAdjustmentsService.create and approve, withoutSupersededLogs).
DayKeepsItsPunches ==
    retyped = {} =>
        \A type \in Punches :
            (\E n \in Logs : log[n].type = type) => \E n \in Visible : log[n].type = type

\* A handler that has created the correction log and not decided yet.
Confirming(a) == {h \in Handlers : pc[h] = "confirm" /\ job[h] = a}

\* Corrections match decisions: an adjustment that no handler decided from an
\* outdated read and that no failure cut short has one correction log if it is
\* APPROVED, none otherwise, and one more for each approval under way.
CorrectedExactlyOnce ==
    \A a \in Adjustments \ (stale \cup cut) :
        made[a] = Cardinality(Confirming(a)) + (IF status[a] = "APPROVED" THEN 1 ELSE 0)

\* The correctionLogId of an APPROVED adjustment is a log that corrects what
\* the request names, and it is no other request's, even when approvals raced.
LinkedCorrection ==
    \A a \in Adjustments : status[a] = "APPROVED" =>
        /\ link[a] \in Logs /\ Exists(link[a])
        /\ log[link[a]].fixes = target[a]
        /\ \A b \in Adjustments \ {a} : link[b] # link[a]

\* What approve() of an adjustment leaves in the day: as many correction logs as
\* approvals, and every one named by its own adjustment only.
CorrectionsMatch == CorrectedExactlyOnce /\ LinkedCorrection

\* A log is OUTSIDE_APPROVED because of an APPROVED outside work request for
\* it, or of one that was approved and then decided again by a racing handler.
OutsideExplained ==
    \A n \in Logs : log[n].status = "OUTSIDE_APPROVED" =>
        \E o \in Outings : target[o] = n /\ (status[o] = "APPROVED" \/ o \in stale)

\* Liveness (OutsideWorkService.approve): the log of an APPROVED request is
\* marked, unless the handler fails.
OutsideSettles ==
    \A o \in Outings :
        status[o] = "APPROVED" /\ target[o] # NoLog ~> made[o] > 0 \/ o \in cut

\* A handler that has approved an outing and not marked its log yet.
Marking(o) == {h \in Handlers : pc[h] = "mark" /\ job[h] = o}

\* What the two services promise together, with any number of handlers and
\* failures: a request leaves PENDING by one decision and none comes back; a
\* decision that nobody contests is final, and the log it writes or marks is
\* written once and for an approval alone.  A correction log counts from the
\* decision on, and so does the mark of an outing, which its handler still owes.
Workflow == INSTANCE ApprovalWorkflow WITH
    state <- status,
    binding <- {r \in Requests : status[r] # "NONE"
                                 /\ (r \in Outings => target[r] # NoLog)},
    applied <- [r \in Requests |->
                  IF r \in Adjustments THEN made[r] - Cardinality(Confirming(r))
                  ELSE made[r] + IF Marking(r) = {} THEN 0 ELSE 1],
    contested <- stale \cup cut

ImplementsWorkflow == Workflow!WorkflowSpec
=============================================================================
