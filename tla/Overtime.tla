------------------------------ MODULE Overtime ------------------------------
(***************************************************************************)
(* OTService: overtime requests, their decision and the policy that limits *)
(* their hours.  A request is one document; handlers decide it by what     *)
(* they read before.                                                       *)
(*                                                                         *)
(* Messages to branch managers, supervisors and the employee go to a room  *)
(* named after a populated document instead of an id, which nobody joins:  *)
(* only those to HR_ADMIN and COMPANY_OWNER are modelled.  Left out: rates *)
(* and the other fields of the policy, which this service does not read.   *)
(***************************************************************************)
EXTENDS Serving

CONSTANTS
    OTRequests,     \* identities of request documents
    OTStaff,        \* employees who ask for overtime
    OTManagers,     \* users with the role HR_ADMIN or COMPANY_OWNER
    OTHours,        \* bound: lengths of requests, and limits of the policy
    OTNobody

ASSUME OvertimeAssumption ==
    /\ OTNobody \notin OTStaff
    /\ OTHours \subseteq Nat

DefaultHours == 4           \* getPolicy(), when none was stored
NoPolicy == -1

OTDecisions == {"APPROVED", "REJECTED", "CANCELLED"}
OTPCs == {"idle", "file", "announce", "decide"}
NoRequest == "NONE"
OTFilings == [owner : OTStaff, hours : OTHours]
OTVerdicts == [req : OTRequests, verdict : OTDecisions, flow : {<<>>} \cup {<<d>> : d \in OTDecisions}]

VARIABLES
    otLimit,        \* maxOtHoursPerDay of the policy, or NoPolicy
    otStatus,       \* [OTRequests -> status]; NoRequest: not created yet
    otOwner,        \* [OTRequests -> employeeId]
    otHours,        \* [OTRequests -> totalHours]
    otFlow,         \* [OTRequests -> approvalFlow]: the statuses of its entries
    otTold,         \* [OTRequests -> managers sent a notification about it]
    \* history, for the properties only
    otFirst,        \* [OTRequests -> the first decision stored, or NoRequest]
    otBehind,       \* handlers whose request, or policy, another one changed
    otRaced,        \* requests that such a handler decided
    otOver,         \* requests filed, or under way, when the limit changed
    otCut           \* requests whose filing was abandoned after the document

otVars == <<otLimit, otStatus, otOwner, otHours, otFlow, otTold,
            otFirst, otBehind, otRaced, otOver, otCut>>

OvertimeInit ==
    /\ otLimit = NoPolicy
    /\ otStatus = [r \in OTRequests |-> NoRequest]
    /\ otOwner = [r \in OTRequests |-> OTNobody]
    /\ otHours = [r \in OTRequests |-> 0]
    /\ otFlow = [r \in OTRequests |-> <<>>]
    /\ otTold = [r \in OTRequests |-> {}]
    /\ otFirst = [r \in OTRequests |-> NoRequest]
    /\ otBehind = {}
    /\ otRaced = {}
    /\ otOver = {}
    /\ otCut = {}

Limit == IF otLimit = NoPolicy THEN DefaultHours ELSE otLimit
Filed == {r \in OTRequests : otStatus[r] # NoRequest}

-----------------------------------------------------------------------------
(* OTService *)

\* updatePolicy()
UpdatePolicy(h, n) ==
    /\ AtOnce(h)
    /\ otLimit' = n
    /\ otBehind' = otBehind \cup Waiting({"file"})
    /\ otOver' = otOver \cup Filed
    /\ UNCHANGED <<otStatus, otOwner, otHours, otFlow, otTold, otFirst, otRaced, otCut>>

\* request(): within the limit just read, one request at a time ...
RequestRead_NoLimit(h, e, n) ==
    /\ Enter(h, "file", [owner |-> e, hours |-> n])
    /\ UNCHANGED otVars
RequestRead(h, e, n) ==
    /\ n > 0                        \* endTime is after startTime
    /\ n <= Limit
    /\ Enter(h, "file", [owner |-> e, hours |-> n])
    /\ UNCHANGED otVars

\* ... the document is stored, and then the managers are told.
RequestStore(h) ==
    /\ pc[h] = "file"
    /\ \E r \in OTRequests \ Filed :
         /\ otStatus' = [otStatus EXCEPT ![r] = "PENDING"]
         /\ otOwner' = [otOwner EXCEPT ![r] = work[h].owner]
         /\ otHours' = [otHours EXCEPT ![r] = work[h].hours]
         /\ otOver' = IF h \in otBehind THEN otOver \cup {r} ELSE otOver
         /\ Goto(h, "announce", [req |-> r])
    /\ otBehind' = otBehind \ {h}
    /\ UNCHANGED <<otLimit, otFlow, otTold, otFirst, otRaced, otCut>>

\* notifyManagersOnNewOTRequest(), notifyBranchManager()
Announce(h) ==
    /\ pc[h] = "announce"
    /\ otTold' = [otTold EXCEPT ![work[h].req] = @ \cup OTManagers]
    /\ Leave(h)
    /\ UNCHANGED <<otLimit, otStatus, otOwner, otHours, otFlow,
                   otFirst, otBehind, otRaced, otOver, otCut>>

\* approve(), reject(): the request is pending when it is read ...
DecideRead_AnyStatus(h, r, d) ==
    /\ r \in Filed
    /\ Enter(h, "decide", [req |-> r, verdict |-> d, flow |-> Append(otFlow[r], d)])
    /\ UNCHANGED otVars
DecideRead(h, r, d) ==
    /\ otStatus[r] = "PENDING"
    /\ Enter(h, "decide", [req |-> r, verdict |-> d, flow |-> Append(otFlow[r], d)])
    /\ UNCHANGED otVars

\* ... and cancel(): so is that of the employee, who filed it ...
CancelRead(h, e, r) ==
    /\ otStatus[r] = "PENDING"
    /\ otOwner[r] = e
    /\ Enter(h, "decide", [req |-> r, verdict |-> "CANCELLED", flow |-> otFlow[r]])
    /\ UNCHANGED otVars

\* ... and updateRequest() writes by the id alone.
DecideStore(h) ==
    LET r == work[h].req  d == work[h].verdict IN
    /\ pc[h] = "decide"
    /\ otStatus' = [otStatus EXCEPT ![r] = d]
    /\ otFlow' = IF d = "CANCELLED" THEN otFlow
                 ELSE [otFlow EXCEPT ![r] = work[h].flow]
    /\ otFirst' = IF otFirst[r] = NoRequest THEN [otFirst EXCEPT ![r] = d] ELSE otFirst
    /\ otRaced' = IF h \in otBehind THEN otRaced \cup {r} ELSE otRaced
    /\ otBehind' = (otBehind \cup {g \in Waiting({"decide"}) : work[g].req = r}) \ {h}
    /\ Leave(h)
    /\ UNCHANGED <<otLimit, otOwner, otHours, otTold, otOver, otCut>>

OvertimeFail(h) ==
    /\ Abandoned(h)
    /\ otBehind' = otBehind \ {h}
    /\ otCut' = IF pc[h] = "announce" THEN otCut \cup {work[h].req} ELSE otCut
    /\ UNCHANGED <<otLimit, otStatus, otOwner, otHours, otFlow, otTold,
                   otFirst, otRaced, otOver>>

OvertimeNext ==
    \E h \in Handlers :
        \/ \E n \in OTHours : UpdatePolicy(h, n) \/ \E e \in OTStaff : RequestRead(h, e, n)
        \/ \E r \in OTRequests : \/ \E d \in {"APPROVED", "REJECTED"} : DecideRead(h, r, d)
                                 \/ \E e \in OTStaff : CancelRead(h, e, r)
        \/ RequestStore(h)
        \/ Announce(h)
        \/ DecideStore(h)
        \/ OvertimeFail(h)

OvertimeSpec == ServingInit /\ OvertimeInit /\ [][OvertimeNext]_<<pc, work, otVars>>

-----------------------------------------------------------------------------
(* Properties *)

OvertimeTypeOK ==
    /\ \A h \in Handlers :
         /\ pc[h] \in OTPCs
         /\ pc[h] = "file" => work[h] \in OTFilings
         /\ pc[h] = "announce" => work[h] \in [req : OTRequests]
         /\ pc[h] = "decide" => work[h] \in OTVerdicts
    /\ otLimit \in OTHours \cup {NoPolicy}
    /\ otStatus \in [OTRequests -> OTDecisions \cup {"PENDING", NoRequest}]
    /\ otOwner \in [OTRequests -> OTStaff \cup {OTNobody}]
    /\ otHours \in [OTRequests -> OTHours \cup {0}]
    /\ otTold \in [OTRequests -> SUBSET OTManagers]

\* A request keeps its first decision and the entry that records it, unless
\* two decisions had both read it pending; the managers are told of every
\* request unless its filing stopped half way; and no request is longer than
\* the limit, unless the limit changed after it was read.
OvertimeExplained ==
    \A r \in Filed :
        /\ \/ r \in otRaced
           \/ otStatus[r] = "PENDING" /\ otFirst[r] = NoRequest /\ otFlow[r] = <<>>
           \/ otStatus[r] = otFirst[r]
              /\ otFlow[r] = IF otFirst[r] = "CANCELLED" THEN <<>> ELSE <<otFirst[r]>>
        /\ \/ otTold[r] = OTManagers
           \/ r \in otCut
           \/ \E h \in Waiting({"announce"}) : work[h].req = r
        /\ otHours[r] <= Limit \/ r \in otOver

\* What approve(), reject() and cancel() promise together, whichever handlers run
\* and fail: a request leaves PENDING by one decision, which is final unless two
\* handlers had both read it pending, and then it is decided again and never
\* pending.  Payroll computes what an approval is worth, so none has an effect
\* to apply here.
OvertimeFlow == INSTANCE ApprovalWorkflow WITH
    Requests <- OTRequests,
    state <- otStatus,
    binding <- {},
    applied <- [r \in OTRequests |-> 0],
    contested <- otRaced

ImplementsOvertime == OvertimeFlow!WorkflowSpec

=============================================================================
