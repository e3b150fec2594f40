------------------------------- MODULE Routes -------------------------------
(***************************************************************************)
(* The controllers: which handler a request comes to, and whom the guards  *)
(* let through.  The router takes the first route declared that fits; then *)
(* JwtAuthGuard, SubscriptionGuard with the features of the plan, and      *)
(* RolesGuard with the roles of the handler, or else of its controller.    *)
(*                                                                         *)
(* Left out: what the handlers do with the request, which the components   *)
(* say, and the standing of the contract, which Subscription says.         *)
(***************************************************************************)
EXTENDS Integers, Sequences, FiniteSets

CONSTANTS
    PlanShapes      \* bound: what plans make of the features: functions from
                    \* Features to "on", "off", "unset"

UserRoles == {"SUPER_ADMIN", "COMPANY_OWNER", "HR_ADMIN", "BRANCH_MANAGER", "SUPERVISOR", "STAFF"}
Features == {"attendance", "shiftManagement", "attendanceAdjustment", "outsideWork", "leave",
             "ot", "payroll", "restDayCompensation", "advancedReport", "announcement"}
Switches == {"on", "off", "unset"}
NoShape == <<>>             \* the company has no plan

ASSUME RoutesAssumption == PlanShapes \subseteq [Features -> Switches]

-----------------------------------------------------------------------------
(* How routes are declared *)

P == ":"                    \* a parameter of a path

Super == {"SUPER_ADMIN"}
Owner == {"COMPANY_OWNER"}
HRAdmin == {"HR_ADMIN"}
HR == Owner \cup HRAdmin
Managers == HR \cup {"BRANCH_MANAGER"}
Reviewers == Managers \cup {"SUPERVISOR"}
CompanyRoles == Reviewers \cup {"STAFF"}
Anyone == {}                \* no @Roles

Featured(method, path, roles, features) ==
    [method |-> method, path |-> path, roles |-> roles, features |-> features, public |-> FALSE]
Route(method, path, roles) == Featured(method, path, roles, {})
Open(method, path) ==           \* @Public
    [method |-> method, path |-> path, roles |-> Anyone, features |-> {}, public |-> TRUE]

\* What a handler does not declare is declared by its controller.
Controller(prefix, roles, features, routes) ==
    [i \in DOMAIN routes |->
        LET r == routes[i] IN
        [method |-> r.method, path |-> prefix \o r.path,
         roles |-> IF r.roles = Anyone THEN roles ELSE r.roles,
         features |-> IF r.features = {} THEN features ELSE r.features,
         public |-> r.public]]

-----------------------------------------------------------------------------
(* The controllers *)

AuthRoutes == <<
    Open("POST", <<"login">>),
    Open("POST", <<"refresh">>),
    Route("POST", <<"logout">>, Anyone),
    Route("GET", <<"me">>, Anyone),
    Route("POST", <<"change-password">>, Anyone)>>
CompanyRoutes == <<
    Route("POST", <<>>, Anyone),
    Route("GET", <<>>, Anyone),
    Route("GET", <<P>>, Anyone),
    Route("PATCH", <<P>>, Anyone),
    Route("POST", <<P, "activate">>, Anyone),
    Route("POST", <<P, "suspend">>, Anyone),
    Route("POST", <<P, "create-owner">>, Anyone),
    Route("POST", <<P, "assign-plan">>, Anyone),
    Route("PATCH", <<P, "subscription">>, Anyone),
    Route("POST", <<P, "subscription", "extend">>, Anyone),
    Route("GET", <<P, "usage">>, Anyone),
    Route("GET", <<"dashboard", "stats">>, Anyone)>>
BranchRoutes == <<
    Route("POST", <<>>, HR),
    Route("GET", <<>>, Managers),
    Route("GET", <<P>>, Managers),
    Route("PATCH", <<P>>, HR),
    Route("DELETE", <<P>>, Owner),
    Route("POST", <<P, "activate">>, HR),
    Route("POST", <<P, "deactivate">>, HR),
    Route("POST", <<P, "manager">>, HR)>>
DepartmentRoutes == <<
    Route("POST", <<>>, HR),
    Route("GET", <<>>, Anyone),
    Route("GET", <<P>>, Anyone),
    Route("PATCH", <<P>>, HR),
    Route("DELETE", <<P>>, HR)>>
PositionRoutes == <<
    Route("POST", <<>>, HR),
    Route("GET", <<>>, Anyone),
    Route("GET", <<P>>, Anyone),
    Route("PATCH", <<P>>, HR),
    Route("DELETE", <<P>>, HR)>>
EmployeeRoutes_IdFirst == <<
    Route("PATCH", <<P>>, HR),
    Route("PATCH", <<"me">>, Anyone)>>
EmployeeRoutes == <<
    Route("POST", <<>>, HR),
    Route("GET", <<>>, Reviewers),
    Route("GET", <<P>>, CompanyRoles),
    Route("PATCH", <<"me">>, Anyone),
    Route("PATCH", <<P>>, HR),
    Route("PATCH", <<P, "role">>, HR),
    Route("DELETE", <<P>>, HR),
    Route("POST", <<P, "deactivate">>, HR),
    Route("POST", <<P, "reactivate">>, HR),
    Route("POST", <<P, "upload-document">>, HR),
    Route("GET", <<P, "documents">>, HR \cup {"STAFF"}),
    Route("PATCH", <<P, "password">>, Anyone)>>
ShiftRoutes == <<
    Route("POST", <<"shifts">>, HR),
    Route("GET", <<"shifts">>, Anyone),
    Route("GET", <<"shifts", P>>, Anyone),
    Route("PATCH", <<"shifts", P>>, HR),
    Route("DELETE", <<"shifts", P>>, HR),
    Route("POST", <<"shifts", P, "assign">>, HR),
    Route("GET", <<"employees", P, "shift">>, Anyone),
    Route("GET", <<"employees", P, "shift", "history">>, Anyone),
    Route("POST", <<"shifts", "bulk-assign">>, Managers)>>
HolidayRoutes == <<
    Route("POST", <<>>, HR),
    Route("GET", <<>>, Anyone),
    Route("GET", <<P>>, Anyone),
    Route("PATCH", <<P>>, HR),
    Route("DELETE", <<P>>, HR)>>
DeviceRoutes == <<
    Route("POST", <<"register-token">>, Anyone),
    Route("POST", <<"remove-token">>, Anyone)>>
PunchRoutes == <<
    Route("POST", <<"check-in">>, Anyone),
    Route("POST", <<"check-out">>, Anyone),
    Route("GET", <<"my-today">>, Anyone),
    Route("GET", <<"my-history">>, Anyone)>>
AttendanceReportRoutes == <<
    Route("GET", <<"report", "daily">>, Managers),
    Route("GET", <<"report", "monthly">>, Managers),
    Route("GET", <<"report", "late">>, HR),
    Route("GET", <<"report", "absent">>, HR),
    Route("GET", <<"report", "summary">>, Managers),
    Route("GET", <<"report", "not-checked-in">>, Managers),
    Route("GET", <<"report", "employee", P, "monthly">>, Managers),
    Route("GET", <<P>>, Managers),
    Route("PATCH", <<P, "adjust">>, HR)>>
AttendanceRoutes == PunchRoutes \o AttendanceReportRoutes
OutsideWorkRoutes == <<
    Route("POST", <<"request">>, CompanyRoles),
    Route("GET", <<"my">>, Anyone),
    Route("GET", <<"pending">>, Reviewers),
    Route("GET", <<"report">>, HR),
    Route("GET", <<P>>, Anyone),
    Route("POST", <<P, "approve">>, HR),
    Route("POST", <<P, "reject">>, HR)>>
LeaveTypeRoutes == <<
    Route("POST", <<"leave-types">>, HR),
    Route("GET", <<"leave-types">>, Anyone),
    Route("PATCH", <<"leave-types", P>>, HR),
    Route("DELETE", <<"leave-types", P>>, HR)>>
LeaveRequestRoutes == <<
    Route("POST", <<"leave", "request">>, Anyone),
    Route("GET", <<"leave", "my">>, Anyone),
    Route("GET", <<"leave", "pending">>, Reviewers),
    Route("GET", <<"leave", "report">>, HR),
    Route("GET", <<"leave", "balance", "my">>, Anyone),
    Route("GET", <<"leave", "balance", P>>, HR),
    Route("PATCH", <<"leave", "balance", P>>, HR),
    Route("GET", <<"leave", P>>, Anyone),
    Route("POST", <<"leave", P, "approve">>, HR),
    Route("POST", <<"leave", P, "reject">>, HR),
    Route("POST", <<"leave", P, "cancel">>, Anyone)>>
LeaveRoutes == LeaveTypeRoutes \o LeaveRequestRoutes
OTRoutes == <<
    Route("GET", <<"policy">>, Anyone),
    Route("PATCH", <<"policy">>, HR),
    Route("POST", <<"request">>, Anyone),
    Route("GET", <<"my">>, Anyone),
    Route("GET", <<"pending">>, Reviewers),
    Route("GET", <<"report">>, HR),
    Route("GET", <<P>>, Anyone),
    Route("POST", <<P, "approve">>, HR),
    Route("POST", <<P, "reject">>, HR),
    Route("POST", <<P, "cancel">>, Anyone)>>
NotificationRoutes == <<
    Route("GET", <<>>, Anyone),
    Route("GET", <<"unread-count">>, Anyone),
    Route("POST", <<P, "read">>, Anyone),
    Route("POST", <<"read-all">>, Anyone)>>
AnnouncementRoutes == <<
    Route("POST", <<>>, HR),
    Route("GET", <<>>, HR),
    Route("GET", <<"mobile", "feed">>, Anyone),
    Route("GET", <<P>>, Anyone),
    Route("PATCH", <<P>>, HR),
    Route("DELETE", <<P>>, HR),
    Route("POST", <<P, "publish">>, HR),
    Route("POST", <<P, "read">>, Anyone)>>
ReportRoutes == <<
    Route("GET", <<"attendance", "daily">>, Anyone),
    Route("GET", <<"attendance", "monthly">>, Anyone),
    Route("GET", <<"attendance", "late">>, Anyone),
    Route("GET", <<"attendance", "absent">>, Anyone),
    Route("GET", <<"attendance", "missing-checkout">>, Anyone),
    Route("GET", <<"leave", "summary">>, HR),
    Route("GET", <<"leave", "balance">>, HR),
    Route("GET", <<"ot", "summary">>, Anyone),
    Route("GET", <<"ot", "cost">>, Anyone)>>
TaxConfigRoutes == <<
    Route("POST", <<>>, Super),
    Route("GET", <<>>, Super \cup Owner),
    Route("GET", <<"current">>, Anyone),
    Route("PATCH", <<P>>, Super),
    Route("GET", <<"company">>, Super \cup Owner),
    Route("PUT", <<"company">>, Super \cup Owner),
    Route("GET", <<"companies">>, Super),
    Route("PUT", <<"companies", P>>, Super)>>
PlanRoutes == <<
    Route("POST", <<>>, Super),
    Route("GET", <<>>, Anyone),
    Route("GET", <<P>>, Anyone),
    Route("PATCH", <<P>>, Super),
    Route("DELETE", <<P>>, Super)>>
PeriodRoutes == <<
    Route("POST", <<"periods">>, HR),
    Route("GET", <<"periods">>, HR),
    Route("GET", <<"periods", P>>, HR),
    Route("POST", <<"periods", P, "generate">>, HR),
    Route("POST", <<"periods", P, "hr-review">>, HR),
    Route("POST", <<"periods", P, "pay">>, Owner),
    Route("GET", <<"periods", P, "payslips">>, HR)>>
PayslipRoutes == <<
    Route("GET", <<"payslips">>, HR),
    Route("GET", <<"payslips", P>>, HR),
    Route("PATCH", <<"payslips", P, "adjustments">>, HRAdmin),
    Route("GET", <<"employees", P, "payslips">>, HR),
    Route("GET", <<"employees", P, "finance-summary">>, HR),
    Route("GET", <<"my-payslips">>, Anyone),
    Route("GET", <<"my-payslips", P>>, Anyone),
    Route("GET", <<"report">>, HR),
    Route("GET", <<"policy">>, HR),
    Route("PATCH", <<"policy">>, HR)>>
PayrollRoutes == PeriodRoutes \o PayslipRoutes
PolicyRoutes == <<
    Route("GET", <<>>, Managers),
    Featured("PATCH", <<"attendance">>, HR, {"attendance"}),
    Featured("PATCH", <<"payroll">>, Owner, {"payroll"})>>
AdjustmentRoutes == <<
    Route("POST", <<>>, {"BRANCH_MANAGER", "SUPERVISOR", "STAFF"}),
    Route("GET", <<"my">>, Anyone),
    Route("GET", <<>>, Managers),
    Route("POST", <<P, "cancel">>, Anyone),
    Route("POST", <<P, "approve">>, Managers),
    Route("POST", <<P, "reject">>, Managers)>>
DashboardRoutes == <<
    Route("GET", <<"today-overview">>, Reviewers),
    Route("GET", <<"pending-counts">>, Reviewers),
    Route("GET", <<>>, HR)>>
UploadRoutes == <<
    Route("POST", <<>>, Anyone),
    Route("DELETE", <<>>, Anyone),
    Route("PATCH", <<>>, Anyone)>>
HealthRoutes == <<
    Open("GET", <<>>)>>

\* What each is declared under, in the order of AppModule; two have to do with
\* employees.
Declared ==
    Controller(<<"auth">>, Anyone, {}, AuthRoutes) \o
    Controller(<<"super", "companies">>, Super, {}, CompanyRoutes) \o
    Controller(<<"branches">>, Anyone, {}, BranchRoutes) \o
    Controller(<<"departments">>, Anyone, {}, DepartmentRoutes) \o
    Controller(<<"positions">>, Anyone, {}, PositionRoutes) \o
    (Controller(<<"employees">>, Anyone, {}, EmployeeRoutes) \o
     Controller(<<>>, Anyone, {"shiftManagement"}, ShiftRoutes)) \o
    Controller(<<"holidays">>, Anyone, {}, HolidayRoutes) \o
    Controller(<<"devices">>, Anyone, {}, DeviceRoutes) \o
    Controller(<<"attendance">>, Anyone, {"attendance"}, AttendanceRoutes) \o
    Controller(<<"outside-work">>, Anyone, {"outsideWork"}, OutsideWorkRoutes) \o
    Controller(<<>>, Anyone, {"leave"}, LeaveRoutes) \o
    Controller(<<"ot">>, Anyone, {"ot"}, OTRoutes) \o
    Controller(<<"notifications">>, Anyone, {}, NotificationRoutes) \o
    Controller(<<"announcements">>, Anyone, {"announcement"}, AnnouncementRoutes) \o
    Controller(<<"reports">>, Managers, {}, ReportRoutes) \o
    Controller(<<"tax-configs">>, Anyone, {}, TaxConfigRoutes) \o
    Controller(<<"plans">>, Anyone, {}, PlanRoutes) \o
    Controller(<<"payroll">>, Anyone, {"payroll"}, PayrollRoutes) \o
    Controller(<<"company-policy">>, Anyone, {}, PolicyRoutes) \o
    Controller(<<"attendance-adjustments">>, Anyone, {"attendanceAdjustment"}, AdjustmentRoutes) \o
    Controller(<<"dashboard">>, Anyone, {}, DashboardRoutes) \o
    Controller(<<"uploads">>, Anyone, {}, UploadRoutes) \o
    Controller(<<"health">>, Anyone, {}, HealthRoutes)

-----------------------------------------------------------------------------
(* A request *)

VARIABLE call       \* [wanted, the handler meant; handler, the one reached;
                    \*  role, shape, standing of the company; answered]

NoCall == <<>>
callVars == <<call>>
CallInit == call = NoCall

Fits(r, method, path) ==
    /\ r.method = method
    /\ Len(r.path) = Len(path)
    /\ \A i \in DOMAIN path : r.path[i] \in {path[i], P}
FirstFit(method, path) ==
    CHOOSE i \in DOMAIN Declared :
        /\ Fits(Declared[i], method, path)
        /\ \A j \in 1..(i - 1) : ~Fits(Declared[j], method, path)

\* The path a client of a route sends: no parameter is a word of a route.
Sent(path) == [i \in DOMAIN path |-> IF path[i] = P THEN "id" ELSE path[i]]

\* SubscriptionGuard: a plan without a word on outsideWork includes it.
HasFeature(shape, f) ==
    IF f = "outsideWork" THEN shape[f] # "off" ELSE shape[f] = "on"
SubscriptionGuard(role, shape, standing, features) ==
    \/ role = "SUPER_ADMIN"
    \/ standing /\ \A f \in features : shape # NoShape /\ HasFeature(shape, f)

RolesGuard(role, roles) == roles = Anyone \/ role \in roles

Passes(r, role, shape, standing) ==
    r.public \/ (SubscriptionGuard(role, shape, standing, r.features) /\ RolesGuard(role, r.roles))

Request ==
    /\ call = NoCall
    /\ \E i \in DOMAIN Declared, role \in UserRoles, shape \in PlanShapes \cup {NoShape},
          standing \in BOOLEAN :
         LET r == Declared[i]
             to == FirstFit(r.method, Sent(r.path))
         IN call' = [wanted |-> i, handler |-> to, role |-> role, shape |-> shape,
                     standing |-> standing,
                     answered |-> Passes(Declared[to], role, shape, standing)]

\* AuthService.getFeatures(): what a client is told, and shows.
Shown(shape) ==
    IF shape = NoShape THEN {}
    ELSE {f \in Features : shape[f] = "on" \/ (f = "outsideWork" /\ shape[f] = "unset")}

-----------------------------------------------------------------------------
(* Properties *)

\* Every route can be reached, no earlier one standing in its way; and what a
\* client is told of the plan is what the guard goes by: a company in good
\* standing is answered on a route, to a role it admits, exactly when the
\* client shows all its features.
ShownIsServed ==
    call # NoCall =>
    LET r == Declared[call.wanted] IN
    /\ call.handler = call.wanted
    /\ call.standing /\ call.role \in CompanyRoles /\ ~r.public =>
           (call.answered <=> RolesGuard(call.role, r.roles) /\ r.features \subseteq Shown(call.shape))

=============================================================================
