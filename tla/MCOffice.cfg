SPECIFICATION Spec
CONSTANTS
    h1 = h1  h2 = h2
    Handlers = {h1, h2}
    \* Sessions
    u1 = u1  u2 = u2  u3 = u3
    t1 = t1
    Users = {u1, u2, u3}
    Tenants = {t1}
    TenantOf <- MCTenantOf
    DialOf <- MCDialOf
    Inactive = {u2}
    MaxChanges = 1
    NoTenant = NoTenant
    \* Subscription
    p1 = p1
    Plans = {p1}
    Asked = {"ACTIVE", "EXPIRED"}
    LastDate = 2
    NoPlan = NoPlan
    \* Overtime
    r1 = r1  m1 = m1  e1 = e1  e2 = e2
    OTRequests = {r1}
    OTStaff = {e1, e2}
    OTManagers = {m1}
    OTHours = {4, 5}
    OTNobody = OTNobody
    \* Branches
    b1 = b1  b2 = b2  b3 = b3
    BranchIds = {b1, b2, b3}
    BranchLimits = {1, 2}
    \* ShiftRoster
    a1 = a1  a2 = a2
    Assignments = {a1, a2}
    ShiftStaff = {e1, e2}
    ShiftRequests <- MCShiftRequests
    LastDay = 3
    \* Policies
    MaxVersions = 3
    LastInstant = 3
    \* PunchClock
    w1 = w1
    Workers = {w1}
    DayLength = 4
    Zone = 1
    Margin = 1
    Timetables <- MCTimetables
    Weekend = {}
    Month = {0, 1}
    LastMoment = 7
    MaxLogs = 3
    FixMoments = {3, 5}
    MaxFixes = 1
    \* PayFigures
    Inputs <- MCInputs
    PeriodDays = {1, 2, 3, 4}
    UniformDays = {1, 2, 3}
    MonthHours = 20
    Brackets <- MCBrackets
    EmployeeSS = 55
    \* Routes
    PlanShapes <- MCPlanShapes
SYMMETRY Symm
\* A desk has no more to do when its bounds are reached.
CHECK_DEADLOCK FALSE
INVARIANTS
    OfficeTypeOK
    SessionsFollowPassword
    SubscriptionExplained
    OvertimeExplained
    BranchQuotaExplained
    OneShiftADay
    PolicyKeepsChanges
    PayAddsUp
    RecordsAddUp
    ShownIsServed
PROPERTIES
    ImplementsOvertime
