SPECIFICATION Spec
CONSTANTS
    Handlers = {h1, h2}
    Requests = {r1, r2}
    Employees = {e1}
    Linked = {e1}
    LeaveTypes = {annual}
    ByName = ByName
    Moments <- Hours
    DayLength = 2
    YearOf <- OldYear
    Adjustments = {3}
    MaxTotal = 3
    NoRequest = NoRequest
SYMMETRY Interchangeable
INVARIANTS
    TypeOK
    LedgerBalanced
    ChargedExactlyOnce
    AuditMatchesDecision
    OverlapExplained
PROPERTIES
    ImplementsWorkflow
CHECK_DEADLOCK FALSE
