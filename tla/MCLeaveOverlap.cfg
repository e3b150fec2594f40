\* Two handlers at a time: the overlap check does not exclude overlaps.
SPECIFICATION Spec
CONSTANTS
    Handlers = {h1, h2}
    Requests = {r1, r2}
    Employees = {e1}
    Linked = {e1}
    LeaveTypes = {annual}
    ByName = ByName
    Moments <- Hours
    DayLength = 2
    YearOf <- OldYear
    Adjustments = {3}
    MaxTotal = 3
    NoRequest = NoRequest
INVARIANTS
    NoOverlap
CHECK_DEADLOCK FALSE
