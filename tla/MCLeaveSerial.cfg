\* One handler at a time and no failure, over years, types and employees.
SPECIFICATION UndisturbedFairSpec
CONSTANTS
    Handlers = {h1}
    Requests = {r1, r2}
    Employees = {e1, e2}
    Linked = {e1}
    LeaveTypes = {annual}
    ByName = ByName
    Moments <- Midnights
    DayLength = 2
    YearOf <- NewYear
    Adjustments = {3}
    MaxTotal = 3
    NoRequest = NoRequest
PROPERTIES
    ApprovalSettles
CHECK_DEADLOCK FALSE
