SPECIFICATION Spec
CONSTANTS
    h1 = h1  w1 = w1
    Handlers = {h1}
    Workers = {w1}
    DayLength = 24
    Zone = 7
    Margin = 2
    Timetables <- MCTimetables
    Weekend = {}
    Month = {0, 1}
    LastMoment = 47
    MaxLogs = 2
    FixMoments = {}
    MaxFixes = 0
INVARIANT ShiftAdmitsCheckIn
