\* Two adjustment requests, corrections of corrections.
SPECIFICATION Spec
CONSTANTS
    Handlers = {h1, h2}
    Adjustments = {a1, a2}
    Outings = {}
    MaxLogs = 3
    Retypes = {"OTHER"}
    NoRequest = NoRequest
SYMMETRY Interchangeable
INVARIANTS
    TypeOK
    DayKeepsItsPunches
    CorrectionsMatch
CHECK_DEADLOCK FALSE
