\* Outside work against corrections, check-ins and check-outs.
SPECIFICATION FairSpec
CONSTANTS
    Handlers = {h1, h2}
    Adjustments = {a1}
    Outings = {o1}
    MaxLogs = 2
    Retypes = {"CHECK_OUT"}
    NoRequest = NoRequest
INVARIANTS
    OneCheckInExplained
    NoOrphanCheckOut
    OutsideExplained
PROPERTIES
    OutsideSettles
    ImplementsWorkflow
CHECK_DEADLOCK FALSE
