SPECIFICATION Spec
CONSTANTS
    Handlers = {h1, h2}
    e1 = e1
    e2 = e2
    Employees = {e1, e2}
    Pay <- SamePay
    PageSize = 1
    Amounts <- OneAmount
    MaxSlips = 2
SYMMETRY Interchangeable
INVARIANTS
    TypeOK
    PayslipBalanced
    DuplicatesExplained
    NobodyForgotten
    StatusesAgree
PROPERTIES
    WorkflowOrderExplained

