SPECIFICATION Spec
CONSTANTS
    Handlers = {h1, h2}
    e1 = e1
    e2 = e2
    Employees = {e1, e2}
    Pay <- SamePay
    PageSize = 2
    Amounts <- OneAmount
    MaxSlips = 2
PROPERTIES
    WorkflowOrder
