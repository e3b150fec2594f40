SPECIFICATION UndisturbedFairSpec
CONSTANTS
    Handlers = {h1}
    e1 = e1
    e2 = e2
    Employees = {e1, e2}
    Pay <- SomePay
    PageSize = 2
    Amounts <- SomeAmounts
    MaxSlips = 2
PROPERTIES
    ImplementsCycle
    GenerationCloses
