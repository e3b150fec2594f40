\* One request at a time and no failures: does every employee get an account?
SPECIFICATION UndisturbedSpec
CONSTANTS
    Handlers = {h1}
    Employees = {e1, e2}
    Accounts = {a1, a2}
    Phones <- PhoneTexts
    LineOf <- Lines
    MaxEmployees = 2
    NoEmployee = NoEmployee
    NoAccount = NoAccount
    NoPhone = NoPhone
SYMMETRY Interchangeable
INVARIANTS
    EmployeesCanLogIn
CHECK_DEADLOCK FALSE
