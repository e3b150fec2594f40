\* Creations, updates and deletions of employees on shared phones.
SPECIFICATION Spec
CONSTANTS
    Handlers = {h1, h2}
    Employees = {e1, e2}
    Accounts = {a1, a2}
    Phones <- PhoneTexts
    LineOf <- Lines
    MaxEmployees = 1
    NoEmployee = NoEmployee
    NoAccount = NoAccount
    NoPhone = NoPhone
SYMMETRY Interchangeable
INVARIANTS
    TypeOK
    QuotaExplained
    LoginFollows
    AccountsMatch
    LoginExplained
    OwnerExplained
CHECK_DEADLOCK FALSE
