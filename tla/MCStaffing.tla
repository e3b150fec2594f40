----------------------------- MODULE MCStaffing -----------------------------
EXTENDS Staffing, TLC

\* A number in two spellings, and another number.
PhoneTexts == {"020-1", "856-1", "020-2"}
Lines == [p \in PhoneTexts |-> IF p = "020-2" THEN 2 ELSE 1]

Interchangeable ==
    Permutations(Handlers) \cup Permutations(Employees) \cup Permutations(Accounts)
=============================================================================
