------------------------- MODULE MCPayrollPeriod -------------------------
EXTENDS PayrollPeriod, TLC

CONSTANTS e1, e2

\* Employees whose pay is the same, and employees whose pay differs.
Same == [gross |-> 10, deductions |-> 2]
SamePay == [e \in {e1, e2} |-> Same]
SomePay == [SamePay EXCEPT ![e2] = [gross |-> 7, deductions |-> 1]]

\* Manual adjustments of both kinds, and none.
OneAmount == {<<3, 1>>}
SomeAmounts == {<<0, 0>>} \cup OneAmount

\* Handlers, and employees who are paid the same, are interchangeable.
Interchangeable == Permutations(Handlers) \cup Permutations(Employees)
=============================================================================
