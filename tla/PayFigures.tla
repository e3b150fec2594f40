----------------------------- MODULE PayFigures -----------------------------
(***************************************************************************)
(* How PayrollService.generate and TaxCalculationService arrive at the     *)
(* figures of one payslip: scheduled and payable days, base pay, rest-day  *)
(* compensation, overtime, social security and progressive income tax, and *)
(* what the tax mode of the company makes of them.                         *)
(*                                                                         *)
(* Amounts are whole.  Where a salary divides by the days of the period    *)
(* (WholePay), \div is the division of the code; elsewhere the code keeps a *)
(* fraction, which \div leaves out.  Rates are whole too: per cent of tax,  *)
(* per mille of social security.                                           *)
(***************************************************************************)
EXTENDS Integers, FiniteSets, Sequences, FiniteSetsExt

CONSTANTS
    Inputs,         \* bound: the employees and policies payslips are made for
    PeriodDays,     \* the days of the period
    UniformDays,    \* those on which the uniform schedule has work
    MonthHours,     \* workingHoursPerMonth of the employees
    Brackets,       \* of the tax configuration: sequence of [from, to, rate]
    EmployeeSS      \* employeeSsRate of it, per mille

TaxModes == {"FULL_DEDUCTION", "TAX_ON_COMPANY", "SS_ONLY", "NO_DEDUCTION"}
NoUpperEnd == -1            \* to: null

\* The shift assignments of an employee, as they are loaded.
ShiftLists == Seq([from : Nat, to : Nat, days : SUBSET Nat])
Inputable ==
    [salary : Nat, allowances : Nat, otHours : Nat, mode : {"MONTHLY_FIXED", "ATTENDANCE_BASED"},
     schedule : {"UNIFORM", "SHIFT_BASED"}, method : {"CALENDAR_30", "SCHEDULED_WORKDAYS"},
     restOn : BOOLEAN, compOn : BOOLEAN, restDays : Nat, absenceOn : BOOLEAN,
     attended : Nat, paidLeave : Nat, rest : Nat, taxMode : TaxModes,
     ssOn : BOOLEAN, taxOn : BOOLEAN,
     roster : ShiftLists]

ASSUME PayFiguresAssumption ==
    /\ PeriodDays \subseteq Nat /\ IsFiniteSet(PeriodDays)
    /\ UniformDays \subseteq PeriodDays
    /\ MonthHours \in Nat \ {0}
    /\ EmployeeSS \in 0..1000
    /\ Inputs \subseteq Inputable
    /\ Brackets \in Seq([from : Nat, to : Nat \cup {NoUpperEnd}, rate : 0..100])

VARIABLE slip       \* [input, the employee and the policy; pay, the figures]

NoSlip == <<>>
payVars == <<slip>>
PayInit == slip = NoSlip

AtMost(a, b) == IF a <= b THEN a ELSE b
AtLeast(a, b) == IF a >= b THEN a ELSE b
Rounded(n, d) == (2 * n + d) \div (2 * d)          \* Math.round(n / d)

-----------------------------------------------------------------------------
(* TaxCalculationService *)

\* calculateProgressiveTax(): up to the first bracket the income does not reach.
Reached(income) ==
    {i \in DOMAIN Brackets : \A j \in 1..i : income > Brackets[j].from}
InBracket(income, b) ==
    (IF b.to = NoUpperEnd THEN income ELSE AtMost(income, b.to)) - b.from
ProgressiveTax(income) ==
    Rounded(MapThenSumSet(LAMBDA i : InBracket(income, Brackets[i]) * Brackets[i].rate,
                          Reached(income)), 100)

\* calculateOTAmount(): the hours are weighted with their rates before.
OTAmount(base, hours) == (base * hours) \div MonthHours

\* resolveEffectiveRates() of TaxConfigsService
SSRate(in) == IF in.ssOn THEN EmployeeSS ELSE 0
Taxed(in) == in.taxOn /\ in.taxMode \notin {"NO_DEDUCTION", "SS_ONLY"}

\* calculatePayroll()
CalculatePayroll(in, base, allowances) ==
    LET ot == OTAmount(base, in.otHours)
        gross == base + allowances + ot
        ss == Rounded(gross * SSRate(in), 1000)
        tax == IF Taxed(in) THEN ProgressiveTax(gross - ss) ELSE 0
    IN [base |-> base, ot |-> ot, gross |-> gross, ss |-> ss, taxable |-> gross - ss,
        tax |-> tax, deductions |-> ss + tax, net |-> gross - ss - tax]

\* applyTaxModeAdjustments()
Adjusted(in, r) ==
    CASE in.taxMode = "NO_DEDUCTION" ->
            [r EXCEPT !.ss = 0, !.tax = 0, !.deductions = 0, !.net = r.gross]
      [] in.taxMode = "TAX_ON_COMPANY" ->
            [r EXCEPT !.deductions = r.deductions - r.tax,
                      !.net = r.gross - (r.deductions - r.tax)]
      [] OTHER -> r

-----------------------------------------------------------------------------
(* PayrollService.generate *)

\* The assignments are loaded only for one of the two ways to divide a salary.
Loaded(in) == IF in.method = "SCHEDULED_WORKDAYS" THEN in.roster ELSE <<>>

\* countScheduledDays(): of the assignments that cover a day, find() takes the
\* first, and the work days of its shift.
ShiftDays(roster, d) ==
    LET covering == {i \in DOMAIN roster : roster[i].from <= d /\ d <= roster[i].to}
    IN IF covering = {} THEN {} ELSE roster[Min(covering)].days
WorkDaysOn(in, d) ==
    IF in.schedule = "SHIFT_BASED" THEN ShiftDays(Loaded(in), d) ELSE UniformDays
ScheduledDays(in) == Cardinality({d \in PeriodDays : d \in WorkDaysOn(in, d)})

Divisor(in) ==
    IF in.method = "CALENDAR_30" THEN 30 ELSE AtLeast(1, ScheduledDays(in))

RestTaken(in) == IF in.restOn THEN in.rest ELSE 0
UnusedRest(in) == IF in.restOn THEN AtLeast(0, in.restDays - in.rest) ELSE 0
RestCompensation(in) ==
    IF in.restOn /\ in.compOn THEN (in.salary \div Divisor(in)) * UnusedRest(in) ELSE 0

PayableDays(in) ==
    AtMost(ScheduledDays(in), in.attended + in.paidLeave + RestTaken(in))
AbsenceDays(in) == AtLeast(0, ScheduledDays(in) - PayableDays(in))

BasePay(in) ==
    IF in.mode = "ATTENDANCE_BASED" THEN (in.salary \div Divisor(in)) * PayableDays(in)
    ELSE in.salary
LeaveDeduction_Always(in) ==
    (BasePay(in) \div Divisor(in)) * AbsenceDays(in)
LeaveDeduction(in) ==
    IF in.mode = "MONTHLY_FIXED" /\ in.absenceOn
    THEN (BasePay(in) \div Divisor(in)) * AbsenceDays(in) ELSE 0

\* The payslip that is stored.
Payslip(in) ==
    LET r == Adjusted(in, CalculatePayroll(in, BasePay(in),
                                           in.allowances + RestCompensation(in)))
        off == LeaveDeduction(in)
    IN [base |-> r.base, gross |-> r.gross, ss |-> r.ss, taxable |-> r.taxable,
        tax |-> r.tax, off |-> off, deductions |-> r.deductions + off, net |-> r.net - off]

Generate == slip = NoSlip /\ \E in \in Inputs : slip' = [input |-> in, pay |-> Payslip(in)]

PaySpec == PayInit /\ [][Generate]_payVars

-----------------------------------------------------------------------------
(* Properties *)

\* The tax schedule as it is meant: each per cent is due on the part of the
\* income above the end of the bracket before, in hundredths.
ScheduleEnds(i) == IF i = 1 THEN 0 ELSE Brackets[i - 1].to
MarginalTax(income) ==
    MapThenSumSet(LAMBDA i : AtLeast(0, InBracket(income, [Brackets[i] EXCEPT !.from = ScheduleEnds(i)]))
                             * Brackets[i].rate, DOMAIN Brackets)

\* What brackets that begin one unit late leave untaxed.
UnitsLost(income) ==
    MapThenSumSet(LAMBDA i : Brackets[i].rate,
                  {i \in DOMAIN Brackets : i # 1 /\ income > ScheduleEnds(i)})

\* The days of the period with work, whether or not the assignments that say
\* so are loaded.
RosteredDays(in) ==
    {d \in PeriodDays : d \in IF in.schedule = "SHIFT_BASED" THEN ShiftDays(in.roster, d)
                              ELSE UniformDays}

\* The brackets are those of the default configuration in kind: the first begins
\* at nothing, the next a unit above the end of the one before.  Nothing in
\* TaxConfigsService refuses others.
BracketsFollow ==
    \A i \in DOMAIN Brackets :
      /\ Brackets[i].from = IF i = 1 THEN 0 ELSE Brackets[i - 1].to + 1
      /\ Brackets[i].to # NoUpperEnd => Brackets[i].from <= Brackets[i].to
      /\ \A j \in 1..(i - 1) :
           Brackets[j].to # NoUpperEnd /\ Brackets[j].to < Brackets[i].from

\* The salary is divided without a rest.  No salary is refused either.
WholePay(in) == (in.salary \div Divisor(in)) * Divisor(in) = in.salary

\* A payslip adds up in every tax mode, and so do its items, whatever the
\* brackets.  If the brackets follow one another, the tax is that of the
\* schedule but for the unit that each bracket loses, rounded, and a day more of
\* attendance, and a unit more of income, never leave less.  If the salary
\* divides by the days, a day of absence costs a day's pay, once, whether
\* attendance is paid or absence deducted; and attendance on a period with work
\* is paid, unless the shifts that schedule it were not loaded.
PayAddsUp ==
    slip # NoSlip =>
    LET in == slip.input  p == slip.pay
        more == Payslip([in EXCEPT !.attended = @ + 1])
    IN
    /\ p.net = p.gross - p.deductions
    /\ p.deductions = p.ss + p.off + IF in.taxMode = "TAX_ON_COMPANY" THEN 0 ELSE p.tax
    /\ BracketsFollow =>
         /\ Taxed(in) =>
              /\ 100 * p.tax - (MarginalTax(p.taxable) - UnitsLost(p.taxable)) \in -50..50
              /\ ProgressiveTax(p.taxable + 1) - p.tax \in 0..1
         /\ more.net >= p.net
    /\ WholePay(in) /\ in.method = "SCHEDULED_WORKDAYS" /\ ScheduledDays(in) > 0
       /\ (in.mode = "MONTHLY_FIXED" => in.absenceOn) =>
           p.base - p.off = in.salary - (in.salary \div Divisor(in)) * AbsenceDays(in)
    /\ WholePay(in) /\ in.mode = "ATTENDANCE_BASED" /\ in.attended > 0 /\ in.salary > 0
       /\ RosteredDays(in) # {} =>
           p.base > 0 \/ (in.schedule = "SHIFT_BASED" /\ in.method = "CALENDAR_30")

=============================================================================
