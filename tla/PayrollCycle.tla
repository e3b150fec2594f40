--------------------------- MODULE PayrollCycle ---------------------------
(***************************************************************************)
(* What a payroll period promises: every employee gets at most one         *)
(* payslip, while the period is a draft; amounts change only during the    *)
(* review; all payslips are stamped before the period moves on; nothing    *)
(* moves backwards.                                                        *)
(***************************************************************************)
EXTENDS Integers

CONSTANTS
    Employees,      \* those who may get a payslip
    Drafted         \* [Employees -> Int]: net pay as the system calculates it

VARIABLES
    stage,          \* of the period: DRAFT, GENERATED, HR_REVIEWED, PAID
    stamp,          \* [Employees -> status of the payslip, "NONE" without one]
    net             \* [Employees -> net pay on the payslip]

cycleVars == <<stage, stamp, net>>

CycleInit ==
    /\ stage = "DRAFT"
    /\ stamp = [e \in Employees |-> "NONE"]
    /\ net = [e \in Employees |-> 0]

Prepare(e) ==
    /\ stage = "DRAFT" /\ stamp[e] = "NONE"
    /\ stamp' = [stamp EXCEPT ![e] = "DRAFT"]
    /\ net' = [net EXCEPT ![e] = Drafted[e]]
    /\ UNCHANGED stage

Correct(e) ==
    /\ stage = "GENERATED" /\ stamp[e] = "DRAFT"
    /\ net'[e] \in Int /\ net' = [net EXCEPT ![e] = net'[e]]
    /\ UNCHANGED <<stage, stamp>>

\* The status a payslip must have before the period leaves a stage, and the
\* stage that follows.
Mark == [DRAFT |-> "DRAFT", GENERATED |-> "HR_REVIEWED", HR_REVIEWED |-> "PAID"]
After == [DRAFT |-> "GENERATED", GENERATED |-> "HR_REVIEWED", HR_REVIEWED |-> "PAID"]

Stamp(e) ==
    /\ stage \in {"GENERATED", "HR_REVIEWED"} /\ stamp[e] # "NONE"
    /\ stamp' = [stamp EXCEPT ![e] = Mark[stage]]
    /\ UNCHANGED <<stage, net>>

MoveOn ==
    /\ stage # "PAID"
    /\ \A e \in Employees : stamp[e] \in {"NONE", Mark[stage]}
    /\ stage' = After[stage]
    /\ UNCHANGED <<stamp, net>>

CycleNext == MoveOn \/ \E e \in Employees : Prepare(e) \/ Correct(e) \/ Stamp(e)

CycleSpec == CycleInit /\ [][CycleNext]_cycleVars
=============================================================================
