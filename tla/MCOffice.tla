------------------------------ MODULE MCOffice ------------------------------
(***************************************************************************)
(* The components that only share the server's handlers, one desk each:    *)
(* a behaviour serves the requests of one of them.  None of them reads or  *)
(* writes what another one keeps, so their behaviours side by side would   *)
(* show nothing that theirs alone do not.                                  *)
(***************************************************************************)
EXTENDS Sessions, Subscription, Overtime, Branches, ShiftRoster, Policies,
        PunchClock, PayFigures, Routes, TLC

CONSTANTS h1, h2, u1, u2, u3, t1, p1, r1, m1, e1, e2, b1, b2, b3, a1, a2, w1

MCTenantOf == [u \in Users |-> IF u = u3 THEN NoTenant ELSE t1]
MCDialOf == [u \in Users |-> IF u = u1 THEN 1 ELSE 2]

\* Every term for one employee, and four that go on to the other.
MCShiftRequests ==
    [queue : {<<e1>>}, from : 1..3, to : 1..4] \cup
    [queue : {<<e1, e2>>}, from : 1..2, to : {2, 4}]

\* One shift, worked on day 1 only; a check-in is normal, late a little, or late.
MCTimetables == {[start |-> 1, end |-> 3, days |-> {1}, grace |-> 1, overnight |-> FALSE]}

\* One bracket is not reached, one ended in, one passed; the salaries divide by
\* the days of every period (2400), or of some (1000).
MCBrackets ==
    <<[from |-> 0, to |-> 600, rate |-> 0],
      [from |-> 601, to |-> 1500, rate |-> 5],
      [from |-> 1501, to |-> NoUpperEnd, rate |-> 10]>>
MCRosters ==
    {<<>>,
     <<[from |-> 1, to |-> 4, days |-> {1, 2, 4}]>>,
     <<[from |-> 1, to |-> 2, days |-> {1}], [from |-> 2, to |-> 9, days |-> {2, 3, 4}]>>}
MCInputs ==
    {in \in [salary : {0, 1000, 2400}, allowances : {300}, otHours : {0, 6},
             mode : {"MONTHLY_FIXED", "ATTENDANCE_BASED"},
             schedule : {"UNIFORM", "SHIFT_BASED"},
             method : {"CALENDAR_30", "SCHEDULED_WORKDAYS"},
             restOn : BOOLEAN, compOn : BOOLEAN, restDays : {1}, absenceOn : BOOLEAN,
             attended : {0, 1, 3}, paidLeave : {1}, rest : {0, 2}, taxMode : TaxModes,
             ssOn : BOOLEAN, taxOn : BOOLEAN, roster : MCRosters] :
        /\ in.compOn => in.restOn
        /\ in.schedule = "UNIFORM" => in.roster = <<>>
        /\ ~in.ssOn => in.taxOn}

\* The features of a new plan, the same from before outside work could be
\* switched, all of them, and none.
MCNewPlan ==
    [f \in Features |->
        IF f \in {"attendance", "outsideWork", "leave", "ot", "announcement"} THEN "on" ELSE "off"]
MCPlanShapes ==
    {MCNewPlan, [MCNewPlan EXCEPT !["outsideWork"] = "unset"],
     [f \in Features |-> "on"], [f \in Features |-> "off"]}

VARIABLE desk
vars == <<pc, work, desk, sessionVars, subscriptionVars, otVars, branchVars, shiftVars,
          policyVars, punchVars, payVars, callVars>>

Symm == Permutations(Handlers) \cup Permutations(Assignments)

Init ==
    /\ desk \in {"sessions", "subscription", "overtime", "branches", "shifts",
                "policies", "clock", "pay", "router"}
    /\ ServingInit
    /\ SessionInit /\ SubscriptionInit /\ OvertimeInit /\ BranchInit
    /\ ShiftInit /\ PolicyInit /\ PunchInit /\ PayInit /\ CallInit
    \* what another desk may begin with is fixed
    /\ desk = "subscription" \/ planId = NoPlan
    /\ desk = "branches" \/ maxBranches = 1
    /\ desk = "clock" \/ lag = 0

Next ==
    /\ UNCHANGED desk
    /\ \/ /\ desk = "sessions"
          /\ SessionNext
          /\ UNCHANGED <<subscriptionVars, otVars, branchVars, shiftVars, policyVars,
                         punchVars, payVars, callVars>>
       \/ /\ desk = "subscription"
          /\ SubscriptionNext
          /\ UNCHANGED <<sessionVars, otVars, branchVars, shiftVars, policyVars,
                         punchVars, payVars, callVars>>
       \/ /\ desk = "overtime"
          /\ OvertimeNext
          /\ UNCHANGED <<sessionVars, subscriptionVars, branchVars, shiftVars, policyVars,
                         punchVars, payVars, callVars>>
       \/ /\ desk = "branches"
          /\ BranchNext
          /\ UNCHANGED <<sessionVars, subscriptionVars, otVars, shiftVars, policyVars,
                         punchVars, payVars, callVars>>
       \/ /\ desk = "shifts"
          /\ ShiftNext
          /\ UNCHANGED <<sessionVars, subscriptionVars, otVars, branchVars, policyVars,
                         punchVars, payVars, callVars>>
       \/ /\ desk = "policies"
          /\ PolicyNext
          /\ UNCHANGED <<sessionVars, subscriptionVars, otVars, branchVars, shiftVars,
                         punchVars, payVars, callVars>>
       \/ /\ desk = "clock"
          /\ PunchNext
          /\ UNCHANGED <<sessionVars, subscriptionVars, otVars, branchVars, shiftVars,
                         policyVars, payVars, callVars>>
       \/ /\ desk = "pay"
          /\ Generate
          /\ UNCHANGED <<pc, work, sessionVars, subscriptionVars, otVars, branchVars, shiftVars,
                         policyVars, punchVars, callVars>>
       \/ /\ desk = "router"
          /\ Request
          /\ UNCHANGED <<pc, work, sessionVars, subscriptionVars, otVars, branchVars, shiftVars,
                         policyVars, punchVars, payVars>>

Spec == Init /\ [][Next]_vars

-----------------------------------------------------------------------------
(* Properties *)

\* Every variable, and what every handler has read, keeps its type.
OfficeTypeOK ==
    /\ desk = "sessions" => SessionTypeOK
    /\ desk = "subscription" => SubscriptionTypeOK
    /\ desk = "overtime" => OvertimeTypeOK
    /\ desk = "branches" => BranchTypeOK
    /\ desk = "shifts" => ShiftTypeOK
    /\ desk = "policies" => PolicyTypeOK
    /\ desk = "clock" => PunchTypeOK

=============================================================================
