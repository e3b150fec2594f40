------------------------------ MODULE Branches ------------------------------
(***************************************************************************)
(* BranchesService: the branches of a company and the number of them that  *)
(* its plan allows at the same time.                                       *)
(*                                                                         *)
(* Left out: the fields of a branch no rule looks at, and assignManager:   *)
(* its first write names the account by the text of a populated document,  *)
(* which is no id, so it throws before anything is written.                *)
(***************************************************************************)
EXTENDS Serving

CONSTANTS
    BranchIds,      \* identities of branch documents
    BranchLimits    \* bound: the values maxBranches of the plan takes

ASSUME BranchesAssumption == BranchLimits \subseteq Nat

BranchPCs == {"idle", "tally", "found"}
BranchWorks == [max : BranchLimits]

VARIABLES
    built,          \* branches whose document was created
    active,         \* branches whose isActive is true
    maxBranches,    \* of the company's plan
    planActive,     \* isActive of the company's plan
    \* history, for the properties only
    overtaken,      \* handlers creating a branch on an outdated count or plan
    excess          \* branches they created, and those that were activated or
                    \* that a change of the plan found active

branchVars == <<built, active, maxBranches, planActive, overtaken, excess>>

BranchInit ==
    /\ built = {}
    /\ active = {}
    /\ maxBranches \in BranchLimits
    /\ planActive = TRUE
    /\ overtaken = {}
    /\ excess = {}

-----------------------------------------------------------------------------
(* create(): the plan is read, then the active branches are counted, then  *)
(* the branch is stored; the dto may ask for an inactive one.              *)

CreatePlanRead(h) ==
    /\ planActive
    /\ Enter(h, "tally", [max |-> maxBranches])
    /\ UNCHANGED branchVars

CreateTally_OffByOne(h) ==
    /\ pc[h] = "tally"
    /\ IF Cardinality(active) > work[h].max
       THEN Leave(h) /\ overtaken' = overtaken \ {h}
       ELSE Goto(h, "found", work[h]) /\ UNCHANGED overtaken
    /\ UNCHANGED <<built, active, maxBranches, planActive, excess>>
CreateTally(h) ==
    /\ pc[h] = "tally"
    /\ IF Cardinality(active) >= work[h].max
       THEN Leave(h) /\ overtaken' = overtaken \ {h}
       ELSE Goto(h, "found", work[h]) /\ UNCHANGED overtaken
    /\ UNCHANGED <<built, active, maxBranches, planActive, excess>>

CreateBranch(h, on) ==
    /\ pc[h] = "found"
    /\ \E b \in BranchIds \ built :
         /\ built' = built \cup {b}
         /\ active' = IF on THEN active \cup {b} ELSE active
         /\ excess' = IF h \in overtaken THEN excess \cup {b} ELSE excess
    /\ overtaken' = (overtaken \cup Waiting({"found"})) \ {h}
    /\ Leave(h)
    /\ UNCHANGED <<maxBranches, planActive>>

\* activate(), and update() with isActive: the plan is not looked at.
Activate(h, b) ==
    /\ b \in built
    /\ AtOnce(h)
    /\ active' = active \cup {b}
    /\ excess' = excess \cup ({b} \ active)
    /\ UNCHANGED <<built, maxBranches, planActive, overtaken>>

\* deactivate(), softDelete(), and update() with isActive
Deactivate(h, b) ==
    /\ b \in built
    /\ AtOnce(h)
    /\ active' = active \ {b}
    /\ UNCHANGED <<built, maxBranches, planActive, overtaken, excess>>

\* PlansService.update(), softDelete(), as the company's branches see it.
ChangePlan(h, n, on) ==
    /\ AtOnce(h)
    /\ maxBranches' = n
    /\ planActive' = on
    /\ overtaken' = overtaken \cup Waiting({"tally", "found"})
    /\ excess' = IF n < maxBranches THEN excess \cup active ELSE excess
    /\ UNCHANGED <<built, active>>

BranchFail(h) ==
    /\ Abandoned(h)
    /\ overtaken' = overtaken \ {h}
    /\ UNCHANGED <<built, active, maxBranches, planActive, excess>>

BranchNext ==
    \E h \in Handlers :
        \/ CreatePlanRead(h)
        \/ CreateTally(h)
        \/ \E on \in BOOLEAN : CreateBranch(h, on)
        \/ \E b \in BranchIds : Activate(h, b) \/ Deactivate(h, b)
        \/ \E n \in BranchLimits, on \in BOOLEAN : ChangePlan(h, n, on)
        \/ BranchFail(h)

BranchSpec == ServingInit /\ BranchInit /\ [][BranchNext]_<<pc, work, branchVars>>

-----------------------------------------------------------------------------
(* Properties *)

BranchTypeOK ==
    /\ \A h \in Handlers : /\ pc[h] \in BranchPCs
                           /\ pc[h] # "idle" => work[h] \in BranchWorks
    /\ active \subseteq built /\ built \subseteq BranchIds
    /\ maxBranches \in BranchLimits
    /\ planActive \in BOOLEAN
    /\ overtaken \subseteq Handlers
    /\ excess \subseteq built

\* The company has no more active branches than its plan allows, but for those
\* that were activated again, that two requests created on the same count, or
\* that were there when the plan was cut down.
BranchQuotaExplained == Cardinality(active \ excess) <= maxBranches

=============================================================================
