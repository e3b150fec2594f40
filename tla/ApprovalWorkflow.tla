------------------------ MODULE ApprovalWorkflow ------------------------
(***************************************************************************)
(* What the PENDING-based workflows of the server promise (leave requests, *)
(* overtime requests, outside-work requests, attendance adjustments): a    *)
(* submitted request takes one decision, the decision is final, and the    *)
(* effect that an approval has on another collection (a balance deducted,  *)
(* an attendance log written) is applied exactly once, with the approval.  *)
(*                                                                         *)
(* Handlers do not exclude one another and may stop half way.  A request   *)
(* that two of them decided, or one of them abandoned, is contested: from  *)
(* then on it may be decided anew and its effect is anybody's guess, but   *)
(* it is never pending again, and no other request feels it.               *)
(*                                                                         *)
(* The detailed modules are compared with this one by a refinement         *)
(* mapping; none of this module is a translation of one function.          *)
(***************************************************************************)
EXTENDS Naturals

CONSTANT Requests          \* identities of request documents

Decisions == {"APPROVED", "REJECTED", "CANCELLED"}

VARIABLES
    state,      \* [Requests -> "NONE", "PENDING" or a decision]
    binding,    \* the requests whose approval has an effect to apply
    applied,    \* [Requests -> how many times it was applied]
    contested   \* the requests that two handlers decided or one abandoned

absVars == <<state, binding, applied, contested>>

WorkflowInit ==
    /\ state = [r \in Requests |-> "NONE"]
    /\ binding = {}
    /\ applied = [r \in Requests |-> 0]
    /\ contested = {}

Submit(r) ==
    /\ state[r] = "NONE"
    /\ state' = [state EXCEPT ![r] = "PENDING"]
    /\ binding' \in {binding, binding \cup {r}}
    /\ UNCHANGED <<applied, contested>>

Decide(r, decision) ==
    /\ state[r] = "PENDING"
    /\ state' = [state EXCEPT ![r] = decision]
    /\ applied' = IF decision = "APPROVED" /\ r \in binding
                  THEN [applied EXCEPT ![r] = @ + 1]
                  ELSE applied
    /\ UNCHANGED <<binding, contested>>

Contest(r) ==
    /\ state[r] # "NONE"
    /\ state'[r] \in Decisions \cup {state[r]}
    /\ state' = [state EXCEPT ![r] = state'[r]]
    /\ applied' = [applied EXCEPT ![r] = applied'[r]]
    /\ contested' = contested \cup {r}
    /\ UNCHANGED binding

WorkflowNext ==
    \E r \in Requests :
        \/ Submit(r)
        \/ \E d \in Decisions : Decide(r, d)
        \/ Contest(r)

WorkflowSpec == WorkflowInit /\ [][WorkflowNext]_absVars
=========================================================================
