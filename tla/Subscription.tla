---------------------------- MODULE Subscription ----------------------------
(***************************************************************************)
(* A company's plan and subscription: CompaniesService, PlansService and   *)
(* the SubscriptionGuard that admits the company's users.  The requests    *)
(* about a company touch one document, which is the one modelled here.     *)
(*                                                                         *)
(* Left out: isPaid and the descriptive fields, which nothing reads, and   *)
(* the audit log.                                                          *)
(***************************************************************************)
EXTENDS Serving

CONSTANTS
    Plans,          \* the plan documents
    Asked,          \* bound: the subscription statuses the clients ask for
    LastDate,       \* bound: the dates are 1..LastDate
    NoPlan

SubStatuses == {"TRIAL", "ACTIVE", "PAST_DUE", "EXPIRED", "CANCELLED", "SUSPENDED"}
CompanyStatuses == {"ACTIVE", "SUSPENDED", "TRIAL", "EXPIRED"}
Dates == 1..LastDate
NoDate == 0

ASSUME SubscriptionAssumption ==
    /\ NoPlan \notin Plans
    /\ Asked \subseteq SubStatuses
    /\ LastDate \in Nat

Terms == [start : Dates \cup {NoDate}, end : Dates \cup {NoDate}, status : SubStatuses]
Term(s, e, st) == [start |-> s, end |-> e, status |-> st]

SubscriptionPCs == {"idle", "buy", "extend", "renew"}
\* "decided": the admin named an end date or a status; "extended": it came
\* from extendSubscription; "kept": end and status are as read.
Kinds == {"decided", "extended", "kept"}
SubscriptionWorks == [plan : Plans \cup {NoPlan}, term : Terms, kind : Kinds]
Deal(p, t, k) == [plan |-> p, term |-> t, kind |-> k]

VARIABLES
    companyStatus,  \* company.status
    planId,         \* company.planId
    term,           \* company.subscription
    onSale,         \* plans whose isActive is true
    \* history, for the properties only
    overridden,     \* activate or suspend wrote the status of the company last
    behind,         \* handlers that read the company before another wrote it
    promised,       \* the end date the last extension granted, or NoDate
    lost            \* a handler that was behind wrote over that extension

subscriptionVars ==
    <<companyStatus, planId, term, onSale, overridden, behind, promised, lost>>

\* createCompany(), with a plan that is active or without one.
SubscriptionInit ==
    /\ companyStatus = "TRIAL"
    /\ planId \in Plans \cup {NoPlan}
    /\ term = Term(NoDate, NoDate, "TRIAL")
    /\ onSale = Plans
    /\ overridden = FALSE
    /\ behind = {}
    /\ promised = NoDate
    /\ lost = FALSE

-----------------------------------------------------------------------------
(* SubscriptionGuard *)

\* What the guard looks at: the status and the end of the subscription.  The
\* status of the company counts only without one, and there always is one.
Barred == {"SUSPENDED", "EXPIRED", "CANCELLED"}
Served(t, day) ==
    /\ t.status \notin Barred
    /\ t.end # NoDate => t.end >= day
ServedUntil(t, day) == \A d \in 1..day : Served(t, d)

-----------------------------------------------------------------------------
(* CompaniesService *)

\* mapSubscriptionToCompanyStatus()
StatusFor(s) ==
    CASE s = "TRIAL" -> "TRIAL"
      [] s \in {"EXPIRED", "CANCELLED"} -> "EXPIRED"
      [] s = "SUSPENDED" -> "SUSPENDED"
      [] OTHER -> "ACTIVE"

InOrder(t) == t.start # NoDate /\ t.end # NoDate => t.end > t.start

\* activateCompany(), suspendCompany()
SetStatus(h, s) ==
    /\ AtOnce(h)
    /\ companyStatus' = s
    /\ overridden' = TRUE
    /\ UNCHANGED <<planId, term, onSale, behind, promised, lost>>

\* updateCompany(): the dto may name a plan, which is not looked up.
UpdateCompany(h, p) ==
    /\ AtOnce(h)
    /\ planId' = p
    /\ UNCHANGED <<companyStatus, term, onSale, overridden, behind, promised, lost>>

\* assignPlan(): the plan is active when it is read ...
AssignPlanRead(h, p, s, e) ==
    /\ p \in onSale
    /\ e > s
    /\ Enter(h, "buy", Deal(p, Term(s, e, "ACTIVE"), "decided"))
    /\ UNCHANGED subscriptionVars

\* ... updateSubscription(): what the dto leaves out is as read; NoDate and
\* NoStatus stand for what it leaves out ...
NoStatus == "none"
Amended(s, e, st) ==
    Term(IF s = NoDate THEN term.start ELSE s,
         IF e = NoDate THEN term.end ELSE e,
         IF st = NoStatus THEN term.status ELSE st)
UpdateSubscriptionRead(h, s, e, st) ==
    /\ planId # NoPlan
    /\ InOrder(Amended(s, e, st))
    /\ Enter(h, "renew", Deal(NoPlan, Amended(s, e, st),
             IF e = NoDate /\ st = NoStatus THEN "kept" ELSE "decided"))
    /\ UNCHANGED subscriptionVars

\* ... extendSubscription(): the new end is later than the one read, and then
\* updateSubscription() reads the company again.
ExtendRead(h, e) ==
    /\ e > term.end                 \* NoDate is below every date
    /\ Enter(h, "extend", Deal(NoPlan, Term(NoDate, e, "ACTIVE"), "extended"))
    /\ UNCHANGED subscriptionVars
ExtendReread(h) ==
    LET t == Amended(NoDate, work[h].term.end, "ACTIVE") IN
    /\ pc[h] = "extend"
    /\ IF planId # NoPlan /\ InOrder(t)
       THEN Goto(h, "renew", Deal(NoPlan, t, "extended")) /\ UNCHANGED behind
       ELSE Leave(h) /\ behind' = behind \ {h}
    /\ UNCHANGED <<companyStatus, planId, term, onSale, overridden, promised, lost>>

\* The company is written: the subscription as a whole, the status with it,
\* and the plan when it was bought.
Later(d, e) == IF d > e THEN d ELSE e
StoreTerm_KeepStatus(h) ==
    LET w == work[h] IN
    /\ pc[h] \in {"buy", "renew"}
    /\ term' = w.term
    /\ planId' = IF pc[h] = "buy" THEN w.plan ELSE planId
    /\ overridden' = FALSE
    /\ behind' = Waiting({"buy", "extend", "renew"}) \ {h}
    /\ Leave(h)
    /\ UNCHANGED <<companyStatus, onSale, promised, lost>>
StoreTerm(h) ==
    LET w == work[h]
        p == IF w.kind = "decided" THEN NoDate
             ELSE IF w.kind = "kept" THEN promised
             ELSE IF h \in behind THEN Later(promised, w.term.end) ELSE w.term.end
    IN
    /\ pc[h] \in {"buy", "renew"}
    /\ term' = w.term
    /\ companyStatus' = StatusFor(w.term.status)
    /\ planId' = IF pc[h] = "buy" THEN w.plan ELSE planId
    /\ overridden' = FALSE
    /\ behind' = Waiting({"buy", "extend", "renew"}) \ {h}
    /\ promised' = p
    /\ lost' = /\ lost \/ h \in behind
               /\ ~ServedUntil(w.term, p)
    /\ Leave(h)
    /\ UNCHANGED onSale

-----------------------------------------------------------------------------
(* PlansService *)

\* update() of isActive, softDelete(): companies that have the plan keep it.
SetOnSale(h, p, on) ==
    /\ AtOnce(h)
    /\ onSale' = IF on THEN onSale \cup {p} ELSE onSale \ {p}
    /\ UNCHANGED <<companyStatus, planId, term, overridden, behind, promised, lost>>

SubscriptionFail(h) ==
    /\ Abandoned(h)
    /\ behind' = behind \ {h}
    /\ UNCHANGED <<companyStatus, planId, term, onSale, overridden, promised, lost>>

SubscriptionNext ==
    \E h \in Handlers :
        \/ \E s \in {"ACTIVE", "SUSPENDED"} : SetStatus(h, s)
        \/ \E p \in Plans : \/ UpdateCompany(h, p)
                            \/ \E s, e \in Dates : AssignPlanRead(h, p, s, e)
                            \/ \E on \in BOOLEAN : SetOnSale(h, p, on)
        \/ \E s, e \in Dates \cup {NoDate}, st \in Asked \cup {NoStatus} :
               UpdateSubscriptionRead(h, s, e, st)
        \/ \E e \in Dates : ExtendRead(h, e)
        \/ ExtendReread(h)
        \/ StoreTerm(h)
        \/ SubscriptionFail(h)

SubscriptionSpec == ServingInit /\ SubscriptionInit /\ [][SubscriptionNext]_<<pc, work, subscriptionVars>>

-----------------------------------------------------------------------------
(* Properties *)

SubscriptionTypeOK ==
    /\ \A h \in Handlers : /\ pc[h] \in SubscriptionPCs
                           /\ pc[h] # "idle" => work[h] \in SubscriptionWorks
    /\ companyStatus \in CompanyStatuses
    /\ planId \in Plans \cup {NoPlan}
    /\ term \in Terms
    /\ onSale \subseteq Plans
    /\ overridden \in BOOLEAN /\ lost \in BOOLEAN
    /\ behind \subseteq Handlers
    /\ promised \in Dates \cup {NoDate}

\* An extension that was granted keeps the company served until the date it
\* granted, until an admin decides otherwise, unless a handler that had read
\* the company before writes the older subscription over it.  And the status
\* of the company is the one that goes with its subscription, unless it was
\* activated or suspended since.
SubscriptionExplained ==
    /\ ServedUntil(term, promised) \/ lost
    /\ companyStatus = StatusFor(term.status) \/ overridden

=============================================================================
