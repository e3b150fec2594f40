------------------------------ MODULE Policies ------------------------------
(***************************************************************************)
(* CompanyPoliciesService and PayrollService.updatePayrollPolicy: the      *)
(* versions of a company's policy.  A version is a copy of the one with    *)
(* the latest effectiveFrom, with some parts changed; the one in effect is *)
(* the last to have come into effect.                                      *)
(*                                                                         *)
(* A part of a version is the number of the version that changed it, 0 for *)
(* the default policy.  Left out: what the parts say, and requests refused *)
(* for what they ask or for the features of the plan.                      *)
(***************************************************************************)
EXTENDS Serving

CONSTANTS
    MaxVersions,    \* bound: how many versions are stored
    LastInstant     \* bound: the clock and effectiveFrom are 1..LastInstant

ASSUME PoliciesAssumption == MaxVersions \in Nat /\ LastInstant \in Nat \ {0}

Instants == 1..LastInstant

\* "att": mode and uniform schedule; "rest": the rest-day fields the payroll
\* page edits; "calc": the other payroll fields.
Parts == {"att", "calc", "rest"}
Values == [Parts -> 0..MaxVersions]
DefaultPolicy == [p \in Parts |-> 0]
Versions == [from : Instants, value : Values]

PolicyPCs == {"idle", "merge", "version"}
\* sets: the parts the dto sets; given: the values other parts are set to;
\* base: the version copied; seen: how many versions there were.
PolicyWorks == [sets : SUBSET Parts, given : Values, from : Instants,
                base : Values, seen : 0..MaxVersions]

VARIABLES
    clock,          \* new Date()
    policies,       \* the versions, in the order they were stored
    \* history, for the properties only
    changed,        \* [i |-> the parts that version i was to change]
    disordered      \* a version was stored that does not come into effect after
                    \* all earlier ones, or was copied before another was stored

policyVars == <<clock, policies, changed, disordered>>

PolicyInit ==
    /\ clock = 1
    /\ policies = <<>>
    /\ changed = <<>>
    /\ disordered = FALSE

-----------------------------------------------------------------------------
(* CompanyPoliciesRepository: among versions of one instant the order is    *)
(* the database's.                                                         *)

LastAmong(I) == {i \in I : \A j \in I : policies[j].from <= policies[i].from}
ValuesOf(I) == IF I = {} THEN {DefaultPolicy} ELSE {policies[i].value : i \in I}

\* findEffectiveAt()
Due(t) == {i \in DOMAIN policies : policies[i].from <= t}
EffectiveAt(t) == ValuesOf(LastAmong(Due(t)))
\* findLatest()
Latest == ValuesOf(LastAmong(DOMAIN policies))

-----------------------------------------------------------------------------
(* updateAttendancePolicy() and updatePayrollPolicy() of the policies       *)

Edit(b, g, parts, from) ==
    [sets |-> parts, given |-> g, from |-> from, base |-> b, seen |-> Len(policies)]

\* The latest version is copied, with the parts of the dto changed.
EditRead_FromEffective(h, parts, from) ==
    /\ Len(policies) < MaxVersions
    /\ \E b \in EffectiveAt(clock) : Enter(h, "version", Edit(b, b, parts, from))
    /\ UNCHANGED policyVars
EditRead(h, parts, from) ==
    /\ Len(policies) < MaxVersions
    /\ \E b \in Latest : Enter(h, "version", Edit(b, b, parts, from))
    /\ UNCHANGED policyVars

\* PayrollService.updatePayrollPolicy(): the rest-day fields are merged into
\* the payroll fields of the policy in effect, and these go into a copy of the
\* latest version from now on.
MergeRead(h) ==
    /\ Len(policies) < MaxVersions
    /\ \E g \in EffectiveAt(clock) :
         Enter(h, "merge", Edit(DefaultPolicy, g, {"rest"}, clock))
    /\ UNCHANGED policyVars
MergeCopy(h) ==
    LET w == work[h] IN
    /\ pc[h] = "merge"
    /\ \E b \in Latest :
         Goto(h, "version", [w EXCEPT !.base = b, !.given.att = b.att])
    /\ UNCHANGED policyVars

\* createVersion(): the copy is stored.
StoreVersion(h) ==
    LET w == work[h]
        n == Len(policies) + 1
        v == [p \in Parts |-> IF p \in w.sets THEN n ELSE w.given[p]]
    IN
    /\ pc[h] = "version"
    /\ Len(policies) < MaxVersions
    /\ policies' = Append(policies, [from |-> w.from, value |-> v])
    /\ changed' = Append(changed, w.sets)
    /\ disordered' = \/ disordered
                     \/ w.seen # Len(policies)
                     \/ \E i \in DOMAIN policies : policies[i].from >= w.from
    /\ Leave(h)
    /\ UNCHANGED clock

ClockTick ==
    /\ clock < LastInstant
    /\ clock' = clock + 1
    /\ UNCHANGED <<pc, work, policies, changed, disordered>>

PolicyFail(h) ==
    /\ Abandoned(h)
    /\ UNCHANGED policyVars

PolicyNext ==
    \/ \E h \in Handlers :
         \/ \E parts \in {{"att"}, {"calc", "rest"}}, from \in Instants :
                EditRead(h, parts, from)
         \/ MergeRead(h)
         \/ MergeCopy(h)
         \/ StoreVersion(h)
         \/ PolicyFail(h)
    \/ ClockTick

PolicySpec == ServingInit /\ PolicyInit /\ [][PolicyNext]_<<pc, work, policyVars>>

-----------------------------------------------------------------------------
(* Properties *)

PolicyTypeOK ==
    /\ \A h \in Handlers : /\ pc[h] \in PolicyPCs
                           /\ pc[h] # "idle" => work[h] \in PolicyWorks
    /\ clock \in Instants
    /\ \A i \in DOMAIN policies : policies[i] \in Versions
    /\ DOMAIN changed = DOMAIN policies
    /\ disordered \in BOOLEAN

\* The last version, up to i, that was to change a part; 0 for none.
Greatest(C) == IF C = {} THEN 0 ELSE CHOOSE j \in C : \A k \in C : k <= j
LastChange(i, p) == Greatest({j \in 1..i : p \in changed[j]})

\* What is in effect at any instant holds the last change that is due of every
\* part, as long as each version comes into effect after all earlier ones and
\* none was copied before another was stored.
PolicyKeepsChanges ==
    disordered \/ \A t \in Instants : \A v \in EffectiveAt(t), p \in Parts :
                      v[p] = LastChange(Cardinality(Due(t)), p)

=============================================================================
