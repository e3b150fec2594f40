---------------------------- MODULE OfficeProofs ----------------------------
(* The components that only share the server's handlers, one desk each:      *)
(* what a component keeps alone, it keeps at its desk.  Then the router: the  *)
(* table of routes, one controller at a time, and who is answered.            *)
EXTENDS MCOffice, CompanyProofs, WorkTimeProofs

\* What each component keeps, at its desk.
AtDesks ==
    /\ desk = "sessions" => SessionTypes /\ Followed
    /\ desk = "subscription" => SubscriptionTypes /\ Kept
    /\ desk = "overtime" => OvertimeTypes /\ Informed
    /\ desk = "branches" => BranchTypes /\ Quota
    /\ desk = "shifts" => ShiftShape /\ Rosters
    /\ desk = "policies" => PolicyShape /\ Versioned
    /\ desk = "clock" => PunchShape /\ ByDay
    /\ desk = "pay" => PayInv

LEMMA AtDesksInit == Init => AtDesks
<1> SUFFICES ASSUME Init PROVE AtDesks
  OBVIOUS
<1>1. /\ ServingInit /\ SessionInit /\ SubscriptionInit /\ OvertimeInit /\ BranchInit
      /\ ShiftInit /\ PolicyInit /\ PunchInit /\ PayInit
  BY DEF Init
<1> QED
  BY <1>1, SessionTypesInit, FollowedInit, SubscriptionTypesInit, KeptInit,
     OvertimeTypesInit, InformedInit, BranchTypesInit, QuotaInit, ShiftStart,
     PolicyStart, PunchStart, PayStart
     DEF AtDesks

LEMMA AtDesksNext == AtDesks /\ [Next]_vars => AtDesks'
<1> SUFFICES ASSUME AtDesks, [Next]_vars PROVE AtDesks'
  OBVIOUS
<1>1. desk' = desk
  BY DEF Next, vars
<1>2. CASE desk = "sessions"
  <2>1. [SessionNext]_<<pc, work, sessionVars>>
    BY <1>2 DEF Next, vars
  <2> QED  BY <1>1, <1>2, <2>1, SessionTypesNext, FollowedNext DEF AtDesks
<1>3. CASE desk = "subscription"
  <2>1. [SubscriptionNext]_<<pc, work, subscriptionVars>>
    BY <1>3 DEF Next, vars
  <2> QED  BY <1>1, <1>3, <2>1, SubscriptionTypesNext, KeptNext DEF AtDesks
<1>4. CASE desk = "overtime"
  <2>1. [OvertimeNext]_<<pc, work, otVars>>
    BY <1>4 DEF Next, vars
  <2> QED  BY <1>1, <1>4, <2>1, OvertimeTypesNext, InformedNext DEF AtDesks
<1>5. CASE desk = "branches"
  <2>1. [BranchNext]_<<pc, work, branchVars>>
    BY <1>5 DEF Next, vars
  <2> QED  BY <1>1, <1>5, <2>1, BranchTypesNext, QuotaNext DEF AtDesks
<1>6. CASE desk = "shifts"
  <2>1. [ShiftNext]_<<pc, work, shiftVars>>
    BY <1>6 DEF Next, vars
  <2> QED  BY <1>1, <1>6, <2>1, ShiftKeeps DEF AtDesks
<1>7. CASE desk = "policies"
  <2>1. [PolicyNext]_<<pc, work, policyVars>>
    BY <1>7 DEF Next, vars
  <2> QED  BY <1>1, <1>7, <2>1, PolicyNextKeeps DEF AtDesks
<1>8. CASE desk = "clock"
  <2>1. [PunchNext]_<<pc, work, punchVars>>
    BY <1>8 DEF Next, vars
  <2> QED  BY <1>1, <1>8, <2>1, PunchKeeps DEF AtDesks
<1>9. CASE desk = "pay"
  <2>1. [Generate]_payVars
    BY <1>9 DEF Next, vars
  <2> QED  BY <1>1, <1>9, <2>1, PayNext DEF AtDesks
<1> QED  BY <1>1, <1>2, <1>3, <1>4, <1>5, <1>6, <1>7, <1>8, <1>9 DEF AtDesks

\* Every desk keeps the types of what it reads and writes, whatever the
\* requests at it are and in whichever order they are served.
THEOREM OfficeTypeCorrect == Spec => []OfficeTypeOK
<1>1. AtDesks => OfficeTypeOK
  BY ShiftTyped, PolicyTyped, PunchTyped
     DEF AtDesks, OfficeTypeOK, SessionTypes, SubscriptionTypes, OvertimeTypes, BranchTypes
<1> QED  BY <1>1, AtDesksInit, AtDesksNext, PTL DEF Spec

\* What a desk promises its clients.
OfficePromise ==
    /\ desk = "sessions" => SessionsFollowPassword
    /\ desk = "subscription" => SubscriptionExplained
    /\ desk = "overtime" => OvertimeExplained
    /\ desk = "branches" => BranchQuotaExplained
    /\ desk = "shifts" => OneShiftADay
    /\ desk = "policies" => PolicyKeepsChanges
    /\ desk = "clock" => RecordsAddUp
    /\ desk = "pay" => PayAddsUp

\* And it keeps its promise: the rule of its component, with the races and the
\* failures that the rule allows for.
THEOREM OfficeCorrect == Spec => []OfficePromise
<1>1. Followed => SessionsFollowPassword
  BY DEF Followed, Follows, SessionsFollowPassword
<1>2. Kept => SubscriptionExplained
  BY DEF Kept
<1>3. Informed => OvertimeExplained
  BY DEF Informed, OvertimeExplained, Decided, Told, Within
<1>4. Quota => BranchQuotaExplained
  BY DEF Quota
<1>5. AtDesks => OfficePromise
  BY <1>1, <1>2, <1>3, <1>4, RostersKept, PolicyKept, RecordsKept, PayKept
     DEF AtDesks, OfficePromise
<1> QED  BY <1>5, AtDesksInit, AtDesksNext, PTL DEF Spec

\* The overtime desk decides every request once, and the other desks leave its
\* requests alone.
LEMMA OfficeFlowStep == AtDesks /\ [Next]_vars => [OvertimeFlow!WorkflowNext]_(OvertimeFlow!absVars)
<1> SUFFICES ASSUME AtDesks, [Next]_vars
             PROVE  [OvertimeFlow!WorkflowNext]_<<otStatus, otRaced>>
  BY DEF OvertimeFlow!absVars
<1>1. CASE desk = "overtime"
  <2>1. [OvertimeNext]_<<pc, work, otVars>>
    BY <1>1 DEF Next, vars
  <2> QED  BY <1>1, <2>1, OvertimeFlowStep DEF AtDesks
<1>2. CASE desk # "overtime"
  <2>1. UNCHANGED otVars
    BY <1>2 DEF Next, vars
  <2> QED  BY <2>1 DEF otVars
<1> QED  BY <1>1, <1>2

\* So whichever desks are open, overtime requests follow the abstract workflow.
THEOREM OfficeOvertime == Spec => ImplementsOvertime
<1>1. Init => OvertimeFlow!WorkflowInit
  BY OvertimeFlowInit DEF Init
<1> QED
  BY <1>1, AtDesksInit, AtDesksNext, OfficeFlowStep, PTL
     DEF Spec, ImplementsOvertime, OvertimeFlow!WorkflowSpec

-----------------------------------------------------------------------------
(* One handler at a time: the excuses that races give are not taken.        *)

OneAtATime == \A g, h \in Handlers : g = h

\* A request has one decision, and the entry that records it.
DecidedOnce ==
    \A r \in Filed :
        \/ otStatus[r] = "PENDING" /\ otFirst[r] = NoRequest /\ otFlow[r] = <<>>
        \/ otStatus[r] = otFirst[r]
           /\ otFlow[r] = IF otFirst[r] = "CANCELLED" THEN <<>> ELSE <<otFirst[r]>>

LEMMA NoneBehind ==
    ASSUME OneAtATime, otBehind = {}, otRaced = {}, [OvertimeNext]_<<pc, work, otVars>>
    PROVE  otBehind' = {} /\ otRaced' = {}
<1> USE DEF OneAtATime, otVars, Waiting
<1>1. ASSUME NEW h \in Handlers, NEW n \in OTHours, UpdatePolicy(h, n)
      PROVE  otBehind' = {} /\ otRaced' = {}
  BY <1>1 DEF UpdatePolicy, AtOnce
<1>2. ASSUME NEW h \in Handlers, NEW e \in OTStaff, NEW n \in OTHours, RequestRead(h, e, n)
      PROVE  otBehind' = {} /\ otRaced' = {}
  BY <1>2 DEF RequestRead
<1>3. ASSUME NEW h \in Handlers, NEW r \in OTRequests, NEW d \in {"APPROVED", "REJECTED"},
             DecideRead(h, r, d)
      PROVE  otBehind' = {} /\ otRaced' = {}
  BY <1>3 DEF DecideRead
<1>4. ASSUME NEW h \in Handlers, NEW e \in OTStaff, NEW r \in OTRequests, CancelRead(h, e, r)
      PROVE  otBehind' = {} /\ otRaced' = {}
  BY <1>4 DEF CancelRead
<1>5. ASSUME NEW h \in Handlers, RequestStore(h) PROVE otBehind' = {} /\ otRaced' = {}
  BY <1>5 DEF RequestStore
<1>6. ASSUME NEW h \in Handlers, Announce(h) PROVE otBehind' = {} /\ otRaced' = {}
  BY <1>6 DEF Announce
<1>7. ASSUME NEW h \in Handlers, DecideStore(h) PROVE otBehind' = {} /\ otRaced' = {}
  BY <1>7 DEF DecideStore
<1>8. ASSUME NEW h \in Handlers, OvertimeFail(h) PROVE otBehind' = {} /\ otRaced' = {}
  BY <1>8 DEF OvertimeFail
<1> QED  BY <1>1, <1>2, <1>3, <1>4, <1>5, <1>6, <1>7, <1>8 DEF OvertimeNext

\* Served one at a time, and even when handlers fail, an overtime request is
\* decided once and its approvals say how (OTService approve, reject, cancel).
THEOREM OvertimeAlone == OneAtATime /\ OvertimeSpec => []DecidedOnce
<1> SUFFICES ASSUME OneAtATime PROVE OvertimeSpec => []DecidedOnce
  OBVIOUS
<1>1. OvertimeInit => otBehind = {} /\ otRaced = {}
  BY DEF OvertimeInit
<1>2. (otBehind = {} /\ otRaced = {}) /\ [OvertimeNext]_<<pc, work, otVars>>
          => (otBehind = {} /\ otRaced = {})'
  BY NoneBehind
<1>3. otRaced = {} /\ OvertimeExplained => DecidedOnce
  BY DEF OvertimeExplained, DecidedOnce
<1> QED  BY <1>1, <1>2, <1>3, OvertimeCorrect, PTL DEF OvertimeSpec

LEMMA NothingLost ==
    ASSUME OneAtATime, behind = {}, ~lost, [SubscriptionNext]_<<pc, work, subscriptionVars>>
    PROVE  behind' = {} /\ ~lost'
<1> USE DEF OneAtATime, subscriptionVars, Waiting
<1>1. ASSUME NEW h \in Handlers, StoreTerm(h) PROVE behind' = {} /\ ~lost'
  BY <1>1 DEF StoreTerm
<1>2. ASSUME NEW h \in Handlers, ExtendReread(h) PROVE behind' = {} /\ ~lost'
  BY <1>2 DEF ExtendReread
<1>3. ASSUME NEW h \in Handlers, SubscriptionFail(h) PROVE behind' = {} /\ ~lost'
  BY <1>3 DEF SubscriptionFail
<1>4. CASE UNCHANGED <<behind, lost>>
  BY <1>4
<1>5. ASSUME NEW h \in Handlers, NEW s \in {"ACTIVE", "SUSPENDED"}, SetStatus(h, s)
      PROVE  UNCHANGED <<behind, lost>>
  BY <1>5 DEF SetStatus
<1>6. ASSUME NEW h \in Handlers, NEW p \in Plans,
             \/ UpdateCompany(h, p)
             \/ \E s, e \in Dates : AssignPlanRead(h, p, s, e)
             \/ \E on \in BOOLEAN : SetOnSale(h, p, on)
      PROVE  UNCHANGED <<behind, lost>>
  BY <1>6 DEF UpdateCompany, AssignPlanRead, SetOnSale
<1>7. ASSUME NEW h \in Handlers, NEW b \in Dates \cup {NoDate}, NEW e \in Dates \cup {NoDate},
             NEW st \in Asked \cup {NoStatus}, UpdateSubscriptionRead(h, b, e, st)
      PROVE  UNCHANGED <<behind, lost>>
  BY <1>7 DEF UpdateSubscriptionRead
<1>8. ASSUME NEW h \in Handlers, NEW e \in Dates, ExtendRead(h, e)
      PROVE  UNCHANGED <<behind, lost>>
  BY <1>8 DEF ExtendRead
<1> QED
  BY <1>1, <1>2, <1>3, <1>4, <1>5, <1>6, <1>7, <1>8 DEF SubscriptionNext

\* Served one at a time, an extension that was granted is never taken back but
\* by an admin's decision (extendSubscription, updateSubscription, assignPlan).
THEOREM ExtensionAlone == OneAtATime /\ SubscriptionSpec => []ServedUntil(term, promised)
<1> SUFFICES ASSUME OneAtATime PROVE SubscriptionSpec => []ServedUntil(term, promised)
  OBVIOUS
<1>1. SubscriptionInit => behind = {} /\ ~lost
  BY DEF SubscriptionInit
<1>2. (behind = {} /\ ~lost) /\ [SubscriptionNext]_<<pc, work, subscriptionVars>>
          => (behind = {} /\ ~lost)'
  BY NothingLost
<1>3. ~lost /\ SubscriptionExplained => ServedUntil(term, promised)
  BY DEF SubscriptionExplained
<1> QED  BY <1>1, <1>2, <1>3, SubscriptionCorrect, PTL DEF SubscriptionSpec

\* The copy a handler works on is of the versions there are, and a version out
\* of order shows in the instants themselves.
CopiesCurrent ==
    /\ \A h \in Handlers : pc[h] # "idle" => work[h].seen = Len(policies)
    /\ disordered => ~Ordered

LEMMA CopyCurrent ==
    ASSUME OneAtATime, PolicyShape, CopiesCurrent, NEW h \in Handlers,
           NEW to \in PolicyPCs, NEW w, Goto(h, to, w), UNCHANGED policyVars,
           to # "idle" => w \in PolicyWorks /\ w.seen = Len(policies)
    PROVE  CopiesCurrent'
<1>1. pc'[h] = to /\ (to # "idle" => work'[h] = w)
  BY PolicyGoto
<1> QED  BY <1>1 DEF OneAtATime, CopiesCurrent, policyVars, Ordered

LEMMA EditCurrent ==
    ASSUME OneAtATime, PolicyShape, CopiesCurrent, NEW h \in Handlers,
           NEW to \in PolicyPCs, NEW b \in Values, NEW g \in Values,
           NEW parts \in SUBSET Parts, NEW from \in Instants,
           Goto(h, to, Edit(b, g, parts, from)), UNCHANGED policyVars
    PROVE  CopiesCurrent'
BY CopyCurrent, EditFields

LEMMA MergeCurrent ==
    ASSUME OneAtATime, PolicyShape, CopiesCurrent, NEW h \in Handlers, MergeCopy(h)
    PROVE  CopiesCurrent'
<1>1. PICK w : w = work[h]
  OBVIOUS
<1>2. PICK b \in Latest : Goto(h, "version", [w EXCEPT !.base = b, !.given.att = b.att])
  BY <1>1, ZenonT(60) DEF MergeCopy
<1>3. w \in PolicyWorks /\ w.seen = Len(policies) /\ b \in Values
  BY <1>1, <1>2, ValuesTyped DEF MergeCopy, PolicyShape, CopiesCurrent, Latest, LastAmong
<1>4. [w.given EXCEPT !.att = b.att] \in Values
  BY <1>3, PolicyFields DEF Values, Parts
<1>5. PICK v : v = [w EXCEPT !.base = b, !.given.att = b.att]
  OBVIOUS
<1>6. v \in PolicyWorks /\ v.seen = Len(policies)
  BY <1>3, <1>4, <1>5 DEF PolicyWorks
<1>7. Goto(h, "version", v)
  BY <1>2, <1>5
<1> QED  BY <1>6, <1>7, CopyCurrent DEF MergeCopy, PolicyPCs

LEMMA CopiesStayCurrent ==
    ASSUME OneAtATime, PolicyShape, CopiesCurrent, [PolicyNext]_<<pc, work, policyVars>>
    PROVE  CopiesCurrent'
<1>1. ASSUME NEW h \in Handlers, NEW parts \in {{"att"}, {"calc", "rest"}},
             NEW from \in Instants, EditRead(h, parts, from)
      PROVE  CopiesCurrent'
  <2>1. PICK b \in Latest : Goto(h, "version", Edit(b, b, parts, from))
    BY <1>1 DEF EditRead, Enter
  <2>2. b \in Values /\ parts \in SUBSET Parts
    BY <2>1, ValuesTyped DEF Latest, LastAmong, Parts
  <2> QED  BY <1>1, <2>1, <2>2, EditCurrent DEF EditRead, PolicyPCs
<1>2. ASSUME NEW h \in Handlers, MergeRead(h) PROVE CopiesCurrent'
  <2>1. PICK g \in EffectiveAt(clock) :
           Goto(h, "merge", Edit(DefaultPolicy, g, {"rest"}, clock))
    BY <1>2 DEF MergeRead, Enter
  <2>2. g \in Values
    BY <2>1, ValuesTyped DEF EffectiveAt, LastAmong, Due
  <2>3. {"rest"} \in SUBSET Parts /\ clock \in Instants /\ DefaultPolicy \in Values
    BY DefaultFields DEF Parts, PolicyShape
  <2> QED  BY <1>2, <2>1, <2>2, <2>3, EditCurrent DEF MergeRead, PolicyPCs
<1>3. ASSUME NEW h \in Handlers, MergeCopy(h) PROVE CopiesCurrent'
  BY <1>3, MergeCurrent
<1>4. ASSUME NEW h \in Handlers, StoreVersion(h) PROVE CopiesCurrent'
  <2>1. \A g \in Handlers : pc'[g] = "idle"
    BY <1>4, PolicyGoto DEF StoreVersion, Leave, OneAtATime, PolicyPCs
  <2>2. ASSUME disordered' PROVE ~Ordered'
    <3>1. PICK n : n = Len(policies) /\ n \in Nat /\ DOMAIN policies = 1..n
      BY VersionFields
    <3>2. work[h].seen = n /\ work[h].from \in Nat
      BY <1>4, <3>1, PolicyFields, PoliciesAssumption
      DEF StoreVersion, CopiesCurrent, PolicyShape, Instants
    <3>3. PICK new : policies' = Append(policies, new) /\ new.from = work[h].from
      BY <1>4 DEF StoreVersion
    <3>4. /\ DOMAIN policies' = 1..n+1 /\ policies'[n + 1] = new
          /\ \A i \in 1..n : policies'[i] = policies[i]
      BY <3>1, <3>3 DEF PolicyShape
    <3>5. CASE disordered
      <4>1. PICK i, j \in 1..n : i < j /\ ~(policies[i].from < policies[j].from)
        BY <3>1, <3>5 DEF Ordered, CopiesCurrent
      <4> QED  BY <3>1, <3>4, <4>1 DEF Ordered
    <3>6. CASE ~disordered
      <4>1. PICK i \in 1..n : policies[i].from >= work[h].from
        BY <1>4, <2>2, <3>1, <3>2, <3>6 DEF StoreVersion
      <4>2. policies[i].from \in Nat
        BY <3>1, VersionFields
      <4>3. i \in 1..n+1 /\ n + 1 \in 1..n+1 /\ i < n + 1
        BY <3>1
      <4>4. policies'[i] = policies[i] /\ policies'[n + 1].from = work[h].from
        BY <3>3, <3>4
      <4>5. ~(policies'[i].from < policies'[n + 1].from)
        BY <3>2, <4>1, <4>2, <4>4
      <4> QED  BY <3>4, <4>3, <4>5 DEF Ordered
    <3> QED  BY <3>5, <3>6
  <2> QED  BY <2>1, <2>2 DEF CopiesCurrent
<1>5. ASSUME NEW h \in Handlers, PolicyFail(h) PROVE CopiesCurrent'
  BY <1>5, CopyCurrent DEF PolicyFail, Abandoned, Leave, PolicyPCs
<1>6. CASE ClockTick
  BY <1>6 DEF ClockTick, CopiesCurrent, Ordered
<1>7. CASE UNCHANGED <<pc, work, policyVars>>
  BY <1>7 DEF CopiesCurrent, Ordered, policyVars
<1> QED  BY <1>1, <1>2, <1>3, <1>4, <1>5, <1>6, <1>7 DEF PolicyNext

\* Edited by one request at a time, and even when some fail, a policy whose
\* versions were each made to come into effect after the one before holds, at
\* every instant, the last change that is due of every part (createVersion of
\* CompanyPoliciesService, updatePayrollPolicy of PayrollService).
THEOREM PolicyAlone ==
    OneAtATime /\ PolicySpec =>
        [](Ordered => \A t \in Instants : \A v \in EffectiveAt(t), p \in Parts :
                          v[p] = LastChange(Cardinality(Due(t)), p))
<1> DEFINE Goal == Ordered => \A t \in Instants : \A v \in EffectiveAt(t), p \in Parts :
                                  v[p] = LastChange(Cardinality(Due(t)), p)
<1> SUFFICES ASSUME OneAtATime PROVE PolicySpec => []Goal
  OBVIOUS
<1>1. ServingInit /\ PolicyInit => PolicyShape /\ Versioned /\ CopiesCurrent
  BY PolicyStart DEF ServingInit, PolicyInit, CopiesCurrent
<1>2. PolicyShape /\ Versioned /\ CopiesCurrent /\ [PolicyNext]_<<pc, work, policyVars>>
          => (PolicyShape /\ Versioned /\ CopiesCurrent)'
  BY PolicyNextKeeps, CopiesStayCurrent
<1>3. CopiesCurrent /\ PolicyKeepsChanges => Goal
  BY DEF CopiesCurrent, PolicyKeepsChanges
<1> HIDE DEF Goal
<1> QED  BY <1>1, <1>2, <1>3, PolicyChangesKept, PTL DEF PolicySpec

-----------------------------------------------------------------------------
(* The routes *)

\* A path as a proof sees it, and what makes it one: no word of it is the "id"
\* that a client sends for a parameter.
Size(p) == Len(p)
IsPath(p) == \E W : p \in Seq(W) /\ "id" \notin W
Prefixed(p, q) == p \o q

OfPlans(features) == features \subseteq Features
IsRoute(r) == IsPath(r.path) /\ OfPlans(r.features)

\* Whatever request comes to q alone comes to r instead where r is declared first.
Covers(r, q) ==
    /\ r.method = q.method
    /\ Size(r.path) = Size(q.path)
    /\ \A k \in 1..Size(q.path) : r.path[k] \in {q.path[k], P}
Listed(s) ==
    /\ \E R : s \in Seq(R)
    /\ \A i \in 1..Len(s) : IsRoute(s[i])
    /\ \A i, j \in 1..Len(s) : j < i => ~Covers(s[j], s[i])
HeadsIn(s, W) == \A i \in 1..Len(s) : Size(s[i].path) >= 1 /\ s[i].path[1] \in W
Under(s, W) == Listed(s) /\ HeadsIn(s, W)

\* The routes by the number of words in their paths.
Bare(r, m) == IsRoute(r) /\ r.method = m /\ Size(r.path) = 0
One(r, m, a) == IsRoute(r) /\ r.method = m /\ Size(r.path) = 1 /\ r.path[1] = a
Two(r, m, a, b) ==
    IsRoute(r) /\ r.method = m /\ Size(r.path) = 2 /\ r.path[1] = a /\ r.path[2] = b
Three(r, m, a, b, c) ==
    /\ IsRoute(r) /\ r.method = m /\ Size(r.path) = 3
    /\ r.path[1] = a /\ r.path[2] = b /\ r.path[3] = c
Four(r, m, a, b, c, d) ==
    /\ IsRoute(r) /\ r.method = m /\ Size(r.path) = 4
    /\ r.path[1] = a /\ r.path[2] = b /\ r.path[3] = c /\ r.path[4] = d

\* The two controllers that share a first word are told apart by these.
EmployeeKinds(s) ==
    \A i \in 1..Len(s) :
        /\ Size(s[i].path) <= 2
        /\ s[i].method = "GET" /\ Size(s[i].path) = 2 => s[i].path[2] = "documents"
ShiftKinds(s) ==
    \A i \in 1..Len(s) : s[i].path[1] = "employees" =>
        \/ Size(s[i].path) = 4
        \/ Size(s[i].path) = 3 /\ s[i].method = "GET" /\ s[i].path[3] = "shift"

\* Paths of up to four words.
LEMMA Paths ==
    /\ IsPath(<<>>)
    /\ \A a : a # "id" => IsPath(<<a>>)
    /\ \A a, b : a # "id" /\ b # "id" => IsPath(<<a, b>>)
    /\ \A a, b, c : a # "id" /\ b # "id" /\ c # "id" => IsPath(<<a, b, c>>)
    /\ \A a, b, c, d :
         a # "id" /\ b # "id" /\ c # "id" /\ d # "id" => IsPath(<<a, b, c, d>>)
<1>1. ASSUME NEW W, "id" \notin W, NEW p \in Seq(W) PROVE IsPath(p)
  BY <1>1 DEF IsPath
<1>2. IsPath(<<>>)
  BY <1>1, <<>> \in Seq({}), "id" \notin {}
<1>3. ASSUME NEW a, a # "id" PROVE IsPath(<<a>>)
  BY <1>1, <1>3, <<a>> \in Seq({a}), "id" \notin {a}
<1>4. ASSUME NEW a, NEW b, a # "id", b # "id" PROVE IsPath(<<a, b>>)
  BY <1>1, <1>4, <<a, b>> \in Seq({a, b}), "id" \notin {a, b}
<1>5. ASSUME NEW a, NEW b, NEW c, a # "id", b # "id", c # "id" PROVE IsPath(<<a, b, c>>)
  BY <1>1, <1>5, <<a, b, c>> \in Seq({a, b, c}), "id" \notin {a, b, c}
<1>6. ASSUME NEW a, NEW b, NEW c, NEW d, a # "id", b # "id", c # "id", d # "id"
      PROVE  IsPath(<<a, b, c, d>>)
  BY <1>1, <1>6, <<a, b, c, d>> \in Seq({a, b, c, d}), "id" \notin {a, b, c, d}
<1> QED  BY <1>2, <1>3, <1>4, <1>5, <1>6

\* What the decorators make is a route.
LEMMA RouteMade ==
    ASSUME NEW m, NEW p, IsPath(p), NEW x
    PROVE  IsRoute(Route(m, p, x)) /\ Route(m, p, x).method = m /\ Route(m, p, x).path = p
BY DEF Route, Featured, IsRoute, OfPlans

LEMMA OpenMade ==
    ASSUME NEW m, NEW p, IsPath(p)
    PROVE  IsRoute(Open(m, p)) /\ Open(m, p).method = m /\ Open(m, p).path = p
BY DEF Open, IsRoute, OfPlans

LEMMA FeaturedMade ==
    ASSUME NEW m, NEW p, IsPath(p), NEW x, NEW f, OfPlans(f)
    PROVE  /\ IsRoute(Featured(m, p, x, f))
           /\ Featured(m, p, x, f).method = m /\ Featured(m, p, x, f).path = p
BY DEF Featured, IsRoute

LEMMA Made ==
    ASSUME NEW m, NEW x
    PROVE  /\ Bare(Route(m, <<>>, x), m)
           /\ \A a : a # "id" => One(Route(m, <<a>>, x), m, a)
           /\ \A a, b : a # "id" /\ b # "id" => Two(Route(m, <<a, b>>, x), m, a, b)
           /\ \A a, b, c : a # "id" /\ b # "id" /\ c # "id" =>
                 Three(Route(m, <<a, b, c>>, x), m, a, b, c)
           /\ \A a, b, c, d : a # "id" /\ b # "id" /\ c # "id" /\ d # "id" =>
                 Four(Route(m, <<a, b, c, d>>, x), m, a, b, c, d)
<1>1. Bare(Route(m, <<>>, x), m)
  BY Paths, RouteMade DEF Bare, Size, P
<1>2. ASSUME NEW a, a # "id" PROVE One(Route(m, <<a>>, x), m, a)
  BY <1>2, Paths, RouteMade DEF One, Size
<1>3. ASSUME NEW a, a # "id", NEW b, b # "id" PROVE Two(Route(m, <<a, b>>, x), m, a, b)
  BY <1>3, Paths, RouteMade DEF Two, Size
<1>4. ASSUME NEW a, a # "id", NEW b, b # "id", NEW c, c # "id"
      PROVE  Three(Route(m, <<a, b, c>>, x), m, a, b, c)
  BY <1>4, Paths, RouteMade DEF Three, Size
<1>5. ASSUME NEW a, a # "id", NEW b, b # "id", NEW c, c # "id", NEW d, d # "id"
      PROVE  Four(Route(m, <<a, b, c, d>>, x), m, a, b, c, d)
  BY <1>5, Paths, RouteMade DEF Four, Size
<1> QED  BY <1>1, <1>2, <1>3, <1>4, <1>5

LEMMA Opened ==
    ASSUME NEW m
    PROVE  /\ Bare(Open(m, <<>>), m)
           /\ \A a : a # "id" => One(Open(m, <<a>>), m, a)
<1>1. Bare(Open(m, <<>>), m)
  BY Paths, OpenMade DEF Bare, Size
<1>2. ASSUME NEW a, a # "id" PROVE One(Open(m, <<a>>), m, a)
  BY <1>2, Paths, OpenMade DEF One, Size
<1> QED  BY <1>1, <1>2

LEMMA MadeFeatured ==
    ASSUME NEW m, NEW a, a # "id", NEW x, NEW f, OfPlans(f)
    PROVE  One(Featured(m, <<a>>, x, f), m, a)
<1>1. IsPath(<<a>>)
  BY Paths
<1> QED  BY <1>1, FeaturedMade DEF One, Size


-----------------------------------------------------------------------------
(* The controllers, one at a time: within each no route stands in the way of  *)
(* a later one.                                                               *)

LEMMA AuthListed == Listed(AuthRoutes)
<1> SUFFICES ASSUME NEW s, s = AuthRoutes PROVE Listed(s)
  OBVIOUS
<1>1. \E R : s \in Seq(R)
  <2>1. s \in Seq({s[i] : i \in 1..5})
    BY DEF AuthRoutes
  <2> QED  BY <2>1
<1>2. /\ Len(s) = 5 /\ One(s[1], "POST", "login") /\ One(s[2], "POST", "refresh")
     /\ One(s[3], "POST", "logout") /\ One(s[4], "GET", "me")
     /\ One(s[5], "POST", "change-password")
  BY Made, Opened DEF AuthRoutes, P
<1>3. ASSUME NEW i \in 1..5, NEW j \in 1..5, j < i, Covers(s[j], s[i]) PROVE FALSE
  BY <1>2, <1>3 DEF Covers, P, One
<1> QED  BY <1>1, <1>2, <1>3 DEF Listed, One

LEMMA CompanyListed == Listed(CompanyRoutes)
<1> SUFFICES ASSUME NEW s, s = CompanyRoutes PROVE Listed(s)
  OBVIOUS
<1>1. \E R : s \in Seq(R)
  <2>1. s \in Seq({s[i] : i \in 1..12})
    BY DEF CompanyRoutes
  <2> QED  BY <2>1
<1>2. /\ Len(s) = 12 /\ Bare(s[1], "POST") /\ Bare(s[2], "GET") /\ One(s[3], "GET", P)
     /\ One(s[4], "PATCH", P) /\ Two(s[5], "POST", P, "activate")
     /\ Two(s[6], "POST", P, "suspend") /\ Two(s[7], "POST", P, "create-owner")
     /\ Two(s[8], "POST", P, "assign-plan") /\ Two(s[9], "PATCH", P, "subscription")
     /\ Three(s[10], "POST", P, "subscription", "extend")
     /\ Two(s[11], "GET", P, "usage") /\ Two(s[12], "GET", "dashboard", "stats")
  BY Made DEF CompanyRoutes, P
<1>3. ASSUME NEW i \in 1..12, NEW j \in 1..12, j < i, Covers(s[j], s[i]) PROVE FALSE
  BY <1>2, <1>3, SMTT(60) DEF Covers, P, Bare, One, Two, Three
<1> QED  BY <1>1, <1>2, <1>3 DEF Listed, Bare, One, Two, Three

LEMMA BranchListed == Listed(BranchRoutes)
<1> SUFFICES ASSUME NEW s, s = BranchRoutes PROVE Listed(s)
  OBVIOUS
<1>1. \E R : s \in Seq(R)
  <2>1. s \in Seq({s[i] : i \in 1..8})
    BY DEF BranchRoutes
  <2> QED  BY <2>1
<1>2. /\ Len(s) = 8 /\ Bare(s[1], "POST") /\ Bare(s[2], "GET") /\ One(s[3], "GET", P)
     /\ One(s[4], "PATCH", P) /\ One(s[5], "DELETE", P)
     /\ Two(s[6], "POST", P, "activate") /\ Two(s[7], "POST", P, "deactivate")
     /\ Two(s[8], "POST", P, "manager")
  BY Made DEF BranchRoutes, P
<1>3. ASSUME NEW i \in 1..8, NEW j \in 1..8, j < i, Covers(s[j], s[i]) PROVE FALSE
  BY <1>2, <1>3, SMTT(60) DEF Covers, P, Bare, One, Two
<1> QED  BY <1>1, <1>2, <1>3 DEF Listed, Bare, One, Two

LEMMA DepartmentListed == Listed(DepartmentRoutes)
<1> SUFFICES ASSUME NEW s, s = DepartmentRoutes PROVE Listed(s)
  OBVIOUS
<1>1. \E R : s \in Seq(R)
  <2>1. s \in Seq({s[i] : i \in 1..5})
    BY DEF DepartmentRoutes
  <2> QED  BY <2>1
<1>2. /\ Len(s) = 5 /\ Bare(s[1], "POST") /\ Bare(s[2], "GET") /\ One(s[3], "GET", P)
     /\ One(s[4], "PATCH", P) /\ One(s[5], "DELETE", P)
  BY Made DEF DepartmentRoutes, P
<1>3. ASSUME NEW i \in 1..5, NEW j \in 1..5, j < i, Covers(s[j], s[i]) PROVE FALSE
  BY <1>2, <1>3 DEF Covers, P, Bare, One
<1> QED  BY <1>1, <1>2, <1>3 DEF Listed, Bare, One

LEMMA PositionListed == Listed(PositionRoutes)
<1> SUFFICES ASSUME NEW s, s = PositionRoutes PROVE Listed(s)
  OBVIOUS
<1>1. \E R : s \in Seq(R)
  <2>1. s \in Seq({s[i] : i \in 1..5})
    BY DEF PositionRoutes
  <2> QED  BY <2>1
<1>2. /\ Len(s) = 5 /\ Bare(s[1], "POST") /\ Bare(s[2], "GET") /\ One(s[3], "GET", P)
     /\ One(s[4], "PATCH", P) /\ One(s[5], "DELETE", P)
  BY Made DEF PositionRoutes, P
<1>3. ASSUME NEW i \in 1..5, NEW j \in 1..5, j < i, Covers(s[j], s[i]) PROVE FALSE
  BY <1>2, <1>3 DEF Covers, P, Bare, One
<1> QED  BY <1>1, <1>2, <1>3 DEF Listed, Bare, One

LEMMA EmployeeListed == Listed(EmployeeRoutes) /\ EmployeeKinds(EmployeeRoutes)
<1> SUFFICES ASSUME NEW s, s = EmployeeRoutes PROVE Listed(s) /\ EmployeeKinds(s)
  OBVIOUS
<1>1. \E R : s \in Seq(R)
  <2>1. s \in Seq({s[i] : i \in 1..12})
    BY DEF EmployeeRoutes
  <2> QED  BY <2>1
<1>2. /\ Len(s) = 12 /\ Bare(s[1], "POST") /\ Bare(s[2], "GET") /\ One(s[3], "GET", P)
     /\ One(s[4], "PATCH", "me") /\ One(s[5], "PATCH", P)
     /\ Two(s[6], "PATCH", P, "role") /\ One(s[7], "DELETE", P)
     /\ Two(s[8], "POST", P, "deactivate") /\ Two(s[9], "POST", P, "reactivate")
     /\ Two(s[10], "POST", P, "upload-document") /\ Two(s[11], "GET", P, "documents")
     /\ Two(s[12], "PATCH", P, "password")
  BY Made DEF EmployeeRoutes, P
<1>3. ASSUME NEW i \in 1..12, NEW j \in 1..12, j < i, Covers(s[j], s[i]) PROVE FALSE
  BY <1>2, <1>3, SMTT(60) DEF Covers, P, Bare, One, Two
<1> QED  BY <1>1, <1>2, <1>3 DEF Listed, EmployeeKinds, Bare, One, Two

LEMMA ShiftListed == Under(ShiftRoutes, {"shifts", "employees"}) /\ ShiftKinds(ShiftRoutes)
<1> SUFFICES ASSUME NEW s, s = ShiftRoutes PROVE Under(s, {"shifts", "employees"}) /\ ShiftKinds(s)
  OBVIOUS
<1>1. \E R : s \in Seq(R)
  <2>1. s \in Seq({s[i] : i \in 1..9})
    BY DEF ShiftRoutes
  <2> QED  BY <2>1
<1>2. /\ Len(s) = 9 /\ One(s[1], "POST", "shifts") /\ One(s[2], "GET", "shifts")
     /\ Two(s[3], "GET", "shifts", P) /\ Two(s[4], "PATCH", "shifts", P)
     /\ Two(s[5], "DELETE", "shifts", P) /\ Three(s[6], "POST", "shifts", P, "assign")
     /\ Three(s[7], "GET", "employees", P, "shift")
     /\ Four(s[8], "GET", "employees", P, "shift", "history")
     /\ Two(s[9], "POST", "shifts", "bulk-assign")
  BY Made DEF ShiftRoutes, P
<1>3. ASSUME NEW i \in 1..9, NEW j \in 1..9, j < i, Covers(s[j], s[i]) PROVE FALSE
  BY <1>2, <1>3, SMTT(60) DEF Covers, P, One, Two, Three, Four
<1> QED  BY <1>1, <1>2, <1>3 DEF Under, Listed, HeadsIn, ShiftKinds, One, Two, Three, Four

LEMMA HolidayListed == Listed(HolidayRoutes)
<1> SUFFICES ASSUME NEW s, s = HolidayRoutes PROVE Listed(s)
  OBVIOUS
<1>1. \E R : s \in Seq(R)
  <2>1. s \in Seq({s[i] : i \in 1..5})
    BY DEF HolidayRoutes
  <2> QED  BY <2>1
<1>2. /\ Len(s) = 5 /\ Bare(s[1], "POST") /\ Bare(s[2], "GET") /\ One(s[3], "GET", P)
     /\ One(s[4], "PATCH", P) /\ One(s[5], "DELETE", P)
  BY Made DEF HolidayRoutes, P
<1>3. ASSUME NEW i \in 1..5, NEW j \in 1..5, j < i, Covers(s[j], s[i]) PROVE FALSE
  BY <1>2, <1>3 DEF Covers, P, Bare, One
<1> QED  BY <1>1, <1>2, <1>3 DEF Listed, Bare, One

LEMMA DeviceListed == Listed(DeviceRoutes)
<1> SUFFICES ASSUME NEW s, s = DeviceRoutes PROVE Listed(s)
  OBVIOUS
<1>1. \E R : s \in Seq(R)
  <2>1. s \in Seq({s[i] : i \in 1..2})
    BY DEF DeviceRoutes
  <2> QED  BY <2>1
<1>2. /\ Len(s) = 2 /\ One(s[1], "POST", "register-token")
     /\ One(s[2], "POST", "remove-token")
  BY Made DEF DeviceRoutes, P
<1>3. ASSUME NEW i \in 1..2, NEW j \in 1..2, j < i, Covers(s[j], s[i]) PROVE FALSE
  BY <1>2, <1>3 DEF Covers, P, One
<1> QED  BY <1>1, <1>2, <1>3 DEF Listed, One

LEMMA PunchListed ==
    Under(PunchRoutes, {"check-in", "check-out", "my-today", "my-history"})
<1> SUFFICES ASSUME NEW s, s = PunchRoutes
             PROVE  Under(s, {"check-in", "check-out", "my-today", "my-history"})
  OBVIOUS
<1>1. \E R : s \in Seq(R)
  <2>1. s \in Seq({s[i] : i \in 1..4})
    BY DEF PunchRoutes
  <2> QED  BY <2>1
<1>2. /\ Len(s) = 4 /\ One(s[1], "POST", "check-in") /\ One(s[2], "POST", "check-out")
     /\ One(s[3], "GET", "my-today") /\ One(s[4], "GET", "my-history")
  BY Made DEF PunchRoutes, P
<1>3. ASSUME NEW i \in 1..4, NEW j \in 1..4, j < i, Covers(s[j], s[i]) PROVE FALSE
  BY <1>2, <1>3 DEF Covers, P, One
<1> QED  BY <1>1, <1>2, <1>3 DEF Under, Listed, HeadsIn, One

LEMMA AttendanceReportListed == Under(AttendanceReportRoutes, {"report", P})
<1> SUFFICES ASSUME NEW s, s = AttendanceReportRoutes PROVE Under(s, {"report", P})
  OBVIOUS
<1>1. \E R : s \in Seq(R)
  <2>1. s \in Seq({s[i] : i \in 1..9})
    BY DEF AttendanceReportRoutes
  <2> QED  BY <2>1
<1>2. /\ Len(s) = 9 /\ Two(s[1], "GET", "report", "daily")
     /\ Two(s[2], "GET", "report", "monthly") /\ Two(s[3], "GET", "report", "late")
     /\ Two(s[4], "GET", "report", "absent") /\ Two(s[5], "GET", "report", "summary")
     /\ Two(s[6], "GET", "report", "not-checked-in")
     /\ Four(s[7], "GET", "report", "employee", P, "monthly") /\ One(s[8], "GET", P)
     /\ Two(s[9], "PATCH", P, "adjust")
  BY Made DEF AttendanceReportRoutes, P
<1>3. ASSUME NEW i \in 1..9, NEW j \in 1..9, j < i, Covers(s[j], s[i]) PROVE FALSE
  BY <1>2, <1>3, SMTT(60) DEF Covers, P, One, Two, Four
<1> QED  BY <1>1, <1>2, <1>3 DEF Under, Listed, HeadsIn, One, Two, Four

LEMMA OutsideWorkListed == Listed(OutsideWorkRoutes)
<1> SUFFICES ASSUME NEW s, s = OutsideWorkRoutes PROVE Listed(s)
  OBVIOUS
<1>1. \E R : s \in Seq(R)
  <2>1. s \in Seq({s[i] : i \in 1..7})
    BY DEF OutsideWorkRoutes
  <2> QED  BY <2>1
<1>2. /\ Len(s) = 7 /\ One(s[1], "POST", "request") /\ One(s[2], "GET", "my")
     /\ One(s[3], "GET", "pending") /\ One(s[4], "GET", "report") /\ One(s[5], "GET", P)
     /\ Two(s[6], "POST", P, "approve") /\ Two(s[7], "POST", P, "reject")
  BY Made DEF OutsideWorkRoutes, P
<1>3. ASSUME NEW i \in 1..7, NEW j \in 1..7, j < i, Covers(s[j], s[i]) PROVE FALSE
  BY <1>2, <1>3 DEF Covers, P, One, Two
<1> QED  BY <1>1, <1>2, <1>3 DEF Listed, One, Two

LEMMA LeaveTypeListed == Under(LeaveTypeRoutes, {"leave-types"})
<1> SUFFICES ASSUME NEW s, s = LeaveTypeRoutes PROVE Under(s, {"leave-types"})
  OBVIOUS
<1>1. \E R : s \in Seq(R)
  <2>1. s \in Seq({s[i] : i \in 1..4})
    BY DEF LeaveTypeRoutes
  <2> QED  BY <2>1
<1>2. /\ Len(s) = 4 /\ One(s[1], "POST", "leave-types")
     /\ One(s[2], "GET", "leave-types") /\ Two(s[3], "PATCH", "leave-types", P)
     /\ Two(s[4], "DELETE", "leave-types", P)
  BY Made DEF LeaveTypeRoutes, P
<1>3. ASSUME NEW i \in 1..4, NEW j \in 1..4, j < i, Covers(s[j], s[i]) PROVE FALSE
  BY <1>2, <1>3 DEF Covers, P, One, Two
<1> QED  BY <1>1, <1>2, <1>3 DEF Under, Listed, HeadsIn, One, Two

LEMMA LeaveRequestListed == Under(LeaveRequestRoutes, {"leave"})
<1> SUFFICES ASSUME NEW s, s = LeaveRequestRoutes PROVE Under(s, {"leave"})
  OBVIOUS
<1>1. \E R : s \in Seq(R)
  <2>1. s \in Seq({s[i] : i \in 1..11})
    BY DEF LeaveRequestRoutes
  <2> QED  BY <2>1
<1>2. /\ Len(s) = 11 /\ Two(s[1], "POST", "leave", "request")
     /\ Two(s[2], "GET", "leave", "my") /\ Two(s[3], "GET", "leave", "pending")
     /\ Two(s[4], "GET", "leave", "report")
     /\ Three(s[5], "GET", "leave", "balance", "my")
     /\ Three(s[6], "GET", "leave", "balance", P)
     /\ Three(s[7], "PATCH", "leave", "balance", P) /\ Two(s[8], "GET", "leave", P)
     /\ Three(s[9], "POST", "leave", P, "approve")
     /\ Three(s[10], "POST", "leave", P, "reject")
     /\ Three(s[11], "POST", "leave", P, "cancel")
  BY Made DEF LeaveRequestRoutes, P
<1>3. ASSUME NEW i \in 1..11, NEW j \in 1..11, j < i, Covers(s[j], s[i]) PROVE FALSE
  BY <1>2, <1>3, SMTT(60) DEF Covers, P, Two, Three
<1> QED  BY <1>1, <1>2, <1>3 DEF Under, Listed, HeadsIn, Two, Three

LEMMA OTListed == Listed(OTRoutes)
<1> SUFFICES ASSUME NEW s, s = OTRoutes PROVE Listed(s)
  OBVIOUS
<1>1. \E R : s \in Seq(R)
  <2>1. s \in Seq({s[i] : i \in 1..10})
    BY DEF OTRoutes
  <2> QED  BY <2>1
<1>2. /\ Len(s) = 10 /\ One(s[1], "GET", "policy") /\ One(s[2], "PATCH", "policy")
     /\ One(s[3], "POST", "request") /\ One(s[4], "GET", "my")
     /\ One(s[5], "GET", "pending") /\ One(s[6], "GET", "report") /\ One(s[7], "GET", P)
     /\ Two(s[8], "POST", P, "approve") /\ Two(s[9], "POST", P, "reject")
     /\ Two(s[10], "POST", P, "cancel")
  BY Made DEF OTRoutes, P
<1>3. ASSUME NEW i \in 1..10, NEW j \in 1..10, j < i, Covers(s[j], s[i]) PROVE FALSE
  BY <1>2, <1>3, SMTT(60) DEF Covers, P, One, Two
<1> QED  BY <1>1, <1>2, <1>3 DEF Listed, One, Two

LEMMA NotificationListed == Listed(NotificationRoutes)
<1> SUFFICES ASSUME NEW s, s = NotificationRoutes PROVE Listed(s)
  OBVIOUS
<1>1. \E R : s \in Seq(R)
  <2>1. s \in Seq({s[i] : i \in 1..4})
    BY DEF NotificationRoutes
  <2> QED  BY <2>1
<1>2. /\ Len(s) = 4 /\ Bare(s[1], "GET") /\ One(s[2], "GET", "unread-count")
     /\ Two(s[3], "POST", P, "read") /\ One(s[4], "POST", "read-all")
  BY Made DEF NotificationRoutes, P
<1>3. ASSUME NEW i \in 1..4, NEW j \in 1..4, j < i, Covers(s[j], s[i]) PROVE FALSE
  BY <1>2, <1>3 DEF Covers, P, Bare, One, Two
<1> QED  BY <1>1, <1>2, <1>3 DEF Listed, Bare, One, Two

LEMMA AnnouncementListed == Listed(AnnouncementRoutes)
<1> SUFFICES ASSUME NEW s, s = AnnouncementRoutes PROVE Listed(s)
  OBVIOUS
<1>1. \E R : s \in Seq(R)
  <2>1. s \in Seq({s[i] : i \in 1..8})
    BY DEF AnnouncementRoutes
  <2> QED  BY <2>1
<1>2. /\ Len(s) = 8 /\ Bare(s[1], "POST") /\ Bare(s[2], "GET")
     /\ Two(s[3], "GET", "mobile", "feed") /\ One(s[4], "GET", P)
     /\ One(s[5], "PATCH", P) /\ One(s[6], "DELETE", P)
     /\ Two(s[7], "POST", P, "publish") /\ Two(s[8], "POST", P, "read")
  BY Made DEF AnnouncementRoutes, P
<1>3. ASSUME NEW i \in 1..8, NEW j \in 1..8, j < i, Covers(s[j], s[i]) PROVE FALSE
  BY <1>2, <1>3, SMTT(60) DEF Covers, P, Bare, One, Two
<1> QED  BY <1>1, <1>2, <1>3 DEF Listed, Bare, One, Two

LEMMA ReportListed == Listed(ReportRoutes)
<1> SUFFICES ASSUME NEW s, s = ReportRoutes PROVE Listed(s)
  OBVIOUS
<1>1. \E R : s \in Seq(R)
  <2>1. s \in Seq({s[i] : i \in 1..9})
    BY DEF ReportRoutes
  <2> QED  BY <2>1
<1>2. /\ Len(s) = 9 /\ Two(s[1], "GET", "attendance", "daily")
     /\ Two(s[2], "GET", "attendance", "monthly")
     /\ Two(s[3], "GET", "attendance", "late")
     /\ Two(s[4], "GET", "attendance", "absent")
     /\ Two(s[5], "GET", "attendance", "missing-checkout")
     /\ Two(s[6], "GET", "leave", "summary") /\ Two(s[7], "GET", "leave", "balance")
     /\ Two(s[8], "GET", "ot", "summary") /\ Two(s[9], "GET", "ot", "cost")
  BY Made DEF ReportRoutes, P
<1>3. ASSUME NEW i \in 1..9, NEW j \in 1..9, j < i, Covers(s[j], s[i]) PROVE FALSE
  BY <1>2, <1>3, SMTT(60) DEF Covers, P, Two
<1> QED  BY <1>1, <1>2, <1>3 DEF Listed, Two

LEMMA TaxConfigListed == Listed(TaxConfigRoutes)
<1> SUFFICES ASSUME NEW s, s = TaxConfigRoutes PROVE Listed(s)
  OBVIOUS
<1>1. \E R : s \in Seq(R)
  <2>1. s \in Seq({s[i] : i \in 1..8})
    BY DEF TaxConfigRoutes
  <2> QED  BY <2>1
<1>2. /\ Len(s) = 8 /\ Bare(s[1], "POST") /\ Bare(s[2], "GET")
     /\ One(s[3], "GET", "current") /\ One(s[4], "PATCH", P)
     /\ One(s[5], "GET", "company") /\ One(s[6], "PUT", "company")
     /\ One(s[7], "GET", "companies") /\ Two(s[8], "PUT", "companies", P)
  BY Made DEF TaxConfigRoutes, P
<1>3. ASSUME NEW i \in 1..8, NEW j \in 1..8, j < i, Covers(s[j], s[i]) PROVE FALSE
  BY <1>2, <1>3, SMTT(60) DEF Covers, P, Bare, One, Two
<1> QED  BY <1>1, <1>2, <1>3 DEF Listed, Bare, One, Two

LEMMA PlanListed == Listed(PlanRoutes)
<1> SUFFICES ASSUME NEW s, s = PlanRoutes PROVE Listed(s)
  OBVIOUS
<1>1. \E R : s \in Seq(R)
  <2>1. s \in Seq({s[i] : i \in 1..5})
    BY DEF PlanRoutes
  <2> QED  BY <2>1
<1>2. /\ Len(s) = 5 /\ Bare(s[1], "POST") /\ Bare(s[2], "GET") /\ One(s[3], "GET", P)
     /\ One(s[4], "PATCH", P) /\ One(s[5], "DELETE", P)
  BY Made DEF PlanRoutes, P
<1>3. ASSUME NEW i \in 1..5, NEW j \in 1..5, j < i, Covers(s[j], s[i]) PROVE FALSE
  BY <1>2, <1>3 DEF Covers, P, Bare, One
<1> QED  BY <1>1, <1>2, <1>3 DEF Listed, Bare, One

LEMMA PeriodListed == Under(PeriodRoutes, {"periods"})
<1> SUFFICES ASSUME NEW s, s = PeriodRoutes PROVE Under(s, {"periods"})
  OBVIOUS
<1>1. \E R : s \in Seq(R)
  <2>1. s \in Seq({s[i] : i \in 1..7})
    BY DEF PeriodRoutes
  <2> QED  BY <2>1
<1>2. /\ Len(s) = 7 /\ One(s[1], "POST", "periods") /\ One(s[2], "GET", "periods")
     /\ Two(s[3], "GET", "periods", P) /\ Three(s[4], "POST", "periods", P, "generate")
     /\ Three(s[5], "POST", "periods", P, "hr-review")
     /\ Three(s[6], "POST", "periods", P, "pay")
     /\ Three(s[7], "GET", "periods", P, "payslips")
  BY Made DEF PeriodRoutes, P
<1>3. ASSUME NEW i \in 1..7, NEW j \in 1..7, j < i, Covers(s[j], s[i]) PROVE FALSE
  BY <1>2, <1>3 DEF Covers, P, One, Two, Three
<1> QED  BY <1>1, <1>2, <1>3 DEF Under, Listed, HeadsIn, One, Two, Three

LEMMA PayslipListed ==
    Under(PayslipRoutes, {"payslips", "employees", "my-payslips", "report", "policy"})
<1> SUFFICES ASSUME NEW s, s = PayslipRoutes
             PROVE  Under(s, {"payslips", "employees", "my-payslips", "report", "policy"})
  OBVIOUS
<1>1. \E R : s \in Seq(R)
  <2>1. s \in Seq({s[i] : i \in 1..10})
    BY DEF PayslipRoutes
  <2> QED  BY <2>1
<1>2. /\ Len(s) = 10 /\ One(s[1], "GET", "payslips") /\ Two(s[2], "GET", "payslips", P)
     /\ Three(s[3], "PATCH", "payslips", P, "adjustments")
     /\ Three(s[4], "GET", "employees", P, "payslips")
     /\ Three(s[5], "GET", "employees", P, "finance-summary")
     /\ One(s[6], "GET", "my-payslips") /\ Two(s[7], "GET", "my-payslips", P)
     /\ One(s[8], "GET", "report") /\ One(s[9], "GET", "policy")
     /\ One(s[10], "PATCH", "policy")
  BY Made DEF PayslipRoutes, P
<1>3. ASSUME NEW i \in 1..10, NEW j \in 1..10, j < i, Covers(s[j], s[i]) PROVE FALSE
  BY <1>2, <1>3, SMTT(60) DEF Covers, P, One, Two, Three
<1> QED  BY <1>1, <1>2, <1>3 DEF Under, Listed, HeadsIn, One, Two, Three

LEMMA PolicyListed == Listed(PolicyRoutes)
<1> SUFFICES ASSUME NEW s, s = PolicyRoutes PROVE Listed(s)
  OBVIOUS
<1>1. \E R : s \in Seq(R)
  <2>1. s \in Seq({s[i] : i \in 1..3})
    BY DEF PolicyRoutes
  <2> QED  BY <2>1
<1>2. /\ Len(s) = 3 /\ Bare(s[1], "GET") /\ One(s[2], "PATCH", "attendance")
     /\ One(s[3], "PATCH", "payroll")
  BY Made, MadeFeatured DEF PolicyRoutes, P, OfPlans, Features
<1>3. ASSUME NEW i \in 1..3, NEW j \in 1..3, j < i, Covers(s[j], s[i]) PROVE FALSE
  BY <1>2, <1>3 DEF Covers, P, Bare, One
<1> QED  BY <1>1, <1>2, <1>3 DEF Listed, Bare, One

LEMMA AdjustmentListed == Listed(AdjustmentRoutes)
<1> SUFFICES ASSUME NEW s, s = AdjustmentRoutes PROVE Listed(s)
  OBVIOUS
<1>1. \E R : s \in Seq(R)
  <2>1. s \in Seq({s[i] : i \in 1..6})
    BY DEF AdjustmentRoutes
  <2> QED  BY <2>1
<1>2. /\ Len(s) = 6 /\ Bare(s[1], "POST") /\ One(s[2], "GET", "my") /\ Bare(s[3], "GET")
     /\ Two(s[4], "POST", P, "cancel") /\ Two(s[5], "POST", P, "approve")
     /\ Two(s[6], "POST", P, "reject")
  BY Made DEF AdjustmentRoutes, P
<1>3. ASSUME NEW i \in 1..6, NEW j \in 1..6, j < i, Covers(s[j], s[i]) PROVE FALSE
  BY <1>2, <1>3 DEF Covers, P, Bare, One, Two
<1> QED  BY <1>1, <1>2, <1>3 DEF Listed, Bare, One, Two

LEMMA DashboardListed == Listed(DashboardRoutes)
<1> SUFFICES ASSUME NEW s, s = DashboardRoutes PROVE Listed(s)
  OBVIOUS
<1>1. \E R : s \in Seq(R)
  <2>1. s \in Seq({s[i] : i \in 1..3})
    BY DEF DashboardRoutes
  <2> QED  BY <2>1
<1>2. /\ Len(s) = 3 /\ One(s[1], "GET", "today-overview")
     /\ One(s[2], "GET", "pending-counts") /\ Bare(s[3], "GET")
  BY Made DEF DashboardRoutes, P
<1>3. ASSUME NEW i \in 1..3, NEW j \in 1..3, j < i, Covers(s[j], s[i]) PROVE FALSE
  BY <1>2, <1>3 DEF Covers, P, Bare, One
<1> QED  BY <1>1, <1>2, <1>3 DEF Listed, Bare, One

LEMMA UploadListed == Listed(UploadRoutes)
<1> SUFFICES ASSUME NEW s, s = UploadRoutes PROVE Listed(s)
  OBVIOUS
<1>1. \E R : s \in Seq(R)
  <2>1. s \in Seq({s[i] : i \in 1..3})
    BY DEF UploadRoutes
  <2> QED  BY <2>1
<1>2. /\ Len(s) = 3 /\ Bare(s[1], "POST") /\ Bare(s[2], "DELETE") /\ Bare(s[3], "PATCH")
  BY Made DEF UploadRoutes, P
<1>3. ASSUME NEW i \in 1..3, NEW j \in 1..3, j < i, Covers(s[j], s[i]) PROVE FALSE
  BY <1>2, <1>3 DEF Covers, P, Bare
<1> QED  BY <1>1, <1>2, <1>3 DEF Listed, Bare

LEMMA HealthListed == Listed(HealthRoutes)
<1> SUFFICES ASSUME NEW s, s = HealthRoutes PROVE Listed(s)
  OBVIOUS
<1>1. \E R : s \in Seq(R)
  <2>1. s \in Seq({s[i] : i \in 1..1})
    BY DEF HealthRoutes
  <2> QED  BY <2>1
<1>2. /\ Len(s) = 1 /\ Bare(s[1], "GET")
  BY Opened DEF HealthRoutes, P
<1>3. ASSUME NEW i \in 1..1, NEW j \in 1..1, j < i, Covers(s[j], s[i]) PROVE FALSE
  BY <1>2, <1>3 DEF Covers, P, Bare
<1> QED  BY <1>1, <1>2, <1>3 DEF Listed, Bare

-----------------------------------------------------------------------------
(* Tables put together *)

LEMMA PartsJoined ==
    ASSUME NEW s, NEW W, Under(s, W), NEW t, NEW V, Under(t, V),
           \A i \in 1..Len(s), j \in 1..Len(t) : ~Covers(s[i], t[j])
    PROVE  Under(s \o t, W \cup V)
<1> DEFINE c == s \o t
<1>1. PICK R, Q : s \in Seq(R) /\ t \in Seq(Q)
  BY DEF Under, Listed
<1>2. s \in Seq(R \cup Q) /\ t \in Seq(R \cup Q)
  BY <1>1
<1>3. /\ c \in Seq(R \cup Q) /\ Len(c) = Len(s) + Len(t) /\ Len(s) \in Nat /\ Len(t) \in Nat
      /\ \A i \in 1..Len(c) : c[i] = IF i <= Len(s) THEN s[i] ELSE t[i - Len(s)]
  BY <1>2
<1> HIDE DEF c
<1>4. ASSUME NEW i \in 1..Len(c)
      PROVE  /\ i <= Len(s) => i \in 1..Len(s) /\ c[i] = s[i]
             /\ i > Len(s) => i - Len(s) \in 1..Len(t) /\ c[i] = t[i - Len(s)]
  BY <1>3
<1>5. ASSUME NEW i \in 1..Len(c) PROVE IsRoute(c[i])
  <2>1. CASE i <= Len(s)
    BY <1>4, <2>1 DEF Under, Listed
  <2>2. CASE i > Len(s)
    BY <1>4, <2>2 DEF Under, Listed
  <2> QED  BY <1>3, <2>1, <2>2
<1>6. HeadsIn(c, W \cup V)
  BY <1>3, <1>4 DEF Under, HeadsIn
<1>7. ASSUME NEW i \in 1..Len(c), NEW j \in 1..Len(c), j < i, Covers(c[j], c[i]) PROVE FALSE
  <2>1. CASE i <= Len(s)
    <3>1. c[i] = s[i] /\ c[j] = s[j] /\ i \in 1..Len(s) /\ j \in 1..Len(s)
      BY <1>3, <1>4, <1>7, <2>1
    <3> QED  BY <1>7, <3>1 DEF Under, Listed
  <2>2. CASE j > Len(s)
    <3>1. /\ c[i] = t[i - Len(s)] /\ c[j] = t[j - Len(s)] /\ j - Len(s) < i - Len(s)
          /\ i - Len(s) \in 1..Len(t) /\ j - Len(s) \in 1..Len(t)
      BY <1>3, <1>4, <1>7, <2>2
    <3> QED  BY <1>7, <3>1 DEF Under, Listed
  <2>3. CASE j <= Len(s) /\ i > Len(s)
    <3>1. /\ c[i] = t[i - Len(s)] /\ c[j] = s[j]
          /\ j \in 1..Len(s) /\ i - Len(s) \in 1..Len(t)
      BY <1>4, <2>3
    <3> QED  BY <1>7, <3>1
  <2> QED  BY <1>3, <2>1, <2>2, <2>3
<1> QED  BY <1>3, <1>5, <1>6, <1>7 DEF Under, Listed, c

\* Tables that share no first word do not get in each other's way.
LEMMA Joined ==
    ASSUME NEW s, NEW W, Under(s, W), NEW t, NEW V, Under(t, V), P \notin W,
           \A w \in W : w \notin V
    PROVE  Under(s \o t, W \cup V)
<1>1. ASSUME NEW i \in 1..Len(s), NEW j \in 1..Len(t), Covers(s[i], t[j]) PROVE FALSE
  <2>1. /\ Size(s[i].path) >= 1 /\ s[i].path[1] \in W
        /\ Size(t[j].path) >= 1 /\ t[j].path[1] \in V
    BY DEF Under, HeadsIn
  <2>2. Size(t[j].path) \in Nat
    <3>1. PICK U : t[j].path \in Seq(U)
      BY DEF Under, Listed, IsRoute, IsPath
    <3> QED  BY <3>1 DEF Size
  <2>3. s[i].path[1] \in {t[j].path[1], P}
    BY <1>1, <2>1, <2>2 DEF Covers
  <2> QED  BY <2>1, <2>3
<1> QED  BY <1>1, PartsJoined

LEMMA NoPath == IsPath(<<>>)
BY Paths

\* What mounting a controller at a prefix does to its paths.
LEMMA JoinedPath ==
    ASSUME NEW p, IsPath(p), NEW q, IsPath(q)
    PROVE  IsPath(Prefixed(p, q))
<1>1. PICK U, W : p \in Seq(U) /\ q \in Seq(W) /\ "id" \notin U /\ "id" \notin W
  BY DEF IsPath
<1> DEFINE V == U \cup W
<1>2. p \o q \in Seq(V) /\ "id" \notin V
  BY <1>1
<1> HIDE DEF V
<1> QED  BY <1>2 DEF IsPath, Prefixed

LEMMA PathsJoined ==
    ASSUME NEW p, IsPath(p), NEW q, IsPath(q)
    PROVE  /\ Size(p) \in Nat /\ Size(q) \in Nat /\ Size(Prefixed(p, q)) = Size(p) + Size(q)
           /\ \A k \in 1..Size(p) : Prefixed(p, q)[k] = p[k]
           /\ \A k \in 1..Size(q) : Prefixed(p, q)[Size(p) + k] = q[k]
<1>1. PICK U, W : p \in Seq(U) /\ q \in Seq(W)
  BY DEF IsPath
<1>2. p \in Seq(U \cup W) /\ q \in Seq(U \cup W)
  BY <1>1
<1> QED  BY <1>2 DEF Size, Prefixed

\* What a controller makes of its routes.
LEMMA Mounts ==
    ASSUME NEW s, Listed(s), NEW prefix, IsPath(prefix), NEW roles,
           NEW features, OfPlans(features), NEW c, c = Controller(prefix, roles, features, s)
    PROVE  /\ (\E R : c \in Seq(R)) /\ Len(c) = Len(s)
           /\ \A i \in 1..Len(s) :
                 /\ IsPath(s[i].path) /\ c[i].path = Prefixed(prefix, s[i].path)
                 /\ c[i].method = s[i].method /\ OfPlans(c[i].features)
<1>1. DOMAIN s = 1..Len(s) /\ Len(s) \in Nat
  BY DEF Listed
<1>2. (\E R : c \in Seq(R)) /\ Len(c) = Len(s)
  <2>1. c = [k \in 1..Len(s) |-> c[k]]
    BY <1>1 DEF Controller
  <2>2. c \in Seq({c[k] : k \in 1..Len(s)}) /\ Len(c) = Len(s)
    BY <1>1, <2>1
  <2> QED  BY <2>2
<1>3. ASSUME NEW i \in 1..Len(s)
      PROVE  /\ IsPath(s[i].path) /\ c[i].path = Prefixed(prefix, s[i].path)
             /\ c[i].method = s[i].method /\ OfPlans(c[i].features)
  <2>1. /\ c[i].method = s[i].method /\ c[i].path = Prefixed(prefix, s[i].path)
        /\ c[i].features \in {s[i].features, features}
    BY <1>1 DEF Controller, Prefixed
  <2>2. IsPath(s[i].path) /\ OfPlans(s[i].features)
    BY DEF Listed, IsRoute
  <2> QED  BY <2>1, <2>2
<1> QED  BY <1>2, <1>3

\* A prefix hides no route that was not hidden.
LEMMA PrefixCovers ==
    ASSUME NEW prefix, IsPath(prefix), NEW r, IsPath(r.path), NEW q, IsPath(q.path),
           NEW a, a.path = Prefixed(prefix, r.path), a.method = r.method,
           NEW b, b.path = Prefixed(prefix, q.path), b.method = q.method,
           Covers(a, b)
    PROVE  Covers(r, q)
<1>1. /\ r.method = q.method /\ Size(r.path) = Size(q.path)
      /\ Size(q.path) \in Nat /\ Size(prefix) \in Nat
  BY PathsJoined DEF Covers
<1>2. ASSUME NEW k \in 1..Size(q.path) PROVE r.path[k] \in {q.path[k], P}
  <2>1. Prefixed(prefix, q.path)[Size(prefix) + k] = q.path[k]
    BY <1>1, PathsJoined
  <2>2. Prefixed(prefix, r.path)[Size(prefix) + k] = r.path[k]
    BY <1>1, PathsJoined
  <2>3. Size(prefix) + k \in 1..Size(b.path)
    BY <1>1, PathsJoined
  <2> QED  BY <2>1, <2>2, <2>3 DEF Covers
<1> QED  BY <1>1, <1>2 DEF Covers

LEMMA MountedListed ==
    ASSUME NEW s, Listed(s), NEW prefix, IsPath(prefix), NEW roles,
           NEW features, OfPlans(features)
    PROVE  Listed(Controller(prefix, roles, features, s))
<1> SUFFICES ASSUME NEW c, c = Controller(prefix, roles, features, s) PROVE Listed(c)
  OBVIOUS
<1>1. /\ (\E R : c \in Seq(R)) /\ Len(c) = Len(s)
      /\ \A i \in 1..Len(s) :
            /\ IsPath(s[i].path) /\ c[i].path = Prefixed(prefix, s[i].path)
            /\ c[i].method = s[i].method /\ OfPlans(c[i].features)
  BY Mounts
<1>2. ASSUME NEW i \in 1..Len(s) PROVE IsRoute(c[i])
  BY <1>1, JoinedPath DEF IsRoute
<1>3. ASSUME NEW i \in 1..Len(s), NEW j \in 1..Len(s), j < i, Covers(c[j], c[i]) PROVE FALSE
  <2>1. Covers(s[j], s[i])
    BY <1>1, <1>3, PrefixCovers
  <2> QED  BY <1>3, <2>1 DEF Listed
<1> QED  BY <1>1, <1>2, <1>3 DEF Listed

LEMMA Mounted ==
    ASSUME NEW s, Listed(s), NEW prefix, IsPath(prefix), Size(prefix) >= 1, NEW roles,
           NEW features, OfPlans(features)
    PROVE  Under(Controller(prefix, roles, features, s), {prefix[1]})
<1> SUFFICES ASSUME NEW c, c = Controller(prefix, roles, features, s)
             PROVE  Under(c, {prefix[1]})
  OBVIOUS
<1>1. Listed(c)
  BY MountedListed
<1>2. /\ Len(c) = Len(s)
      /\ \A i \in 1..Len(s) : IsPath(s[i].path) /\ c[i].path = Prefixed(prefix, s[i].path)
  BY Mounts
<1>3. ASSUME NEW i \in 1..Len(s) PROVE Size(c[i].path) >= 1 /\ c[i].path[1] = prefix[1]
  <2>1. IsPath(s[i].path) /\ c[i].path = Prefixed(prefix, s[i].path)
    BY <1>2
  <2>2. /\ Size(prefix) \in Nat /\ Size(s[i].path) \in Nat
        /\ Size(Prefixed(prefix, s[i].path)) = Size(prefix) + Size(s[i].path)
        /\ \A k \in 1..Size(prefix) : Prefixed(prefix, s[i].path)[k] = prefix[k]
    BY <2>1, PathsJoined
  <2> QED  BY <2>1, <2>2
<1> QED  BY <1>1, <1>2, <1>3 DEF Under, HeadsIn

LEMMA RootMounts ==
    ASSUME NEW s, Listed(s), NEW roles, NEW features, OfPlans(features),
           NEW c, c = Controller(<<>>, roles, features, s)
    PROVE  /\ Len(c) = Len(s)
           /\ \A i \in 1..Len(s) : c[i].path = s[i].path /\ c[i].method = s[i].method
<1>1. PICK none : none = <<>>
  OBVIOUS
<1>2. /\ Len(c) = Len(s)
      /\ \A i \in 1..Len(s) :
            /\ IsPath(s[i].path) /\ c[i].path = Prefixed(none, s[i].path)
            /\ c[i].method = s[i].method
  <2>1. IsPath(none) /\ c = Controller(none, roles, features, s)
    BY <1>1, NoPath
  <2> HIDE <1>1
  <2> QED  BY <2>1, Mounts
<1>3. ASSUME NEW i \in 1..Len(s) PROVE c[i].path = s[i].path
  <2>1. PICK V : s[i].path \in Seq(V)
    BY <1>2 DEF IsPath
  <2> QED  BY <1>1, <1>2, <2>1 DEF Prefixed
<1> QED  BY <1>2, <1>3

LEMMA MountedAtRoot ==
    ASSUME NEW s, NEW W, Under(s, W), NEW roles, NEW features, OfPlans(features)
    PROVE  Under(Controller(<<>>, roles, features, s), W)
<1> SUFFICES ASSUME NEW c, c = Controller(<<>>, roles, features, s) PROVE Under(c, W)
  OBVIOUS
<1>1. Listed(s)
  BY DEF Under
<1>2. Listed(c)
  BY <1>1, NoPath, MountedListed
<1>3. Len(c) = Len(s) /\ \A i \in 1..Len(s) : c[i].path = s[i].path
  BY <1>1, RootMounts
<1> QED  BY <1>2, <1>3 DEF Under, HeadsIn

LEMMA MountedAt ==
    ASSUME NEW s, Listed(s), NEW word, word # "id", NEW roles, NEW features, OfPlans(features)
    PROVE  Under(Controller(<<word>>, roles, features, s), {word})
<1>1. PICK prefix : prefix = <<word>>
  OBVIOUS
<1>2. IsPath(prefix) /\ Size(prefix) >= 1 /\ prefix[1] = word
  BY <1>1, Paths DEF Size
<1>3. Under(Controller(prefix, roles, features, s), {prefix[1]})
  BY <1>2, Mounted
<1> QED  BY <1>1, <1>2, <1>3

LEMMA Unlimited == OfPlans({})
BY DEF OfPlans

LEMMA Limited ==
    /\ OfPlans({"attendance"}) /\ OfPlans({"outsideWork"}) /\ OfPlans({"leave"}) /\ OfPlans({"ot"})
    /\ OfPlans({"announcement"}) /\ OfPlans({"payroll"}) /\ OfPlans({"attendanceAdjustment"})
    /\ OfPlans({"shiftManagement"})
BY DEF OfPlans, Features

LEMMA CompaniesListed ==
    Under(Controller(<<"super", "companies">>, Super, {}, CompanyRoutes), {"super"})
<1>1. PICK prefix : prefix = <<"super", "companies">>
  OBVIOUS
<1>2. IsPath(prefix) /\ Size(prefix) >= 1 /\ prefix[1] = "super"
  BY <1>1, Paths DEF Size
<1>3. Under(Controller(prefix, Super, {}, CompanyRoutes), {prefix[1]})
  BY <1>2, CompanyListed, Unlimited, Mounted
<1> QED  BY <1>1, <1>2, <1>3

LEMMA AttendanceListed == Listed(AttendanceRoutes)
<1>1. Under(AttendanceRoutes,
            {"check-in", "check-out", "my-today", "my-history"} \cup {"report", P})
  BY PunchListed, AttendanceReportListed, Joined DEF AttendanceRoutes, P
<1> QED  BY <1>1 DEF Under

LEMMA PayrollListed == Listed(PayrollRoutes)
<1>1. Under(PayrollRoutes,
            {"periods"} \cup {"payslips", "employees", "my-payslips", "report", "policy"})
  BY PeriodListed, PayslipListed, Joined DEF PayrollRoutes, P
<1> QED  BY <1>1 DEF Under

LEMMA LeaveListed == Under(LeaveRoutes, {"leave-types"} \cup {"leave"})
BY LeaveTypeListed, LeaveRequestListed, Joined DEF LeaveRoutes, P

\* Both have to do with employees, and neither takes what is meant for the other.
LEMMA EmployeesAndShifts ==
    Under(Controller(<<"employees">>, Anyone, {}, EmployeeRoutes) \o
          Controller(<<>>, Anyone, {"shiftManagement"}, ShiftRoutes),
          {"employees", "shifts"})
<1> SUFFICES ASSUME NEW s, Listed(s), EmployeeKinds(s),
                    NEW t, Under(t, {"shifts", "employees"}), ShiftKinds(t),
                    NEW a, a = Controller(<<"employees">>, Anyone, {}, s),
                    NEW b, b = Controller(<<>>, Anyone, {"shiftManagement"}, t)
             PROVE  Under(a \o b, {"employees", "shifts"})
  BY EmployeeListed, ShiftListed
<1>1. Under(a, {"employees"}) /\ Under(b, {"shifts", "employees"})
  BY Unlimited, Limited, MountedAt, MountedAtRoot
<1>2. PICK prefix : prefix = <<"employees">>
  OBVIOUS
<1>3. IsPath(prefix) /\ Size(prefix) = 1 /\ prefix[1] = "employees"
  BY <1>2, Paths DEF Size
<1>4. /\ Len(a) = Len(s)
      /\ \A i \in 1..Len(s) :
            /\ IsPath(s[i].path) /\ a[i].path = Prefixed(prefix, s[i].path)
            /\ a[i].method = s[i].method
  BY <1>2, <1>3, Unlimited, Mounts
<1>5. /\ Len(b) = Len(t)
      /\ \A j \in 1..Len(t) : b[j].path = t[j].path /\ b[j].method = t[j].method
  BY Limited, RootMounts DEF Under
<1>6. ASSUME NEW i \in 1..Len(a), NEW j \in 1..Len(b), Covers(a[i], b[j]) PROVE FALSE
  <2>1. PICK p : p = s[i].path
    OBVIOUS
  <2>2. /\ IsPath(p) /\ a[i].path = Prefixed(prefix, p) /\ Size(p) <= 2
        /\ a[i].method = "GET" /\ Size(p) = 2 => p[2] = "documents"
    BY <1>4, <2>1 DEF EmployeeKinds
  <2>3. /\ Size(p) \in Nat /\ Size(a[i].path) = 1 + Size(p) /\ a[i].path[1] = "employees"
        /\ \A k \in 1..Size(p) : a[i].path[1 + k] = p[k]
    BY <1>3, <2>2, PathsJoined
  <2>4. /\ a[i].method = b[j].method /\ Size(b[j].path) = 1 + Size(p)
        /\ \A k \in 1..(1 + Size(p)) : a[i].path[k] \in {b[j].path[k], P}
    BY <1>6, <2>3 DEF Covers
  <2>5. b[j].path[1] = "employees"
    BY <2>3, <2>4 DEF P
  <2>6. Size(p) = 2 /\ a[i].method = "GET" /\ b[j].path[3] = "shift"
    BY <1>5, <2>2, <2>3, <2>4, <2>5 DEF ShiftKinds
  <2>7. a[i].path[3] = "documents"
    BY <2>2, <2>3, <2>6
  <2> QED  BY <2>4, <2>6, <2>7 DEF P
<1>7. Under(a \o b, {"employees"} \cup {"shifts", "employees"})
  BY <1>1, <1>6, PartsJoined
<1>8. {"employees"} \cup {"shifts", "employees"} = {"employees", "shifts"}
  OBVIOUS
<1> QED  BY <1>7, <1>8

\* No route declared stands in the way of one declared after it.
LEMMA DeclaredListed == Listed(Declared)
<1> DEFINE
     c1 == Controller(<<"auth">>, Anyone, {}, AuthRoutes)
     c2 == Controller(<<"super", "companies">>, Super, {}, CompanyRoutes)
     c3 == Controller(<<"branches">>, Anyone, {}, BranchRoutes)
     c4 == Controller(<<"departments">>, Anyone, {}, DepartmentRoutes)
     c5 == Controller(<<"positions">>, Anyone, {}, PositionRoutes)
     c6 == Controller(<<"employees">>, Anyone, {}, EmployeeRoutes) \o
            Controller(<<>>, Anyone, {"shiftManagement"}, ShiftRoutes)
     c7 == Controller(<<"holidays">>, Anyone, {}, HolidayRoutes)
     c8 == Controller(<<"devices">>, Anyone, {}, DeviceRoutes)
     c9 == Controller(<<"attendance">>, Anyone, {"attendance"}, AttendanceRoutes)
     c10 == Controller(<<"outside-work">>, Anyone, {"outsideWork"}, OutsideWorkRoutes)
     c11 == Controller(<<>>, Anyone, {"leave"}, LeaveRoutes)
     c12 == Controller(<<"ot">>, Anyone, {"ot"}, OTRoutes)
     c13 == Controller(<<"notifications">>, Anyone, {}, NotificationRoutes)
     c14 == Controller(<<"announcements">>, Anyone, {"announcement"}, AnnouncementRoutes)
     c15 == Controller(<<"reports">>, Managers, {}, ReportRoutes)
     c16 == Controller(<<"tax-configs">>, Anyone, {}, TaxConfigRoutes)
     c17 == Controller(<<"plans">>, Anyone, {}, PlanRoutes)
     c18 == Controller(<<"payroll">>, Anyone, {"payroll"}, PayrollRoutes)
     c19 == Controller(<<"company-policy">>, Anyone, {}, PolicyRoutes)
     c20 == Controller(<<"attendance-adjustments">>, Anyone, {"attendanceAdjustment"},
                       AdjustmentRoutes)
     c21 == Controller(<<"dashboard">>, Anyone, {}, DashboardRoutes)
     c22 == Controller(<<"uploads">>, Anyone, {}, UploadRoutes)
     c23 == Controller(<<"health">>, Anyone, {}, HealthRoutes)
<1>c1. Under(c1, {"auth"})
  BY AuthListed, MountedAt, Unlimited
<1>c2. Under(c2, {"super"})
  BY CompaniesListed
<1>c3. Under(c3, {"branches"})
  BY BranchListed, MountedAt, Unlimited
<1>c4. Under(c4, {"departments"})
  BY DepartmentListed, MountedAt, Unlimited
<1>c5. Under(c5, {"positions"})
  BY PositionListed, MountedAt, Unlimited
<1>c6. Under(c6, {"employees", "shifts"})
  BY EmployeesAndShifts
<1>c7. Under(c7, {"holidays"})
  BY HolidayListed, MountedAt, Unlimited
<1>c8. Under(c8, {"devices"})
  BY DeviceListed, MountedAt, Unlimited
<1>c9. Under(c9, {"attendance"})
  BY AttendanceListed, MountedAt, Limited
<1>c10. Under(c10, {"outside-work"})
  BY OutsideWorkListed, MountedAt, Limited
<1>c11. Under(c11, {"leave-types"} \cup {"leave"})
  BY LeaveListed, Limited, MountedAtRoot
<1>c12. Under(c12, {"ot"})
  BY OTListed, MountedAt, Limited
<1>c13. Under(c13, {"notifications"})
  BY NotificationListed, MountedAt, Unlimited
<1>c14. Under(c14, {"announcements"})
  BY AnnouncementListed, MountedAt, Limited
<1>c15. Under(c15, {"reports"})
  BY ReportListed, MountedAt, Unlimited
<1>c16. Under(c16, {"tax-configs"})
  BY TaxConfigListed, MountedAt, Unlimited
<1>c17. Under(c17, {"plans"})
  BY PlanListed, MountedAt, Unlimited
<1>c18. Under(c18, {"payroll"})
  BY PayrollListed, MountedAt, Limited
<1>c19. Under(c19, {"company-policy"})
  BY PolicyListed, MountedAt, Unlimited
<1>c20. Under(c20, {"attendance-adjustments"})
  BY AdjustmentListed, MountedAt, Limited
<1>c21. Under(c21, {"dashboard"})
  BY DashboardListed, MountedAt, Unlimited
<1>c22. Under(c22, {"uploads"})
  BY UploadListed, MountedAt, Unlimited
<1>c23. Under(c23, {"health"})
  BY HealthListed, MountedAt, Unlimited
<1>1. Declared = c1 \o c2 \o c3 \o c4 \o c5 \o c6 \o c7 \o c8 \o c9 \o c10 \o c11 \o c12 \o
                 c13 \o c14 \o c15 \o c16 \o c17 \o c18 \o c19 \o c20 \o c21 \o c22 \o c23
  BY DEF Declared
<1> HIDE DEF c1, c2, c3, c4, c5, c6, c7, c8, c9, c10, c11, c12,
              c13, c14, c15, c16, c17, c18, c19, c20, c21, c22, c23
<1> DEFINE
     d1 == c1
     d2 == d1 \o c2
     d3 == d2 \o c3
     d4 == d3 \o c4
     d5 == d4 \o c5
     d6 == d5 \o c6
     d7 == d6 \o c7
     d8 == d7 \o c8
     d9 == d8 \o c9
     d10 == d9 \o c10
     d11 == d10 \o c11
     d12 == d11 \o c12
     d13 == d12 \o c13
     d14 == d13 \o c14
     d15 == d14 \o c15
     d16 == d15 \o c16
     d17 == d16 \o c17
     d18 == d17 \o c18
     d19 == d18 \o c19
     d20 == d19 \o c20
     d21 == d20 \o c21
     d22 == d21 \o c22
     d23 == d22 \o c23
     v1 == {"auth"}
     v2 == v1 \cup {"super"}
     v3 == v2 \cup {"branches"}
     v4 == v3 \cup {"departments"}
     v5 == v4 \cup {"positions"}
     v6 == v5 \cup {"employees", "shifts"}
     v7 == v6 \cup {"holidays"}
     v8 == v7 \cup {"devices"}
     v9 == v8 \cup {"attendance"}
     v10 == v9 \cup {"outside-work"}
     v11 == v10 \cup ({"leave-types"} \cup {"leave"})
     v12 == v11 \cup {"ot"}
     v13 == v12 \cup {"notifications"}
     v14 == v13 \cup {"announcements"}
     v15 == v14 \cup {"reports"}
     v16 == v15 \cup {"tax-configs"}
     v17 == v16 \cup {"plans"}
     v18 == v17 \cup {"payroll"}
     v19 == v18 \cup {"company-policy"}
     v20 == v19 \cup {"attendance-adjustments"}
     v21 == v20 \cup {"dashboard"}
     v22 == v21 \cup {"uploads"}
     v23 == v22 \cup {"health"}
<1>2. Declared = d23
  BY <1>1
<1>d1. Under(d1, v1)
  BY <1>c1
<1> HIDE DEF d1, d2, d3, d4, d5, d6, d7, d8, d9, d10, d11, d12,
              d13, d14, d15, d16, d17, d18, d19, d20, d21, d22, d23
<1>d2. Under(d2, v2)
  BY <1>d1, <1>c2, Joined DEF P, d2
<1>d3. Under(d3, v3)
  BY <1>d2, <1>c3, Joined DEF P, d3
<1>d4. Under(d4, v4)
  BY <1>d3, <1>c4, Joined DEF P, d4
<1>d5. Under(d5, v5)
  BY <1>d4, <1>c5, Joined DEF P, d5
<1>d6. Under(d6, v6)
  BY <1>d5, <1>c6, Joined DEF P, d6
<1>d7. Under(d7, v7)
  BY <1>d6, <1>c7, Joined DEF P, d7
<1>d8. Under(d8, v8)
  BY <1>d7, <1>c8, Joined DEF P, d8
<1>d9. Under(d9, v9)
  BY <1>d8, <1>c9, Joined DEF P, d9
<1>d10. Under(d10, v10)
  BY <1>d9, <1>c10, Joined DEF P, d10
<1>d11. Under(d11, v11)
  BY <1>d10, <1>c11, Joined DEF P, d11
<1>d12. Under(d12, v12)
  BY <1>d11, <1>c12, Joined DEF P, d12
<1>d13. Under(d13, v13)
  BY <1>d12, <1>c13, Joined DEF P, d13
<1>d14. Under(d14, v14)
  BY <1>d13, <1>c14, Joined DEF P, d14
<1>d15. Under(d15, v15)
  BY <1>d14, <1>c15, Joined DEF P, d15
<1>d16. Under(d16, v16)
  BY <1>d15, <1>c16, Joined DEF P, d16
<1>d17. Under(d17, v17)
  BY <1>d16, <1>c17, Joined DEF P, d17
<1>d18. Under(d18, v18)
  BY <1>d17, <1>c18, Joined DEF P, d18
<1>d19. Under(d19, v19)
  BY <1>d18, <1>c19, Joined DEF P, d19
<1>d20. Under(d20, v20)
  BY <1>d19, <1>c20, Joined DEF P, d20
<1>d21. Under(d21, v21)
  BY <1>d20, <1>c21, Joined DEF P, d21
<1>d22. Under(d22, v22)
  BY <1>d21, <1>c22, Joined DEF P, d22
<1>d23. Under(d23, v23)
  BY <1>d22, <1>c23, Joined DEF P, d23
<1> QED  BY <1>2, <1>d23 DEF Under

-----------------------------------------------------------------------------
(* The requests *)

LEMMA OwnFits ==
    ASSUME NEW r, IsPath(r.path)
    PROVE  Fits(r, r.method, Sent(r.path))
<1>1. PICK W : r.path \in Seq(W)
  BY DEF IsPath
<1>2. PICK p : p = r.path
  OBVIOUS
<1>3. PICK q : q = Sent(p)
  OBVIOUS
<1>4. DOMAIN p = 1..Len(p) /\ Len(p) \in Nat
  BY <1>1, <1>2
<1>5. Len(q) = Len(p) /\ DOMAIN q = DOMAIN p /\ \A k \in DOMAIN p : p[k] \in {q[k], P}
  BY <1>3, <1>4 DEF Sent
<1> QED  BY <1>2, <1>3, <1>5 DEF Fits

LEMMA FitsCovers ==
    ASSUME NEW r, IsPath(r.path), NEW q, IsPath(q.path), Fits(r, q.method, Sent(q.path))
    PROVE  Covers(r, q)
<1>1. PICK W, U : r.path \in Seq(W) /\ "id" \notin W /\ q.path \in Seq(U)
  BY DEF IsPath
<1>2. PICK p : p = q.path
  OBVIOUS
<1>3. PICK sent : sent = Sent(p)
  OBVIOUS
<1>4. DOMAIN p = 1..Len(p) /\ Len(p) \in Nat
  BY <1>1, <1>2
<1>5. /\ Len(sent) = Len(p) /\ DOMAIN sent = DOMAIN p
      /\ \A k \in DOMAIN p : sent[k] = IF p[k] = P THEN "id" ELSE p[k]
  BY <1>3, <1>4 DEF Sent
<1>6. /\ r.method = q.method /\ Len(r.path) = Len(p)
      /\ \A k \in 1..Len(p) : r.path[k] \in {sent[k], P}
  BY <1>2, <1>3, <1>4, <1>5 DEF Fits
<1>7. ASSUME NEW k \in 1..Len(p) PROVE r.path[k] \in {p[k], P}
  <2>1. r.path[k] # "id"
    BY <1>1, <1>4, <1>6
  <2> QED  BY <1>4, <1>5, <1>6, <2>1
<1> QED  BY <1>2, <1>6, <1>7 DEF Covers, Size

\* A request comes to the handler it is meant for.
LEMMA HandlerReached ==
    ASSUME NEW i \in DOMAIN Declared
    PROVE  FirstFit(Declared[i].method, Sent(Declared[i].path)) = i
<1> DEFINE Taken(k) == /\ Fits(Declared[k], Declared[i].method, Sent(Declared[i].path))
                       /\ \A j \in 1..(k - 1) :
                             ~Fits(Declared[j], Declared[i].method, Sent(Declared[i].path))
<1>1. DOMAIN Declared = 1..Len(Declared) /\ Len(Declared) \in Nat
  BY DeclaredListed DEF Listed
<1>2. \A k \in DOMAIN Declared : IsPath(Declared[k].path)
  BY <1>1, DeclaredListed DEF Listed, IsRoute
<1>3. ASSUME NEW j \in 1..(i - 1)
      PROVE  ~Fits(Declared[j], Declared[i].method, Sent(Declared[i].path))
  <2>1. j \in DOMAIN Declared /\ j < i
    BY <1>1
  <2>2. ~Covers(Declared[j], Declared[i])
    BY <1>1, <2>1, DeclaredListed DEF Listed
  <2> QED  BY <1>2, <2>1, <2>2, FitsCovers
<1>4. Fits(Declared[i], Declared[i].method, Sent(Declared[i].path))
  BY <1>2, OwnFits
<1>5. Taken(i)
  BY <1>3, <1>4
<1>6. ASSUME NEW k \in DOMAIN Declared, Taken(k) PROVE k = i
  <2>1. ~(k < i)
    BY <1>1, <1>3, <1>6
  <2>2. ~(i < k)
    BY <1>1, <1>4, <1>6
  <2> QED  BY <1>1, <2>1, <2>2
<1> HIDE DEF Taken
<1>7. (CHOOSE k \in DOMAIN Declared : Taken(k)) = i
  BY <1>5, <1>6
<1> QED  BY <1>7 DEF FirstFit, Taken

\* The guard goes by what the client is told.
LEMMA GuardAsShown ==
    ASSUME NEW r, OfPlans(r.features), NEW role \in CompanyRoles,
           NEW shape \in PlanShapes \cup {NoShape}, ~r.public
    PROVE  Passes(r, role, shape, TRUE) <=>
               RolesGuard(role, r.roles) /\ r.features \subseteq Shown(shape)
<1>1. role # "SUPER_ADMIN"
  BY DEF CompanyRoles, Reviewers, Managers, HR, Owner, HRAdmin
<1>2. CASE shape = NoShape
  BY <1>1, <1>2 DEF Passes, SubscriptionGuard, Shown
<1>3. CASE shape # NoShape
  <2>1. shape \in [Features -> Switches]
    BY <1>3, RoutesAssumption
  <2>2. ASSUME NEW f \in Features PROVE HasFeature(shape, f) <=> f \in Shown(shape)
    BY <1>3, <2>1, <2>2 DEF HasFeature, Shown, Switches
  <2>3. (\A f \in r.features : HasFeature(shape, f)) <=> r.features \subseteq Shown(shape)
    BY <2>2 DEF OfPlans
  <2> QED  BY <1>1, <1>3, <2>3 DEF Passes, SubscriptionGuard
<1> QED  BY <1>2, <1>3

LEMMA RequestServed == Request => ShownIsServed'
<1> SUFFICES ASSUME Request PROVE ShownIsServed'
  OBVIOUS
<1>1. PICK i \in DOMAIN Declared, role \in UserRoles, shape \in PlanShapes \cup {NoShape},
           standing \in BOOLEAN :
         LET to == FirstFit(Declared[i].method, Sent(Declared[i].path)) IN
         call' = [wanted |-> i, handler |-> to, role |-> role, shape |-> shape,
                  standing |-> standing,
                  answered |-> Passes(Declared[to], role, shape, standing)]
  BY DEF Request
<1>2. call' = [wanted |-> i, handler |-> i, role |-> role, shape |-> shape, standing |-> standing,
               answered |-> Passes(Declared[i], role, shape, standing)]
  BY <1>1, HandlerReached
<1>3. OfPlans(Declared[i].features)
  BY DeclaredListed DEF Listed, IsRoute
<1>4. ASSUME standing, role \in CompanyRoles, ~Declared[i].public
      PROVE  Passes(Declared[i], role, shape, standing) <=>
                 RolesGuard(role, Declared[i].roles) /\ Declared[i].features \subseteq Shown(shape)
  BY <1>3, <1>4, GuardAsShown
<1> QED  BY <1>2, <1>4 DEF ShownIsServed

\* The requests are served alike at every desk: none but the router's makes one.
LEMMA ServedNext == ShownIsServed /\ [Next]_vars => ShownIsServed'
<1> SUFFICES ASSUME ShownIsServed, [Next]_vars PROVE ShownIsServed'
  OBVIOUS
<1>1. CASE Next /\ desk = "router"
  <2>1. Request
    BY <1>1 DEF Next
  <2> QED  BY <2>1, RequestServed
<1>2. CASE UNCHANGED callVars
  BY <1>2 DEF ShownIsServed, callVars
<1> QED  BY <1>1, <1>2 DEF Next, vars, callVars

\* Whatever plans there are: every route declared is reached by the requests
\* meant for it, no earlier one standing in its way, and the guard goes by the
\* features that the client was told of.
THEOREM RoutesCorrect == Spec => []ShownIsServed
<1>1. Init => ShownIsServed
  BY DEF Init, CallInit, ShownIsServed
<1> QED  BY <1>1, ServedNext, PTL DEF Spec

=============================================================================
