---------------------------- MODULE WorkTimeProofs ---------------------------
(* Proofs of the properties of Overtime, ShiftRoster and PunchClock: what    *)
(* the hours of work are, asked for, assigned and logged, for any number of  *)
(* requests, employees, assignments, logs, days and handlers.                *)
EXTENDS Overtime, ShiftRoster, PunchClock, Sums

-----------------------------------------------------------------------------
(* Overtime: types                                                          *)

Flows == {<<>>} \cup {<<d>> : d \in OTDecisions}

OvertimeShape == /\ pc \in [Handlers -> OTPCs]
         /\ work = [h \in Handlers |-> work[h]]
         /\ otFlow \in [OTRequests -> Flows]
         /\ otFirst \in [OTRequests -> OTDecisions \cup {NoRequest}]

\* What a handler has read, by the operation it awaits.
Place(h) ==
    /\ pc[h] = "file" => work[h] \in OTFilings
    /\ pc[h] = "announce" => work[h] \in [req : OTRequests] /\ work[h].req \in Filed
    /\ pc[h] = "decide" => work[h] \in OTVerdicts /\ work[h].req \in Filed

\* A request that is not decided has no entry and no first decision.
Undecided ==
    \A r \in OTRequests : otStatus[r] \in {"PENDING", NoRequest} =>
        otFlow[r] = <<>> /\ otFirst[r] = NoRequest

OvertimeTypes == OvertimeTypeOK /\ OvertimeShape /\ Undecided /\ \A h \in Handlers : Place(h)

LEMMA OneEntry ==
    ASSUME NEW d \in OTDecisions PROVE Append(<<>>, d) = <<d>> /\ <<d>> \in Flows
BY DEF Flows

LEMMA OvertimeFields ==
    ASSUME OvertimeTypes, NEW h \in Handlers
    PROVE  /\ pc[h] = "file" => work[h].owner \in OTStaff /\ work[h].hours \in OTHours
           /\ pc[h] \in {"announce", "decide"} => work[h].req \in OTRequests /\ work[h].req \in Filed
           /\ pc[h] = "decide" => work[h].verdict \in OTDecisions /\ work[h].flow \in Flows
BY DEF OvertimeTypes, Place, OTFilings, OTVerdicts, Filed, Flows

\* A handler that goes on keeps the rest, as no filed request disappears.
LEMMA OvertimeGoto ==
    ASSUME OvertimeTypes, NEW h \in Handlers, NEW to \in OTPCs, NEW w, Goto(h, to, w),
           Filed \subseteq Filed',
           to = "file" => w \in OTFilings,
           to = "announce" => w \in [req : OTRequests] /\ w.req \in Filed',
           to = "decide" => w \in OTVerdicts /\ w.req \in Filed'
    PROVE  /\ pc' \in [Handlers -> OTPCs] /\ work' = [g \in Handlers |-> work'[g]]
           /\ \A g \in Handlers : Place(g)'
BY DEF OvertimeTypes, OvertimeShape, Goto, Place

LEMMA OvertimeLeaves ==
    ASSUME OvertimeTypes, NEW h \in Handlers, Leave(h), Filed \subseteq Filed'
    PROVE  /\ pc' \in [Handlers -> OTPCs] /\ work' = [g \in Handlers |-> work'[g]]
           /\ \A g \in Handlers : Place(g)'
BY OvertimeGoto DEF Leave, OTPCs

LEMMA OvertimeTypesInit == ServingInit /\ OvertimeInit => OvertimeTypes
<1> SUFFICES ASSUME ServingInit, OvertimeInit PROVE OvertimeTypes
  OBVIOUS
<1>1. OvertimeTypeOK
  BY DEF ServingInit, OvertimeInit, OvertimeTypeOK, OTPCs
<1>2. OvertimeShape /\ Undecided /\ \A h \in Handlers : Place(h)
  BY DEF ServingInit, OvertimeInit, OvertimeShape, Flows, Undecided, Place, OTPCs
<1> QED  BY <1>1, <1>2 DEF OvertimeTypes

LEMMA OvertimeTypesNext == OvertimeTypes /\ [OvertimeNext]_<<pc, work, otVars>> => OvertimeTypes'
<1> SUFFICES ASSUME OvertimeTypes, [OvertimeNext]_<<pc, work, otVars>> PROVE OvertimeTypes'
  OBVIOUS
<1> DEFINE Rest == /\ otLimit' \in OTHours \cup {NoPolicy}
                   /\ otStatus' \in [OTRequests -> OTDecisions \cup {"PENDING", NoRequest}]
                   /\ otOwner' \in [OTRequests -> OTStaff \cup {OTNobody}]
                   /\ otHours' \in [OTRequests -> OTHours \cup {0}]
                   /\ otTold' \in [OTRequests -> SUBSET OTManagers]
                   /\ otFlow' \in [OTRequests -> Flows]
                   /\ otFirst' \in [OTRequests -> OTDecisions \cup {NoRequest}]
                   /\ Undecided'
           Local == /\ pc' \in [Handlers -> OTPCs] /\ work' = [g \in Handlers |-> work'[g]]
                    /\ \A g \in Handlers : Place(g)'
<1>0. ASSUME Rest, Local PROVE OvertimeTypes'
  <2>1. OvertimeTypeOK'
    BY <1>0 DEF OvertimeTypeOK, Place
  <2> QED  BY <1>0, <2>1 DEF OvertimeTypes, OvertimeShape
<1>a. /\ otLimit \in OTHours \cup {NoPolicy}
      /\ otStatus \in [OTRequests -> OTDecisions \cup {"PENDING", NoRequest}]
      /\ otOwner \in [OTRequests -> OTStaff \cup {OTNobody}]
      /\ otHours \in [OTRequests -> OTHours \cup {0}]
      /\ otTold \in [OTRequests -> SUBSET OTManagers]
      /\ otFlow \in [OTRequests -> Flows]
      /\ otFirst \in [OTRequests -> OTDecisions \cup {NoRequest}]
      /\ Undecided
  BY DEF OvertimeTypes, OvertimeTypeOK, OvertimeShape
<1>c. ASSUME UNCHANGED otVars PROVE Rest /\ Filed' = Filed
  BY <1>a, <1>c DEF otVars, Undecided, Filed
<1>d. ASSUME UNCHANGED <<pc, work>>, Filed \subseteq Filed' PROVE Local
  BY <1>d DEF OvertimeTypes, OvertimeShape, Place
<1>1. ASSUME NEW h \in Handlers, NEW n \in OTHours, UpdatePolicy(h, n) PROVE OvertimeTypes'
  <2>1. Rest /\ Filed' = Filed
    BY <1>1, <1>a DEF UpdatePolicy, Undecided, Filed
  <2> QED  BY <1>1, <2>1, <1>d, <1>0 DEF UpdatePolicy, AtOnce
<1>2. ASSUME NEW h \in Handlers, NEW e \in OTStaff, NEW n \in OTHours, RequestRead(h, e, n)
      PROVE  OvertimeTypes'
  <2> DEFINE w == [owner |-> e, hours |-> n]
  <2>1. Rest /\ Filed' = Filed /\ Goto(h, "file", w)
    BY <1>2, <1>c DEF RequestRead, Enter
  <2>2. w \in OTFilings
    BY DEF OTFilings
  <2> HIDE DEF w
  <2>3. Local
    BY <2>1, <2>2, OvertimeGoto DEF OTPCs
  <2> QED  BY <2>1, <2>3, <1>0
<1>3. ASSUME NEW h \in Handlers, NEW r \in OTRequests, NEW d \in {"APPROVED", "REJECTED"},
             DecideRead(h, r, d)
      PROVE  OvertimeTypes'
  <2> DEFINE w == [req |-> r, verdict |-> d, flow |-> Append(otFlow[r], d)]
  <2>1. Rest /\ Filed' = Filed /\ Goto(h, "decide", w) /\ otStatus[r] = "PENDING"
    BY <1>3, <1>c DEF DecideRead, Enter
  <2>2. d \in OTDecisions /\ otFlow[r] = <<>> /\ r \in Filed
    BY <2>1, <1>a DEF Undecided, OTDecisions, Filed, NoRequest
  <2>3. Append(otFlow[r], d) = <<d>>
    BY <2>2, OneEntry
  <2>4. w \in OTVerdicts /\ w.req \in Filed'
    BY <2>1, <2>2, <2>3 DEF OTVerdicts
  <2> HIDE DEF w
  <2>5. Local
    BY <2>1, <2>4, OvertimeGoto DEF OTPCs
  <2> QED  BY <2>1, <2>5, <1>0
<1>4. ASSUME NEW h \in Handlers, NEW r \in OTRequests, NEW e \in OTStaff, CancelRead(h, e, r)
      PROVE  OvertimeTypes'
  <2> DEFINE w == [req |-> r, verdict |-> "CANCELLED", flow |-> otFlow[r]]
  <2>1. Rest /\ Filed' = Filed /\ Goto(h, "decide", w) /\ otStatus[r] = "PENDING"
    BY <1>4, <1>c DEF CancelRead, Enter
  <2>2. otFlow[r] = <<>> /\ r \in Filed
    BY <2>1, <1>a DEF Undecided, Filed, NoRequest
  <2>3. w \in OTVerdicts /\ w.req \in Filed'
    BY <2>1, <2>2 DEF OTVerdicts, OTDecisions
  <2> HIDE DEF w
  <2>4. Local
    BY <2>1, <2>3, OvertimeGoto DEF OTPCs
  <2> QED  BY <2>1, <2>4, <1>0
<1>5. ASSUME NEW h \in Handlers, RequestStore(h) PROVE OvertimeTypes'
  <2>1. PICK r \in OTRequests \ Filed :
          /\ otStatus' = [otStatus EXCEPT ![r] = "PENDING"]
          /\ otOwner' = [otOwner EXCEPT ![r] = work[h].owner]
          /\ otHours' = [otHours EXCEPT ![r] = work[h].hours]
          /\ Goto(h, "announce", [req |-> r])
    BY <1>5 DEF RequestStore
  <2>2. work[h].owner \in OTStaff /\ work[h].hours \in OTHours
    BY <1>5, OvertimeFields DEF RequestStore
  <2>3. otStatus[r] = NoRequest
    BY <2>1 DEF Filed
  <2>4. Rest
    BY <1>5, <1>a, <2>1, <2>2, <2>3 DEF RequestStore, Undecided
  <2>5. Filed \subseteq Filed' /\ r \in Filed'
    BY <1>a, <2>1 DEF Filed, NoRequest
  <2>6. Local
    BY <2>1, <2>5, OvertimeGoto DEF OTPCs
  <2> QED  BY <2>4, <2>6, <1>0
<1>6. ASSUME NEW h \in Handlers, Announce(h) PROVE OvertimeTypes'
  <2>1. work[h].req \in OTRequests
    BY <1>6, OvertimeFields DEF Announce
  <2>2. Rest /\ Filed' = Filed
    BY <1>6, <1>a, <2>1 DEF Announce, Undecided, Filed
  <2>3. Local
    BY <1>6, <2>2, OvertimeLeaves DEF Announce
  <2> QED  BY <2>2, <2>3, <1>0
<1>7. ASSUME NEW h \in Handlers, DecideStore(h) PROVE OvertimeTypes'
  <2> DEFINE r == work[h].req
             d == work[h].verdict
  <2>1. r \in OTRequests /\ d \in OTDecisions /\ work[h].flow \in Flows
    BY <1>7, OvertimeFields DEF DecideStore
  <2>2. /\ otStatus' = [otStatus EXCEPT ![r] = d]
        /\ otFlow' \in {otFlow, [otFlow EXCEPT ![r] = work[h].flow]}
        /\ otFirst' \in {otFirst, [otFirst EXCEPT ![r] = d]}
        /\ UNCHANGED <<otLimit, otOwner, otHours, otTold>>
        /\ Leave(h)
    BY <1>7 DEF DecideStore
  <2> HIDE DEF r, d
  <2>3. d \notin {"PENDING", NoRequest}
    BY <2>1 DEF OTDecisions, NoRequest
  <2>4. Undecided'
    BY <1>a, <2>1, <2>2, <2>3 DEF Undecided
  <2>5. Rest
    BY <1>a, <2>1, <2>2, <2>4
  <2>6. Filed \subseteq Filed'
    BY <1>a, <2>1, <2>2, <2>3 DEF Filed
  <2>7. Local
    BY <2>2, <2>6, OvertimeLeaves
  <2> QED  BY <2>5, <2>7, <1>0
<1>8. ASSUME NEW h \in Handlers, OvertimeFail(h) PROVE OvertimeTypes'
  <2>1. Rest /\ Filed' = Filed
    BY <1>8, <1>a DEF OvertimeFail, Undecided, Filed
  <2>2. Local
    BY <1>8, <2>1, OvertimeLeaves DEF OvertimeFail, Abandoned
  <2> QED  BY <2>1, <2>2, <1>0
<1>9. CASE UNCHANGED <<pc, work, otVars>>
  BY <1>9, <1>c, <1>d, <1>0
<1> QED
  BY <1>1, <1>2, <1>3, <1>4, <1>5, <1>6, <1>7, <1>8, <1>9 DEF OvertimeNext

\* Every variable of Overtime, and what every handler has read, keeps its type.
THEOREM OvertimeTypeCorrect == OvertimeSpec => []OvertimeTypeOK
<1>1. OvertimeTypes => OvertimeTypeOK
  BY DEF OvertimeTypes
<1> QED  BY OvertimeTypesInit, OvertimeTypesNext, <1>1, PTL DEF OvertimeSpec

-----------------------------------------------------------------------------
(* Decisions, notifications and hours                                       *)

\* The three parts of OvertimeExplained, for one request.
Decided(r) ==
    \/ r \in otRaced
    \/ otStatus[r] = "PENDING" /\ otFirst[r] = NoRequest /\ otFlow[r] = <<>>
    \/ otStatus[r] = otFirst[r]
       /\ otFlow[r] = IF otFirst[r] = "CANCELLED" THEN <<>> ELSE <<otFirst[r]>>
Told(r) ==
    \/ otTold[r] = OTManagers
    \/ r \in otCut
    \/ \E h \in Waiting({"announce"}) : work[h].req = r
Within(r) == otHours[r] <= Limit \/ r \in otOver

\* A handler about to decide, whose request nobody else has decided since, has
\* read it pending and without an entry ...
Reading ==
    \A h \in Handlers : pc[h] = "decide" /\ h \notin otBehind =>
        /\ otStatus[work[h].req] = "PENDING"
        /\ work[h].verdict # "CANCELLED" => work[h].flow = <<work[h].verdict>>
\* ... and one about to file has kept to the limit, if that has not changed.
Filing ==
    \A h \in Handlers : pc[h] = "file" /\ h \notin otBehind => work[h].hours <= Limit

Informed == /\ Reading /\ Filing
         /\ \A r \in Filed : Decided(r) /\ Told(r) /\ Within(r)

LEMMA InformedInit == ServingInit /\ OvertimeInit => Informed
BY DEF ServingInit, OvertimeInit, Informed, Reading, Filing, Filed

LEMMA InformedNext == OvertimeTypes /\ Informed /\ [OvertimeNext]_<<pc, work, otVars>> => Informed'
<1> SUFFICES ASSUME OvertimeTypes, Informed, [OvertimeNext]_<<pc, work, otVars>> PROVE Informed'
  OBVIOUS
<1>a. /\ pc \in [Handlers -> OTPCs] /\ work = [h \in Handlers |-> work[h]]
      /\ otStatus \in [OTRequests -> OTDecisions \cup {"PENDING", NoRequest}]
      /\ otHours \in [OTRequests -> OTHours \cup {0}]
      /\ otTold \in [OTRequests -> SUBSET OTManagers]
      /\ otFlow \in [OTRequests -> Flows]
      /\ otFirst \in [OTRequests -> OTDecisions \cup {NoRequest}]
      /\ Undecided
  BY DEF OvertimeTypes, OvertimeTypeOK, OvertimeShape
<1>b. /\ Filed \subseteq OTRequests
      /\ \A r \in Filed : Decided(r) /\ Told(r) /\ Within(r)
  BY DEF Informed, Filed
\* A step that changes no request, and frees nobody who was behind.
<1>c. ASSUME UNCHANGED <<otLimit, otStatus, otHours, otFlow, otTold, otFirst, otRaced, otOver>>,
             otCut \subseteq otCut',
             \A g \in Handlers :
                 pc'[g] = "decide" /\ g \notin otBehind' =>
                     pc[g] = "decide" /\ g \notin otBehind /\ work'[g] = work[g],
             \A g \in Handlers :
                 pc'[g] = "file" /\ g \notin otBehind' =>
                     pc[g] = "file" /\ g \notin otBehind /\ work'[g] = work[g],
             \A g \in Handlers : pc[g] = "announce" =>
                 work[g].req \in otCut' \/ (pc'[g] = "announce" /\ work'[g] = work[g])
      PROVE  Informed'
  <2>1. Reading'
    BY <1>c DEF Informed, Reading
  <2>2. Filing'
    BY <1>c DEF Informed, Filing, Limit
  <2>3. ASSUME NEW r \in Filed PROVE Decided(r)' /\ Told(r)' /\ Within(r)'
    <3>1. Decided(r)' /\ Within(r)'
      BY <1>b, <1>c, <2>3 DEF Decided, Within, Limit
    <3>2. Told(r)'
      BY <1>b, <1>c, <2>3 DEF Told, Waiting
    <3> QED  BY <3>1, <3>2
  <2> QED  BY <1>c, <2>1, <2>2, <2>3 DEF Informed, Filed
<1>1. ASSUME NEW h \in Handlers, NEW n \in OTHours, UpdatePolicy(h, n) PROVE Informed'
  <2>1. /\ UNCHANGED <<pc, work, otStatus, otHours, otFlow, otTold, otFirst, otRaced, otCut>>
        /\ otBehind' = otBehind \cup Waiting({"file"}) /\ otOver' = otOver \cup Filed
    BY <1>1 DEF UpdatePolicy, AtOnce
  <2>2. Reading'
    BY <2>1 DEF Informed, Reading
  <2>3. Filing'
    BY <2>1 DEF Filing, Waiting
  <2>4. ASSUME NEW r \in Filed PROVE Decided(r)' /\ Told(r)' /\ Within(r)'
    BY <1>b, <2>1, <2>4 DEF Decided, Told, Within, Waiting
  <2> QED  BY <2>1, <2>2, <2>3, <2>4 DEF Informed, Filed
<1>2. ASSUME NEW h \in Handlers, NEW e \in OTStaff, NEW n \in OTHours, RequestRead(h, e, n)
      PROVE  Informed'
  <2>1. /\ pc[h] = "idle" /\ n <= Limit /\ UNCHANGED otVars
        /\ pc' = [pc EXCEPT ![h] = "file"]
        /\ work' = [work EXCEPT ![h] = [owner |-> e, hours |-> n]]
    BY <1>2 DEF RequestRead, Enter, Goto
  <2>2. Reading'
    BY <1>a, <2>1 DEF otVars, Informed, Reading
  <2>3. Filing'
    BY <1>a, <2>1 DEF otVars, Informed, Filing, Limit
  <2>4. ASSUME NEW r \in Filed PROVE Decided(r)' /\ Told(r)' /\ Within(r)'
    BY <1>a, <1>b, <2>1, <2>4 DEF otVars, Decided, Told, Within, Limit, Waiting
  <2> QED  BY <2>1, <2>2, <2>3, <2>4 DEF otVars, Informed, Filed
<1>3. ASSUME NEW h \in Handlers, NEW r \in OTRequests, NEW d \in OTDecisions,
             NEW w, w.req = r, w.verdict = d,
             d # "CANCELLED" => w.flow = Append(otFlow[r], d),
             otStatus[r] = "PENDING", Enter(h, "decide", w), UNCHANGED otVars
      PROVE  Informed'
  <2>1. /\ pc[h] = "idle"
        /\ pc' = [pc EXCEPT ![h] = "decide"] /\ work' = [work EXCEPT ![h] = w]
    BY <1>3 DEF Enter, Goto
  <2>2. d # "CANCELLED" => w.flow = <<d>>
    BY <1>3, <1>a, OneEntry DEF Undecided
  <2>3. Reading'
    BY <1>a, <1>3, <2>1, <2>2 DEF otVars, Informed, Reading
  <2>4. Filing'
    BY <1>a, <1>3, <2>1 DEF otVars, Informed, Filing, Limit
  <2>5. ASSUME NEW q \in Filed PROVE Decided(q)' /\ Told(q)' /\ Within(q)'
    BY <1>a, <1>b, <1>3, <2>1, <2>5 DEF otVars, Decided, Told, Within, Limit, Waiting
  <2> QED  BY <1>3, <2>3, <2>4, <2>5 DEF otVars, Informed, Filed
<1>4. ASSUME NEW h \in Handlers, NEW r \in OTRequests, NEW d \in {"APPROVED", "REJECTED"},
             DecideRead(h, r, d)
      PROVE  Informed'
  BY <1>3, <1>4 DEF DecideRead, OTDecisions
<1>5. ASSUME NEW h \in Handlers, NEW r \in OTRequests, NEW e \in OTStaff, CancelRead(h, e, r)
      PROVE  Informed'
  BY <1>3, <1>5 DEF CancelRead, OTDecisions
<1>6. ASSUME NEW h \in Handlers, RequestStore(h) PROVE Informed'
  <2>1. PICK r \in OTRequests \ Filed :
          /\ otStatus' = [otStatus EXCEPT ![r] = "PENDING"]
          /\ otHours' = [otHours EXCEPT ![r] = work[h].hours]
          /\ otOver' = IF h \in otBehind THEN otOver \cup {r} ELSE otOver
          /\ Goto(h, "announce", [req |-> r])
    BY <1>6 DEF RequestStore
  <2>2. /\ pc[h] = "file" /\ otBehind' = otBehind \ {h}
        /\ UNCHANGED <<otLimit, otFlow, otTold, otFirst, otRaced, otCut>>
        /\ pc' = [pc EXCEPT ![h] = "announce"] /\ work' = [work EXCEPT ![h] = [req |-> r]]
    BY <1>6, <2>1 DEF RequestStore, Goto
  <2>3. otStatus[r] = NoRequest /\ otFlow[r] = <<>> /\ otFirst[r] = NoRequest
    BY <1>a, <2>1 DEF Filed, Undecided
  <2>4. Reading'
    BY <1>a, <2>1, <2>2, <2>3 DEF Informed, Reading, NoRequest
  <2>5. Filing'
    BY <1>a, <2>2 DEF Informed, Filing, Limit
  <2>6. Decided(r)' /\ Told(r)' /\ Within(r)'
    <3>1. Decided(r)'
      BY <1>a, <2>1, <2>2, <2>3 DEF Decided
    <3>2. Told(r)'
      BY <1>a, <2>2 DEF Told, Waiting
    <3>3. Within(r)'
      BY <1>a, <2>1, <2>2 DEF Informed, Filing, Within, Limit
    <3> QED  BY <3>1, <3>2, <3>3
  <2>7. ASSUME NEW q \in Filed PROVE Decided(q)' /\ Told(q)' /\ Within(q)'
    <3>1. q # r /\ q \in OTRequests
      BY <1>b, <2>1, <2>7
    <3>2. Decided(q)'
      BY <1>a, <1>b, <2>1, <2>2, <2>7, <3>1 DEF Decided
    <3>3. Told(q)'
      BY <1>a, <1>b, <2>2, <2>7, <3>1 DEF Told, Waiting
    <3>4. Within(q)'
      BY <1>a, <1>b, <2>1, <2>2, <2>7, <3>1 DEF Within, Limit
    <3> QED  BY <3>2, <3>3, <3>4
  <2>8. Filed' \subseteq Filed \cup {r}
    BY <1>a, <2>1 DEF Filed
  <2> QED  BY <2>4, <2>5, <2>6, <2>7, <2>8 DEF Informed
<1>7. ASSUME NEW h \in Handlers, Announce(h) PROVE Informed'
  <2>1. PICK r \in OTRequests : r = work[h].req
    BY <1>7, OvertimeFields DEF Announce
  <2>2. /\ pc[h] = "announce" /\ pc' = [pc EXCEPT ![h] = "idle"]
        /\ work' = [work EXCEPT ![h] = NoWork]
        /\ otTold' = [otTold EXCEPT ![r] = @ \cup OTManagers]
        /\ UNCHANGED <<otLimit, otStatus, otHours, otFlow, otFirst, otBehind, otRaced,
                       otOver, otCut>>
    BY <1>7, <2>1 DEF Announce, Leave, Goto
  <2>3. Reading' /\ Filing'
    BY <1>a, <2>2 DEF Informed, Reading, Filing, Limit
  <2>4. ASSUME NEW q \in Filed PROVE Decided(q)' /\ Told(q)' /\ Within(q)'
    <3>1. Decided(q)' /\ Within(q)'
      BY <1>b, <2>2, <2>4 DEF Decided, Within, Limit
    <3>2. ASSUME q = r PROVE Told(q)'
      BY <1>a, <2>1, <2>2, <3>2 DEF Told
    <3>3. ASSUME q # r PROVE Told(q)'
      BY <1>a, <1>b, <2>1, <2>2, <2>4, <3>3 DEF Told, Waiting
    <3> QED  BY <3>1, <3>2, <3>3
  <2> QED  BY <2>2, <2>3, <2>4 DEF Informed, Filed
<1>8. ASSUME NEW h \in Handlers, DecideStore(h) PROVE Informed'
  <2>0. PICK r \in OTRequests, d \in OTDecisions : r = work[h].req /\ d = work[h].verdict
    BY <1>8, OvertimeFields DEF DecideStore
  <2>1. r \in Filed
    BY <1>8, <2>0, OvertimeFields DEF DecideStore
  <2>2. /\ pc[h] = "decide" /\ pc' = [pc EXCEPT ![h] = "idle"]
        /\ work' = [work EXCEPT ![h] = NoWork]
        /\ otStatus' = [otStatus EXCEPT ![r] = d]
        /\ otFlow' = IF d = "CANCELLED" THEN otFlow ELSE [otFlow EXCEPT ![r] = work[h].flow]
        /\ otFirst' = IF otFirst[r] = NoRequest THEN [otFirst EXCEPT ![r] = d] ELSE otFirst
        /\ otRaced' = IF h \in otBehind THEN otRaced \cup {r} ELSE otRaced
        /\ otBehind' = (otBehind \cup {g \in Waiting({"decide"}) : work[g].req = r}) \ {h}
        /\ UNCHANGED <<otLimit, otHours, otTold, otOver, otCut>>
    BY <1>8, <2>0 DEF DecideStore, Leave, Goto
  <2>3. h \notin otBehind =>
          otStatus[r] = "PENDING" /\ (d # "CANCELLED" => work[h].flow = <<d>>)
    BY <2>0, <2>2 DEF Informed, Reading
  <2>4. Reading'
    <3> SUFFICES ASSUME NEW g \in Handlers, pc'[g] = "decide", g \notin otBehind'
                 PROVE  /\ otStatus'[work'[g].req] = "PENDING"
                        /\ work'[g].verdict # "CANCELLED" => work'[g].flow = <<work'[g].verdict>>
      BY DEF Reading
    <3>1. g # h /\ pc[g] = "decide" /\ work'[g] = work[g]
      BY <1>a, <2>2
    <3>2. work[g].req # r /\ g \notin otBehind
      BY <2>2, <3>1 DEF Waiting
    <3>3. otStatus'[work[g].req] = otStatus[work[g].req]
      BY <1>a, <2>2, <3>2
    <3> QED  BY <3>1, <3>2, <3>3 DEF Informed, Reading
  <2>5. Filing'
    BY <1>a, <2>2 DEF Informed, Filing, Limit
  <2>6. Decided(r)'
    <3>1. CASE h \in otBehind
      BY <2>2, <3>1 DEF Decided
    <3>2. CASE h \notin otBehind
      <4>1. otFirst[r] = NoRequest /\ otFlow[r] = <<>>
        BY <1>a, <2>1, <2>3, <3>2 DEF Undecided
      <4>2. otStatus'[r] = d /\ otFirst'[r] = d
        BY <1>a, <2>1, <2>2, <4>1
      <4>3. otFlow'[r] = IF d = "CANCELLED" THEN <<>> ELSE <<d>>
        BY <1>a, <2>1, <2>2, <2>3, <3>2, <4>1
      <4> QED  BY <4>2, <4>3 DEF Decided
    <3> QED  BY <3>1, <3>2
  <2>7. ASSUME NEW q \in Filed, q # r PROVE Decided(q)'
    BY <1>a, <1>b, <2>2, <2>7 DEF Decided
  <2>8. ASSUME NEW q \in Filed PROVE Told(q)' /\ Within(q)'
    BY <1>a, <1>b, <2>2, <2>8 DEF Told, Within, Limit, Waiting
  <2>9. Filed' \subseteq Filed
    BY <1>a, <2>1, <2>2 DEF Filed
  <2> QED  BY <2>4, <2>5, <2>6, <2>7, <2>8, <2>9 DEF Informed
<1>9. ASSUME NEW h \in Handlers, OvertimeFail(h) PROVE Informed'
  <2>1. /\ pc' = [pc EXCEPT ![h] = "idle"] /\ work' = [work EXCEPT ![h] = NoWork]
        /\ otBehind' = otBehind \ {h}
        /\ otCut' = IF pc[h] = "announce" THEN otCut \cup {work[h].req} ELSE otCut
        /\ UNCHANGED <<otLimit, otStatus, otHours, otFlow, otTold, otFirst, otRaced, otOver>>
    BY <1>9 DEF OvertimeFail, Abandoned, Leave, Goto
  <2> QED  BY <1>a, <2>1, <1>c
<1>10. CASE UNCHANGED <<pc, work, otVars>>
  BY <1>10, <1>c DEF otVars
<1> QED
  BY <1>1, <1>2, <1>4, <1>5, <1>6, <1>7, <1>8, <1>9, <1>10 DEF OvertimeNext

\* A request keeps its first decision and its entry unless two decisions raced,
\* the managers are told of it unless filing it was cut, and it is within the
\* limit unless that changed.
THEOREM OvertimeCorrect == OvertimeSpec => []OvertimeExplained
<1>1. Informed => OvertimeExplained
  BY DEF Informed, OvertimeExplained, Decided, Told, Within
<1>2. ServingInit /\ OvertimeInit => OvertimeTypes /\ Informed
  BY OvertimeTypesInit, InformedInit
<1>3. OvertimeTypes /\ Informed /\ [OvertimeNext]_<<pc, work, otVars>> => (OvertimeTypes /\ Informed)'
  BY OvertimeTypesNext, InformedNext
<1> QED  BY <1>1, <1>2, <1>3, PTL DEF OvertimeSpec

-----------------------------------------------------------------------------
(* Refinement: requests take one decision                                   *)

\* A step of a request, and one that concerns none.
LEMMA OvertimeFlowStep ==
    OvertimeTypes /\ Informed /\ [OvertimeNext]_<<pc, work, otVars>>
        => [OvertimeFlow!WorkflowNext]_<<otStatus, otRaced>>
<1> SUFFICES ASSUME OvertimeTypes, Informed, [OvertimeNext]_<<pc, work, otVars>>
             PROVE  OvertimeFlow!WorkflowNext \/ UNCHANGED <<otStatus, otRaced>>
  OBVIOUS
<1>a. otStatus \in [OTRequests -> OTDecisions \cup {"PENDING", NoRequest}]
  BY DEF OvertimeTypes, OvertimeTypeOK
<1>1. ASSUME NEW h \in Handlers, RequestStore(h) PROVE OvertimeFlow!WorkflowNext
  <2>1. PICK r \in OTRequests \ Filed : otStatus' = [otStatus EXCEPT ![r] = "PENDING"]
    BY <1>1 DEF RequestStore
  <2>2. OvertimeFlow!Submit(r)
    BY <1>1, <2>1 DEF RequestStore, OvertimeFlow!Submit, Filed, NoRequest
  <2> QED  BY <2>2 DEF OvertimeFlow!WorkflowNext
<1>2. ASSUME NEW h \in Handlers, DecideStore(h) PROVE OvertimeFlow!WorkflowNext
  <2> DEFINE r == work[h].req  d == work[h].verdict
  <2>1. /\ r \in OTRequests /\ r \in Filed /\ d \in OTDecisions
        /\ pc[h] = "decide" /\ otStatus' = [otStatus EXCEPT ![r] = d]
        /\ otRaced' = IF h \in otBehind THEN otRaced \cup {r} ELSE otRaced
    BY <1>2, OvertimeFields DEF DecideStore
  <2> HIDE DEF r, d
  <2>2. CASE h \in otBehind
    <3>1. otStatus'[r] \in OvertimeFlow!Decisions \cup {otStatus[r]} /\ otStatus'[r] = d
      BY <1>a, <2>1 DEF OTDecisions, OvertimeFlow!Decisions
    <3>2. OvertimeFlow!Contest(r)
      BY <2>1, <2>2, <3>1 DEF OvertimeFlow!Contest, Filed, NoRequest
    <3> QED  BY <2>1, <3>2 DEF OvertimeFlow!WorkflowNext
  <2>3. CASE h \notin otBehind
    <3>1. otStatus[r] = "PENDING" /\ d \in OvertimeFlow!Decisions
      BY <2>1, <2>3 DEF Informed, Reading, r, OTDecisions, OvertimeFlow!Decisions
    <3>2. OvertimeFlow!Decide(r, d)
      BY <2>1, <2>3, <3>1 DEF OvertimeFlow!Decide
    <3> QED  BY <2>1, <3>1, <3>2 DEF OvertimeFlow!WorkflowNext
  <2> QED  BY <2>2, <2>3
<1>3. ASSUME NEW h \in Handlers,
             \/ \E n \in OTHours : UpdatePolicy(h, n) \/ \E e \in OTStaff : RequestRead(h, e, n)
             \/ \E r \in OTRequests : \/ \E d \in {"APPROVED", "REJECTED"} : DecideRead(h, r, d)
                                      \/ \E e \in OTStaff : CancelRead(h, e, r)
             \/ Announce(h)
             \/ OvertimeFail(h)
      PROVE  UNCHANGED <<otStatus, otRaced>>
  BY <1>3 DEF UpdatePolicy, RequestRead, DecideRead, CancelRead, Announce, OvertimeFail, otVars
<1> QED  BY <1>1, <1>2, <1>3 DEF OvertimeNext, otVars

LEMMA OvertimeFlowInit == OvertimeInit => OvertimeFlow!WorkflowInit
BY DEF OvertimeInit, OvertimeFlow!WorkflowInit, NoRequest

\* Overtime requests take one final decision, however many handlers decide them
\* and wherever they fail, save those that two of them had both read pending.
THEOREM OvertimeImplemented == OvertimeSpec => ImplementsOvertime
<1>1. OvertimeTypes /\ Informed /\ [OvertimeNext]_<<pc, work, otVars>>
        => (OvertimeTypes /\ Informed)' /\ [OvertimeFlow!WorkflowNext]_(OvertimeFlow!absVars)
  BY OvertimeTypesNext, InformedNext, OvertimeFlowStep DEF OvertimeFlow!absVars
<1>2. ServingInit /\ OvertimeInit => OvertimeTypes /\ Informed /\ OvertimeFlow!WorkflowInit
  BY OvertimeTypesInit, InformedInit, OvertimeFlowInit
<1> QED
  BY <1>1, <1>2, PTL DEF OvertimeSpec, ImplementsOvertime, OvertimeFlow!WorkflowSpec

-----------------------------------------------------------------------------
(* Shift assignments: types                                                 *)

\* A span ends on any day; an assignment that exists begins on one of Days.
LongSpans == [emp : ShiftStaff, from : Days, to : Int]
ShiftTasks == [queue : Seq(ShiftStaff) \ {<<>>}, from : Days, to : Days \cup {OpenEnd},
               doc : SUBSET Assignments]

ShiftShape == /\ pc \in [Handlers -> ShiftPCs]
              /\ work = [h \in Handlers |-> work[h]]
              /\ \A h \in Handlers : pc[h] # "idle" => work[h] \in ShiftTasks
              /\ span \in [Assignments -> LongSpans \cup {NoSpan}]
              /\ rivalled \subseteq Waiting({"amend", "close", "create"})
              /\ muddled \subseteq ShiftStaff
              /\ lasting \subseteq ShiftStaff
              /\ severed \subseteq ShiftStaff

LEMMA LastDayType == LastDay \in Int /\ OpenEnd \in Int /\ Days \subseteq Int
BY ShiftRosterAssumption DEF OpenEnd, Days

LEMMA NoSpanIsNone == NoSpan \notin LongSpans
BY ShiftRosterAssumption DEF NoSpan, LongSpans, Days

\* Head and Tail of the queue of a handler at work.
LEMMA QueueFields ==
    ASSUME NEW q \in Seq(ShiftStaff) \ {<<>>}
    PROVE  /\ Head(q) \in ShiftStaff
           /\ Len(q) # 1 => Tail(q) \in Seq(ShiftStaff) \ {<<>>}
<1>1. Len(q) \in Nat /\ Len(q) # 0 /\ Head(q) \in ShiftStaff
  OBVIOUS
<1>2. ASSUME Len(q) # 1 PROVE Tail(q) \in Seq(ShiftStaff) /\ Len(Tail(q)) # 0
  BY <1>1, <1>2
<1>3. Len(<<>>) = 0
  OBVIOUS
<1> QED  BY <1>1, <1>2, <1>3

LEMMA ShiftTaskFields ==
    ASSUME NEW w \in ShiftTasks
    PROVE  /\ w.queue \in Seq(ShiftStaff) \ {<<>>} /\ Head(w.queue) \in ShiftStaff
           /\ w.from \in Days /\ w.to \in Days \cup {OpenEnd} /\ w.doc \in SUBSET Assignments
           /\ Wanted(w) \in LongSpans
           /\ Wanted(w).emp = Head(w.queue) /\ Wanted(w).from = w.from /\ Wanted(w).to = w.to
<1>1. /\ w.queue \in Seq(ShiftStaff) \ {<<>>}
      /\ w.from \in Days /\ w.to \in Days \cup {OpenEnd} /\ w.doc \in SUBSET Assignments
  BY DEF ShiftTasks
<1>2. Head(w.queue) \in ShiftStaff /\ w.to \in Int
  BY <1>1, QueueFields, LastDayType
<1> HIDE DEF Days, OpenEnd
<1> QED  BY <1>1, <1>2 DEF Wanted, Span, LongSpans

\* A handler that goes on keeps what its task looks like.
LEMMA ShiftGoto ==
    ASSUME ShiftShape, NEW h \in Handlers, NEW to \in ShiftPCs, NEW w, Goto(h, to, w),
           to # "idle" => w \in ShiftTasks
    PROVE  /\ pc' \in [Handlers -> ShiftPCs]
           /\ work' = [g \in Handlers |-> work'[g]]
           /\ \A g \in Handlers : pc'[g] # "idle" => work'[g] \in ShiftTasks
           /\ pc'[h] = to /\ (to # "idle" => work'[h] = w)
           /\ \A g \in Handlers : g # h => pc'[g] = pc[g] /\ work'[g] = work[g]
BY DEF ShiftShape, Goto

LEMMA ShiftNextEmployee ==
    ASSUME ShiftShape, NEW h \in Handlers, pc[h] # "idle", NextEmployee(h)
    PROVE  /\ pc' \in [Handlers -> ShiftPCs]
           /\ work' = [g \in Handlers |-> work'[g]]
           /\ \A g \in Handlers : pc'[g] # "idle" => work'[g] \in ShiftTasks
           /\ pc'[h] \in {"idle", "next"}
           /\ \A g \in Handlers : g # h => pc'[g] = pc[g] /\ work'[g] = work[g]
<1> DEFINE w == work[h]
           v == [w EXCEPT !.queue = Tail(@), !.doc = {}]
<1>1. w \in ShiftTasks
  BY DEF ShiftShape
<1>2. CASE Len(w.queue) = 1
  BY <1>2, ShiftGoto DEF NextEmployee, Leave, ShiftPCs
<1>3. CASE Len(w.queue) # 1
  <2>1. Tail(w.queue) \in Seq(ShiftStaff) \ {<<>>}
    BY <1>1, <1>3, QueueFields, ShiftTaskFields
  <2>2. v \in ShiftTasks
    BY <1>1, <2>1 DEF ShiftTasks
  <2>3. Goto(h, "next", v)
    BY <1>3 DEF NextEmployee
  <2> HIDE DEF v
  <2> QED  BY <2>2, <2>3, ShiftGoto DEF ShiftPCs
<1> QED  BY <1>2, <1>3

\* What a store of handler h does to the roster: only assignments of its
\* employee change, and none of them begins on another day.
Changes(h) ==
    /\ \A a \in Assignments :
         span'[a] # span[a] => /\ span'[a] \in LongSpans
                               /\ span'[a].emp = Head(work[h].queue)
                               /\ a \in Known => /\ span[a].emp = span'[a].emp
                                                 /\ span[a].from = span'[a].from
    /\ muddled \subseteq muddled'
    /\ (rivalled \cup Rivals(h)) \ {h} \subseteq rivalled'
    /\ \A g \in Handlers : g # h => pc'[g] = pc[g] /\ work'[g] = work[g]

-----------------------------------------------------------------------------
(* Shift assignments: one shift a day                                       *)

\* No two assignments of an employee share a day.
Roster(e) ==
    \A a, b \in Known : a # b /\ span[a].emp = e /\ span[b].emp = e => ~Overlaps(span[a], span[b])

\* The assignment a handler is to change is the employee's, and begins as read.
OwnDoc(h) ==
    pc[h] \in {"amend", "close"} =>
        \E a \in Known : /\ work[h].doc = {a} /\ span[a].emp = Head(work[h].queue)
                         /\ pc[h] = "amend" => span[a].from = work[h].from
                         /\ pc[h] = "close" => /\ span[a].from < work[h].from
                                               /\ work[h].to = OpenEnd

\* With nobody in between, what is to be closed is open-ended, and where an
\* assignment is to be created nothing is in the way.
OpenDoc(h) ==
    pc[h] = "close" /\ h \notin rivalled => \A a \in work[h].doc : span[a].to = OpenEnd
Free(h) ==
    pc[h] = "create" /\ h \notin rivalled /\ Head(work[h].queue) \notin muddled =>
        \A a \in Known : span[a].emp = Head(work[h].queue) => ~Overlaps(span[a], Wanted(work[h]))

\* An employee has an open-ended assignment, or the replacement of it is about
\* to be stored.
Lasts(e) ==
    \/ \E a \in Known : span[a].emp = e /\ span[a].to = OpenEnd
    \/ \E h \in Waiting({"create"}) :
         Head(work[h].queue) = e /\ work[h].to = OpenEnd /\ work[h].doc # {}

Rosters == /\ \A e \in ShiftStaff \ muddled : Roster(e)
           /\ \A h \in Handlers : OwnDoc(h) /\ OpenDoc(h) /\ Free(h)
           /\ \A e \in lasting \ severed : Lasts(e)

\* A store leaves the employees and the handlers of other employees alone, and
\* the handlers of the same one know no more than what never changes.
LEMMA OthersUntouched ==
    ASSUME ShiftShape, Rosters, NEW h \in Handlers, Changes(h),
           NEW g \in Handlers, g # h
    PROVE  OwnDoc(g)' /\ OpenDoc(g)' /\ Free(g)'
<1> DEFINE e == Head(work[h].queue)
<1>1. pc'[g] = pc[g] /\ work'[g] = work[g] /\ (g \in rivalled => g \in rivalled')
  BY DEF Changes
<1>2. \A a \in Known : a \in Known' /\ span'[a].emp = span[a].emp /\ span'[a].from = span[a].from
  BY NoSpanIsNone DEF Changes, Known
<1>3. OwnDoc(g)'
  BY <1>1, <1>2 DEF Rosters, OwnDoc
<1>4. CASE Head(work[g].queue) # e
  <2>1. \A a \in Known' : span'[a].emp = Head(work[g].queue) => a \in Known /\ span'[a] = span[a]
    BY <1>4, NoSpanIsNone DEF Changes, Known
  <2>2. OpenDoc(g)'
    <3> SUFFICES ASSUME pc[g] = "close", g \notin rivalled
                 PROVE  \A a \in work[g].doc : span'[a].to = OpenEnd
      BY <1>1 DEF OpenDoc
    <3>1. PICK a \in Known : work[g].doc = {a} /\ span[a].emp = Head(work[g].queue)
      BY DEF Rosters, OwnDoc
    <3>2. span'[a] = span[a]
      BY <1>2, <2>1, <3>1
    <3>3. span[a].to = OpenEnd
      BY <3>1 DEF Rosters, OpenDoc
    <3> QED  BY <3>1, <3>2, <3>3
  <2>3. Free(g)'
    <3>1. \A a : Overlaps(span[a], Wanted(work[g])) <=> Overlaps(span[a], Wanted(work'[g]))
      BY <1>1
    <3> QED  BY <1>1, <2>1 DEF Rosters, Free, Changes, Overlaps, Wanted
  <2> QED  BY <1>3, <2>2, <2>3
<1>5. CASE Head(work[g].queue) = e
  <2>1. pc[g] \in {"amend", "close", "create"} => g \in rivalled'
    BY <1>5 DEF Changes, Rivals, Waiting
  <2> QED  BY <1>1, <1>3, <2>1 DEF OpenDoc, Free
<1> QED  BY <1>4, <1>5

LEMMA OtherRosters ==
    ASSUME ShiftShape, Rosters, NEW h \in Handlers, Changes(h),
           NEW e \in ShiftStaff, e \notin muddled, e # Head(work[h].queue)
    PROVE  Roster(e)'
<1>1. \A a \in Known' : span'[a].emp = e => a \in Known /\ span'[a] = span[a]
  BY NoSpanIsNone DEF Changes, Known
<1>2. Roster(e)
  BY DEF Rosters
<1> QED  BY <1>1, <1>2 DEF Roster, Overlaps

\* A step of handler h that stores no assignment disturbs no other handler.
LEMMA OthersStay ==
    ASSUME ShiftShape, Rosters, NEW h \in Handlers, UNCHANGED <<span, muddled>>,
           \A g \in Handlers : g # h => /\ pc'[g] = pc[g] /\ work'[g] = work[g]
                                        /\ g \in rivalled => g \in rivalled',
           NEW g \in Handlers, g # h
    PROVE  OwnDoc(g)' /\ OpenDoc(g)' /\ Free(g)'
<1>1. pc'[g] = pc[g] /\ work'[g] = work[g] /\ (g \in rivalled => g \in rivalled')
  OBVIOUS
<1>2. Known' = Known /\ span' = span
  BY DEF Known
<1>3. OwnDoc(g) /\ OpenDoc(g) /\ Free(g)
  BY DEF Rosters
<1>4. \A a : Overlaps(span'[a], Wanted(work'[g])) <=> Overlaps(span[a], Wanted(work[g]))
  BY <1>1, <1>2
<1> QED  BY <1>1, <1>2, <1>3, <1>4 DEF OwnDoc, OpenDoc, Free

LEMMA RostersStay ==
    ASSUME UNCHANGED <<span, muddled>>, Rosters
    PROVE  \A e \in ShiftStaff \ muddled' : Roster(e)'
BY DEF Rosters, Roster, Known, Overlaps

\* The second handler of Lasts stays unless it is the one that steps.
LEMMA LastsStays ==
    ASSUME ShiftShape, NEW h \in Handlers, NEW e, Lasts(e),
           \A a \in Known : span[a].emp = e /\ span[a].to = OpenEnd => a \in Known' /\ span'[a] = span[a],
           \A g \in Handlers : g # h => pc'[g] = pc[g] /\ work'[g] = work[g],
           ~(/\ pc[h] = "create" /\ Head(work[h].queue) = e
             /\ work[h].to = OpenEnd /\ work[h].doc # {})
    PROVE  Lasts(e)'
<1>1. CASE \E a \in Known : span[a].emp = e /\ span[a].to = OpenEnd
  BY <1>1 DEF Lasts, OpenEnd
<1>2. CASE \E g \in Waiting({"create"}) :
             Head(work[g].queue) = e /\ work[g].to = OpenEnd /\ work[g].doc # {}
  <2>1. PICK g \in Waiting({"create"}) :
             Head(work[g].queue) = e /\ work[g].to = OpenEnd /\ work[g].doc # {}
    BY <1>2
  <2>2. g \in Handlers /\ pc[g] = "create" /\ g # h
    BY <2>1 DEF Waiting
  <2>3. pc'[g] = "create" /\ work'[g] = work[g]
    BY <2>2
  <2> QED  BY <2>1, <2>2, <2>3 DEF Lasts, Waiting, OpenEnd
<1> QED  BY <1>1, <1>2 DEF Lasts

LEMMA ShiftStart == ServingInit /\ ShiftInit => ShiftShape /\ Rosters
<1> SUFFICES ASSUME ServingInit, ShiftInit PROVE ShiftShape /\ Rosters
  OBVIOUS
<1>1. Known = {}
  BY DEF ShiftInit, Known
<1>2. ShiftShape
  BY DEF ServingInit, ShiftInit, ShiftShape, ShiftPCs
<1>3. Rosters
  BY <1>1 DEF ServingInit, ShiftInit, Rosters, Roster, OwnDoc, OpenDoc, Free
<1> QED  BY <1>2, <1>3

\* A step of handler h that stores nothing: what is left to show is about h.
LEMMA NothingStored ==
    ASSUME ShiftShape, Rosters, NEW h \in Handlers, UNCHANGED <<span, muddled, lasting>>,
           pc' \in [Handlers -> ShiftPCs],
           work' = [g \in Handlers |-> work'[g]],
           \A g \in Handlers : pc'[g] # "idle" => work'[g] \in ShiftTasks,
           \A g \in Handlers : g # h => pc'[g] = pc[g] /\ work'[g] = work[g],
           rivalled' \in {rivalled, rivalled \ {h}},
           h \in rivalled' => pc'[h] \in {"amend", "close", "create"},
           severed \subseteq severed', severed' \subseteq ShiftStaff,
           pc[h] = "create" /\ work[h].doc # {} => Head(work[h].queue) \in severed',
           OwnDoc(h)', OpenDoc(h)', Free(h)'
    PROVE  ShiftShape' /\ Rosters'
<1>1. ShiftShape'
  BY DEF ShiftShape, Waiting
<1>2. \A g \in Handlers : g # h => OwnDoc(g)' /\ OpenDoc(g)' /\ Free(g)'
  BY OthersStay
<1>3. ASSUME NEW e \in lasting' \ severed' PROVE Lasts(e)'
  <2>1. Lasts(e)
    BY <1>3 DEF Rosters
  <2> QED  BY <1>3, <2>1, LastsStays DEF Known
<1> QED  BY <1>1, <1>2, <1>3, RostersStay DEF Rosters

\* A request arrives.
LEMMA AssignShiftKeeps ==
    ASSUME ShiftShape, Rosters, NEW h \in Handlers,
           NEW r \in ShiftRequests, AssignShift(h, r)
    PROVE  ShiftShape' /\ Rosters'
<1> DEFINE w == [queue |-> r.queue, from |-> r.from, to |-> r.to, doc |-> {}]
           Q == Seq(ShiftStaff) \ {<<>>}
<1>1. r.queue \in Q /\ r.from \in Days /\ r.to \in Days \cup {OpenEnd}
  <2>1. r \in [queue : Q, from : Days, to : Days \cup {OpenEnd}]
    BY ShiftRosterAssumption
  <2> HIDE DEF Q
  <2> QED  BY <2>1
<1>2. w \in ShiftTasks
  BY <1>1 DEF ShiftTasks
<1>3. pc[h] = "idle" /\ Goto(h, "next", w) /\ UNCHANGED shiftVars
  BY DEF AssignShift, Enter
<1> HIDE DEF w
<1>4. /\ pc' \in [Handlers -> ShiftPCs]
      /\ work' = [g \in Handlers |-> work'[g]]
      /\ \A g \in Handlers : pc'[g] # "idle" => work'[g] \in ShiftTasks
      /\ pc'[h] = "next"
      /\ \A g \in Handlers : g # h => pc'[g] = pc[g] /\ work'[g] = work[g]
  BY <1>2, <1>3, ShiftGoto DEF ShiftPCs
<1>5. h \notin rivalled
  BY <1>3 DEF ShiftShape, Waiting
<1>6. OwnDoc(h)' /\ OpenDoc(h)' /\ Free(h)'
  BY <1>4 DEF OwnDoc, OpenDoc, Free
<1>7. severed \subseteq ShiftStaff /\ UNCHANGED <<span, rivalled, muddled, lasting, severed>>
  BY <1>3 DEF shiftVars, ShiftShape
<1> QED  BY <1>3, <1>4, <1>5, <1>6, <1>7, NothingStored

\* The overlap is looked up: nothing is in the way, or the one assignment that
\* is to be changed is remembered, or the employee is passed over.
LEMMA AssignReadKeeps ==
    ASSUME ShiftShape, Rosters, NEW h \in Handlers, AssignRead(h)
    PROVE  ShiftShape' /\ Rosters'
<1> DEFINE w == work[h]
<1>1. pc[h] = "next" /\ UNCHANGED shiftVars /\ w \in ShiftTasks /\ h \notin rivalled
  BY DEF AssignRead, ShiftShape, Waiting
<1> DEFINE Moved == /\ pc' \in [Handlers -> ShiftPCs]
                    /\ work' = [g \in Handlers |-> work'[g]]
                    /\ \A g \in Handlers : pc'[g] # "idle" => work'[g] \in ShiftTasks
                    /\ \A g \in Handlers : g # h => pc'[g] = pc[g] /\ work'[g] = work[g]
           Sound == OwnDoc(h)' /\ OpenDoc(h)' /\ Free(h)'
<1>3. span' = span /\ rivalled' = rivalled /\ muddled' = muddled /\ Known' = Known
  BY <1>1 DEF shiftVars, Known
<1>4. ASSUME Overlapping(Wanted(w)) = {}, Goto(h, "create", w) PROVE Moved /\ Sound
  <2>1. pc'[h] = "create" /\ work'[h] = w
    BY <1>1, <1>4, ShiftGoto DEF ShiftPCs
  <2>2. \A a \in Known : span[a].emp = Head(w.queue) => ~Overlaps(span[a], Wanted(w))
    BY <1>1, <1>4, ShiftTaskFields DEF Overlapping
  <2>3. \A a : Overlaps(span'[a], Wanted(work'[h])) <=> Overlaps(span[a], Wanted(w))
    BY <1>3, <2>1
  <2>4. Sound
    BY <1>3, <2>1, <2>2, <2>3 DEF OwnDoc, OpenDoc, Free
  <2> QED  BY <1>1, <1>4, <2>4, ShiftGoto DEF ShiftPCs
<1>5. ASSUME NextEmployee(h) PROVE Moved /\ Sound
  <2>1. pc'[h] \in {"idle", "next"}
    BY <1>1, <1>5, ShiftNextEmployee
  <2>2. Sound
    BY <2>1 DEF OwnDoc, OpenDoc, Free
  <2> QED  BY <1>1, <1>5, <2>2, ShiftNextEmployee
<1>6. ASSUME NEW a \in Overlapping(Wanted(w)), NEW to \in {"amend", "close"},
             to = "amend" => span[a].from = w.from,
             to = "close" => span[a].from < w.from /\ w.to = OpenEnd /\ span[a].to = OpenEnd,
             Goto(h, to, [w EXCEPT !.doc = {a}])
      PROVE  Moved /\ Sound
  <2> DEFINE v == [w EXCEPT !.doc = {a}]
  <2>1. a \in Known /\ a \in Assignments /\ span[a].emp = Head(w.queue)
    BY <1>1, <1>6, ShiftTaskFields DEF Overlapping, Known
  <2>2. /\ v \in ShiftTasks
        /\ v.doc = {a} /\ v.queue = w.queue /\ v.from = w.from /\ v.to = w.to
    BY <1>1, <2>1 DEF ShiftTasks
  <2>3. Goto(h, to, v)
    BY <1>6
  <2> HIDE DEF v
  <2>4. pc'[h] = to /\ work'[h] = v
    BY <1>6, <2>2, <2>3, ShiftGoto DEF ShiftPCs
  <2>5. Sound
    BY <1>3, <1>6, <2>1, <2>2, <2>4 DEF OwnDoc, OpenDoc, Free, OpenEnd
  <2> QED  BY <1>6, <2>2, <2>3, <2>5, ShiftGoto DEF ShiftPCs
<1>7. Moved /\ Sound
  <2> HIDE DEF Moved, Sound
  <2>1. CASE \E a \in Overlapping(Wanted(w)) :
            LET to == CASE span[a].from = w.from -> "amend"
                        [] span[a].from < w.from /\ w.to = OpenEnd
                                                 /\ span[a].to = OpenEnd -> "close"
                        [] OTHER -> "refuse"
            IN IF to = "refuse" THEN NextEmployee(h)
               ELSE Goto(h, to, [w EXCEPT !.doc = {a}])
    <3>1. PICK a \in Overlapping(Wanted(w)) :
            LET to == CASE span[a].from = w.from -> "amend"
                        [] span[a].from < w.from /\ w.to = OpenEnd
                                                 /\ span[a].to = OpenEnd -> "close"
                        [] OTHER -> "refuse"
            IN IF to = "refuse" THEN NextEmployee(h)
               ELSE Goto(h, to, [w EXCEPT !.doc = {a}])
      BY <2>1
    <3>2. CASE span[a].from = w.from
      BY <1>6, <3>1, <3>2
    <3>3. CASE span[a].from # w.from /\ span[a].from < w.from /\ w.to = OpenEnd
                                    /\ span[a].to = OpenEnd
      BY <1>6, <3>1, <3>3
    <3>4. CASE span[a].from # w.from /\ ~(span[a].from < w.from /\ w.to = OpenEnd
                                         /\ span[a].to = OpenEnd)
      BY <1>5, <3>1, <3>4
    <3> QED  BY <3>2, <3>3, <3>4
  <2> QED  BY <1>4, <2>1 DEF AssignRead
<1>8. severed \subseteq ShiftStaff /\ severed' = severed /\ lasting' = lasting
  BY <1>1 DEF ShiftShape, shiftVars
<1> QED  BY <1>1, <1>3, <1>7, <1>8, NothingStored

\* An operation fails. A replacement that is not stored after the close is
\* severed, any other failure leaves the roster as it was.
LEMMA ShiftFailKeeps ==
    ASSUME ShiftShape, Rosters, NEW h \in Handlers, ShiftFail(h)
    PROVE  ShiftShape' /\ Rosters'
<1>1. /\ pc[h] # "idle" /\ NextEmployee(h) /\ UNCHANGED <<span, muddled, lasting>>
      /\ rivalled' = rivalled \ {h}
      /\ severed' = IF pc[h] = "create" /\ work[h].doc # {}
                    THEN severed \cup {Head(work[h].queue)} ELSE severed
  BY DEF ShiftFail
<1>2. Head(work[h].queue) \in ShiftStaff /\ severed \subseteq ShiftStaff
  BY <1>1, ShiftTaskFields DEF ShiftShape
<1>3. /\ severed \subseteq severed' /\ severed' \subseteq ShiftStaff
      /\ pc[h] = "create" /\ work[h].doc # {} => Head(work[h].queue) \in severed'
  BY <1>1, <1>2
<1>4. pc'[h] \in {"idle", "next"} /\ h \notin rivalled'
  BY <1>1, ShiftNextEmployee
<1>5. OwnDoc(h)' /\ OpenDoc(h)' /\ Free(h)'
  BY <1>4 DEF OwnDoc, OpenDoc, Free
<1> QED  BY <1>1, <1>3, <1>4, <1>5, ShiftNextEmployee, NothingStored

\* A step of handler h that stores: what is left to show is about h, and about
\* the employee it is at.
LEMMA Stored ==
    ASSUME ShiftShape, Rosters, NEW h \in Handlers, Changes(h),
           pc' \in [Handlers -> ShiftPCs],
           work' = [g \in Handlers |-> work'[g]],
           \A g \in Handlers : pc'[g] # "idle" => work'[g] \in ShiftTasks,
           span' \in [Assignments -> LongSpans \cup {NoSpan}],
           rivalled' \subseteq rivalled \cup Rivals(h),
           h \in rivalled' => pc'[h] = "create",
           muddled' \subseteq ShiftStaff, lasting' \subseteq ShiftStaff, severed' = severed,
           NEW f, f = Head(work[h].queue), f \notin muddled' => Roster(f)',
           OwnDoc(h)', OpenDoc(h)', Free(h)',
           \A e \in lasting' \ severed' : Lasts(e)'
    PROVE  ShiftShape' /\ Rosters'
<1>1. ShiftShape'
  <2>1. \A g \in rivalled' : g # h => g \in Waiting({"amend", "close", "create"}) /\ pc'[g] = pc[g]
    BY DEF ShiftShape, Rivals, Changes, Waiting
  <2>2. rivalled' \subseteq Waiting({"amend", "close", "create"})'
    BY <2>1 DEF Waiting
  <2> QED  BY <2>2 DEF ShiftShape
<1>2. \A g \in Handlers : OwnDoc(g)' /\ OpenDoc(g)' /\ Free(g)'
  BY OthersUntouched
<1>3. ASSUME NEW e \in ShiftStaff \ muddled' PROVE Roster(e)'
  <2>1. e \notin muddled /\ e \notin muddled'
    BY <1>3 DEF Changes
  <2> QED  BY <2>1, OtherRosters
<1> QED  BY <1>1, <1>2, <1>3 DEF Rosters

\* The replaced assignment ends on the day before.
LEMMA CloseStoreKeeps ==
    ASSUME ShiftShape, Rosters, NEW h \in Handlers, CloseStore(h)
    PROVE  ShiftShape' /\ Rosters'
<1>0. PICK w, e : w = work[h] /\ e = Head(w.queue)
  OBVIOUS
<1>1. pc[h] = "close" /\ w \in ShiftTasks /\ e \in ShiftStaff /\ Goto(h, "create", w)
  BY <1>0, ShiftTaskFields DEF CloseStore, ShiftShape
<1>2. PICK b \in Known : /\ w.doc = {b} /\ span[b].emp = e
                         /\ span[b].from < w.from /\ w.to = OpenEnd
  BY <1>0, <1>1 DEF Rosters, OwnDoc
<1>3. /\ b \in Assignments /\ span[b] \in LongSpans
      /\ span' = [a \in Assignments |-> IF a \in w.doc THEN [span[a] EXCEPT !.to = w.from - 1]
                                        ELSE span[a]]
      /\ muddled' = IF h \in rivalled THEN muddled \cup {e} ELSE muddled
      /\ rivalled' = rivalled \cup Rivals(h)
      /\ lasting' = lasting /\ severed' = severed
  BY <1>0 DEF CloseStore, Known, ShiftShape
<1> DEFINE s == [span[b] EXCEPT !.to = w.from - 1]
<1>4. /\ w.from \in Int /\ w.from - 1 \in Int
      /\ s \in LongSpans /\ s.emp = e /\ s.from = span[b].from /\ s.to = w.from - 1
  <2>1. w.from \in Int /\ w.from - 1 \in Int
    <3>1. w.from \in Days
      BY <1>1, ShiftTaskFields
    <3>2. w.from \in Int
      BY <3>1, LastDayType
    <3> QED  BY <3>2
  <2>2. s = [emp |-> span[b].emp, from |-> span[b].from, to |-> w.from - 1]
    BY <1>3 DEF LongSpans
  <2>3. span[b].emp \in ShiftStaff /\ span[b].from \in Days
    BY <1>3 DEF LongSpans
  <2> QED  BY <1>2, <2>1, <2>2, <2>3 DEF LongSpans
<1>5. span'[b] = s /\ \A a \in Assignments : a # b => span'[a] = span[a]
  BY <1>2, <1>3
<1> HIDE DEF s
<1>6. /\ pc' \in [Handlers -> ShiftPCs]
      /\ work' = [g \in Handlers |-> work'[g]]
      /\ \A g \in Handlers : pc'[g] # "idle" => work'[g] \in ShiftTasks
      /\ pc'[h] = "create" /\ work'[h] = w
      /\ \A g \in Handlers : g # h => pc'[g] = pc[g] /\ work'[g] = work[g]
  BY <1>1, ShiftGoto DEF ShiftPCs
<1>7. Changes(h)
  BY <1>0, <1>2, <1>3, <1>4, <1>5, <1>6 DEF Changes, Rivals
<1>8. span' \in [Assignments -> LongSpans \cup {NoSpan}]
  BY <1>3, <1>4, <1>5 DEF ShiftShape
<1>9. Known' = Known
  BY <1>2, <1>3, <1>4, <1>5, NoSpanIsNone DEF Known
<1>10. \A a \in Known : /\ span[a].from \in Int /\ span[a].to \in Int
                        /\ span'[a].from = span[a].from /\ span'[a].emp = span[a].emp
  BY <1>4, <1>5, <1>2, LastDayType DEF Known, ShiftShape, LongSpans
\* Nobody saw the employee in between: what was open-ended ended nothing else.
<1>11. ASSUME e \notin muddled', h \notin rivalled
       PROVE  /\ span[b].to = OpenEnd /\ Roster(e)
              /\ \A a \in Known : a # b /\ span[a].emp = e => span[a].to < span[b].from
  <2>1. span[b].to = OpenEnd /\ Roster(e)
    BY <1>0, <1>1, <1>2, <1>3, <1>11 DEF Rosters, OpenDoc
  <2>2. ASSUME NEW a \in Known, a # b, span[a].emp = e PROVE span[a].to < span[b].from
    <3>1. ~Overlaps(span[a], span[b])
      BY <1>2, <2>1, <2>2 DEF Roster
    <3>2. span[a].from \in Days /\ span[b].from \in Days
      BY <1>3, NoSpanIsNone, <2>2 DEF Known, ShiftShape, LongSpans
    <3>3. span[a].from <= OpenEnd
      BY <3>2, ShiftRosterAssumption DEF OpenEnd, Days
    <3> QED  BY <1>2, <1>10, <2>1, <3>1, <3>3 DEF Overlaps
  <2> QED  BY <2>1, <2>2
<1>12. e \notin muddled' /\ h \notin rivalled => Roster(e)'
  <2> SUFFICES ASSUME e \notin muddled', h \notin rivalled PROVE Roster(e)'
    OBVIOUS
  <2>1. ASSUME NEW a \in Known, a # b, span[a].emp = e
        PROVE  ~Overlaps(span'[a], span'[b]) /\ ~Overlaps(span'[b], span'[a])
    <3>1. span[a].to < span[b].from /\ span'[a] = span[a] /\ span'[b] = s
      BY <1>5, <1>11, <2>1 DEF Known
    <3> QED  BY <1>2, <1>4, <1>10, <2>1, <3>1 DEF Overlaps
  <2>2. ASSUME NEW a \in Known, NEW c \in Known, a # b, c # b, a # c,
               span[a].emp = e, span[c].emp = e
        PROVE  ~Overlaps(span'[a], span'[c])
    <3>1. span'[a] = span[a] /\ span'[c] = span[c] /\ Roster(e)
      BY <1>5, <1>11, <2>2 DEF Known
    <3> QED  BY <2>2, <3>1 DEF Roster
  <2>3. SUFFICES ASSUME NEW a \in Known, NEW c \in Known, a # c,
                        span[a].emp = e, span[c].emp = e
                 PROVE  ~Overlaps(span'[a], span'[c])
    BY <1>9, <1>10 DEF Roster
  <2> QED  BY <2>1, <2>2, <2>3
<1>13. Free(h)'
  <2> SUFFICES ASSUME h \notin rivalled', e \notin muddled', NEW a \in Known, span[a].emp = e
               PROVE  ~Overlaps(span'[a], Wanted(w))
    BY <1>0, <1>6, <1>9, <1>10 DEF Free
  <2>1. h \notin rivalled /\ Wanted(w).from = w.from /\ Wanted(w).to = w.to
    BY <1>1, <1>3, ShiftTaskFields
  <2>2. CASE a = b
    BY <1>4, <1>5, <2>1, <2>2 DEF Overlaps
  <2>3. CASE a # b
    <3>1. span[a].to < span[b].from /\ span'[a] = span[a]
      BY <1>5, <1>11, <2>1, <2>3 DEF Known
    <3> QED  BY <1>2, <1>4, <1>10, <2>1, <3>1 DEF Overlaps
  <2> QED  BY <2>2, <2>3
<1>14. OwnDoc(h)' /\ OpenDoc(h)'
  BY <1>6 DEF OwnDoc, OpenDoc
<1>15. ASSUME NEW f \in lasting' \ severed' PROVE Lasts(f)'
  <2>1. CASE f = e
    BY <1>0, <1>2, <1>6, <2>1 DEF Lasts, Waiting, OpenEnd
  <2>2. CASE f # e
    <3>1. \A a \in Known : span[a].emp = f => a \in Known' /\ span'[a] = span[a]
      BY <1>2, <1>5, <1>9, <2>2 DEF Known
    <3>2. Lasts(f)
      BY <1>3, <1>15 DEF Rosters
    <3> QED  BY <1>0, <1>1, <1>6, <3>1, <3>2, LastsStays
  <2> QED  BY <2>1, <2>2
<1>16. /\ muddled' \subseteq ShiftStaff /\ lasting' \subseteq ShiftStaff
       /\ rivalled' \subseteq rivalled \cup Rivals(h)
       /\ e \notin muddled' => Roster(e)'
  BY <1>1, <1>3, <1>12 DEF ShiftShape
<1> QED  BY <1>0, <1>3, <1>6, <1>7, <1>8, <1>13, <1>14, <1>15, <1>16, Stored

\* An assignment that begins on the same day is changed.
LEMMA AmendStoreKeeps ==
    ASSUME ShiftShape, Rosters, NEW h \in Handlers, AmendStore(h)
    PROVE  ShiftShape' /\ Rosters'
<1>0. PICK w, e, s : w = work[h] /\ e = Head(w.queue) /\ s = Wanted(w)
  OBVIOUS
<1>1. /\ pc[h] = "amend" /\ w \in ShiftTasks /\ e \in ShiftStaff /\ NextEmployee(h)
      /\ s \in LongSpans /\ s.emp = e /\ s.from = w.from /\ s.to = w.to
  BY <1>0, ShiftTaskFields DEF AmendStore, ShiftShape
<1>2. PICK b \in Known : w.doc = {b} /\ span[b].emp = e /\ span[b].from = w.from
  BY <1>0, <1>1 DEF Rosters, OwnDoc
<1>3. /\ b \in Assignments /\ span[b] \in LongSpans
      /\ span' = [a \in Assignments |-> IF a \in w.doc THEN s ELSE span[a]]
      /\ muddled' = IF h \in rivalled \/ Overlapping(s) \ w.doc # {}
                    THEN muddled \cup {e} ELSE muddled
      /\ lasting' = IF s.to = OpenEnd THEN lasting \cup {e}
                    ELSE IF \E a \in w.doc : span[a].to = OpenEnd THEN lasting \ {e}
                    ELSE lasting
      /\ rivalled' = (rivalled \cup Rivals(h)) \ {h}
      /\ severed' = severed
  BY <1>0, <1>1 DEF AmendStore, Known, ShiftShape
<1>4. /\ pc' \in [Handlers -> ShiftPCs]
      /\ work' = [g \in Handlers |-> work'[g]]
      /\ \A g \in Handlers : pc'[g] # "idle" => work'[g] \in ShiftTasks
      /\ pc'[h] \in {"idle", "next"}
      /\ \A g \in Handlers : g # h => pc'[g] = pc[g] /\ work'[g] = work[g]
  BY <1>1, ShiftNextEmployee
<1>5. span'[b] = s /\ \A a \in Assignments : a # b => span'[a] = span[a]
  BY <1>2, <1>3
<1>6. Changes(h)
  BY <1>0, <1>1, <1>2, <1>3, <1>4, <1>5 DEF Changes, Rivals
<1>7. span' \in [Assignments -> LongSpans \cup {NoSpan}]
  BY <1>1, <1>3, <1>5 DEF ShiftShape
<1>8. Known' = Known
  BY <1>1, <1>2, <1>3, <1>5, NoSpanIsNone DEF Known
<1>9. \A a \in Known : span'[a].emp = span[a].emp
  BY <1>1, <1>2, <1>5 DEF Known
\* The request saw every assignment its span overlaps.
<1>10. ASSUME e \notin muddled' PROVE Roster(e)'
  <2>1. Roster(e) /\ Overlapping(s) \subseteq {b}
    BY <1>1, <1>2, <1>3, <1>10 DEF Rosters
  <2>2. ASSUME NEW a \in Known, a # b, span[a].emp = e
        PROVE  ~Overlaps(span'[a], span'[b]) /\ ~Overlaps(span'[b], span'[a])
    <3>1. span'[a] = span[a] /\ span'[b] = s /\ ~Overlaps(span[a], s)
      BY <1>1, <1>5, <2>1, <2>2 DEF Overlapping, Known
    <3>2. s.from \in Int /\ s.to \in Int /\ span[a].from \in Int /\ span[a].to \in Int
      BY <1>1, <2>2, LastDayType DEF Known, ShiftShape, LongSpans
    <3> QED  BY <3>1, <3>2 DEF Overlaps
  <2>3. ASSUME NEW a \in Known, NEW c \in Known, a # b, c # b, a # c,
               span[a].emp = e, span[c].emp = e
        PROVE  ~Overlaps(span'[a], span'[c])
    <3>1. span'[a] = span[a] /\ span'[c] = span[c]
      BY <1>5, <2>3 DEF Known
    <3> QED  BY <2>1, <2>3, <3>1 DEF Roster
  <2>4. SUFFICES ASSUME NEW a \in Known, NEW c \in Known, a # c,
                        span[a].emp = e, span[c].emp = e
                 PROVE  ~Overlaps(span'[a], span'[c])
    BY <1>8, <1>9 DEF Roster
  <2> QED  BY <2>2, <2>3, <2>4
<1>11. OwnDoc(h)' /\ OpenDoc(h)' /\ Free(h)'
  BY <1>4 DEF OwnDoc, OpenDoc, Free
<1>12. ASSUME NEW f \in lasting' \ severed' PROVE Lasts(f)'
  <2>1. CASE f = e /\ s.to = OpenEnd
    <3>1. b \in Known' /\ span'[b].emp = f /\ span'[b].to = OpenEnd
      BY <1>1, <1>2, <1>5, <1>8, <2>1
    <3> QED  BY <3>1 DEF Lasts, OpenEnd
  <2>2. CASE ~(f = e /\ s.to = OpenEnd)
    <3>1. f \in lasting \ severed /\ (f = e => span[b].to # OpenEnd)
      BY <1>2, <1>3, <1>12, <2>2
    <3>2. \A a \in Known : span[a].emp = f /\ span[a].to = OpenEnd
                            => a \in Known' /\ span'[a] = span[a]
      BY <1>2, <1>5, <1>8, <3>1 DEF Known
    <3>3. Lasts(f)
      BY <3>1 DEF Rosters
    <3> QED  BY <1>1, <1>4, <3>2, <3>3, LastsStays
  <2> QED  BY <2>1, <2>2
<1>13. /\ muddled' \subseteq ShiftStaff /\ lasting' \subseteq ShiftStaff
       /\ rivalled' \subseteq rivalled \cup Rivals(h) /\ h \notin rivalled'
  BY <1>1, <1>3 DEF ShiftShape
<1> QED  BY <1>0, <1>3, <1>4, <1>6, <1>7, <1>10, <1>11, <1>12, <1>13, Stored

\* A new assignment is stored where, unless somebody was faster, nothing is in
\* the way.
LEMMA CreateAssignmentKeeps ==
    ASSUME ShiftShape, Rosters, NEW h \in Handlers, CreateAssignment(h)
    PROVE  ShiftShape' /\ Rosters'
<1>0. PICK w, e, s : w = work[h] /\ e = Head(w.queue) /\ s = Wanted(w)
  OBVIOUS
<1>1. /\ pc[h] = "create" /\ w \in ShiftTasks /\ e \in ShiftStaff /\ NextEmployee(h)
      /\ s \in LongSpans /\ s.emp = e /\ s.from = w.from /\ s.to = w.to
  BY <1>0, ShiftTaskFields DEF CreateAssignment, ShiftShape
<1>2. /\ muddled' = IF h \in rivalled THEN muddled \cup {e} ELSE muddled
      /\ lasting' = IF w.to = OpenEnd THEN lasting \cup {e} ELSE lasting
      /\ rivalled' = (rivalled \cup Rivals(h)) \ {h}
      /\ severed' = severed
  BY <1>0 DEF CreateAssignment
<1>3. PICK b \in Assignments \ Known : span' = [span EXCEPT ![b] = s]
  BY <1>0 DEF CreateAssignment
<1>4. /\ pc' \in [Handlers -> ShiftPCs]
      /\ work' = [g \in Handlers |-> work'[g]]
      /\ \A g \in Handlers : pc'[g] # "idle" => work'[g] \in ShiftTasks
      /\ pc'[h] \in {"idle", "next"}
      /\ \A g \in Handlers : g # h => pc'[g] = pc[g] /\ work'[g] = work[g]
  BY <1>1, ShiftNextEmployee
<1>5. span'[b] = s /\ \A a \in Assignments : a # b => span'[a] = span[a]
  BY <1>3 DEF ShiftShape
<1>6. Changes(h)
  <2>1. \A a \in Assignments : span'[a] # span[a] => a = b
    BY <1>5
  <2> QED  BY <1>0, <1>1, <1>2, <1>3, <1>4, <1>5, <2>1 DEF Changes, Rivals
<1>7. span' \in [Assignments -> LongSpans \cup {NoSpan}]
  BY <1>1, <1>3, <1>5 DEF ShiftShape
<1>8. Known' = Known \cup {b} /\ b \notin Known
  BY <1>1, <1>3, <1>5, NoSpanIsNone DEF Known
<1>9. \A a \in Known : span'[a] = span[a]
  BY <1>5, <1>8 DEF Known
\* What was free when the request looked still is.
<1>10. ASSUME e \notin muddled' PROVE Roster(e)'
  <2>1. h \notin rivalled /\ e \notin muddled
    BY <1>2, <1>10
  <2>2. Roster(e) /\ \A a \in Known : span[a].emp = e => ~Overlaps(span[a], s)
    BY <1>0, <1>1, <2>1 DEF Rosters, Free
  <2>3. ASSUME NEW a \in Known, span[a].emp = e
        PROVE  ~Overlaps(span'[a], span'[b]) /\ ~Overlaps(span'[b], span'[a])
    <3>1. span'[a] = span[a] /\ span'[b] = s /\ ~Overlaps(span[a], s)
      BY <1>5, <1>9, <2>2, <2>3
    <3>2. s.from \in Int /\ s.to \in Int /\ span[a].from \in Int /\ span[a].to \in Int
      BY <1>1, <2>3, LastDayType DEF Known, ShiftShape, LongSpans
    <3> QED  BY <3>1, <3>2 DEF Overlaps
  <2>4. ASSUME NEW a \in Known, NEW c \in Known, a # c, span[a].emp = e, span[c].emp = e
        PROVE  ~Overlaps(span'[a], span'[c])
    BY <1>9, <2>2, <2>4 DEF Roster
  <2>5. SUFFICES ASSUME NEW a \in Known', NEW c \in Known', a # c,
                        span'[a].emp = e, span'[c].emp = e
                 PROVE  ~Overlaps(span'[a], span'[c])
    BY DEF Roster
  <2> QED  BY <1>8, <1>9, <2>3, <2>4, <2>5
<1>11. OwnDoc(h)' /\ OpenDoc(h)' /\ Free(h)'
  BY <1>4 DEF OwnDoc, OpenDoc, Free
<1>12. ASSUME NEW f \in lasting' \ severed' PROVE Lasts(f)'
  <2>1. CASE f = e /\ w.to = OpenEnd
    <3>1. b \in Known' /\ span'[b].emp = f /\ span'[b].to = OpenEnd
      BY <1>1, <1>5, <1>8, <2>1
    <3> QED  BY <3>1 DEF Lasts, OpenEnd
  <2>2. CASE ~(f = e /\ w.to = OpenEnd)
    <3>1. f \in lasting \ severed
      BY <1>2, <1>12, <2>2
    <3>2. Lasts(f)
      BY <3>1 DEF Rosters
    <3> QED  BY <1>0, <1>4, <1>8, <1>9, <2>2, <3>2, LastsStays
  <2> QED  BY <2>1, <2>2
<1>13. /\ muddled' \subseteq ShiftStaff /\ lasting' \subseteq ShiftStaff
       /\ rivalled' \subseteq rivalled \cup Rivals(h) /\ h \notin rivalled'
  BY <1>1, <1>2 DEF ShiftShape
<1> QED  BY <1>0, <1>2, <1>4, <1>6, <1>7, <1>10, <1>11, <1>12, <1>13, Stored

LEMMA ShiftStutters ==
    ShiftShape /\ Rosters /\ UNCHANGED <<pc, work, shiftVars>> => ShiftShape' /\ Rosters'
<1> SUFFICES ASSUME ShiftShape, Rosters, UNCHANGED <<pc, work, shiftVars>>
             PROVE  ShiftShape' /\ Rosters'
  OBVIOUS
<1>1. /\ pc' = pc /\ work' = work /\ span' = span /\ rivalled' = rivalled
      /\ muddled' = muddled /\ lasting' = lasting /\ severed' = severed
  BY DEF shiftVars
<1>2. ShiftShape'
  BY <1>1 DEF ShiftShape, Waiting
<1>3. \A a, b : Overlaps(span'[a], span'[b]) <=> Overlaps(span[a], span[b])
  BY <1>1
<1>4. \A a, h : Overlaps(span'[a], Wanted(work'[h])) <=> Overlaps(span[a], Wanted(work[h]))
  BY <1>1
<1>5. Rosters'
  BY <1>1, <1>3, <1>4
     DEF Rosters, Roster, OwnDoc, OpenDoc, Free, Lasts, Known, Waiting, OpenEnd
<1> QED  BY <1>2, <1>5

LEMMA ShiftKeeps ==
    ShiftShape /\ Rosters /\ [ShiftNext]_<<pc, work, shiftVars>> => ShiftShape' /\ Rosters'
<1> SUFFICES ASSUME ShiftShape, Rosters, [ShiftNext]_<<pc, work, shiftVars>>
             PROVE  ShiftShape' /\ Rosters'
  OBVIOUS
<1>1. CASE UNCHANGED <<pc, work, shiftVars>>
  BY <1>1, ShiftStutters
<1>2. ASSUME NEW h \in Handlers,
             NEW r \in ShiftRequests, AssignShift(h, r)
      PROVE  ShiftShape' /\ Rosters'
  BY <1>2, AssignShiftKeeps
<1>3. ASSUME NEW h \in Handlers, AssignRead(h) PROVE ShiftShape' /\ Rosters'
  BY <1>3, AssignReadKeeps
<1>4. ASSUME NEW h \in Handlers, AmendStore(h) PROVE ShiftShape' /\ Rosters'
  BY <1>4, AmendStoreKeeps
<1>5. ASSUME NEW h \in Handlers, CloseStore(h) PROVE ShiftShape' /\ Rosters'
  BY <1>5, CloseStoreKeeps
<1>6. ASSUME NEW h \in Handlers, CreateAssignment(h) PROVE ShiftShape' /\ Rosters'
  BY <1>6, CreateAssignmentKeeps
<1>7. ASSUME NEW h \in Handlers, ShiftFail(h) PROVE ShiftShape' /\ Rosters'
  BY <1>7, ShiftFailKeeps
<1> QED  BY <1>1, <1>2, <1>3, <1>4, <1>5, <1>6, <1>7 DEF ShiftNext

LEMMA ShiftTyped == ShiftShape => ShiftTypeOK
<1> SUFFICES ASSUME ShiftShape PROVE ShiftTypeOK
  OBVIOUS
<1>1. \A h \in Handlers : pc[h] \in ShiftPCs
  BY DEF ShiftShape
<1>2. ASSUME NEW h \in Handlers, pc[h] # "idle" PROVE ShiftWorks(work[h])
  <2>1. work[h] \in ShiftTasks
    BY <1>2 DEF ShiftShape
  <2>2. work[h].queue \in Seq(ShiftStaff)
    BY <2>1, ShiftTaskFields
  <2>3. \A i \in DOMAIN work[h].queue : work[h].queue[i] \in ShiftStaff
    BY <2>2
  <2> QED  BY <2>1, <2>3, ShiftTaskFields DEF ShiftWorks
<1>3. \A a \in Known : span[a].emp \in ShiftStaff
  BY DEF ShiftShape, Known, LongSpans
<1> QED  BY <1>1, <1>2, <1>3 DEF ShiftShape, ShiftTypeOK, Waiting

\* What every run of the shift assignments keeps: the state a handler and the
\* assignments are in.
THEOREM ShiftTypeCorrect == ShiftSpec => []ShiftTypeOK
<1>1. ShiftShape => ShiftTypeOK
  BY ShiftTyped
<1>2. ServingInit /\ ShiftInit => ShiftShape /\ Rosters
  BY ShiftStart
<1>3. ShiftShape /\ Rosters /\ [ShiftNext]_<<pc, work, shiftVars>> => (ShiftShape /\ Rosters)'
  BY ShiftKeeps
<1> QED  BY <1>1, <1>2, <1>3, PTL DEF ShiftSpec

LEMMA OneCovers ==
    ASSUME ShiftShape, NEW e, Roster(e), NEW d \in Days
    PROVE  Cardinality(Covering(e, d)) <= 1
<1>1. \A a, b \in Covering(e, d) : a = b
  <2> SUFFICES ASSUME NEW a \in Covering(e, d), NEW b \in Covering(e, d), a # b PROVE FALSE
    OBVIOUS
  <2>1. /\ a \in Known /\ span[a].emp = e /\ span[a].from <= d /\ d <= span[a].to
        /\ b \in Known /\ span[b].emp = e /\ span[b].from <= d /\ d <= span[b].to
    BY DEF Covering
  <2>2. /\ d \in Int /\ span[a].from \in Int /\ span[a].to \in Int
        /\ span[b].from \in Int /\ span[b].to \in Int
    BY <2>1, LastDayType DEF Known, ShiftShape, LongSpans
  <2> QED  BY <2>1, <2>2 DEF Roster, Overlaps
<1>2. CASE Covering(e, d) = {}
  BY <1>2, FS_EmptySet
<1>3. CASE Covering(e, d) # {}
  <2>1. PICK a \in Covering(e, d) : TRUE
    BY <1>3
  <2>2. Covering(e, d) = {a}
    BY <1>1, <2>1
  <2> QED  BY <2>2, FS_Singleton
<1> QED  BY <1>2, <1>3

LEMMA RostersKept == ShiftShape /\ Rosters => OneShiftADay
<1> SUFFICES ASSUME ShiftShape, Rosters, NEW e \in ShiftStaff \ muddled
             PROVE  /\ \A d \in Days : Cardinality(Covering(e, d)) <= 1
                    /\ e \in lasting \ severed =>
                          \/ \E a \in Covering(e, LastDay) : span[a].to = OpenEnd
                          \/ \E h \in Waiting({"create"}) : Head(work[h].queue) = e
  BY DEF OneShiftADay
<1>1. \A d \in Days : Cardinality(Covering(e, d)) <= 1
  BY OneCovers DEF Rosters
<1>2. ASSUME e \in lasting \ severed
      PROVE  \/ \E a \in Covering(e, LastDay) : span[a].to = OpenEnd
             \/ \E h \in Waiting({"create"}) : Head(work[h].queue) = e
  <2>1. Lasts(e)
    BY <1>2 DEF Rosters
  <2>2. ASSUME NEW a \in Known, span[a].emp = e, span[a].to = OpenEnd
        PROVE  a \in Covering(e, LastDay)
    <3>1. span[a].from \in Days
      BY <2>2 DEF Known, ShiftShape, LongSpans
    <3>2. span[a].from <= LastDay /\ LastDay <= span[a].to
      BY <2>2, <3>1, ShiftRosterAssumption DEF Days, OpenEnd
    <3> QED  BY <2>2, <3>2 DEF Covering
  <2> QED  BY <2>1, <2>2 DEF Lasts
<1> QED  BY <1>1, <1>2

\* No employee ever has two shifts on a day, nor is left without one while an
\* assignment without an end is being replaced, however many requests there are
\* at once: unless one of the failures OneShiftADay names has touched the
\* employee's roster.
THEOREM ShiftRosterCorrect == ShiftSpec => []OneShiftADay
<1>1. ShiftShape /\ Rosters => OneShiftADay
  BY RostersKept
<1>2. ServingInit /\ ShiftInit => ShiftShape /\ Rosters
  BY ShiftStart
<1>3. ShiftShape /\ Rosters /\ [ShiftNext]_<<pc, work, shiftVars>> => (ShiftShape /\ Rosters)'
  BY ShiftKeeps
<1> QED  BY <1>1, <1>2, <1>3, PTL DEF ShiftSpec

-----------------------------------------------------------------------------
(* Attendance by the clock: types                                           *)

LogEntries == [who : Workers, type : Punches, at : Moments, status : PunchStatus,
               late : 0..DayLength, fixes : Nat]
PunchTasks == [who : Workers, day : Int, upto : Nat]

\* A log corrects an earlier one, and only HR's do.
Corrects == \A n \in DOMAIN logs : /\ logs[n].fixes < n
                                   /\ logs[n].fixes # NoLog => logs[n].status = "MANUAL_ADJUSTED"

PunchShape == /\ pc \in [Handlers -> PunchPCs]
              /\ work = [h \in Handlers |-> work[h]]
              /\ \A h \in Handlers : pc[h] # "idle" => work[h] \in PunchTasks
              /\ lag \in {0, Zone} /\ now \in Moments
              /\ logs \in Seq(LogEntries) /\ Len(logs) <= MaxLogs
              /\ Corrects
              /\ odd \subseteq DOMAIN logs

LEMMA PunchGoto ==
    ASSUME PunchShape, NEW h \in Handlers, NEW to \in PunchPCs, NEW w, Goto(h, to, w),
           to # "idle" => w \in PunchTasks
    PROVE  /\ pc' \in [Handlers -> PunchPCs]
           /\ work' = [g \in Handlers |-> work'[g]]
           /\ \A g \in Handlers : pc'[g] # "idle" => work'[g] \in PunchTasks
           /\ pc'[h] = to /\ (to # "idle" => work'[h] = w)
           /\ \A g \in Handlers : g # h => pc'[g] = pc[g] /\ work'[g] = work[g]
BY DEF PunchShape, Goto

LEMMA LogFields ==
    ASSUME PunchShape
    PROVE  /\ Len(logs) \in Nat /\ DOMAIN logs = 1..Len(logs)
           /\ \A n \in DOMAIN logs :
                /\ n \in Nat /\ n # 0 /\ n <= Len(logs)
                /\ logs[n] \in LogEntries
                /\ logs[n].who \in Workers /\ logs[n].type \in Punches
                /\ logs[n].at \in Moments /\ logs[n].at \in Nat
                /\ logs[n].status \in PunchStatus
                /\ logs[n].late \in 0..DayLength /\ logs[n].fixes \in Nat
<1>1. Len(logs) \in Nat /\ DOMAIN logs = 1..Len(logs)
  BY DEF PunchShape
<1>2. \A n \in DOMAIN logs : logs[n] \in LogEntries
  BY DEF PunchShape
<1>3. \A n \in DOMAIN logs : n \in Nat /\ n # 0 /\ n <= Len(logs)
  BY <1>1
<1>4. Moments \subseteq Nat
  BY PunchClockAssumption DEF Moments
<1> QED  BY <1>1, <1>2, <1>3, <1>4 DEF LogEntries

LEMMA PunchTaskFields ==
    ASSUME NEW w \in PunchTasks
    PROVE  w.who \in Workers /\ w.day \in Int /\ w.upto \in Nat
BY DEF PunchTasks

-----------------------------------------------------------------------------
(* Attendance by the clock: days                                            *)

LEMMA DayFacts ==
    ASSUME NEW t \in Int
    PROVE  /\ t \div DayLength \in Int /\ t % DayLength \in Int
           /\ 0 <= t % DayLength /\ t % DayLength < DayLength
           /\ t = DayLength * (t \div DayLength) + (t % DayLength)
BY PunchClockAssumption

\* A time is on day d if it is between its midnight and the next.
LEMMA OnDay ==
    ASSUME NEW t \in Int, NEW d \in Int
    PROVE  t \div DayLength = d <=> d * DayLength <= t /\ t < d * DayLength + DayLength
BY PunchClockAssumption

LEMMA LaterDay ==
    ASSUME NEW c \in Int, NEW d \in Int, c < d
    PROVE  c * DayLength + DayLength <= d * DayLength
BY PunchClockAssumption

LEMMA ClockTypes ==
    ASSUME PunchShape
    PROVE  /\ DayLength \in Int /\ Zone \in Int /\ 0 <= Zone /\ Zone < DayLength
           /\ lag \in Int /\ 0 <= lag /\ lag <= Zone /\ now \in Nat
           /\ \A t \in Int : ServerDay(t) \in Int /\ BangkokDay(t) \in Int
                             /\ UTCDay(t) \in Int /\ Minute(t) \in Int
<1>1. /\ DayLength \in Int /\ Zone \in Int /\ 0 <= Zone /\ Zone < DayLength
      /\ lag \in Int /\ 0 <= lag /\ lag <= Zone /\ now \in Nat
  BY PunchClockAssumption DEF PunchShape, Moments
<1>2. \A t \in Int : t - lag \in Int /\ t - Zone \in Int
  BY <1>1
<1> QED  BY <1>1, <1>2, DayFacts DEF ServerDay, BangkokDay, UTCDay, Minute

-----------------------------------------------------------------------------
(* Attendance by the clock: what handlers and logs have in common           *)

Plain(n) == logs[n].status # "MANUAL_ADJUSTED"

\* A log that HR did not touch was made at its time, by the schedule ...
Timely(n) == Plain(n) => /\ logs[n].at <= now
                         /\ logs[n].status = "LATE" => logs[n].late > 0
\* ... two check-ins of an employee are on different days of the server ...
Apart(n, m) ==
    n # m /\ logs[n].who = logs[m].who /\ Plain(n) /\ Plain(m)
    /\ logs[n].type = "CHECK_IN" /\ logs[m].type = "CHECK_IN" =>
        ServerDay(logs[n].at) # ServerDay(logs[m].at)
\* ... and on the day of a check-out the employee came, or HR says otherwise.
CameOn(m, e, u) ==
    /\ logs[m].who = e
    /\ Plain(m) => logs[m].type = "CHECK_IN" /\ ServerDay(logs[m].at) = u
Came(n) ==
    Plain(n) /\ logs[n].type = "CHECK_OUT" =>
        \E m \in DOMAIN logs : /\ CameOn(m, logs[n].who, ServerDay(logs[n].at))
                               /\ Plain(m) => logs[m].at <= logs[n].at

\* What a handler saw when it looked for a check-in of the day.
Saw(h) ==
    pc[h] # "idle" =>
        /\ work[h].upto <= Len(logs)
        /\ pc[h] = "punchIn" =>
             \A m \in DOMAIN logs : m <= work[h].upto /\ Plain(m) =>
                 ~(CameOn(m, work[h].who, work[h].day))
        /\ pc[h] = "punchOut" => \E m \in DOMAIN logs : CameOn(m, work[h].who, work[h].day)

ByDay == /\ \A n \in DOMAIN logs : Timely(n)
         /\ \A n, m \in DOMAIN logs \ odd : Apart(n, m)
         /\ \A n \in DOMAIN logs \ odd : Came(n)
         /\ \A h \in Handlers : Saw(h)

\* Logs stay, and change only at HR's hands; time passes.
Continues == /\ lag' = lag /\ now <= now' /\ now' \in Nat /\ odd \subseteq odd'
             /\ Len(logs) <= Len(logs') /\ Len(logs') \in Nat
             /\ \A m \in DOMAIN logs : /\ m \in DOMAIN logs' /\ logs'[m].who = logs[m].who
                                       /\ logs'[m] # logs[m] => logs'[m].status = "MANUAL_ADJUSTED"
             /\ \A m \in DOMAIN logs' \ DOMAIN logs : m > Len(logs) /\ m \in Nat

LEMMA SameDay ==
    ASSUME Continues PROVE \A t : ServerDay(t)' = ServerDay(t)
BY DEF Continues, ServerDay

LEMMA CameStays ==
    ASSUME Continues, NEW m \in DOMAIN logs, NEW e, NEW u, CameOn(m, e, u)
    PROVE  CameOn(m, e, u)'
<1>1. CASE logs'[m] = logs[m]
  BY <1>1 DEF CameOn, Plain, Continues, ServerDay
<1>2. CASE logs'[m] # logs[m]
  BY <1>2 DEF CameOn, Plain, Continues
<1> QED  BY <1>1, <1>2

LEMMA SawStays ==
    ASSUME PunchShape, Continues, NEW h \in Handlers, Saw(h),
           pc'[h] = "idle" \/ (pc'[h] = pc[h] /\ work'[h] = work[h])
    PROVE  Saw(h)'
<1>1. CASE pc'[h] = "idle"
  BY <1>1 DEF Saw
<1>2. CASE pc'[h] # "idle"
  <2>1. PICK w : w = work[h]
    OBVIOUS
  <2>2. pc'[h] = pc[h] /\ work'[h] = w /\ w \in PunchTasks
    BY <1>2, <2>1 DEF PunchShape
  <2>3. w.upto <= Len(logs) /\ w.upto <= Len(logs')
    <3>1. w.upto <= Len(logs) /\ w.upto \in Nat
      BY <1>2, <2>1, <2>2, PunchTaskFields DEF Saw
    <3> QED  BY <3>1, LogFields DEF Continues
  <2>4. ASSUME pc[h] = "punchIn", NEW m \in DOMAIN logs', m <= w.upto, Plain(m)'
        PROVE  ~CameOn(m, w.who, w.day)'
    <3>1. m \in DOMAIN logs
      <4>1. w.upto \in Nat /\ Len(logs) \in Nat
        BY <2>2, PunchTaskFields, LogFields
      <4> QED  BY <2>3, <2>4, <4>1 DEF Continues
    <3>2. logs'[m] = logs[m] /\ Plain(m)
      BY <2>4, <3>1 DEF Continues, Plain
    <3>3. ~CameOn(m, w.who, w.day)
      BY <2>1, <2>4, <3>1, <3>2 DEF Saw
    <3> QED  BY <3>2, <3>3, SameDay DEF CameOn, Plain
  <2>5. ASSUME pc[h] = "punchOut" PROVE \E m \in DOMAIN logs' : CameOn(m, w.who, w.day)'
    <3>1. PICK m \in DOMAIN logs : CameOn(m, w.who, w.day)
      BY <2>1, <2>5 DEF Saw
    <3> QED  BY <3>1, CameStays DEF Continues
  <2> QED  BY <2>2, <2>3, <2>4, <2>5 DEF Saw
<1> QED  BY <1>1, <1>2

\* What is true of the logs there are stays true of them.
LEMMA OldLogs ==
    ASSUME PunchShape, ByDay, Continues, NEW n \in DOMAIN logs
    PROVE  /\ Timely(n)'
           /\ n \notin odd' => Came(n)'
           /\ \A m \in DOMAIN logs : n \notin odd' /\ m \notin odd' => Apart(n, m)'
<1>1. \A m \in DOMAIN logs : Plain(m)' => logs'[m] = logs[m] /\ Plain(m)
  BY DEF Continues, Plain
<1>2. Timely(n)'
  <2>1. logs[n].at \in Nat /\ now \in Nat /\ now' \in Nat /\ now <= now'
    BY LogFields, ClockTypes DEF Continues
  <2> QED  BY <1>1, <2>1 DEF ByDay, Timely
<1>3. ASSUME n \notin odd', Plain(n)', logs'[n].type = "CHECK_OUT"
      PROVE  Came(n)'
  <2>1. logs'[n] = logs[n] /\ Plain(n) /\ n \notin odd
    BY <1>1, <1>3 DEF Continues
  <2>2. PICK e, t : e = logs[n].who /\ t = ServerDay(logs[n].at)
    OBVIOUS
  <2>3. PICK m \in DOMAIN logs : CameOn(m, e, t) /\ (Plain(m) => logs[m].at <= logs[n].at)
    BY <1>3, <2>1, <2>2 DEF ByDay, Came
  <2>4. CameOn(m, e, t)' /\ (Plain(m)' => logs'[m].at <= logs'[n].at)
    BY <1>1, <2>1, <2>3, CameStays
  <2>5. e = logs'[n].who /\ t = ServerDay(logs[n].at)'
    BY <2>1, <2>2 DEF ServerDay, Continues
  <2> QED  BY <2>3, <2>4, <2>5 DEF Came, Continues
<1>4. ASSUME NEW m \in DOMAIN logs, n \notin odd', m \notin odd' PROVE Apart(n, m)'
  <2>1. n \notin odd /\ m \notin odd
    BY <1>4 DEF Continues
  <2>2. Apart(n, m)
    BY <1>4, <2>1 DEF ByDay
  <2> QED  BY <1>1, <1>4, <2>2, SameDay DEF Apart
<1> QED  BY <1>2, <1>3, <1>4 DEF Came

-----------------------------------------------------------------------------
(* Attendance by the clock: steps                                           *)

\* calculateCheckInStatus()
LEMMA ClockStatus ==
    ASSUME PunchShape, NEW s \in Timetables \cup {NoTimetable}
    PROVE  /\ LateMinutes(s) \in 0..DayLength
           /\ CheckInStatus(s) \in PunchStatus \ {"MANUAL_ADJUSTED"}
           /\ CheckInStatus(s) = "LATE" => LateMinutes(s) > 0
           /\ CheckOutStatus(s) \in {"NORMAL", "EARLY_LEAVE"}
<1>1. LateMinutes(s) \in 0..DayLength
  <2>1. CASE s = NoTimetable \/ Minute(now) <= s.start
    BY <2>1, ClockTypes DEF LateMinutes
  <2>2. CASE ~(s = NoTimetable \/ Minute(now) <= s.start)
    <3>1. s.start \in 0..(DayLength - 1)
      BY <2>2, PunchClockAssumption
    <3>2. Minute(now) \in Int /\ 0 <= Minute(now) /\ Minute(now) < DayLength
      BY ClockTypes, DayFacts DEF Minute
    <3>3. ~(Minute(now) <= s.start)
      BY <2>2
    <3> QED  BY <2>2, <3>1, <3>2, <3>3, ClockTypes DEF LateMinutes
  <2> QED  BY <2>1, <2>2
<1>2. CheckInStatus(s) \in PunchStatus \ {"MANUAL_ADJUSTED"}
  BY DEF CheckInStatus, PunchStatus
<1>3. CheckInStatus(s) = "LATE" => LateMinutes(s) > 0
  <2>1. CASE LateMinutes(s) = 0
    BY <2>1 DEF CheckInStatus
  <2> QED  BY <1>1, <2>1, ClockTypes
<1> QED  BY <1>1, <1>2, <1>3 DEF CheckOutStatus

\* A log is added ...
LEMMA Grown ==
    ASSUME PunchShape, NEW l \in LogEntries, logs' = Append(logs, l), NEW n, n = Len(logs),
           n < MaxLogs, odd' \in {odd, odd \cup {n + 1}}, lag' = lag, now' = now,
           l.fixes <= n, l.fixes # NoLog => l.status = "MANUAL_ADJUSTED",
           pc' \in [Handlers -> PunchPCs], work' = [g \in Handlers |-> work'[g]],
           \A g \in Handlers : pc'[g] # "idle" => work'[g] \in PunchTasks
    PROVE  /\ PunchShape' /\ Continues
           /\ n \in Nat /\ n + 1 \notin DOMAIN logs /\ n + 1 \notin odd
           /\ DOMAIN logs' = DOMAIN logs \cup {n + 1} /\ logs'[n + 1] = l
           /\ \A m \in DOMAIN logs : logs'[m] = logs[m]
<1>1. n \in Nat /\ DOMAIN logs = 1..n /\ n + 1 \notin DOMAIN logs /\ n + 1 \notin odd
  <2>1. n \in Nat /\ DOMAIN logs = 1..n
    BY LogFields
  <2>2. n + 1 \notin 1..n
    BY <2>1
  <2> QED  BY <2>1, <2>2 DEF PunchShape
<1>2. logs \in Seq(LogEntries)
  BY DEF PunchShape
<1>3. logs' \in Seq(LogEntries) /\ Len(logs') = n + 1 /\ DOMAIN logs' = 1..(n + 1)
  <2> HIDE DEF LogEntries
  <2> QED  BY <1>1, <1>2
<1>4. logs'[n + 1] = l /\ \A m \in 1..n : logs'[m] = logs[m]
  <2> HIDE DEF LogEntries
  <2> QED  BY <1>1, <1>2
<1>5. DOMAIN logs' = DOMAIN logs \cup {n + 1}
  BY <1>1, <1>3
<1>6. Corrects'
  <2>1. \A m \in 1..n : logs'[m].fixes < m /\ (logs'[m].fixes # NoLog => logs'[m].status = "MANUAL_ADJUSTED")
    BY <1>1, <1>4 DEF PunchShape, Corrects
  <2>2. l.fixes < n + 1
    BY <1>1 DEF LogEntries
  <2> QED  BY <1>1, <1>4, <1>5, <2>1, <2>2 DEF Corrects
<1>7. PunchShape'
  <2>1. n + 1 <= MaxLogs
    BY <1>1, PunchClockAssumption
  <2> QED  BY <1>3, <1>5, <1>6, <2>1 DEF PunchShape
<1>8. Continues
  <2>1. now <= now' /\ now' \in Nat
    BY ClockTypes
  <2> QED  BY <1>1, <1>3, <1>4, <1>5, <2>1 DEF Continues
<1> QED  BY <1>1, <1>4, <1>5, <1>7, <1>8

\* ... and what is left to show is about it.
LEMMA NewLog ==
    ASSUME PunchShape, ByDay, Continues, NEW k, DOMAIN logs' = DOMAIN logs \cup {k},
           \A g \in Handlers : pc'[g] = "idle" \/ (pc'[g] = pc[g] /\ work'[g] = work[g]),
           Timely(k)',
           k \notin odd' => Came(k)' /\ \A m \in DOMAIN logs : m \notin odd' => Apart(m, k)'
    PROVE  ByDay'
<1>1. \A g \in Handlers : Saw(g)'
  BY SawStays DEF ByDay
<1>2. \A n \in DOMAIN logs : /\ Timely(n)' /\ (n \notin odd' => Came(n)')
                             /\ \A m \in DOMAIN logs : n \notin odd' /\ m \notin odd' => Apart(n, m)'
  BY OldLogs
<1>3. ASSUME NEW n \in DOMAIN logs' \ odd', NEW m \in DOMAIN logs' \ odd' PROVE Apart(n, m)'
  <2>1. CASE n \in DOMAIN logs /\ m \in DOMAIN logs
    BY <1>2, <1>3, <2>1
  <2>2. CASE n = k /\ m = k
    BY <2>2 DEF Apart
  <2>3. CASE m = k /\ n \in DOMAIN logs
    BY <1>3, <2>3
  <2>4. CASE n = k /\ m \in DOMAIN logs
    <3>1. Apart(m, k)'
      BY <1>3, <2>4
    <3> QED  BY <2>4, <3>1 DEF Apart
  <2> QED  BY <1>3, <2>1, <2>2, <2>3, <2>4
<1> QED  BY <1>1, <1>2, <1>3 DEF ByDay

LEMMA ClockInCreateKeeps ==
    ASSUME PunchShape, ByDay, NEW h \in Handlers, NEW s \in Timetables \cup {NoTimetable},
           ClockInCreate(h, s)
    PROVE  PunchShape' /\ ByDay'
<1>1. PICK w, n, l : /\ w = work[h] /\ n = Len(logs)
                     /\ l = [who |-> w.who, type |-> "CHECK_IN", at |-> now,
                             status |-> CheckInStatus(s), late |-> LateMinutes(s), fixes |-> NoLog]
  OBVIOUS
<1>2. /\ pc[h] = "punchIn" /\ n < MaxLogs /\ logs' = Append(logs, l)
      /\ odd' = IF w.day # ServerDay(now) \/ \E m \in TodayCheckIns(w.who) : m > w.upto
                THEN odd \cup {n + 1} ELSE odd
      /\ Leave(h) /\ lag' = lag /\ now' = now
  BY <1>1 DEF ClockInCreate, Room, Store
<1>3. w \in PunchTasks /\ w.who \in Workers /\ w.upto \in Nat
  BY <1>1, <1>2, PunchTaskFields DEF PunchShape
<1>4. l \in LogEntries /\ l.fixes = NoLog
  BY <1>1, <1>3, ClockStatus DEF LogEntries, Punches, PunchShape, NoLog
<1>5. /\ pc' \in [Handlers -> PunchPCs]
      /\ work' = [g \in Handlers |-> work'[g]]
      /\ \A g \in Handlers : pc'[g] # "idle" => work'[g] \in PunchTasks
      /\ \A g \in Handlers : pc'[g] = "idle" \/ (pc'[g] = pc[g] /\ work'[g] = work[g])
  BY <1>2, PunchGoto DEF Leave, PunchPCs
<1>6. /\ PunchShape' /\ Continues
      /\ n \in Nat /\ n + 1 \notin DOMAIN logs /\ n + 1 \notin odd
      /\ DOMAIN logs' = DOMAIN logs \cup {n + 1} /\ logs'[n + 1] = l
      /\ \A m \in DOMAIN logs : logs'[m] = logs[m]
  <2>1. l.fixes <= n
    BY <1>1, <1>4, LogFields DEF NoLog
  <2>2. odd' \in {odd, odd \cup {n + 1}}
    BY <1>2
  <2> HIDE DEF LogEntries
  <2> QED  BY <1>1, <1>2, <1>4, <1>5, <2>1, <2>2, Grown
<1>7. Timely(n + 1)'
  <2>1. /\ logs'[n + 1].at = now /\ now \in Nat
        /\ logs'[n + 1].status = CheckInStatus(s) /\ logs'[n + 1].late = LateMinutes(s)
    BY <1>1, <1>6, ClockTypes
  <2>2. CheckInStatus(s) = "LATE" => LateMinutes(s) > 0
    BY ClockStatus
  <2> QED  BY <1>2, <2>1, <2>2 DEF Timely
<1>8. Came(n + 1)'
  BY <1>1, <1>6 DEF Came
\* Nobody of the day was there when the handler looked, or came after.
<1>9. ASSUME n + 1 \notin odd', NEW m \in DOMAIN logs PROVE Apart(m, n + 1)'
  <2>1. w.day = ServerDay(now) /\ \A k \in TodayCheckIns(w.who) : ~(k > w.upto)
    BY <1>2, <1>9
  <2>2. SUFFICES ASSUME logs[m].who = w.who, Plain(m), logs[m].type = "CHECK_IN",
                        ServerDay(logs[m].at) = ServerDay(now)
                 PROVE  FALSE
    BY <1>1, <1>2, <1>6, SameDay DEF Apart, Plain
  <2>3. m \in TodayCheckIns(w.who)
    BY <2>2 DEF TodayCheckIns, TodayLogs, Plain
  <2>4. m <= w.upto
    <3>1. m \in Nat
      BY LogFields
    <3> QED  BY <1>3, <2>1, <2>3, <3>1
  <2>5. CameOn(m, w.who, w.day)
    BY <2>1, <2>2 DEF CameOn
  <2> QED  BY <1>1, <1>2, <2>2, <2>4, <2>5 DEF ByDay, Saw
<1> QED  BY <1>5, <1>6, <1>7, <1>8, <1>9, NewLog

LEMMA ClockOutCreateKeeps ==
    ASSUME PunchShape, ByDay, NEW h \in Handlers, NEW s \in Timetables \cup {NoTimetable},
           NEW reason, ClockOutCreate(h, s, reason)
    PROVE  PunchShape' /\ ByDay'
<1>1. PICK w, n, l : /\ w = work[h] /\ n = Len(logs)
                     /\ l = [who |-> w.who, type |-> "CHECK_OUT", at |-> now,
                             status |-> CheckOutStatus(s), late |-> 0, fixes |-> NoLog]
  OBVIOUS
<1>2. /\ pc[h] = "punchOut" /\ n < MaxLogs /\ logs' = Append(logs, l)
      /\ odd' = IF w.day # ServerDay(now) THEN odd \cup {n + 1} ELSE odd
      /\ Leave(h) /\ lag' = lag /\ now' = now
  BY <1>1 DEF ClockOutCreate, Room, Store
<1>3. w \in PunchTasks /\ w.who \in Workers
  BY <1>1, <1>2, PunchTaskFields DEF PunchShape
<1>4. l \in LogEntries /\ l.fixes = NoLog
  <2>1. 0 \in 0..DayLength /\ CheckOutStatus(s) \in PunchStatus
    BY ClockStatus, ClockTypes DEF PunchStatus
  <2> QED  BY <1>1, <1>3, <2>1 DEF LogEntries, Punches, PunchShape, NoLog
<1>5. /\ pc' \in [Handlers -> PunchPCs]
      /\ work' = [g \in Handlers |-> work'[g]]
      /\ \A g \in Handlers : pc'[g] # "idle" => work'[g] \in PunchTasks
      /\ \A g \in Handlers : pc'[g] = "idle" \/ (pc'[g] = pc[g] /\ work'[g] = work[g])
  BY <1>2, PunchGoto DEF Leave, PunchPCs
<1>6. /\ PunchShape' /\ Continues
      /\ n \in Nat /\ n + 1 \notin DOMAIN logs /\ n + 1 \notin odd
      /\ DOMAIN logs' = DOMAIN logs \cup {n + 1} /\ logs'[n + 1] = l
      /\ \A m \in DOMAIN logs : logs'[m] = logs[m]
  <2>1. l.fixes <= n
    BY <1>1, <1>4, LogFields DEF NoLog
  <2>2. odd' \in {odd, odd \cup {n + 1}}
    BY <1>2
  <2> HIDE DEF LogEntries
  <2> QED  BY <1>1, <1>2, <1>4, <1>5, <2>1, <2>2, Grown
<1>7. Timely(n + 1)'
  <2>1. /\ logs'[n + 1].at = now /\ now \in Nat
        /\ logs'[n + 1].status = CheckOutStatus(s)
    BY <1>1, <1>6, ClockTypes
  <2>2. CheckOutStatus(s) # "LATE"
    BY ClockStatus
  <2> QED  BY <1>2, <2>1, <2>2 DEF Timely
\* The check-in the handler saw is still there, or HR changed it.
<1>8. ASSUME n + 1 \notin odd' PROVE Came(n + 1)'
  <2>1. w.day = ServerDay(now)
    BY <1>2, <1>8
  <2>2. PICK m \in DOMAIN logs : CameOn(m, w.who, w.day)
    BY <1>1, <1>2 DEF ByDay, Saw
  <2>3. CameOn(m, w.who, w.day)' /\ m \in DOMAIN logs'
    BY <1>6, <2>2, CameStays
  <2>4. Plain(m)' => logs'[m].at <= now
    BY <1>6, <2>2 DEF Plain, ByDay, Timely
  <2>5. w.who = logs'[n + 1].who /\ now = logs'[n + 1].at
    BY <1>1, <1>6
  <2>6. w.day = ServerDay(logs[n + 1].at)'
    BY <1>2, <2>1, <2>5 DEF ServerDay
  <2> QED  BY <2>3, <2>4, <2>5, <2>6 DEF Came
<1>9. ASSUME NEW m \in DOMAIN logs PROVE Apart(m, n + 1)'
  BY <1>1, <1>6 DEF Apart
<1> QED  BY <1>5, <1>6, <1>7, <1>8, <1>9, NewLog

LEMMA NothingPunched ==
    ASSUME PunchShape, ByDay, UNCHANGED <<lag, logs, odd>>, now <= now', now' \in Moments
    PROVE  Continues /\ \A n, m \in DOMAIN logs : /\ Timely(n)'
                                                  /\ n \notin odd => Came(n)'
                                                  /\ n \notin odd /\ m \notin odd => Apart(n, m)'
<1>1. Continues
  <2>1. Len(logs) \in Nat /\ Len(logs) <= Len(logs)
    BY LogFields
  <2>2. now' \in Nat
    BY PunchClockAssumption DEF Moments
  <2> QED  BY <2>1, <2>2 DEF Continues
<1> QED  BY <1>1, OldLogs

LEMMA QuietPunch ==
    ASSUME PunchShape, ByDay, UNCHANGED <<lag, logs, odd>>, now <= now', now' \in Moments,
           pc' \in [Handlers -> PunchPCs], work' = [g \in Handlers |-> work'[g]],
           \A g \in Handlers : pc'[g] # "idle" => work'[g] \in PunchTasks,
           \A g \in Handlers : Saw(g)'
    PROVE  PunchShape' /\ ByDay'
<1>1. PunchShape'
  BY DEF PunchShape, Corrects
<1> QED  BY <1>1, NothingPunched DEF ByDay

LEMMA SeenFields ==
    ASSUME PunchShape, NEW e \in Workers
    PROVE  /\ SeenToday(e) \in PunchTasks /\ SeenToday(e).who = e
           /\ SeenToday(e).day = ServerDay(now) /\ SeenToday(e).upto = Len(logs)
BY LogFields, ClockTypes DEF SeenToday, PunchTasks

LEMMA TodaySeen ==
    ASSUME NEW e, NEW m \in DOMAIN logs
    PROVE  Plain(m) => (m \in TodayCheckIns(e) <=> CameOn(m, e, ServerDay(now)))
BY DEF Plain, TodayCheckIns, TodayLogs, CameOn

LEMMA ClockReadKeeps ==
    ASSUME PunchShape, ByDay, NEW h \in Handlers, NEW e \in Workers,
           ClockInRead(h, e) \/ ClockOutRead(h, e)
    PROVE  PunchShape' /\ ByDay'
<1>1. PICK w, to : /\ w = SeenToday(e)
                   /\ to = IF ClockInRead(h, e) THEN "punchIn" ELSE "punchOut"
  OBVIOUS
<1>2. /\ pc[h] = "idle" /\ Goto(h, to, w) /\ UNCHANGED <<lag, logs, odd, now>>
      /\ to = "punchIn" => TodayCheckIns(e) = {}
      /\ to = "punchOut" => TodayCheckIns(e) # {}
  BY <1>1 DEF ClockInRead, ClockOutRead, Enter, punchVars
<1>3. /\ w \in PunchTasks /\ w.who = e /\ w.day = ServerDay(now) /\ w.upto = Len(logs)
  BY <1>1, SeenFields
<1>4. /\ pc' \in [Handlers -> PunchPCs]
      /\ work' = [g \in Handlers |-> work'[g]]
      /\ \A g \in Handlers : pc'[g] # "idle" => work'[g] \in PunchTasks
      /\ pc'[h] = to /\ work'[h] = w
      /\ \A g \in Handlers : g # h => pc'[g] = pc[g] /\ work'[g] = work[g]
  BY <1>1, <1>2, <1>3, PunchGoto DEF PunchPCs
<1>5. now <= now' /\ now' \in Moments
  BY <1>2, ClockTypes DEF PunchShape
<1>6. Continues
  BY <1>2, <1>5, NothingPunched
<1>7. Saw(h)'
  <2>1. Len(logs) \in Nat /\ w.upto <= Len(logs)
    BY <1>3, LogFields
  <2>2. ASSUME to = "punchIn", NEW m \in DOMAIN logs, Plain(m)
        PROVE  ~CameOn(m, e, w.day)
    BY <1>2, <1>3, <2>2, TodaySeen
  <2>3. ASSUME to = "punchOut" PROVE \E m \in DOMAIN logs : CameOn(m, e, w.day)
    <3>1. PICK m \in TodayCheckIns(e) : TRUE
      BY <1>2, <2>3
    <3>2. m \in DOMAIN logs /\ Plain(m)
      BY <3>1 DEF TodayCheckIns, TodayLogs, Plain
    <3> QED  BY <1>3, <3>1, <3>2, TodaySeen
  <2>4. \A m \in DOMAIN logs : CameOn(m, e, w.day)' <=> CameOn(m, e, w.day)
    BY <1>2 DEF CameOn, Plain, ServerDay
  <2>5. \A m : Plain(m)' <=> Plain(m)
    BY <1>2 DEF Plain
  <2> QED  BY <1>2, <1>3, <1>4, <2>1, <2>2, <2>3, <2>4, <2>5 DEF Saw
<1>8. \A g \in Handlers : Saw(g)'
  BY <1>4, <1>6, <1>7, SawStays DEF ByDay
<1> QED  BY <1>2, <1>4, <1>5, <1>8, QuietPunch

\* A request ends, time passes, or nothing happens.
LEMMA PunchEndKeeps ==
    ASSUME PunchShape, ByDay,
           PassTime \/ (\E h \in Handlers : PunchRefused(h)) \/ UNCHANGED <<pc, work, punchVars>>
    PROVE  PunchShape' /\ ByDay'
<1>1. UNCHANGED <<lag, logs, odd>> /\ now <= now' /\ now' \in Moments
  <2>1. CASE PassTime
    <3>1. now \in Nat /\ now < LastMoment /\ now' = now + 1
      BY <2>1, ClockTypes DEF PassTime
    <3> QED  BY <2>1, <3>1, PunchClockAssumption DEF PassTime, Moments
  <2>2. CASE UNCHANGED punchVars
    BY <2>2, ClockTypes DEF punchVars, PunchShape
  <2> QED  BY <2>1, <2>2 DEF PunchRefused
<1>2. /\ pc' \in [Handlers -> PunchPCs] /\ work' = [g \in Handlers |-> work'[g]]
      /\ \A g \in Handlers : pc'[g] # "idle" => work'[g] \in PunchTasks
      /\ \A g \in Handlers : pc'[g] = "idle" \/ (pc'[g] = pc[g] /\ work'[g] = work[g])
  <2>1. CASE UNCHANGED <<pc, work>>
    BY <2>1 DEF PunchShape
  <2>2. ASSUME NEW h \in Handlers, PunchRefused(h)
        PROVE  /\ pc' \in [Handlers -> PunchPCs] /\ work' = [g \in Handlers |-> work'[g]]
               /\ \A g \in Handlers : pc'[g] # "idle" => work'[g] \in PunchTasks
               /\ \A g \in Handlers : pc'[g] = "idle" \/ (pc'[g] = pc[g] /\ work'[g] = work[g])
    BY <2>2, PunchGoto DEF PunchRefused, Abandoned, Leave, PunchPCs
  <2> QED  BY <2>1, <2>2 DEF PassTime
<1>3. Continues
  BY <1>1, NothingPunched
<1>4. \A g \in Handlers : Saw(g)'
  BY <1>2, <1>3, SawStays DEF ByDay
<1> QED  BY <1>1, <1>2, <1>4, QuietPunch

\* HR adds a log ...
LEMMA CorrectKeeps ==
    ASSUME PunchShape, ByDay, NEW h \in Handlers, NEW e \in Workers, NEW type \in Punches,
           NEW t \in FixMoments, NEW f \in {NoLog} \cup DOMAIN logs, Correct(h, e, type, f, t)
    PROVE  PunchShape' /\ ByDay'
<1>1. PICK n, l : /\ n = Len(logs)
                  /\ l = [who |-> e, type |-> type, at |-> t,
                          status |-> "MANUAL_ADJUSTED", late |-> 0, fixes |-> f]
  OBVIOUS
<1>2. /\ n < MaxLogs /\ logs' = Append(logs, l) /\ odd' = odd /\ lag' = lag /\ now' = now
      /\ pc' = pc /\ work' = work
  BY <1>1 DEF Correct, AtOnce, Room, Store
<1>3. l \in LogEntries /\ l.fixes <= n /\ l.status = "MANUAL_ADJUSTED"
  <2>1. t \in Moments /\ 0 \in 0..DayLength
    BY PunchClockAssumption DEF Moments
  <2>2. f \in Nat /\ f <= n
    BY <1>1, LogFields DEF NoLog
  <2> QED  BY <1>1, <2>1, <2>2 DEF LogEntries, PunchStatus
<1>4. /\ pc' \in [Handlers -> PunchPCs]
      /\ work' = [g \in Handlers |-> work'[g]]
      /\ \A g \in Handlers : pc'[g] # "idle" => work'[g] \in PunchTasks
  BY <1>2 DEF PunchShape
<1>5. /\ PunchShape' /\ Continues
      /\ DOMAIN logs' = DOMAIN logs \cup {n + 1} /\ logs'[n + 1] = l
  <2> HIDE DEF LogEntries
  <2> QED  BY <1>1, <1>2, <1>3, <1>4, Grown
<1>6. ~Plain(n + 1)'
  BY <1>3, <1>5 DEF Plain
<1>7. Timely(n + 1)' /\ Came(n + 1)' /\ \A m \in DOMAIN logs : Apart(m, n + 1)'
  BY <1>6 DEF Timely, Came, Apart
<1> QED  BY <1>2, <1>5, <1>7, NewLog

\* ... or changes one.
LEMMA AdjustPunchKeeps ==
    ASSUME PunchShape, ByDay, NEW h \in Handlers, NEW type \in Punches, NEW t \in FixMoments,
           NEW n \in DOMAIN logs, AdjustPunch(h, n, type, t)
    PROVE  PunchShape' /\ ByDay'
<1>1. PICK l : l = [who |-> logs[n].who, type |-> type, at |-> t,
                    status |-> "MANUAL_ADJUSTED", late |-> logs[n].late, fixes |-> logs[n].fixes]
  OBVIOUS
<1>2. t \in Moments
  BY PunchClockAssumption DEF Moments
<1>3. l \in LogEntries
  BY <1>1, <1>2, LogFields DEF LogEntries, PunchStatus
<1>4. /\ logs' = [logs EXCEPT ![n].status = "MANUAL_ADJUSTED", ![n].type = type, ![n].at = t]
      /\ UNCHANGED <<pc, work, lag, now, odd>>
  BY DEF AdjustPunch, AtOnce
<1>5. logs' = [logs EXCEPT ![n] = l]
  <2>1. logs[n] \in LogEntries
    BY LogFields
  <2>2. l = [logs[n] EXCEPT !.status = "MANUAL_ADJUSTED", !.type = type, !.at = t]
    <3>1. PICK x : x = logs[n]
      OBVIOUS
    <3>2. x = [who |-> x.who, type |-> x.type, at |-> x.at, status |-> x.status,
               late |-> x.late, fixes |-> x.fixes]
      BY <2>1, <3>1 DEF LogEntries
    <3>3. PICK y : y = [x EXCEPT !.status = "MANUAL_ADJUSTED", !.type = type, !.at = t]
      OBVIOUS
    <3>4. y = [who |-> x.who, type |-> type, at |-> t, status |-> "MANUAL_ADJUSTED",
               late |-> x.late, fixes |-> x.fixes]
      BY <3>2, <3>3
    <3> QED  BY <1>1, <3>1, <3>3, <3>4
  <2> QED  BY <1>4, <2>2
<1>6. logs \in Seq(LogEntries) /\ n \in 1..Len(logs)
  BY LogFields DEF PunchShape
<1>7. /\ logs' \in Seq(LogEntries) /\ Len(logs') = Len(logs) /\ DOMAIN logs' = DOMAIN logs
      /\ logs'[n] = l /\ \A m \in DOMAIN logs : m # n => logs'[m] = logs[m]
  <2> HIDE DEF LogEntries
  <2> QED  BY <1>3, <1>5, <1>6
<1>8. Corrects'
  <2>1. \A m \in DOMAIN logs : logs'[m].fixes = logs[m].fixes
    BY <1>1, <1>7
  <2>2. logs'[n].status = "MANUAL_ADJUSTED"
    BY <1>1, <1>7
  <2> QED  BY <1>7, <2>1, <2>2 DEF PunchShape, Corrects
<1>9. PunchShape'
  BY <1>4, <1>7, <1>8 DEF PunchShape
<1>10. Continues
  <2>1. now <= now' /\ now' \in Nat /\ Len(logs) <= Len(logs') /\ Len(logs') \in Nat
    BY <1>4, <1>7, ClockTypes, LogFields
  <2>2. \A m \in DOMAIN logs : /\ logs'[m].who = logs[m].who
                               /\ logs'[m] # logs[m] => logs'[m].status = "MANUAL_ADJUSTED"
    BY <1>1, <1>7
  <2> QED  BY <1>4, <1>7, <2>1, <2>2 DEF Continues
<1>11. \A g \in Handlers : Saw(g)'
  BY <1>4, <1>10, SawStays DEF ByDay
<1> QED  BY <1>4, <1>7, <1>9, <1>10, <1>11, OldLogs DEF ByDay

LEMMA PunchStart == ServingInit /\ PunchInit => PunchShape /\ ByDay
<1> SUFFICES ASSUME ServingInit, PunchInit PROVE PunchShape /\ ByDay
  OBVIOUS
<1>1. /\ pc \in [Handlers -> PunchPCs] /\ work = [h \in Handlers |-> work[h]]
      /\ \A h \in Handlers : pc[h] = "idle"
  BY DEF ServingInit, PunchPCs
<1>2. logs \in Seq(LogEntries) /\ Len(logs) = 0 /\ DOMAIN logs = {} /\ odd = {}
  <2>1. Len(<<>>) = 0 /\ <<>> \in Seq(LogEntries)
    OBVIOUS
  <2>2. DOMAIN <<>> = {}
    OBVIOUS
  <2> QED  BY <2>1, <2>2 DEF PunchInit
<1>3. now \in Moments /\ lag \in {0, Zone} /\ 0 <= MaxLogs
  BY PunchClockAssumption DEF PunchInit, Moments
<1>4. PunchShape
  BY <1>1, <1>2, <1>3 DEF PunchShape, Corrects
<1>5. ByDay
  BY <1>1, <1>2 DEF ByDay, Saw
<1> QED  BY <1>4, <1>5

LEMMA PunchKeeps ==
    PunchShape /\ ByDay /\ [PunchNext]_<<pc, work, punchVars>> => PunchShape' /\ ByDay'
<1> SUFFICES ASSUME PunchShape, ByDay, [PunchNext]_<<pc, work, punchVars>>
             PROVE  PunchShape' /\ ByDay'
  OBVIOUS
<1>1. CASE PassTime \/ UNCHANGED <<pc, work, punchVars>>
  BY <1>1, PunchEndKeeps
<1>2. ASSUME NEW h \in Handlers, PunchRefused(h) PROVE PunchShape' /\ ByDay'
  BY <1>2, PunchEndKeeps
<1>3. ASSUME NEW h \in Handlers, NEW e \in Workers, ClockInRead(h, e) \/ ClockOutRead(h, e)
      PROVE  PunchShape' /\ ByDay'
  BY <1>3, ClockReadKeeps
<1>4. ASSUME NEW h \in Handlers, NEW s \in Timetables \cup {NoTimetable}, ClockInCreate(h, s)
      PROVE  PunchShape' /\ ByDay'
  BY <1>4, ClockInCreateKeeps
<1>5. ASSUME NEW h \in Handlers, NEW s \in Timetables \cup {NoTimetable}, NEW reason \in BOOLEAN,
             ClockOutCreate(h, s, reason)
      PROVE  PunchShape' /\ ByDay'
  BY <1>5, ClockOutCreateKeeps
<1>6. ASSUME NEW h \in Handlers, NEW type \in Punches, NEW t \in FixMoments,
             NEW e \in Workers, NEW n \in {NoLog} \cup DOMAIN logs, Correct(h, e, type, n, t)
      PROVE  PunchShape' /\ ByDay'
  BY <1>6, CorrectKeeps
<1>7. ASSUME NEW h \in Handlers, NEW type \in Punches, NEW t \in FixMoments,
             NEW n \in DOMAIN logs, AdjustPunch(h, n, type, t)
      PROVE  PunchShape' /\ ByDay'
  BY <1>7, AdjustPunchKeeps
<1> QED  BY <1>1, <1>2, <1>3, <1>4, <1>5, <1>6, <1>7 DEF PunchNext

LEMMA PunchTyped == PunchShape => PunchTypeOK
<1> SUFFICES ASSUME PunchShape PROVE PunchTypeOK
  OBVIOUS
<1>1. \A n \in DOMAIN logs : logs[n].fixes \in 0..(n - 1)
  BY LogFields DEF PunchShape, Corrects
<1> QED  BY <1>1, LogFields DEF PunchShape, PunchTypeOK

\* What every run of the attendance keeps: the clocks and the logs.
THEOREM PunchTypeCorrect == PunchSpec => []PunchTypeOK
<1>1. PunchShape => PunchTypeOK
  BY PunchTyped
<1>2. ServingInit /\ PunchInit => PunchShape /\ ByDay
  BY PunchStart
<1>3. PunchShape /\ ByDay /\ [PunchNext]_<<pc, work, punchVars>> => (PunchShape /\ ByDay)'
  BY PunchKeeps
<1> QED  BY <1>1, <1>2, <1>3, PTL DEF PunchSpec

-----------------------------------------------------------------------------
(* Attendance by the clock: records and reports                             *)

\* The first log of a set, and the last.
LEMMA FirstIs ==
    ASSUME PunchShape, NEW S, S \subseteq DOMAIN logs, S # {}
    PROVE  FirstOf(S) \in S /\ \A m \in S : logs[FirstOf(S)].at <= logs[m].at
<1>1. \A n \in S : logs[n].at \in 0..LastMoment /\ logs[n].at \in Nat
  BY LogFields DEF Moments
<1>2. PICK T : T = {0 - logs[n].at : n \in S}
  OBVIOUS
<1>3. T # {} /\ T \subseteq (0 - LastMoment)..0
  BY <1>1, <1>2, PunchClockAssumption
<1>4. IsFiniteSet(T) /\ \A x \in T : x \in Int
  <2>1. IsFiniteSet((0 - LastMoment)..0)
    <3>1. 0 - LastMoment \in Int /\ 0 \in Int
      BY PunchClockAssumption
    <3> QED  BY <3>1, FS_Interval
  <2>2. \A x \in (0 - LastMoment)..0 : x \in Int
    BY PunchClockAssumption
  <2>3. IsFiniteSet(T)
    BY <1>3, <2>1, FS_Subset
  <2> QED  BY <1>3, <2>2, <2>3
<1>5. PICK x \in T : \A y \in T : y <= x
  BY <1>3, <1>4, LargestNumber
<1>6. PICK n \in S : x = 0 - logs[n].at
  BY <1>2, <1>5
<1>7. ASSUME NEW m \in S PROVE logs[n].at <= logs[m].at
  <2>1. 0 - logs[m].at <= 0 - logs[n].at
    BY <1>2, <1>5, <1>6
  <2>2. logs[m].at \in Int /\ logs[n].at \in Int
    BY <1>1
  <2> QED  BY <2>1, <2>2
<1>8. \E k \in S : \A m \in S : logs[k].at <= logs[m].at
  BY <1>7
<1>9. FirstOf(S) = CHOOSE k \in S : \A m \in S : logs[k].at <= logs[m].at
  BY DEF FirstOf
<1> QED  BY <1>8, <1>9

LEMMA FinalIs ==
    ASSUME PunchShape, NEW S, S \subseteq DOMAIN logs, S # {}
    PROVE  FinalOf(S) \in S /\ \A m \in S : logs[FinalOf(S)].at >= logs[m].at
<1>1. \A n \in S : logs[n].at \in 0..LastMoment /\ logs[n].at \in Nat
  BY LogFields DEF Moments
<1>2. PICK T : T = {logs[n].at : n \in S}
  OBVIOUS
<1>3. T # {} /\ T \subseteq 0..LastMoment
  BY <1>1, <1>2
<1>4. IsFiniteSet(T) /\ \A x \in T : x \in Int
  <2>1. IsFiniteSet(0..LastMoment)
    BY PunchClockAssumption, FS_Interval
  <2>2. IsFiniteSet(T)
    BY <1>3, <2>1, FS_Subset
  <2> QED  BY <1>3, <2>2
<1>5. PICK x \in T : \A y \in T : y <= x
  BY <1>3, <1>4, LargestNumber
<1>6. PICK n \in S : x = logs[n].at
  BY <1>2, <1>5
<1>7. \A m \in S : logs[n].at >= logs[m].at
  BY <1>1, <1>2, <1>5, <1>6
<1>8. \E k \in S : \A m \in S : logs[k].at >= logs[m].at
  BY <1>7
<1>9. FinalOf(S) = CHOOSE k \in S : \A m \in S : logs[k].at >= logs[m].at
  BY DEF FinalOf
<1> QED  BY <1>8, <1>9

\* No record names a log that is not there.
LEMMA RecordNames ==
    ASSUME PunchShape, NEW S, S \subseteq DOMAIN logs
    PROVE  (FirstOf(S) # NoLog <=> S # {}) /\ (FinalOf(S) # NoLog <=> S # {})
<1>1. CASE S = {}
  BY <1>1 DEF FirstOf, FinalOf
<1>2. CASE S # {}
  <2>1. FirstOf(S) \in DOMAIN logs /\ FinalOf(S) \in DOMAIN logs
    BY <1>2, FirstIs, FinalIs
  <2> QED  BY <1>2, <2>1, LogFields DEF NoLog
<1> QED  BY <1>1, <1>2

LEMMA DaySets ==
    ASSUME PunchShape, NEW e, NEW d
    PROVE  /\ OnBangkokDay(e, d) \subseteq DOMAIN logs
           /\ MonthLogs(e, d) \subseteq OnBangkokDay(e, d)
           /\ Effective(OnBangkokDay(e, d)) \subseteq OnBangkokDay(e, d)
           /\ \A S, type : OfType(S, type) \subseteq S
           /\ \A n \in OnBangkokDay(e, d) : logs[n].who = e /\ BangkokDay(logs[n].at) = d
BY DEF OnBangkokDay, LogsOf, MonthLogs, Effective, OfType

\* What an employee logged without HR's help is superseded by nothing.
LEMMA OrdinaryStands ==
    ASSUME PunchShape, NEW e, Ordinary(e), NEW d
    PROVE  /\ Effective(OnBangkokDay(e, d)) = OnBangkokDay(e, d)
           /\ \A n \in LogsOf(e) : Plain(n) /\ n \notin odd /\ n \in DOMAIN logs
<1>1. \A n \in LogsOf(e) : Plain(n) /\ n \notin odd /\ n \in DOMAIN logs
  BY DEF Ordinary, LogsOf, Plain, Fixed
<1>2. \A n \in OnBangkokDay(e, d) : n \in LogsOf(e) /\ n # NoLog
  BY LogFields DEF OnBangkokDay, LogsOf, NoLog
<1>3. \A m \in OnBangkokDay(e, d) : logs[m].fixes = NoLog
  BY <1>1, <1>2 DEF PunchShape, Corrects, Plain
<1>4. Effective(OnBangkokDay(e, d)) = OnBangkokDay(e, d)
  BY <1>2, <1>3 DEF Effective
<1> QED  BY <1>1, <1>4

\* The month reported has a first day and a last.
LEMMA MonthEnds ==
    /\ First \in Month /\ \A c \in Month : First <= c
    /\ Last \in Month /\ \A c \in Month : c <= Last
<1>1. IsFiniteSet(Month) /\ Month # {} /\ \A d \in Month : d \in Int
  BY PunchClockAssumption
<1>2. PICK l \in Month : \A c \in Month : c <= l
  BY <1>1, LargestNumber
<1>3. Last \in Month /\ \A c \in Month : Last >= c
  <2>1. \E d \in Month : \A c \in Month : d >= c
    BY <1>1, <1>2
  <2> QED  BY <2>1 DEF Last
<1>4. PICK T : T = {0 - d : d \in Month}
  OBVIOUS
<1>5. IsFiniteSet(T)
  <2>1. T \subseteq (0 - Last)..0
    BY <1>3, <1>4, PunchClockAssumption
  <2>2. IsFiniteSet((0 - Last)..0)
    <3>1. 0 - Last \in Int /\ 0 \in Int
      BY <1>1, <1>3
    <3> QED  BY <3>1, FS_Interval
  <2> QED  BY <2>1, <2>2, FS_Subset
<1>6. T # {} /\ \A x \in T : x \in Int
  BY <1>1, <1>4
<1>7. PICK x \in T : \A y \in T : y <= x
  BY <1>5, <1>6, LargestNumber
<1>8. PICK f \in Month : x = 0 - f
  BY <1>4, <1>7
<1>9. ASSUME NEW c \in Month PROVE f <= c
  <2>1. 0 - c <= 0 - f
    BY <1>4, <1>7, <1>8
  <2> QED  BY <1>1, <2>1
<1>10. First \in Month /\ \A c \in Month : First <= c
  <2>1. \E d \in Month : \A c \in Month : d <= c
    BY <1>9
  <2> QED  BY <2>1 DEF First
<1> QED  BY <1>1, <1>3, <1>10

\* A check-in of a day, and what the calendars of the others make of it.
LEMMA OfTheDay ==
    ASSUME PunchShape, NEW e, NEW d \in Int, NEW n \in OnBangkokDay(e, d), NEW t, t = logs[n].at
    PROVE  /\ n \in DOMAIN logs /\ n \in LogsOf(e) /\ logs[n].who = e /\ t \in Nat /\ t \in Moments
           /\ d * DayLength <= t /\ t < d * DayLength + DayLength
           /\ Minute(t) = t - d * DayLength
           /\ d * DayLength \in Int
<1>1. n \in DOMAIN logs /\ n \in LogsOf(e) /\ logs[n].who = e /\ t \div DayLength = d
  BY DEF OnBangkokDay, LogsOf, BangkokDay
<1>2. t \in Nat /\ t \in Moments
  BY <1>1, LogFields
<1>3. d * DayLength <= t /\ t < d * DayLength + DayLength
  BY <1>1, <1>2, OnDay
<1>4. d * DayLength \in Int /\ DayLength * d = d * DayLength
  BY ClockTypes
<1>5. t % DayLength \in Int /\ t = DayLength * d + (t % DayLength)
  BY <1>1, <1>2, DayFacts
<1>6. Minute(t) = t - d * DayLength
  <2>1. PICK k : k = d * DayLength
    OBVIOUS
  <2>2. t = k + (t % DayLength) /\ k \in Int
    BY <1>4, <1>5, <2>1
  <2> QED  BY <1>2, <1>5, <2>1, <2>2 DEF Minute
<1> QED  BY <1>1, <1>2, <1>3, <1>4, <1>6

LEMMA SummaryCounts ==
    ASSUME PunchShape, ByDay
    PROVE  SummaryCountsEmployees
<1> SUFFICES ASSUME lag = Zone, \A e \in Workers : Ordinary(e), NEW u
             PROVE  Summary(u).checkedIn = Cardinality(CheckedInIds(u))
  BY DEF SummaryCountsEmployees
<1>1. \A n \in DOMAIN logs : Plain(n) /\ n \notin odd
  BY LogFields DEF Ordinary, LogsOf, Plain, Fixed
<1>2. \A n \in CheckInsOn(u) : n \in DOMAIN logs /\ logs[n].type = "CHECK_IN" /\ ServerDay(logs[n].at) = u
  BY DEF CheckInsOn, OfType, UTCDay, ServerDay
<1>3. \A n, m \in CheckInsOn(u) : n # m => logs[n].who # logs[m].who
  BY <1>1, <1>2 DEF ByDay, Apart
<1>4. IsFiniteSet(CheckInsOn(u))
  <2>1. IsFiniteSet(1..Len(logs)) /\ CheckInsOn(u) \subseteq 1..Len(logs)
    BY <1>2, LogFields, FS_Interval
  <2> QED  BY <2>1, FS_Subset
<1> DEFINE f == [n \in CheckInsOn(u) |-> logs[n].who]
<1>5. f \in Bijection(CheckInsOn(u), CheckedInIds(u))
  <2>1. f \in Injection(CheckInsOn(u), CheckedInIds(u))
    BY <1>3 DEF Injection, IsInjective, CheckedInIds
  <2>2. f \in Surjection(CheckInsOn(u), CheckedInIds(u))
    BY DEF Surjection, CheckedInIds
  <2> QED  BY <2>1, <2>2 DEF Bijection
<1>6. Cardinality(CheckedInIds(u)) = Cardinality(CheckInsOn(u))
  <2>1. ExistsBijection(CheckInsOn(u), CheckedInIds(u))
    BY <1>5 DEF ExistsBijection
  <2> QED  BY <1>4, <2>1, FS_Bijection
<1> QED  BY <1>6 DEF Summary

LEMMA ComesFirst ==
    ASSUME PunchShape, ByDay
    PROVE  ComesBeforeLeaving
<1> SUFFICES ASSUME NEW e \in Workers, NEW d \in {BangkokDay(t) : t \in Moments}, Ordinary(e),
                    DailyRecord(e, d).in # NoLog, DailyRecord(e, d).out # NoLog,
                    ~(lag = Zone /\ Early(DailyRecord(e, d).out))
             PROVE  logs[DailyRecord(e, d).in].at <= logs[DailyRecord(e, d).out].at
  BY DEF ComesBeforeLeaving
<1>1. d \in Int
  BY ClockTypes, PunchClockAssumption DEF Moments
<1>2. PICK S, I, O : /\ S = OnBangkokDay(e, d)
                     /\ I = OfType(S, "CHECK_IN") /\ O = OfType(S, "CHECK_OUT")
  OBVIOUS
<1>3. DailyRecord(e, d).in = FirstOf(I) /\ DailyRecord(e, d).out = FinalOf(O)
  BY <1>2, OrdinaryStands DEF DailyRecord
<1>4. S \subseteq DOMAIN logs /\ I \subseteq S /\ O \subseteq S
  BY <1>2, DaySets
<1>5. I # {} /\ O # {}
  BY <1>3, <1>4, RecordNames
<1>6. PICK a, z : a = FirstOf(I) /\ z = FinalOf(O)
  OBVIOUS
<1>7. a \in I /\ z \in O /\ \A m \in I : logs[a].at <= logs[m].at
  BY <1>4, <1>5, <1>6, FirstIs, FinalIs
<1>8. Plain(z) /\ z \notin odd /\ z \in DOMAIN logs /\ logs[z].type = "CHECK_OUT" /\ logs[z].who = e
  <2>1. z \in S /\ logs[z].type = "CHECK_OUT"
    BY <1>2, <1>4, <1>7 DEF OfType
  <2>2. z \in LogsOf(e) /\ logs[z].who = e
    BY <1>2, <2>1 DEF OnBangkokDay, LogsOf
  <2> QED  BY <2>1, <2>2, OrdinaryStands
<1>9. PICK m \in DOMAIN logs : /\ CameOn(m, e, ServerDay(logs[z].at))
                               /\ Plain(m) => logs[m].at <= logs[z].at
  BY <1>8 DEF ByDay, Came
<1>10. m \in LogsOf(e) /\ Plain(m) /\ logs[m].type = "CHECK_IN"
  <2>1. m \in LogsOf(e)
    BY <1>9 DEF CameOn, LogsOf
  <2> QED  BY <1>9, <2>1, OrdinaryStands DEF CameOn
<1>11. PICK s, t : s = logs[m].at /\ t = logs[z].at
  OBVIOUS
<1>12. s \in Nat /\ s <= t /\ (s - lag) \div DayLength = (t - lag) \div DayLength
  BY <1>9, <1>10, <1>11, LogFields DEF CameOn, ServerDay
<1>13. /\ t \in Nat /\ d * DayLength <= t /\ t < d * DayLength + DayLength
       /\ Minute(t) = t - d * DayLength /\ d * DayLength \in Int
  BY <1>1, <1>2, <1>4, <1>7, <1>11, OfTheDay
<1>14. BangkokDay(s) = d
  <2>1. CASE lag = 0
    <3>1. s - lag = s /\ t - lag = t
      BY <1>12, <1>13, <2>1
    <3>2. t \div DayLength = d
      BY <1>1, <1>13, OnDay
    <3> QED  BY <1>12, <3>1, <3>2 DEF BangkokDay
  <2>2. CASE lag = Zone /\ ~Early(z)
    <3>1. d * DayLength + Zone <= t
      <4>1. ~(Minute(t) < Zone)
        BY <1>11, <2>2 DEF Early
      <4> QED  BY <1>13, <4>1, ClockTypes
    <3>2. t - lag \in Int /\ s - lag \in Int
      BY <1>12, <1>13, ClockTypes
    <3>3. (t - lag) \div DayLength = d
      <4>1. d * DayLength <= t - lag /\ t - lag < d * DayLength + DayLength
        BY <1>13, <2>2, <3>1, ClockTypes
      <4> QED  BY <1>1, <3>2, <4>1, OnDay
    <3>4. d * DayLength <= s - lag
      BY <1>1, <1>12, <3>2, <3>3, OnDay
    <3>5. d * DayLength <= s /\ s < d * DayLength + DayLength
      BY <1>12, <1>13, <2>2, <3>4, ClockTypes
    <3> QED  BY <1>1, <1>12, <3>5, OnDay DEF BangkokDay
  <2>3. lag = 0 \/ lag = Zone
    BY DEF PunchShape
  <2>4. ~(lag = Zone /\ Early(z))
    BY <1>3, <1>6 DEF Early
  <2> QED  BY <2>1, <2>2, <2>3, <2>4
<1>15. m \in I
  BY <1>2, <1>10, <1>11, <1>14 DEF OfType, OnBangkokDay
<1>16. logs[a].at <= s /\ logs[a].at \in Nat
  BY <1>4, <1>7, <1>11, <1>15, LogFields
<1> QED  BY <1>3, <1>6, <1>11, <1>12, <1>13, <1>16

LEMMA PaysForReported ==
    ASSUME PunchShape
    PROVE  PaysForReportedDays
<1> SUFFICES ASSUME NEW e \in Workers
             PROVE  /\ \A d \in PresenceDays(e) :
                         /\ DailyRecord(e, d).in # NoLog \/ Crossed(e)
                         /\ DayStatus(e, d) # "ABSENT"
                    /\ \A d \in Month :
                         DayStatus(e, d) \notin {"ABSENT", "WEEKEND"} =>
                             \/ d \in PresenceDays(e)
                             \/ d = Last
                             \/ d = First /\ \A n \in OfType(MonthLogs(e, d), "CHECK_IN") : Early(n)
  BY DEF PaysForReportedDays
<1>1. First \in Int /\ Last \in Int /\ First..Last \subseteq Month /\ \A d \in Month : d \in Int
  BY MonthEnds, PunchClockAssumption
\* What a check-in that is paid for is, and where it is seen.
<1>2. ASSUME NEW d \in PresenceDays(e)
      PROVE  /\ d \in Int
             /\ \E n \in OnBangkokDay(e, d) :
                  /\ logs[n].type = "CHECK_IN"
                  /\ logs[n].at \in UTCMidnight(First)..UTCMidnight(Last)
  <2>1. PICK n \in OfType(LogsOf(e), "CHECK_IN") :
              /\ d = BangkokDay(logs[n].at)
              /\ logs[n].at \in UTCMidnight(First)..UTCMidnight(Last)
    BY DEF PresenceDays
  <2>2. n \in LogsOf(e) /\ n \in DOMAIN logs /\ logs[n].type = "CHECK_IN"
    BY DEF OfType, LogsOf
  <2>3. logs[n].at \in Int
    BY <2>2, LogFields
  <2> QED  BY <2>1, <2>2, <2>3, ClockTypes DEF OnBangkokDay
\* The newest check-in of the day is superseded by no other.
<1>3. ASSUME NEW d \in PresenceDays(e), ~Crossed(e) PROVE DailyRecord(e, d).in # NoLog
  <2>1. PICK S, I : S = OnBangkokDay(e, d) /\ I = OfType(S, "CHECK_IN")
    OBVIOUS
  <2>2. I # {} /\ I \subseteq S /\ S \subseteq DOMAIN logs /\ S \subseteq LogsOf(e)
    BY <1>2, <2>1 DEF OfType, OnBangkokDay, LogsOf
  <2>3. IsFiniteSet(I) /\ \A n \in I : n \in Int
    <3>1. I \subseteq 1..Len(logs) /\ Len(logs) \in Nat
      BY <2>2, LogFields
    <3>2. IsFiniteSet(1..Len(logs))
      BY <3>1, FS_Interval
    <3>3. IsFiniteSet(I)
      BY <3>1, <3>2, FS_Subset
    <3> QED  BY <3>1, <3>3
  <2>4. PICK n \in I : \A m \in I : m <= n
    BY <2>2, <2>3, LargestNumber
  <2>5. ASSUME NEW m \in S, logs[m].fixes = n PROVE FALSE
    <3>1. m \in DOMAIN logs /\ m \in LogsOf(e) /\ n \in DOMAIN logs /\ n # NoLog /\ m \in Nat /\ n \in Nat
      BY <2>2, LogFields DEF NoLog
    <3>2. n < m
      BY <2>5, <3>1 DEF PunchShape, Corrects
    <3>3. logs[m].type = logs[n].type
      BY <1>3, <2>5, <3>1 DEF Crossed
    <3>4. m \in I
      BY <2>1, <3>3 DEF OfType
    <3> QED  BY <2>4, <3>1, <3>2, <3>4
  <2>6. PICK E : E = OfType(Effective(S), "CHECK_IN")
    OBVIOUS
  <2>7. n \in E /\ E \subseteq DOMAIN logs
    BY <2>1, <2>2, <2>5, <2>6 DEF Effective, OfType
  <2>8. DailyRecord(e, d).in = FirstOf(E)
    BY <2>1, <2>6 DEF DailyRecord
  <2> QED  BY <2>7, <2>8, RecordNames
<1>4. ASSUME NEW d \in PresenceDays(e) PROVE DayStatus(e, d) # "ABSENT"
  <2>1. PICK n \in OnBangkokDay(e, d) :
               /\ logs[n].type = "CHECK_IN"
               /\ logs[n].at \in UTCMidnight(First)..UTCMidnight(Last)
    BY <1>2
  <2>2. PICK t : t = logs[n].at
    OBVIOUS
  <2>3. t \in Nat
    BY <1>2, <2>2, OfTheDay
  <2>4. t - lag \in Int /\ ServerDay(t) \in Int
    BY <2>3, ClockTypes
  <2>5. First <= ServerDay(t)
    <3>1. CASE ServerDay(t) < First
      <4>1. t - lag < ServerDay(t) * DayLength + DayLength
        BY <2>4, OnDay DEF ServerDay
      <4>2. ServerDay(t) * DayLength + DayLength <= First * DayLength
        BY <1>1, <2>4, <3>1, LaterDay
      <4>3. /\ ServerDay(t) * DayLength \in Int /\ First * DayLength \in Int
            /\ First * DayLength + Zone <= t
        BY <1>1, <2>1, <2>2, <2>4, ClockTypes DEF UTCMidnight
      <4> QED  BY <2>3, <4>1, <4>2, <4>3, ClockTypes
    <3> QED  BY <1>1, <2>4, <3>1
  <2>6. ServerDay(t) <= Last
    <3>1. CASE Last < ServerDay(t)
      <4>1. ServerDay(t) * DayLength <= t - lag
        BY <2>4, OnDay DEF ServerDay
      <4>2. Last * DayLength + DayLength <= ServerDay(t) * DayLength
        BY <1>1, <2>4, <3>1, LaterDay
      <4>3. /\ ServerDay(t) * DayLength \in Int /\ Last * DayLength \in Int
            /\ t <= Last * DayLength + Zone
        BY <1>1, <2>1, <2>2, <2>4, ClockTypes DEF UTCMidnight
      <4> QED  BY <2>3, <4>1, <4>2, <4>3, ClockTypes
    <3> QED  BY <1>1, <2>4, <3>1
  <2>7. ServerDay(t) \in Month
    BY <1>1, <2>4, <2>5, <2>6
  <2>8. PICK I : I = OfType(MonthLogs(e, d), "CHECK_IN")
    OBVIOUS
  <2>9. n \in I /\ I \subseteq DOMAIN logs
    BY <2>1, <2>2, <2>7, <2>8, DaySets DEF MonthLogs, OfType
  <2>10. MonthRecord(e, d).in # NoLog
    BY <2>8, <2>9, RecordNames DEF MonthRecord
  <2> QED  BY <2>10 DEF DayStatus
<1>5. ASSUME NEW d \in Month, DayStatus(e, d) \notin {"ABSENT", "WEEKEND"}, d # Last,
             NEW n \in OfType(MonthLogs(e, d), "CHECK_IN"), d # First \/ ~Early(n)
      PROVE  d \in PresenceDays(e)
  <2>1. n \in OnBangkokDay(e, d) /\ logs[n].type = "CHECK_IN"
    BY DEF OfType, MonthLogs
  <2>2. PICK t : t = logs[n].at
    OBVIOUS
  <2>3. /\ n \in LogsOf(e) /\ t \in Nat
        /\ d * DayLength <= t /\ t < d * DayLength + DayLength
        /\ Minute(t) = t - d * DayLength /\ d * DayLength \in Int
    BY <1>1, <2>1, <2>2, OfTheDay
  <2>4. First * DayLength \in Int /\ Last * DayLength \in Int
    BY <1>1, ClockTypes
  <2>5. First * DayLength + Zone <= t
    <3>1. CASE d # First
      <4>1. First < d
        BY <1>1, <3>1, MonthEnds
      <4>2. First * DayLength + DayLength <= d * DayLength
        BY <1>1, <4>1, LaterDay
      <4> QED  BY <2>3, <2>4, <4>2, ClockTypes
    <3>2. CASE d = First /\ ~Early(n)
      <4>1. ~(Minute(t) < Zone)
        BY <2>2, <3>2 DEF Early
      <4> QED  BY <2>3, <3>2, <4>1, ClockTypes
    <3> QED  BY <1>5, <3>1, <3>2
  <2>6. t <= Last * DayLength + Zone
    <3>1. d < Last
      BY <1>1, <1>5, MonthEnds
    <3>2. d * DayLength + DayLength <= Last * DayLength
      BY <1>1, <3>1, LaterDay
    <3> QED  BY <2>3, <2>4, <3>2, ClockTypes
  <2>7. t \in UTCMidnight(First)..UTCMidnight(Last)
    BY <2>3, <2>4, <2>5, <2>6, ClockTypes DEF UTCMidnight
  <2>8. BangkokDay(t) = d
    BY <2>1, <2>2 DEF OnBangkokDay
  <2> QED  BY <2>1, <2>2, <2>3, <2>7, <2>8 DEF PresenceDays, OfType
<1>6. ASSUME NEW d \in Month, DayStatus(e, d) \notin {"ABSENT", "WEEKEND"}
      PROVE  \E n \in OfType(MonthLogs(e, d), "CHECK_IN") : TRUE
  <2>1. PICK I : I = OfType(MonthLogs(e, d), "CHECK_IN")
    OBVIOUS
  <2>2. MonthRecord(e, d).in # NoLog
    BY <1>6 DEF DayStatus
  <2>3. FirstOf(I) # NoLog
    BY <2>1, <2>2 DEF MonthRecord
  <2> QED  BY <2>1, <2>3 DEF FirstOf
<1>7. ASSUME NEW d \in Month, DayStatus(e, d) \notin {"ABSENT", "WEEKEND"}
      PROVE  \/ d \in PresenceDays(e)
             \/ d = Last
             \/ d = First /\ \A n \in OfType(MonthLogs(e, d), "CHECK_IN") : Early(n)
  BY <1>5, <1>6, <1>7
<1> QED  BY <1>3, <1>4, <1>7

LEMMA RecordsDoAgree ==
    ASSUME PunchShape, ByDay
    PROVE  RecordsAgree
<1>1. ASSUME NEW e, NEW d, MonthLogs(e, d) = Effective(OnBangkokDay(e, d))
      PROVE  MonthRecord(e, d) = DailyRecord(e, d)
  BY <1>1 DEF MonthRecord, DailyRecord
<1>2. ASSUME NEW e, NEW d, Ordinary(e), DayStatus(e, d) = "PRESENT",
             NEW n \in OnBangkokDay(e, d) \cap LateReport(0, LastMoment)
      PROVE  n \in LogsOf(e) /\ n # MonthRecord(e, d).in
  <2>1. n \in LogsOf(e) /\ n \in DOMAIN logs /\ logs[n].status = "LATE"
    BY DEF OnBangkokDay, LogsOf, LateReport
  <2>2. logs[n].late > 0
    BY <2>1 DEF ByDay, Timely, Plain
  <2>3. ~(logs[MonthRecord(e, d).in].late > 0)
    BY <1>2 DEF DayStatus
  <2> QED  BY <2>1, <2>2, <2>3
<1> QED  BY <1>1, <1>2 DEF RecordsAgree

LEMMA MissingDidNot ==
    ASSUME PunchShape
    PROVE  MissingDidNotCome
<1> SUFFICES ASSUME NEW d \in Month, NEW s, NEW e \in NotCheckedIn(UTCMidnight(d), s),
                    NEW n \in OfType(OnBangkokDay(e, d), "CHECK_IN")
             PROVE  Early(n)
  BY DEF MissingDidNotCome
<1>1. d \in Int
  BY PunchClockAssumption
<1>2. n \in OnBangkokDay(e, d) /\ logs[n].type = "CHECK_IN"
  BY DEF OfType
<1>3. PICK t : t = logs[n].at
  OBVIOUS
<1>4. /\ n \in DOMAIN logs /\ logs[n].who = e /\ t \in Nat
      /\ d * DayLength <= t /\ t < d * DayLength + DayLength
      /\ Minute(t) = t - d * DayLength /\ d * DayLength \in Int
  BY <1>1, <1>2, <1>3, OfTheDay
<1>5. UTCDay(UTCMidnight(d)) = d
  <2>1. (d * DayLength + Zone) - Zone = d * DayLength
    BY <1>4, ClockTypes
  <2>2. d * DayLength <= d * DayLength /\ d * DayLength < d * DayLength + DayLength
    BY <1>4, ClockTypes
  <2>3. (d * DayLength) \div DayLength = d
    BY <1>1, <1>4, <2>2, OnDay
  <2> QED  BY <2>1, <2>3 DEF UTCDay, UTCMidnight
<1>6. UTCDay(t) # d
  <2>1. e \notin CheckedInIds(d)
    BY <1>5 DEF NotCheckedIn
  <2>2. UTCDay(t) = d => n \in CheckInsOn(d)
    BY <1>2, <1>3, <1>4 DEF CheckInsOn, OfType
  <2> QED  BY <1>4, <2>1, <2>2 DEF CheckedInIds
<1>7. ~(d * DayLength <= t - Zone)
  <2>1. t - Zone \in Int /\ t - Zone < d * DayLength + DayLength
    BY <1>4, ClockTypes
  <2> QED  BY <1>1, <1>6, <2>1, OnDay DEF UTCDay
<1>8. Minute(t) < Zone
  BY <1>4, <1>7, ClockTypes
<1> QED  BY <1>3, <1>8 DEF Early

LEMMA RecordsKept == PunchShape /\ ByDay => RecordsAddUp
BY SummaryCounts, ComesFirst, PaysForReported, RecordsDoAgree, MissingDidNot DEF RecordsAddUp

\* Records, reports, summaries and payroll tell the same story of the days,
\* with the exceptions that their different midnights make.
THEOREM RecordsCorrect == PunchSpec => []RecordsAddUp
<1>1. PunchShape /\ ByDay => RecordsAddUp
  BY RecordsKept
<1>2. ServingInit /\ PunchInit => PunchShape /\ ByDay
  BY PunchStart
<1>3. PunchShape /\ ByDay /\ [PunchNext]_<<pc, work, punchVars>> => (PunchShape /\ ByDay)'
  BY PunchKeeps
<1> QED  BY <1>1, <1>2, <1>3, PTL DEF PunchSpec

=============================================================================
