---------------------------- MODULE CompanyProofs ----------------------------
(* Proofs of the properties of Sessions, Subscription, Branches, Policies and *)
(* PayFigures: what a company and its users may do and what it pays, for any  *)
(* number of users, companies, plans, dates, branches, versions, handlers,    *)
(* tax brackets and employees.                                                *)
EXTENDS Sessions, Subscription, Branches, Policies, PayFigures, Sums

-----------------------------------------------------------------------------
(* Sessions: types                                                          *)

SessionShape == /\ pc \in [Handlers -> SessionPCs]
         /\ work = [h \in Handlers |-> work[h]]

SessionTypes == SessionTypeOK /\ SessionShape

LEMMA SessionWork ==
    ASSUME NEW u \in Users, NEW b \in Passwords
    PROVE  Session(u, b) \in SessionWorks /\ Session(u, b).user = u /\ Session(u, b).basis = b
BY DEF Session, SessionWorks

LEMMA SessionFields ==
    ASSUME NEW t \in SessionWorks
    PROVE  t.user \in Users /\ t.basis \in Passwords
BY DEF SessionWorks

\* A handler that goes on keeps SessionShape, and the others what they have read.
LEMMA SessionGoto ==
    ASSUME SessionTypes, NEW h \in Handlers, NEW to \in SessionPCs, NEW w, Goto(h, to, w),
           to # "idle" => w \in SessionWorks
    PROVE  /\ SessionShape'
           /\ \A g \in Handlers : /\ pc'[g] \in SessionPCs
                                  /\ pc'[g] # "idle" => work'[g] \in SessionWorks
BY DEF SessionTypes, SessionTypeOK, SessionShape, Goto

LEMMA LoginUsers ==
    ASSUME NEW d, NEW c PROVE LoginUser(d, c) \subseteq Users
<1>1. Candidates(d) \subseteq Users /\ SuperAdmins(d) \subseteq Users
  BY DEF Candidates, SuperAdmins
<1> QED  BY <1>1 DEF LoginUser

LEMMA SessionTypesInit == ServingInit /\ SessionInit => SessionTypes
<1> SUFFICES ASSUME ServingInit, SessionInit PROVE SessionTypes
  OBVIOUS
<1>1. 0 \in Passwords
  BY SessionsAssumption DEF Passwords
<1> QED  BY <1>1 DEF ServingInit, SessionInit, SessionTypes, SessionTypeOK, SessionShape, SessionPCs

LEMMA SessionTypesNext == SessionTypes /\ [SessionNext]_<<pc, work, sessionVars>> => SessionTypes'
<1> SUFFICES ASSUME SessionTypes, [SessionNext]_<<pc, work, sessionVars>> PROVE SessionTypes'
  OBVIOUS
<1> DEFINE Rest == /\ password' \in [Users -> Passwords]
                   /\ stored' \in [Users -> Passwords \cup {NoSession}]
                   /\ held' \subseteq SessionWorks
                   /\ excused' \subseteq Handlers
                   /\ explained' \subseteq Users
           Local == /\ SessionShape'
                    /\ \A g \in Handlers : /\ pc'[g] \in SessionPCs
                                           /\ pc'[g] # "idle" => work'[g] \in SessionWorks
<1>0. ASSUME Rest, Local PROVE SessionTypes'
  BY <1>0 DEF SessionTypes, SessionTypeOK
<1>a. /\ password \in [Users -> Passwords]
      /\ stored \in [Users -> Passwords \cup {NoSession}]
      /\ held \subseteq SessionWorks /\ excused \subseteq Handlers /\ explained \subseteq Users
  BY DEF SessionTypes, SessionTypeOK
<1>b. \A h \in Handlers : pc[h] # "idle" =>
          work[h] \in SessionWorks /\ work[h].user \in Users /\ work[h].basis \in Passwords
  BY SessionFields DEF SessionTypes, SessionTypeOK
<1>c. ASSUME UNCHANGED sessionVars PROVE Rest
  BY <1>a, <1>c DEF sessionVars
<1>d. ASSUME UNCHANGED <<pc, work>> PROVE Local
  BY <1>d DEF SessionTypes, SessionTypeOK, SessionShape
<1>e. ASSUME NEW u \in Users, password[u] < MaxChanges PROVE password[u] + 1 \in Passwords
  BY <1>a, <1>e, SessionsAssumption DEF Passwords
<1>1. ASSUME NEW h \in Handlers, NEW d, NEW c, LoginRead(h, d, c) PROVE SessionTypes'
  <2>1. PICK u \in Users : Enter(h, "issue", Session(u, password[u]))
    BY <1>1, LoginUsers DEF LoginRead
  <2>2. Session(u, password[u]) \in SessionWorks
    BY <1>a, SessionWork
  <2>3. Local
    BY <2>1, <2>2, SessionGoto DEF Enter, SessionPCs
  <2> QED  BY <1>1, <2>3, <1>c, <1>0 DEF LoginRead
<1>2. ASSUME NEW h \in Handlers, NEW t \in held, RefreshRead(h, t) PROVE SessionTypes'
  <2>1. t \in SessionWorks
    BY <1>a
  <2>2. Local
    BY <1>2, <2>1, SessionGoto DEF RefreshRead, Enter, SessionPCs
  <2>3. Rest
    BY <1>2, <1>a DEF RefreshRead
  <2> QED  BY <2>2, <2>3, <1>0
<1>3. ASSUME NEW h \in Handlers, IssueStore(h) PROVE SessionTypes'
  <2>1. work[h] \in SessionWorks /\ work[h].user \in Users /\ work[h].basis \in Passwords
    BY <1>3, <1>b DEF IssueStore
  <2>2. Local
    BY <1>3, SessionGoto DEF IssueStore, Leave, SessionPCs
  <2>3. Rest
    BY <1>3, <1>a, <2>1 DEF IssueStore
  <2> QED  BY <2>2, <2>3, <1>0
<1>4. ASSUME NEW h \in Handlers, NEW u \in Users, Logout(h, u) PROVE SessionTypes'
  <2>1. Rest
    BY <1>4, <1>a DEF Logout
  <2> QED  BY <1>4, <2>1, <1>d, <1>0 DEF Logout, AtOnce
<1>5. ASSUME NEW h \in Handlers, NEW u \in Users, ChangeRead(h, u) PROVE SessionTypes'
  <2>1. Session(u, password[u]) \in SessionWorks
    BY <1>a, SessionWork
  <2>2. Local
    BY <1>5, <2>1, SessionGoto DEF ChangeRead, Enter, SessionPCs
  <2> QED  BY <1>5, <2>2, <1>c, <1>0 DEF ChangeRead
<1>6. ASSUME NEW h \in Handlers, ChangeWrite(h) PROVE SessionTypes'
  <2>1. work[h] \in SessionWorks /\ work[h].user \in Users
    BY <1>6, <1>b DEF ChangeWrite
  <2>2. Local
    BY <1>6, <2>1, SessionGoto DEF ChangeWrite, SessionPCs
  <2>3. password[work[h].user] + 1 \in Passwords
    BY <1>6, <2>1, <1>e DEF ChangeWrite
  <2>4. Rest
    BY <1>6, <1>a, <2>1, <2>3 DEF ChangeWrite, Waiting
  <2> QED  BY <2>2, <2>4, <1>0
<1>7. ASSUME NEW h \in Handlers, ChangeForget(h) PROVE SessionTypes'
  <2>1. Local
    BY <1>7, SessionGoto DEF ChangeForget, Leave, SessionPCs
  <2>2. Rest
    BY <1>7, <1>a DEF ChangeForget
  <2> QED  BY <2>1, <2>2, <1>0
<1>8. ASSUME NEW h \in Handlers, NEW u \in Users, SetPassword(h, u) PROVE SessionTypes'
  <2>1. password[u] + 1 \in Passwords
    BY <1>8, <1>e DEF SetPassword
  <2>2. Rest
    BY <1>8, <1>a, <2>1 DEF SetPassword, Waiting
  <2> QED  BY <1>8, <2>2, <1>d, <1>0 DEF SetPassword, AtOnce
<1>9. ASSUME NEW h \in Handlers, SessionFail(h) PROVE SessionTypes'
  <2>1. pc[h] # "idle" /\ work[h].user \in Users
    BY <1>9, <1>b DEF SessionFail, Abandoned
  <2>2. Local
    BY <1>9, SessionGoto DEF SessionFail, Abandoned, Leave, SessionPCs
  <2>3. Rest
    BY <1>9, <1>a, <2>1 DEF SessionFail
  <2> QED  BY <2>2, <2>3, <1>0
<1>10. CASE UNCHANGED <<pc, work, sessionVars>>
  BY <1>10, <1>c, <1>d, <1>0
<1> QED
  BY <1>1, <1>2, <1>3, <1>4, <1>5, <1>6, <1>7, <1>8, <1>9, <1>10 DEF SessionNext

\* Every variable of Sessions, and what every handler has read, keeps its type.
THEOREM SessionTypeCorrect == SessionSpec => []SessionTypeOK
<1>1. SessionTypes => SessionTypeOK
  BY DEF SessionTypes
<1> QED  BY SessionTypesInit, SessionTypesNext, <1>1, PTL DEF SessionSpec

-----------------------------------------------------------------------------
(* Sessions follow the password                                             *)

\* A login or refresh under way that nothing excuses began with the present
\* password.
Current ==
    \A h \in Handlers : pc[h] = "issue" /\ h \notin excused =>
        work[h].basis = password[work[h].user]

\* SessionsFollowPassword, for one user.
Follows(u) ==
    \/ stored[u] \in {NoSession, password[u]}
    \/ \E h \in Waiting({"forget"}) : work[h].user = u
    \/ u \in explained

Followed == Current /\ \A u \in Users : Follows(u)

LEMMA FollowedInit == ServingInit /\ SessionInit => Followed
BY DEF ServingInit, SessionInit, Followed, Current, Follows

LEMMA FollowedNext ==
    SessionTypes /\ Followed /\ [SessionNext]_<<pc, work, sessionVars>> => Followed'
<1> SUFFICES ASSUME SessionTypes, Followed, [SessionNext]_<<pc, work, sessionVars>> PROVE Followed'
  OBVIOUS
<1>a. /\ pc \in [Handlers -> SessionPCs] /\ work = [h \in Handlers |-> work[h]]
      /\ password \in [Users -> Passwords]
      /\ stored \in [Users -> Passwords \cup {NoSession}]
      /\ held \subseteq SessionWorks
  BY DEF SessionTypes, SessionTypeOK, SessionShape
<1>b. \A h \in Handlers : pc[h] # "idle" =>
          work[h] \in SessionWorks /\ work[h].user \in Users /\ work[h].basis \in Passwords
  BY SessionFields DEF SessionTypes, SessionTypeOK
<1>1. ASSUME NEW h \in Handlers, NEW d, NEW c, LoginRead(h, d, c) PROVE Followed'
  <2>1. PICK u \in Users : Enter(h, "issue", Session(u, password[u]))
    BY <1>1, LoginUsers DEF LoginRead
  <2>2. Session(u, password[u]).user = u /\ Session(u, password[u]).basis = password[u]
    BY <1>a, SessionWork
  <2> QED  BY <1>1, <2>1, <2>2, <1>a
           DEF LoginRead, Enter, Goto, Followed, Current, Follows, Waiting, sessionVars
<1>2. ASSUME NEW h \in Handlers, NEW t \in held, RefreshRead(h, t) PROVE Followed'
  BY <1>2, <1>a DEF RefreshRead, Enter, Goto, Followed, Current, Follows, Waiting
<1>3. ASSUME NEW h \in Handlers, IssueStore(h) PROVE Followed'
  <2>1. work[h].user \in Users
    BY <1>3, <1>b DEF IssueStore
  <2>2. Current'
    BY <1>3, <1>a DEF IssueStore, Leave, Goto, Followed, Current
  <2>3. ASSUME NEW u \in Users PROVE Follows(u)'
    <3>1. CASE u # work[h].user
      BY <1>3, <1>a, <3>1 DEF IssueStore, Leave, Goto, Followed, Follows, Waiting
    <3>2. CASE u = work[h].user /\ h \in excused
      BY <1>3, <3>2 DEF IssueStore, Follows
    <3>3. CASE u = work[h].user /\ h \notin excused
      BY <1>3, <1>a, <3>3 DEF IssueStore, Followed, Current, Follows
    <3> QED  BY <3>1, <3>2, <3>3
  <2> QED  BY <2>2, <2>3 DEF Followed
<1>4. ASSUME NEW h \in Handlers, NEW u \in Users, Logout(h, u) PROVE Followed'
  BY <1>4, <1>a DEF Logout, AtOnce, Followed, Current, Follows, Waiting
<1>5. ASSUME NEW h \in Handlers, NEW u \in Users, ChangeRead(h, u) PROVE Followed'
  BY <1>5, <1>a DEF ChangeRead, Enter, Goto, Followed, Current, Follows, Waiting, sessionVars
<1>6. ASSUME NEW h \in Handlers, ChangeWrite(h) PROVE Followed'
  <2>1. work[h].user \in Users
    BY <1>6, <1>b DEF ChangeWrite
  <2>2. Current'
    BY <1>6, <1>a, <1>b DEF ChangeWrite, Goto, Followed, Current, Waiting
  <2>3. ASSUME NEW u \in Users PROVE Follows(u)'
    <3>1. CASE u # work[h].user
      BY <1>6, <1>a, <2>1, <3>1 DEF ChangeWrite, Goto, Followed, Follows, Waiting
    <3>2. CASE u = work[h].user
      BY <1>6, <1>a, <3>2 DEF ChangeWrite, Goto, Follows, Waiting
    <3> QED  BY <3>1, <3>2
  <2> QED  BY <2>2, <2>3 DEF Followed
<1>7. ASSUME NEW h \in Handlers, ChangeForget(h) PROVE Followed'
  <2>1. Current'
    BY <1>7, <1>a DEF ChangeForget, Leave, Goto, Followed, Current
  <2>2. ASSUME NEW u \in Users PROVE Follows(u)'
    <3>1. CASE u # work[h].user
      BY <1>7, <1>a, <3>1 DEF ChangeForget, Leave, Goto, Followed, Follows, Waiting
    <3>2. CASE u = work[h].user
      BY <1>7, <1>a, <3>2 DEF ChangeForget, Follows
    <3> QED  BY <3>1, <3>2
  <2> QED  BY <2>1, <2>2 DEF Followed
<1>8. ASSUME NEW h \in Handlers, NEW u \in Users, SetPassword(h, u) PROVE Followed'
  <2>1. Current'
    BY <1>8, <1>a, <1>b DEF SetPassword, AtOnce, Followed, Current, Waiting
  <2>2. ASSUME NEW v \in Users PROVE Follows(v)'
    BY <1>8, <1>a DEF SetPassword, AtOnce, Followed, Follows, Waiting
  <2> QED  BY <2>1, <2>2 DEF Followed
<1>9. ASSUME NEW h \in Handlers, SessionFail(h) PROVE Followed'
  <2>1. Current'
    BY <1>9, <1>a DEF SessionFail, Abandoned, Leave, Goto, Followed, Current
  <2>2. ASSUME NEW u \in Users PROVE Follows(u)'
    BY <1>9, <1>a DEF SessionFail, Abandoned, Leave, Goto, Followed, Follows, Waiting
  <2> QED  BY <2>1, <2>2 DEF Followed
<1>10. CASE UNCHANGED <<pc, work, sessionVars>>
  BY <1>10 DEF sessionVars, Followed, Current, Follows, Waiting
<1> QED
  BY <1>1, <1>2, <1>3, <1>4, <1>5, <1>6, <1>7, <1>8, <1>9, <1>10 DEF SessionNext

\* A session that can be continued began with the user's present password, but
\* for what the history variables tell: changePassword between its two writes
\* or cut there, a change that overtook a login, an older token presented, and
\* passwords that EmployeesService set.
THEOREM SessionCorrect == SessionSpec => []SessionsFollowPassword
<1>1. Followed => SessionsFollowPassword
  BY DEF Followed, Follows, SessionsFollowPassword
<1>2. ServingInit /\ SessionInit => SessionTypes /\ Followed
  BY SessionTypesInit, FollowedInit
<1>3. SessionTypes /\ Followed /\ [SessionNext]_<<pc, work, sessionVars>> => (SessionTypes /\ Followed)'
  BY SessionTypesNext, FollowedNext
<1> QED  BY <1>1, <1>2, <1>3, PTL DEF SessionSpec

-----------------------------------------------------------------------------
(* Subscription: types                                                      *)

SubscriptionShape == /\ pc \in [Handlers -> SubscriptionPCs]
         /\ work = [h \in Handlers |-> work[h]]

SubscriptionTypes == SubscriptionTypeOK /\ SubscriptionShape

LEMMA TermType ==
    ASSUME NEW s \in Dates \cup {NoDate}, NEW e \in Dates \cup {NoDate}, NEW st \in SubStatuses
    PROVE  /\ Term(s, e, st) \in Terms
           /\ Term(s, e, st).start = s /\ Term(s, e, st).end = e /\ Term(s, e, st).status = st
BY DEF Term, Terms

LEMMA TermFields ==
    ASSUME NEW t \in Terms
    PROVE  /\ t.start \in Dates \cup {NoDate} /\ t.end \in Dates \cup {NoDate}
           /\ t.status \in SubStatuses
           /\ t = Term(t.start, t.end, t.status)
BY DEF Term, Terms

LEMMA DealType ==
    ASSUME NEW p \in Plans \cup {NoPlan}, NEW t \in Terms, NEW k \in Kinds
    PROVE  /\ Deal(p, t, k) \in SubscriptionWorks
           /\ Deal(p, t, k).plan = p /\ Deal(p, t, k).term = t /\ Deal(p, t, k).kind = k
BY DEF Deal, SubscriptionWorks

LEMMA DealFields ==
    ASSUME NEW w \in SubscriptionWorks
    PROVE  w.plan \in Plans \cup {NoPlan} /\ w.term \in Terms /\ w.kind \in Kinds
BY DEF SubscriptionWorks

\* What the dto leaves out is as read.
LEMMA AmendedType ==
    ASSUME term \in Terms, NEW b \in Dates \cup {NoDate}, NEW e \in Dates \cup {NoDate},
           NEW st \in SubStatuses \cup {NoStatus}
    PROVE  /\ Amended(b, e, st) \in Terms
           /\ e = NoDate /\ st = NoStatus =>
                Amended(b, e, st).end = term.end /\ Amended(b, e, st).status = term.status
           /\ e # NoDate => Amended(b, e, st).end = e
           /\ st # NoStatus => Amended(b, e, st).status = st
<1>1. /\ term.start \in Dates \cup {NoDate} /\ term.end \in Dates \cup {NoDate}
      /\ term.status \in SubStatuses /\ term = Term(term.start, term.end, term.status)
  BY TermFields
<1> DEFINE f == IF b = NoDate THEN term.start ELSE b
           d == IF e = NoDate THEN term.end ELSE e
           s == IF st = NoStatus THEN term.status ELSE st
<1>2. /\ f \in Dates \cup {NoDate} /\ d \in Dates \cup {NoDate} /\ s \in SubStatuses
      /\ Amended(b, e, st) = Term(f, d, s)
  BY <1>1 DEF Amended
<1>3. Amended(b, e, st) \in Terms /\ Amended(b, e, st).end = d /\ Amended(b, e, st).status = s
  BY <1>1, <1>2, TermType
<1> QED  BY <1>1, <1>2, <1>3

\* A handler that goes on keeps SubscriptionShape, and the others what they have read.
LEMMA SubscriptionGoto ==
    ASSUME SubscriptionTypes, NEW h \in Handlers, NEW to \in SubscriptionPCs, NEW w, Goto(h, to, w),
           to # "idle" => w \in SubscriptionWorks
    PROVE  /\ SubscriptionShape'
           /\ \A g \in Handlers : /\ pc'[g] \in SubscriptionPCs
                                  /\ pc'[g] # "idle" => work'[g] \in SubscriptionWorks
BY DEF SubscriptionTypes, SubscriptionTypeOK, SubscriptionShape, Goto

LEMMA SubscriptionTypesInit == ServingInit /\ SubscriptionInit => SubscriptionTypes
<1> SUFFICES ASSUME ServingInit, SubscriptionInit PROVE SubscriptionTypes
  OBVIOUS
<1>1. Term(NoDate, NoDate, "TRIAL") \in Terms
  BY TermType DEF SubStatuses
<1> QED
  BY <1>1 DEF ServingInit, SubscriptionInit, SubscriptionTypes, SubscriptionTypeOK, SubscriptionShape,
              SubscriptionPCs, CompanyStatuses

LEMMA SubscriptionTypesNext == SubscriptionTypes /\ [SubscriptionNext]_<<pc, work, subscriptionVars>> => SubscriptionTypes'
<1> SUFFICES ASSUME SubscriptionTypes, [SubscriptionNext]_<<pc, work, subscriptionVars>> PROVE SubscriptionTypes'
  OBVIOUS
<1> DEFINE Rest == /\ companyStatus' \in CompanyStatuses
                   /\ planId' \in Plans \cup {NoPlan}
                   /\ term' \in Terms
                   /\ onSale' \subseteq Plans
                   /\ overridden' \in BOOLEAN /\ lost' \in BOOLEAN
                   /\ behind' \subseteq Handlers
                   /\ promised' \in Dates \cup {NoDate}
           Local == /\ SubscriptionShape'
                    /\ \A g \in Handlers : /\ pc'[g] \in SubscriptionPCs
                                           /\ pc'[g] # "idle" => work'[g] \in SubscriptionWorks
<1>0. ASSUME Rest, Local PROVE SubscriptionTypes'
  BY <1>0 DEF SubscriptionTypes, SubscriptionTypeOK
<1>a. /\ companyStatus \in CompanyStatuses
      /\ planId \in Plans \cup {NoPlan}
      /\ term \in Terms
      /\ onSale \subseteq Plans
      /\ overridden \in BOOLEAN /\ lost \in BOOLEAN
      /\ behind \subseteq Handlers
      /\ promised \in Dates \cup {NoDate}
  BY DEF SubscriptionTypes, SubscriptionTypeOK
<1>b. \A h \in Handlers : pc[h] # "idle" =>
          /\ work[h] \in SubscriptionWorks
          /\ work[h].plan \in Plans \cup {NoPlan} /\ work[h].term \in Terms
  BY DealFields DEF SubscriptionTypes, SubscriptionTypeOK
<1>c. ASSUME UNCHANGED subscriptionVars PROVE Rest
  BY <1>a, <1>c DEF subscriptionVars
<1>d. ASSUME UNCHANGED <<pc, work>> PROVE Local
  BY <1>d DEF SubscriptionTypes, SubscriptionTypeOK, SubscriptionShape
<1>e. ASSUME NEW h \in Handlers, Leave(h) PROVE Local
  BY <1>e, SubscriptionGoto DEF Leave, SubscriptionPCs
<1>1. ASSUME NEW h \in Handlers, NEW s \in {"ACTIVE", "SUSPENDED"}, SetStatus(h, s) PROVE SubscriptionTypes'
  <2>1. Rest
    BY <1>1, <1>a DEF SetStatus, CompanyStatuses
  <2> QED  BY <1>1, <2>1, <1>d, <1>0 DEF SetStatus, AtOnce
<1>2. ASSUME NEW h \in Handlers, NEW p \in Plans, UpdateCompany(h, p) PROVE SubscriptionTypes'
  <2>1. Rest
    BY <1>2, <1>a DEF UpdateCompany
  <2> QED  BY <1>2, <2>1, <1>d, <1>0 DEF UpdateCompany, AtOnce
<1>3. ASSUME NEW h \in Handlers, NEW p \in Plans, NEW s \in Dates, NEW e \in Dates,
             AssignPlanRead(h, p, s, e)
      PROVE  SubscriptionTypes'
  <2>1. Deal(p, Term(s, e, "ACTIVE"), "decided") \in SubscriptionWorks
    BY TermType, DealType DEF SubStatuses, Kinds
  <2>2. Local
    BY <1>3, <2>1, SubscriptionGoto DEF AssignPlanRead, Enter, SubscriptionPCs
  <2> QED  BY <1>3, <2>2, <1>c, <1>0 DEF AssignPlanRead
<1>4. ASSUME NEW h \in Handlers, NEW p \in Plans, NEW on \in BOOLEAN, SetOnSale(h, p, on)
      PROVE  SubscriptionTypes'
  <2>1. Rest
    BY <1>4, <1>a DEF SetOnSale
  <2> QED  BY <1>4, <2>1, <1>d, <1>0 DEF SetOnSale, AtOnce
<1>5. ASSUME NEW h \in Handlers, NEW b \in Dates \cup {NoDate}, NEW e \in Dates \cup {NoDate},
             NEW st \in Asked \cup {NoStatus}, UpdateSubscriptionRead(h, b, e, st)
      PROVE  SubscriptionTypes'
  <2> DEFINE k == IF e = NoDate /\ st = NoStatus THEN "kept" ELSE "decided"
  <2>1. Amended(b, e, st) \in Terms /\ k \in Kinds
    BY <1>a, AmendedType, SubscriptionAssumption DEF Kinds
  <2>2. Deal(NoPlan, Amended(b, e, st), k) \in SubscriptionWorks
    BY <2>1, DealType
  <2>3. Local
    BY <1>5, <2>2, SubscriptionGoto DEF UpdateSubscriptionRead, Enter, SubscriptionPCs
  <2> QED  BY <1>5, <2>3, <1>c, <1>0 DEF UpdateSubscriptionRead
<1>6. ASSUME NEW h \in Handlers, NEW e \in Dates, ExtendRead(h, e) PROVE SubscriptionTypes'
  <2>1. Deal(NoPlan, Term(NoDate, e, "ACTIVE"), "extended") \in SubscriptionWorks
    BY TermType, DealType DEF SubStatuses, Kinds
  <2>2. Local
    BY <1>6, <2>1, SubscriptionGoto DEF ExtendRead, Enter, SubscriptionPCs
  <2> QED  BY <1>6, <2>2, <1>c, <1>0 DEF ExtendRead
<1>7. ASSUME NEW h \in Handlers, ExtendReread(h) PROVE SubscriptionTypes'
  <2> DEFINE t == Amended(NoDate, work[h].term.end, "ACTIVE")
  <2>1. t \in Terms
    <3>1. work[h].term.end \in Dates \cup {NoDate}
      BY <1>7, <1>b, TermFields DEF ExtendReread
    <3> QED  BY <3>1, <1>a, AmendedType DEF SubStatuses
  <2>2. Deal(NoPlan, t, "extended") \in SubscriptionWorks
    BY <2>1, DealType DEF Kinds
  <2>3. Rest
    BY <1>7, <1>a DEF ExtendReread
  <2>4. Goto(h, "renew", Deal(NoPlan, t, "extended")) \/ Leave(h)
    BY <1>7 DEF ExtendReread
  <2> HIDE DEF t
  <2>5. Local
    BY <2>2, <2>4, <1>e, SubscriptionGoto DEF SubscriptionPCs
  <2> QED  BY <2>3, <2>5, <1>0
<1>8. ASSUME NEW h \in Handlers, StoreTerm(h) PROVE SubscriptionTypes'
  <2>1. work[h].term \in Terms /\ work[h].plan \in Plans \cup {NoPlan}
    BY <1>8, <1>b DEF StoreTerm
  <2>2. work[h].term.end \in Dates \cup {NoDate} /\ work[h].term.status \in SubStatuses
    BY <2>1, TermFields
  <2>3. companyStatus' \in CompanyStatuses
    BY <1>8, <2>2 DEF StoreTerm, StatusFor, SubStatuses, CompanyStatuses
  <2>4. promised' \in Dates \cup {NoDate}
    BY <1>8, <1>a, <2>2 DEF StoreTerm, Later
  <2>5. Rest
    BY <1>8, <1>a, <2>1, <2>3, <2>4 DEF StoreTerm, Waiting
  <2> QED  BY <1>8, <2>5, <1>e, <1>0 DEF StoreTerm
<1>9. ASSUME NEW h \in Handlers, SubscriptionFail(h) PROVE SubscriptionTypes'
  <2>1. Rest
    BY <1>9, <1>a DEF SubscriptionFail
  <2> QED  BY <1>9, <2>1, <1>e, <1>0 DEF SubscriptionFail, Abandoned
<1>10. CASE UNCHANGED <<pc, work, subscriptionVars>>
  BY <1>10, <1>c, <1>d, <1>0
<1> QED
  BY <1>1, <1>2, <1>3, <1>4, <1>5, <1>6, <1>7, <1>8, <1>9, <1>10 DEF SubscriptionNext

\* Every variable of Subscription, and what every handler has read, keeps its
\* type.
THEOREM SubscriptionTypeCorrect == SubscriptionSpec => []SubscriptionTypeOK
<1>1. SubscriptionTypes => SubscriptionTypeOK
  BY DEF SubscriptionTypes
<1> QED  BY SubscriptionTypesInit, SubscriptionTypesNext, <1>1, PTL DEF SubscriptionSpec

-----------------------------------------------------------------------------
(* The term that was promised, and the status that goes with it             *)

\* What a handler is about to store: with a plan, what an admin decided; from
\* extendSubscription, an active term with an end; and otherwise, the end and
\* status as they are, unless another handler has stored others since.
Renewing ==
    \A h \in Handlers :
        /\ pc[h] = "buy" => work[h].kind = "decided"
        /\ pc[h] = "renew" /\ work[h].kind = "extended" => work[h].term.status = "ACTIVE"
        /\ pc[h] = "renew" /\ work[h].kind = "kept" /\ h \notin behind =>
             work[h].term.end = term.end /\ work[h].term.status = term.status

Kept == Renewing /\ SubscriptionExplained

LEMMA Unpromised == ASSUME NEW t PROVE ServedUntil(t, NoDate)
BY DEF ServedUntil, NoDate

LEMMA ActiveServes ==
    ASSUME NEW t \in Terms, t.status = "ACTIVE" PROVE ServedUntil(t, t.end)
<1>1. t.end \in Nat
  BY TermFields, SubscriptionAssumption DEF Dates, NoDate
<1>2. \A d \in 1..t.end : t.end >= d
  BY <1>1
<1> QED  BY <1>2 DEF ServedUntil, Served, Barred

LEMMA KeptInit == ServingInit /\ SubscriptionInit => Kept
<1> SUFFICES ASSUME ServingInit, SubscriptionInit PROVE Kept
  OBVIOUS
<1>1. Renewing
  BY DEF ServingInit, Renewing
<1>2. ServedUntil(term, promised)
  BY Unpromised DEF SubscriptionInit
<1>3. companyStatus = StatusFor(term.status)
  BY TermType DEF SubscriptionInit, StatusFor, SubStatuses
<1> QED  BY <1>1, <1>2, <1>3 DEF Kept, SubscriptionExplained

LEMMA KeptNext == SubscriptionTypes /\ Kept /\ [SubscriptionNext]_<<pc, work, subscriptionVars>> => Kept'
<1> SUFFICES ASSUME SubscriptionTypes, Kept, [SubscriptionNext]_<<pc, work, subscriptionVars>> PROVE Kept'
  OBVIOUS
<1>a. /\ pc \in [Handlers -> SubscriptionPCs] /\ work = [h \in Handlers |-> work[h]]
      /\ term \in Terms
  BY DEF SubscriptionTypes, SubscriptionTypeOK, SubscriptionShape
<1>b. \A h \in Handlers : pc[h] # "idle" =>
          /\ work[h] \in SubscriptionWorks
          /\ work[h].term \in Terms /\ work[h].kind \in Kinds
  BY DealFields DEF SubscriptionTypes, SubscriptionTypeOK
\* A step that leaves the company alone.
<1>c. ASSUME UNCHANGED <<companyStatus, term, promised, lost, overridden>>
      PROVE  SubscriptionExplained'
  BY <1>c DEF Kept, SubscriptionExplained
<1>d. ASSUME UNCHANGED <<pc, work, term, behind>> PROVE Renewing'
  BY <1>d DEF Kept, Renewing
\* A handler that goes on, the others being where they were.
<1>e. ASSUME NEW h \in Handlers, NEW to \in {"buy", "extend", "renew"}, NEW w, Goto(h, to, w),
             UNCHANGED <<term, behind>>,
             to = "buy" => w.kind = "decided",
             to = "renew" /\ w.kind = "extended" => w.term.status = "ACTIVE",
             to = "renew" /\ w.kind = "kept" => w.term.end = term.end /\ w.term.status = term.status
      PROVE  Renewing'
  BY <1>a, <1>e DEF Goto, Kept, Renewing
<1>f. ASSUME NEW h \in Handlers, Leave(h), UNCHANGED term, behind' = behind \ {h} PROVE Renewing'
  BY <1>a, <1>f DEF Leave, Goto, Kept, Renewing
<1>1. ASSUME NEW h \in Handlers, NEW s, SetStatus(h, s) PROVE Kept'
  <2>1. SubscriptionExplained'
    BY <1>1 DEF SetStatus, Kept, SubscriptionExplained
  <2> QED  BY <1>1, <2>1, <1>d DEF SetStatus, AtOnce, Kept
<1>2. ASSUME NEW h \in Handlers, NEW p, UpdateCompany(h, p) PROVE Kept'
  BY <1>2, <1>c, <1>d DEF UpdateCompany, AtOnce, Kept
<1>3. ASSUME NEW h \in Handlers, NEW p \in Plans, NEW s \in Dates, NEW e \in Dates,
             AssignPlanRead(h, p, s, e)
      PROVE  Kept'
  <2> DEFINE w == Deal(p, Term(s, e, "ACTIVE"), "decided")
  <2>1. w.kind = "decided"
    BY DEF Deal
  <2>2. Goto(h, "buy", w) /\ UNCHANGED subscriptionVars
    BY <1>3 DEF AssignPlanRead, Enter
  <2> HIDE DEF w
  <2>3. Renewing'
    BY <2>1, <2>2, <1>e DEF subscriptionVars
  <2> QED  BY <2>2, <2>3, <1>c DEF subscriptionVars, Kept
<1>4. ASSUME NEW h \in Handlers, NEW p, NEW on, SetOnSale(h, p, on) PROVE Kept'
  BY <1>4, <1>c, <1>d DEF SetOnSale, AtOnce, Kept
<1>5. ASSUME NEW h \in Handlers, NEW b \in Dates \cup {NoDate}, NEW e \in Dates \cup {NoDate},
             NEW st \in Asked \cup {NoStatus}, UpdateSubscriptionRead(h, b, e, st)
      PROVE  Kept'
  <2> DEFINE k == IF e = NoDate /\ st = NoStatus THEN "kept" ELSE "decided"
             w == Deal(NoPlan, Amended(b, e, st), k)
  <2>1. w.kind = k /\ w.term = Amended(b, e, st)
    BY DEF Deal
  <2>2. k = "kept" =>
          Amended(b, e, st).end = term.end /\ Amended(b, e, st).status = term.status
    <3>1. st \in SubStatuses \cup {NoStatus}
      BY SubscriptionAssumption
    <3>2. k = "kept" => e = NoDate /\ st = NoStatus
      OBVIOUS
    <3>3. CASE e = NoDate /\ st = NoStatus
      BY <1>a, <3>1, <3>3, AmendedType
    <3> QED  BY <3>2, <3>3
  <2>3. k # "extended" /\ Goto(h, "renew", w) /\ UNCHANGED subscriptionVars
    BY <1>5 DEF UpdateSubscriptionRead, Enter
  <2> HIDE DEF w, k
  <2>4. Renewing'
    BY <2>1, <2>2, <2>3, <1>e DEF subscriptionVars
  <2> QED  BY <2>3, <2>4, <1>c DEF subscriptionVars, Kept
<1>6. ASSUME NEW h \in Handlers, NEW e \in Dates, ExtendRead(h, e) PROVE Kept'
  <2> DEFINE w == Deal(NoPlan, Term(NoDate, e, "ACTIVE"), "extended")
  <2>1. Goto(h, "extend", w) /\ UNCHANGED subscriptionVars
    BY <1>6 DEF ExtendRead, Enter
  <2> HIDE DEF w
  <2>2. Renewing'
    BY <2>1, <1>e DEF subscriptionVars
  <2> QED  BY <2>1, <2>2, <1>c DEF subscriptionVars, Kept
<1>7. ASSUME NEW h \in Handlers, ExtendReread(h) PROVE Kept'
  <2> DEFINE t == Amended(NoDate, work[h].term.end, "ACTIVE")
             w == Deal(NoPlan, t, "extended")
  <2>1. t.status = "ACTIVE"
    <3>1. work[h].term.end \in Dates \cup {NoDate}
      BY <1>7, <1>b, TermFields DEF ExtendReread
    <3>2. /\ NoDate \in Dates \cup {NoDate} /\ "ACTIVE" # NoStatus
          /\ "ACTIVE" \in SubStatuses \cup {NoStatus}
      BY DEF SubStatuses, NoStatus
    <3> HIDE DEF t
    <3>3. Amended(NoDate, work[h].term.end, "ACTIVE").status = "ACTIVE"
      BY <3>1, <3>2, <1>a, AmendedType
    <3> QED  BY <3>3 DEF t
  <2>2. w.kind = "extended" /\ w.term = t
    BY DEF Deal
  <2>3. /\ UNCHANGED <<companyStatus, term, promised, lost, overridden>>
        /\ \/ Goto(h, "renew", w) /\ UNCHANGED behind
           \/ Leave(h) /\ behind' = behind \ {h}
    BY <1>7 DEF ExtendReread
  <2> HIDE DEF w, t
  <2>4. Renewing'
    BY <2>1, <2>2, <2>3, <1>e, <1>f
  <2> QED  BY <2>3, <2>4, <1>c DEF Kept
<1>8. ASSUME NEW h \in Handlers, StoreTerm(h) PROVE Kept'
  <2>1. PICK w \in SubscriptionWorks :
          w = work[h] /\ w.term \in Terms /\ w.kind \in Kinds
    BY <1>8, <1>b DEF StoreTerm
  <2>2. PICK p : p = IF w.kind = "decided" THEN NoDate
                     ELSE IF w.kind = "kept" THEN promised
                     ELSE IF h \in behind THEN Later(promised, w.term.end) ELSE w.term.end
    OBVIOUS
  <2>3. /\ pc[h] \in {"buy", "renew"} /\ Leave(h)
        /\ term' = w.term /\ companyStatus' = StatusFor(w.term.status)
        /\ behind' = Waiting({"buy", "extend", "renew"}) \ {h}
        /\ promised' = p
        /\ lost' = ((lost \/ h \in behind) /\ ~ServedUntil(w.term, p))
    BY <1>8, <2>1, <2>2 DEF StoreTerm
  <2>4. Renewing'
    BY <1>a, <2>3 DEF Leave, Goto, Kept, Renewing, Waiting
  <2>5. ASSUME h \notin behind, ~lost PROVE ServedUntil(w.term, p)
    <3>1. CASE w.kind = "decided"
      BY <2>2, <3>1, Unpromised
    <3>2. CASE w.kind = "kept"
      <4>1. w.term.end = term.end /\ w.term.status = term.status
        BY <2>1, <2>3, <2>5, <3>2 DEF Kept, Renewing
      <4>2. ServedUntil(term, promised)
        BY <2>5 DEF Kept, SubscriptionExplained
      <4> QED  BY <2>2, <3>2, <4>1, <4>2 DEF ServedUntil, Served
    <3>3. CASE w.kind = "extended"
      <4>1. w.term.status = "ACTIVE"
        BY <2>1, <2>3, <3>3 DEF Kept, Renewing
      <4> QED  BY <2>1, <2>2, <2>5, <3>3, <4>1, ActiveServes
    <3> QED  BY <2>1, <3>1, <3>2, <3>3 DEF Kinds
  <2>6. ServedUntil(w.term, p) \/ lost'
    BY <2>3, <2>5
  <2>7. SubscriptionExplained'
    <3>1. ServedUntil(term, promised)' <=> ServedUntil(w.term, p)
      BY <2>3 DEF ServedUntil, Served
    <3>2. (companyStatus = StatusFor(term.status))'
      BY <2>3 DEF StatusFor
    <3> QED  BY <2>6, <3>1, <3>2 DEF SubscriptionExplained
  <2> QED  BY <2>4, <2>7 DEF Kept
<1>9. ASSUME NEW h \in Handlers, SubscriptionFail(h) PROVE Kept'
  <2>1. Renewing'
    BY <1>9, <1>f DEF SubscriptionFail, Abandoned
  <2> QED  BY <1>9, <2>1, <1>c DEF SubscriptionFail, Kept
<1>10. CASE UNCHANGED <<pc, work, subscriptionVars>>
  BY <1>10, <1>c, <1>d DEF subscriptionVars, Kept
<1> QED
  BY <1>1, <1>2, <1>3, <1>4, <1>5, <1>6, <1>7, <1>8, <1>9, <1>10 DEF SubscriptionNext

\* A granted extension keeps the company served until its date or an admin's
\* next decision, unless a handler that was behind wrote over it; and the
\* status of the company follows the subscription, unless set since.
THEOREM SubscriptionCorrect == SubscriptionSpec => []SubscriptionExplained
<1>1. Kept => SubscriptionExplained
  BY DEF Kept
<1>2. ServingInit /\ SubscriptionInit => SubscriptionTypes /\ Kept
  BY SubscriptionTypesInit, KeptInit
<1>3. SubscriptionTypes /\ Kept /\ [SubscriptionNext]_<<pc, work, subscriptionVars>> => (SubscriptionTypes /\ Kept)'
  BY SubscriptionTypesNext, KeptNext
<1> QED  BY <1>1, <1>2, <1>3, PTL DEF SubscriptionSpec

-----------------------------------------------------------------------------
(* Branches: types                                                          *)

BranchShape == /\ pc \in [Handlers -> BranchPCs]
         /\ work = [h \in Handlers |-> work[h]]

BranchTypes == BranchTypeOK /\ BranchShape

\* A handler that goes on keeps BranchShape, and the others what they have read.
LEMMA BranchGoto ==
    ASSUME BranchTypes, NEW h \in Handlers, NEW to \in BranchPCs, NEW w, Goto(h, to, w),
           to # "idle" => w \in BranchWorks
    PROVE  /\ BranchShape'
           /\ \A g \in Handlers : /\ pc'[g] \in BranchPCs
                                  /\ pc'[g] # "idle" => work'[g] \in BranchWorks
BY DEF BranchTypes, BranchTypeOK, BranchShape, Goto

LEMMA BranchTypesInit == ServingInit /\ BranchInit => BranchTypes
BY DEF ServingInit, BranchInit, BranchTypes, BranchTypeOK, BranchShape, BranchPCs

LEMMA BranchTypesNext == BranchTypes /\ [BranchNext]_<<pc, work, branchVars>> => BranchTypes'
<1> SUFFICES ASSUME BranchTypes, [BranchNext]_<<pc, work, branchVars>> PROVE BranchTypes'
  OBVIOUS
<1> DEFINE Rest == /\ active' \subseteq built' /\ built' \subseteq BranchIds
                   /\ maxBranches' \in BranchLimits
                   /\ planActive' \in BOOLEAN
                   /\ overtaken' \subseteq Handlers
                   /\ excess' \subseteq built'
           Local == /\ BranchShape'
                    /\ \A g \in Handlers : /\ pc'[g] \in BranchPCs
                                           /\ pc'[g] # "idle" => work'[g] \in BranchWorks
<1>0. ASSUME Rest, Local PROVE BranchTypes'
  BY <1>0 DEF BranchTypes, BranchTypeOK
<1>a. /\ active \subseteq built /\ built \subseteq BranchIds
      /\ maxBranches \in BranchLimits /\ planActive \in BOOLEAN
      /\ overtaken \subseteq Handlers /\ excess \subseteq built
  BY DEF BranchTypes, BranchTypeOK
<1>b. \A h \in Handlers : pc[h] # "idle" => work[h] \in BranchWorks
  BY DEF BranchTypes, BranchTypeOK
<1>c. ASSUME UNCHANGED branchVars PROVE Rest
  BY <1>a, <1>c DEF branchVars
<1>d. ASSUME UNCHANGED <<pc, work>> PROVE Local
  BY <1>d DEF BranchTypes, BranchTypeOK, BranchShape
<1>e. ASSUME NEW h \in Handlers, Leave(h) PROVE Local
  BY <1>e, BranchGoto DEF Leave, BranchPCs
<1>1. ASSUME NEW h \in Handlers, CreatePlanRead(h) PROVE BranchTypes'
  <2>1. [max |-> maxBranches] \in BranchWorks
    BY <1>a DEF BranchWorks
  <2>2. Local
    BY <1>1, <2>1, BranchGoto DEF CreatePlanRead, Enter, BranchPCs
  <2> QED  BY <1>1, <2>2, <1>c, <1>0 DEF CreatePlanRead
<1>2. ASSUME NEW h \in Handlers, CreateTally(h) PROVE BranchTypes'
  <2>1. Rest
    BY <1>2, <1>a DEF CreateTally
  <2>2. CASE Leave(h)
    BY <2>1, <2>2, <1>e, <1>0
  <2>3. CASE Goto(h, "found", work[h])
    <3>1. Local
      BY <1>2, <2>3, <1>b, BranchGoto DEF CreateTally, BranchPCs
    <3> QED  BY <2>1, <3>1, <1>0
  <2> QED  BY <1>2, <2>2, <2>3 DEF CreateTally
<1>3. ASSUME NEW h \in Handlers, NEW on \in BOOLEAN, CreateBranch(h, on) PROVE BranchTypes'
  <2>1. Rest
    BY <1>3, <1>a DEF CreateBranch, Waiting
  <2> QED  BY <1>3, <2>1, <1>e, <1>0 DEF CreateBranch
<1>4. ASSUME NEW h \in Handlers, NEW b \in BranchIds, Activate(h, b) PROVE BranchTypes'
  <2>1. Rest
    BY <1>4, <1>a DEF Activate
  <2> QED  BY <1>4, <2>1, <1>d, <1>0 DEF Activate, AtOnce
<1>5. ASSUME NEW h \in Handlers, NEW b \in BranchIds, Deactivate(h, b) PROVE BranchTypes'
  <2>1. Rest
    BY <1>5, <1>a DEF Deactivate
  <2> QED  BY <1>5, <2>1, <1>d, <1>0 DEF Deactivate, AtOnce
<1>6. ASSUME NEW h \in Handlers, NEW n \in BranchLimits, NEW on \in BOOLEAN, ChangePlan(h, n, on)
      PROVE  BranchTypes'
  <2>1. Rest
    BY <1>6, <1>a DEF ChangePlan, Waiting
  <2> QED  BY <1>6, <2>1, <1>d, <1>0 DEF ChangePlan, AtOnce
<1>7. ASSUME NEW h \in Handlers, BranchFail(h) PROVE BranchTypes'
  <2>1. Rest
    BY <1>7, <1>a DEF BranchFail
  <2> QED  BY <1>7, <2>1, <1>e, <1>0 DEF BranchFail, Abandoned
<1>8. CASE UNCHANGED <<pc, work, branchVars>>
  BY <1>8, <1>c, <1>d, <1>0
<1> QED
  BY <1>1, <1>2, <1>3, <1>4, <1>5, <1>6, <1>7, <1>8 DEF BranchNext

\* Every variable of Branches, and what every handler has read, keeps its type.
THEOREM BranchTypeCorrect == BranchSpec => []BranchTypeOK
<1>1. BranchTypes => BranchTypeOK
  BY DEF BranchTypes
<1> QED  BY BranchTypesInit, BranchTypesNext, <1>1, PTL DEF BranchSpec

-----------------------------------------------------------------------------
(* The number of branches                                                   *)

\* The branches the plan has to allow.
Counted == active \ excess

\* A handler about to create a branch, and not overtaken, has read the plan as
\* it is, and has found room.
PlanKnown ==
    \A h \in Handlers : pc[h] \in {"tally", "found"} /\ h \notin overtaken =>
        work[h].max = maxBranches
RoomKnown ==
    \A h \in Handlers : pc[h] = "found" /\ h \notin overtaken =>
        Cardinality(Counted) < maxBranches

Quota == /\ IsFiniteSet(built) /\ BranchQuotaExplained
         /\ PlanKnown /\ RoomKnown

LEMMA Smaller ==
    ASSUME NEW S, NEW T, IsFiniteSet(S), T \subseteq S
    PROVE  /\ IsFiniteSet(T) /\ Cardinality(T) \in Nat /\ Cardinality(S) \in Nat
           /\ Cardinality(T) <= Cardinality(S)
BY FS_Subset, FS_CardinalityType

LEMMA QuotaInit == ServingInit /\ BranchInit => Quota
<1> SUFFICES ASSUME ServingInit, BranchInit PROVE Quota
  OBVIOUS
<1>1. IsFiniteSet({}) /\ Cardinality({}) = 0
  BY FS_EmptySet
<1>2. Counted = {} /\ maxBranches \in Nat /\ built = {}
  BY BranchesAssumption DEF BranchInit, Counted
<1> QED
  BY <1>1, <1>2 DEF ServingInit, Quota, BranchQuotaExplained, PlanKnown, RoomKnown, Counted

LEMMA QuotaNext ==
    BranchTypes /\ Quota /\ [BranchNext]_<<pc, work, branchVars>> => Quota'
<1> SUFFICES ASSUME BranchTypes, Quota, [BranchNext]_<<pc, work, branchVars>> PROVE Quota'
  OBVIOUS
<1>a. /\ pc \in [Handlers -> BranchPCs] /\ work = [h \in Handlers |-> work[h]]
      /\ active \subseteq built /\ built \subseteq BranchIds
      /\ maxBranches \in Nat /\ BranchLimits \subseteq Nat
  BY BranchesAssumption DEF BranchTypes, BranchTypeOK, BranchShape
<1>b. /\ IsFiniteSet(built) /\ IsFiniteSet(active) /\ IsFiniteSet(Counted)
      /\ Cardinality(active) \in Nat /\ Cardinality(Counted) \in Nat
      /\ Cardinality(Counted) <= Cardinality(active)
      /\ Cardinality(Counted) <= maxBranches
  <2>1. IsFiniteSet(built) /\ Cardinality(Counted) <= maxBranches
    BY DEF Quota, BranchQuotaExplained, Counted
  <2>2. IsFiniteSet(active)
    BY <2>1, <1>a, Smaller
  <2> QED  BY <2>1, <2>2, Smaller DEF Counted
\* A step that leaves the plan alone and takes none of the others' excuses.
<1>c. ASSUME built' = built, maxBranches' = maxBranches, Counted' \subseteq Counted,
             \A g \in Handlers : g \notin overtaken' /\ pc'[g] \in {"tally", "found"} =>
                 g \notin overtaken /\ pc'[g] = pc[g] /\ work'[g] = work[g]
      PROVE  Quota'
  <2>1. Cardinality(Counted') \in Nat /\ Cardinality(Counted') <= Cardinality(Counted)
    BY <1>b, <1>c, Smaller
  <2>2. BranchQuotaExplained'
    BY <1>a, <1>b, <1>c, <2>1 DEF BranchQuotaExplained, Counted
  <2>3. PlanKnown'
    BY <1>c DEF Quota, PlanKnown
  <2>4. RoomKnown'
    BY <1>a, <1>b, <1>c, <2>1 DEF Quota, RoomKnown
  <2> QED  BY <1>b, <1>c, <2>2, <2>3, <2>4 DEF Quota
<1>1. ASSUME NEW h \in Handlers, CreatePlanRead(h) PROVE Quota'
  BY <1>1, <1>a, <1>b
     DEF CreatePlanRead, Enter, Goto, branchVars, Quota, BranchQuotaExplained, PlanKnown,
         RoomKnown, Counted
<1>2. ASSUME NEW h \in Handlers, CreateTally(h) PROVE Quota'
  <2>1. built' = built /\ maxBranches' = maxBranches /\ Counted' = Counted
    BY <1>2 DEF CreateTally, Counted
  <2>2. CASE Cardinality(active) >= work[h].max
    BY <1>2, <1>a, <2>1, <2>2, <1>c DEF CreateTally, Leave, Goto
  <2>3. CASE ~(Cardinality(active) >= work[h].max)
    <3>1. Goto(h, "found", work[h]) /\ overtaken' = overtaken /\ pc[h] = "tally"
      BY <1>2, <2>3 DEF CreateTally
    <3>2. h \notin overtaken => Cardinality(Counted) < maxBranches
      BY <1>a, <1>b, <2>3, <3>1 DEF Quota, PlanKnown
    <3>3. PlanKnown'
      BY <1>a, <2>1, <3>1 DEF Goto, Quota, PlanKnown
    <3>4. RoomKnown'
      BY <1>a, <2>1, <3>1, <3>2 DEF Goto, Quota, RoomKnown
    <3>5. BranchQuotaExplained'
      BY <2>1, <1>b DEF BranchQuotaExplained, Counted
    <3> QED  BY <1>b, <2>1, <3>3, <3>4, <3>5 DEF Quota
  <2> QED  BY <2>2, <2>3
<1>3. ASSUME NEW h \in Handlers, NEW on \in BOOLEAN, CreateBranch(h, on) PROVE Quota'
  <2>1. PICK b \in BranchIds \ built :
          /\ built' = built \cup {b}
          /\ active' = IF on THEN active \cup {b} ELSE active
          /\ excess' = IF h \in overtaken THEN excess \cup {b} ELSE excess
    BY <1>3 DEF CreateBranch
  <2>2. /\ IsFiniteSet(built') /\ IsFiniteSet(Counted \cup {b})
        /\ Cardinality(Counted \cup {b}) = Cardinality(Counted) + 1
    <3>1. b \notin Counted
      BY <2>1, <1>a DEF Counted
    <3> QED  BY <1>b, <2>1, <3>1, FS_AddElement
  <2>3. Cardinality(Counted') \in Nat /\ Cardinality(Counted') <= maxBranches
    <3>1. CASE h \in overtaken
      <4>1. Counted' \subseteq Counted
        BY <2>1, <3>1 DEF Counted
      <4>2. Cardinality(Counted') \in Nat /\ Cardinality(Counted') <= Cardinality(Counted)
        BY <4>1, <1>b, Smaller
      <4> QED  BY <4>2, <1>a, <1>b
    <3>2. CASE h \notin overtaken
      <4>1. Counted' \subseteq Counted \cup {b}
        BY <2>1, <3>2 DEF Counted
      <4>2. /\ Cardinality(Counted') \in Nat
            /\ Cardinality(Counted') <= Cardinality(Counted \cup {b})
        BY <4>1, <2>2, Smaller
      <4>3. Cardinality(Counted) < maxBranches
        BY <1>3, <3>2 DEF CreateBranch, Quota, RoomKnown
      <4> QED  BY <4>2, <4>3, <2>2, <1>a, <1>b
    <3> QED  BY <3>1, <3>2
  <2>4. maxBranches' = maxBranches /\ Leave(h) /\ overtaken' = (overtaken \cup Waiting({"found"})) \ {h}
    BY <1>3 DEF CreateBranch
  <2>5. BranchQuotaExplained'
    BY <2>3, <2>4 DEF BranchQuotaExplained, Counted
  <2>6. PlanKnown'
    BY <1>a, <2>4 DEF Leave, Goto, Quota, PlanKnown, Waiting
  <2>7. RoomKnown'
    BY <1>a, <2>4 DEF Leave, Goto, RoomKnown, Waiting
  <2> QED  BY <2>2, <2>5, <2>6, <2>7 DEF Quota
<1>4. ASSUME NEW h \in Handlers, NEW b \in BranchIds, Activate(h, b) PROVE Quota'
  <2>1. Counted' \subseteq Counted
    BY <1>4 DEF Activate, Counted
  <2> QED  BY <1>4, <2>1, <1>c DEF Activate, AtOnce
<1>5. ASSUME NEW h \in Handlers, NEW b \in BranchIds, Deactivate(h, b) PROVE Quota'
  <2>1. Counted' \subseteq Counted
    BY <1>5 DEF Deactivate, Counted
  <2> QED  BY <1>5, <2>1, <1>c DEF Deactivate, AtOnce
<1>6. ASSUME NEW h \in Handlers, NEW n \in BranchLimits, NEW on \in BOOLEAN, ChangePlan(h, n, on)
      PROVE  Quota'
  <2>1. /\ UNCHANGED <<pc, work, built, active>> /\ maxBranches' = n /\ n \in Nat
        /\ overtaken' = overtaken \cup Waiting({"tally", "found"})
        /\ excess' = IF n < maxBranches THEN excess \cup active ELSE excess
    BY <1>6, <1>a DEF ChangePlan, AtOnce
  <2>2. Cardinality(Counted') <= n
    <3>1. CASE n < maxBranches
      <4>1. Counted' = {}
        BY <2>1, <3>1 DEF Counted
      <4> QED  BY <4>1, <2>1, FS_EmptySet
    <3>2. CASE ~(n < maxBranches)
      BY <2>1, <3>2, <1>a, <1>b DEF Counted
    <3> QED  BY <3>1, <3>2
  <2>3. BranchQuotaExplained'
    BY <2>1, <2>2 DEF BranchQuotaExplained, Counted
  <2>4. PlanKnown' /\ RoomKnown'
    BY <2>1 DEF PlanKnown, RoomKnown, Waiting
  <2> QED  BY <1>b, <2>1, <2>3, <2>4 DEF Quota
<1>7. ASSUME NEW h \in Handlers, BranchFail(h) PROVE Quota'
  <2>1. Counted' = Counted
    BY <1>7 DEF BranchFail, Counted
  <2> QED  BY <1>7, <1>a, <2>1, <1>c DEF BranchFail, Abandoned, Leave, Goto
<1>8. CASE UNCHANGED <<pc, work, branchVars>>
  BY <1>8 DEF branchVars, Quota, BranchQuotaExplained, PlanKnown, RoomKnown, Counted
<1> QED
  BY <1>1, <1>2, <1>3, <1>4, <1>5, <1>6, <1>7, <1>8 DEF BranchNext

\* The active branches stay within the plan, but for those activated again,
\* created on an outdated count or plan, or there when the plan was cut down.
THEOREM BranchQuotaCorrect == BranchSpec => []BranchQuotaExplained
<1>1. Quota => BranchQuotaExplained
  BY DEF Quota
<1>2. ServingInit /\ BranchInit => BranchTypes /\ Quota
  BY BranchTypesInit, QuotaInit
<1>3. BranchTypes /\ Quota /\ [BranchNext]_<<pc, work, branchVars>> => (BranchTypes /\ Quota)'
  BY BranchTypesNext, QuotaNext
<1> QED  BY <1>1, <1>2, <1>3, PTL DEF BranchSpec

-----------------------------------------------------------------------------
(* Policies: types                                                          *)

PolicyShape == /\ pc \in [Handlers -> PolicyPCs]
               /\ work = [h \in Handlers |-> work[h]]
               /\ \A h \in Handlers : pc[h] # "idle" => work[h] \in PolicyWorks
               /\ \A h \in Handlers : pc[h] # "idle" => work[h].seen <= Len(policies)
               /\ clock \in Instants
               /\ policies \in Seq(Versions) /\ Len(policies) <= MaxVersions
               /\ changed \in Seq(SUBSET Parts) /\ Len(changed) = Len(policies)
               /\ disordered \in BOOLEAN

LEMMA PolicyGoto ==
    ASSUME PolicyShape, NEW h \in Handlers, NEW to \in PolicyPCs, NEW w, Goto(h, to, w),
           to # "idle" => w \in PolicyWorks
    PROVE  /\ pc' \in [Handlers -> PolicyPCs]
           /\ work' = [g \in Handlers |-> work'[g]]
           /\ \A g \in Handlers : pc'[g] # "idle" => work'[g] \in PolicyWorks
           /\ pc'[h] = to /\ (to # "idle" => work'[h] = w)
           /\ \A g \in Handlers : g # h => pc'[g] = pc[g] /\ work'[g] = work[g]
BY DEF PolicyShape, Goto

LEMMA PolicyFields ==
    ASSUME NEW w \in PolicyWorks
    PROVE  /\ w.sets \in SUBSET Parts /\ w.given \in Values /\ w.base \in Values
           /\ w.from \in Instants /\ w.seen \in 0..MaxVersions
BY DEF PolicyWorks

LEMMA EditFields ==
    ASSUME PolicyShape, NEW b \in Values, NEW g \in Values, NEW parts \in SUBSET Parts,
           NEW from \in Instants
    PROVE  /\ Edit(b, g, parts, from) \in PolicyWorks
           /\ Edit(b, g, parts, from).sets = parts
           /\ Edit(b, g, parts, from).given = g
           /\ Edit(b, g, parts, from).from = from
           /\ Edit(b, g, parts, from).seen = Len(policies)
<1>1. Len(policies) \in 0..MaxVersions
  BY PoliciesAssumption DEF PolicyShape
<1> QED  BY <1>1 DEF Edit, PolicyWorks

LEMMA DefaultFields == DefaultPolicy \in Values /\ \A p \in Parts : DefaultPolicy[p] = 0
BY PoliciesAssumption DEF DefaultPolicy, Values

\* What is copied is the value of a version, or the default.
LEMMA ValuesTyped ==
    ASSUME PolicyShape, NEW I, I \subseteq DOMAIN policies
    PROVE  ValuesOf(I) \subseteq Values
<1>1. \A i \in DOMAIN policies : policies[i] \in Versions
  BY DEF PolicyShape
<1>2. \A i \in DOMAIN policies : policies[i].value \in Values
  BY <1>1 DEF Versions
<1> QED  BY <1>2, DefaultFields DEF ValuesOf

LEMMA VersionFields ==
    ASSUME PolicyShape
    PROVE  /\ DOMAIN policies = 1..Len(policies) /\ Len(policies) \in Nat
           /\ \A i \in 1..Len(policies) : policies[i].from \in Instants /\ policies[i].from \in Nat
<1>1. DOMAIN policies = 1..Len(policies) /\ Len(policies) \in Nat
  BY DEF PolicyShape
<1>2. \A i \in 1..Len(policies) : policies[i] \in Versions
  BY DEF PolicyShape
<1>3. Instants \subseteq Nat
  BY PoliciesAssumption DEF Instants
<1> QED  BY <1>1, <1>2, <1>3 DEF Versions

-----------------------------------------------------------------------------
(* Policies: no change is lost                                              *)

\* Every version comes into effect after the ones before it.
Ordered == \A i, j \in DOMAIN policies : i < j => policies[i].from < policies[j].from

\* Every version holds the last change of every part up to it.
Complete == \A i \in DOMAIN policies : \A p \in Parts : policies[i].value[p] = LastChange(i, p)

\* What a handler is about to store, if it is the next version and comes into
\* effect after all others, holds the last changes of the parts it does not
\* change.  (What a merge takes from the latest version it has yet to read.)
Carries(h) ==
    pc[h] \in {"merge", "version"}
    /\ work[h].seen = Len(policies)
    /\ (\A i \in DOMAIN policies : policies[i].from < work[h].from) =>
        \A p \in Parts \ work[h].sets :
            \/ p = "att" /\ pc[h] = "merge"
            \/ work[h].given[p] = LastChange(Len(policies), p)

Versioned == \/ disordered
             \/ Ordered /\ Complete /\ \A h \in Handlers : Carries(h)

LEMMA NothingChanged == \A p : LastChange(0, p) = 0
<1>1. \A p : {j \in 1..0 : p \in changed[j]} = {}
  OBVIOUS
<1> QED  BY <1>1 DEF LastChange, Greatest

\* A further version that changes the parts of a set.
LEMMA NextChange ==
    ASSUME PolicyShape, NEW s \in SUBSET Parts, changed' = Append(changed, s),
           NEW n, n = Len(policies)
    PROVE  /\ \A i \in 0..n : \A p : LastChange(i, p)' = LastChange(i, p)
           /\ \A p \in s : LastChange(n + 1, p)' = n + 1
           /\ \A p : p \notin s => LastChange(n + 1, p)' = LastChange(n, p)
<1>1. n \in Nat /\ \A j \in 1..n : changed'[j] = changed[j]
  BY DEF PolicyShape
<1>2. changed'[n + 1] = s
  BY DEF PolicyShape
<1>3. ASSUME NEW i \in 0..n, NEW p PROVE LastChange(i, p)' = LastChange(i, p)
  <2>1. {j \in 1..i : p \in changed'[j]} = {j \in 1..i : p \in changed[j]}
    <3>1. \A j \in 1..i : j \in 1..n
      BY <1>1
    <3> QED  BY <1>1, <3>1
  <2> QED  BY <2>1 DEF LastChange
<1>4. ASSUME NEW p \in s PROVE LastChange(n + 1, p)' = n + 1
  <2> DEFINE C == {j \in 1..(n + 1) : p \in changed'[j]}
  <2>1. n + 1 \in C /\ \A j \in C : j \in Nat /\ j <= n + 1
    <3>1. n + 1 \in 1..(n + 1) /\ \A j \in 1..(n + 1) : j \in Nat /\ j <= n + 1
      BY <1>1
    <3> QED  BY <1>2, <3>1
  <2>2. LastChange(n + 1, p)' = Greatest(C)
    BY DEF LastChange
  <2> HIDE DEF C
  <2>3. \A j \in C : (\A k \in C : k <= j) => j = n + 1
    BY <1>1, <2>1
  <2>4. \A k \in C : k <= n + 1
    BY <2>1
  <2> DEFINE top == CHOOSE j \in C : \A k \in C : k <= j
  <2>5. top \in C /\ \A k \in C : k <= top
    BY <2>1, <2>4
  <2> QED  BY <2>1, <2>2, <2>3, <2>5 DEF Greatest
<1>5. ASSUME NEW p, p \notin s PROVE LastChange(n + 1, p)' = LastChange(n, p)
  <2>1. \A j \in 1..(n + 1) : j \in 1..n \/ j = n + 1
    BY <1>1
  <2>2. \A j \in 1..n : j \in 1..(n + 1)
    BY <1>1
  <2>3. {j \in 1..(n + 1) : p \in changed'[j]} = {j \in 1..n : p \in changed[j]}
    BY <1>1, <1>2, <1>5, <2>1, <2>2
  <2> QED  BY <2>3 DEF LastChange
<1> QED  BY <1>3, <1>4, <1>5

\* While the versions are in order, the last that is due is the one in effect,
\* and holds the last changes up to it.
LEMMA EffectiveLast ==
    ASSUME PolicyShape, Ordered, Complete, NEW k \in Nat, k <= Len(policies),
           NEW t, Due(t) = 1..k, NEW v \in EffectiveAt(t), NEW p \in Parts
    PROVE  v[p] = LastChange(k, p)
<1>1. PICK n : n \in Nat /\ n = Len(policies) /\ DOMAIN policies = 1..n
  BY VersionFields
<1>2. \A i \in 1..n : policies[i].from \in Nat
  BY <1>1, VersionFields
<1>3. CASE k = 0
  <2>1. Due(t) = {}
    BY <1>3
  <2>2. LastAmong(Due(t)) = {}
    BY <2>1 DEF LastAmong
  <2> QED  BY <1>3, <2>2, DefaultFields, NothingChanged DEF EffectiveAt, ValuesOf
<1>4. CASE k # 0
  <2>1. k \in 1..k /\ \A i \in 1..k : i \in 1..n /\ (i = k \/ i < k)
    BY <1>1, <1>4
  <2>2. \A i \in 1..k : i # k => policies[i].from < policies[k].from
    BY <1>1, <2>1 DEF Ordered
  <2>3. \A i \in 1..k : policies[i].from \in Nat
    BY <1>2, <2>1
  <2>4. ASSUME NEW i \in LastAmong(Due(t)) PROVE i = k
    <3>1. i \in 1..k /\ policies[k].from <= policies[i].from
      BY <2>1, <2>4 DEF LastAmong
    <3> QED  BY <2>1, <2>2, <2>3, <3>1
  <2>5. k \in LastAmong(Due(t))
    <3>1. \A j \in 1..k : policies[j].from <= policies[k].from
      BY <2>1, <2>2, <2>3
    <3> QED  BY <2>1, <3>1 DEF LastAmong
  <2>6. PICK i \in LastAmong(Due(t)) : v = policies[i].value
    BY <2>5 DEF EffectiveAt, ValuesOf
  <2> QED  BY <1>1, <2>1, <2>4, <2>6 DEF Complete
<1> QED  BY <1>3, <1>4

LEMMA LatestComplete ==
    ASSUME PolicyShape, Ordered, Complete, NEW t, DOMAIN policies \subseteq Due(t),
           NEW v \in EffectiveAt(t), NEW p \in Parts
    PROVE  v[p] = LastChange(Len(policies), p)
<1>1. PICK n : n \in Nat /\ n = Len(policies) /\ DOMAIN policies = 1..n
  BY VersionFields
<1>2. Due(t) = 1..n
  BY <1>1 DEF Due
<1> QED  BY <1>1, <1>2, EffectiveLast

\* A request reads what it will store.
LEMMA EditKeeps ==
    ASSUME PolicyShape, Versioned, NEW h \in Handlers, NEW to \in {"merge", "version"},
           NEW w \in PolicyWorks, w.seen <= Len(policies), Goto(h, to, w),
           UNCHANGED policyVars,
           ~disordered => Carries(h)'
    PROVE  PolicyShape' /\ Versioned'
<1>1. /\ clock' = clock /\ policies' = policies /\ changed' = changed
      /\ disordered' = disordered
  BY DEF policyVars
<1>2. \A g \in Handlers : g # h => pc'[g] = pc[g] /\ work'[g] = work[g]
  BY PolicyGoto DEF PolicyPCs
<1>3. PolicyShape'
  <2>1. \A g \in Handlers : pc'[g] # "idle" => work'[g].seen <= Len(policies)
    BY <1>2, PolicyGoto DEF PolicyShape, PolicyPCs
  <2> QED  BY <1>1, <2>1, PolicyGoto DEF PolicyShape, PolicyPCs
<1>4. \A i, p : LastChange(i, p)' = LastChange(i, p)
  BY <1>1 DEF LastChange
<1>5. ASSUME ~disordered PROVE Ordered' /\ Complete' /\ \A g \in Handlers : Carries(g)'
  <2>1. Ordered /\ Complete /\ \A g \in Handlers : Carries(g)
    BY <1>5 DEF Versioned
  <2>2. Ordered'
    BY <1>1, <2>1 DEF Ordered
  <2>3. Complete'
    BY <1>1, <1>4, <2>1 DEF Complete
  <2>4. ASSUME NEW g \in Handlers, g # h PROVE Carries(g)'
    <3>1. \A p : LastChange(Len(policies), p)' = LastChange(Len(policies), p)
      BY <1>1 DEF LastChange
    <3> QED  BY <1>1, <1>2, <2>1, <2>4, <3>1 DEF Carries
  <2> QED  BY <1>5, <2>2, <2>3, <2>4
<1> QED  BY <1>1, <1>3, <1>5 DEF Versioned

LEMMA LatestIsEffective ==
    ASSUME PolicyShape
    PROVE  \E t \in Nat : DOMAIN policies \subseteq Due(t) /\ Latest = EffectiveAt(t)
<1>1. \A i \in DOMAIN policies : policies[i].from <= LastInstant
  BY VersionFields, PoliciesAssumption DEF Instants
<1>2. Due(LastInstant) = DOMAIN policies
  BY <1>1 DEF Due
<1>3. Latest = EffectiveAt(LastInstant)
  BY <1>2 DEF Latest, EffectiveAt
<1> QED  BY <1>2, <1>3, PoliciesAssumption

LEMMA LatestCarries ==
    ASSUME PolicyShape, Ordered, Complete, NEW b \in Latest, NEW p \in Parts
    PROVE  b[p] = LastChange(Len(policies), p)
<1>1. PICK t \in Nat : DOMAIN policies \subseteq Due(t) /\ Latest = EffectiveAt(t)
  BY LatestIsEffective
<1> QED  BY <1>1, LatestComplete

LEMMA EditReadKeeps ==
    ASSUME PolicyShape, Versioned, NEW h \in Handlers, NEW parts \in SUBSET Parts,
           NEW from \in Instants, EditRead(h, parts, from)
    PROVE  PolicyShape' /\ Versioned'
<1>1. PICK b \in Latest : Enter(h, "version", Edit(b, b, parts, from))
  BY DEF EditRead
<1>2. UNCHANGED policyVars
  BY DEF EditRead
<1>3. b \in Values
  BY <1>1, ValuesTyped DEF Latest, LastAmong
<1>4. PICK w : w = Edit(b, b, parts, from)
  OBVIOUS
<1>5. /\ w \in PolicyWorks /\ w.sets = parts /\ w.given = b /\ w.from = from
      /\ w.seen = Len(policies) /\ Goto(h, "version", w)
  BY <1>1, <1>3, <1>4, EditFields DEF Enter
<1>6. pc'[h] = "version" /\ work'[h] = w
  BY <1>5, PolicyGoto DEF PolicyPCs
<1>7. ASSUME ~disordered PROVE Carries(h)'
  <2>1. \A p \in Parts : w.given[p] = LastChange(Len(policies), p)
    BY <1>1, <1>5, <1>7, LatestCarries DEF Versioned
  <2>2. \A p : LastChange(Len(policies), p)' = LastChange(Len(policies), p)
    BY <1>2 DEF policyVars, LastChange
  <2> QED  BY <1>5, <1>6, <2>1, <2>2 DEF Carries
<1>8. w.seen <= Len(policies)
  BY <1>5 DEF PolicyShape
<1> QED  BY <1>2, <1>5, <1>7, <1>8, EditKeeps

\* The rest-day page reads the policy in effect: the last version, when the one
\* it will store comes into effect after all others ...
LEMMA MergeReadKeeps ==
    ASSUME PolicyShape, Versioned, NEW h \in Handlers, MergeRead(h)
    PROVE  PolicyShape' /\ Versioned'
<1>1. PICK g \in EffectiveAt(clock) : Enter(h, "merge", Edit(DefaultPolicy, g, {"rest"}, clock))
  BY DEF MergeRead
<1>2. UNCHANGED policyVars
  BY DEF MergeRead
<1>3. g \in Values
  BY <1>1, ValuesTyped DEF EffectiveAt, LastAmong, Due
<1>4. PICK w : w = Edit(DefaultPolicy, g, {"rest"}, clock)
  OBVIOUS
<1>5. /\ w \in PolicyWorks /\ w.given = g /\ w.from = clock
      /\ w.seen = Len(policies) /\ Goto(h, "merge", w)
  <2>1. {"rest"} \in SUBSET Parts /\ clock \in Instants
    BY DEF Parts, PolicyShape
  <2> QED  BY <1>1, <1>3, <1>4, <2>1, DefaultFields, EditFields DEF Enter
<1>6. pc'[h] = "merge" /\ work'[h] = w
  BY <1>5, PolicyGoto DEF PolicyPCs
<1>7. ASSUME ~disordered PROVE Carries(h)'
  <2>1. ASSUME \A i \in DOMAIN policies : policies[i].from < clock, NEW p \in Parts
        PROVE  w.given[p] = LastChange(Len(policies), p)
    <3>1. \A i \in DOMAIN policies : policies[i].from <= clock
      <4>1. clock \in Int /\ \A i \in DOMAIN policies : policies[i].from \in Int
        BY VersionFields, PoliciesAssumption DEF PolicyShape, Instants
      <4> QED  BY <2>1, <4>1
    <3>2. DOMAIN policies \subseteq Due(clock)
      BY <3>1 DEF Due
    <3> QED  BY <1>1, <1>5, <1>7, <2>1, <3>2, LatestComplete DEF Versioned
  <2>2. \A p : LastChange(Len(policies), p)' = LastChange(Len(policies), p)
    BY <1>2 DEF policyVars, LastChange
  <2>3. policies' = policies
    BY <1>2 DEF policyVars
  <2> QED  BY <1>5, <1>6, <2>1, <2>2, <2>3 DEF Carries
<1>8. w.seen <= Len(policies)
  BY <1>5 DEF PolicyShape
<1> QED  BY <1>2, <1>5, <1>7, <1>8, EditKeeps

\* ... and the attendance part from the latest.
LEMMA MergeCopyKeeps ==
    ASSUME PolicyShape, Versioned, NEW h \in Handlers, MergeCopy(h)
    PROVE  PolicyShape' /\ Versioned'
<1>1. PICK w : w = work[h]
  OBVIOUS
<1>2. PICK b \in Latest : Goto(h, "version", [w EXCEPT !.base = b, !.given.att = b.att])
  BY <1>1 DEF MergeCopy
<1>3. pc[h] = "merge" /\ w \in PolicyWorks /\ UNCHANGED policyVars
  BY <1>1 DEF MergeCopy, PolicyShape
<1>4. b \in Values
  BY <1>2, ValuesTyped DEF Latest, LastAmong
<1>5. PICK v : v = [w EXCEPT !.base = b, !.given.att = b.att]
  OBVIOUS
<1>6. /\ v \in PolicyWorks /\ v.sets = w.sets /\ v.from = w.from /\ v.seen = w.seen
      /\ \A p \in Parts : v.given[p] = IF p = "att" THEN b["att"] ELSE w.given[p]
  <2>1. [w.given EXCEPT !.att = b.att] \in Values
    BY <1>3, <1>4, PolicyFields DEF Values, Parts
  <2>2. v.given = [w.given EXCEPT !.att = b.att]
    BY <1>3, <1>5 DEF PolicyWorks
  <2>3. v \in PolicyWorks /\ v.sets = w.sets /\ v.from = w.from /\ v.seen = w.seen
    BY <1>3, <1>4, <1>5, <2>1 DEF PolicyWorks
  <2>4. w.given \in [Parts -> 0..MaxVersions]
    BY <1>3, PolicyFields DEF Values
  <2> QED  BY <2>2, <2>3, <2>4
<1>7. Goto(h, "version", v)
  BY <1>2, <1>5
<1>8. pc'[h] = "version" /\ work'[h] = v
  BY <1>6, <1>7, PolicyGoto DEF PolicyPCs
<1>9. ASSUME ~disordered PROVE Carries(h)'
  <2>1. Ordered /\ Complete /\ Carries(h)
    BY <1>9 DEF Versioned
  <2>2. \A p \in Parts : b[p] = LastChange(Len(policies), p)
    BY <1>2, <2>1, LatestCarries
  <2>3. \A p : LastChange(Len(policies), p)' = LastChange(Len(policies), p)
    BY <1>3 DEF policyVars, LastChange
  <2>4. policies' = policies
    BY <1>3 DEF policyVars
  <2> QED  BY <1>1, <1>3, <1>6, <1>8, <2>1, <2>2, <2>3, <2>4 DEF Carries
<1>10. v.seen <= Len(policies)
  BY <1>1, <1>3, <1>6 DEF PolicyShape
<1> QED  BY <1>3, <1>6, <1>7, <1>9, <1>10, EditKeeps

\* The version is stored behind the others.  In order and copied from the last
\* one, it holds the last changes in turn; whoever else is at work has seen one
\* version less.
LEMMA StoreVersionKeeps ==
    ASSUME PolicyShape, Versioned, NEW h \in Handlers, StoreVersion(h)
    PROVE  PolicyShape' /\ Versioned'
<1>1. PICK w, n, v : /\ w = work[h] /\ n = Len(policies)
                     /\ v = [p \in Parts |-> IF p \in w.sets THEN n + 1 ELSE w.given[p]]
  OBVIOUS
<1>2. pc[h] = "version" /\ w \in PolicyWorks /\ n \in Nat /\ n < MaxVersions /\ Leave(h)
  BY <1>1 DEF StoreVersion, PolicyShape
<1>3. /\ policies' = Append(policies, [from |-> w.from, value |-> v])
      /\ changed' = Append(changed, w.sets)
      /\ disordered' = \/ disordered
                       \/ w.seen # n
                       \/ \E i \in DOMAIN policies : policies[i].from >= w.from
      /\ clock' = clock
  BY <1>1 DEF StoreVersion
<1>4. w.sets \in SUBSET Parts /\ w.given \in Values /\ w.from \in Instants
  BY <1>2, PolicyFields
<1>5. [from |-> w.from, value |-> v] \in Versions
  <2>1. n + 1 \in 0..MaxVersions
    BY <1>2, PoliciesAssumption
  <2>2. v \in Values
    BY <1>1, <1>4, <2>1 DEF Values
  <2> QED  BY <1>4, <2>2 DEF Versions
<1>6. /\ policies' \in Seq(Versions) /\ Len(policies') = n + 1 /\ DOMAIN policies' = 1..(n + 1)
      /\ \A i \in 1..n : policies'[i] = policies[i]
      /\ policies'[n + 1] = [from |-> w.from, value |-> v]
  <2> HIDE DEF Versions
  <2>1. policies \in Seq(Versions)
    BY DEF PolicyShape
  <2> QED  BY <1>1, <1>2, <1>3, <1>5, <2>1
<1>7. changed' \in Seq(SUBSET Parts) /\ Len(changed') = n + 1
  <2>1. changed \in Seq(SUBSET Parts) /\ Len(changed) = n
    BY <1>1 DEF PolicyShape
  <2> QED  BY <1>2, <1>3, <1>4, <2>1
<1>8. /\ pc' \in [Handlers -> PolicyPCs]
      /\ work' = [g \in Handlers |-> work'[g]]
      /\ \A g \in Handlers : pc'[g] # "idle" => work'[g] \in PolicyWorks
      /\ pc'[h] = "idle"
      /\ \A g \in Handlers : g # h => pc'[g] = pc[g] /\ work'[g] = work[g]
  BY <1>2, PolicyGoto DEF Leave, PolicyPCs
<1>9. PolicyShape'
  <2>1. n + 1 <= MaxVersions
    BY <1>2, PoliciesAssumption
  <2>2. disordered' \in BOOLEAN /\ clock' \in Instants
    BY <1>3 DEF PolicyShape
  <2>3. \A g \in Handlers : pc'[g] # "idle" => work'[g].seen <= n + 1
    <3>1. ASSUME NEW g \in Handlers, pc'[g] # "idle" PROVE work'[g].seen <= n + 1
      <4>1. g # h /\ pc[g] # "idle" /\ work'[g] = work[g]
        BY <1>8, <3>1
      <4>2. work[g].seen <= n /\ work[g].seen \in 0..MaxVersions
        BY <1>1, <4>1, PolicyFields DEF PolicyShape
      <4> QED  BY <1>2, <4>1, <4>2, PoliciesAssumption
    <3> QED  BY <3>1
  <2> QED  BY <1>6, <1>7, <1>8, <2>1, <2>2, <2>3 DEF PolicyShape
<1>10. ASSUME ~disordered' PROVE Ordered' /\ Complete' /\ \A g \in Handlers : Carries(g)'
  <2>1. /\ ~disordered /\ w.seen = n
        /\ \A i \in DOMAIN policies : ~(policies[i].from >= w.from)
    BY <1>3, <1>10
  <2>2. Ordered /\ Complete /\ \A g \in Handlers : Carries(g)
    BY <2>1 DEF Versioned
  <2>3. DOMAIN policies = 1..n /\ \A i \in 1..n : policies[i].from \in Nat
    BY <1>1, VersionFields
  <2>4. \A i \in 1..n : policies[i].from < w.from
    <3>1. w.from \in Nat
      BY <1>4, PoliciesAssumption DEF Instants
    <3> QED  BY <2>1, <2>3, <3>1
  <2>5. \A p \in Parts \ w.sets : w.given[p] = LastChange(n, p)
    BY <1>1, <1>2, <2>1, <2>2, <2>3, <2>4 DEF Carries
  <2>6. /\ \A i \in 0..n : \A p : LastChange(i, p)' = LastChange(i, p)
        /\ \A p \in w.sets : LastChange(n + 1, p)' = n + 1
        /\ \A p : p \notin w.sets => LastChange(n + 1, p)' = LastChange(n, p)
    BY <1>1, <1>3, <1>4, NextChange
  <2>7. \A i \in 1..(n + 1) : i \in 1..n \/ i = n + 1
    BY <1>2
  <2>8. Ordered'
    <3>1. ASSUME NEW i \in 1..(n + 1), NEW j \in 1..(n + 1), i < j
          PROVE  policies'[i].from < policies'[j].from
      <4>1. i \in 1..n
        BY <1>2, <3>1
      <4>2. CASE j \in 1..n
        BY <1>6, <2>2, <2>3, <3>1, <4>1, <4>2 DEF Ordered
      <4>3. CASE j = n + 1
        BY <1>6, <2>4, <4>1, <4>3
      <4> QED  BY <2>7, <4>2, <4>3
    <3> QED  BY <1>6, <3>1 DEF Ordered
  <2>9. Complete'
    <3>1. ASSUME NEW i \in 1..(n + 1), NEW p \in Parts
          PROVE  policies'[i].value[p] = LastChange(i, p)'
      <4>1. CASE i \in 1..n
        <5>1. i \in 0..n
          BY <1>2, <4>1
        <5> QED  BY <1>6, <2>2, <2>3, <2>6, <4>1, <5>1 DEF Complete
      <4>2. CASE i = n + 1
        <5>1. policies'[i].value = v
          BY <1>6, <4>2
        <5>2. LastChange(i, p)' = IF p \in w.sets THEN n + 1 ELSE LastChange(n, p)
          BY <2>6, <4>2
        <5> QED  BY <1>1, <2>5, <5>1, <5>2
      <4> QED  BY <2>7, <4>1, <4>2
    <3> QED  BY <1>6, <3>1 DEF Complete
  <2>10. ASSUME NEW g \in Handlers PROVE Carries(g)'
    <3>1. CASE g = h
      BY <1>8, <3>1 DEF Carries
    <3>2. CASE g # h
      <4>1. pc'[g] = pc[g] /\ work'[g] = work[g]
        BY <1>8, <3>2
      <4>2. ASSUME work[g].seen = n + 1, pc[g] \in {"merge", "version"} PROVE FALSE
        <5>1. work[g].seen <= n
          BY <1>1, <4>2 DEF PolicyShape
        <5> QED  BY <1>2, <4>2, <5>1
      <4> QED  BY <1>6, <4>1, <4>2 DEF Carries
    <3> QED  BY <3>1, <3>2
  <2> QED  BY <2>8, <2>9, <2>10
<1> QED  BY <1>9, <1>10 DEF Versioned

\* A step that only ends a request, or moves the clock.
LEMMA PolicyQuiet ==
    ASSUME PolicyShape, Versioned, UNCHANGED <<policies, changed, disordered>>,
           clock' \in Instants,
           pc' \in [Handlers -> PolicyPCs], work' = [g \in Handlers |-> work'[g]],
           \A g \in Handlers : pc'[g] # "idle" => pc'[g] = pc[g] /\ work'[g] = work[g]
    PROVE  PolicyShape' /\ Versioned'
<1>1. PolicyShape'
  BY DEF PolicyShape
<1>2. \A p : LastChange(Len(policies), p)' = LastChange(Len(policies), p)
  BY DEF LastChange
<1>3. \A i, p : LastChange(i, p)' = LastChange(i, p)
  BY DEF LastChange
<1>4. Ordered => Ordered'
  BY DEF Ordered
<1>5. Complete => Complete'
  BY <1>3 DEF Complete
<1>6. \A g \in Handlers : Carries(g) => Carries(g)'
  BY <1>2 DEF Carries
<1> QED  BY <1>1, <1>4, <1>5, <1>6 DEF Versioned

LEMMA PolicyStart == ServingInit /\ PolicyInit => PolicyShape /\ Versioned
<1> SUFFICES ASSUME ServingInit, PolicyInit PROVE PolicyShape /\ Versioned
  OBVIOUS
<1>1. PolicyShape
  <2>1. 1 \in Instants /\ 0 <= MaxVersions
    BY PoliciesAssumption DEF Instants
  <2>2. Len(<<>>) = 0
    OBVIOUS
  <2>3. clock \in Instants /\ disordered \in BOOLEAN
    BY <2>1 DEF PolicyInit
  <2>4. policies \in Seq(Versions) /\ changed \in Seq(SUBSET Parts)
    BY DEF PolicyInit
  <2>5. Len(policies) = 0 /\ Len(changed) = 0
    BY <2>2 DEF PolicyInit
  <2>6. /\ pc \in [Handlers -> PolicyPCs] /\ work = [h \in Handlers |-> work[h]]
        /\ \A h \in Handlers : pc[h] = "idle"
    BY DEF ServingInit, PolicyPCs
  <2> QED  BY <2>1, <2>3, <2>4, <2>5, <2>6 DEF PolicyShape
<1>2. Versioned
  BY DEF ServingInit, PolicyInit, Versioned, Ordered, Complete, Carries
<1> QED  BY <1>1, <1>2

LEMMA PolicyNextKeeps ==
    PolicyShape /\ Versioned /\ [PolicyNext]_<<pc, work, policyVars>> => PolicyShape' /\ Versioned'
<1> SUFFICES ASSUME PolicyShape, Versioned, [PolicyNext]_<<pc, work, policyVars>>
             PROVE  PolicyShape' /\ Versioned'
  OBVIOUS
<1>1. ASSUME NEW h \in Handlers, NEW parts \in {{"att"}, {"calc", "rest"}}, NEW from \in Instants,
             EditRead(h, parts, from)
      PROVE  PolicyShape' /\ Versioned'
  <2>1. parts \in SUBSET Parts
    BY DEF Parts
  <2> QED  BY <1>1, <2>1, EditReadKeeps
<1>2. ASSUME NEW h \in Handlers, MergeRead(h) PROVE PolicyShape' /\ Versioned'
  BY <1>2, MergeReadKeeps
<1>3. ASSUME NEW h \in Handlers, MergeCopy(h) PROVE PolicyShape' /\ Versioned'
  BY <1>3, MergeCopyKeeps
<1>4. ASSUME NEW h \in Handlers, StoreVersion(h) PROVE PolicyShape' /\ Versioned'
  BY <1>4, StoreVersionKeeps
<1>5. ASSUME NEW h \in Handlers, PolicyFail(h) PROVE PolicyShape' /\ Versioned'
  <2>1. Leave(h) /\ UNCHANGED <<policies, changed, disordered, clock>>
    BY <1>5 DEF PolicyFail, Abandoned, policyVars
  <2>2. pc'[h] = "idle" /\ \A g \in Handlers : g # h => pc'[g] = pc[g] /\ work'[g] = work[g]
    BY <2>1, PolicyGoto DEF Leave, PolicyPCs
  <2>3. pc' \in [Handlers -> PolicyPCs] /\ work' = [g \in Handlers |-> work'[g]]
    BY <2>1, PolicyGoto DEF Leave, PolicyPCs
  <2>4. clock' \in Instants
    BY <2>1 DEF PolicyShape
  <2> QED  BY <2>1, <2>2, <2>3, <2>4, PolicyQuiet
<1>6. CASE ClockTick
  <2>1. clock' \in Instants
    BY <1>6, PoliciesAssumption DEF ClockTick, PolicyShape, Instants
  <2>2. UNCHANGED <<pc, work, policies, changed, disordered>>
    BY <1>6 DEF ClockTick
  <2>3. pc' \in [Handlers -> PolicyPCs] /\ work' = [g \in Handlers |-> work'[g]]
    BY <2>2 DEF PolicyShape
  <2> QED  BY <2>1, <2>2, <2>3, PolicyQuiet
<1>7. CASE UNCHANGED <<pc, work, policyVars>>
  <2>1. UNCHANGED <<pc, work, policies, changed, disordered, clock>>
    BY <1>7 DEF policyVars
  <2>2. /\ pc' \in [Handlers -> PolicyPCs] /\ work' = [g \in Handlers |-> work'[g]]
        /\ clock' \in Instants
    BY <2>1 DEF PolicyShape
  <2> QED  BY <2>1, <2>2, PolicyQuiet
<1> QED  BY <1>1, <1>2, <1>3, <1>4, <1>5, <1>6, <1>7 DEF PolicyNext

LEMMA PolicyTyped == PolicyShape => PolicyTypeOK
<1> SUFFICES ASSUME PolicyShape PROVE PolicyTypeOK
  OBVIOUS
<1>1. \A i \in DOMAIN policies : policies[i] \in Versions
  BY DEF PolicyShape
<1>2. DOMAIN changed = DOMAIN policies
  <2>1. DOMAIN changed = 1..Len(changed) /\ DOMAIN policies = 1..Len(policies)
    BY DEF PolicyShape
  <2> QED  BY <2>1 DEF PolicyShape
<1> QED  BY <1>1, <1>2 DEF PolicyShape, PolicyTypeOK

\* What every run of the policies keeps: the versions, in number and in kind,
\* and what a request has read.
THEOREM PolicyTypeCorrect == PolicySpec => []PolicyTypeOK
<1>1. PolicyShape => PolicyTypeOK
  BY PolicyTyped
<1>2. ServingInit /\ PolicyInit => PolicyShape /\ Versioned
  BY PolicyStart
<1>3. PolicyShape /\ Versioned /\ [PolicyNext]_<<pc, work, policyVars>> => (PolicyShape /\ Versioned)'
  BY PolicyNextKeeps
<1> QED  BY <1>1, <1>2, <1>3, PTL DEF PolicySpec

\* The versions that are due are the first ones, while they are in order.
LEMMA DueFirst ==
    ASSUME PolicyShape, Ordered, NEW t \in Instants
    PROVE  \E k \in Nat : k <= Len(policies) /\ Due(t) = 1..k /\ Cardinality(Due(t)) = k
<1>1. PICK n : n \in Nat /\ n = Len(policies) /\ DOMAIN policies = 1..n
  BY VersionFields
<1>2. \A i \in 1..n : policies[i].from \in Nat
  BY <1>1, VersionFields
<1>3. t \in Nat
  BY PoliciesAssumption DEF Instants
<1>4. PICK k \in Nat : k <= n /\ Due(t) = 1..k
  <2>1. CASE Due(t) = {}
    <3>1. Due(t) = 1..0
      BY <2>1
    <3> QED  BY <1>1, <3>1
  <2>2. CASE Due(t) # {}
    <3>1. Due(t) \subseteq 1..n /\ IsFiniteSet(1..n)
      BY <1>1, FS_Interval DEF Due
    <3>2. IsFiniteSet(Due(t)) /\ \A i \in Due(t) : i \in Int
      <4>1. \A i \in 1..n : i \in Int
        BY <1>1
      <4>2. IsFiniteSet(Due(t))
        BY <3>1, FS_Subset
      <4> QED  BY <3>1, <4>1, <4>2
    <3>3. PICK k \in Due(t) : \A i \in Due(t) : i <= k
      BY <2>2, <3>2, LargestNumber
    <3>4. k \in 1..n /\ policies[k].from <= t
      BY <1>1, <3>3 DEF Due
    <3>5. ASSUME NEW i \in 1..k PROVE i \in Due(t)
      <4>1. i \in 1..n /\ (i = k \/ i < k)
        <5>1. i \in Int /\ k \in Int /\ n \in Int /\ 1 <= i /\ i <= k /\ k <= n
          BY <1>1, <3>4, <3>5
        <5> QED  BY <5>1
      <4>2. policies[i].from <= policies[k].from
        BY <1>1, <1>2, <3>4, <4>1 DEF Ordered
      <4>3. policies[i].from <= t
        BY <1>2, <1>3, <3>4, <4>1, <4>2
      <4> QED  BY <1>1, <4>1, <4>3 DEF Due
    <3>6. ASSUME NEW i \in Due(t) PROVE i \in 1..k
      <4>1. i \in 1..n /\ i <= k
        BY <3>1, <3>3
      <4> QED  BY <1>1, <3>4, <4>1
    <3>7. Due(t) = 1..k
      BY <3>5, <3>6
    <3>8. k \in Nat /\ k <= n
      BY <1>1, <3>4
    <3> QED  BY <3>7, <3>8
  <2> QED  BY <2>1, <2>2
<1>5. Cardinality(1..k) = k
  BY FS_Interval
<1> QED  BY <1>1, <1>4, <1>5

LEMMA PolicyKept == PolicyShape /\ Versioned => PolicyKeepsChanges
<1> SUFFICES ASSUME PolicyShape, Versioned, ~disordered, NEW t \in Instants,
                    NEW v \in EffectiveAt(t), NEW p \in Parts
             PROVE  v[p] = LastChange(Cardinality(Due(t)), p)
  BY DEF PolicyKeepsChanges
<1>1. Ordered /\ Complete
  BY DEF Versioned
<1>2. PICK k \in Nat : k <= Len(policies) /\ Due(t) = 1..k /\ Cardinality(Due(t)) = k
  BY <1>1, DueFirst
<1> QED  BY <1>1, <1>2, EffectiveLast

\* Whichever requests change the policy, what is in effect at any time holds
\* the last change that is due of every part, unless the versions were stored
\* out of order or on an outdated copy.
THEOREM PolicyChangesKept == PolicySpec => []PolicyKeepsChanges
<1>1. PolicyShape /\ Versioned => PolicyKeepsChanges
  BY PolicyKept
<1>2. ServingInit /\ PolicyInit => PolicyShape /\ Versioned
  BY PolicyStart
<1>3. PolicyShape /\ Versioned /\ [PolicyNext]_<<pc, work, policyVars>> => (PolicyShape /\ Versioned)'
  BY PolicyNextKeeps
<1> QED  BY <1>1, <1>2, <1>3, PTL DEF PolicySpec

-----------------------------------------------------------------------------
(* Pay: the tax schedule                                                    *)

\* What each bracket is charged, what it should be, and what it leaves out.
Part(x) == [i \in DOMAIN Brackets |->
              IF x > Brackets[i].from THEN InBracket(x, Brackets[i]) * Brackets[i].rate ELSE 0]
Owed(x) == [i \in DOMAIN Brackets |->
             AtLeast(0, InBracket(x, [Brackets[i] EXCEPT !.from = ScheduleEnds(i)]))
             * Brackets[i].rate]
Left(x) == [i \in DOMAIN Brackets |->
              IF i # 1 /\ x > ScheduleEnds(i) THEN Brackets[i].rate ELSE 0]
RateOf == [i \in DOMAIN Brackets |-> Brackets[i].rate]
ChargeOf(x) == [i \in DOMAIN Brackets |-> InBracket(x, Brackets[i]) * Brackets[i].rate]

LEMMA BracketTypes ==
    ASSUME NEW i \in DOMAIN Brackets
    PROVE  /\ Brackets[i].from \in Nat /\ Brackets[i].rate \in 0..100
           /\ Brackets[i].to \in Nat \cup {NoUpperEnd} /\ NoUpperEnd = 0 - 1
<1> DEFINE B == [from : Nat, to : Nat \cup {NoUpperEnd}, rate : 0..100]
<1>1. Brackets \in Seq(B)
  BY PayFiguresAssumption
<1> HIDE DEF B
<1>2. Brackets[i] \in B
  BY <1>1
<1>3. NoUpperEnd = 0 - 1
  BY DEF NoUpperEnd
<1> QED  BY <1>2, <1>3 DEF B

\* What brackets that follow one another look like.
LEMMA BracketFacts ==
    ASSUME BracketsFollow, NEW i \in DOMAIN Brackets
    PROVE  /\ i \in Nat /\ 1..i \subseteq DOMAIN Brackets
           /\ Brackets[i].from \in Nat /\ Brackets[i].rate \in 0..100
           /\ Brackets[i].to \in Nat \cup {NoUpperEnd} /\ NoUpperEnd = 0 - 1
           /\ Brackets[i].to # NoUpperEnd => Brackets[i].from <= Brackets[i].to
           /\ ScheduleEnds(i) \in Nat
           /\ IF i = 1 THEN ScheduleEnds(i) = 0 /\ Brackets[i].from = 0
                       ELSE Brackets[i].from = ScheduleEnds(i) + 1
           /\ [Brackets[i] EXCEPT !.from = ScheduleEnds(i)].from = ScheduleEnds(i)
           /\ [Brackets[i] EXCEPT !.from = ScheduleEnds(i)].to = Brackets[i].to
<1> DEFINE B == [from : Nat, to : Nat \cup {NoUpperEnd}, rate : 0..100]
<1>1. i \in 1..Len(Brackets) /\ Len(Brackets) \in Nat /\ DOMAIN Brackets = 1..Len(Brackets)
  BY PayFiguresAssumption
<1>2. \A j \in DOMAIN Brackets : Brackets[j] \in B
  <2>1. Brackets \in Seq(B)
    BY PayFiguresAssumption
  <2> HIDE DEF B
  <2> QED  BY <2>1
<1>3. i \in Nat /\ 1..i \subseteq DOMAIN Brackets
  BY <1>1
<1>4. Brackets[i].from = IF i = 1 THEN 0 ELSE Brackets[i - 1].to + 1
  BY DEF BracketsFollow
<1>5. Brackets[i].to # NoUpperEnd => Brackets[i].from <= Brackets[i].to
  BY DEF BracketsFollow
<1>6. i # 1 => Brackets[i - 1].to \in Nat
  <2>1. i # 1 => i - 1 \in 1..(i - 1) /\ i - 1 \in DOMAIN Brackets
    BY <1>1
  <2>2. i # 1 => Brackets[i - 1].to # NoUpperEnd
    BY <2>1 DEF BracketsFollow
  <2> QED  BY <1>2, <2>1, <2>2
<1>7. Brackets[i].from \in Nat /\ Brackets[i].rate \in 0..100 /\ Brackets[i].to \in Nat \cup {NoUpperEnd}
  BY <1>2
<1>8. /\ [Brackets[i] EXCEPT !.from = ScheduleEnds(i)].from = ScheduleEnds(i)
      /\ [Brackets[i] EXCEPT !.from = ScheduleEnds(i)].to = Brackets[i].to
  <2>1. Brackets[i] \in B
    BY <1>2
  <2> QED  BY <2>1
<1>9. NoUpperEnd = 0 - 1
  BY DEF NoUpperEnd
<1> QED  BY <1>3, <1>4, <1>5, <1>6, <1>7, <1>8, <1>9 DEF ScheduleEnds

\* A bracket ends below the beginning of every later one.
LEMMA BracketsRise ==
    ASSUME BracketsFollow, NEW i \in DOMAIN Brackets, NEW j \in DOMAIN Brackets, j < i
    PROVE  /\ Brackets[j].to \in Nat /\ Brackets[j].to < Brackets[i].from
           /\ Brackets[j].from < Brackets[i].from
<1>1. j \in 1..(i - 1)
  <2>1. i \in Nat /\ j \in 1..j /\ j \in Nat /\ 1 <= j
    <3>1. DOMAIN Brackets = 1..Len(Brackets)
      BY PayFiguresAssumption
    <3> QED  BY <3>1, BracketFacts
  <2> QED  BY <2>1
<1>2. Brackets[j].to # NoUpperEnd /\ Brackets[j].to < Brackets[i].from
  BY <1>1 DEF BracketsFollow
<1> QED  BY <1>2, BracketFacts

LEMMA BracketsFinite == IsFiniteSet(DOMAIN Brackets)
<1>1. DOMAIN Brackets = 1..Len(Brackets) /\ Len(Brackets) \in Nat
  BY PayFiguresAssumption
<1> QED  BY <1>1, FS_Interval

\* The brackets an income reaches are those that begin below it.
LEMMA ReachedIs ==
    ASSUME BracketsFollow, NEW x \in Nat
    PROVE  Reached(x) = {i \in DOMAIN Brackets : x > Brackets[i].from}
<1>1. ASSUME NEW i \in DOMAIN Brackets, x > Brackets[i].from, NEW j \in 1..i
      PROVE  x > Brackets[j].from
  <2>1. j \in DOMAIN Brackets /\ i \in Nat
    BY <1>1, BracketFacts
  <2>2. CASE j = i
    BY <1>1, <2>2
  <2>3. CASE j < i
    BY <1>1, <2>1, <2>3, BracketsRise, BracketFacts
  <2> QED  BY <2>1, <2>2, <2>3
<1>2. \A i \in DOMAIN Brackets : i \in 1..i
  <2>1. DOMAIN Brackets = 1..Len(Brackets) /\ Len(Brackets) \in Nat
    BY PayFiguresAssumption
  <2> QED  BY <2>1
<1> QED  BY <1>1, <1>2 DEF Reached

LEMMA Distributes ==
    ASSUME NEW c \in Int, NEW k \in Int
    PROVE  (c + 1) * k = c * k + k /\ c * k \in Int /\ 0 * k = 0 /\ 1 * k = k
OBVIOUS

\* Each bracket is charged what is due, but for one unit.
LEMMA PartOfDue ==
    ASSUME BracketsFollow, NEW x \in Nat, NEW i \in DOMAIN Brackets
    PROVE  /\ Part(x)[i] \in Int /\ Left(x)[i] \in Int
           /\ Owed(x)[i] = Part(x)[i] + Left(x)[i]
<1>1. PICK f, t, r, e : f = Brackets[i].from /\ t = Brackets[i].to /\ r = Brackets[i].rate
                        /\ e = ScheduleEnds(i)
  OBVIOUS
<1>2. /\ f \in Nat /\ t \in Nat \cup {0 - 1} /\ r \in 0..100 /\ r \in Int /\ e \in Nat
      /\ t # 0 - 1 => f <= t
      /\ IF i = 1 THEN e = 0 /\ f = 0 ELSE f = e + 1
  BY <1>1, BracketFacts
<1>3. PICK m : m = IF t = 0 - 1 THEN x ELSE AtMost(x, t)
  OBVIOUS
<1>4. /\ m \in Nat /\ m <= x /\ (x >= f => m >= f)
      /\ m - f \in Int /\ m - e \in Int
  BY <1>2, <1>3 DEF AtMost
<1>5. Part(x)[i] = IF x > f THEN (m - f) * r ELSE 0
  BY <1>1, <1>3, BracketFacts DEF Part, InBracket
<1>6. Owed(x)[i] = AtLeast(0, m - e) * r
  BY <1>1, <1>3, BracketFacts DEF Owed, InBracket
<1>7. Left(x)[i] = IF i # 1 /\ x > e THEN r ELSE 0
  BY <1>1 DEF Left
<1>8. (m - f) * r \in Int /\ (m - f + 1) * r = (m - f) * r + r /\ 0 * r = 0 /\ 1 * r = r
  BY <1>2, <1>4, Distributes
<1>9. CASE i = 1
  <2>1. e = 0 /\ f = 0 /\ AtLeast(0, m - e) = m - f
    BY <1>2, <1>4, <1>9 DEF AtLeast
  <2>2. x = 0 => m - f = 0
    BY <1>4, <2>1
  <2> QED  BY <1>5, <1>6, <1>7, <1>8, <1>9, <2>1, <2>2
<1>10. CASE i # 1 /\ x > f
  <2>1. AtLeast(0, m - e) = m - f + 1 /\ x > e
    BY <1>2, <1>4, <1>10 DEF AtLeast
  <2> QED  BY <1>2, <1>5, <1>6, <1>7, <1>8, <1>10, <2>1
<1>11. CASE i # 1 /\ x = f
  <2>1. AtLeast(0, m - e) = 1 /\ x > e
    BY <1>2, <1>4, <1>11 DEF AtLeast
  <2> QED  BY <1>2, <1>5, <1>6, <1>7, <1>8, <1>11, <2>1
<1>12. CASE i # 1 /\ x < f
  <2>1. AtLeast(0, m - e) = 0 /\ ~(x > e)
    BY <1>2, <1>4, <1>12 DEF AtLeast
  <2> QED  BY <1>2, <1>5, <1>6, <1>7, <1>8, <1>12, <2>1
<1> QED  BY <1>2, <1>9, <1>10, <1>11, <1>12

\* Math.round()
LEMMA RoundedClose ==
    ASSUME NEW n \in Int
    PROVE  Rounded(n, 100) \in Int /\ 100 * Rounded(n, 100) - n \in (0 - 50)..50
BY DEF Rounded

\* The sums of the code and of the property are sums of these.
LEMMA TaxCharges ==
    ASSUME NEW x \in Nat
    PROVE  /\ ProgressiveTax(x) = Rounded(Total(ChargeOf(x), Reached(x)), 100)
           /\ ProgressiveTax(x) \in Int
<1> DEFINE S == Reached(x)
<1>2. S \subseteq DOMAIN Brackets /\ IsFiniteSet(S)
  BY BracketsFinite, FS_Subset DEF Reached
<1>3. MapThenSumSet(LAMBDA i : InBracket(x, Brackets[i]) * Brackets[i].rate, S)
      = Total(ChargeOf(x), S)
  <2>1. \A s \in SUBSET S : s # {} =>
          ChargeOf(x)[Chosen(s)] = InBracket(x, Brackets[Chosen(s)]) * Brackets[Chosen(s)].rate
    BY <1>2 DEF ChargeOf, Chosen
  <2>2. \A f : f = [s \in SUBSET S |->
                      IF s = {} THEN 0
                      ELSE InBracket(x, Brackets[Chosen(s)]) * Brackets[Chosen(s)].rate
                           + f[s \ {Chosen(s)}]]
               <=> Adds(ChargeOf(x), S, f)
    BY <2>1 DEF Adds
  <2> QED  BY <2>2 DEF MapThenSumSet, MapThenFoldSet, Total, Adding, Chosen
<1>4. ASSUME NEW i \in S PROVE ChargeOf(x)[i] \in Int
  <2>1. PICK f, t, r : f = Brackets[i].from /\ t = Brackets[i].to /\ r = Brackets[i].rate
    OBVIOUS
  <2>2. f \in Int /\ t \in Int /\ r \in Int
    BY <1>2, <2>1, BracketTypes
  <2>3. PICK k : k = (IF t = NoUpperEnd THEN x ELSE AtMost(x, t)) - f
    OBVIOUS
  <2>4. k \in Int /\ k * r \in Int
    <3>1. k \in Int
      BY <2>2, <2>3 DEF AtMost
    <3> QED  BY <2>2, <3>1, Distributes
  <2>5. ChargeOf(x)[i] = k * r
    BY <1>2, <2>1, <2>3 DEF ChargeOf, InBracket
  <2> QED  BY <2>4, <2>5
<1>5. Total(ChargeOf(x), S) \in Int
  BY <1>2, <1>4, TotalType
<1>6. ProgressiveTax(x) = Rounded(Total(ChargeOf(x), S), 100)
  BY <1>3, Zenon DEF ProgressiveTax
<1> QED  BY <1>5, <1>6, RoundedClose

LEMMA TaxSum ==
    ASSUME BracketsFollow, NEW x \in Nat
    PROVE  ProgressiveTax(x) = Rounded(Total(Part(x), DOMAIN Brackets), 100)
<1>1. PICK S : S = Reached(x)
  OBVIOUS
<1>2. S \subseteq DOMAIN Brackets /\ IsFiniteSet(S)
  BY <1>1, BracketsFinite, FS_Subset DEF Reached
<1>3. \A i \in S : ChargeOf(x)[i] = Part(x)[i]
  BY <1>1, <1>2, ReachedIs DEF ChargeOf, Part
<1>4. Total(ChargeOf(x), S) = Total(Part(x), S)
  BY <1>2, <1>3, TotalAgrees
<1>5. Total(Part(x), DOMAIN Brackets) = Total(Part(x), S)
  <2>1. \A i \in DOMAIN Brackets \ S : Part(x)[i] = 0
    BY <1>1, ReachedIs DEF Part
  <2> QED  BY <1>2, <2>1, BracketsFinite, PartOfDue, TotalRest
<1> QED  BY <1>1, <1>4, <1>5, TaxCharges

LEMMA DueSum ==
    ASSUME NEW x \in Nat
    PROVE  MarginalTax(x) = Total(Owed(x), DOMAIN Brackets)
<1> DEFINE S == DOMAIN Brackets
<1>1. \A s \in SUBSET S : s # {} =>
        Owed(x)[Chosen(s)] =
          AtLeast(0, InBracket(x, [Brackets[Chosen(s)] EXCEPT !.from = ScheduleEnds(Chosen(s))]))
          * Brackets[Chosen(s)].rate
  BY DEF Owed, Chosen
<1>2. \A f : f = [s \in SUBSET S |->
                    IF s = {} THEN 0
                    ELSE AtLeast(0, InBracket(x, [Brackets[Chosen(s)] EXCEPT
                                                    !.from = ScheduleEnds(Chosen(s))]))
                         * Brackets[Chosen(s)].rate
                         + f[s \ {Chosen(s)}]]
             <=> Adds(Owed(x), S, f)
  BY <1>1 DEF Adds
<1> QED  BY <1>2 DEF MarginalTax, MapThenSumSet, MapThenFoldSet, Total, Adding, Chosen

LEMMA LeftSum ==
    ASSUME BracketsFollow, NEW x \in Nat
    PROVE  UnitsLost(x) = Total(Left(x), DOMAIN Brackets)
<1>1. PICK S : S = {i \in DOMAIN Brackets : i # 1 /\ x > ScheduleEnds(i)}
  OBVIOUS
<1>2. S \subseteq DOMAIN Brackets /\ IsFiniteSet(S)
  BY <1>1, BracketsFinite, FS_Subset
<1>3. MapThenSumSet(LAMBDA i : Brackets[i].rate, S) = Total(RateOf, S)
  <2>1. \A s \in SUBSET S : s # {} => RateOf[Chosen(s)] = Brackets[Chosen(s)].rate
    BY <1>2 DEF RateOf, Chosen
  <2>2. \A f : f = [s \in SUBSET S |->
                      IF s = {} THEN 0 ELSE Brackets[Chosen(s)].rate + f[s \ {Chosen(s)}]]
               <=> Adds(RateOf, S, f)
    BY <2>1 DEF Adds
  <2> QED  BY <2>2 DEF MapThenSumSet, MapThenFoldSet, Total, Adding, Chosen
<1>4. \A i \in S : RateOf[i] = Left(x)[i]
  BY <1>1 DEF RateOf, Left
<1>5. Total(RateOf, S) = Total(Left(x), S)
  BY <1>2, <1>4, TotalAgrees
<1>6. Total(Left(x), DOMAIN Brackets) = Total(Left(x), S)
  <2>1. \A i \in DOMAIN Brackets \ S : Left(x)[i] = 0
    BY <1>1 DEF Left
  <2> QED  BY <1>2, <2>1, BracketsFinite, PartOfDue, TotalRest
<1> QED  BY <1>1, <1>3, <1>5, <1>6 DEF UnitsLost

\* Math.round(), of the social security
Milles(n) == Rounded(n, 1000)

LEMMA RoundedBetween ==
    ASSUME NEW n \in Int
    PROVE  /\ Rounded(n, 100) \in Int /\ Milles(n) \in Int
           /\ 200 * Rounded(n, 100) <= 2 * n + 100 /\ 2 * n + 100 < 200 * Rounded(n, 100) + 200
           /\ 2000 * Milles(n) <= 2 * n + 1000
           /\ 2 * n + 1000 < 2000 * Milles(n) + 2000
BY DEF Rounded, Milles

LEMMA RoundedSteps ==
    ASSUME NEW n \in Int, NEW k \in 0..100
    PROVE  Rounded(n + k, 100) - Rounded(n, 100) \in 0..1
<1>1. n + k \in Int
  OBVIOUS
<1>2. PICK a, b : a = Rounded(n, 100) /\ b = Rounded(n + k, 100)
  OBVIOUS
<1>3. /\ a \in Int /\ b \in Int
      /\ 200 * a <= 2 * n + 100 /\ 2 * n + 100 < 200 * a + 200
      /\ 200 * b <= 2 * (n + k) + 100 /\ 2 * (n + k) + 100 < 200 * b + 200
  BY <1>1, <1>2, RoundedBetween
<1>4. 0 <= b - a /\ b - a <= 1
  BY <1>3
<1> QED  BY <1>2, <1>3, <1>4

LEMMA RoundedMilles ==
    ASSUME NEW n \in Int, NEW k \in 0..1000
    PROVE  Milles(n + k) - Milles(n) \in 0..1
<1>1. n + k \in Int
  OBVIOUS
<1>2. PICK a, b : a = Milles(n) /\ b = Milles(n + k)
  OBVIOUS
<1>3. /\ a \in Int /\ b \in Int
      /\ 2000 * a <= 2 * n + 1000 /\ 2 * n + 1000 < 2000 * a + 2000
      /\ 2000 * b <= 2 * (n + k) + 1000 /\ 2 * (n + k) + 1000 < 2000 * b + 2000
  BY <1>1, <1>2, RoundedBetween
<1>4. 0 <= b - a /\ b - a <= 1
  BY <1>3
<1> QED  BY <1>2, <1>3, <1>4

\* The tax is that of the schedule but for what the brackets lose, rounded.
LEMMA TaxClose ==
    ASSUME BracketsFollow, NEW x \in Nat
    PROVE  /\ ProgressiveTax(x) \in Int
           /\ 100 * ProgressiveTax(x) - (MarginalTax(x) - UnitsLost(x)) \in (0 - 50)..50
<1>1. PICK p, d, l : /\ p = Total(Part(x), DOMAIN Brackets) /\ d = Total(Owed(x), DOMAIN Brackets)
                     /\ l = Total(Left(x), DOMAIN Brackets)
  OBVIOUS
<1>2. p \in Int /\ l \in Int
  BY <1>1, BracketsFinite, PartOfDue, TotalType
<1>3. d = p + l
  BY <1>1, BracketsFinite, PartOfDue, TotalOfBoth
<1>4. ProgressiveTax(x) = Rounded(p, 100) /\ MarginalTax(x) = d /\ UnitsLost(x) = l
  BY <1>1, TaxSum, DueSum, LeftSum
<1>5. (p + l) - l = p
  BY <1>2
<1> QED  BY <1>2, <1>3, <1>4, <1>5, RoundedClose

\* One unit more of income falls into at most one bracket.
LEMMA PartRises ==
    ASSUME BracketsFollow, NEW x \in Nat, NEW i \in DOMAIN Brackets
    PROVE  Part(x + 1)[i] - Part(x)[i] =
             IF /\ Brackets[i].from <= x
                /\ Brackets[i].to = NoUpperEnd \/ x < Brackets[i].to
             THEN Brackets[i].rate ELSE 0
<1>1. PICK f, t, r : f = Brackets[i].from /\ t = Brackets[i].to /\ r = Brackets[i].rate
  OBVIOUS
<1>2. /\ f \in Nat /\ t \in Nat \cup {0 - 1} /\ r \in 0..100 /\ r \in Int
      /\ t # 0 - 1 => f <= t
  BY <1>1, BracketFacts
<1>3. PICK m, n : /\ m = IF t = 0 - 1 THEN x ELSE AtMost(x, t)
                  /\ n = IF t = 0 - 1 THEN x + 1 ELSE AtMost(x + 1, t)
  OBVIOUS
<1>4. m \in Nat /\ n \in Nat
  BY <1>2, <1>3 DEF AtMost
<1>5. Part(x)[i] = IF x > f THEN (m - f) * r ELSE 0
  BY <1>1, <1>3, BracketFacts DEF Part, InBracket
<1>6. Part(x + 1)[i] = IF x + 1 > f THEN (n - f) * r ELSE 0
  BY <1>1, <1>3, BracketFacts DEF Part, InBracket
<1>7. (m - f) * r \in Int /\ (m - f + 1) * r = (m - f) * r + r /\ 0 * r = 0 /\ 1 * r = r
  <2>1. m - f \in Int
    BY <1>2, <1>4
  <2> QED  BY <1>2, <2>1, Distributes
<1>8. CASE f < x /\ (t = 0 - 1 \/ x < t)
  <2>1. n - f = m - f + 1 /\ x > f /\ x + 1 > f /\ f <= x
    BY <1>2, <1>3, <1>4, <1>8 DEF AtMost
  <2>2. Part(x + 1)[i] = (m - f) * r + r /\ Part(x)[i] = (m - f) * r
    BY <1>5, <1>6, <1>7, <2>1
  <2>3. ((m - f) * r + r) - (m - f) * r = r
    BY <1>2, <1>7
  <2> QED  BY <1>1, <1>2, <1>8, <2>1, <2>2, <2>3, BracketFacts
<1>9. CASE f = x /\ (t = 0 - 1 \/ x < t)
  <2>1. n - f = 1 /\ ~(x > f) /\ x + 1 > f /\ f <= x
    BY <1>2, <1>3, <1>9 DEF AtMost
  <2>2. Part(x + 1)[i] = r /\ Part(x)[i] = 0
    BY <1>5, <1>6, <1>7, <2>1
  <2> QED  BY <1>1, <1>2, <1>9, <2>1, <2>2, BracketFacts
<1>10. CASE f <= x /\ t # 0 - 1 /\ ~(x < t)
  <2>1. n = m /\ x + 1 > f /\ (x = f => n - f = 0)
    BY <1>2, <1>3, <1>10 DEF AtMost
  <2>2. Part(x + 1)[i] = Part(x)[i] /\ Part(x)[i] \in Int
    BY <1>2, <1>5, <1>6, <1>7, <1>10, <2>1
  <2> QED  BY <1>1, <1>10, <2>2, BracketFacts
<1>11. CASE x < f
  <2>1. ~(x > f) /\ ~(x + 1 > f) /\ ~(f <= x)
    BY <1>2, <1>11
  <2> QED  BY <1>1, <1>5, <1>6, <2>1
<1> QED  BY <1>2, <1>8, <1>9, <1>10, <1>11

\* So the tax on it is at most one unit.
LEMMA TaxSteps ==
    ASSUME BracketsFollow, NEW x \in Nat
    PROVE  ProgressiveTax(x + 1) - ProgressiveTax(x) \in 0..1
<1> DEFINE S == DOMAIN Brackets
           rise == [i \in S |-> Part(x + 1)[i] - Part(x)[i]]
<1>1. IsFiniteSet(S) /\ x + 1 \in Nat
  BY BracketsFinite
<1>2. \A i \in S : /\ Part(x)[i] \in Int /\ Part(x + 1)[i] \in Int
                   /\ rise[i] \in Int
                   /\ Part(x + 1)[i] = Part(x)[i] + rise[i]
  BY <1>1, PartOfDue
<1>3. \A i \in S : rise[i] \in 0..100
  BY PartRises, BracketFacts
<1>11. \A i \in S : rise[i] # 0 => Brackets[i].from <= x
  BY PartRises
<1>12. \A i \in S : rise[i] # 0 /\ Brackets[i].to # NoUpperEnd => x < Brackets[i].to
  BY PartRises
<1> HIDE DEF rise
<1>4. ASSUME NEW i \in S, NEW j \in S, rise[i] # 0, rise[j] # 0, j < i PROVE FALSE
  <2>1. Brackets[j].to \in Nat /\ Brackets[j].to < Brackets[i].from /\ Brackets[i].from \in Nat
    BY <1>4, BracketsRise, BracketFacts
  <2>2. Brackets[j].to # NoUpperEnd
    BY <2>1, BracketFacts
  <2>3. Brackets[i].from <= x
    BY <1>11, <1>4
  <2>4. x < Brackets[j].to
    BY <1>12, <1>4, <2>2
  <2> QED  BY <2>1, <2>3, <2>4
<1>5. \A i, j \in S : rise[i] # 0 /\ rise[j] # 0 => i = j
  <2>1. \A i \in S : i \in Nat
    BY BracketFacts
  <2>2. \A i, j \in S : i < j \/ j < i \/ i = j
    BY <2>1
  <2> QED  BY <1>4, <2>2
<1>6. Total(rise, S) \in 0..100
  <2>1. CASE \A i \in S : rise[i] = 0
    <3>1. Total(rise, S) = Total(rise, {})
      BY <1>1, <1>2, <2>1, TotalRest
    <3> QED  BY <3>1, TotalOfNone
  <2>2. CASE \E i \in S : rise[i] # 0
    <3>1. PICK i \in S : rise[i] # 0
      BY <2>2
    <3>2. \A j \in S \ {i} : rise[j] = 0
      BY <1>5, <3>1
    <3>3. Total(rise, S) = Total(rise, {i})
      BY <1>1, <1>2, <3>2, TotalRest
    <3>4. Total(rise, {i}) = rise[i] + Total(rise, {i} \ {i})
      <4>1. IsFiniteSet({i})
        BY FS_Singleton
      <4> QED  BY <1>2, <4>1, TotalSplits
    <3>5. {i} \ {i} = {} /\ Total(rise, {}) = 0
      BY TotalOfNone
    <3> QED  BY <1>3, <3>3, <3>4, <3>5
  <2> QED  BY <2>1, <2>2
<1>7. PICK p, q, k : p = Total(Part(x), S) /\ q = Total(Part(x + 1), S) /\ k = Total(rise, S)
  OBVIOUS
<1>8. q = p + k /\ p \in Int /\ k \in 0..100
  <2>1. p \in Int
    BY <1>1, <1>2, <1>7, TotalType
  <2>2. q = p + k
    BY <1>1, <1>2, <1>7, TotalOfBoth
  <2> QED  BY <1>6, <1>7, <2>1, <2>2
<1>9. ProgressiveTax(x) = Rounded(p, 100) /\ ProgressiveTax(x + 1) = Rounded(p + k, 100)
  BY <1>1, <1>7, <1>8, TaxSum
<1>10. Rounded(p + k, 100) - Rounded(p, 100) \in 0..1
  BY <1>8, RoundedSteps
<1> QED  BY <1>8, <1>9, <1>10

-----------------------------------------------------------------------------
(* Pay: days                                                                *)

LEMMA WholeNumbers ==
    ASSUME NEW a \in Nat, NEW b \in Nat
    PROVE  a * b \in Nat
OBVIOUS

LEMMA Divided ==
    ASSUME NEW a \in Nat, NEW d \in Nat \ {0}
    PROVE  /\ a \div d \in Nat /\ (a \div d) * d <= a /\ a < (a \div d) * d + d
OBVIOUS

LEMMA ProductsRise ==
    ASSUME NEW a \in Nat, NEW b \in Nat, a <= b, NEW k \in Nat
    PROVE  a * k <= b * k /\ k * a <= k * b
OBVIOUS

LEMMA DividedRises ==
    ASSUME NEW a \in Nat, NEW b \in Nat, a <= b, NEW d \in Nat \ {0}
    PROVE  a \div d <= b \div d
<1>1. PICK p, q : p = a \div d /\ q = b \div d
  OBVIOUS
<1>2. p \in Nat /\ q \in Nat /\ p * d <= a /\ b < q * d + d
  BY <1>1, Divided
<1>3. CASE q < p
  <2>1. q + 1 <= p /\ q + 1 \in Nat
    BY <1>2, <1>3
  <2>2. (q + 1) * d <= p * d
    BY <1>2, <2>1, ProductsRise
  <2>3. (q + 1) * d = q * d + d /\ q * d \in Int /\ p * d \in Int
    BY <1>2, Distributes
  <2> QED  BY <1>2, <2>2, <2>3
<1> QED  BY <1>1, <1>2, <1>3

\* How the days of a period are counted.
LEMMA DaysCounted ==
    ASSUME NEW in \in Inputable
    PROVE  /\ ScheduledDays(in) \in Nat /\ PayableDays(in) \in Nat /\ AbsenceDays(in) \in Nat
           /\ AbsenceDays(in) = ScheduledDays(in) - PayableDays(in)
           /\ PayableDays(in) = AtMost(ScheduledDays(in), in.attended + in.paidLeave + RestTaken(in))
           /\ in.attended + in.paidLeave + RestTaken(in) \in Nat
           /\ in.attended <= in.attended + in.paidLeave + RestTaken(in)
           /\ Divisor(in) \in Nat \ {0}
           /\ in.salary \div Divisor(in) \in Nat /\ in.salary \in Nat
           /\ BasePay(in) \in Nat /\ LeaveDeduction(in) \in Nat
           /\ in.allowances + RestCompensation(in) \in Nat
<1>1. /\ in.salary \in Nat /\ in.allowances \in Nat /\ in.restDays \in Nat
      /\ in.attended \in Nat /\ in.paidLeave \in Nat /\ in.rest \in Nat
  BY DEF Inputable
<1>2. ScheduledDays(in) \in Nat
  <2>1. PICK D : D = {d \in PeriodDays : d \in WorkDaysOn(in, d)}
    OBVIOUS
  <2>2. IsFiniteSet(D)
    BY <2>1, PayFiguresAssumption, FS_Subset
  <2> QED  BY <2>1, <2>2, FS_CardinalityType DEF ScheduledDays
<1>3. RestTaken(in) \in Nat /\ UnusedRest(in) \in Nat
  BY <1>1 DEF RestTaken, UnusedRest, AtLeast
<1>4. /\ in.attended + in.paidLeave + RestTaken(in) \in Nat
      /\ in.attended <= in.attended + in.paidLeave + RestTaken(in)
  BY <1>1, <1>3
<1>5. /\ PayableDays(in) \in Nat /\ AbsenceDays(in) \in Nat
      /\ AbsenceDays(in) = ScheduledDays(in) - PayableDays(in)
  BY <1>2, <1>4 DEF PayableDays, AbsenceDays, AtMost, AtLeast
<1>6. Divisor(in) \in Nat \ {0}
  BY <1>2 DEF Divisor, AtLeast
<1>7. in.salary \div Divisor(in) \in Nat
  BY <1>1, <1>6, Divided
<1>8. BasePay(in) \in Nat
  BY <1>1, <1>5, <1>7, WholeNumbers DEF BasePay
<1>9. LeaveDeduction(in) \in Nat
  <2>1. BasePay(in) \div Divisor(in) \in Nat
    BY <1>6, <1>8, Divided
  <2> QED  BY <1>5, <2>1, WholeNumbers DEF LeaveDeduction
<1>10. RestCompensation(in) \in Nat
  BY <1>3, <1>7, WholeNumbers DEF RestCompensation
<1>11. in.allowances + RestCompensation(in) \in Nat
  BY <1>1, <1>10
<1> QED  BY <1>1, <1>2, <1>4, <1>5, <1>6, <1>7, <1>8, <1>9, <1>11 DEF PayableDays

-----------------------------------------------------------------------------
(* Pay: payslips                                                            *)

\* What an employee is left with before the absence is taken off.
NetOf(in, base, extra) == Adjusted(in, CalculatePayroll(in, base, extra)).net

LEMMA SSRises ==
    ASSUME NEW in \in Inputable, NEW g \in Nat
    PROVE  /\ Milles(g * SSRate(in)) \in 0..g
           /\ \A d \in Nat :
                Milles((g + d) * SSRate(in)) - Milles(g * SSRate(in)) \in 0..d
<1>1. PICK r : r = SSRate(in)
  OBVIOUS
<1>2. r \in 0..1000 /\ r \in Int
  <2>1. EmployeeSS \in 0..1000
    BY PayFiguresAssumption
  <2> QED  BY <1>1, <2>1 DEF SSRate
<1>3. PICK f : f = [x \in Nat |-> Milles(x * r)]
  OBVIOUS
<1>4. ASSUME NEW x \in Nat PROVE f[x] \in Int /\ f[x + 1] - f[x] \in 0..1
  <2>1. PICK n : n = x * r
    OBVIOUS
  <2>2. n \in Int /\ (x + 1) * r = n + r /\ x + 1 \in Nat
    BY <1>2, <2>1, Distributes
  <2>3. f[x] = Milles(n) /\ f[x + 1] = Milles(n + r)
    BY <1>3, <2>1, <2>2
  <2>4. n \in Int
    BY <2>2
  <2>5. Milles(n + r) - Milles(n) \in 0..1
    <3>1. r \in 0..1000
      BY <1>2
    <3> QED  BY <2>4, <3>1, RoundedMilles, Zenon
  <2>6. Milles(n) \in Int
    BY <2>4, RoundedBetween
  <2> QED  BY <2>3, <2>5, <2>6
<1>5. f[0] = 0
  <2>1. 0 * r = 0 /\ f[0] = Milles(0 * r)
    BY <1>2, <1>3
  <2>2. Milles(0) = 0
    BY DEF Rounded, Milles
  <2> QED  BY <2>1, <2>2
<1>6. f[0 + g] - f[0] \in 0..g
  BY <1>4, SlowRise
<1>7. \A d \in Nat : f[g + d] - f[g] \in 0..d
  BY <1>4, SlowRise
<1>8. f[g] \in Int /\ 0 + g = g
  BY <1>4
<1>9. f[g] \in 0..g
  BY <1>5, <1>6, <1>8
<1>10. f[g] = Milles(g * r) /\ \A d \in Nat : f[g + d] = Milles((g + d) * r)
  BY <1>3
<1>11. ASSUME NEW d \in Nat
       PROVE  Milles((g + d) * r) - Milles(g * r) \in 0..d
  <2>1. f[g + d] = Milles((g + d) * r) /\ f[g] = Milles(g * r)
    BY <1>10
  <2>2. f[g + d] - f[g] \in 0..d
    BY <1>7
  <2> QED  BY <2>1, <2>2
<1>12. Milles(g * r) \in 0..g
  BY <1>9, <1>10
<1> QED  BY <1>1, <1>11, <1>12

LEMMA TaxRises ==
    ASSUME BracketsFollow, NEW x \in Nat, NEW d \in Nat
    PROVE  ProgressiveTax(x + d) - ProgressiveTax(x) \in 0..d
<1>1. PICK f : f = [y \in Nat |-> ProgressiveTax(y)]
  OBVIOUS
<1>2. \A y \in Nat : f[y] \in Int /\ f[y + 1] - f[y] \in 0..1
  BY <1>1, TaxClose, TaxSteps
<1>3. f[x + d] - f[x] \in 0..d
  BY <1>2, SlowRise
<1> QED  BY <1>1, <1>3

\* What a payslip is made of.
LEMMA PayrollParts ==
    ASSUME NEW in \in Inputable, NEW base \in Nat, NEW extra \in Nat
    PROVE  LET ot == OTAmount(base, in.otHours)
               gross == base + extra + ot
               ss == Milles(gross * SSRate(in))
               tax == IF Taxed(in) THEN ProgressiveTax(gross - ss) ELSE 0
           IN  /\ ot \in Nat /\ gross \in Nat /\ ss \in 0..gross /\ gross - ss \in Nat
               /\ tax \in Int
               /\ CalculatePayroll(in, base, extra) =
                    [base |-> base, ot |-> ot, gross |-> gross, ss |-> ss,
                     taxable |-> gross - ss, tax |-> tax, deductions |-> ss + tax,
                     net |-> gross - ss - tax]
<1>1. OTAmount(base, in.otHours) \in Nat
  <2>1. in.otHours \in Nat /\ MonthHours \in Nat \ {0}
    BY PayFiguresAssumption DEF Inputable
  <2> QED  BY <2>1, WholeNumbers, Divided DEF OTAmount
<1>2. PICK g : g = base + extra + OTAmount(base, in.otHours)
  OBVIOUS
<1>3. g \in Nat
  BY <1>1, <1>2
<1>6. Milles(g * SSRate(in)) \in 0..g
  BY <1>3, SSRises
<1>4. g - Milles(g * SSRate(in)) \in Nat
  <2>1. PICK s : s = Milles(g * SSRate(in))
    OBVIOUS
  <2> QED  BY <1>3, <1>6, <2>1
<1>5. (IF Taxed(in) THEN ProgressiveTax(g - Milles(g * SSRate(in))) ELSE 0) \in Int
  BY <1>4, TaxCharges
<1> QED  BY <1>1, <1>2, <1>3, <1>4, <1>5, <1>6 DEF CalculatePayroll, Milles

\* What the tax mode leaves of it, and the absence.
LEMMA SlipParts ==
    ASSUME NEW in \in Inputable, NEW base, NEW g, NEW ss, NEW tax, NEW ot,
           NEW r, r = [base |-> base, ot |-> ot, gross |-> g, ss |-> ss,
                       taxable |-> g - ss, tax |-> tax, deductions |-> ss + tax,
                       net |-> g - ss - tax]
    PROVE  LET a == Adjusted(in, r) IN
           /\ a.base = base /\ a.gross = g /\ a.taxable = g - ss
           /\ a.ss = IF in.taxMode = "NO_DEDUCTION" THEN 0 ELSE ss
           /\ a.tax = IF in.taxMode = "NO_DEDUCTION" THEN 0 ELSE tax
           /\ a.deductions = CASE in.taxMode = "NO_DEDUCTION" -> 0
                               [] in.taxMode = "TAX_ON_COMPANY" -> (ss + tax) - tax
                               [] OTHER -> ss + tax
           /\ a.net = CASE in.taxMode = "NO_DEDUCTION" -> g
                        [] in.taxMode = "TAX_ON_COMPANY" -> g - ((ss + tax) - tax)
                        [] OTHER -> g - ss - tax
<1>1. CASE in.taxMode = "NO_DEDUCTION"
  <2>1. Adjusted(in, r) = [base |-> base, ot |-> ot, gross |-> g, ss |-> 0,
                           taxable |-> g - ss, tax |-> 0, deductions |-> 0, net |-> g]
    BY <1>1 DEF Adjusted
  <2> QED  BY <1>1, <2>1
<1>2. CASE in.taxMode = "TAX_ON_COMPANY"
  <2>1. Adjusted(in, r) = [base |-> base, ot |-> ot, gross |-> g, ss |-> ss,
                           taxable |-> g - ss, tax |-> tax, deductions |-> (ss + tax) - tax,
                           net |-> g - ((ss + tax) - tax)]
    BY <1>2 DEF Adjusted
  <2> QED  BY <1>2, <2>1
<1>3. CASE in.taxMode \notin {"NO_DEDUCTION", "TAX_ON_COMPANY"}
  <2>1. Adjusted(in, r) = r
    BY <1>3 DEF Adjusted
  <2> QED  BY <1>3, <2>1
<1> QED  BY <1>1, <1>2, <1>3

\* A higher base never leaves less.
LEMMA NetRises ==
    ASSUME BracketsFollow, NEW in \in Inputable, NEW base \in Nat, NEW more \in Nat, base <= more,
           NEW extra \in Nat
    PROVE  /\ NetOf(in, base, extra) \in Int /\ NetOf(in, more, extra) \in Int
           /\ NetOf(in, base, extra) <= NetOf(in, more, extra)
<1>1. PICK o, p : o = OTAmount(base, in.otHours) /\ p = OTAmount(more, in.otHours)
  OBVIOUS
<1>2. o \in Nat /\ p \in Nat /\ o <= p
  <2>1. in.otHours \in Nat /\ MonthHours \in Nat \ {0}
    BY PayFiguresAssumption DEF Inputable
  <2>2. /\ base * in.otHours \in Nat /\ more * in.otHours \in Nat
        /\ base * in.otHours <= more * in.otHours
    BY <2>1, WholeNumbers, ProductsRise
  <2> QED  BY <1>1, <2>1, <2>2, DividedRises, Divided DEF OTAmount
<1>3. PICK g, d : g = base + extra + o /\ d = (more - base) + (p - o)
  OBVIOUS
<1>4. g \in Nat /\ d \in Nat /\ g + d = more + extra + p
  BY <1>2, <1>3
<1>5. PICK s, t : s = Milles(g * SSRate(in)) /\ t = Milles((g + d) * SSRate(in))
  OBVIOUS
<1>6. s \in 0..g /\ t - s \in 0..d /\ t \in 0..(g + d)
  <2>1. s \in 0..g /\ t - s \in 0..d
    BY <1>4, <1>5, SSRises
  <2>2. t \in 0..(g + d)
    <3>1. g + d \in Nat
      BY <1>4
    <3> QED  BY <1>5, <3>1, SSRises
  <2> QED  BY <2>1, <2>2
<1>7. PICK x, e : x = g - s /\ e = d - (t - s)
  OBVIOUS
<1>8. x \in Nat /\ e \in Nat /\ x + e = (g + d) - t
  BY <1>4, <1>6, <1>7
<1>9. PICK u, v : /\ u = IF Taxed(in) THEN ProgressiveTax(x) ELSE 0
                  /\ v = IF Taxed(in) THEN ProgressiveTax(x + e) ELSE 0
  OBVIOUS
<1>10. u \in Int /\ v \in Int /\ v - u \in 0..e
  <2>1. ProgressiveTax(x) \in Int /\ ProgressiveTax(x + e) \in Int
    BY <1>8, TaxClose
  <2>2. ProgressiveTax(x + e) - ProgressiveTax(x) \in 0..e
    BY <1>8, TaxRises
  <2> QED  BY <1>8, <1>9, <2>1, <2>2
<1>11. CalculatePayroll(in, base, extra) =
         [base |-> base, ot |-> o, gross |-> g, ss |-> s, taxable |-> g - s, tax |-> u,
          deductions |-> s + u, net |-> g - s - u]
  BY <1>1, <1>3, <1>5, <1>7, <1>9 DEF CalculatePayroll, Milles
<1>12. CalculatePayroll(in, more, extra) =
         [base |-> more, ot |-> p, gross |-> g + d, ss |-> t, taxable |-> (g + d) - t,
          tax |-> v, deductions |-> t + v, net |-> (g + d) - t - v]
  BY <1>1, <1>4, <1>5, <1>8, <1>9 DEF CalculatePayroll, Milles
<1>13. /\ NetOf(in, base, extra) = CASE in.taxMode = "NO_DEDUCTION" -> g
                                     [] in.taxMode = "TAX_ON_COMPANY" -> g - ((s + u) - u)
                                     [] OTHER -> g - s - u
       /\ NetOf(in, more, extra) = CASE in.taxMode = "NO_DEDUCTION" -> g + d
                                     [] in.taxMode = "TAX_ON_COMPANY" -> (g + d) - ((t + v) - v)
                                     [] OTHER -> (g + d) - t - v
  BY <1>11, <1>12, SlipParts DEF NetOf
<1>14. /\ g <= g + d
       /\ g - ((s + u) - u) <= (g + d) - ((t + v) - v)
       /\ g - s - u <= (g + d) - t - v
       /\ g \in Int /\ g + d \in Int /\ g - ((s + u) - u) \in Int
       /\ (g + d) - ((t + v) - v) \in Int /\ g - s - u \in Int /\ (g + d) - t - v \in Int
  BY <1>4, <1>6, <1>7, <1>8, <1>10
<1> QED  BY <1>13, <1>14

\* What a day more of attendance changes.
LEMMA DayMore ==
    ASSUME NEW in \in Inputable, NEW an, an = [in EXCEPT !.attended = @ + 1]
    PROVE  /\ an \in Inputable
           /\ \A b, x : NetOf(an, b, x) = NetOf(in, b, x)
           /\ an.allowances + RestCompensation(an) = in.allowances + RestCompensation(in)
           /\ BasePay(in) <= BasePay(an)
           /\ LeaveDeduction(an) <= LeaveDeduction(in)
<1>1. /\ an \in Inputable /\ an.attended = in.attended + 1 /\ in.attended \in Nat
      /\ an.salary = in.salary /\ an.allowances = in.allowances /\ an.otHours = in.otHours
      /\ an.mode = in.mode /\ an.schedule = in.schedule /\ an.method = in.method
      /\ an.restOn = in.restOn /\ an.compOn = in.compOn /\ an.restDays = in.restDays
      /\ an.absenceOn = in.absenceOn /\ an.paidLeave = in.paidLeave /\ an.rest = in.rest
      /\ an.taxMode = in.taxMode /\ an.ssOn = in.ssOn /\ an.taxOn = in.taxOn
      /\ an.roster = in.roster
  BY DEF Inputable
<1>2. \A b, x : NetOf(an, b, x) = NetOf(in, b, x)
  <2>1. SSRate(an) = SSRate(in) /\ Taxed(an) = Taxed(in)
    BY <1>1 DEF SSRate, Taxed
  <2>2. \A b, x : CalculatePayroll(an, b, x) = CalculatePayroll(in, b, x)
    BY <1>1, <2>1 DEF CalculatePayroll
  <2> QED  BY <1>1, <2>2 DEF NetOf, Adjusted
<1>3. ScheduledDays(an) = ScheduledDays(in) /\ RestTaken(an) = RestTaken(in)
  <2>1. \A d : WorkDaysOn(an, d) = WorkDaysOn(in, d)
    BY <1>1 DEF WorkDaysOn, Loaded
  <2> QED  BY <1>1, <2>1 DEF ScheduledDays, RestTaken
<1>4. Divisor(an) = Divisor(in)
  BY <1>1, <1>3 DEF Divisor
<1>5. RestCompensation(an) = RestCompensation(in)
  BY <1>1, <1>4 DEF RestCompensation, UnusedRest
<1>6. PICK q : q = in.salary \div Divisor(in)
  OBVIOUS
<1>7. /\ q \in Nat /\ in.salary \in Nat
      /\ PayableDays(in) \in Nat /\ PayableDays(an) \in Nat
      /\ AbsenceDays(in) \in Nat /\ AbsenceDays(an) \in Nat
  BY <1>1, <1>6, DaysCounted
<1>8. PayableDays(in) <= PayableDays(an) /\ AbsenceDays(an) <= AbsenceDays(in)
  <2>1. PICK k : k = in.paidLeave + RestTaken(in)
    OBVIOUS
  <2>2. PICK sd, m, n : sd = ScheduledDays(in)
                        /\ m = in.attended + in.paidLeave + RestTaken(in)
                        /\ n = an.attended + an.paidLeave + RestTaken(an)
    OBVIOUS
  <2>3. sd \in Nat /\ m \in Nat /\ n \in Nat /\ PayableDays(in) = AtMost(sd, m)
        /\ PayableDays(an) = AtMost(sd, n)
        /\ AbsenceDays(in) = sd - PayableDays(in) /\ AbsenceDays(an) = sd - PayableDays(an)
    BY <1>1, <1>3, <2>2, DaysCounted
  <2>4. m <= n
    <3>1. in.paidLeave \in Nat /\ RestTaken(in) \in Nat
      BY DEF Inputable, RestTaken
    <3> QED  BY <1>1, <1>3, <2>2, <3>1
  <2>5. AtMost(sd, m) <= AtMost(sd, n)
    BY <2>3, <2>4 DEF AtMost
  <2> QED  BY <1>7, <2>3, <2>5
<1>9. BasePay(in) <= BasePay(an)
  <2>1. q * PayableDays(in) <= q * PayableDays(an)
    BY <1>7, <1>8, ProductsRise
  <2> QED  BY <1>1, <1>4, <1>6, <1>7, <2>1 DEF BasePay
<1>10. LeaveDeduction(an) <= LeaveDeduction(in)
  <2>1. CASE in.mode = "MONTHLY_FIXED" /\ in.absenceOn
    <3>1. BasePay(in) = in.salary /\ BasePay(an) = in.salary
      BY <1>1, <2>1 DEF BasePay
    <3>2. LeaveDeduction(in) = q * AbsenceDays(in) /\ LeaveDeduction(an) = q * AbsenceDays(an)
      BY <1>1, <1>4, <1>6, <2>1, <3>1 DEF LeaveDeduction
    <3> QED  BY <1>7, <1>8, <3>2, ProductsRise
  <2>2. CASE ~(in.mode = "MONTHLY_FIXED" /\ in.absenceOn)
    BY <1>1, <2>2 DEF LeaveDeduction
  <2> QED  BY <2>1, <2>2
<1> QED  BY <1>1, <1>2, <1>5, <1>9, <1>10

\* The payslip in full.
LEMMA PayslipParts ==
    ASSUME NEW in \in Inputable
    PROVE  \E g \in Nat, ss \in Nat, tax \in Int :
             /\ g - ss \in Nat
             /\ tax = IF Taxed(in) THEN ProgressiveTax(g - ss) ELSE 0
             /\ BasePay(in) \in Nat /\ LeaveDeduction(in) \in Nat
             /\ Payslip(in).base = BasePay(in) /\ Payslip(in).off = LeaveDeduction(in)
             /\ Payslip(in).gross = g /\ Payslip(in).taxable = g - ss
             /\ Payslip(in).ss = (IF in.taxMode = "NO_DEDUCTION" THEN 0 ELSE ss)
             /\ Payslip(in).tax = (IF in.taxMode = "NO_DEDUCTION" THEN 0 ELSE tax)
             /\ Payslip(in).deductions =
                  (CASE in.taxMode = "NO_DEDUCTION" -> 0
                     [] in.taxMode = "TAX_ON_COMPANY" -> (ss + tax) - tax
                     [] OTHER -> ss + tax) + LeaveDeduction(in)
             /\ Payslip(in).net =
                  (CASE in.taxMode = "NO_DEDUCTION" -> g
                     [] in.taxMode = "TAX_ON_COMPANY" -> g - ((ss + tax) - tax)
                     [] OTHER -> g - ss - tax) - LeaveDeduction(in)
             /\ Payslip(in).net = NetOf(in, BasePay(in), in.allowances + RestCompensation(in))
                                  - LeaveDeduction(in)
<1>1. PICK base, extra, off :
        /\ base = BasePay(in) /\ extra = in.allowances + RestCompensation(in)
        /\ off = LeaveDeduction(in)
  OBVIOUS
<1>2. base \in Nat /\ extra \in Nat /\ off \in Nat
  BY <1>1, DaysCounted
<1>3. PICK ot, g, ss, tax :
        /\ ot = OTAmount(base, in.otHours) /\ g = base + extra + ot
        /\ ss = Milles(g * SSRate(in))
        /\ tax = IF Taxed(in) THEN ProgressiveTax(g - ss) ELSE 0
  OBVIOUS
<1>4. PICK r : r = CalculatePayroll(in, base, extra)
  OBVIOUS
<1>5. /\ g \in Nat /\ ss \in 0..g /\ g - ss \in Nat /\ tax \in Int
      /\ r = [base |-> base, ot |-> ot, gross |-> g, ss |-> ss, taxable |-> g - ss,
              tax |-> tax, deductions |-> ss + tax, net |-> g - ss - tax]
  BY <1>2, <1>3, <1>4, PayrollParts
<1>6. PICK a : a = Adjusted(in, r)
  OBVIOUS
<1>7. Payslip(in) = [base |-> a.base, gross |-> a.gross, ss |-> a.ss, taxable |-> a.taxable,
                     tax |-> a.tax, off |-> off, deductions |-> a.deductions + off,
                     net |-> a.net - off]
  BY <1>1, <1>4, <1>6 DEF Payslip
<1>8. /\ Payslip(in).base = a.base /\ Payslip(in).off = off /\ Payslip(in).gross = a.gross
      /\ Payslip(in).taxable = a.taxable /\ Payslip(in).ss = a.ss /\ Payslip(in).tax = a.tax
      /\ Payslip(in).deductions = a.deductions + off /\ Payslip(in).net = a.net - off
  BY <1>7
<1>9. /\ a.base = base /\ a.gross = g /\ a.taxable = g - ss
      /\ a.ss = IF in.taxMode = "NO_DEDUCTION" THEN 0 ELSE ss
  BY <1>5, <1>6, SlipParts
<1>10. a.tax = IF in.taxMode = "NO_DEDUCTION" THEN 0 ELSE tax
  BY <1>5, <1>6, SlipParts
<1>11. /\ a.deductions = CASE in.taxMode = "NO_DEDUCTION" -> 0
                          [] in.taxMode = "TAX_ON_COMPANY" -> (ss + tax) - tax
                          [] OTHER -> ss + tax
       /\ a.net = CASE in.taxMode = "NO_DEDUCTION" -> g
                    [] in.taxMode = "TAX_ON_COMPANY" -> g - ((ss + tax) - tax)
                    [] OTHER -> g - ss - tax
  BY <1>5, <1>6, SlipParts
<1>12. a.net = NetOf(in, base, extra)
  BY <1>4, <1>6 DEF NetOf
<1>13. g \in Nat /\ ss \in Nat /\ tax \in Int
  BY <1>5
<1> USE <1>13
<1> WITNESS g \in Nat, ss \in Nat, tax \in Int
<1> QED  BY <1>1, <1>2, <1>3, <1>5, <1>8, <1>9, <1>10, <1>11, <1>12

\* A day of absence costs a day's pay.
LEMMA AbsenceCosts ==
    ASSUME NEW in \in Inputs, in.method = "SCHEDULED_WORKDAYS", ScheduledDays(in) > 0,
           in.mode = "MONTHLY_FIXED" => in.absenceOn, WholePay(in)
    PROVE  BasePay(in) - LeaveDeduction(in)
             = in.salary - (in.salary \div Divisor(in)) * AbsenceDays(in)
<1>1. in \in Inputable
  BY PayFiguresAssumption
<1>2. PICK q, s, p, ab : /\ q = in.salary \div Divisor(in) /\ s = ScheduledDays(in)
                        /\ p = PayableDays(in) /\ ab = AbsenceDays(in)
  OBVIOUS
<1>3. q \in Nat /\ s \in Nat /\ p \in Nat /\ ab \in Nat /\ ab = s - p /\ in.salary \in Nat
  BY <1>1, <1>2, DaysCounted
<1>4. in.mode \in {"MONTHLY_FIXED", "ATTENDANCE_BASED"}
  BY <1>1 DEF Inputable
<1>5. CASE in.mode = "MONTHLY_FIXED"
  <2>1. BasePay(in) = in.salary /\ in.absenceOn
    BY <1>5 DEF BasePay
  <2>2. LeaveDeduction(in) = q * ab
    BY <1>2, <1>5, <2>1 DEF LeaveDeduction
  <2> QED  BY <1>2, <2>1, <2>2
<1>6. CASE in.mode = "ATTENDANCE_BASED"
  <2>1. BasePay(in) = q * p /\ LeaveDeduction(in) = 0
    BY <1>2, <1>6 DEF BasePay, LeaveDeduction
  <2>2. Divisor(in) = s
    BY <1>2, <1>3 DEF Divisor, AtLeast
  <2>3. q * s = in.salary
    BY <1>2, <2>2 DEF WholePay
  <2>4. p = s - ab
    BY <1>3
  <2>5. q * p = q * s - q * ab
    BY <1>3, <2>4
  <2>6. q * p \in Int /\ q * ab \in Int
    BY <1>3
  <2> QED  BY <1>2, <2>1, <2>3, <2>5, <2>6
<1> QED  BY <1>4, <1>5, <1>6

\* Attendance is paid.
LEMMA AttendancePaid ==
    ASSUME NEW in \in Inputs, in.mode = "ATTENDANCE_BASED", in.attended > 0, in.salary > 0,
           WholePay(in), RosteredDays(in) # {}, ~(in.schedule = "SHIFT_BASED" /\ in.method = "CALENDAR_30")
    PROVE  BasePay(in) > 0
<1>1. in \in Inputable
  BY PayFiguresAssumption
<1>2. PICK q, s, p, m, dv :
        /\ q = in.salary \div Divisor(in) /\ s = ScheduledDays(in) /\ p = PayableDays(in)
        /\ m = in.attended + in.paidLeave + RestTaken(in) /\ dv = Divisor(in)
  OBVIOUS
<1>3. /\ q \in Nat /\ s \in Nat /\ p \in Nat /\ m \in Nat /\ dv \in Nat /\ in.attended <= m
      /\ p = AtMost(s, m) /\ in.salary \in Nat /\ in.attended \in Nat
  <2>1. in.attended \in Nat
    BY <1>1 DEF Inputable
  <2> QED  BY <1>1, <1>2, <2>1, DaysCounted
<1>4. s > 0
  <2>1. PICK D : D = {d \in PeriodDays : d \in WorkDaysOn(in, d)}
    OBVIOUS
  <2>2. D = RosteredDays(in)
    <3>1. /\ in.schedule \in {"UNIFORM", "SHIFT_BASED"}
          /\ in.method \in {"CALENDAR_30", "SCHEDULED_WORKDAYS"}
      BY <1>1 DEF Inputable
    <3>2. CASE in.schedule = "SHIFT_BASED"
      <4>1. Loaded(in) = in.roster
        BY <3>1, <3>2 DEF Loaded
      <4> QED  BY <2>1, <3>2, <4>1 DEF RosteredDays, WorkDaysOn
    <3>3. CASE in.schedule # "SHIFT_BASED"
      BY <2>1, <3>3 DEF RosteredDays, WorkDaysOn
    <3> QED  BY <3>2, <3>3
  <2>3. IsFiniteSet(D)
    BY <2>1, PayFiguresAssumption, FS_Subset
  <2>4. Cardinality(D) # 0 /\ s = Cardinality(D)
    BY <1>2, <2>1, <2>2, <2>3, FS_EmptySet DEF ScheduledDays
  <2> QED  BY <1>3, <2>4
<1>5. p > 0
  BY <1>3, <1>4 DEF AtMost
<1>6. q > 0
  <2>1. q * dv = in.salary
    BY <1>2 DEF WholePay
  <2>2. q = 0 => q * dv = 0
    BY <1>3
  <2> QED  BY <1>3, <2>1, <2>2
<1>7. BasePay(in) = q * p
  BY <1>2 DEF BasePay
<1>8. 1 * p <= q * p /\ 1 * p = p /\ q * p \in Int
  <2>1. 1 \in Nat /\ 1 <= q
    BY <1>3, <1>6
  <2> QED  BY <1>3, <2>1, ProductsRise, Distributes
<1> QED  BY <1>3, <1>5, <1>7, <1>8

\* Every payslip that can be made adds up.
LEMMA PayslipAddsUp ==
    ASSUME NEW in \in Inputs, slip = [input |-> in, pay |-> Payslip(in)]
    PROVE  PayAddsUp
<1>1. in \in Inputable
  BY PayFiguresAssumption
<1>2. PICK an : an = [in EXCEPT !.attended = @ + 1]
  OBVIOUS
<1>3. an \in Inputable
  BY <1>1, <1>2, DayMore
<1>4. PICK p : p = Payslip(in)
  OBVIOUS
<1>5. slip.input = in /\ slip.pay = p
  BY <1>4
<1>6. PICK g \in Nat, ss \in Nat, tax \in Int :
        /\ g - ss \in Nat
        /\ tax = IF Taxed(in) THEN ProgressiveTax(g - ss) ELSE 0
        /\ BasePay(in) \in Nat /\ LeaveDeduction(in) \in Nat
        /\ p.base = BasePay(in) /\ p.off = LeaveDeduction(in)
        /\ p.gross = g /\ p.taxable = g - ss
        /\ p.ss = (IF in.taxMode = "NO_DEDUCTION" THEN 0 ELSE ss)
        /\ p.tax = (IF in.taxMode = "NO_DEDUCTION" THEN 0 ELSE tax)
        /\ p.deductions =
             (CASE in.taxMode = "NO_DEDUCTION" -> 0
                [] in.taxMode = "TAX_ON_COMPANY" -> (ss + tax) - tax
                [] OTHER -> ss + tax) + LeaveDeduction(in)
        /\ p.net =
             (CASE in.taxMode = "NO_DEDUCTION" -> g
                [] in.taxMode = "TAX_ON_COMPANY" -> g - ((ss + tax) - tax)
                [] OTHER -> g - ss - tax) - LeaveDeduction(in)
        /\ p.net = NetOf(in, BasePay(in), in.allowances + RestCompensation(in))
                   - LeaveDeduction(in)
  BY <1>1, <1>4, PayslipParts
<1>7. PICK off : off = LeaveDeduction(in)
  OBVIOUS
<1>8. off \in Nat
  BY <1>6, <1>7
<1>9. p.net = p.gross - p.deductions
  <2>1. CASE in.taxMode = "NO_DEDUCTION"
    BY <1>6, <1>7, <1>8, <2>1
  <2>2. CASE in.taxMode = "TAX_ON_COMPANY"
    BY <1>6, <1>7, <1>8, <2>2
  <2>3. CASE in.taxMode \notin {"NO_DEDUCTION", "TAX_ON_COMPANY"}
    BY <1>6, <1>7, <1>8, <2>3
  <2> QED  BY <2>1, <2>2, <2>3
<1>10. p.deductions = p.ss + p.off + IF in.taxMode = "TAX_ON_COMPANY" THEN 0 ELSE p.tax
  <2>1. CASE in.taxMode = "NO_DEDUCTION"
    BY <1>6, <1>7, <1>8, <2>1
  <2>2. CASE in.taxMode = "TAX_ON_COMPANY"
    BY <1>6, <1>7, <1>8, <2>2
  <2>3. CASE in.taxMode \notin {"NO_DEDUCTION", "TAX_ON_COMPANY"}
    BY <1>6, <1>7, <1>8, <2>3
  <2> QED  BY <2>1, <2>2, <2>3
<1>11. ASSUME BracketsFollow, Taxed(in)
       PROVE  /\ 100 * p.tax - (MarginalTax(p.taxable) - UnitsLost(p.taxable)) \in -50..50
              /\ ProgressiveTax(p.taxable + 1) - p.tax \in 0..1
  <2>1. in.taxMode # "NO_DEDUCTION"
    BY <1>11 DEF Taxed
  <2>2. p.taxable \in Nat /\ p.tax = ProgressiveTax(p.taxable)
    BY <1>6, <1>11, <2>1
  <2>3. 100 * p.tax - (MarginalTax(p.taxable) - UnitsLost(p.taxable)) \in (0 - 50)..50
    BY <1>11, <2>2, TaxClose
  <2>4. ProgressiveTax(p.taxable + 1) - p.tax \in 0..1
    BY <1>11, <2>2, TaxSteps
  <2>5. 0 - 50 = -50
    OBVIOUS
  <2> QED  BY <2>3, <2>4, <2>5
<1>12. ASSUME BracketsFollow PROVE Payslip(an).net >= p.net
  <2>1. PICK b, c, x : /\ b = BasePay(in) /\ c = BasePay(an)
                       /\ x = in.allowances + RestCompensation(in)
    OBVIOUS
  <2>2. b \in Nat /\ c \in Nat /\ b <= c /\ x \in Nat
    BY <1>1, <1>2, <1>3, <2>1, DaysCounted, DayMore
  <2>3. /\ NetOf(in, b, x) \in Int /\ NetOf(in, c, x) \in Int
        /\ NetOf(in, b, x) <= NetOf(in, c, x)
    BY <1>1, <1>12, <2>2, NetRises
  <2>4. Payslip(an).net = NetOf(an, c, an.allowances + RestCompensation(an)) - LeaveDeduction(an)
    BY <1>3, <2>1, PayslipParts
  <2>5. NetOf(an, c, an.allowances + RestCompensation(an)) = NetOf(in, c, x)
    <3>1. an.allowances + RestCompensation(an) = x
      BY <1>1, <1>2, <2>1, DayMore
    <3>2. \A m, y : NetOf(an, m, y) = NetOf(in, m, y)
      BY <1>1, <1>2, DayMore
    <3>3. NetOf(an, c, x) = NetOf(in, c, x)
      BY <3>2
    <3> QED  BY <3>1, <3>3
  <2>6. LeaveDeduction(an) \in Nat /\ LeaveDeduction(an) <= off
    BY <1>1, <1>2, <1>3, <1>7, DaysCounted, DayMore
  <2>7. p.net = NetOf(in, b, x) - off
    BY <1>6, <1>7, <2>1
  <2> QED  BY <1>8, <2>3, <2>4, <2>5, <2>6, <2>7
<1>13. WholePay(in) /\ in.method = "SCHEDULED_WORKDAYS" /\ ScheduledDays(in) > 0
       /\ (in.mode = "MONTHLY_FIXED" => in.absenceOn) =>
         p.base - p.off = in.salary - (in.salary \div Divisor(in)) * AbsenceDays(in)
  BY <1>6, AbsenceCosts
<1>14. WholePay(in) /\ in.mode = "ATTENDANCE_BASED" /\ in.attended > 0 /\ in.salary > 0
       /\ RosteredDays(in) # {} =>
         p.base > 0 \/ (in.schedule = "SHIFT_BASED" /\ in.method = "CALENDAR_30")
  BY <1>6, AttendancePaid
<1>15. Payslip([slip.input EXCEPT !.attended = @ + 1]) = Payslip(an)
  BY <1>2, <1>5
<1> QED  BY <1>5, <1>9, <1>10, <1>11, <1>12, <1>13, <1>14, <1>15 DEF PayAddsUp

\* A payslip is made of one of the inputs.
PayInv == slip = NoSlip \/ \E in \in Inputs : slip = [input |-> in, pay |-> Payslip(in)]

LEMMA PayStart == PayInit => PayInv
BY DEF PayInit, PayInv

LEMMA PayNext == PayInv /\ [Generate]_payVars => PayInv'
<1>1. ASSUME Generate PROVE PayInv'
  <2>1. PICK in \in Inputs : slip' = [input |-> in, pay |-> Payslip(in)]
    BY <1>1 DEF Generate
  <2> QED  BY <2>1 DEF PayInv
<1>2. ASSUME PayInv, UNCHANGED payVars PROVE PayInv'
  BY <1>2 DEF PayInv, payVars
<1> QED  BY <1>1, <1>2

LEMMA PayKept == PayInv => PayAddsUp
<1>1. CASE slip = NoSlip
  BY <1>1 DEF PayAddsUp
<1>2. ASSUME NEW in \in Inputs, slip = [input |-> in, pay |-> Payslip(in)] PROVE PayAddsUp
  BY <1>2, PayslipAddsUp
<1> QED  BY <1>1, <1>2 DEF PayInv

\* Whatever the brackets, employees and days, a payslip and its items add up in
\* every tax mode.  If the brackets follow one another (BracketsFollow), the tax
\* is that of the schedule but for what the brackets lose, and neither a day of
\* attendance nor a unit of income is a loss; if the salary divides by the days
\* (WholePay), absence costs and attendance earns a day's pay
\* (PayrollService.generate, TaxCalculationService).
THEOREM PayCorrect == PaySpec => []PayAddsUp
BY PayStart, PayNext, PayKept, PTL DEF PaySpec

=============================================================================
