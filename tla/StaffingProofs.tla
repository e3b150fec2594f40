--------------------------- MODULE StaffingProofs ---------------------------
(* Proofs of the safety properties of Staffing, for any number of handlers, *)
(* employees, accounts and phones.                                          *)
EXTENDS Staffing, FiniteSetTheorems, TLAPS

-----------------------------------------------------------------------------
(* Types                                                                    *)

\* What a handler works on, by the operation it awaits.
Place(h) ==
    /\ pc[h] \notin {"idle", "store"} => work[h].emp \in hired
    /\ pc[h] \in {"store", "seek", "open", "link", "change", "follow"} =>
          work[h].dial \in Phones
    /\ pc[h] \in {"link", "follow", "close"} => work[h].acct \in opened
    /\ pc[h] \in {"change", "drop"} => work[h].acct \in opened \cup {NoAccount}
    /\ pc[h] \in {"link", "change"} => work[h].seen \in Phones

\* Documents that exist have been created.
Documents ==
    /\ \A e \in Employees : phone[e] # NoPhone => e \in hired
    /\ \A e \in Employees : user[e] # NoAccount => e \in hired /\ user[e] \in opened
    /\ \A a \in Accounts : login[a] # NoPhone => a \in opened
    /\ owners \subseteq opened

Types0 == TypeOK /\ Documents /\ \A h \in Handlers : Place(h)

LEMMA WorkType ==
    ASSUME NEW e \in Employees \cup {NoEmployee}, NEW a \in Accounts \cup {NoAccount},
           NEW p \in Phones \cup {NoPhone}, NEW q \in Phones \cup {NoPhone}
    PROVE  /\ Work(e, a, p, q) \in Works
           /\ Work(e, a, p, q).emp = e /\ Work(e, a, p, q).acct = a
           /\ Work(e, a, p, q).dial = p /\ Work(e, a, p, q).seen = q
BY DEF Work, Works

LEMMA NoWorkType == NoWork \in Works
BY DEF NoWork, Work, Works

LEMMA WorkFields ==
    ASSUME TypeOK, NEW h \in Handlers
    PROVE  /\ work[h] \in Works
           /\ work[h].emp \in Employees \cup {NoEmployee}
           /\ work[h].acct \in Accounts \cup {NoAccount}
           /\ work[h].dial \in Phones \cup {NoPhone}
           /\ work[h].seen \in Phones \cup {NoPhone}
BY DEF TypeOK, Works

\* A handler that goes on keeps the rest of Types0.
LEMMA GotoKeeps ==
    ASSUME Types0, NEW h \in Handlers, NEW to \in PCs, NEW w \in Works, Goto(h, to, w),
           hired \subseteq hired', opened \subseteq opened',
           /\ to \notin {"idle", "store"} => w.emp \in hired'
           /\ to \in {"store", "seek", "open", "link", "change", "follow"} => w.dial \in Phones
           /\ to \in {"link", "follow", "close"} => w.acct \in opened'
           /\ to \in {"change", "drop"} => w.acct \in opened' \cup {NoAccount}
           /\ to \in {"link", "change"} => w.seen \in Phones
    PROVE  /\ pc' \in [Handlers -> PCs] /\ work' \in [Handlers -> Works]
           /\ \A g \in Handlers : Place(g)'
BY DEF Types0, TypeOK, Goto, Place

LEMMA DoneKeeps ==
    ASSUME Types0, NEW h \in Handlers, Done(h), hired \subseteq hired', opened \subseteq opened'
    PROVE  /\ pc' \in [Handlers -> PCs] /\ work' \in [Handlers -> Works]
           /\ \A g \in Handlers : Place(g)'
BY GotoKeeps, NoWorkType DEF Done, PCs

LEMMA TypesInit == Init => Types0
<1> SUFFICES ASSUME Init PROVE Types0
  OBVIOUS
<1>1. TypeOK
  BY NoWorkType DEF Init, TypeOK, Roles, PCs
<1>2. Documents /\ \A h \in Handlers : Place(h)
  BY DEF Init, Documents, Place
<1> QED  BY <1>1, <1>2 DEF Types0

LEMMA TypesNext == Types0 /\ [Next]_vars => Types0'
<1> SUFFICES ASSUME Types0, [Next]_vars PROVE Types0'
  OBVIOUS
<1> USE StaffingAssumption
<1> DEFINE Rest == /\ hired' \subseteq Employees /\ opened' \subseteq Accounts
                   /\ phone' \in [Employees -> Phones \cup {NoPhone}]
                   /\ user' \in [Employees -> Accounts \cup {NoAccount}]
                   /\ login' \in [Accounts -> Phones \cup {NoPhone}]
                   /\ role' \in [Accounts -> Roles]
                   /\ owners' \subseteq Accounts /\ outrun' \subseteq Handlers
                   /\ crowded' \subseteq Employees /\ muddled' \subseteq Accounts
                   /\ cut' \subseteq Employees /\ refused' \subseteq Employees
                   /\ Documents'
           Local == /\ pc' \in [Handlers -> PCs] /\ work' \in [Handlers -> Works]
                    /\ \A g \in Handlers : Place(g)'
<1>0. ASSUME Rest, Local PROVE Types0'
  BY <1>0 DEF Types0, TypeOK
<1>1. ASSUME UNCHANGED <<docs, history>> PROVE Rest
  BY <1>1 DEF docs, history, Types0, TypeOK, Documents
<1>2. ASSUME UNCHANGED local, hired \subseteq hired', opened \subseteq opened' PROVE Local
  BY <1>2 DEF local, Types0, TypeOK, Place
<1>3. ASSUME NEW h \in Handlers, NEW p \in Phones, CreateCount(h, p) PROVE Types0'
  <2> DEFINE w == Work(NoEmployee, NoAccount, p, NoPhone)
  <2>1. Goto(h, "store", w) /\ UNCHANGED <<docs, history>>
    BY <1>3 DEF CreateCount, Start, Goto
  <2>2. w \in Works /\ w.dial \in Phones
    BY WorkType
  <2> HIDE DEF w
  <2>3. Local
    BY <2>1, <2>2, GotoKeeps DEF PCs, docs
  <2> QED  BY <2>1, <2>3, <1>1, <1>0
<1>4. ASSUME NEW h \in Handlers, NEW e \in Employees, NEW p \in Phones, UpdateRead(h, e, p)
      PROVE  Types0'
  <2> DEFINE w == Work(e, Populated(e), p, phone[e])
  <2>1. Goto(h, "change", w) /\ UNCHANGED <<docs, history>> /\ Here(e)
    BY <1>4 DEF UpdateRead, Start, Goto
  <2>2. /\ e \in hired /\ phone[e] \in Phones
        /\ Populated(e) \in opened \cup {NoAccount} /\ opened \subseteq Accounts
    BY <2>1 DEF Here, Types0, TypeOK, Documents, Populated
  <2>3. /\ w \in Works /\ w.dial \in Phones /\ w.seen \in Phones /\ w.emp \in hired
        /\ w.acct \in opened \cup {NoAccount}
    BY <2>2, WorkType
  <2> HIDE DEF w
  <2>4. Local
    BY <2>1, <2>3, GotoKeeps DEF PCs, docs
  <2> QED  BY <2>1, <2>4, <1>1, <1>0
<1>5. ASSUME NEW h \in Handlers, NEW e \in Employees, DeleteRead(h, e) PROVE Types0'
  <2> DEFINE w == Work(e, user[e], NoPhone, NoPhone)
  <2>1. Goto(h, "drop", w) /\ UNCHANGED <<docs, history>> /\ Here(e)
    BY <1>5 DEF DeleteRead, Start, Goto
  <2>2. e \in hired /\ user[e] \in opened \cup {NoAccount} /\ opened \subseteq Accounts
    BY <2>1 DEF Here, Types0, TypeOK, Documents
  <2>3. w \in Works /\ w.emp \in hired /\ w.acct \in opened \cup {NoAccount}
    BY <2>2, WorkType
  <2> HIDE DEF w
  <2>4. Local
    BY <2>1, <2>3, GotoKeeps DEF PCs, docs
  <2> QED  BY <2>1, <2>4, <1>1, <1>0
<1>6. ASSUME NEW h \in Handlers, CreateStore(h) PROVE Types0'
  <2>1. work[h].dial \in Phones
    BY <1>6 DEF CreateStore, Types0, Place
  <2>2. CASE UNCHANGED <<hired, phone, crowded, refused>> /\ Done(h)
    <3>1. Rest
      BY <1>6, <2>2 DEF CreateStore, Types0, TypeOK, Documents
    <3>2. Local
      BY <1>6, <2>2, DoneKeeps DEF CreateStore
    <3> QED  BY <3>1, <3>2, <1>0
  <2>3. ASSUME NEW e \in Employees \ hired,
               hired' = hired \cup {e},
               phone' = [phone EXCEPT ![e] = work[h].dial],
               crowded' = IF h \in outrun THEN crowded \cup {e} ELSE crowded,
               \/ Goto(h, "seek", Work(e, NoAccount, work[h].dial, NoPhone))
                  /\ UNCHANGED refused
               \/ Done(h) /\ refused' = refused \cup {e}
        PROVE  Types0'
    <3>1. Rest
      BY <1>6, <2>1, <2>3 DEF CreateStore, Types0, TypeOK, Documents
    <3>2. CASE Done(h)
      BY <1>6, <2>3, <3>1, <3>2, DoneKeeps, <1>0 DEF CreateStore
    <3>3. CASE Goto(h, "seek", Work(e, NoAccount, work[h].dial, NoPhone))
      <4> DEFINE w == Work(e, NoAccount, work[h].dial, NoPhone)
      <4>1. w \in Works /\ w.dial \in Phones /\ w.emp \in hired' /\ opened' = opened
        BY <1>6, <2>1, <2>3, WorkType DEF CreateStore
      <4> HIDE DEF w
      <4>2. Local
        BY <2>3, <3>3, <4>1, GotoKeeps DEF PCs, w
      <4> QED  BY <3>1, <4>2, <1>0
    <3> QED  BY <2>3, <3>2, <3>3
  <2> QED  BY <1>6, <2>2, <2>3 DEF CreateStore
<1>7. ASSUME NEW h \in Handlers, CreateSeek(h) PROVE Types0'
  <2>1. /\ work[h].dial \in Phones /\ work[h].emp \in hired /\ work[h] \in Works
        /\ UNCHANGED <<docs, history>>
    BY <1>7, WorkFields DEF CreateSeek, Types0, Place
  <2>2. ASSUME NEW a \in Found(work[h].dial),
               Goto(h, "link", Work(work[h].emp, a, work[h].dial, login[a]))
        PROVE  Local
    <3> DEFINE w == Work(work[h].emp, a, work[h].dial, login[a])
    <3>1. a \in opened /\ login[a] \in Phones /\ hired \subseteq Employees /\ a \in Accounts
      BY <2>2 DEF Found, Open, Types0, TypeOK, Documents
    <3>2. /\ w \in Works /\ w.emp \in hired /\ w.dial \in Phones /\ w.acct \in opened
          /\ w.seen \in Phones
      BY <2>1, <3>1, WorkType
    <3> HIDE DEF w
    <3> QED  BY <2>1, <2>2, <3>2, GotoKeeps DEF PCs, docs, w
  <2>3. ASSUME Goto(h, "open", work[h]) PROVE Local
    BY <2>1, <2>3, GotoKeeps DEF PCs, docs
  <2> HIDE DEF Local
  <2>4. Local
    BY <1>7, <2>2, <2>3 DEF CreateSeek
  <2> QED  BY <2>1, <2>4, <1>0, <1>1
<1>8. ASSUME NEW h \in Handlers, CreateOpen(h) PROVE Types0'
  <2>1. work[h].dial \in Phones /\ work[h].emp \in hired /\ hired \subseteq Employees
    BY <1>8 DEF CreateOpen, Types0, TypeOK, Place
  <2>2. CASE cut' = cut \cup {work[h].emp} /\ Done(h) /\ UNCHANGED <<opened, login, role>>
    <3>1. Rest
      BY <1>8, <2>1, <2>2 DEF CreateOpen, Types0, TypeOK, Documents
    <3>2. Local
      BY <1>8, <2>2, DoneKeeps DEF CreateOpen
    <3> QED  BY <3>1, <3>2, <1>0
  <2>3. ASSUME NEW a \in Accounts \ opened,
               opened' = opened \cup {a},
               login' = [login EXCEPT ![a] = work[h].dial],
               role' = [role EXCEPT ![a] = "EMPLOYEE"],
               Goto(h, "link", Work(work[h].emp, a, work[h].dial, work[h].dial)),
               UNCHANGED cut
        PROVE  Types0'
    <3> DEFINE w == Work(work[h].emp, a, work[h].dial, work[h].dial)
    <3>1. Rest
      BY <1>8, <2>1, <2>3 DEF CreateOpen, Types0, TypeOK, Documents, Roles
    <3>2. /\ w \in Works /\ w.emp \in hired' /\ w.dial \in Phones /\ w.acct \in opened'
          /\ w.seen \in Phones /\ hired' = hired
      BY <1>8, <2>1, <2>3, WorkType DEF CreateOpen
    <3> HIDE DEF w
    <3>3. Local
      BY <2>3, <3>2, GotoKeeps DEF PCs, w
    <3> QED  BY <3>1, <3>3, <1>0
  <2> QED  BY <1>8, <2>2, <2>3 DEF CreateOpen
<1>9. ASSUME NEW h \in Handlers, CreateLink(h) PROVE Types0'
  <2>1. work[h].acct \in opened /\ work[h].emp \in hired
    BY <1>9 DEF CreateLink, Types0, Place
  <2>2. user' = IF Here(work[h].emp) THEN [user EXCEPT ![work[h].emp] = work[h].acct] ELSE user
    BY <1>9 DEF CreateLink
  <2>3. muddled' = muddled \/ muddled' = muddled \cup {work[h].acct}
    BY <1>9 DEF CreateLink
  <2>4. /\ Done(h)
        /\ UNCHANGED <<hired, phone, opened, login, role, owners, outrun, crowded, cut, refused>>
    BY <1>9 DEF CreateLink
  <2>5. Rest
    BY <2>1, <2>2, <2>3, <2>4 DEF Types0, TypeOK, Documents
  <2>6. Local
    BY <2>4, DoneKeeps
  <2> QED  BY <2>5, <2>6, <1>0
<1>10. ASSUME NEW h \in Handlers, UpdateStore(h) PROVE Types0'
  <2>1. /\ work[h].emp \in hired /\ work[h].dial \in Phones /\ work[h] \in Works
        /\ hired \subseteq Employees
    BY <1>10, WorkFields DEF UpdateStore, Types0, TypeOK, Place
  <2>2. \/ phone' = phone
        \/ /\ Here(work[h].emp)
           /\ phone' = [phone EXCEPT ![work[h].emp] = work[h].dial]
    BY <1>10 DEF UpdateStore
  <2>3. muddled' = muddled \/ muddled' = muddled \cup (Outdated(h) \ {NoAccount})
    BY <1>10 DEF UpdateStore
  <2>4. muddled' \subseteq Accounts
    BY <2>1, <2>3 DEF Outdated, Types0, TypeOK
  <2>5. UNCHANGED <<hired, user, opened, login, role, owners, outrun, crowded, cut, refused>>
    BY <1>10 DEF UpdateStore
  <2>6. Rest
    BY <2>1, <2>2, <2>4, <2>5 DEF Types0, TypeOK, Documents, Here
  <2>7. CASE Done(h)
    BY <2>5, <2>6, <2>7, DoneKeeps, <1>0
  <2>8. CASE Goto(h, "follow", work[h]) /\ work[h].acct # NoAccount
    <3>1. work[h].acct \in opened
      BY <1>10, <2>8 DEF UpdateStore, Types0, Place
    <3>2. Local
      BY <2>1, <2>5, <2>8, <3>1, GotoKeeps DEF PCs
    <3> QED  BY <2>6, <3>2, <1>0
  <2> QED  BY <1>10, <2>7, <2>8 DEF UpdateStore
<1>11. ASSUME NEW h \in Handlers, UpdateFollow(h) PROVE Types0'
  <2>1. work[h].acct \in opened /\ work[h].dial \in Phones
    BY <1>11 DEF UpdateFollow, Types0, Place
  <2>2. \/ login' = login
        \/ Open(work[h].acct) /\ login' = [login EXCEPT ![work[h].acct] = work[h].dial]
    BY <1>11 DEF UpdateFollow
  <2>3. muddled' = muddled \/ muddled' = muddled \cup {work[h].acct}
    BY <1>11 DEF UpdateFollow
  <2>4. /\ Done(h)
        /\ UNCHANGED <<hired, phone, user, opened, role, owners, outrun, crowded, cut, refused>>
    BY <1>11 DEF UpdateFollow
  <2>5. Rest
    BY <2>1, <2>2, <2>3, <2>4 DEF Types0, TypeOK, Documents, Open
  <2>6. Local
    BY <2>4, DoneKeeps
  <2> QED  BY <2>5, <2>6, <1>0
<1>12. ASSUME NEW h \in Handlers, DeleteEmployee(h) PROVE Types0'
  <2>1. /\ work[h].emp \in hired /\ work[h].acct \in opened \cup {NoAccount}
        /\ work[h] \in Works /\ hired \subseteq Employees
    BY <1>12, WorkFields DEF DeleteEmployee, Types0, TypeOK, Place
  <2>2. muddled' = muddled \cup ({user[work[h].emp]} \ {work[h].acct, NoAccount})
    BY <1>12 DEF DeleteEmployee
  <2>3. /\ phone' = [phone EXCEPT ![work[h].emp] = NoPhone]
        /\ UNCHANGED <<hired, user, opened, login, role, owners, outrun, crowded, cut, refused>>
    BY <1>12 DEF DeleteEmployee
  <2>4. Rest
    BY <2>1, <2>2, <2>3 DEF Types0, TypeOK, Documents
  <2>5. CASE Done(h)
    BY <2>3, <2>4, <2>5, DoneKeeps, <1>0
  <2>6. CASE Goto(h, "close", work[h]) /\ work[h].acct # NoAccount
    <3>1. Local
      BY <2>1, <2>3, <2>6, GotoKeeps DEF PCs
    <3> QED  BY <2>4, <3>1, <1>0
  <2> QED  BY <1>12, <2>5, <2>6 DEF DeleteEmployee
<1>13. ASSUME NEW h \in Handlers, DeleteAccount(h) PROVE Types0'
  <2>1. /\ login' = [login EXCEPT ![work[h].acct] = NoPhone] /\ Done(h)
        /\ UNCHANGED <<hired, phone, user, opened, role, history>>
    BY <1>13 DEF DeleteAccount
  <2>2. Rest
    BY <2>1 DEF history, Types0, TypeOK, Documents
  <2>3. Local
    BY <2>1, DoneKeeps
  <2> QED  BY <2>2, <2>3, <1>0
<1>14. ASSUME NEW h \in Handlers, Fail(h) PROVE Types0'
  <2>1. /\ Done(h) /\ UNCHANGED <<docs, owners, crowded, refused>> /\ outrun' = outrun \ {h}
        /\ cut' = IF pc[h] \in {"seek", "open", "link"} THEN cut \cup {work[h].emp} ELSE cut
        /\ muddled' = IF pc[h] \in {"link", "follow", "close"}
                      THEN muddled \cup {work[h].acct} ELSE muddled
    BY <1>14 DEF Fail
  <2>2. cut' \subseteq Employees /\ muddled' \subseteq Accounts
    BY <2>1 DEF Types0, TypeOK, Place
  <2>3. Rest
    BY <2>1, <2>2 DEF docs, Types0, TypeOK, Documents
  <2>4. Local
    BY <2>1, DoneKeeps DEF docs
  <2> QED  BY <2>3, <2>4, <1>0
<1>15. ASSUME NEW e \in Employees, ChangeRole(e) PROVE Types0'
  <2>1. /\ role' = [role EXCEPT ![user[e]] = "EMPLOYEE"]
        /\ UNCHANGED <<hired, phone, user, opened, login, local, history>>
    BY <1>15 DEF ChangeRole
  <2>2. Rest
    BY <2>1 DEF history, Types0, TypeOK, Documents, Roles
  <2>3. Local
    BY <2>1, <1>2
  <2> QED  BY <2>2, <2>3, <1>0
<1>16. ASSUME NEW p \in Phones, CreateOwner(p) PROVE Types0'
  <2>1. PICK a \in Accounts \ opened :
           /\ opened' = opened \cup {a}
           /\ login' = [login EXCEPT ![a] = p]
           /\ role' = [role EXCEPT ![a] = "COMPANY_OWNER"]
           /\ owners' = owners \cup {a}
    BY <1>16 DEF CreateOwner
  <2>2. UNCHANGED <<hired, phone, user, local, outrun, crowded, muddled, cut, refused>>
    BY <1>16 DEF CreateOwner
  <2>3. Rest
    BY <2>1, <2>2 DEF Types0, TypeOK, Documents, Roles
  <2>4. Local
    BY <2>1, <2>2, <1>2
  <2> QED  BY <2>3, <2>4, <1>0
<1>17. CASE UNCHANGED vars
  BY <1>0, <1>1, <1>2, <1>17 DEF vars, docs
<1> HIDE DEF Rest, Local
<1>18. ASSUME NEW h \in Handlers, Receive(h) \/ Resume(h) \/ Fail(h) PROVE Types0'
  BY <1>3, <1>4, <1>5, <1>6, <1>7, <1>8, <1>9, <1>10, <1>11, <1>12, <1>13, <1>14, <1>18
  DEF Receive, Resume
<1> QED  BY <1>15, <1>16, <1>17, <1>18 DEF Next, Serve

LEMMA TypesInvariant == Spec => []Types0
BY TypesInit, TypesNext, PTL DEF Spec

\* The types of every variable, whatever the handlers do.
THEOREM StaffingTypeCorrect == Spec => []TypeOK
<1>1. Types0 => TypeOK
  BY DEF Types0
<1> QED  BY <1>1, TypesInvariant, PTL

-----------------------------------------------------------------------------
(* Who is linked to which account                                           *)

Hiring(h) == pc[h] \in {"seek", "open", "link"}
Holding(h) == pc[h] \in {"change", "follow", "drop", "close"}

\* One handler creates an employee, who has no account until it is done; the
\* account that another handler has read stays the employee's.
Links ==
    \A h \in Handlers :
        /\ Hiring(h) => /\ user[work[h].emp] = NoAccount
                        /\ \A g \in Handlers : g # h /\ Hiring(g) => work[g].emp # work[h].emp
        /\ Holding(h) /\ work[h].acct # NoAccount => user[work[h].emp] = work[h].acct

LEMMA LinksInit == Init => Links
BY DEF Init, Links, Hiring, Holding

\* A step of h that changes no link: what it works on next is what it worked on.
Onward(h) ==
    /\ \A g \in Handlers : g # h => pc'[g] = pc[g] /\ work'[g] = work[g]
    /\ Hiring(h)' => Hiring(h) /\ work'[h].emp = work[h].emp
    /\ Holding(h)' => Holding(h) /\ work'[h] = work[h]

LEMMA OnwardKeeps ==
    ASSUME Links, UNCHANGED user, NEW h \in Handlers, Onward(h)
    PROVE  Links'
BY DEF Links, Onward, Hiring, Holding

LEMMA DoneOnward ==
    ASSUME Types0, NEW h \in Handlers, Done(h)
    PROVE  Onward(h)
BY DEF Types0, TypeOK, Done, Goto, Onward, Hiring, Holding

LEMMA GotoEffect ==
    ASSUME Types0, NEW h \in Handlers, NEW to, NEW w, Goto(h, to, w)
    PROVE  /\ pc'[h] = to /\ work'[h] = w
           /\ \A g \in Handlers : g # h => pc'[g] = pc[g] /\ work'[g] = work[g]
BY DEF Types0, TypeOK, Goto

LEMMA LinksNext == Types0 /\ Types0' /\ Links /\ [Next]_vars => Links'
<1> SUFFICES ASSUME Types0, Types0', Links, [Next]_vars PROVE Links'
  OBVIOUS
<1> USE StaffingAssumption
<1>1. ASSUME NEW h \in Handlers, NEW p \in Phones, CreateCount(h, p) PROVE Links'
  <2>1. Goto(h, "store", Work(NoEmployee, NoAccount, p, NoPhone)) /\ UNCHANGED user
    BY <1>1 DEF CreateCount, Start, Goto, docs
  <2>2. Onward(h)
    BY <2>1, GotoEffect DEF Onward, Hiring, Holding
  <2> QED  BY <2>1, <2>2, OnwardKeeps
<1>2. ASSUME NEW h \in Handlers, NEW e \in Employees, NEW w \in Works, NEW to \in PCs,
             pc[h] = "idle", Goto(h, to, w), UNCHANGED user,
             to \in {"change", "drop"}, w.emp = e, w.acct \in {NoAccount, user[e]}
      PROVE  Links'
  <2>1. /\ pc'[h] = to /\ work'[h] = w
        /\ \A g \in Handlers : g # h => pc'[g] = pc[g] /\ work'[g] = work[g]
    BY <1>2, GotoEffect
  <2> QED  BY <1>2, <2>1 DEF Links, Hiring, Holding
<1>3. ASSUME NEW h \in Handlers, NEW e \in Employees, NEW p \in Phones, UpdateRead(h, e, p)
      PROVE  Links'
  <2> DEFINE w == Work(e, Populated(e), p, phone[e])
  <2>1. w \in Works /\ w.emp = e /\ w.acct = Populated(e)
    BY WorkType DEF Populated, Types0, TypeOK
  <2>2. w.acct \in {NoAccount, user[e]}
    BY <2>1 DEF Populated
  <2>3. pc[h] = "idle" /\ Goto(h, "change", w) /\ UNCHANGED user
    BY <1>3 DEF UpdateRead, Start, Goto, docs
  <2> HIDE DEF w
  <2> QED  BY <1>2, <2>1, <2>2, <2>3 DEF PCs
<1>4. ASSUME NEW h \in Handlers, NEW e \in Employees, DeleteRead(h, e) PROVE Links'
  <2> DEFINE w == Work(e, user[e], NoPhone, NoPhone)
  <2>0. user[e] \in Accounts \cup {NoAccount}
    BY DEF Types0, TypeOK
  <2>1. w \in Works /\ w.emp = e /\ w.acct = user[e]
    BY <2>0, WorkType
  <2>2. pc[h] = "idle" /\ Goto(h, "drop", w) /\ UNCHANGED user
    BY <1>4 DEF DeleteRead, Start, Goto, docs
  <2> HIDE DEF w
  <2> QED  BY <1>2, <2>1, <2>2 DEF PCs
<1>5. ASSUME NEW h \in Handlers, CreateStore(h) PROVE Links'
  <2>1. UNCHANGED user
    BY <1>5 DEF CreateStore
  <2>2. CASE Done(h)
    BY <2>1, <2>2, DoneOnward, OnwardKeeps
  <2>3. ASSUME NEW e \in Employees \ hired, Goto(h, "seek", Work(e, NoAccount, work[h].dial, NoPhone))
        PROVE  Links'
    <3>1. pc'[h] = "seek" /\ work'[h] = Work(e, NoAccount, work[h].dial, NoPhone)
      BY <2>3, GotoEffect
    <3>2. \A g \in Handlers : g # h => pc'[g] = pc[g] /\ work'[g] = work[g]
      BY <2>3, GotoEffect
    <3>3. work'[h].emp = e
      BY <3>1, WorkType, WorkFields DEF Types0
    <3>4. user[e] = NoAccount
      BY <2>3 DEF Types0, Documents
    <3>5. \A g \in Handlers : Hiring(g) => work[g].emp # e
      BY <2>3 DEF Types0, Place, Hiring
    <3> QED  BY <2>1, <3>1, <3>2, <3>3, <3>4, <3>5 DEF Links, Hiring, Holding
  <2> QED  BY <1>5, <2>2, <2>3 DEF CreateStore
<1>6. ASSUME NEW h \in Handlers, CreateSeek(h) PROVE Links'
  <2>1. UNCHANGED user /\ pc[h] = "seek"
    BY <1>6 DEF CreateSeek, docs
  <2>2. ASSUME NEW a \in Found(work[h].dial),
               Goto(h, "link", Work(work[h].emp, a, work[h].dial, login[a]))
        PROVE  Onward(h)
    <3>1. a \in Accounts /\ login[a] \in Phones \cup {NoPhone}
      BY <2>2 DEF Found, Types0, TypeOK
    <3> DEFINE w == Work(work[h].emp, a, work[h].dial, login[a])
    <3>2. w.emp = work[h].emp
      BY <3>1, WorkType, WorkFields DEF Types0
    <3> HIDE DEF w
    <3> QED  BY <2>1, <2>2, <3>2, GotoEffect DEF w, Onward, Hiring, Holding
  <2>3. ASSUME Goto(h, "open", work[h]) PROVE Onward(h)
    BY <2>1, <2>3, GotoEffect DEF Onward, Hiring, Holding
  <2>4. Onward(h)
    BY <1>6, <2>2, <2>3 DEF CreateSeek
  <2> QED  BY <2>1, <2>4, OnwardKeeps
<1>7. ASSUME NEW h \in Handlers, CreateOpen(h) PROVE Links'
  <2>1. UNCHANGED user /\ pc[h] = "open"
    BY <1>7 DEF CreateOpen
  <2>2. ASSUME NEW a \in Accounts,
               Goto(h, "link", Work(work[h].emp, a, work[h].dial, work[h].dial))
        PROVE  Onward(h)
    <3> DEFINE w == Work(work[h].emp, a, work[h].dial, work[h].dial)
    <3>1. w.emp = work[h].emp
      BY WorkType, WorkFields DEF Types0
    <3> HIDE DEF w
    <3> QED  BY <2>1, <2>2, <3>1, GotoEffect DEF w, Onward, Hiring, Holding
  <2>3. Onward(h)
    BY <1>7, <2>2, DoneOnward DEF CreateOpen
  <2> QED  BY <2>1, <2>3, OnwardKeeps
<1>8. ASSUME NEW h \in Handlers, CreateLink(h) PROVE Links'
  <2>1. Onward(h) /\ pc'[h] = "idle" /\ Hiring(h)
    BY <1>8, DoneOnward, GotoEffect DEF CreateLink, Done, Hiring
  <2>2. \A e \in Employees : user'[e] = user[e] \/ e = work[h].emp
    <3>1. user' = user \/ user' = [user EXCEPT ![work[h].emp] = work[h].acct]
      BY <1>8 DEF CreateLink
    <3> QED  BY <3>1 DEF Types0, TypeOK
  <2>3. \A g \in Handlers : g # h /\ Hiring(g) => work[g].emp # work[h].emp
    BY <2>1 DEF Links
  <2>4. \A g \in Handlers : Holding(g) /\ work[g].acct # NoAccount => work[g].emp # work[h].emp
    BY <2>1 DEF Links
  <2>5. \A g \in Handlers : Hiring(g) \/ Holding(g) => work[g].emp \in Employees
    BY DEF Types0, TypeOK, Place, Hiring, Holding
  <2>6. \A g \in Handlers : g # h => Hiring(g)' = Hiring(g) /\ Holding(g)' = Holding(g) /\ work'[g] = work[g]
    BY <2>1 DEF Onward, Hiring, Holding
  <2>7. ~Hiring(h)' /\ ~Holding(h)'
    BY <2>1 DEF Hiring, Holding
  <2> QED  BY <2>2, <2>3, <2>4, <2>5, <2>6, <2>7 DEF Links
<1>9. ASSUME NEW h \in Handlers, UpdateStore(h) \/ DeleteEmployee(h) PROVE Links'
  <2>1. UNCHANGED user /\ pc[h] \in {"change", "drop"}
    BY <1>9 DEF UpdateStore, DeleteEmployee
  <2>2. Done(h) \/ \E to \in {"follow", "close"} : Goto(h, to, work[h])
    BY <1>9 DEF UpdateStore, DeleteEmployee
  <2>3. ASSUME NEW to \in {"follow", "close"}, Goto(h, to, work[h]) PROVE Onward(h)
    BY <2>1, <2>3, GotoEffect DEF Onward, Hiring, Holding
  <2>4. Onward(h)
    BY <2>2, <2>3, DoneOnward
  <2> QED  BY <2>1, <2>4, OnwardKeeps
<1>10. ASSUME NEW h \in Handlers, UpdateFollow(h) \/ DeleteAccount(h) \/ Fail(h) PROVE Links'
  <2>1. UNCHANGED user /\ Done(h)
    BY <1>10 DEF UpdateFollow, DeleteAccount, Fail, docs
  <2> QED  BY <2>1, DoneOnward, OnwardKeeps
<1>11. CASE UNCHANGED <<user, local>>
  BY <1>11 DEF local, Links, Hiring, Holding
<1>12. ASSUME Serve PROVE Links'
  BY <1>11, <1>12 DEF Serve, ChangeRole, CreateOwner
<1>13. ASSUME NEW h \in Handlers, Receive(h) \/ Resume(h) \/ Fail(h) PROVE Links'
  BY <1>1, <1>3, <1>4, <1>5, <1>6, <1>7, <1>8, <1>9, <1>10, <1>13 DEF Receive, Resume
<1> QED  BY <1>11, <1>12, <1>13 DEF Next, vars, docs

LEMMA LinksInvariant == Spec => []Links
BY LinksInit, LinksNext, TypesInvariant, PTL DEF Spec

-----------------------------------------------------------------------------
(* What the accounts have to do with the employees                          *)

\* The unique index on the phones of employees.
PhonesDiffer ==
    \A e, f \in Employees : e # f /\ Here(e) /\ Here(f) => phone[e] # phone[f]

Following(e) == \E h \in Handlers : pc[h] = "follow" /\ work[h].emp = e
LoginKnown ==
    \A e \in Staff :
        user[e] \in Accounts \ muddled =>
            Open(user[e]) /\ (login[user[e]] = phone[e] \/ Following(e))

\* Nobody uses an account that is about to be removed: the employee is gone,
\* by this handler or another.
Ending(h) ==
    \/ pc[h] = "close"
    \/ pc[h] = "drop" /\ ~Here(work[h].emp) /\ work[h].acct # NoAccount
Unused(h) == \A e \in Staff : user[e] # work[h].acct
Closing == \A h \in Handlers : Ending(h) => work[h].acct \in muddled \/ Unused(h)

AccountsKnown == PhonesDiffer /\ LoginKnown /\ OneEmployeeEach /\ AccountsBelong /\ Closing

LEMMA AccountsInit == Init => AccountsKnown
BY DEF Init, AccountsKnown, PhonesDiffer, LoginKnown, OneEmployeeEach, AccountsBelong, Closing,
       Ending, Staff, Here, Open

\* The operations that read or write accounts, as far as the invariant goes.
Touching == {"link", "follow", "close"}
Still(g) ==
    pc[g] \in Touching \/ pc'[g] \in Touching => pc'[g] = pc[g] /\ work'[g] = work[g]

StillEnding(g) == Ending(g)' => Ending(g) /\ work'[g] = work[g]

Muddling(g) == pc[g] \in Touching /\ pc'[g] \notin Touching /\ work[g].acct \in muddled'
Linking(g) == pc[g] \notin Touching /\ pc'[g] = "link"

\* A step that leaves the documents and those handlers alone, except where it
\* muddles the account or is about to link one.
LEMMA QuietKeeps ==
    ASSUME Types0, Links, AccountsKnown,
           phone' = phone, user' = user, login' = login, owners' = owners,
           muddled \subseteq muddled',
           \A g \in Handlers : Still(g) \/ Muddling(g) \/ Linking(g),
           \A g \in Handlers : StillEnding(g)
    PROVE  AccountsKnown'
<1>1. PhonesDiffer' /\ OneEmployeeEach' /\ Staff' = Staff
  BY DEF AccountsKnown, PhonesDiffer, OneEmployeeEach, Staff, Here
<1>2. LoginKnown'
  <2> SUFFICES ASSUME NEW e \in Staff, user[e] \in Accounts \ muddled'
               PROVE  Open(user[e])' /\ (login[user[e]] = phone[e] \/ Following(e)')
    BY <1>1 DEF LoginKnown
  <2>1. Open(user[e]) /\ (login[user[e]] = phone[e] \/ Following(e))
    BY DEF AccountsKnown, LoginKnown
  <2>2. ASSUME NEW h \in Handlers, pc[h] = "follow", work[h].emp = e
        PROVE  pc'[h] = "follow" /\ work'[h].emp = e
    <3>1. work[h].acct \in opened /\ opened \subseteq Accounts
      BY <2>2 DEF Types0, TypeOK, Place
    <3>2. work[h].acct = user[e]
      BY <2>2, <3>1, StaffingAssumption DEF Links, Holding
    <3> QED  BY <2>2, <3>2 DEF Still, Muddling, Linking, Touching
  <2> QED  BY <2>1, <2>2 DEF Following, Open
<1>3. AccountsBelong'
  <2> SUFFICES ASSUME NEW a \in Accounts \ (owners \cup muddled'), Open(a)
               PROVE  \/ \E e \in Staff : user[e] = a
                      \/ \E h \in Handlers : pc'[h] \in {"link", "close"} /\ work'[h].acct = a
    BY <1>1 DEF AccountsBelong, Open
  <2> QED  BY DEF AccountsKnown, AccountsBelong, Still, Muddling, Linking, Touching
<1>4. Closing'
  BY <1>1 DEF AccountsKnown, Closing, Unused, StillEnding
<1> QED  BY <1>1, <1>2, <1>3, <1>4 DEF AccountsKnown

LEMMA DoneStill ==
    ASSUME Types0, NEW h \in Handlers, Done(h)
    PROVE  /\ pc'[h] = "idle"
           /\ \A g \in Handlers : g # h => pc'[g] = pc[g] /\ work'[g] = work[g] /\ Still(g)
           /\ pc[h] \notin Touching => Still(h)
           /\ phone' = phone => \A g \in Handlers : StillEnding(g)
BY GotoEffect DEF Done, Still, StillEnding, Ending, Here, Touching

LEMMA GotoStill ==
    ASSUME Types0, NEW h \in Handlers, NEW to, NEW w, Goto(h, to, w)
    PROVE  /\ \A g \in Handlers : g # h => Still(g)
           /\ pc[h] \notin Touching /\ to \notin Touching => Still(h)
           /\ phone' = phone /\ to \notin {"drop", "close"} => \A g \in Handlers : StillEnding(g)
BY GotoEffect DEF Still, StillEnding, Ending, Here, Touching

\* A new employee, with a phone of its own.
LEMMA StoreKeeps ==
    ASSUME Types0, Types0', Links, AccountsKnown, NEW h \in Handlers, CreateStore(h)
    PROVE  AccountsKnown'
<1>0. UNCHANGED <<user, opened, login, owners, muddled>> /\ pc[h] = "store"
  BY DEF CreateStore
<1>1. CASE Done(h) /\ UNCHANGED phone
  <2>1. \A g \in Handlers : Still(g) /\ StillEnding(g)
    BY <1>0, <1>1, DoneStill DEF Touching
  <2>2. UNCHANGED <<phone, user, login, owners>> /\ muddled \subseteq muddled'
    BY <1>0, <1>1
  <2> QED  BY <2>1, <2>2, QuietKeeps
<1>2. ASSUME NEW e \in Employees \ hired, phone' = [phone EXCEPT ![e] = work[h].dial],
             ~PhoneTaken(NoEmployee, work[h].dial),
             Done(h) \/ \E w : Goto(h, "seek", w)
      PROVE  AccountsKnown'
  <2>1. \A g \in Handlers : Still(g)
    BY <1>0, <1>2, DoneStill, GotoStill DEF Touching
  <2>2. /\ user[e] = NoAccount /\ ~Here(e) /\ phone'[e] = work[h].dial
        /\ \A f \in Employees : f # e => phone'[f] = phone[f]
        /\ \A f \in Employees : phone[f] # work[h].dial
    BY <1>2, StaffingAssumption DEF Types0, TypeOK, Documents, Here, PhoneTaken
  <2>3. PhonesDiffer'
    BY <2>2 DEF AccountsKnown, PhonesDiffer, Here
  <2>4. LoginKnown'
    <3> SUFFICES ASSUME NEW f \in Employees, Here(f)', user[f] \in Accounts \ muddled
                 PROVE  Open(user[f])' /\ (login[user[f]] = phone'[f] \/ Following(f)')
      BY <1>0 DEF LoginKnown, Staff
    <3>1. f # e
      BY <2>2, StaffingAssumption
    <3>2. Open(user[f]) /\ (login[user[f]] = phone[f] \/ Following(f))
      BY <2>2, <3>1 DEF AccountsKnown, LoginKnown, Staff, Here
    <3> QED  BY <1>0, <2>1, <2>2, <3>1, <3>2 DEF Following, Still, Touching, Open
  <2>5. OneEmployeeEach'
    BY <1>0, <2>2 DEF AccountsKnown, OneEmployeeEach, Staff, Here
  <2>6. AccountsBelong'
    <3> SUFFICES ASSUME NEW a \in Accounts \ (owners \cup muddled), Open(a)
                 PROVE  \/ \E f \in Employees : Here(f)' /\ user[f] = a
                        \/ \E g \in Handlers : pc'[g] \in {"link", "close"} /\ work'[g].acct = a
      BY <1>0 DEF AccountsBelong, Open, Staff
    <3>1. \/ \E f \in Employees : Here(f) /\ user[f] = a
          \/ \E g \in Handlers : pc[g] \in {"link", "close"} /\ work[g].acct = a
      BY DEF AccountsKnown, AccountsBelong, Staff
    <3> QED  BY <2>1, <2>2, <3>1 DEF Still, Touching, Here
  <2>7. Closing'
    <3> SUFFICES ASSUME NEW g \in Handlers, Ending(g)', work'[g].acct \notin muddled,
                        NEW f \in Employees, Here(f)'
                 PROVE  user[f] # work'[g].acct
      BY <1>0 DEF Closing, Unused, Staff
    <3>0. pc'[g] = pc[g] /\ work'[g] = work[g]
      <4>1. pc'[g] \in {"drop", "close"}
        BY DEF Ending
      <4> QED  BY <1>2, <4>1, DoneStill, GotoEffect
    <3>1. Ending(g) /\ work[g].acct \in opened
      <4>1. pc[g] \in {"drop", "close"} => work[g].emp \in hired /\ work[g].acct \in opened \cup {NoAccount}
        BY DEF Types0, Place
      <4>2. pc[g] = "close" => work[g].acct \in opened
        BY DEF Types0, Place
      <4> QED  BY <2>2, <3>0, <4>1, <4>2 DEF Ending, Here, Types0, TypeOK
    <3>2. f # e => user[f] # work[g].acct
      BY <1>0, <2>2, <3>0, <3>1 DEF AccountsKnown, Closing, Unused, Staff, Here
    <3>3. work[g].acct # NoAccount
      BY <3>1, StaffingAssumption DEF Types0, TypeOK
    <3> QED  BY <2>2, <3>0, <3>2, <3>3
  <2> QED  BY <2>3, <2>4, <2>5, <2>6, <2>7 DEF AccountsKnown
<1> QED  BY <1>1, <1>2 DEF CreateStore

\* A new account, an owner's or one that its handler is about to link.
LEMMA OpenKeeps ==
    ASSUME Types0, AccountsKnown, UNCHANGED <<phone, user, muddled>>,
           NEW a \in Accounts \ opened, NEW p \in Phones,
           login' = [login EXCEPT ![a] = p],
           \/ owners' = owners /\ (\E h \in Handlers : pc'[h] = "link" /\ work'[h].acct = a)
           \/ owners' = owners \cup {a},
           \A g \in Handlers : Still(g) \/ (pc[g] = "open" /\ pc'[g] = "link"),
           \A g \in Handlers : StillEnding(g)
    PROVE  AccountsKnown'
<1>1. /\ login'[a] = p /\ ~Open(a)
      /\ \A b \in Accounts : b # a => login'[b] = login[b]
      /\ \A e \in Employees : user[e] # a
      /\ \A h \in Handlers : pc[h] \in Touching => work[h].acct # a
  <2>1. login'[a] = p /\ \A b \in Accounts : b # a => login'[b] = login[b]
    BY DEF Types0, TypeOK
  <2>2. ~Open(a) /\ \A e \in Employees : user[e] # a
    BY StaffingAssumption DEF Types0, Documents, Open
  <2>3. \A h \in Handlers : pc[h] \in Touching => work[h].acct # a
    BY DEF Types0, Place, Touching
  <2> QED  BY <2>1, <2>2, <2>3
<1>2. PhonesDiffer' /\ OneEmployeeEach' /\ Staff' = Staff
  BY DEF AccountsKnown, PhonesDiffer, OneEmployeeEach, Staff, Here
<1>3. LoginKnown'
  <2> SUFFICES ASSUME NEW e \in Staff, user[e] \in Accounts \ muddled
               PROVE  Open(user[e])' /\ (login'[user[e]] = phone[e] \/ Following(e)')
    BY <1>2 DEF LoginKnown
  <2>1. Open(user[e]) /\ (login[user[e]] = phone[e] \/ Following(e))
    BY DEF AccountsKnown, LoginKnown
  <2>2. user[e] # a
    BY <1>1 DEF Staff
  <2> QED  BY <1>1, <2>1, <2>2 DEF Following, Still, Touching, Open
<1>4. AccountsBelong'
  <2> SUFFICES ASSUME NEW b \in Accounts \ (owners' \cup muddled), Open(b)'
               PROVE  \/ \E e \in Staff : user[e] = b
                      \/ \E h \in Handlers : pc'[h] \in {"link", "close"} /\ work'[h].acct = b
    BY <1>2 DEF AccountsBelong
  <2>1. CASE b = a
    BY <2>1
  <2>2. CASE b # a
    <3>1. \/ \E e \in Staff : user[e] = b
          \/ \E h \in Handlers : pc[h] \in {"link", "close"} /\ work[h].acct = b
      BY <1>1, <2>2 DEF AccountsKnown, AccountsBelong, Open
    <3> QED  BY <3>1 DEF Still, Touching
  <2> QED  BY <2>1, <2>2
<1>5. Closing'
  BY <1>2 DEF AccountsKnown, Closing, Unused, StillEnding
<1> QED  BY <1>2, <1>3, <1>4, <1>5 DEF AccountsKnown

\* The link of a new employee: nobody else has the account unless muddled.
LEMMA LinkKeeps ==
    ASSUME Types0, Links, AccountsKnown, NEW h \in Handlers, CreateLink(h)
    PROVE  AccountsKnown'
<1> DEFINE e == work[h].emp
           a == work[h].acct
<1>1. /\ pc[h] = "link" /\ Done(h)
      /\ UNCHANGED <<hired, phone, opened, login, role, owners>>
      /\ user' = IF Here(e) THEN [user EXCEPT ![e] = a] ELSE user
  BY DEF CreateLink
<1>2. /\ muddled \subseteq muddled'
      /\ \/ a \in muddled'
         \/ /\ muddled' = muddled
            /\ phone[e] = work[h].dial /\ login[a] = work[h].dial /\ ~Pending(h, a)
  BY DEF CreateLink
<1>3. /\ e \in Employees /\ a \in Accounts /\ user[e] = NoAccount /\ work[h].dial \in Phones
      /\ \A f \in Employees : f # e => user'[f] = user[f]
      /\ Here(e) => user'[e] = a
      /\ ~Here(e) => user'[e] = NoAccount
  <2>1. e \in Employees /\ a \in Accounts /\ work[h].dial \in Phones
    BY <1>1 DEF Types0, TypeOK, Place
  <2>2. user[e] = NoAccount
    BY <1>1 DEF Links, Hiring
  <2> QED  BY <1>1, <2>1, <2>2 DEF Types0, TypeOK
<1>4. /\ pc'[h] = "idle"
      /\ \A g \in Handlers : g # h => pc'[g] = pc[g] /\ work'[g] = work[g]
  BY <1>1, DoneStill
<1>5. ~Here(e) => a \in muddled'
  BY <1>2, <1>3, StaffingAssumption DEF Here
<1> HIDE DEF e, a
<1>6. PhonesDiffer' /\ Staff' = Staff
  BY <1>1 DEF AccountsKnown, PhonesDiffer, Staff, Here
<1>7. \A f \in Staff : f # e /\ user[f] = a => a \in muddled'
  <2> SUFFICES ASSUME NEW f \in Staff, f # e, user[f] = a, a \notin muddled'
               PROVE  FALSE
    OBVIOUS
  <2>1. /\ phone[e] = login[a] /\ Here(e) /\ ~Pending(h, a) /\ a \notin muddled
    BY <1>2, <1>5
  <2>2. phone[f] # phone[e]
    BY <1>3, <2>1 DEF AccountsKnown, PhonesDiffer, Staff
  <2>3. Following(f)
    BY <1>3, <2>1, <2>2 DEF AccountsKnown, LoginKnown
  <2>4. PICK g \in Handlers : pc[g] = "follow" /\ work[g].emp = f
    BY <2>3 DEF Following
  <2>5. work[g].acct \in Accounts
    BY <2>4 DEF Types0, TypeOK, Place
  <2>6. work[g].acct = a
    BY <2>4, <2>5, StaffingAssumption DEF Links, Holding
  <2> QED  BY <1>1, <2>1, <2>4, <2>6 DEF Pending
<1>8. LoginKnown'
  <2> SUFFICES ASSUME NEW f \in Staff, user'[f] \in Accounts \ muddled'
               PROVE  /\ login[user'[f]] # NoPhone
                      /\ login[user'[f]] = phone[f] \/ Following(f)'
    BY <1>1, <1>6 DEF LoginKnown, Open
  <2>1. CASE f = e
    <3>1. user'[f] = a /\ login[a] = phone[e] /\ login[a] # NoPhone
      BY <1>2, <1>3, <2>1, StaffingAssumption DEF Staff
    <3> QED  BY <1>1, <2>1, <3>1 DEF Open
  <2>2. CASE f # e
    <3>1. user'[f] = user[f] /\ user[f] \in Accounts \ muddled
      BY <1>2, <1>3, <2>2 DEF Staff
    <3>2. Open(user[f]) /\ (login[user[f]] = phone[f] \/ Following(f))
      BY <3>1 DEF AccountsKnown, LoginKnown
    <3> QED  BY <1>1, <1>4, <3>1, <3>2 DEF Following, Open
  <2> QED  BY <2>1, <2>2
<1>9. OneEmployeeEach'
  <2> SUFFICES ASSUME NEW f \in Staff, NEW g \in Staff, f # g, user'[f] = user'[g]
               PROVE  user'[f] \in muddled' \cup {NoAccount}
    BY <1>6 DEF OneEmployeeEach
  <2>1. CASE f # e /\ g # e
    BY <1>2, <1>3, <2>1 DEF AccountsKnown, OneEmployeeEach, Staff
  <2>2. CASE f = e
    BY <1>3, <1>7, <2>2 DEF Staff
  <2>3. CASE g = e
    BY <1>3, <1>7, <2>3 DEF Staff
  <2> QED  BY <2>1, <2>2, <2>3
<1>10. AccountsBelong'
  <2> SUFFICES ASSUME NEW b \in Accounts \ (owners \cup muddled'), Open(b)
               PROVE  \/ \E f \in Staff : user'[f] = b
                      \/ \E g \in Handlers : pc'[g] \in {"link", "close"} /\ work'[g].acct = b
    BY <1>1, <1>6 DEF AccountsBelong, Open
  <2>1. CASE b = a
    BY <1>3, <1>5, <2>1 DEF Staff
  <2>2. CASE b # a
    <3>1. b # NoAccount
      BY StaffingAssumption
    <3>2. \/ \E f \in Staff : user[f] = b
          \/ \E g \in Handlers : pc[g] \in {"link", "close"} /\ work[g].acct = b
      BY <1>2 DEF AccountsKnown, AccountsBelong
    <3> QED  BY <1>3, <1>4, <2>2, <3>1, <3>2 DEF Staff, a
  <2> QED  BY <2>1, <2>2
<1>11. Closing'
  <2> SUFFICES ASSUME NEW g \in Handlers, Ending(g)', work'[g].acct \notin muddled',
                      NEW f \in Staff
               PROVE  user'[f] # work'[g].acct
    BY <1>6 DEF Closing, Unused
  <2>1. g # h /\ Ending(g) /\ pc[g] \in {"drop", "close"} /\ work'[g] = work[g]
    BY <1>1, <1>4 DEF Ending, Here
  <2>2. user[f] # work[g].acct
    BY <1>2, <2>1 DEF AccountsKnown, Closing, Unused
  <2>3. work[g].acct # a
    BY <1>2, <2>1 DEF Pending
  <2> QED  BY <1>3, <2>1, <2>2, <2>3 DEF Staff
<1> QED  BY <1>6, <1>8, <1>9, <1>10, <1>11 DEF AccountsKnown

\* The employee's phone changes, and the account's is about to.
LEMMA UpdateKeeps ==
    ASSUME Types0, Links, AccountsKnown, NEW h \in Handlers, UpdateStore(h)
    PROVE  AccountsKnown'
<1>0. PICK e \in Employees, p \in Phones : e = work[h].emp /\ p = work[h].dial
  BY DEF UpdateStore, Types0, TypeOK, Place
<1>1. /\ pc[h] = "change"
      /\ UNCHANGED <<hired, user, opened, login, role, owners>>
      /\ muddled \subseteq muddled'
  BY DEF UpdateStore
<1>2. /\ \A g \in Handlers : g # h => pc'[g] = pc[g] /\ work'[g] = work[g]
      /\ \/ pc'[h] = "idle"
         \/ pc'[h] = "follow" /\ work'[h].emp = e
  <2>1. Done(h) \/ Goto(h, "follow", work[h])
    BY DEF UpdateStore
  <2>2. CASE Done(h)
    BY <2>2, DoneStill
  <2>3. CASE Goto(h, "follow", work[h])
    BY <1>0, <2>3, GotoEffect
  <2> QED  BY <2>1, <2>2, <2>3
<1>3. \/ phone' = phone
      \/ /\ Here(e) /\ ~PhoneTaken(e, p)
         /\ phone' = [phone EXCEPT ![e] = p]
         /\ p = phone[e] \/ pc'[h] = "follow" \/ user[e] \in muddled' \cup {NoAccount}
  <2>1. CASE phone' = phone
    BY <2>1
  <2>2. CASE phone' # phone
    <3>1. /\ Here(e) /\ ~PhoneTaken(e, p) /\ phone' = [phone EXCEPT ![e] = p]
          /\ muddled' = muddled \cup (Outdated(h) \ {NoAccount})
          /\ IF work[h].acct # NoAccount /\ p # work[h].seen
             THEN Goto(h, "follow", work[h]) ELSE Done(h)
      BY <1>0, <2>2 DEF UpdateStore
    <3>2. CASE ~(phone[e] = work[h].seen /\ Populated(e) = work[h].acct)
      <4>1. Outdated(h) = {user[e]}
        BY <1>0, <3>2 DEF Outdated
      <4> QED  BY <3>1, <4>1
    <3>3. CASE work[h].acct # NoAccount /\ p # work[h].seen
      BY <3>1, <3>3, GotoEffect
    <3>4. CASE phone[e] = work[h].seen /\ Populated(e) = work[h].acct /\ p = work[h].seen
      BY <3>1, <3>4
    <3>5. CASE work[h].acct = NoAccount /\ Populated(e) = work[h].acct
      <4>1. user[e] = NoAccount \/ ~Open(user[e])
        BY <3>5 DEF Populated
      <4>2. user[e] \in Accounts \cup {NoAccount}
        BY DEF Types0, TypeOK
      <4>3. user[e] \in Accounts \ muddled => Open(user[e])
        BY <1>1, <3>1 DEF AccountsKnown, LoginKnown, Staff
      <4> QED  BY <1>1, <3>1, <4>1, <4>2, <4>3
    <3> QED  BY <3>2, <3>3, <3>4, <3>5
  <2> QED  BY <2>1, <2>2
<1>4. /\ \A f \in Employees : f # e => phone'[f] = phone[f]
      /\ Staff' = Staff
  <2>1. \A f \in Employees : f # e => phone'[f] = phone[f]
    BY <1>3 DEF Types0, TypeOK
  <2>2. Here(e)' = Here(e)
    BY <1>3, StaffingAssumption DEF Here, Types0, TypeOK
  <2> QED  BY <1>1, <2>1, <2>2 DEF Staff, Here
<1>5. PhonesDiffer'
  <2>1. CASE phone' = phone
    BY <2>1 DEF AccountsKnown, PhonesDiffer, Here
  <2>2. CASE phone' = [phone EXCEPT ![e] = p] /\ ~PhoneTaken(e, p)
    <3>1. phone'[e] = p /\ \A f \in Employees : f # e => phone[f] # p
      BY <1>1, <2>2 DEF PhoneTaken, Types0, TypeOK
    <3> QED  BY <1>4, <3>1 DEF AccountsKnown, PhonesDiffer, Here
  <2> QED  BY <1>3, <2>1, <2>2
<1>6. \A f : Following(f) => Following(f)'
  BY <1>1, <1>2 DEF Following
<1>7. LoginKnown'
  <2> SUFFICES ASSUME NEW f \in Staff, user[f] \in Accounts \ muddled'
               PROVE  Open(user[f]) /\ (login[user[f]] = phone'[f] \/ Following(f)')
    BY <1>1, <1>4 DEF LoginKnown, Open
  <2>1. Open(user[f]) /\ (login[user[f]] = phone[f] \/ Following(f))
    BY <1>1 DEF AccountsKnown, LoginKnown
  <2>2. CASE phone'[f] = phone[f]
    BY <1>6, <2>1, <2>2
  <2>3. CASE phone'[f] # phone[f]
    <3>1. f = e
      BY <1>4, <2>3 DEF Staff
    <3>2. phone' = [phone EXCEPT ![e] = p] /\ p # phone[e]
      BY <1>1, <1>3, <2>3, <3>1 DEF Types0, TypeOK
    <3>3. pc'[h] = "follow"
      BY <1>3, <2>3, <3>1, <3>2, StaffingAssumption
    <3>4. Following(e)'
      BY <1>2, <3>3 DEF Following
    <3> QED  BY <2>1, <3>1, <3>4
  <2> QED  BY <2>2, <2>3
<1>8. OneEmployeeEach'
  BY <1>1, <1>4 DEF AccountsKnown, OneEmployeeEach
<1>9. AccountsBelong'
  BY <1>1, <1>2, <1>4 DEF AccountsKnown, AccountsBelong, Open
<1>10. Closing'
  <2>1. \A g \in Handlers : StillEnding(g)
    <3> SUFFICES ASSUME NEW g \in Handlers, Ending(g)' PROVE Ending(g) /\ work'[g] = work[g]
      BY DEF StillEnding
    <3>1. pc'[g] = pc[g] /\ work'[g] = work[g]
      BY <1>2 DEF Ending
    <3>2. pc[g] = "drop" => work[g].emp \in Employees
      BY DEF Types0, TypeOK, Place
    <3> QED  BY <1>4, <3>1, <3>2 DEF Ending, Staff, Here
  <2> QED  BY <1>1, <1>4, <2>1 DEF AccountsKnown, Closing, Unused, StillEnding
<1> QED  BY <1>5, <1>7, <1>8, <1>9, <1>10 DEF AccountsKnown

\* The account follows its employee.
LEMMA FollowKeeps ==
    ASSUME Types0, Links, AccountsKnown, NEW h \in Handlers, UpdateFollow(h)
    PROVE  AccountsKnown'
<1>0. PICK e \in Employees, a \in Accounts, p \in Phones :
         e = work[h].emp /\ a = work[h].acct /\ p = work[h].dial
  BY DEF UpdateFollow, Types0, TypeOK, Place
<1>1. /\ pc[h] = "follow" /\ Done(h)
      /\ UNCHANGED <<hired, phone, user, opened, role, owners>>
      /\ muddled \subseteq muddled'
  BY DEF UpdateFollow
<1>2. /\ login' = login \/ (Open(a) /\ login' = [login EXCEPT ![a] = p])
      /\ a \in muddled' \/ (phone[e] = p /\ (Open(a) => login' = [login EXCEPT ![a] = p]))
  <2> DEFINE clash == Open(a) /\ LoginTaken(a, p)
  <2>1. login' = IF Open(a) /\ ~clash THEN [login EXCEPT ![a] = p] ELSE login
    BY <1>0 DEF UpdateFollow
  <2>2. muddled' = IF clash \/ phone[e] # p THEN muddled \cup {a} ELSE muddled
    BY <1>0 DEF UpdateFollow
  <2> HIDE DEF clash
  <2>3. CASE clash \/ phone[e] # p
    BY <2>1, <2>2, <2>3
  <2>4. CASE ~clash /\ phone[e] = p
    BY <2>1, <2>4
  <2> QED  BY <2>3, <2>4
<1>3. user[e] = a
  BY <1>0, <1>1, StaffingAssumption DEF Links, Holding
<1>4. /\ pc'[h] = "idle"
      /\ \A g \in Handlers : g # h => pc'[g] = pc[g] /\ work'[g] = work[g]
  BY <1>1, DoneStill
<1>5. /\ \A b \in Accounts : b # a => login'[b] = login[b]
      /\ \A b \in Accounts : Open(b)' = Open(b)
  <2>1. \A b \in Accounts : b # a => login'[b] = login[b]
    BY <1>2 DEF Types0, TypeOK
  <2>2. Open(a)' = Open(a)
    BY <1>1, <1>2, StaffingAssumption DEF Open, Types0, TypeOK
  <2> QED  BY <2>1, <2>2 DEF Open
<1>6. PhonesDiffer' /\ OneEmployeeEach' /\ Staff' = Staff
  BY <1>1 DEF AccountsKnown, PhonesDiffer, OneEmployeeEach, Staff, Here
<1>7. LoginKnown'
  <2> SUFFICES ASSUME NEW f \in Staff, user[f] \in Accounts \ muddled'
               PROVE  Open(user[f])' /\ (login'[user[f]] = phone[f] \/ Following(f)')
    BY <1>1, <1>6 DEF LoginKnown
  <2>1. Open(user[f]) /\ (login[user[f]] = phone[f] \/ Following(f))
    BY <1>1 DEF AccountsKnown, LoginKnown
  <2>2. CASE f = e
    <3>1. login' = [login EXCEPT ![a] = p] /\ phone[e] = p
      BY <1>2, <1>3, <2>1, <2>2
    <3> QED  BY <1>1, <1>3, <1>5, <2>1, <2>2, <3>1 DEF Types0, TypeOK
  <2>3. CASE f # e
    <3>1. user[f] # a
      <4>1. ASSUME user[f] = a PROVE FALSE
        <5>1. a \in Accounts /\ a \notin muddled'
          BY <4>1
        <5>2. phone[e] = p
          BY <1>2, <5>1
        <5>3. e \in Staff
          BY <1>1, <5>2, StaffingAssumption DEF Staff, Here
        <5> QED  BY <1>1, <1>3, <2>3, <4>1, <5>1, <5>3, StaffingAssumption
                 DEF AccountsKnown, OneEmployeeEach
      <4> QED  BY <4>1
    <3>2. Following(f) => Following(f)'
      BY <1>0, <1>4, <2>3 DEF Following
    <3>3. login'[user[f]] = login[user[f]] /\ Open(user[f])'
      BY <1>1, <1>5, <2>1, <3>1 DEF Open
    <3> QED  BY <2>1, <3>2, <3>3
  <2> QED  BY <2>2, <2>3
<1>8. AccountsBelong'
  BY <1>1, <1>4, <1>5, <1>6 DEF AccountsKnown, AccountsBelong
<1>9. Closing'
  BY <1>1, <1>4, <1>6, DoneStill DEF AccountsKnown, Closing, Unused, StillEnding
<1> QED  BY <1>6, <1>7, <1>8, <1>9 DEF AccountsKnown

\* The employee goes; its account is about to, and nobody else uses it.
LEMMA DeleteKeeps ==
    ASSUME Types0, Links, AccountsKnown, NEW h \in Handlers, DeleteEmployee(h)
    PROVE  AccountsKnown'
<1>0. PICK e \in Employees, a \in Accounts \cup {NoAccount} :
         e = work[h].emp /\ a = work[h].acct
  BY DEF DeleteEmployee, Types0, TypeOK, Place
<1>1. /\ pc[h] = "drop"
      /\ UNCHANGED <<hired, user, opened, login, role, owners>>
      /\ muddled' = muddled \cup ({user[e]} \ {a, NoAccount})
      /\ phone' = [phone EXCEPT ![e] = NoPhone]
      /\ IF a = NoAccount THEN Done(h) ELSE Goto(h, "close", work[h])
  BY <1>0 DEF DeleteEmployee
<1>2. /\ \A g \in Handlers : g # h => pc'[g] = pc[g] /\ work'[g] = work[g]
      /\ a = NoAccount => pc'[h] = "idle"
      /\ a # NoAccount => pc'[h] = "close" /\ work'[h].acct = a
  BY <1>0, <1>1, DoneStill, GotoEffect
<1>3. a # NoAccount => user[e] = a
  BY <1>0, <1>1 DEF Links, Holding
<1>4. /\ \A f \in Employees : f # e => phone'[f] = phone[f]
      /\ Staff' = Staff \ {e}
  <2>1. phone'[e] = NoPhone /\ \A f \in Employees : f # e => phone'[f] = phone[f]
    BY <1>1 DEF Types0, TypeOK
  <2> QED  BY <2>1 DEF Staff, Here
<1>5. PhonesDiffer'
  BY <1>4 DEF AccountsKnown, PhonesDiffer, Staff, Here
<1>6. \A f : Following(f) => Following(f)'
  BY <1>1, <1>2 DEF Following
<1>7. LoginKnown'
  <2> SUFFICES ASSUME NEW f \in Staff, f # e, user[f] \in Accounts \ muddled'
               PROVE  Open(user[f]) /\ (login[user[f]] = phone'[f] \/ Following(f)')
    BY <1>1, <1>4 DEF LoginKnown, Open
  <2>1. Open(user[f]) /\ (login[user[f]] = phone[f] \/ Following(f))
    BY <1>1 DEF AccountsKnown, LoginKnown
  <2> QED  BY <1>4, <1>6, <2>1 DEF Staff
<1>8. OneEmployeeEach'
  BY <1>1, <1>4 DEF AccountsKnown, OneEmployeeEach
<1>9. AccountsBelong'
  <2> SUFFICES ASSUME NEW b \in Accounts \ (owners \cup muddled'), Open(b)
               PROVE  \/ \E f \in Staff' : user[f] = b
                      \/ \E g \in Handlers : pc'[g] \in {"link", "close"} /\ work'[g].acct = b
    BY <1>1 DEF AccountsBelong, Open
  <2>1. CASE \E g \in Handlers : pc[g] \in {"link", "close"} /\ work[g].acct = b
    BY <1>1, <1>2, <2>1
  <2>2. ASSUME NEW f \in Staff, user[f] = b
        PROVE  \/ \E i \in Staff' : user[i] = b
               \/ \E g \in Handlers : pc'[g] \in {"link", "close"} /\ work'[g].acct = b
    <3>1. CASE f # e
      BY <1>4, <2>2, <3>1
    <3>2. CASE f = e
      <4>1. b = a /\ a # NoAccount
        BY <1>1, <2>2, <3>2, StaffingAssumption
      <4> QED  BY <1>2, <4>1
    <3> QED  BY <3>1, <3>2
  <2> QED  BY <1>1, <2>1, <2>2 DEF AccountsKnown, AccountsBelong
<1>10. Closing'
  <2> SUFFICES ASSUME NEW g \in Handlers, Ending(g)', work'[g].acct \notin muddled,
                      NEW f \in Staff, f # e
               PROVE  user[f] # work'[g].acct
    BY <1>1, <1>4 DEF Closing, Unused
  <2>1. work'[g] = work[g] /\ pc[g] \in {"drop", "close"} /\ work[g].acct # NoAccount
    <3>1. CASE g = h
      <4>1. a # NoAccount
        BY <1>2, <3>1 DEF Ending
      <4> QED  BY <1>0, <1>1, <3>1, <4>1, GotoEffect
    <3>2. CASE g # h
      <4>1. pc[g] = "close" => work[g].acct # NoAccount
        BY StaffingAssumption DEF Types0, TypeOK, Place
      <4> QED  BY <1>2, <3>2, <4>1 DEF Ending
    <3> QED  BY <3>1, <3>2
  <2>2. CASE Ending(g)
    BY <2>1, <2>2 DEF AccountsKnown, Closing, Unused
  <2>3. CASE ~Ending(g)
    <3>1. pc[g] = "drop" /\ Here(work[g].emp) /\ work[g].emp \in Employees
      BY <2>1, <2>3 DEF Ending, Types0, TypeOK, Place
    <3>2. work[g].emp = e
      <4>1. CASE g = h
        BY <1>0, <4>1
      <4>2. CASE g # h
        <5>1. ~Here(work[g].emp)'
          BY <1>2, <2>1, <3>1, <4>2 DEF Ending
        <5> QED  BY <1>4, <2>1, <3>1, <5>1 DEF Here
      <4> QED  BY <4>1, <4>2
    <3>3. user[e] = work[g].acct
      BY <2>1, <3>1, <3>2 DEF Links, Holding
    <3>4. e \in Staff
      BY <3>1, <3>2 DEF Staff
    <3> QED  BY <2>1, <3>3, <3>4 DEF AccountsKnown, OneEmployeeEach
  <2> QED  BY <2>2, <2>3
<1> QED  BY <1>5, <1>7, <1>8, <1>9, <1>10 DEF AccountsKnown

\* The account goes, and nobody uses it.
LEMMA CloseKeeps ==
    ASSUME Types0, Links, AccountsKnown, NEW h \in Handlers, DeleteAccount(h)
    PROVE  AccountsKnown'
<1>0. PICK a \in Accounts : a = work[h].acct
  BY DEF DeleteAccount, Types0, TypeOK, Place
<1>1. /\ pc[h] = "close" /\ Done(h)
      /\ UNCHANGED <<hired, phone, user, opened, role, owners, muddled>>
      /\ login' = [login EXCEPT ![a] = NoPhone]
  BY <1>0 DEF DeleteAccount, history
<1>2. /\ pc'[h] = "idle"
      /\ \A g \in Handlers : g # h => pc'[g] = pc[g] /\ work'[g] = work[g]
      /\ \A g \in Handlers : StillEnding(g)
  BY <1>1, DoneStill
<1>3. login'[a] = NoPhone /\ \A b \in Accounts : b # a => login'[b] = login[b]
  BY <1>1 DEF Types0, TypeOK
<1>4. \A f \in Staff : user[f] # a \/ a \in muddled
  BY <1>0, <1>1 DEF AccountsKnown, Closing, Unused, Ending
<1>5. PhonesDiffer' /\ OneEmployeeEach' /\ Staff' = Staff
  BY <1>1 DEF AccountsKnown, PhonesDiffer, OneEmployeeEach, Staff, Here
<1>6. LoginKnown'
  <2> SUFFICES ASSUME NEW f \in Staff, user[f] \in Accounts \ muddled
               PROVE  Open(user[f])' /\ (login'[user[f]] = phone[f] \/ Following(f)')
    BY <1>1, <1>5 DEF LoginKnown
  <2>1. Open(user[f]) /\ (login[user[f]] = phone[f] \/ Following(f))
    BY DEF AccountsKnown, LoginKnown
  <2>2. login'[user[f]] = login[user[f]]
    BY <1>3, <1>4
  <2>3. Following(f) => Following(f)'
    BY <1>1, <1>2 DEF Following
  <2> QED  BY <1>1, <2>1, <2>2, <2>3 DEF Open
<1>7. AccountsBelong'
  <2> SUFFICES ASSUME NEW b \in Accounts \ (owners \cup muddled), Open(b)'
               PROVE  \/ \E f \in Staff : user[f] = b
                      \/ \E g \in Handlers : pc'[g] \in {"link", "close"} /\ work'[g].acct = b
    BY <1>1, <1>5 DEF AccountsBelong
  <2>1. b # a /\ Open(b)
    BY <1>3 DEF Open
  <2> QED  BY <1>0, <1>2, <2>1 DEF AccountsKnown, AccountsBelong
<1>8. Closing'
  BY <1>1, <1>2, <1>5 DEF AccountsKnown, Closing, Unused, StillEnding
<1> QED  BY <1>5, <1>6, <1>7, <1>8 DEF AccountsKnown

LEMMA AccountsNext == Types0 /\ Types0' /\ Links /\ AccountsKnown /\ [Next]_vars => AccountsKnown'
<1> SUFFICES ASSUME Types0, Types0', Links, AccountsKnown, [Next]_vars PROVE AccountsKnown'
  OBVIOUS
<1>1. ASSUME NEW h \in Handlers, NEW to \in {"store", "change"}, NEW w,
             pc[h] = "idle", Goto(h, to, w), UNCHANGED <<docs, history>>
      PROVE  AccountsKnown'
  <2>1. \A g \in Handlers : Still(g) /\ StillEnding(g)
    BY <1>1, GotoStill DEF Touching, docs
  <2>2. phone' = phone /\ user' = user /\ login' = login /\ owners' = owners /\ muddled' = muddled
    BY <1>1 DEF docs, history
  <2> QED  BY <2>1, <2>2, QuietKeeps
<1>2. ASSUME NEW h \in Handlers, NEW p \in Phones, CreateCount(h, p) PROVE AccountsKnown'
  BY <1>1, <1>2 DEF CreateCount, Start, Goto
<1>3. ASSUME NEW h \in Handlers, NEW e \in Employees, NEW p \in Phones, UpdateRead(h, e, p)
      PROVE  AccountsKnown'
  BY <1>1, <1>3 DEF UpdateRead, Start, Goto
<1>4. ASSUME NEW h \in Handlers, NEW e \in Employees, DeleteRead(h, e) PROVE AccountsKnown'
  <2> DEFINE w == Work(e, user[e], NoPhone, NoPhone)
  <2>1. /\ pc[h] = "idle" /\ Goto(h, "drop", w) /\ Here(e)
        /\ phone' = phone /\ user' = user /\ login' = login /\ owners' = owners /\ muddled' = muddled
    BY <1>4 DEF DeleteRead, Start, Goto, docs, history
  <2>2. w.emp = e
    <3>1. user[e] \in Accounts \cup {NoAccount} /\ e \in Employees \cup {NoEmployee}
      BY DEF Types0, TypeOK
    <3> QED  BY <3>1, WorkType
  <2> HIDE DEF w
  <2>3. /\ pc'[h] = "drop" /\ work'[h] = w
        /\ \A g \in Handlers : g # h => pc'[g] = pc[g] /\ work'[g] = work[g]
    BY <2>1, GotoEffect
  <2>4. \A g \in Handlers : Still(g) /\ StillEnding(g)
    BY <2>1, <2>2, <2>3 DEF Still, StillEnding, Ending, Here, Touching
  <2> QED  BY <2>1, <2>4, QuietKeeps
<1>5. ASSUME NEW h \in Handlers, CreateSeek(h) PROVE AccountsKnown'
  <2>1. /\ pc[h] = "seek"
        /\ phone' = phone /\ user' = user /\ login' = login /\ owners' = owners /\ muddled' = muddled
    BY <1>5 DEF CreateSeek, docs, history
  <2>2. \E w : Goto(h, "link", w) \/ Goto(h, "open", w)
    BY <1>5 DEF CreateSeek
  <2>3. \A g \in Handlers : (Still(g) \/ Linking(g)) /\ StillEnding(g)
    BY <2>1, <2>2, GotoStill, GotoEffect DEF Linking, Still, Touching
  <2> QED  BY <2>1, <2>3, QuietKeeps
<1>6. ASSUME NEW h \in Handlers, CreateOpen(h) PROVE AccountsKnown'
  <2>1. /\ pc[h] = "open" /\ work[h].dial \in Phones
        /\ phone' = phone /\ user' = user /\ owners' = owners /\ muddled' = muddled
    BY <1>6 DEF CreateOpen, Types0, Place
  <2>2. CASE Done(h) /\ login' = login
    <3>1. \A g \in Handlers : Still(g) /\ StillEnding(g)
      BY <2>1, <2>2, DoneStill DEF Touching
    <3> QED  BY <2>1, <2>2, <3>1, QuietKeeps
  <2>3. ASSUME NEW a \in Accounts \ opened, login' = [login EXCEPT ![a] = work[h].dial],
               Goto(h, "link", Work(work[h].emp, a, work[h].dial, work[h].dial))
        PROVE  AccountsKnown'
    <3> DEFINE w == Work(work[h].emp, a, work[h].dial, work[h].dial)
    <3>1. w.acct = a
      <4>1. /\ work[h].emp \in Employees \cup {NoEmployee} /\ a \in Accounts \cup {NoAccount}
            /\ work[h].dial \in Phones \cup {NoPhone}
        BY <2>3, WorkFields DEF Types0
      <4> QED  BY <4>1, WorkType
    <3> HIDE DEF w
    <3>2. pc'[h] = "link" /\ work'[h].acct = a
      BY <2>3, <3>1, GotoEffect DEF w
    <3>3. \A g \in Handlers : Still(g) \/ (pc[g] = "open" /\ pc'[g] = "link")
      BY <2>1, <2>3, <3>2, GotoStill
    <3>4. \A g \in Handlers : StillEnding(g)
      BY <2>1, <2>3, GotoStill
    <3> QED  BY <2>1, <2>3, <3>2, <3>3, <3>4, OpenKeeps
  <2> QED  BY <1>6, <2>2, <2>3 DEF CreateOpen
<1>7. ASSUME NEW h \in Handlers, Fail(h) PROVE AccountsKnown'
  <2>1. /\ phone' = phone /\ user' = user /\ login' = login /\ owners' = owners /\ Done(h)
        /\ muddled' = IF pc[h] \in Touching THEN muddled \cup {work[h].acct} ELSE muddled
    BY <1>7 DEF Fail, docs, Touching
  <2>2. Still(h) \/ Muddling(h)
    BY <2>1, DoneStill DEF Muddling, Touching
  <2>3. \A g \in Handlers : (Still(g) \/ Muddling(g)) /\ StillEnding(g)
    BY <2>1, <2>2, DoneStill
  <2> QED  BY <2>1, <2>3, QuietKeeps
<1>8. CASE UNCHANGED <<phone, user, login, owners, muddled, local>>
  <2>1. \A g \in Handlers : Still(g) /\ StillEnding(g)
    BY <1>8 DEF local, Still, StillEnding, Ending, Here
  <2> QED  BY <1>8, <2>1, QuietKeeps
<1>9. ASSUME NEW e \in Employees, ChangeRole(e) PROVE AccountsKnown'
  BY <1>8, <1>9 DEF ChangeRole, history
<1>10. ASSUME NEW p \in Phones, CreateOwner(p) PROVE AccountsKnown'
  <2>1. PICK a \in Accounts \ opened :
           login' = [login EXCEPT ![a] = p] /\ owners' = owners \cup {a}
    BY <1>10 DEF CreateOwner
  <2>2. UNCHANGED <<phone, user, muddled, local>>
    BY <1>10 DEF CreateOwner
  <2>3. \A g \in Handlers : Still(g) /\ StillEnding(g)
    BY <2>2 DEF local, Still, StillEnding, Ending, Here
  <2> QED  BY <2>1, <2>2, <2>3, OpenKeeps
<1>11. CASE UNCHANGED vars
  BY <1>8, <1>11 DEF vars, docs, history
<1>12. ASSUME NEW h \in Handlers, Receive(h) \/ Resume(h) \/ Fail(h) PROVE AccountsKnown'
  BY <1>2, <1>3, <1>4, <1>5, <1>6, <1>7, <1>12, StoreKeeps, LinkKeeps, UpdateKeeps, FollowKeeps,
     DeleteKeeps, CloseKeeps
  DEF Receive, Resume
<1> QED  BY <1>9, <1>10, <1>11, <1>12 DEF Next, Serve

LEMMA AccountsInvariant == Spec => []AccountsKnown
BY AccountsInit, AccountsNext, LinksInvariant, TypesInvariant, PTL DEF Spec

\* Whatever the handlers do and wherever they fail, an account no race, failure
\* or other spelling has touched has its employee's phone, or is about to.
THEOREM LoginCorrect == Spec => []LoginFollows
<1>1. AccountsKnown => LoginFollows
  BY DEF AccountsKnown, LoginKnown, LoginFollows, Following
<1> QED  BY <1>1, AccountsInvariant, PTL

\* Two employees share such an account never, and it does not outlive its
\* employee, but for the time softDelete() takes.
THEOREM AccountsCorrect == Spec => []AccountsMatch
<1>1. AccountsKnown => AccountsMatch
  BY DEF AccountsKnown, AccountsMatch
<1> QED  BY <1>1, AccountsInvariant, PTL

-----------------------------------------------------------------------------
(* Owners, employees without an account, and the quota                      *)

LEMMA OwnersInit == Init => OwnerExplained
BY DEF Init, OwnerExplained

LEMMA OwnersNext == Types0 /\ Links /\ OwnerExplained /\ [Next]_vars => OwnerExplained'
<1> SUFFICES ASSUME Types0, Links, OwnerExplained, [Next]_vars PROVE OwnerExplained'
  OBVIOUS
<1> USE StaffingAssumption
<1>1. CASE UNCHANGED <<user, login, role, owners>> /\ hired \subseteq hired'
  BY <1>1 DEF OwnerExplained, Open
<1>2. ASSUME NEW a \in Accounts \ opened, NEW p \in Phones, UNCHANGED <<hired, user>>,
             login' = [login EXCEPT ![a] = p],
             \/ \E r : role' = [role EXCEPT ![a] = r] /\ owners' = owners
             \/ role' = [role EXCEPT ![a] = "COMPANY_OWNER"] /\ owners' = owners \cup {a}
      PROVE  OwnerExplained'
  <2>1. /\ login'[a] # NoPhone /\ a \notin owners /\ owners \subseteq Accounts
        /\ \A b \in Accounts : b # a => login'[b] = login[b] /\ role'[b] = role[b]
        /\ owners' = owners \/ (owners' = owners \cup {a} /\ role'[a] = "COMPANY_OWNER")
    BY <1>2 DEF Types0, TypeOK, Documents
  <2> QED  BY <1>2, <2>1 DEF OwnerExplained, Open
<1>3. ASSUME NEW h \in Handlers, CreateStore(h) PROVE OwnerExplained'
  BY <1>1, <1>3 DEF CreateStore
<1>4. ASSUME NEW h \in Handlers, CreateOpen(h) PROVE OwnerExplained'
  BY <1>1, <1>2, <1>4 DEF CreateOpen, Types0, Place
<1>5. ASSUME NEW h \in Handlers, CreateLink(h) PROVE OwnerExplained'
  <2>1. user[work[h].emp] = NoAccount /\ UNCHANGED <<hired, login, role, owners>>
    BY <1>5 DEF CreateLink, Links, Hiring
  <2>2. user' = user \/ user' = [user EXCEPT ![work[h].emp] = work[h].acct]
    BY <1>5 DEF CreateLink
  <2>3. \A e \in Employees : user[e] # NoAccount => user'[e] = user[e]
    BY <2>1, <2>2 DEF Types0, TypeOK
  <2>4. hired \subseteq Employees /\ owners \subseteq Accounts
    BY DEF Types0, TypeOK
  <2> QED  BY <2>1, <2>3, <2>4 DEF OwnerExplained, Open
<1>6. ASSUME NEW h \in Handlers, UpdateFollow(h) PROVE OwnerExplained'
  <2>1. /\ UNCHANGED <<hired, user, role, owners>> /\ work[h].dial \in Phones
        /\ login' = login \/ login' = [login EXCEPT ![work[h].acct] = work[h].dial]
    BY <1>6 DEF UpdateFollow, Types0, Place
  <2>2. \A a \in Accounts : Open(a) => Open(a)'
    BY <2>1 DEF Open, Types0, TypeOK
  <2> QED  BY <2>1, <2>2 DEF OwnerExplained, Types0, TypeOK
<1>7. ASSUME NEW h \in Handlers, DeleteAccount(h) PROVE OwnerExplained'
  <2>1. /\ login' = [login EXCEPT ![work[h].acct] = NoPhone]
        /\ UNCHANGED <<hired, user, role, owners>> /\ pc[h] = "close"
    BY <1>7 DEF DeleteAccount, history
  <2>2. work[h].acct \in Accounts /\ work[h].emp \in hired
    BY <2>1 DEF Types0, TypeOK, Place
  <2>3. user[work[h].emp] = work[h].acct
    BY <2>1, <2>2 DEF Links, Holding
  <2>4. \A a \in Accounts : a # work[h].acct => login'[a] = login[a]
    BY <2>1 DEF Types0, TypeOK
  <2> QED  BY <2>1, <2>2, <2>3, <2>4 DEF OwnerExplained, Open, Types0, TypeOK
<1>8. ASSUME NEW e \in Employees, ChangeRole(e) PROVE OwnerExplained'
  <2>1. /\ role' = [role EXCEPT ![user[e]] = "EMPLOYEE"] /\ e \in hired
        /\ UNCHANGED <<hired, user, login, owners>>
    BY <1>8 DEF ChangeRole, history, Here, Types0, Documents
  <2>2. \A a \in Accounts : a # user[e] => role'[a] = role[a]
    BY <2>1 DEF Types0, TypeOK
  <2> QED  BY <2>1, <2>2 DEF OwnerExplained, Open, Types0, TypeOK
<1>9. ASSUME NEW p \in Phones, CreateOwner(p) PROVE OwnerExplained'
  BY <1>2, <1>9 DEF CreateOwner
<1>10. ASSUME NEW h \in Handlers, Receive(h) \/ Resume(h) \/ Fail(h) PROVE OwnerExplained'
  <2>1. CASE Receive(h) \/ CreateSeek(h) \/ Fail(h)
    BY <1>1, <2>1 DEF Receive, CreateCount, UpdateRead, DeleteRead, Start, CreateSeek, Fail, docs, history
  <2>2. CASE UpdateStore(h) \/ DeleteEmployee(h)
    BY <1>1, <2>2 DEF UpdateStore, DeleteEmployee
  <2> QED  BY <1>3, <1>4, <1>5, <1>6, <1>7, <1>10, <2>1, <2>2 DEF Resume
<1> QED  BY <1>1, <1>8, <1>9, <1>10 DEF Next, Serve, vars, docs, history

\* An owner's account keeps its role until create() has linked an employee to
\* it: no other handler demotes or deletes it.
THEOREM OwnerCorrect == Spec => []OwnerExplained
BY OwnersInit, OwnersNext, LinksInvariant, TypesInvariant, PTL DEF Spec

LEMMA CreatingInit == Init => LoginExplained
BY DEF Init, LoginExplained, Staff, Here

LEMMA CreatingNext == Types0 /\ Links /\ LoginExplained /\ [Next]_vars => LoginExplained'
<1> SUFFICES ASSUME Types0, Links, LoginExplained, [Next]_vars PROVE LoginExplained'
  OBVIOUS
<1> USE StaffingAssumption
\* A step that hires nobody.
<1>1. ASSUME Staff' \subseteq Staff, cut \subseteq cut', refused \subseteq refused',
             \A e \in Staff : user'[e] = NoAccount => user[e] = NoAccount,
             \A e \in Staff : Creating(e) =>
                 Creating(e)' \/ e \in cut' \/ user'[e] # NoAccount
      PROVE  LoginExplained'
  BY <1>1 DEF LoginExplained
<1>2. ASSUME NEW h \in Handlers, CreateStore(h) PROVE LoginExplained'
  <2>1. /\ UNCHANGED <<user, cut>> /\ pc[h] = "store"
        /\ Done(h) \/ \E w : Goto(h, "seek", w)
    BY <1>2 DEF CreateStore
  <2>2. \A e \in Staff : Creating(e) => Creating(e)'
    BY <2>1, DoneStill, GotoEffect DEF Creating
  <2>3. CASE UNCHANGED <<phone, refused>>
    BY <1>1, <2>1, <2>2, <2>3 DEF Staff, Here
  <2>4. ASSUME NEW e \in Employees \ hired, phone' = [phone EXCEPT ![e] = work[h].dial],
               \/ Goto(h, "seek", Work(e, NoAccount, work[h].dial, NoPhone)) /\ refused' = refused
               \/ refused' = refused \cup {e}
        PROVE  LoginExplained'
    <3>1. Staff' \subseteq Staff \cup {e}
      BY <2>4 DEF Staff, Here, Types0, TypeOK
    <3>2. Creating(e)' \/ e \in refused'
      <4>1. CASE Goto(h, "seek", Work(e, NoAccount, work[h].dial, NoPhone))
        <5>1. Work(e, NoAccount, work[h].dial, NoPhone).emp = e
          BY <2>1, WorkType, WorkFields DEF Types0
        <5> QED  BY <4>1, <5>1, GotoEffect DEF Creating
      <4> QED  BY <2>4, <4>1
    <3> QED  BY <2>1, <2>2, <2>4, <3>1, <3>2 DEF LoginExplained
  <2> QED  BY <1>2, <2>3, <2>4 DEF CreateStore
<1>3. ASSUME NEW h \in Handlers, CreateSeek(h) PROVE LoginExplained'
  <2>1. UNCHANGED <<phone, user, cut, refused>> /\ pc[h] = "seek"
    BY <1>3 DEF CreateSeek, docs, history
  <2>2. \A g \in Handlers : g # h => pc'[g] = pc[g] /\ work'[g] = work[g]
    BY <1>3, GotoEffect DEF CreateSeek
  <2>3. pc'[h] \in {"link", "open"} /\ work'[h].emp = work[h].emp
    <3>1. ASSUME NEW a \in Found(work[h].dial),
                 Goto(h, "link", Work(work[h].emp, a, work[h].dial, login[a]))
          PROVE  pc'[h] = "link" /\ work'[h].emp = work[h].emp
      <4>1. a \in Accounts /\ login[a] \in Phones \cup {NoPhone}
        BY <3>1 DEF Found, Types0, TypeOK
      <4>2. Work(work[h].emp, a, work[h].dial, login[a]).emp = work[h].emp
        BY <4>1, WorkType, WorkFields DEF Types0
      <4> QED  BY <3>1, <4>2, GotoEffect
    <3> QED  BY <1>3, <3>1, GotoEffect DEF CreateSeek
  <2>4. \A e \in Staff : Creating(e) => Creating(e)'
    BY <2>2, <2>3 DEF Creating
  <2> QED  BY <1>1, <2>1, <2>4 DEF Staff, Here
<1>4. ASSUME NEW h \in Handlers, CreateOpen(h) PROVE LoginExplained'
  <2>1. UNCHANGED <<phone, user, refused>> /\ pc[h] = "open" /\ cut \subseteq cut'
    BY <1>4 DEF CreateOpen
  <2>2. \A g \in Handlers : g # h => pc'[g] = pc[g] /\ work'[g] = work[g]
    BY <1>4, GotoEffect DEF CreateOpen, Done
  <2>3. \/ work[h].emp \in cut'
        \/ pc'[h] = "link" /\ work'[h].emp = work[h].emp
    <3>1. ASSUME NEW a \in Accounts,
                 Goto(h, "link", Work(work[h].emp, a, work[h].dial, work[h].dial))
          PROVE  pc'[h] = "link" /\ work'[h].emp = work[h].emp
      <4>1. Work(work[h].emp, a, work[h].dial, work[h].dial).emp = work[h].emp
        BY WorkType, WorkFields DEF Types0
      <4> QED  BY <3>1, <4>1, GotoEffect
    <3> QED  BY <1>4, <3>1 DEF CreateOpen
  <2>4. \A e \in Staff : Creating(e) => Creating(e)' \/ e \in cut'
    BY <2>2, <2>3 DEF Creating
  <2> QED  BY <1>1, <2>1, <2>4 DEF Staff, Here
<1>5. ASSUME NEW h \in Handlers, CreateLink(h) PROVE LoginExplained'
  <2>1. UNCHANGED <<phone, cut, refused>> /\ pc[h] = "link" /\ Done(h)
    BY <1>5 DEF CreateLink
  <2>2. work[h].acct # NoAccount /\ work[h].emp \in Employees
    BY <2>1 DEF Types0, TypeOK, Place
  <2>3. user' = IF Here(work[h].emp) THEN [user EXCEPT ![work[h].emp] = work[h].acct] ELSE user
    BY <1>5 DEF CreateLink
  <2>4. /\ \A e \in Employees : user'[e] = NoAccount => user[e] = NoAccount
        /\ Here(work[h].emp) => user'[work[h].emp] # NoAccount
    BY <2>2, <2>3 DEF Types0, TypeOK
  <2>5. \A e \in Staff : Creating(e) => Creating(e)' \/ e = work[h].emp
    BY <2>1, DoneStill DEF Creating
  <2> QED  BY <1>1, <2>1, <2>4, <2>5 DEF Staff, Here
<1>6. ASSUME NEW h \in Handlers, UpdateStore(h) \/ UpdateFollow(h) \/ DeleteEmployee(h) \/ DeleteAccount(h)
      PROVE  LoginExplained'
  <2>1. UNCHANGED <<user, cut, refused>> /\ pc[h] \in {"change", "follow", "drop", "close"}
    BY <1>6 DEF UpdateStore, UpdateFollow, DeleteEmployee, DeleteAccount, history
  <2>2. Done(h) \/ \E to, w : Goto(h, to, w)
    BY <1>6 DEF UpdateStore, UpdateFollow, DeleteEmployee, DeleteAccount
  <2>3. \A e \in Staff : Creating(e) => Creating(e)'
    BY <2>1, <2>2, DoneStill, GotoEffect DEF Creating
  <2>4. Staff' \subseteq Staff
    <3>1. CASE phone' = phone
      BY <3>1 DEF Staff, Here
    <3>2. CASE phone' = [phone EXCEPT ![work[h].emp] = NoPhone]
      BY <3>2 DEF Staff, Here, Types0, TypeOK
    <3>3. CASE Here(work[h].emp) /\ phone' = [phone EXCEPT ![work[h].emp] = work[h].dial]
      BY <3>3 DEF Staff, Here, Types0, TypeOK
    <3> QED  BY <1>6, <3>1, <3>2, <3>3 DEF UpdateStore, UpdateFollow, DeleteEmployee, DeleteAccount
  <2> QED  BY <1>1, <2>1, <2>3, <2>4
<1>7. ASSUME NEW h \in Handlers, Fail(h) PROVE LoginExplained'
  <2>1. /\ UNCHANGED <<phone, user, refused>> /\ Done(h)
        /\ cut' = IF pc[h] \in {"seek", "open", "link"} THEN cut \cup {work[h].emp} ELSE cut
    BY <1>7 DEF Fail, docs
  <2>2. \A e \in Staff : Creating(e) => Creating(e)' \/ e \in cut'
    BY <2>1, DoneStill DEF Creating
  <2> QED  BY <1>1, <2>1, <2>2 DEF Staff, Here
<1>8. ASSUME NEW h \in Handlers, Receive(h) PROVE LoginExplained'
  <2>1. UNCHANGED <<docs, history>> /\ pc[h] = "idle" /\ \E to, w : Goto(h, to, w)
    BY <1>8 DEF Receive, CreateCount, UpdateRead, DeleteRead, Start, Goto
  <2>2. \A e \in Staff : Creating(e) => Creating(e)'
    BY <2>1, GotoEffect DEF Creating
  <2> QED  BY <1>1, <2>1, <2>2 DEF Staff, Here, docs, history
<1>9. CASE UNCHANGED <<phone, user, pc, work, cut, refused>>
  BY <1>9 DEF LoginExplained, Staff, Here, Creating
<1>10. ASSUME Serve PROVE LoginExplained'
  BY <1>9, <1>10 DEF Serve, ChangeRole, CreateOwner, local, history
<1>11. ASSUME NEW h \in Handlers, Receive(h) \/ Resume(h) \/ Fail(h) PROVE LoginExplained'
  BY <1>2, <1>3, <1>4, <1>5, <1>6, <1>7, <1>8, <1>11 DEF Resume
<1> QED  BY <1>9, <1>10, <1>11 DEF Next, vars, docs, local, history

\* An employee without an account is being created, or its creation failed or
\* was refused half way: no other handler takes the account away.
THEOREM CreatingCorrect == Spec => []LoginExplained
BY CreatingInit, CreatingNext, LinksInvariant, TypesInvariant, PTL DEF Spec

\* A handler whose count is not out of date still has room.
QuotaKnown ==
    /\ IsFiniteSet(hired)
    /\ QuotaExplained
    /\ \A h \in Handlers : pc[h] = "store" /\ h \notin outrun => Cardinality(Staff) < MaxEmployees

LEMMA PartFinite ==
    ASSUME NEW S, IsFiniteSet(S), NEW T, T \subseteq S
    PROVE  IsFiniteSet(T) /\ Cardinality(T) \in Nat
BY FS_Subset, FS_CardinalityType

LEMMA QuotaInit == Init => QuotaKnown
<1> SUFFICES ASSUME Init PROVE QuotaKnown
  OBVIOUS
<1>1. hired = {} /\ Staff = {} /\ Staff \ crowded = {}
  BY DEF Init, Staff, Here
<1>2. IsFiniteSet({}) /\ Cardinality({}) = 0
  BY FS_EmptySet
<1> QED  BY <1>1, <1>2, StaffingAssumption DEF Init, QuotaKnown, QuotaExplained

LEMMA QuotaNext == Types0 /\ Types0' /\ QuotaKnown /\ [Next]_vars => QuotaKnown'
<1> SUFFICES ASSUME Types0, Types0', QuotaKnown, [Next]_vars PROVE QuotaKnown'
  OBVIOUS
<1> USE StaffingAssumption
<1>0. /\ IsFiniteSet(Staff) /\ Cardinality(Staff) \in Nat
      /\ IsFiniteSet(Staff \ crowded) /\ Cardinality(Staff \ crowded) \in Nat
      /\ Cardinality(Staff \ crowded) <= MaxEmployees
  <2>1. Staff \subseteq hired /\ (Staff \ crowded) \subseteq hired
    BY DEF Staff, Here, Types0, Documents
  <2> QED  BY <2>1, PartFinite DEF QuotaKnown, QuotaExplained
<1>a. ASSUME IsFiniteSet(hired')
      PROVE  Cardinality(Staff') \in Nat /\ Cardinality((Staff \ crowded)') \in Nat
  <2>1. Staff' \subseteq hired' /\ (Staff \ crowded)' \subseteq hired'
    BY DEF Staff, Here, Types0, Documents
  <2> QED  BY <1>a, <2>1, PartFinite
\* Nobody is hired, and nobody counts.
<1>1. ASSUME Staff' \subseteq Staff, UNCHANGED <<hired, crowded>>,
             \A g \in Handlers : pc'[g] = "store" /\ g \notin outrun' =>
                pc[g] = "store" /\ g \notin outrun
      PROVE  QuotaKnown'
  <2>0. IsFiniteSet(hired')
    BY <1>1 DEF QuotaKnown
  <2>1. Cardinality(Staff') \in Nat /\ Cardinality((Staff \ crowded)') \in Nat
    BY <1>a, <2>0
  <2>2. /\ Cardinality(Staff') <= Cardinality(Staff)
        /\ Cardinality((Staff \ crowded)') <= Cardinality(Staff \ crowded)
    BY <1>0, <1>1, FS_Subset
  <2>3. Cardinality((Staff \ crowded)') <= MaxEmployees
    BY <1>0, <2>1, <2>2
  <2>4. \A g \in Handlers : pc'[g] = "store" /\ g \notin outrun' => Cardinality(Staff') < MaxEmployees
    BY <1>0, <1>1, <2>1, <2>2 DEF QuotaKnown
  <2> QED  BY <2>0, <2>3, <2>4 DEF QuotaKnown, QuotaExplained
<1>2. ASSUME NEW h \in Handlers, NEW p \in Phones, CreateCount(h, p) PROVE QuotaKnown'
  <2>1. /\ Cardinality(Staff) < MaxEmployees /\ UNCHANGED <<docs, history>>
        /\ \E w : Goto(h, "store", w)
    BY <1>2 DEF CreateCount, Start, Goto
  <2>2. Staff' = Staff /\ hired' = hired /\ crowded' = crowded /\ outrun' = outrun
    BY <2>1 DEF Staff, Here, docs, history
  <2>3. \A g \in Handlers : g # h => pc'[g] = pc[g]
    BY <2>1, GotoEffect
  <2> QED  BY <2>1, <2>2, <2>3 DEF QuotaKnown, QuotaExplained
<1>3. ASSUME NEW h \in Handlers, CreateStore(h) PROVE QuotaKnown'
  <2>1. pc[h] = "store" /\ (Done(h) \/ \E w : Goto(h, "seek", w))
    BY <1>3 DEF CreateStore
  <2>2. pc'[h] # "store" /\ \A g \in Handlers : g # h => pc'[g] = pc[g]
    BY <2>1, DoneStill, GotoEffect
  <2>3. CASE UNCHANGED <<hired, phone, crowded>> /\ outrun' = outrun \ {h}
    <3>1. Staff' \subseteq Staff
      BY <2>3 DEF Staff, Here
    <3>2. \A g \in Handlers : pc'[g] = "store" /\ g \notin outrun' =>
             pc[g] = "store" /\ g \notin outrun
      BY <2>2, <2>3
    <3> QED  BY <1>1, <2>3, <3>1, <3>2
  <2>4. ASSUME NEW e \in Employees \ hired, hired' = hired \cup {e},
               phone' = [phone EXCEPT ![e] = work[h].dial],
               crowded' = IF h \in outrun THEN crowded \cup {e} ELSE crowded,
               outrun' = (outrun \cup {g \in Handlers : pc[g] = "store"}) \ {h}
        PROVE  QuotaKnown'
    <3>1. Staff' \subseteq Staff \cup {e}
      BY <2>4 DEF Staff, Here, Types0, TypeOK
    <3>2. IsFiniteSet(hired')
      BY <2>4, FS_AddElement DEF QuotaKnown
    <3>3. \A g \in Handlers : ~(pc'[g] = "store" /\ g \notin outrun')
      BY <2>2, <2>4
    <3>4. Cardinality((Staff \ crowded)') \in Nat
      BY <1>a, <3>2
    <3>5. CASE h \in outrun
      <4>1. (Staff \ crowded)' \subseteq Staff \ crowded
        BY <2>4, <3>1, <3>5
      <4>2. Cardinality((Staff \ crowded)') <= Cardinality(Staff \ crowded)
        BY <1>0, <4>1, FS_Subset
      <4> QED  BY <1>0, <3>2, <3>3, <3>4, <4>2 DEF QuotaKnown, QuotaExplained
    <3>6. CASE h \notin outrun
      <4>1. Cardinality(Staff) < MaxEmployees
        BY <2>1, <3>6 DEF QuotaKnown
      <4>2. /\ IsFiniteSet(Staff \cup {e}) /\ Cardinality(Staff \cup {e}) \in Nat
            /\ Cardinality(Staff \cup {e}) <= Cardinality(Staff) + 1
        <5>1. /\ IsFiniteSet(Staff \cup {e})
              /\ Cardinality(Staff \cup {e}) =
                   IF e \in Staff THEN Cardinality(Staff) ELSE Cardinality(Staff) + 1
          BY <1>0, FS_AddElement
        <5> QED  BY <1>0, <5>1
      <4>3. Cardinality((Staff \ crowded)') <= Cardinality(Staff \cup {e})
        <5>1. (Staff \ crowded)' \subseteq Staff \cup {e}
          BY <3>1
        <5> QED  BY <4>2, <5>1, FS_Subset
      <4>4. Cardinality((Staff \ crowded)') <= MaxEmployees
        BY <1>0, <3>4, <4>1, <4>2, <4>3
      <4> QED  BY <3>2, <3>3, <4>4 DEF QuotaKnown, QuotaExplained
    <3> QED  BY <3>5, <3>6
  <2> QED  BY <1>3, <2>3, <2>4 DEF CreateStore
\* A step of any other handler.
<1>4. ASSUME NEW h \in Handlers, NEW to, to # "store", NEW w, Goto(h, to, w),
             UNCHANGED <<hired, crowded>>, outrun' = outrun \/ outrun' = outrun \ {h},
             Staff' \subseteq Staff
      PROVE  QuotaKnown'
  <2>1. \A g \in Handlers : pc'[g] = "store" => g # h /\ pc[g] = "store"
    BY <1>4, GotoEffect
  <2>2. \A g \in Handlers : g # h /\ g \notin outrun' => g \notin outrun
    BY <1>4
  <2> QED  BY <1>1, <1>4, <2>1, <2>2
<1>5. ASSUME NEW h \in Handlers, UpdateStore(h) \/ DeleteEmployee(h) PROVE QuotaKnown'
  <2>1. Staff' \subseteq Staff
    <3>1. CASE phone' = phone
      BY <3>1 DEF Staff, Here
    <3>2. CASE phone' = [phone EXCEPT ![work[h].emp] = NoPhone]
      BY <3>2 DEF Staff, Here, Types0, TypeOK
    <3>3. CASE Here(work[h].emp) /\ phone' = [phone EXCEPT ![work[h].emp] = work[h].dial]
      BY <3>3 DEF Staff, Here, Types0, TypeOK
    <3> QED  BY <1>5, <3>1, <3>2, <3>3 DEF UpdateStore, DeleteEmployee
  <2>2. /\ UNCHANGED <<hired, crowded, outrun>>
        /\ \E w : Goto(h, "idle", w) \/ Goto(h, "follow", w) \/ Goto(h, "close", w)
    BY <1>5 DEF UpdateStore, DeleteEmployee, Done
  <2> QED  BY <1>4, <2>1, <2>2
<1>6. ASSUME NEW h \in Handlers, UNCHANGED <<hired, phone, crowded>>,
             outrun' = outrun \/ outrun' = outrun \ {h},
             \E to, w : to # "store" /\ Goto(h, to, w)
      PROVE  QuotaKnown'
  BY <1>4, <1>6 DEF Staff, Here
<1>7. ASSUME NEW h \in Handlers, Receive(h) PROVE QuotaKnown'
  <2>1. ASSUME NEW e \in Employees, DeleteRead(h, e) \/ \E p \in Phones : UpdateRead(h, e, p)
        PROVE  QuotaKnown'
    <3>1. UNCHANGED <<docs, history>> /\ \E w : Goto(h, "drop", w) \/ Goto(h, "change", w)
      BY <2>1 DEF UpdateRead, DeleteRead, Start, Goto
    <3> QED  BY <1>6, <3>1 DEF docs, history
  <2> QED  BY <1>2, <1>7, <2>1 DEF Receive
<1>8. ASSUME NEW h \in Handlers, CreateSeek(h) PROVE QuotaKnown'
  <2>1. UNCHANGED <<docs, history>> /\ \E w : Goto(h, "link", w) \/ Goto(h, "open", w)
    BY <1>8 DEF CreateSeek
  <2> QED  BY <1>6, <2>1 DEF docs, history
<1>9. ASSUME NEW h \in Handlers, CreateOpen(h) PROVE QuotaKnown'
  <2>1. /\ UNCHANGED <<hired, phone, crowded, outrun>>
        /\ \E w : Goto(h, "link", w) \/ Goto(h, "idle", w)
    BY <1>9 DEF CreateOpen, Done
  <2> QED  BY <1>6, <2>1
<1>10. ASSUME NEW h \in Handlers, CreateLink(h) \/ UpdateFollow(h) \/ DeleteAccount(h) \/ Fail(h)
       PROVE  QuotaKnown'
  <2>1. /\ UNCHANGED <<hired, phone, crowded>>
        /\ outrun' = outrun \/ outrun' = outrun \ {h}
        /\ Goto(h, "idle", NoWork)
    BY <1>10 DEF CreateLink, UpdateFollow, DeleteAccount, Fail, Done, docs, history
  <2> QED  BY <1>6, <2>1
<1>11. CASE UNCHANGED <<hired, phone, crowded, outrun, pc>>
  BY <1>1, <1>11 DEF Staff, Here
<1>12. ASSUME Serve PROVE QuotaKnown'
  BY <1>11, <1>12 DEF Serve, ChangeRole, CreateOwner, local, history
<1>13. ASSUME NEW h \in Handlers, Receive(h) \/ Resume(h) \/ Fail(h) PROVE QuotaKnown'
  BY <1>3, <1>5, <1>7, <1>8, <1>9, <1>10, <1>13 DEF Resume
<1> QED  BY <1>11, <1>12, <1>13 DEF Next, vars, docs, local, history

\* However many requests run at once, the company is over its quota by those
\* employees only that were created on an outdated count.
THEOREM QuotaCorrect == Spec => []QuotaExplained
<1>1. QuotaKnown => QuotaExplained
  BY DEF QuotaKnown
<1>2. Spec => []QuotaKnown
  BY QuotaInit, QuotaNext, TypesInvariant, PTL DEF Spec
<1> QED  BY <1>1, <1>2, PTL
-----------------------------------------------------------------------------
(* One handler at a time.                                                   *)

OneAtATime == \A g, h \in Handlers : g = h

LEMMA CountsHold ==
    ASSUME OneAtATime, outrun = {}, crowded = {}, [Next]_vars
    PROVE  outrun' = {} /\ crowded' = {}
<1>1. ASSUME NEW h \in Handlers, CreateStore(h) PROVE outrun' = {} /\ crowded' = {}
  BY <1>1 DEF CreateStore, OneAtATime
<1>2. CASE UNCHANGED <<outrun, crowded>>
  BY <1>2
<1>3. ASSUME Serve PROVE UNCHANGED <<outrun, crowded>>
  BY <1>3 DEF Serve, ChangeRole, CreateOwner, history
<1>4. ASSUME NEW h \in Handlers, Receive(h) PROVE UNCHANGED <<outrun, crowded>>
  BY <1>4 DEF Receive, CreateCount, UpdateRead, DeleteRead, Start, history
<1>5. ASSUME NEW h \in Handlers,
             \/ CreateSeek(h) \/ CreateOpen(h) \/ CreateLink(h) \/ UpdateStore(h)
             \/ UpdateFollow(h) \/ DeleteEmployee(h) \/ DeleteAccount(h)
      PROVE  UNCHANGED <<outrun, crowded>>
  BY <1>5 DEF CreateSeek, CreateOpen, CreateLink, UpdateStore, UpdateFollow, DeleteEmployee,
              DeleteAccount, history
<1>6. ASSUME NEW h \in Handlers, Fail(h) PROVE outrun' = {} /\ crowded' = {}
  BY <1>6 DEF Fail
<1> QED
  BY <1>1, <1>2, <1>3, <1>4, <1>5, <1>6 DEF Next, Resume, vars, history

\* Served one at a time, and even when handlers fail, the company never has more
\* employees than its plan allows (create, countByTenant).
THEOREM QuotaAlone == OneAtATime /\ Spec => [](Cardinality(Staff) <= MaxEmployees)
<1> SUFFICES ASSUME OneAtATime PROVE Spec => [](Cardinality(Staff) <= MaxEmployees)
  OBVIOUS
<1>1. Init => outrun = {} /\ crowded = {}
  BY DEF Init
<1>2. (outrun = {} /\ crowded = {}) /\ [Next]_vars => (outrun = {} /\ crowded = {})'
  BY CountsHold
<1>3. crowded = {} /\ QuotaExplained => Cardinality(Staff) <= MaxEmployees
  <2>1. Staff \ {} = Staff
    OBVIOUS
  <2> QED  BY <2>1 DEF QuotaExplained
<1> QED  BY <1>1, <1>2, <1>3, QuotaCorrect, PTL DEF Spec
=============================================================================
