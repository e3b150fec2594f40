------------------------------ MODULE Staffing ------------------------------
(***************************************************************************)
(* Employees and the user accounts they log in with: EmployeesService,     *)
(* which writes the employees and the users collection, and                *)
(* CompaniesService.createOwner, which adds accounts without employees.    *)
(*                                                                         *)
(* Handlers interleave between awaited database operations, as in          *)
(* LeaveRequests.  An employee and the account linked to it are two        *)
(* documents, written one after the other.  Both collections keep the text *)
(* of a phone unique within the company, each for itself.                  *)
(*                                                                         *)
(* Left out: the status of an employee (see PayrollPeriod), employee       *)
(* codes, passwords and the fields no rule here looks at.                  *)
(***************************************************************************)
EXTENDS Integers, FiniteSets

CONSTANTS
    Handlers,       \* the requests the server may be serving at the same time
    Employees,      \* identities of employee documents
    Accounts,       \* identities of user documents
    Phones,         \* the texts phone numbers are entered as
    LineOf,         \* [Phones -> the number the text means]: phoneVariants
    MaxEmployees,   \* maxEmployees of the company's plan
    NoEmployee, NoAccount, NoPhone

ASSUME StaffingAssumption ==
    /\ NoEmployee \notin Employees
    /\ NoAccount \notin Accounts
    /\ NoPhone \notin Phones
    /\ DOMAIN LineOf = Phones
    /\ MaxEmployees \in Nat

-----------------------------------------------------------------------------
(* Data *)

\* "EMPLOYEE" stands for the roles of ASSIGNABLE_ROLES.
Roles == {"COMPANY_OWNER", "EMPLOYEE"}

PCs == {"idle", "store", "seek", "open", "link", "change", "follow", "drop", "close"}

\* The local variables of a handler: the employee, the account, the phone of
\* the dto and the phone it read in the employee or the account.
Works == [emp : Employees \cup {NoEmployee}, acct : Accounts \cup {NoAccount},
          dial : Phones \cup {NoPhone}, seen : Phones \cup {NoPhone}]
Work(e, a, p, q) == [emp |-> e, acct |-> a, dial |-> p, seen |-> q]
NoWork == Work(NoEmployee, NoAccount, NoPhone, NoPhone)

-----------------------------------------------------------------------------
VARIABLES
    hired,          \* employees whose document has been created
    phone,          \* [Employees -> phone]; NoPhone: no document (any more)
    user,           \* [Employees -> userId]; kept when the document is deleted
    opened,         \* accounts whose document has been created
    login,          \* [Accounts -> phone]; NoPhone: no document (any more)
    role,           \* [Accounts -> Roles]
    pc,             \* [Handlers -> PCs]: the operation the handler awaits next
    work,           \* [Handlers -> Works]
    \* history, for the properties only
    owners,         \* accounts that createOwner() made
    outrun,         \* handlers whose count of employees is out of date
    crowded,        \* employees created by such a handler
    muddled,        \* accounts a race, a failure or another spelling touched
    cut,            \* employees whose creation was abandoned half way
    refused         \* employees whose creation ended at assertCanAssignRole

docs == <<hired, phone, user, opened, login, role>>
local == <<pc, work>>
history == <<owners, outrun, crowded, muddled, cut, refused>>
vars == <<docs, local, history>>

-----------------------------------------------------------------------------
(* What the queries see *)

Here(e) == phone[e] # NoPhone
Staff == {e \in Employees : Here(e)}        \* countByTenant
Open(a) == login[a] # NoPhone

\* findByPhoneAndCompany: any spelling of the number will do.
Found(p) == {a \in Accounts : Open(a) /\ LineOf[login[a]] = LineOf[p]}

\* populate('userId'): an account that is gone reads as none.
Populated(e) == IF user[e] # NoAccount /\ Open(user[e]) THEN user[e] ELSE NoAccount

\* The unique indexes on the text of the phone.
PhoneTaken(e, p) == \E f \in Employees \ {e} : phone[f] = p
LoginTaken(a, p) == \E b \in Accounts \ {a} : login[b] = p

-----------------------------------------------------------------------------
(* Handlers *)

Start(h, to, w) ==
    /\ pc[h] = "idle"
    /\ pc' = [pc EXCEPT ![h] = to]
    /\ work' = [work EXCEPT ![h] = w]
    /\ UNCHANGED <<docs, history>>

Goto(h, to, w) ==
    /\ pc' = [pc EXCEPT ![h] = to]
    /\ work' = [work EXCEPT ![h] = w]

Done(h) == Goto(h, "idle", NoWork)

-----------------------------------------------------------------------------
(* EmployeesService.create *)

\* The quota has room ...
CreateCount_OffByOne(h, p) ==
    /\ Cardinality(Staff) <= MaxEmployees
    /\ Start(h, "store", Work(NoEmployee, NoAccount, p, NoPhone))
CreateCount(h, p) ==
    /\ Cardinality(Staff) < MaxEmployees
    /\ Start(h, "store", Work(NoEmployee, NoAccount, p, NoPhone))

\* ... the employee is stored unless the phone is taken; and then the actor
\* turns out not to be allowed to give the role, or the account comes next.
CreateStore(h) ==
    LET p == work[h].dial IN
    /\ pc[h] = "store"
    /\ \/ /\ PhoneTaken(NoEmployee, p)
          /\ Done(h)
          /\ outrun' = outrun \ {h}
          /\ UNCHANGED <<hired, phone, crowded, refused>>
       \/ /\ ~PhoneTaken(NoEmployee, p)
          /\ \E e \in Employees \ hired :
               /\ hired' = hired \cup {e}
               /\ phone' = [phone EXCEPT ![e] = p]
               /\ crowded' = IF h \in outrun THEN crowded \cup {e} ELSE crowded
               /\ \/ Goto(h, "seek", Work(e, NoAccount, p, NoPhone))
                     /\ UNCHANGED refused
                  \/ Done(h) /\ refused' = refused \cup {e}
          /\ outrun' = (outrun \cup {g \in Handlers : pc[g] = "store"}) \ {h}
    /\ UNCHANGED <<user, opened, login, role, owners, muddled, cut>>

\* Is there an account with this phone, in any spelling?
CreateSeek_Forgotten(h) ==
    /\ pc[h] = "seek"
    /\ \/ Found(work[h].dial) # {} /\ Done(h)
       \/ Found(work[h].dial) = {} /\ Goto(h, "open", work[h])
    /\ UNCHANGED <<docs, history>>
CreateSeek(h) ==
    LET w == work[h] IN
    /\ pc[h] = "seek"
    /\ \/ \E a \in Found(w.dial) :
            Goto(h, "link", Work(w.emp, a, w.dial, login[a]))
       \/ Found(w.dial) = {} /\ Goto(h, "open", w)
    /\ UNCHANGED <<docs, history>>

\* If not, one is created; the index may refuse it by now.
CreateOpen(h) ==
    LET w == work[h] IN
    /\ pc[h] = "open"
    /\ \/ /\ LoginTaken(NoAccount, w.dial)
          /\ cut' = cut \cup {w.emp}
          /\ Done(h)
          /\ UNCHANGED <<opened, login, role>>
       \/ /\ ~LoginTaken(NoAccount, w.dial)
          /\ \E a \in Accounts \ opened :
               /\ opened' = opened \cup {a}
               /\ login' = [login EXCEPT ![a] = w.dial]
               /\ role' = [role EXCEPT ![a] = "EMPLOYEE"]
               /\ Goto(h, "link", Work(w.emp, a, w.dial, w.dial))
          /\ UNCHANGED cut
    /\ UNCHANGED <<hired, phone, user, owners, outrun, crowded, muddled, refused>>

\* Another handler is about to change or delete the account.
Pending(h, a) ==
    \E g \in Handlers \ {h} : pc[g] \in {"follow", "drop", "close"} /\ work[g].acct = a

\* The account is linked, whatever has become of it and of the employee.
CreateLink(h) ==
    LET e == work[h].emp
        a == work[h].acct
        untouched == /\ work[h].seen = work[h].dial /\ phone[e] = work[h].dial
                     /\ login[a] = work[h].seen /\ ~Pending(h, a)
    IN
    /\ pc[h] = "link"
    /\ user' = IF Here(e) THEN [user EXCEPT ![e] = a] ELSE user
    /\ muddled' = IF untouched THEN muddled ELSE muddled \cup {a}
    /\ Done(h)
    /\ UNCHANGED <<hired, phone, opened, login, role, owners, outrun, crowded, cut, refused>>

-----------------------------------------------------------------------------
(* EmployeesService.update, softDelete, changeRole *)

\* update(): a phone that is new for the employee is on no account.
UpdateRead(h, e, p) ==
    /\ Here(e)
    /\ p # phone[e] => ~LoginTaken(NoAccount, p)
    /\ Start(h, "change", Work(e, Populated(e), p, phone[e]))

\* The account linked to the employee, if what the handler read is out of date.
Outdated(h) ==
    LET w == work[h] IN
    IF phone[w.emp] = w.seen /\ Populated(w.emp) = w.acct THEN {} ELSE {user[w.emp]}

\* The employee is written first ...
UpdateStore_NoSync(h) ==
    LET w == work[h] IN
    /\ pc[h] = "change"
    /\ ~PhoneTaken(w.emp, w.dial)
    /\ phone' = IF Here(w.emp) THEN [phone EXCEPT ![w.emp] = w.dial] ELSE phone
    /\ muddled' = muddled \cup (Outdated(h) \ {NoAccount})
    /\ Done(h)
    /\ UNCHANGED <<hired, user, opened, login, role, owners, outrun, crowded, cut, refused>>
UpdateStore(h) ==
    LET w == work[h] IN
    /\ pc[h] = "change"
    /\ \/ /\ Here(w.emp) /\ PhoneTaken(w.emp, w.dial)
          /\ Done(h)
          /\ UNCHANGED <<phone, muddled>>
       \/ /\ ~(Here(w.emp) /\ PhoneTaken(w.emp, w.dial))
          /\ phone' = IF Here(w.emp) THEN [phone EXCEPT ![w.emp] = w.dial] ELSE phone
          /\ muddled' = muddled \cup (Outdated(h) \ {NoAccount})
          /\ IF w.acct # NoAccount /\ w.dial # w.seen
             THEN Goto(h, "follow", w)
             ELSE Done(h)
    /\ UNCHANGED <<hired, user, opened, login, role, owners, outrun, crowded, cut, refused>>

\* ... then its account, unless the index refuses it.
UpdateFollow(h) ==
    LET w == work[h]
        clash == Open(w.acct) /\ LoginTaken(w.acct, w.dial)
    IN
    /\ pc[h] = "follow"
    /\ login' = IF Open(w.acct) /\ ~clash THEN [login EXCEPT ![w.acct] = w.dial] ELSE login
    /\ muddled' = IF clash \/ phone[w.emp] # w.dial THEN muddled \cup {w.acct} ELSE muddled
    /\ Done(h)
    /\ UNCHANGED <<hired, phone, user, opened, role, owners, outrun, crowded, cut, refused>>

\* softDelete(): the link is read ...
DeleteRead(h, e) ==
    /\ Here(e)
    /\ Start(h, "drop", Work(e, user[e], NoPhone, NoPhone))

\* ... the employee is deleted ...
DeleteEmployee_KeepsAccount(h) ==
    /\ pc[h] = "drop"
    /\ phone' = [phone EXCEPT ![work[h].emp] = NoPhone]
    /\ Done(h)
    /\ UNCHANGED <<hired, user, opened, login, role, history>>
DeleteEmployee(h) ==
    LET w == work[h] IN
    /\ pc[h] = "drop"
    /\ phone' = [phone EXCEPT ![w.emp] = NoPhone]
    /\ muddled' = muddled \cup ({user[w.emp]} \ {w.acct, NoAccount})
    /\ IF w.acct = NoAccount THEN Done(h) ELSE Goto(h, "close", w)
    /\ UNCHANGED <<hired, user, opened, login, role, owners, outrun, crowded, cut, refused>>

\* ... and the account with it, whoever uses it by now.
DeleteAccount(h) ==
    /\ pc[h] = "close"
    /\ login' = [login EXCEPT ![work[h].acct] = NoPhone]
    /\ Done(h)
    /\ UNCHANGED <<hired, phone, user, opened, role, history>>

\* changeRole(): one update of the account.
ChangeRole_ByPhone(e) ==
    /\ Here(e)
    /\ role' = [a \in Accounts |-> IF login[a] = phone[e] THEN "EMPLOYEE" ELSE role[a]]
    /\ UNCHANGED <<hired, phone, user, opened, login, local, history>>
ChangeRole(e) ==
    /\ Here(e)
    /\ Populated(e) # NoAccount
    /\ role' = [role EXCEPT ![user[e]] = "EMPLOYEE"]
    /\ UNCHANGED <<hired, phone, user, opened, login, local, history>>

\* CompaniesService.createOwner(): its check is the one of the unique index.
CreateOwner_NotInEnum(p) ==
    /\ ~LoginTaken(NoAccount, p)
    /\ \E a \in Accounts \ opened :
         /\ opened' = opened \cup {a}
         /\ login' = [login EXCEPT ![a] = p]
         /\ role' = [role EXCEPT ![a] = "OWNER"]
         /\ owners' = owners \cup {a}
    /\ UNCHANGED <<hired, phone, user, local, outrun, crowded, muddled, cut, refused>>
CreateOwner(p) ==
    /\ ~LoginTaken(NoAccount, p)
    /\ \E a \in Accounts \ opened :
         /\ opened' = opened \cup {a}
         /\ login' = [login EXCEPT ![a] = p]
         /\ role' = [role EXCEPT ![a] = "COMPANY_OWNER"]
         /\ owners' = owners \cup {a}
    /\ UNCHANGED <<hired, phone, user, local, outrun, crowded, muddled, cut, refused>>

\* The awaited operation throws, or the process dies: the rest never runs.
Fail(h) ==
    /\ pc[h] # "idle"
    /\ cut' = IF pc[h] \in {"seek", "open", "link"} THEN cut \cup {work[h].emp} ELSE cut
    /\ muddled' = IF pc[h] \in {"link", "follow", "close"}
                  THEN muddled \cup {work[h].acct} ELSE muddled
    /\ outrun' = outrun \ {h}
    /\ Done(h)
    /\ UNCHANGED <<docs, owners, crowded, refused>>

-----------------------------------------------------------------------------
(* The specification *)

Init ==
    /\ hired = {} /\ opened = {}
    /\ phone = [e \in Employees |-> NoPhone]
    /\ user = [e \in Employees |-> NoAccount]
    /\ login = [a \in Accounts |-> NoPhone]
    /\ role = [a \in Accounts |-> "EMPLOYEE"]
    /\ pc = [h \in Handlers |-> "idle"]
    /\ work = [h \in Handlers |-> NoWork]
    /\ owners = {} /\ outrun = {} /\ crowded = {}
    /\ muddled = {} /\ cut = {} /\ refused = {}

\* A client sends a request; the handler runs up to its first write.
Receive(h) ==
    \/ \E p \in Phones : CreateCount(h, p)
    \/ \E e \in Employees, p \in Phones : UpdateRead(h, e, p)
    \/ \E e \in Employees : DeleteRead(h, e)

\* An awaited operation returns and the handler goes on.
Resume(h) ==
    \/ CreateStore(h)
    \/ CreateSeek(h)
    \/ CreateOpen(h)
    \/ CreateLink(h)
    \/ UpdateStore(h)
    \/ UpdateFollow(h)
    \/ DeleteEmployee(h)
    \/ DeleteAccount(h)

\* Requests that are served with a single write.
Serve ==
    \/ \E e \in Employees : ChangeRole(e)
    \/ \E p \in Phones : CreateOwner(p)

Next == Serve \/ \E h \in Handlers : Receive(h) \/ Resume(h) \/ Fail(h)
UndisturbedNext == Serve \/ \E h \in Handlers : Receive(h) \/ Resume(h)

Spec == Init /\ [][Next]_vars

\* No operation fails.
UndisturbedSpec == Init /\ [][UndisturbedNext]_vars

-----------------------------------------------------------------------------
(* Properties *)

\* Types of every variable.
TypeOK ==
    /\ hired \subseteq Employees /\ opened \subseteq Accounts
    /\ phone \in [Employees -> Phones \cup {NoPhone}]
    /\ user \in [Employees -> Accounts \cup {NoAccount}]
    /\ login \in [Accounts -> Phones \cup {NoPhone}]
    /\ role \in [Accounts -> Roles]
    /\ pc \in [Handlers -> PCs]
    /\ work \in [Handlers -> Works]
    /\ owners \subseteq Accounts /\ outrun \subseteq Handlers
    /\ crowded \subseteq Employees /\ muddled \subseteq Accounts
    /\ cut \subseteq Employees /\ refused \subseteq Employees

\* create() respects the quota: a company exceeds the limit of its plan by no
\* more than the employees that were created on an outdated count.
QuotaExplained == Cardinality(Staff \ crowded) <= MaxEmployees

\* An employee logs in with the phone on the record (update and create keep
\* the two in step, softDelete takes no account from another employee): the
\* account exists and has that phone, or is about to, unless a race, a
\* failure or another spelling of the number touched it.
LoginFollows ==
    \A e \in Staff :
        user[e] \in Accounts \ muddled =>
            \/ login[user[e]] = phone[e]
            \/ \E h \in Handlers : pc[h] = "follow" /\ work[h].emp = e

\* create() looks for an account before it links one: two employees share an
\* account only if a race, a failure or another spelling touched it.
OneEmployeeEach ==
    \A e, f \in Staff :
        e # f /\ user[e] = user[f] => user[e] \in muddled \cup {NoAccount}

\* softDelete() removes the account with the employee: an account that is not
\* an owner's has an employee, or will have one, or is about to be removed,
\* unless a race, a failure or another spelling touched it.
AccountsBelong ==
    \A a \in Accounts \ (owners \cup muddled) :
        Open(a) =>
            \/ \E e \in Staff : user[e] = a
            \/ \E h \in Handlers : pc[h] \in {"link", "close"} /\ work[h].acct = a

\* Accounts and employees match one to one, as create() links an account and
\* softDelete() removes it, save where something touched the account.
AccountsMatch == OneEmployeeEach /\ AccountsBelong

Creating(e) == \E h \in Handlers : pc[h] \in {"seek", "open", "link"} /\ work[h].emp = e

\* "Auto-create user account - required so employees can always log in"
\* (create-employee.dto.ts): an employee without an account is being created,
\* or the creation failed half way, or was refused after the employee had been
\* stored.
LoginExplained ==
    \A e \in Staff : user[e] = NoAccount => Creating(e) \/ e \in cut \cup refused

\* The same as the comment has it, for servers on which nothing fails.
EmployeesCanLogIn == \A e \in Staff : user[e] = NoAccount => Creating(e)

\* An owner's account keeps its role and is never deleted, unless create()
\* has linked an employee to it (changeRole, softDelete).
OwnerExplained ==
    \A a \in owners :
        \/ Open(a) /\ role[a] = "COMPANY_OWNER"
        \/ \E e \in hired : user[e] = a
=============================================================================
