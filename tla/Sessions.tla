------------------------------ MODULE Sessions ------------------------------
(***************************************************************************)
(* AuthService: logging in, refreshing, logging out and changing the       *)
(* password, which EmployeesService may do as well.  A user document holds *)
(* one password and the hash of one refresh token.  A token is told apart  *)
(* by the password its session began with: refreshing continues a session, *)
(* logging in begins one.                                                  *)
(*                                                                         *)
(* Left out: expiry of tokens (a client that never uses a token), the      *)
(* access token, which no document keeps, and the audit log.               *)
(***************************************************************************)
EXTENDS Serving

CONSTANTS
    Users,          \* the user documents
    Tenants,        \* the companies
    TenantOf,       \* [Users -> company]; NoTenant for a SUPER_ADMIN
    DialOf,         \* [Users -> the number the user logs in with]
    Inactive,       \* users whose isActive is false: no handler writes it
    MaxChanges,     \* bound: how often a password is changed
    NoTenant

ASSUME SessionsAssumption ==
    /\ NoTenant \notin Tenants
    /\ TenantOf \in [Users -> Tenants \cup {NoTenant}]
    /\ DOMAIN DialOf = Users
    /\ Inactive \subseteq Users
    /\ MaxChanges \in Nat

Passwords == 0..MaxChanges      \* the first password, the second, ...
NoSession == -1

SessionPCs == {"idle", "issue", "rehash", "forget"}
SessionWorks == [user : Users, basis : Passwords]
Session(u, b) == [user |-> u, basis |-> b]

VARIABLES
    password,       \* [Users -> Passwords]
    stored,         \* [Users -> password the stored session began with, or NoSession]
    held,           \* refresh tokens clients hold: [user, basis]
    \* history, for the properties only
    excused,        \* handlers whose session a change of password overtook,
                    \* or that an older token brought back
    explained       \* users whose stored session such a handler stored, whose
                    \* change of password stopped half way, or whose password
                    \* EmployeesService set during a session

sessionVars == <<password, stored, held, excused, explained>>

SessionInit ==
    /\ password = [u \in Users |-> 0]
    /\ stored = [u \in Users |-> NoSession]
    /\ held = {}
    /\ excused = {}
    /\ explained = {}

-----------------------------------------------------------------------------
(* AuthService *)

\* Who logs in with a number: the user of the company that was named, or else
\* the SUPER_ADMIN with that number, or else the only user with it.
Candidates(d) == {u \in Users : DialOf[u] = d}
SuperAdmins(d) == {u \in Candidates(d) : TenantOf[u] = NoTenant}
LoginUser(d, c) ==
    IF c # NoTenant THEN {u \in Candidates(d) : TenantOf[u] = c}
    ELSE IF SuperAdmins(d) # {} THEN SuperAdmins(d)
    ELSE IF Cardinality(Candidates(d)) = 1 THEN Candidates(d)
    ELSE {}

\* login(): the password is compared with the one just read ...
LoginRead(h, d, c) ==
    /\ \E u \in LoginUser(d, c) \ Inactive : Enter(h, "issue", Session(u, password[u]))
    /\ UNCHANGED sessionVars

\* ... refresh(): the token is compared with the hash just read.  bcrypt reads
\* 72 bytes, the header of the token and part of its subject, so every token
\* of the user compares equal while some session is stored ...
RefreshRead(h, t) ==
    /\ stored[t.user] # NoSession
    /\ Enter(h, "issue", t)
    /\ excused' = IF t.basis # password[t.user] THEN excused \cup {h} ELSE excused
    /\ UNCHANGED <<password, stored, held, explained>>

\* ... generateAndStoreTokens(): both store the session and hand out its token.
IssueStore(h) ==
    LET t == work[h] IN
    /\ pc[h] = "issue"
    /\ stored' = [stored EXCEPT ![t.user] = t.basis]
    /\ held' = held \cup {t}
    /\ explained' = IF h \in excused THEN explained \cup {t.user}
                                     ELSE explained \ {t.user}
    /\ excused' = excused \ {h}
    /\ Leave(h)
    /\ UNCHANGED password

\* logout()
Logout(h, u) ==
    /\ AtOnce(h)
    /\ stored' = [stored EXCEPT ![u] = NoSession]
    /\ explained' = explained \ {u}
    /\ UNCHANGED <<password, held, excused>>

\* changePassword(): the old password is compared with the one just read, the
\* new one is written, and the stored session is dropped.
ChangeRead(h, u) ==
    /\ Enter(h, "rehash", Session(u, password[u]))
    /\ UNCHANGED sessionVars

ChangeWrite(h) ==
    LET u == work[h].user IN
    /\ pc[h] = "rehash"
    /\ password[u] < MaxChanges
    /\ password' = [password EXCEPT ![u] = @ + 1]
    /\ excused' = excused \cup {g \in Waiting({"issue"}) : work[g].user = u}
    /\ Goto(h, "forget", work[h])
    /\ UNCHANGED <<stored, held, explained>>

ChangeForget_Keep(h) ==
    /\ pc[h] = "forget"
    /\ Leave(h)
    /\ UNCHANGED sessionVars
ChangeForget(h) ==
    LET u == work[h].user IN
    /\ pc[h] = "forget"
    /\ stored' = [stored EXCEPT ![u] = NoSession]
    /\ explained' = explained \ {u}
    /\ Leave(h)
    /\ UNCHANGED <<password, held, excused>>

\* EmployeesService.changePassword(), and create() and update() of an employee
\* who has an account: the password is written, the stored session stays.
SetPassword(h, u) ==
    /\ AtOnce(h)
    /\ TenantOf[u] # NoTenant
    /\ password[u] < MaxChanges
    /\ password' = [password EXCEPT ![u] = @ + 1]
    /\ excused' = excused \cup {g \in Waiting({"issue"}) : work[g].user = u}
    /\ explained' = IF stored[u] # NoSession THEN explained \cup {u} ELSE explained
    /\ UNCHANGED <<stored, held>>

SessionFail(h) ==
    /\ Abandoned(h)
    /\ excused' = excused \ {h}
    /\ explained' = IF pc[h] = "forget" THEN explained \cup {work[h].user} ELSE explained
    /\ UNCHANGED <<password, stored, held>>

SessionNext ==
    \E h \in Handlers :
        \/ \E d \in {DialOf[u] : u \in Users}, c \in Tenants \cup {NoTenant} : LoginRead(h, d, c)
        \/ \E t \in held : RefreshRead(h, t)
        \/ \E u \in Users : Logout(h, u) \/ ChangeRead(h, u) \/ SetPassword(h, u)
        \/ IssueStore(h)
        \/ ChangeWrite(h)
        \/ ChangeForget(h)
        \/ SessionFail(h)

SessionSpec == ServingInit /\ SessionInit /\ [][SessionNext]_<<pc, work, sessionVars>>

-----------------------------------------------------------------------------
(* Properties *)

SessionTypeOK ==
    /\ \A h \in Handlers : /\ pc[h] \in SessionPCs
                           /\ pc[h] # "idle" => work[h] \in SessionWorks
    /\ password \in [Users -> Passwords]
    /\ stored \in [Users -> Passwords \cup {NoSession}]
    /\ held \subseteq SessionWorks
    /\ excused \subseteq Handlers
    /\ explained \subseteq Users

\* "Invalidate all refresh tokens after password change": a session that can
\* be continued began with the present password.  It fails only while the
\* change is between its two writes or was cut there, when the change overtook
\* a login or refresh under way, when a token of an earlier session was
\* presented while a later one was stored, or when EmployeesService, which
\* drops no session, set the password.
SessionsFollowPassword ==
    \A u \in Users :
        \/ stored[u] \in {NoSession, password[u]}
        \/ \E h \in Waiting({"forget"}) : work[h].user = u
        \/ u \in explained

=============================================================================
