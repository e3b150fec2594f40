------------------------------ MODULE Serving ------------------------------
(***************************************************************************)
(* What the components below share: the handlers that serve the requests.  *)
(* Node runs one handler at a time and changes over at every await, so an  *)
(* action is what a handler does from one awaited database operation to    *)
(* the next.  pc names the operation it awaits, work its local variables.  *)
(***************************************************************************)
EXTENDS Integers, FiniteSets, Sequences

CONSTANTS
    Handlers        \* the requests the server may be serving at the same time

VARIABLES
    pc,             \* [Handlers -> the operation the handler awaits, or "idle"]
    work            \* [Handlers -> what the handler has read, or NoWork]

NoWork == <<>>

ServingInit ==
    /\ pc = [h \in Handlers |-> "idle"]
    /\ work = [h \in Handlers |-> NoWork]

\* The handler comes to its next awaited operation ...
Goto(h, to, w) ==
    /\ pc' = [pc EXCEPT ![h] = to]
    /\ work' = [work EXCEPT ![h] = w]

\* ... a new request comes to its first ...
Enter(h, to, w) == pc[h] = "idle" /\ Goto(h, to, w)

\* ... and one answers, or throws.
Leave(h) == Goto(h, "idle", NoWork)

\* An operation done in one go, without a state to come back to.
AtOnce(h) == pc[h] = "idle" /\ UNCHANGED <<pc, work>>

\* The database, or the server, gives up before the awaited operation.
Abandoned(h) == pc[h] # "idle" /\ Leave(h)

\* The handlers waiting at an operation of a set.
Waiting(ops) == {h \in Handlers : pc[h] \in ops}

=============================================================================
