---------------------------- MODULE ShiftRoster ----------------------------
(***************************************************************************)
(* ShiftsService: which shift an employee works from which day on.  An     *)
(* assignment is a document with a first day and, unless it is open-ended, *)
(* a last one.                                                             *)
(*                                                                         *)
(* Left out: the shift documents, whose changes no assignment follows, and *)
(* who may read an assignment.                                             *)
(***************************************************************************)
EXTENDS Serving

CONSTANTS
    Assignments,    \* identities of assignment documents
    ShiftStaff,     \* the employees
    LastDay,        \* bound: the days are 1..LastDay
    ShiftRequests   \* bound: what is asked, for a list of employees, of whom one
                    \* may be in it more than once

Days == 1..LastDay
OpenEnd == LastDay + 1          \* endDate missing: after every day

ASSUME ShiftRosterAssumption ==
    /\ LastDay \in Nat
    /\ ShiftRequests \subseteq
           [queue : Seq(ShiftStaff) \ {<<>>}, from : Days, to : Days \cup {OpenEnd}]
NoSpan == [emp |-> "none", from |-> 0, to |-> 0]
Spans == [emp : ShiftStaff, from : Days, to : Days \cup {OpenEnd}]
Span(e, d, t) == [emp |-> e, from |-> d, to |-> t]

ShiftPCs == {"idle", "next", "amend", "close", "create"}
\* queue: the employees a request still has to assign, the present one first;
\* doc: the assignment that overlaps.
ShiftWorks(w) ==
    /\ \A i \in DOMAIN w.queue : w.queue[i] \in ShiftStaff
    /\ w.from \in Days /\ w.to \in Days \cup {OpenEnd}
    /\ w.doc \subseteq Assignments

VARIABLES
    span,           \* [Assignments -> Spans]; NoSpan: not created
    \* history, for the properties only
    rivalled,       \* handlers whose view of an employee another one changed
    muddled,        \* employees whose roster such a handler changed, or one of
                    \* whose assignments was stretched over a second one
    lasting,        \* employees who were given an open-ended assignment
    severed         \* employees whose replacement was given up after the close

shiftVars == <<span, rivalled, muddled, lasting, severed>>

ShiftInit ==
    /\ span = [a \in Assignments |-> NoSpan]
    /\ rivalled = {}
    /\ muddled = {}
    /\ lasting = {}
    /\ severed = {}

-----------------------------------------------------------------------------
(* ShiftsRepository *)

Known == {a \in Assignments : span[a] # NoSpan}
Overlaps(s, t) == s.from <= t.to /\ s.to >= t.from

\* findOverlappingAssignment() answers one of these.
Overlapping(s) == {a \in Known : span[a].emp = s.emp /\ Overlaps(span[a], s)}

\* findCurrentAssignment() on a day answers the last of these to begin.
Covering(e, d) == {a \in Known : span[a].emp = e /\ span[a].from <= d /\ d <= span[a].to}

-----------------------------------------------------------------------------
(* assignToEmployee() and bulkAssignShift(), which does it for one employee *)
(* after the other and goes on when one is refused.                         *)

Wanted(w) == Span(Head(w.queue), w.from, w.to)

NextEmployee(h) ==
    LET w == work[h] IN
    IF Len(w.queue) = 1 THEN Leave(h)
    ELSE Goto(h, "next", [w EXCEPT !.queue = Tail(@), !.doc = {}])

\* The handlers, other than h, that looked at the employee h has just changed.
Rivals(h) == {g \in Waiting({"amend", "close", "create"}) \ {h} :
                 Head(work[g].queue) = Head(work[h].queue)}

AssignShift(h, r) ==
    /\ r.from <= r.to
    /\ Enter(h, "next", [queue |-> r.queue, from |-> r.from, to |-> r.to, doc |-> {}])
    /\ UNCHANGED shiftVars

\* The request looks for an overlap, and decides what to do about it ...
AssignRead_NoOverlap(h) ==
    /\ pc[h] = "next"
    /\ Goto(h, "create", work[h])
    /\ UNCHANGED shiftVars
AssignRead(h) ==
    LET w == work[h] IN
    /\ pc[h] = "next"
    /\ \/ /\ Overlapping(Wanted(w)) = {}
          /\ Goto(h, "create", w)
       \/ \E a \in Overlapping(Wanted(w)) :
            LET to == CASE span[a].from = w.from -> "amend"
                        [] span[a].from < w.from /\ w.to = OpenEnd
                                                 /\ span[a].to = OpenEnd -> "close"
                        [] OTHER -> "refuse"
            IN IF to = "refuse" THEN NextEmployee(h)
               ELSE Goto(h, to, [w EXCEPT !.doc = {a}])
    /\ UNCHANGED shiftVars

\* ... an assignment from the same day on is changed ...
AmendStore(h) ==
    LET w == work[h]  s == Wanted(w)  e == s.emp IN
    /\ pc[h] = "amend"
    /\ span' = [a \in Assignments |-> IF a \in w.doc THEN s ELSE span[a]]
    /\ muddled' = IF h \in rivalled \/ Overlapping(s) \ w.doc # {}
                  THEN muddled \cup {e} ELSE muddled
    /\ lasting' = IF s.to = OpenEnd THEN lasting \cup {e}
                  ELSE IF \E a \in w.doc : span[a].to = OpenEnd THEN lasting \ {e}
                  ELSE lasting
    /\ rivalled' = (rivalled \cup Rivals(h)) \ {h}
    /\ NextEmployee(h)
    /\ UNCHANGED severed

\* ... an open-ended one ends on the day before ...
CloseStore(h) ==
    LET w == work[h] IN
    /\ pc[h] = "close"
    /\ span' = [a \in Assignments |-> IF a \in w.doc THEN [span[a] EXCEPT !.to = w.from - 1]
                                      ELSE span[a]]
    /\ muddled' = IF h \in rivalled THEN muddled \cup {Head(w.queue)} ELSE muddled
    /\ rivalled' = rivalled \cup Rivals(h)
    /\ Goto(h, "create", w)
    /\ UNCHANGED <<lasting, severed>>

\* ... and the new one is stored.
CreateAssignment(h) ==
    LET w == work[h]  e == Head(w.queue) IN
    /\ pc[h] = "create"
    /\ \E a \in Assignments \ Known : span' = [span EXCEPT ![a] = Wanted(w)]
    /\ muddled' = IF h \in rivalled THEN muddled \cup {e} ELSE muddled
    /\ lasting' = IF w.to = OpenEnd THEN lasting \cup {e} ELSE lasting
    /\ rivalled' = (rivalled \cup Rivals(h)) \ {h}
    /\ NextEmployee(h)
    /\ UNCHANGED severed

\* An operation fails: the loop goes on with the next employee, and a request
\* for one ends.
ShiftFail(h) ==
    /\ pc[h] # "idle"
    /\ NextEmployee(h)
    /\ severed' = IF pc[h] = "create" /\ work[h].doc # {}
                  THEN severed \cup {Head(work[h].queue)} ELSE severed
    /\ rivalled' = rivalled \ {h}
    /\ UNCHANGED <<span, muddled, lasting>>

ShiftNext ==
    \E h \in Handlers :
        \/ \E r \in ShiftRequests : AssignShift(h, r)
        \/ AssignRead(h)
        \/ AmendStore(h)
        \/ CloseStore(h)
        \/ CreateAssignment(h)
        \/ ShiftFail(h)

ShiftSpec == ServingInit /\ ShiftInit /\ [][ShiftNext]_<<pc, work, shiftVars>>

-----------------------------------------------------------------------------
(* Properties *)

ShiftTypeOK ==
    /\ \A h \in Handlers : /\ pc[h] \in ShiftPCs
                           /\ pc[h] # "idle" => ShiftWorks(work[h])
    /\ \A a \in Known : span[a].emp \in ShiftStaff
    /\ rivalled \subseteq Handlers
    /\ muddled \subseteq ShiftStaff
    /\ lasting \subseteq ShiftStaff
    /\ severed \subseteq ShiftStaff

\* No employee has two shifts on a day, and one who was given a shift without
\* an end has one until it is given an end: unless two requests changed the
\* employee's roster on the same view (a second close may even stretch the
\* assignment that the first one ended), one stretched an assignment over a
\* second one it did not see, or a replacement was given up after the close.
OneShiftADay ==
    \A e \in ShiftStaff \ muddled :
        /\ \A d \in Days : Cardinality(Covering(e, d)) <= 1
        /\ e \in lasting \ severed =>
              \/ \E a \in Covering(e, LastDay) : span[a].to = OpenEnd
              \/ \E h \in Waiting({"create"}) : Head(work[h].queue) = e

=============================================================================
