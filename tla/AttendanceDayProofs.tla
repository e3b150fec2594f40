---------------------- MODULE AttendanceDayProofs ----------------------
(* Proofs of the safety properties of AttendanceDay, for any number of     *)
(* handlers, requests and logs.                                            *)
EXTENDS AttendanceDay, FiniteSetTheorems, TLAPS

-----------------------------------------------------------------------------
(* Types                                                                    *)

\* What a handler works on, by the operation it awaits.
Place(h) ==
    /\ pc[h] \in {"idle", "checkIn", "checkOut"} => job[h] = NoRequest
    /\ pc[h] \in {"submit", "correct", "confirm", "cancel"} => job[h] \in Adjustments
    /\ pc[h] \in {"accept", "mark"} => job[h] \in Outings
    /\ pc[h] = "refuse" => job[h] \in Requests
    /\ pc[h] = "mark" => target[job[h]] \in Logs
    /\ pc[h] = "confirm" => fix[h] \in Logs

Places == \A h \in Handlers : Place(h)

Types0 == TypeOK /\ Places

LEMMA LogsAreNat == Logs \subseteq Nat /\ NoLog \notin Logs
BY AttendanceAssumption DEF Logs, NoLog

\* Writing a log keeps the type of the logs.
LEMMA WriteType ==
    ASSUME log \in [Logs -> LogDocs], NEW n \in Logs,
           NEW type \in Types \cup {"NONE"}, NEW st \in LogStatus,
           NEW f \in Logs \cup {NoLog}, Write(n, type, st, f)
    PROVE  log' \in [Logs -> LogDocs]
BY DEF Write, LogDocs

LEMMA TypesInit == Init => Types0
<1> SUFFICES ASSUME Init PROVE Types0
  OBVIOUS
<1>1. TypeOK
  BY DEF Init, TypeOK, NoDoc, LogDocs, Types, Punches, LogStatus, Status, PCs, NoDraft
<1>2. Places
  BY DEF Init, Places, Place
<1> QED  BY <1>1, <1>2 DEF Types0

LEMMA TypesNext == Types0 /\ [Next]_vars => Types0'
<1> SUFFICES ASSUME Types0, [Next]_vars PROVE Types0'
  OBVIOUS
<1> USE AttendanceAssumption DEF Types0, TypeOK, Places, Place, Goto, Done, Start,
        NoDraft, Punches, docs, local, history, Requests
<1>1. ASSUME NEW h \in Handlers, CheckInRead(h) \/ CheckOutRead(h) PROVE Types0'
  BY <1>1 DEF CheckInRead, CheckOutRead, PCs
<1>2. ASSUME NEW h \in Handlers, NEW a \in Adjustments, NEW type \in Punches,
             NEW n \in Logs \cup {NoLog}, AdjustmentRead(h, a, type, n)
      PROVE  Types0'
  BY <1>2 DEF AdjustmentRead, PCs
<1>3. ASSUME NEW h \in Handlers, NEW r \in Requests,
             NEW to \in {"correct", "accept", "refuse", "cancel"},
             to \in {"correct", "cancel"} => r \in Adjustments,
             to = "accept" => r \in Outings,
             ReadPending(h, r, to)
      PROVE  Types0'
  BY <1>3 DEF ReadPending, PCs
<1>4. ASSUME NEW h \in Handlers, CheckInCreate(h) PROVE Types0'
  <2>1. PICK n \in Logs : /\ Write(n, "CHECK_IN", "PLAIN", NoLog)
                          /\ rushed' = IF h \in outrun THEN rushed \cup {n} ELSE rushed
    BY <1>4 DEF CheckInCreate
  <2>2. log' \in [Logs -> LogDocs]
    BY <2>1, WriteType DEF Types, LogStatus
  <2> QED  BY <1>4, <2>1, <2>2 DEF CheckInCreate, PCs
<1>5. ASSUME NEW h \in Handlers, CheckOutCreate(h) PROVE Types0'
  <2>1. PICK n \in Logs : Write(n, "CHECK_OUT", "PLAIN", NoLog)
    BY <1>5 DEF CheckOutCreate
  <2>2. log' \in [Logs -> LogDocs]
    BY <2>1, WriteType DEF Types, LogStatus
  <2> QED  BY <1>5, <2>2 DEF CheckOutCreate, PCs
<1>6. ASSUME NEW h \in Handlers, AdjustmentCreate(h) PROVE Types0'
  <2>1. job[h] \in Adjustments
    BY <1>6 DEF AdjustmentCreate
  <2>2. /\ status' \in [Requests -> Status]
        /\ target' \in [Requests -> Logs \cup {NoLog}]
        /\ wants' \in [Adjustments -> Punches]
    BY <1>6, <2>1 DEF AdjustmentCreate, Status
  <2>3. \A o \in Outings : target'[o] = target[o]
    BY <1>6, <2>1 DEF AdjustmentCreate
  <2> QED  BY <1>6, <2>2, <2>3 DEF AdjustmentCreate, PCs
<1>7. ASSUME NEW h \in Handlers, AdjustmentCorrect(h) PROVE Types0'
  <2>1. job[h] \in Adjustments
    BY <1>7 DEF AdjustmentCorrect
  <2>2. PICK n \in Logs : /\ Write(n, wants[job[h]], "MANUAL_ADJUSTED", target[job[h]])
                          /\ fix' = [fix EXCEPT ![h] = n]
    BY <1>7 DEF AdjustmentCorrect
  <2>3. log' \in [Logs -> LogDocs]
    BY <2>1, <2>2, WriteType DEF Types, LogStatus
  <2> QED  BY <1>7, <2>1, <2>2, <2>3 DEF AdjustmentCorrect, PCs
<1>8. ASSUME NEW h \in Handlers, AdjustmentConfirm(h) PROVE Types0'
  BY <1>8 DEF AdjustmentConfirm, Decide, Status, PCs
<1>9. ASSUME NEW h \in Handlers, OutingAccept(h) PROVE Types0'
  <2>1. job[h] \in Outings /\ status' \in [Requests -> Status]
    BY <1>9 DEF OutingAccept, Decide, Status
  <2>2. stale' \subseteq Requests
    BY <1>9, <2>1 DEF OutingAccept, Decide
  <2>3. CASE target[job[h]] = NoLog
    <3>1. Done(h) /\ UNCHANGED <<log, target, wants, link, made, cut, outrun, rushed,
                                  revived, retyped>>
      BY <1>9, <2>3 DEF OutingAccept
    <3> QED  BY <2>1, <2>2, <3>1 DEF PCs
  <2>4. CASE target[job[h]] # NoLog
    <3>1. target[job[h]] \in Logs
      BY <2>1, <2>4
    <3>2. Goto(h, "mark") /\ UNCHANGED <<log, target, wants, link, made, cut, outrun,
                              rushed, revived, retyped, job, draft, fix>>
      BY <1>9, <2>4 DEF OutingAccept
    <3> QED  BY <2>1, <2>2, <3>1, <3>2 DEF PCs
  <2> QED  BY <2>3, <2>4
<1>10. ASSUME NEW h \in Handlers, OutingMark(h) PROVE Types0'
  <2> DEFINE n == target[job[h]]
  <2>1. /\ job[h] \in Outings /\ n \in Logs
        /\ Write(n, log[n].type, "OUTSIDE_APPROVED", log[n].fixes)
    BY <1>10 DEF OutingMark
  <2>2. log[n].type \in Types \cup {"NONE"} /\ log[n].fixes \in Logs \cup {NoLog}
    BY <2>1 DEF LogDocs
  <2>3. log' \in [Logs -> LogDocs]
    BY <2>1, <2>2, WriteType DEF LogStatus
  <2> QED  BY <1>10, <2>1, <2>3 DEF OutingMark, PCs
<1>11. ASSUME NEW h \in Handlers, Reject(h) \/ Cancel(h) PROVE Types0'
  <2>1. job[h] \in Requests /\ Done(h)
    BY <1>11 DEF Reject, Cancel
  <2>2. PICK d \in {"REJECTED", "CANCELLED"} : Decide(h, d)
    BY <1>11 DEF Reject, Cancel
  <2>3. status' \in [Requests -> Status] /\ stale' \subseteq Requests
    BY <2>1, <2>2 DEF Decide, Status
  <2>4. UNCHANGED <<log, target, wants, link, made, cut, outrun, rushed, revived, retyped>>
    BY <1>11 DEF Reject, Cancel
  <2> QED  BY <2>1, <2>3, <2>4 DEF PCs
<1>12. ASSUME NEW h \in Handlers, Fail(h) PROVE Types0'
  BY <1>12 DEF Fail, PCs
<1>13. ASSUME NEW n \in Logs, NEW type \in Retypes, ManualAdjust(n, type) PROVE Types0'
  <2>1. log[n].fixes \in Logs \cup {NoLog} /\ type \in Types
    BY DEF LogDocs, Types
  <2>2. log' \in [Logs -> LogDocs]
    BY <1>13, <2>1, WriteType DEF ManualAdjust, LogStatus
  <2> QED  BY <1>13, <2>2 DEF ManualAdjust
<1>14. ASSUME NEW o \in Outings, NEW n \in Logs \cup {NoLog}, OutingCreate(o, n)
       PROVE  Types0'
  <2>1. \A h \in Handlers : job[h] # o
    BY <1>14 DEF OutingCreate, Unborn
  <2> QED  BY <1>14, <2>1 DEF OutingCreate, Status
<1>15. CASE UNCHANGED vars
  BY <1>15 DEF vars
<1>16. ASSUME NEW h \in Handlers, Receive(h) PROVE Types0'
  <2>1. ASSUME NEW a \in Adjustments, AdjustmentApproveRead(h, a) \/ CancelRead(h, a)
        PROVE  Types0'
    BY <2>1, <1>3 DEF AdjustmentApproveRead, CancelRead
  <2>2. ASSUME NEW o \in Outings, OutingApproveRead(h, o) PROVE Types0'
    BY <2>2, <1>3 DEF OutingApproveRead
  <2>3. ASSUME NEW r \in Requests, RejectRead(h, r) PROVE Types0'
    BY <2>3, <1>3 DEF RejectRead
  <2> HIDE DEF Types0
  <2> QED  BY <1>16, <1>1, <1>2, <2>1, <2>2, <2>3 DEF Receive
<1> HIDE DEF Types0
<1> QED
  BY <1>4, <1>5, <1>6, <1>7, <1>8, <1>9, <1>10, <1>11, <1>12, <1>13, <1>14, <1>15,
     <1>16
  DEF Next, Serve, Resume

LEMMA TypesInvariant == Spec => []Types0
BY TypesInit, TypesNext, PTL DEF Spec

\* The types of every variable, whatever the handlers do.
THEOREM DayTypeCorrect == Spec => []TypeOK
<1>1. Types0 => TypeOK
  BY DEF Types0
<1> QED  BY <1>1, TypesInvariant, PTL

-----------------------------------------------------------------------------
(* Logs and what refers to them                                             *)

\* n is no log, or one that exists and, unless HR retyped a log, has the type.
Fits(n, type) ==
    n # NoLog => n \in Logs /\ Exists(n) /\ (retyped = {} => log[n].type = type)

InOrder == \A m, n \in Logs : m < n /\ Exists(n) => Exists(m)
CorrectionsFit ==
    \A n \in Logs : /\ ~Exists(n) => log[n].fixes = NoLog
                    /\ Fits(log[n].fixes, log[n].type)
TargetsFit ==
    /\ \A a \in Adjustments : Fits(target[a], wants[a])
    /\ \A o \in Outings : target[o] # NoLog => Exists(target[o])
DraftsFit == \A h \in Handlers : Fits(draft[h].target, draft[h].type)
RetypedExist == \A n \in retyped : Exists(n)

References == InOrder /\ CorrectionsFit /\ TargetsFit /\ DraftsFit /\ RetypedExist

\* A step that at most adds logs: nothing is lost, nothing retyped unnoticed.
LogsKept ==
    /\ retyped \subseteq retyped'
    /\ \A n \in Logs : Exists(n) =>
          /\ log'[n].type # "NONE"
          /\ n \notin retyped' => log'[n].type = log[n].type
          /\ log'[n].fixes = log[n].fixes

LEMMA FitsKept ==
    ASSUME LogsKept, NEW n, NEW type, Fits(n, type)
    PROVE  n # NoLog => /\ n \in Logs /\ log'[n].type # "NONE"
                        /\ retyped' = {} => log'[n].type = type
BY DEF Fits, LogsKept, Exists

\* A new log that corrects what fits, or nothing, disturbs no reference and
\* hides no last log of its type.
LEMMA NewLog ==
    ASSUME Types0, References, NEW n \in Logs, Fresh(n), NEW type \in Punches,
           NEW st \in LogStatus, NEW f \in Logs \cup {NoLog}, Fits(f, type),
           Write(n, type, st, f), UNCHANGED retyped
    PROVE  /\ LogsKept /\ InOrder' /\ CorrectionsFit' /\ RetypedExist'
           /\ DayKeepsItsPunches => DayKeepsItsPunches'
<1> USE DEF Types0, TypeOK, LogDocs, Exists, Fresh
<1>1. log' = [log EXCEPT ![n] = [type |-> type, status |-> st, fixes |-> f]]
  BY DEF Write
<1>2. /\ \A m \in Logs \ {n} : log'[m] = log[m]
      /\ log'[n].type = type /\ log'[n].fixes = f /\ type # "NONE"
  BY <1>1 DEF Punches
<1>3. LogsKept
  BY <1>2 DEF LogsKept
<1>4. InOrder'
  BY <1>2, LogsAreNat DEF References, InOrder
<1>5. CorrectionsFit'
  BY <1>2 DEF References, CorrectionsFit, Fits
<1>6. RetypedExist'
  BY <1>2 DEF References, RetypedExist
<1>7. ASSUME DayKeepsItsPunches, retyped' = {}, NEW t \in Punches,
             NEW k \in Logs, log'[k].type = t
      PROVE  \E v \in Visible' : log'[v].type = t
  <2>1. \A m \in Logs : log[m].fixes # n
    BY LogsAreNat DEF References, CorrectionsFit, Fits
  <2>2. f # n
    BY LogsAreNat DEF Fits
  <2>3. CASE t = type
    <3>1. n \in Visible'
      BY <1>2, <2>1, <2>2 DEF Visible
    <3> QED  BY <1>2, <2>3, <3>1
  <2>4. CASE t # type
    <3>1. log[k].type = t
      BY <1>2, <1>7, <2>4
    <3>2. PICK v \in Visible : log[v].type = t
      BY <1>7, <3>1 DEF DayKeepsItsPunches
    <3>3. v # n /\ f # v
      BY <3>2, <1>7, <2>4, LogsAreNat DEF Visible, Fits
    <3>4. v \in Visible'
      BY <1>2, <3>2, <3>3 DEF Visible
    <3> QED  BY <1>2, <3>2, <3>3, <3>4 DEF Visible
  <2> QED  BY <2>3, <2>4
<1> QED  BY <1>3, <1>4, <1>5, <1>6, <1>7 DEF DayKeepsItsPunches

\* Rewriting a log that exists disturbs no reference either.
LEMMA SameLog ==
    ASSUME Types0, References, NEW n \in Logs, Exists(n), NEW type \in Types,
           NEW st \in LogStatus, Write(n, type, st, log[n].fixes),
           retyped' = retyped \/ retyped' = retyped \cup {n},
           type # log[n].type => n \in retyped'
    PROVE  /\ LogsKept /\ InOrder' /\ CorrectionsFit' /\ RetypedExist'
           /\ DayKeepsItsPunches => DayKeepsItsPunches'
<1> USE DEF Types0, TypeOK, LogDocs, Exists
<1>1. log' = [log EXCEPT ![n] = [type |-> type, status |-> st, fixes |-> log[n].fixes]]
  BY DEF Write
<1>2. /\ \A m \in Logs \ {n} : log'[m] = log[m]
      /\ log'[n].type = type /\ log'[n].fixes = log[n].fixes /\ type # "NONE"
  BY <1>1 DEF Types, Punches
<1>3. LogsKept
  BY <1>2 DEF LogsKept
<1>4. InOrder'
  BY <1>2 DEF References, InOrder
<1>5. CorrectionsFit'
  BY <1>2, <1>3, FitsKept DEF References, CorrectionsFit, Fits
<1>6. RetypedExist'
  BY <1>2 DEF References, RetypedExist
<1>7. ASSUME DayKeepsItsPunches, retyped' = {} PROVE DayKeepsItsPunches'
  <2>1. \A m \in Logs : log'[m].type = log[m].type /\ log'[m].fixes = log[m].fixes
    BY <1>2, <1>7
  <2>2. Visible' = Visible
    BY <2>1 DEF Visible
  <2>3. retyped = {}
    BY <1>7
  <2>4. \A m \in Visible : m \in Logs
    BY DEF Visible
  <2> QED  BY <1>7, <2>1, <2>2, <2>3, <2>4 DEF DayKeepsItsPunches
<1> QED  BY <1>3, <1>4, <1>5, <1>6, <1>7 DEF DayKeepsItsPunches

LEMMA ReferencesInit == Init => References /\ DayKeepsItsPunches
BY LogsAreNat DEF Init, References, InOrder, CorrectionsFit, TargetsFit, DraftsFit,
   RetypedExist, Fits, Exists, NoDoc, NoDraft, DayKeepsItsPunches, Punches, Requests

\* Logs and requests stay; at most the handler's draft is dropped.
Quiet ==
    /\ UNCHANGED <<log, target, wants, retyped>>
    /\ \A h \in Handlers : draft'[h] \in {draft[h], NoDraft}

LEMMA QuietKeeps ==
    ASSUME Types0, References, DayKeepsItsPunches, Quiet
    PROVE  LogsKept /\ References' /\ DayKeepsItsPunches'
<1>1. InOrder' /\ CorrectionsFit' /\ TargetsFit' /\ RetypedExist'
  BY DEF Quiet, References, InOrder, CorrectionsFit, TargetsFit, RetypedExist, Fits,
         Exists
<1>2. DraftsFit'
  BY DEF Quiet, References, DraftsFit, Fits, Exists, NoDraft
<1>3. DayKeepsItsPunches'
  BY DEF Quiet, DayKeepsItsPunches, Visible, Exists
<1>4. LogsKept
  BY DEF Quiet, LogsKept, Exists
<1> QED  BY <1>1, <1>2, <1>3, <1>4 DEF References

LEMMA DraftsKept ==
    ASSUME LogsKept, References,
           \A h \in Handlers : draft'[h] \in {draft[h], NoDraft}
    PROVE  DraftsFit'
<1> SUFFICES ASSUME NEW h \in Handlers PROVE Fits(draft[h].target, draft[h].type)'
  BY DEF DraftsFit
<1>1. CASE draft'[h] = NoDraft
  BY <1>1 DEF Fits, NoDraft
<1>2. CASE draft'[h] = draft[h]
  BY <1>2, FitsKept DEF References, DraftsFit, Fits, Exists
<1> QED  BY <1>1, <1>2

LEMMA TargetsKept ==
    ASSUME Types0, LogsKept, References, UNCHANGED <<target, wants>>
    PROVE  TargetsFit'
<1>1. \A a \in Adjustments : Fits(target[a], wants[a])'
  BY FitsKept DEF References, TargetsFit, Fits, Exists
<1>2. \A o \in Outings : target'[o] # NoLog => log'[target'[o]].type # "NONE"
  BY DEF LogsKept, References, TargetsFit, Exists, Types0, TypeOK, Requests
<1> QED  BY <1>1, <1>2 DEF TargetsFit, Exists

LEMMA ReferencesNext ==
    Types0 /\ References /\ DayKeepsItsPunches /\ [Next]_vars
        => LogsKept /\ References' /\ DayKeepsItsPunches'
<1> SUFFICES ASSUME Types0, References, DayKeepsItsPunches, [Next]_vars
             PROVE  LogsKept /\ References' /\ DayKeepsItsPunches'
  OBVIOUS
<1> DEFINE Goal == LogsKept /\ References' /\ DayKeepsItsPunches'
<1> USE DEF docs, local, history
<1>1. ASSUME Quiet PROVE Goal
  BY <1>1, QuietKeeps
<1>2. ASSUME NEW h \in Handlers,
             \/ CheckInRead(h) \/ CheckOutRead(h) \/ Fail(h)
             \/ AdjustmentConfirm(h) \/ OutingAccept(h) \/ Reject(h) \/ Cancel(h)
             \/ \E r \in Requests, to \in PCs : ReadPending(h, r, to)
      PROVE  Quiet
  BY <1>2 DEF CheckInRead, CheckOutRead, ReadPending, Fail, AdjustmentConfirm,
     OutingAccept, Reject, Cancel, Start, Done, Quiet, Types0, TypeOK
<1>3. ASSUME NEW h \in Handlers, NEW a \in Adjustments, NEW type \in Punches,
             NEW n \in Logs \cup {NoLog}, AdjustmentRead(h, a, type, n)
      PROVE  Goal
  <2>1. LogsKept /\ InOrder' /\ CorrectionsFit' /\ TargetsFit' /\ RetypedExist' /\ DayKeepsItsPunches'
    BY <1>3 DEF AdjustmentRead, LogsKept, References, InOrder, CorrectionsFit, TargetsFit,
       RetypedExist, Fits, Exists, DayKeepsItsPunches, Visible
  <2>2. /\ draft' = [draft EXCEPT ![h] = [type |-> type, target |-> n]]
        /\ UNCHANGED <<log, retyped>>
        /\ n # NoLog => log[n].type = type
    BY <1>3 DEF AdjustmentRead
  <2>3. Fits(n, type)
    BY <2>2 DEF Fits, Exists, Punches
  <2>4. DraftsFit'
    BY <2>2, <2>3 DEF References, DraftsFit, Fits, Exists, Types0, TypeOK
  <2> QED  BY <2>1, <2>4 DEF References
<1>4. ASSUME NEW h \in Handlers, NEW n \in Logs, Fresh(n), NEW type \in Punches,
             NEW st \in LogStatus, Write(n, type, st, NoLog), Done(h),
             UNCHANGED <<target, wants, retyped>>
      PROVE  Goal
  <2>1. Fits(NoLog, type)
    BY DEF Fits
  <2>2. /\ LogsKept /\ InOrder' /\ CorrectionsFit' /\ RetypedExist'
        /\ DayKeepsItsPunches'
    BY <1>4, <2>1, NewLog
  <2>3. DraftsFit'
    BY <1>4, <2>2, DraftsKept DEF Done, Types0, TypeOK
  <2>4. TargetsFit'
    BY <1>4, <2>2, TargetsKept
  <2> QED  BY <2>2, <2>3, <2>4 DEF References
<1>5. ASSUME NEW h \in Handlers, CheckInCreate(h) \/ CheckOutCreate(h) PROVE Goal
  <2> HIDE DEF Goal
  <2>1. CASE CheckInCreate(h)
    BY <2>1, <1>4 DEF CheckInCreate, Punches, LogStatus
  <2>2. CASE CheckOutCreate(h)
    BY <2>2, <1>4 DEF CheckOutCreate, Punches, LogStatus
  <2> QED  BY <1>5, <2>1, <2>2
<1>6. ASSUME NEW h \in Handlers, AdjustmentCreate(h) PROVE Goal
  <2>1. UNCHANGED <<log, retyped>> /\ draft' = [draft EXCEPT ![h] = NoDraft]
    BY <1>6 DEF AdjustmentCreate, Done
  <2>2. /\ LogsKept /\ InOrder' /\ CorrectionsFit' /\ RetypedExist'
        /\ DayKeepsItsPunches'
    BY <2>1 DEF LogsKept, References, InOrder, CorrectionsFit, RetypedExist, Fits, Exists,
       DayKeepsItsPunches, Visible
  <2>3. DraftsFit'
    BY <2>1 DEF References, DraftsFit, Fits, Exists, NoDraft, Types0, TypeOK
  <2>4. job[h] \in Adjustments /\ Fits(draft[h].target, draft[h].type)
    BY <1>6 DEF AdjustmentCreate, Types0, Places, Place, References, DraftsFit
  <2>5. \/ UNCHANGED <<target, wants>>
        \/ /\ target' = [target EXCEPT ![job[h]] = draft[h].target]
           /\ wants' = [wants EXCEPT ![job[h]] = draft[h].type]
    BY <1>6 DEF AdjustmentCreate
  <2>6. TargetsFit'
    BY <2>1, <2>4, <2>5, AttendanceAssumption
    DEF References, TargetsFit, Fits, Exists, Types0, TypeOK, Requests
  <2> QED  BY <2>2, <2>3, <2>6 DEF References
<1>7. ASSUME NEW h \in Handlers, AdjustmentCorrect(h) PROVE Goal
  <2> DEFINE a == job[h]
  <2>1. a \in Adjustments /\ UNCHANGED <<target, wants, retyped, draft>>
    BY <1>7 DEF AdjustmentCorrect, Types0, Places, Place
  <2>2. PICK n \in Logs : Fresh(n) /\ Write(n, wants[a], "MANUAL_ADJUSTED", target[a])
    BY <1>7 DEF AdjustmentCorrect
  <2>3. /\ Fits(target[a], wants[a]) /\ wants[a] \in Punches
        /\ target[a] \in Logs \cup {NoLog}
    BY <2>1 DEF References, TargetsFit, Types0, TypeOK, Requests
  <2>4. /\ LogsKept /\ InOrder' /\ CorrectionsFit' /\ RetypedExist'
        /\ DayKeepsItsPunches'
    BY <2>1, <2>2, <2>3, NewLog DEF LogStatus
  <2>5. DraftsFit' /\ TargetsFit'
    BY <2>1, <2>4, DraftsKept, TargetsKept
  <2> QED  BY <2>4, <2>5 DEF References
<1>8. ASSUME NEW h \in Handlers, OutingMark(h) PROVE Goal
  <2> DEFINE n == target[job[h]]
  <2>1. /\ n \in Logs /\ job[h] \in Outings /\ n # NoLog
        /\ Write(n, log[n].type, "OUTSIDE_APPROVED", log[n].fixes)
        /\ UNCHANGED <<target, wants, retyped>> /\ Done(h)
    BY <1>8, LogsAreNat DEF OutingMark, Types0, Places, Place
  <2>2. Exists(n) /\ log[n].type \in Types
    BY <2>1 DEF References, TargetsFit, Exists, Types0, TypeOK, LogDocs
  <2>3. /\ LogsKept /\ InOrder' /\ CorrectionsFit' /\ RetypedExist'
        /\ DayKeepsItsPunches'
    BY <2>1, <2>2, SameLog DEF LogStatus
  <2>4. DraftsFit' /\ TargetsFit'
    BY <2>1, <2>3, DraftsKept, TargetsKept DEF Done, Types0, TypeOK
  <2> QED  BY <2>3, <2>4 DEF References
<1>9. ASSUME NEW n \in Logs, NEW type \in Retypes, ManualAdjust(n, type) PROVE Goal
  <2>1. /\ Exists(n) /\ type \in Types
        /\ Write(n, type, "MANUAL_ADJUSTED", log[n].fixes)
        /\ retyped' = IF type = log[n].type THEN retyped ELSE retyped \cup {n}
        /\ UNCHANGED <<target, wants, draft>>
    BY <1>9, AttendanceAssumption DEF ManualAdjust, Types, Punches
  <2>2. /\ LogsKept /\ InOrder' /\ CorrectionsFit' /\ RetypedExist'
        /\ DayKeepsItsPunches'
    BY <2>1, SameLog DEF LogStatus
  <2>3. DraftsFit' /\ TargetsFit'
    BY <2>1, <2>2, DraftsKept, TargetsKept
  <2> QED  BY <2>2, <2>3 DEF References
<1>10. ASSUME NEW o \in Outings, NEW n \in Logs \cup {NoLog}, OutingCreate(o, n)
       PROVE  Goal
  <2>1. /\ UNCHANGED <<log, wants, draft, retyped>>
        /\ target' = [target EXCEPT ![o] = n]
        /\ n # NoLog => Exists(n)
    BY <1>10 DEF OutingCreate
  <2>2. /\ LogsKept /\ InOrder' /\ CorrectionsFit' /\ RetypedExist'
        /\ DayKeepsItsPunches' /\ DraftsFit'
    BY <2>1 DEF LogsKept, References, InOrder, CorrectionsFit, RetypedExist, DraftsFit, Fits,
       Exists, DayKeepsItsPunches, Visible
  <2>3. TargetsFit'
    BY <2>1, AttendanceAssumption
    DEF References, TargetsFit, Fits, Exists, Types0, TypeOK, Requests
  <2> QED  BY <2>2, <2>3 DEF References
<1>11. ASSUME UNCHANGED vars PROVE Goal
  <2>1. Quiet
    BY <1>11 DEF vars, Quiet
  <2> QED  BY <2>1, <1>1
<1>12. ASSUME NEW h \in Handlers, Receive(h) PROVE Goal
  <2>1. ASSUME NEW r \in Requests, NEW to \in PCs, ReadPending(h, r, to) PROVE Goal
    BY <2>1, <1>1, <1>2
  <2>2. ASSUME NEW a \in Adjustments, AdjustmentApproveRead(h, a) \/ CancelRead(h, a)
        PROVE  Goal
    BY <2>1, <2>2 DEF AdjustmentApproveRead, CancelRead, PCs, Requests
  <2>3. ASSUME NEW o \in Outings, OutingApproveRead(h, o) PROVE Goal
    BY <2>1, <2>3 DEF OutingApproveRead, PCs, Requests
  <2>4. ASSUME NEW r \in Requests, RejectRead(h, r) PROVE Goal
    BY <2>1, <2>4 DEF RejectRead, PCs
  <2> HIDE DEF Goal
  <2> QED  BY <1>12, <1>1, <1>2, <1>3, <2>2, <2>3, <2>4 DEF Receive
<1> HIDE DEF Goal
<1>13. ASSUME NEW h \in Handlers, Resume(h) \/ Fail(h) PROVE Goal
  BY <1>13, <1>1, <1>2, <1>5, <1>6, <1>7, <1>8 DEF Resume
<1>14. ASSUME Serve PROVE Goal
  BY <1>14, <1>9, <1>10 DEF Serve
<1>15. ASSUME Next PROVE Goal
  BY <1>12, <1>13, <1>14, <1>15 DEF Next
<1> QED  BY <1>11, <1>15 DEF Goal

LEMMA ReferencesInvariant ==
    Spec => [](References /\ DayKeepsItsPunches)
<1>1. Types0 /\ References /\ DayKeepsItsPunches /\ [Next]_vars
        => References' /\ DayKeepsItsPunches'
  BY ReferencesNext
<1> QED  BY ReferencesInit, <1>1, TypesInvariant, PTL DEF Spec

\* A correction takes the last log of a type out of the day for no number of
\* requests and logs, unless HR has retyped one.
THEOREM DayCorrect == Spec => []DayKeepsItsPunches
BY ReferencesInvariant, PTL

-----------------------------------------------------------------------------
(* Check-ins and check-outs                                                 *)

\* What a handler about to create a check-in or a check-out still knows.
FreeToCheckIn(h) ==
    pc[h] = "checkIn" /\ h \notin outrun => \A m \in Logs : Counted(m) => m \in revived
HasCheckIn(m) == m \in Logs /\ Exists(m) /\ (log[m].type = "CHECK_IN" \/ m \in retyped)
FreeToCheckOut(h) == pc[h] = "checkOut" => \E m \in Logs : HasCheckIn(m)

PunchesKnown ==
    /\ OneCheckInExplained /\ NoOrphanCheckOut
    /\ \A h \in Handlers : FreeToCheckIn(h) /\ FreeToCheckOut(h)

LEMMA PunchesInit == Init => PunchesKnown
BY DEF Init, PunchesKnown, OneCheckInExplained, NoOrphanCheckOut, FreeToCheckIn,
   FreeToCheckOut, Counted, NoDoc

\* A step that creates no check-in and no check-out of its own.
NoPunch ==
    /\ revived \subseteq revived' /\ rushed \subseteq rushed'
    /\ \A m \in Logs :
          /\ log'[m].type = "CHECK_IN" /\ log'[m].status # "MANUAL_ADJUSTED"
                => Counted(m) \/ m \in revived'
          /\ log'[m].type = "CHECK_OUT" /\ log'[m].status = "PLAIN"
                => log[m].type = "CHECK_OUT" /\ log[m].status = "PLAIN"
    /\ \A h \in Handlers :
          /\ pc'[h] = "checkIn" => pc[h] = "checkIn" /\ (h \in outrun => h \in outrun')
          /\ pc'[h] = "checkOut" => pc[h] = "checkOut"

LEMMA HasCheckInKept ==
    ASSUME LogsKept, NEW m, HasCheckIn(m)
    PROVE  HasCheckIn(m)'
BY DEF LogsKept, HasCheckIn, Exists

\* An untouched check-out has its check-in before it.
LEMMA OrphansMeaning ==
    ASSUME Types0, References, NEW n \in Logs, Exists(n), NEW m \in Logs, m < n,
           log[m].type = "CHECK_IN" \/ m \in retyped
    PROVE  HasCheckIn(m)
BY DEF References, InOrder, HasCheckIn

LEMMA NoPunchKeeps ==
    ASSUME Types0, References, PunchesKnown, LogsKept, NoPunch
    PROVE  PunchesKnown'
<1>1. OneCheckInExplained'
  BY DEF PunchesKnown, OneCheckInExplained, NoPunch, Counted
<1>2. NoOrphanCheckOut'
  <2> SUFFICES ASSUME NEW n \in Logs,
                      log'[n].type = "CHECK_OUT", log'[n].status = "PLAIN"
               PROVE  \E m \in Logs : m < n /\ (log'[m].type = "CHECK_IN" \/ m \in retyped')
    BY DEF NoOrphanCheckOut
  <2>1. log[n].type = "CHECK_OUT" /\ log[n].status = "PLAIN"
    BY DEF NoPunch
  <2>2. PICK m \in Logs : m < n /\ (log[m].type = "CHECK_IN" \/ m \in retyped)
    BY <2>1 DEF PunchesKnown, NoOrphanCheckOut
  <2>3. HasCheckIn(m)
    BY <2>1, <2>2, OrphansMeaning DEF Exists
  <2>4. HasCheckIn(m)'
    BY <2>3, HasCheckInKept
  <2> QED  BY <2>2, <2>4 DEF HasCheckIn
<1>3. ASSUME NEW h \in Handlers PROVE FreeToCheckIn(h)' /\ FreeToCheckOut(h)'
  <2>1. FreeToCheckIn(h)'
    BY DEF PunchesKnown, FreeToCheckIn, NoPunch, Counted
  <2>2. FreeToCheckOut(h)'
    BY HasCheckInKept DEF PunchesKnown, FreeToCheckOut, NoPunch
  <2> QED  BY <2>1, <2>2
<1> QED  BY <1>1, <1>2, <1>3 DEF PunchesKnown

\* Whatever exists comes before a log that is about to be created.
LEMMA FreshIsLast ==
    ASSUME References, NEW n \in Logs, Fresh(n), NEW m \in Logs, Exists(m)
    PROVE  m < n
BY LogsAreNat DEF References, InOrder, Fresh

LEMMA PunchesNext ==
    Types0 /\ References /\ LogsKept /\ PunchesKnown /\ [Next]_vars => PunchesKnown'
<1> SUFFICES ASSUME Types0, References, LogsKept, PunchesKnown, [Next]_vars
             PROVE  PunchesKnown'
  OBVIOUS
<1> USE DEF docs, local, history
<1>1. ASSUME NoPunch PROVE PunchesKnown'
  BY <1>1, NoPunchKeeps
<1>2. ASSUME NEW h \in Handlers,
             \/ AdjustmentCreate(h) \/ AdjustmentConfirm(h) \/ OutingAccept(h)
             \/ Reject(h) \/ Cancel(h) \/ Fail(h)
             \/ \E r \in Requests, to \in PCs \ {"checkIn", "checkOut"} : ReadPending(h, r, to)
             \/ \E a \in Adjustments, type \in Punches, n \in Logs \cup {NoLog} :
                    AdjustmentRead(h, a, type, n)
      PROVE  PunchesKnown'
  <2>1. UNCHANGED <<log, revived, rushed>>
    BY <1>2 DEF AdjustmentCreate, AdjustmentConfirm, OutingAccept, Reject, Cancel, Fail,
       ReadPending, Start, AdjustmentRead
  <2>2. /\ \E to \in PCs \ {"checkIn", "checkOut"} : pc' = [pc EXCEPT ![h] = to]
        /\ outrun' = outrun \/ outrun' = outrun \ {h}
    BY <1>2 DEF AdjustmentCreate, AdjustmentConfirm, OutingAccept, Reject, Cancel, Fail,
       ReadPending, Start, AdjustmentRead, Done, Goto, PCs
  <2>3. NoPunch
    BY <2>1, <2>2 DEF NoPunch, Counted, Types0, TypeOK
  <2> QED  BY <2>3, <1>1
<1>3. ASSUME NEW h \in Handlers, CheckInRead(h) PROVE PunchesKnown'
  <2>1. /\ UNCHANGED <<log, revived, rushed, outrun, retyped>>
        /\ pc' = [pc EXCEPT ![h] = "checkIn"] /\ ~CheckedIn
    BY <1>3 DEF CheckInRead, Start, Goto
  <2>2. OneCheckInExplained' /\ NoOrphanCheckOut'
    BY <2>1 DEF PunchesKnown, OneCheckInExplained, NoOrphanCheckOut, Counted
  <2>3. ASSUME NEW g \in Handlers PROVE FreeToCheckIn(g)' /\ FreeToCheckOut(g)'
    BY <2>1 DEF PunchesKnown, FreeToCheckIn, FreeToCheckOut, CheckedIn, Counted,
       HasCheckIn, Exists, Types0, TypeOK
  <2> QED  BY <2>2, <2>3 DEF PunchesKnown
<1>4. ASSUME NEW h \in Handlers, CheckOutRead(h) PROVE PunchesKnown'
  <2>1. /\ UNCHANGED <<log, revived, rushed, outrun, retyped>>
        /\ pc' = [pc EXCEPT ![h] = "checkOut"] /\ CheckedIn
    BY <1>4 DEF CheckOutRead, Start, Goto
  <2>2. OneCheckInExplained' /\ NoOrphanCheckOut'
    BY <2>1 DEF PunchesKnown, OneCheckInExplained, NoOrphanCheckOut, Counted
  <2>3. ASSUME NEW g \in Handlers PROVE FreeToCheckIn(g)' /\ FreeToCheckOut(g)'
    BY <2>1 DEF PunchesKnown, FreeToCheckIn, FreeToCheckOut, CheckedIn, Counted,
       HasCheckIn, Exists, Types0, TypeOK
  <2> QED  BY <2>2, <2>3 DEF PunchesKnown
<1>5. ASSUME NEW h \in Handlers, CheckInCreate(h) PROVE PunchesKnown'
  <2>1. PICK n \in Logs :
          /\ Fresh(n) /\ Write(n, "CHECK_IN", "PLAIN", NoLog)
          /\ rushed' = IF h \in outrun THEN rushed \cup {n} ELSE rushed
    BY <1>5 DEF CheckInCreate
  <2>2. /\ pc[h] = "checkIn" /\ pc' = [pc EXCEPT ![h] = "idle"]
        /\ outrun' = (outrun \cup {g \in Handlers : pc[g] = "checkIn"}) \ {h}
        /\ UNCHANGED <<revived, retyped>>
    BY <1>5 DEF CheckInCreate, Done, Goto
  <2>3. /\ \A m \in Logs \ {n} : log'[m] = log[m]
        /\ log'[n].type = "CHECK_IN"
    BY <2>1 DEF Write, Types0, TypeOK
  <2>4. OneCheckInExplained'
    <3> SUFFICES ASSUME NEW k \in Logs, NEW m \in Logs, k < m, Counted(k)', Counted(m)'
                 PROVE  m \in rushed' \/ k \in revived' \/ m \in revived'
      BY DEF OneCheckInExplained
    <3>1. rushed \subseteq rushed'
      BY <2>1
    <3>2. CASE k # n /\ m # n
      BY <3>1, <3>2, <2>2, <2>3 DEF PunchesKnown, OneCheckInExplained, Counted
    <3>3. CASE k = n
      <4>1. Exists(m)
        BY <2>3, <3>3, LogsAreNat DEF Counted, Exists
      <4> QED  BY <4>1, <2>1, <3>3, FreshIsLast, LogsAreNat
    <3>4. CASE m = n
      <4>1. Counted(k)
        BY <2>3, <3>4, LogsAreNat DEF Counted
      <4> QED  BY <4>1, <2>1, <2>2, <3>4 DEF PunchesKnown, FreeToCheckIn
    <3> QED  BY <3>2, <3>3, <3>4
  <2>5. NoOrphanCheckOut'
    BY <2>2, <2>3, <2>1 DEF PunchesKnown, NoOrphanCheckOut
  <2>6. ASSUME NEW g \in Handlers PROVE FreeToCheckIn(g)' /\ FreeToCheckOut(g)'
    <3>1. FreeToCheckIn(g)'
      BY <2>2 DEF FreeToCheckIn, Types0, TypeOK
    <3>2. FreeToCheckOut(g)'
      BY <2>2, HasCheckInKept DEF PunchesKnown, FreeToCheckOut, Types0, TypeOK
    <3> QED  BY <3>1, <3>2
  <2> QED  BY <2>4, <2>5, <2>6 DEF PunchesKnown
<1>6. ASSUME NEW h \in Handlers, CheckOutCreate(h) PROVE PunchesKnown'
  <2>1. PICK n \in Logs : Fresh(n) /\ Write(n, "CHECK_OUT", "PLAIN", NoLog)
    BY <1>6 DEF CheckOutCreate
  <2>2. /\ pc[h] = "checkOut" /\ pc' = [pc EXCEPT ![h] = "idle"]
        /\ UNCHANGED <<revived, retyped, rushed, outrun>>
    BY <1>6 DEF CheckOutCreate, Done, Goto
  <2>3. /\ \A m \in Logs \ {n} : log'[m] = log[m]
        /\ log'[n].type = "CHECK_OUT"
    BY <2>1 DEF Write, Types0, TypeOK
  <2>4. OneCheckInExplained'
    BY <2>2, <2>3 DEF PunchesKnown, OneCheckInExplained, Counted
  <2>5. PICK c \in Logs : HasCheckIn(c)
    BY <2>2 DEF PunchesKnown, FreeToCheckOut
  <2>6. c < n
    BY <2>1, <2>5, FreshIsLast DEF HasCheckIn
  <2>7. NoOrphanCheckOut'
    <3> SUFFICES ASSUME NEW k \in Logs,
                        log'[k].type = "CHECK_OUT", log'[k].status = "PLAIN"
                 PROVE  \E m \in Logs : m < k /\ (log'[m].type = "CHECK_IN" \/ m \in retyped')
      BY DEF NoOrphanCheckOut
    <3>1. CASE k = n
      <4>1. HasCheckIn(c)'
        BY <2>5, HasCheckInKept
      <4> QED  BY <4>1, <2>6, <3>1 DEF HasCheckIn
    <3>2. CASE k # n
      <4>1. PICK m \in Logs : m < k /\ (log[m].type = "CHECK_IN" \/ m \in retyped)
        BY <2>3, <3>2 DEF PunchesKnown, NoOrphanCheckOut
      <4>2. Exists(k)
        BY <2>3, <3>2 DEF Exists
      <4>3. HasCheckIn(m)'
        BY <4>1, <4>2, OrphansMeaning, HasCheckInKept
      <4> QED  BY <4>1, <4>3 DEF HasCheckIn
    <3> QED  BY <3>1, <3>2
  <2>8. ASSUME NEW g \in Handlers PROVE FreeToCheckIn(g)' /\ FreeToCheckOut(g)'
    <3>1. FreeToCheckIn(g)'
      BY <2>2, <2>3 DEF PunchesKnown, FreeToCheckIn, Counted, Types0, TypeOK
    <3>2. FreeToCheckOut(g)'
      BY <2>2, HasCheckInKept DEF PunchesKnown, FreeToCheckOut, Types0, TypeOK
    <3> QED  BY <3>1, <3>2
  <2> QED  BY <2>4, <2>7, <2>8 DEF PunchesKnown
<1>7. ASSUME NEW h \in Handlers, AdjustmentCorrect(h) PROVE PunchesKnown'
  <2>1. PICK n \in Logs : Write(n, wants[job[h]], "MANUAL_ADJUSTED", target[job[h]])
    BY <1>7 DEF AdjustmentCorrect
  <2>2. /\ pc' = [pc EXCEPT ![h] = "confirm"]
        /\ UNCHANGED <<revived, rushed, outrun>>
    BY <1>7 DEF AdjustmentCorrect, Goto
  <2>3. /\ \A m \in Logs \ {n} : log'[m] = log[m]
        /\ log'[n].status = "MANUAL_ADJUSTED"
    BY <2>1 DEF Write, Types0, TypeOK
  <2>4. NoPunch
    BY <2>2, <2>3 DEF NoPunch, Counted, Types0, TypeOK
  <2> QED  BY <2>4, <1>1
<1>8. ASSUME NEW h \in Handlers, OutingMark(h) PROVE PunchesKnown'
  <2> DEFINE n == target[job[h]]
  <2>1. /\ n \in Logs
        /\ Write(n, log[n].type, "OUTSIDE_APPROVED", log[n].fixes)
        /\ pc' = [pc EXCEPT ![h] = "idle"]
        /\ UNCHANGED <<rushed, outrun>>
        /\ revived' = IF log[n].status = "MANUAL_ADJUSTED" THEN revived \cup {n} ELSE revived
    BY <1>8 DEF OutingMark, Done, Goto, Types0, Places, Place
  <2>2. /\ \A m \in Logs \ {n} : log'[m] = log[m]
        /\ log'[n].type = log[n].type /\ log'[n].status = "OUTSIDE_APPROVED"
    BY <2>1 DEF Write, Types0, TypeOK
  <2> HIDE DEF n
  <2>3. NoPunch
    BY <2>1, <2>2 DEF NoPunch, Counted, Types0, TypeOK
  <2> QED  BY <2>3, <1>1
<1>9. ASSUME NEW n \in Logs, NEW type \in Retypes, ManualAdjust(n, type)
      PROVE  PunchesKnown'
  <2>1. /\ Write(n, type, "MANUAL_ADJUSTED", log[n].fixes)
        /\ UNCHANGED <<pc, rushed, revived, outrun>>
    BY <1>9 DEF ManualAdjust
  <2>2. /\ \A m \in Logs \ {n} : log'[m] = log[m]
        /\ log'[n].status = "MANUAL_ADJUSTED"
    BY <2>1 DEF Write, Types0, TypeOK
  <2>3. NoPunch
    BY <2>1, <2>2 DEF NoPunch, Counted
  <2> QED  BY <2>3, <1>1
<1>10. ASSUME (\E o \in Outings, n \in Logs \cup {NoLog} : OutingCreate(o, n)) \/ UNCHANGED vars
       PROVE  PunchesKnown'
  <2>1. UNCHANGED <<log, pc, rushed, revived, outrun>>
    BY <1>10 DEF OutingCreate, vars
  <2>2. NoPunch
    BY <2>1 DEF NoPunch, Counted
  <2> QED  BY <2>2, <1>1
<1>11. ASSUME NEW h \in Handlers, Receive(h) PROVE PunchesKnown'
  <2>1. ASSUME NEW r \in Requests, NEW to \in PCs \ {"checkIn", "checkOut"},
               ReadPending(h, r, to)
        PROVE  PunchesKnown'
    BY <2>1, <1>2
  <2>2. ASSUME NEW a \in Adjustments, AdjustmentApproveRead(h, a) \/ CancelRead(h, a)
        PROVE  PunchesKnown'
    BY <2>1, <2>2 DEF AdjustmentApproveRead, CancelRead, PCs, Requests
  <2>3. ASSUME NEW o \in Outings, OutingApproveRead(h, o) PROVE PunchesKnown'
    BY <2>1, <2>3 DEF OutingApproveRead, PCs, Requests
  <2>4. ASSUME NEW r \in Requests, RejectRead(h, r) PROVE PunchesKnown'
    BY <2>1, <2>4 DEF RejectRead, PCs
  <2> QED  BY <1>11, <1>2, <1>3, <1>4, <2>2, <2>3, <2>4 DEF Receive
<1>12. ASSUME NEW h \in Handlers, Resume(h) \/ Fail(h) PROVE PunchesKnown'
  BY <1>12, <1>2, <1>5, <1>6, <1>7, <1>8 DEF Resume
<1>13. ASSUME Serve PROVE PunchesKnown'
  BY <1>13, <1>9, <1>10 DEF Serve
<1> QED  BY <1>10, <1>11, <1>12, <1>13 DEF Next

LEMMA PunchesInvariant == Spec => []PunchesKnown
<1>1. /\ Types0 /\ References /\ DayKeepsItsPunches /\ PunchesKnown /\ [Next]_vars
      => PunchesKnown'
  BY ReferencesNext, PunchesNext
<1> QED  BY PunchesInit, <1>1, TypesInvariant, ReferencesInvariant, PTL DEF Spec

\* A second check-in needs a race or a log that HR retyped (checkIn).
THEOREM PunchesCorrect == Spec => []OneCheckInExplained
<1>1. PunchesKnown => OneCheckInExplained
  BY DEF PunchesKnown
<1> QED  BY <1>1, PunchesInvariant, PTL

\* A check-out without a check-in needs a log that HR retyped (checkOut).
THEOREM OrphanCorrect == Spec => []NoOrphanCheckOut
<1>1. PunchesKnown => NoOrphanCheckOut
  BY DEF PunchesKnown
<1> QED  BY <1>1, PunchesInvariant, PTL

-----------------------------------------------------------------------------
(* Requests and their decisions                                             *)

Deciding(h) == pc[h] \in {"correct", "confirm", "accept", "mark", "refuse", "cancel"}

\* A request that is about to be stored belongs to one handler; one that is
\* decided exists.
Born ==
    /\ \A h \in Handlers :
          /\ pc[h] = "submit" => /\ status[job[h]] = "NONE"
                                 /\ \A g \in Handlers : g # h => job[g] # job[h]
          /\ Deciding(h) => status[job[h]] # "NONE"
    /\ \A r \in stale : status[r] # "NONE"

\* A step keeps requests and their targets, and a decision unless it is stale.
RequestsKept ==
    /\ stale \subseteq stale'
    /\ \A r \in Requests : status[r] # "NONE" =>
          /\ status'[r] # "NONE" /\ target'[r] = target[r]
          /\ status[r] = "APPROVED" => status'[r] = "APPROVED" \/ r \in stale'

LEMMA BornInit == Init => Born
BY AttendanceAssumption DEF Init, Born, Deciding

\* A step that decides at most the handler's request, and moves on.
Decision(h) ==
    /\ \/ UNCHANGED <<status, stale>>
       \/ \E d \in {"APPROVED", "REJECTED", "CANCELLED"} : Deciding(h) /\ Decide(h, d)
    /\ UNCHANGED target
    /\ pc'[h] # "submit"
    /\ job'[h] \in {job[h], NoRequest}
    /\ pc'[h] # "idle" => Deciding(h) /\ job'[h] = job[h]
    /\ \A g \in Handlers : g # h => pc'[g] = pc[g] /\ job'[g] = job[g]

LEMMA DecisionKeeps ==
    ASSUME Types0, Born, NEW h \in Handlers, Decision(h)
    PROVE  Born' /\ RequestsKept
<1> USE AttendanceAssumption DEF Types0, TypeOK
<1>1. Deciding(h) => job[h] \in Requests
  BY DEF Deciding, Places, Place, Requests
<1>2. RequestsKept
  BY <1>1 DEF Decision, Decide, RequestsKept
<1>3. \A r \in Requests : status[r] = "NONE" => status'[r] = "NONE"
  BY <1>1 DEF Decision, Decide, Born
<1>4. \A r \in stale' : status'[r] # "NONE"
  BY <1>1 DEF Decision, Decide, Born
<1>5. ASSUME NEW g \in Handlers
      PROVE  /\ pc'[g] = "submit" => /\ status'[job'[g]] = "NONE"
                                     /\ \A k \in Handlers : k # g => job'[k] # job'[g]
             /\ Deciding(g)' => status'[job'[g]] # "NONE"
  <2>1. ASSUME pc'[g] = "submit"
        PROVE  /\ status'[job'[g]] = "NONE"
               /\ \A k \in Handlers : k # g => job'[k] # job'[g]
    <3>1. g # h /\ pc[g] = "submit" /\ job'[g] = job[g]
      BY <2>1 DEF Decision
    <3>2. job[g] \in Requests /\ job[g] # NoRequest
      BY <3>1 DEF Places, Place, Requests
    <3>3. status[job[g]] = "NONE" /\ \A k \in Handlers : k # g => job[k] # job[g]
      BY <3>1 DEF Born
    <3>4. \A k \in Handlers : k # g => job'[k] # job'[g]
      BY <3>1, <3>2, <3>3 DEF Decision
    <3> QED  BY <1>3, <3>1, <3>2, <3>3, <3>4
  <2>2. ASSUME Deciding(g)' PROVE status'[job'[g]] # "NONE"
    <3>1. Deciding(g) /\ job'[g] = job[g]
      BY <2>2 DEF Decision, Deciding
    <3>2. job[g] \in Requests /\ status[job[g]] # "NONE"
      BY <3>1 DEF Deciding, Born, Places, Place, Requests
    <3> QED  BY <1>2, <3>1, <3>2 DEF RequestsKept
  <2> QED  BY <2>1, <2>2
<1> QED  BY <1>2, <1>4, <1>5 DEF Born

LEMMA BornNext == Types0 /\ Born /\ [Next]_vars => Born' /\ RequestsKept
<1> SUFFICES ASSUME Types0, Born, [Next]_vars PROVE Born' /\ RequestsKept
  OBVIOUS
<1> USE AttendanceAssumption DEF docs, local, history
<1>1. ASSUME NEW h \in Handlers,
             \/ CheckInCreate(h) \/ CheckOutCreate(h) \/ AdjustmentCorrect(h)
             \/ AdjustmentConfirm(h) \/ OutingAccept(h) \/ OutingMark(h)
             \/ Reject(h) \/ Cancel(h) \/ Fail(h)
      PROVE  Decision(h)
  <2>1. CASE CheckInCreate(h) \/ CheckOutCreate(h) \/ OutingMark(h) \/ Fail(h)
    BY <2>1 DEF CheckInCreate, CheckOutCreate, OutingMark, Fail, Done, Goto, Decision,
       Types0, TypeOK
  <2>2. CASE AdjustmentCorrect(h)
    BY <2>2 DEF AdjustmentCorrect, Goto, Decision, Deciding, Types0, TypeOK
  <2>3. CASE AdjustmentConfirm(h) \/ Reject(h) \/ Cancel(h)
    BY <2>3 DEF AdjustmentConfirm, Reject, Cancel, Done, Goto, Decision, Deciding,
       Types0, TypeOK
  <2>4. CASE OutingAccept(h)
    BY <2>4 DEF OutingAccept, Done, Goto, Decision, Deciding, Types0, TypeOK
  <2> QED  BY <1>1, <2>1, <2>2, <2>3, <2>4
<1>2. ASSUME NEW h \in Handlers, NEW r \in Requests, status[r] = "PENDING",
             NEW to \in {"correct", "accept", "refuse", "cancel"}, Start(h, to, r)
      PROVE  Born' /\ RequestsKept
  <2>1. /\ UNCHANGED <<status, stale, target>> /\ pc[h] = "idle"
        /\ pc' = [pc EXCEPT ![h] = to] /\ job' = [job EXCEPT ![h] = r]
    BY <1>2 DEF Start, Goto
  <2>2. RequestsKept
    BY <2>1 DEF RequestsKept
  <2>3. Born'
    BY <1>2, <2>1 DEF Born, Deciding, Types0, TypeOK
  <2> QED  BY <2>2, <2>3
<1>3. ASSUME NEW h \in Handlers, CheckInRead(h) \/ CheckOutRead(h)
      PROVE  Born' /\ RequestsKept
  <2>1. /\ UNCHANGED <<status, stale, target>> /\ pc[h] = "idle"
        /\ \E to \in {"checkIn", "checkOut"} : pc' = [pc EXCEPT ![h] = to]
        /\ job' = [job EXCEPT ![h] = NoRequest]
    BY <1>3 DEF CheckInRead, CheckOutRead, Start, Goto
  <2>2. RequestsKept
    BY <2>1 DEF RequestsKept
  <2>3. \A g \in Handlers : pc[g] = "submit" => job[g] # NoRequest
    BY DEF Types0, Places, Place, Requests
  <2>4. Born'
    BY <2>1, <2>3 DEF Born, Deciding, Types0, TypeOK
  <2> QED  BY <2>2, <2>4
<1>4. ASSUME NEW h \in Handlers, NEW a \in Adjustments, NEW type \in Punches,
             NEW n \in Logs \cup {NoLog}, AdjustmentRead(h, a, type, n)
      PROVE  Born' /\ RequestsKept
  <2>1. /\ UNCHANGED <<status, stale, target>> /\ pc[h] = "idle"
        /\ pc' = [pc EXCEPT ![h] = "submit"] /\ job' = [job EXCEPT ![h] = a]
        /\ status[a] = "NONE" /\ \A g \in Handlers : job[g] # a
    BY <1>4 DEF AdjustmentRead, Unborn, Goto
  <2>2. RequestsKept
    BY <2>1 DEF RequestsKept
  <2>3. Born'
    BY <2>1 DEF Born, Deciding, Types0, TypeOK
  <2> QED  BY <2>2, <2>3
<1>5. ASSUME NEW h \in Handlers, AdjustmentCreate(h) PROVE Born' /\ RequestsKept
  <2> DEFINE a == job[h]
  <2>1. /\ a \in Adjustments /\ a \in Requests /\ a # NoRequest
        /\ status[a] = "NONE" /\ \A g \in Handlers : g # h => job[g] # a
    BY <1>5 DEF AdjustmentCreate, Born, Types0, Places, Place, Requests
  <2>2. /\ pc' = [pc EXCEPT ![h] = "idle"] /\ job' = [job EXCEPT ![h] = NoRequest]
        /\ UNCHANGED stale
        /\ \/ UNCHANGED <<status, target>>
           \/ /\ status' = [status EXCEPT ![a] = "PENDING"]
              /\ target' = [target EXCEPT ![a] = draft[h].target]
    BY <1>5 DEF AdjustmentCreate, Done, Goto
  <2> HIDE DEF a
  <2>3. RequestsKept
    BY <2>1, <2>2 DEF RequestsKept, Types0, TypeOK
  <2>4. \A g \in Handlers : pc[g] = "submit" => job[g] # NoRequest
    BY DEF Types0, Places, Place, Requests
  <2>5. \A r \in stale' : status'[r] # "NONE"
    BY <2>2, <2>3 DEF RequestsKept, Born, Types0, TypeOK
  <2>6. ASSUME NEW g \in Handlers
        PROVE  /\ pc'[g] = "submit" => /\ status'[job'[g]] = "NONE"
                                       /\ \A k \in Handlers : k # g => job'[k] # job'[g]
               /\ Deciding(g)' => status'[job'[g]] # "NONE"
    <3>1. CASE g = h
      BY <2>2, <3>1 DEF Deciding, Types0, TypeOK
    <3>2. CASE g # h
      <4>1. pc'[g] = pc[g] /\ job'[g] = job[g] /\ job[g] # a
        BY <2>1, <2>2, <3>2 DEF Types0, TypeOK
      <4>2. job[g] \in Requests => status'[job[g]] = status[job[g]]
        BY <2>2, <4>1 DEF Types0, TypeOK
      <4>3. \A k \in Handlers : job'[k] = job[k] \/ job'[k] = NoRequest
        BY <2>2 DEF Types0, TypeOK
      <4>4. ASSUME pc[g] = "submit"
            PROVE  /\ status[job[g]] = "NONE"
                   /\ \A k \in Handlers : k # g => job'[k] # job[g]
        <5>1. /\ status[job[g]] = "NONE"
              /\ \A k \in Handlers : k # g => job[k] # job[g]
          BY <4>4 DEF Born
        <5>2. job[g] # NoRequest
          BY <2>4, <4>4
        <5> QED  BY <4>3, <5>1, <5>2
      <4>5. Deciding(g) => status[job[g]] # "NONE"
        BY DEF Born
      <4>6. pc[g] = "submit" \/ Deciding(g) => job[g] \in Requests
        BY DEF Types0, Places, Place, Deciding, Requests
      <4> QED  BY <4>1, <4>2, <4>4, <4>5, <4>6 DEF Deciding
    <3> QED  BY <3>1, <3>2
  <2>7. Born'
    BY <2>5, <2>6 DEF Born
  <2> QED  BY <2>3, <2>7
<1>6. ASSUME NEW o \in Outings, NEW n \in Logs \cup {NoLog}, OutingCreate(o, n)
      PROVE  Born' /\ RequestsKept
  <2>1. /\ UNCHANGED <<pc, job, stale>>
        /\ status' = [status EXCEPT ![o] = "PENDING"]
        /\ target' = [target EXCEPT ![o] = n]
        /\ status[o] = "NONE" /\ \A g \in Handlers : job[g] # o
    BY <1>6 DEF OutingCreate, Unborn
  <2>2. RequestsKept
    BY <2>1 DEF RequestsKept, Types0, TypeOK, Requests
  <2>3. Born'
    BY <2>1 DEF Born, Deciding, Types0, TypeOK, Requests
  <2> QED  BY <2>2, <2>3
<1>7. ASSUME (\E n \in Logs, type \in Retypes : ManualAdjust(n, type)) \/ UNCHANGED vars
      PROVE  Born' /\ RequestsKept
  <2>1. UNCHANGED <<status, target, stale, pc, job>>
    BY <1>7 DEF ManualAdjust, vars
  <2> QED  BY <2>1 DEF Born, Deciding, RequestsKept
<1>8. ASSUME NEW h \in Handlers, Receive(h) PROVE Born' /\ RequestsKept
  <2>1. ASSUME NEW a \in Adjustments, AdjustmentApproveRead(h, a) \/ CancelRead(h, a)
        PROVE  Born' /\ RequestsKept
    BY <2>1, <1>2 DEF AdjustmentApproveRead, CancelRead, ReadPending, Requests
  <2>2. ASSUME NEW o \in Outings, OutingApproveRead(h, o) PROVE Born' /\ RequestsKept
    BY <2>2, <1>2 DEF OutingApproveRead, ReadPending, Requests
  <2>3. ASSUME NEW r \in Requests, RejectRead(h, r) PROVE Born' /\ RequestsKept
    BY <2>3, <1>2 DEF RejectRead, ReadPending
  <2> QED  BY <1>8, <1>3, <1>4, <2>1, <2>2, <2>3 DEF Receive
<1>9. ASSUME NEW h \in Handlers, Resume(h) \/ Fail(h) PROVE Born' /\ RequestsKept
  BY <1>9, <1>1, <1>5, DecisionKeeps DEF Resume
<1>10. ASSUME Serve PROVE Born' /\ RequestsKept
  BY <1>10, <1>6, <1>7 DEF Serve
<1> QED  BY <1>7, <1>8, <1>9, <1>10 DEF Next

LEMMA BornInvariant == Spec => []Born
BY BornInit, BornNext, TypesInvariant, PTL DEF Spec

-----------------------------------------------------------------------------
(* What approvals leave behind                                              *)

\* A handler between a correction log and its request.
Holding(h) ==
    pc[h] = "confirm" =>
        /\ Exists(fix[h]) /\ log[fix[h]].fixes = target[job[h]]
        /\ \A b \in Adjustments : link[b] # fix[h]
        /\ \A g \in Handlers \ {h} : pc[g] = "confirm" => fix[g] # fix[h]

LinksKnown ==
    /\ LinkedCorrection
    /\ \A a \in Adjustments : link[a] # NoLog => Exists(link[a])
    /\ \A h \in Handlers : Holding(h)

CountsKnown ==
    /\ CorrectedExactlyOnce
    /\ \A a \in Adjustments : IsFiniteSet(Confirming(a))

MarksKnown ==
    /\ OutsideExplained
    /\ \A h \in Handlers :
          pc[h] = "mark" => status[job[h]] = "APPROVED" \/ job[h] \in stale

LEMMA EffectsInit == Init => LinksKnown /\ CountsKnown /\ MarksKnown
<1> SUFFICES ASSUME Init PROVE LinksKnown /\ CountsKnown /\ MarksKnown
  OBVIOUS
<1>1. LinksKnown /\ MarksKnown
  BY DEF Init, LinksKnown, LinkedCorrection, Holding, MarksKnown, OutsideExplained,
         NoDoc, Requests
<1>2. \A a \in Adjustments : Confirming(a) = {}
  BY DEF Init, Confirming
<1>3. CountsKnown
  BY <1>2, FS_EmptySet DEF Init, CountsKnown, CorrectedExactlyOnce, Requests
<1> QED  BY <1>1, <1>3

\* A step that neither creates nor links a correction log.
NoCorrection ==
    /\ UNCHANGED link
    /\ cut \subseteq cut'
    /\ \A a \in Adjustments :
          made'[a] = made[a] /\ (status'[a] = "APPROVED" => status[a] = "APPROVED")
    /\ \A h \in Handlers :
          /\ pc'[h] = "confirm" => pc[h] = "confirm" /\ job'[h] = job[h] /\ fix'[h] = fix[h]
          /\ pc[h] = "confirm" => pc'[h] = "confirm" \/ job[h] \in cut'

LEMMA LinksKept ==
    ASSUME Types0, Born, LogsKept, RequestsKept, LinksKnown, NoCorrection
    PROVE  LinksKnown'
<1> USE DEF Exists
<1>1. ASSUME NEW a \in Adjustments, status'[a] = "APPROVED"
      PROVE  /\ link'[a] \in Logs /\ log'[link'[a]].type # "NONE"
             /\ log'[link'[a]].fixes = target'[a]
             /\ \A b \in Adjustments \ {a} : link'[b] # link'[a]
  <2>1. status[a] = "APPROVED" /\ link' = link /\ a \in Requests
    BY <1>1 DEF NoCorrection, Requests
  <2>2. target'[a] = target[a]
    BY <2>1 DEF RequestsKept
  <2> QED  BY <2>1, <2>2 DEF LinksKnown, LinkedCorrection, LogsKept
<1>2. \A a \in Adjustments : link'[a] # NoLog => log'[link'[a]].type # "NONE"
  BY DEF NoCorrection, LinksKnown, LogsKept, Types0, TypeOK
<1>3. ASSUME NEW h \in Handlers PROVE Holding(h)'
  <2> SUFFICES ASSUME pc'[h] = "confirm"
               PROVE  /\ log'[fix'[h]].type # "NONE" /\ log'[fix'[h]].fixes = target'[job'[h]]
                      /\ \A b \in Adjustments : link'[b] # fix'[h]
                      /\ \A g \in Handlers \ {h} : pc'[g] = "confirm" => fix'[g] # fix'[h]
    BY DEF Holding
  <2>1. pc[h] = "confirm" /\ job'[h] = job[h] /\ fix'[h] = fix[h] /\ link' = link
    BY DEF NoCorrection
  <2>2. /\ job[h] \in Requests /\ fix[h] \in Logs /\ target'[job[h]] = target[job[h]]
    BY <2>1 DEF RequestsKept, Born, Deciding, Types0, Places, Place, Requests
  <2>3. /\ log[fix[h]].type # "NONE" /\ log[fix[h]].fixes = target[job[h]]
        /\ \A b \in Adjustments : link[b] # fix[h]
        /\ \A g \in Handlers \ {h} : pc[g] = "confirm" => fix[g] # fix[h]
    BY <2>1 DEF LinksKnown, Holding
  <2>4. \A g \in Handlers \ {h} : pc'[g] = "confirm" => fix'[g] # fix'[h]
    BY <2>1, <2>3 DEF NoCorrection
  <2> QED  BY <2>1, <2>2, <2>3, <2>4 DEF LogsKept
<1> QED  BY <1>1, <1>2, <1>3 DEF LinksKnown, LinkedCorrection

LEMMA CountsKept ==
    ASSUME Types0, RequestsKept, CountsKnown, NoCorrection
    PROVE  CountsKnown'
<1>1. ASSUME NEW a \in Adjustments
      PROVE  /\ IsFiniteSet(Confirming(a)')
             /\ a \notin cut' => Confirming(a)' = Confirming(a)
  <2>1. Confirming(a)' \subseteq Confirming(a)
    BY DEF Confirming, NoCorrection
  <2>2. IsFiniteSet(Confirming(a)')
    BY <2>1, FS_Subset DEF CountsKnown
  <2>3. ASSUME a \notin cut' PROVE Confirming(a) \subseteq Confirming(a)'
    <3> SUFFICES ASSUME NEW h \in Handlers, pc[h] = "confirm", job[h] = a
                 PROVE  pc'[h] = "confirm" /\ job'[h] = a
      BY DEF Confirming
    <3> QED  BY <2>3 DEF NoCorrection
  <2> QED  BY <2>1, <2>2, <2>3
<1>2. ASSUME NEW a \in Adjustments, a \notin stale', a \notin cut'
      PROVE  made'[a] = Cardinality(Confirming(a)')
                            + (IF status'[a] = "APPROVED" THEN 1 ELSE 0)
  <2>1. a \notin stale /\ a \notin cut /\ a \in Requests
    BY <1>2 DEF RequestsKept, NoCorrection, Requests
  <2>2. status'[a] = "APPROVED" <=> status[a] = "APPROVED"
    BY <1>2, <2>1 DEF RequestsKept, NoCorrection
  <2>3. made[a] = Cardinality(Confirming(a)) + (IF status[a] = "APPROVED" THEN 1 ELSE 0)
    BY <2>1 DEF CountsKnown, CorrectedExactlyOnce
  <2> QED  BY <1>1, <1>2, <2>2, <2>3 DEF NoCorrection
<1> QED  BY <1>1, <1>2 DEF CountsKnown, CorrectedExactlyOnce

\* A step that starts no marking and marks no log.
NoMark ==
    /\ \A n \in Logs : log'[n].status = "OUTSIDE_APPROVED" => log[n].status = "OUTSIDE_APPROVED"
    /\ \A h \in Handlers : pc'[h] = "mark" => pc[h] = "mark" /\ job'[h] = job[h]

LEMMA MarksKept ==
    ASSUME Types0, Born, RequestsKept, MarksKnown, NoMark
    PROVE  MarksKnown'
<1>1. ASSUME NEW o \in Requests, status[o] = "APPROVED" \/ o \in stale
      PROVE  target'[o] = target[o] /\ (status'[o] = "APPROVED" \/ o \in stale')
  BY <1>1 DEF Born, RequestsKept
<1>2. ASSUME NEW n \in Logs, log'[n].status = "OUTSIDE_APPROVED"
      PROVE  \E o \in Outings : target'[o] = n /\ (status'[o] = "APPROVED" \/ o \in stale')
  <2>1. PICK o \in Outings : target[o] = n /\ (status[o] = "APPROVED" \/ o \in stale)
    BY <1>2 DEF NoMark, MarksKnown, OutsideExplained
  <2> QED  BY <1>1, <2>1 DEF Requests
<1>3. ASSUME NEW h \in Handlers, pc'[h] = "mark"
      PROVE  status'[job'[h]] = "APPROVED" \/ job'[h] \in stale'
  <2>1. pc[h] = "mark" /\ job'[h] = job[h]
    BY <1>3 DEF NoMark
  <2>2. job[h] \in Requests /\ (status[job[h]] = "APPROVED" \/ job[h] \in stale)
    BY <2>1 DEF MarksKnown, Types0, Places, Place, Requests
  <2> QED  BY <1>1, <2>1, <2>2
<1> QED  BY <1>2, <1>3 DEF MarksKnown, OutsideExplained

\* AdjustmentCorrect: the new log is nobody else's.
LEMMA CorrectKeeps ==
    ASSUME Types0, References, Born, LogsKept, LinksKnown, CountsKnown,
           NEW h \in Handlers, AdjustmentCorrect(h)
    PROVE  LinksKnown' /\ CountsKnown'
<1> DEFINE a == job[h]
<1>1. PICK n \in Logs : /\ Fresh(n) /\ Write(n, wants[a], "MANUAL_ADJUSTED", target[a])
                        /\ fix' = [fix EXCEPT ![h] = n]
  BY DEF AdjustmentCorrect
<1>2. /\ a \in Adjustments /\ a \in Requests /\ pc[h] = "correct"
      /\ pc' = [pc EXCEPT ![h] = "confirm"] /\ made' = [made EXCEPT ![a] = @ + 1]
      /\ UNCHANGED <<status, target, link, job, stale, cut>>
  BY DEF AdjustmentCorrect, Goto, Types0, Places, Place, Requests
<1>3. log'[n].type # "NONE" /\ log'[n].fixes = target[a] /\ ~Exists(n)
  BY <1>1, <1>2 DEF Write, Fresh, Types0, TypeOK, Punches
<1> HIDE DEF a
<1>4. LinkedCorrection'
  BY <1>2 DEF LinksKnown, LinkedCorrection, LogsKept, Exists, Requests
<1>5. \A b \in Adjustments : link'[b] # NoLog => log'[link'[b]].type # "NONE"
  BY <1>2 DEF LinksKnown, LogsKept, Exists, Types0, TypeOK
<1>6. ASSUME NEW g \in Handlers PROVE Holding(g)'
  <2>1. CASE g = h
    <3>1. fix'[g] = n /\ job'[g] = a
      BY <1>1, <1>2, <2>1 DEF Types0, TypeOK, a
    <3>2. \A b \in Adjustments : link[b] # n
      BY <1>3, LogsAreNat DEF LinksKnown
    <3>3. \A k \in Handlers \ {g} : pc'[k] = "confirm" => fix'[k] # n
      BY <1>1, <1>2, <1>3, <2>1 DEF LinksKnown, Holding, Types0, TypeOK
    <3> QED  BY <1>2, <1>3, <3>1, <3>2, <3>3 DEF Holding, Exists
  <2>2. CASE g # h
    <3>1. pc'[g] = pc[g] /\ fix'[g] = fix[g] /\ job'[g] = job[g]
      BY <1>1, <1>2, <2>2 DEF Types0, TypeOK
    <3>2. ASSUME pc[g] = "confirm"
          PROVE  /\ log'[fix[g]].type # "NONE" /\ log'[fix[g]].fixes = target[job[g]]
                 /\ \A b \in Adjustments : link[b] # fix[g]
                 /\ \A k \in Handlers \ {g} : pc'[k] = "confirm" => fix'[k] # fix[g]
      <4>1. /\ fix[g] \in Logs /\ Exists(fix[g]) /\ log[fix[g]].fixes = target[job[g]]
            /\ \A b \in Adjustments : link[b] # fix[g]
            /\ \A k \in Handlers \ {g} : pc[k] = "confirm" => fix[k] # fix[g]
        BY <3>2 DEF LinksKnown, Holding, Types0, Places, Place
      <4>2. \A k \in Handlers \ {g} : pc'[k] = "confirm" => fix'[k] # fix[g]
        BY <1>1, <1>2, <1>3, <4>1 DEF Types0, TypeOK
      <4> QED  BY <4>1, <4>2 DEF LogsKept
    <3> QED  BY <1>2, <3>1, <3>2 DEF Holding, Exists
  <2> QED  BY <2>1, <2>2
<1>7. ASSUME NEW b \in Adjustments
      PROVE  /\ IsFiniteSet(Confirming(b)')
             /\ b \notin stale' \cup cut' =>
                   made'[b] = Cardinality(Confirming(b)')
                                  + (IF status'[b] = "APPROVED" THEN 1 ELSE 0)
  <2>1. IsFiniteSet(Confirming(b))
    BY DEF CountsKnown
  <2>2. b \in Requests /\ made[b] \in Nat
    BY DEF Requests, Types0, TypeOK
  <2>3. b \notin stale' \cup cut' =>
          made[b] = Cardinality(Confirming(b)) + (IF status[b] = "APPROVED" THEN 1 ELSE 0)
    BY <1>2 DEF CountsKnown, CorrectedExactlyOnce
  <2>4. CASE b = a
    <3>1. Confirming(b)' = Confirming(b) \cup {h}
      BY <1>2, <2>4 DEF Confirming, a, Types0, TypeOK
    <3>2. h \notin Confirming(b)
      BY <1>2 DEF Confirming
    <3>3. /\ IsFiniteSet(Confirming(b)')
          /\ Cardinality(Confirming(b)') = Cardinality(Confirming(b)) + 1
          /\ Cardinality(Confirming(b)) \in Nat
      BY <2>1, <3>1, <3>2, FS_AddElement, FS_CardinalityType
    <3>4. made'[b] = made[b] + 1 /\ status'[b] = status[b]
      BY <1>2, <2>2, <2>4 DEF Types0, TypeOK
    <3> QED  BY <2>3, <3>3, <3>4
  <2>5. CASE b # a
    <3>1. Confirming(b)' = Confirming(b)
      BY <1>2, <2>5 DEF Confirming, a, Types0, TypeOK
    <3>2. made'[b] = made[b] /\ status'[b] = status[b]
      BY <1>2, <2>2, <2>5 DEF Types0, TypeOK
    <3> QED  BY <2>1, <2>3, <3>1, <3>2
  <2> QED  BY <2>4, <2>5
<1> QED  BY <1>4, <1>5, <1>6, <1>7 DEF LinksKnown, CountsKnown, CorrectedExactlyOnce, Exists

\* AdjustmentConfirm: the handler's log becomes the request's.
LEMMA ConfirmKeeps ==
    ASSUME Types0, Born, LogsKept, LinksKnown, CountsKnown,
           NEW h \in Handlers, AdjustmentConfirm(h)
    PROVE  LinksKnown' /\ CountsKnown'
<1> DEFINE a == job[h]
<1>1. /\ a \in Adjustments /\ a \in Requests /\ a # NoRequest /\ pc[h] = "confirm"
      /\ fix[h] \in Logs
      /\ pc' = [pc EXCEPT ![h] = "idle"] /\ job' = [job EXCEPT ![h] = NoRequest]
      /\ fix' = [fix EXCEPT ![h] = NoLog]
      /\ link' = [link EXCEPT ![a] = fix[h]] /\ status' = [status EXCEPT ![a] = "APPROVED"]
      /\ stale' = IF status[a] = "PENDING" THEN stale ELSE stale \cup {a}
      /\ UNCHANGED <<log, target, made, cut>>
  BY AttendanceAssumption
  DEF AdjustmentConfirm, Decide, Done, Goto, Types0, Places, Place, Requests
<1>2. /\ Exists(fix[h]) /\ log[fix[h]].fixes = target[a]
      /\ \A b \in Adjustments : link[b] # fix[h]
      /\ \A g \in Handlers \ {h} : pc[g] = "confirm" => fix[g] # fix[h]
  BY <1>1 DEF LinksKnown, Holding
<1> HIDE DEF a
<1>3. LinkedCorrection'
  <2> SUFFICES ASSUME NEW b \in Adjustments, status'[b] = "APPROVED"
               PROVE  /\ link'[b] \in Logs /\ log[link'[b]].type # "NONE"
                      /\ log[link'[b]].fixes = target[b]
                      /\ \A c \in Adjustments \ {b} : link'[c] # link'[b]
    BY <1>1 DEF LinkedCorrection, Exists
  <2>1. CASE b = a
    BY <1>1, <1>2, <2>1 DEF Exists, Types0, TypeOK
  <2>2. CASE b # a
    <3>1. status[b] = "APPROVED" /\ link'[b] = link[b]
      BY <1>1, <2>2 DEF Types0, TypeOK, Requests
    <3> QED  BY <1>1, <1>2, <3>1 DEF LinksKnown, LinkedCorrection, Exists, Types0, TypeOK
  <2> QED  BY <2>1, <2>2
<1>4. \A b \in Adjustments : link'[b] # NoLog => log'[link'[b]].type # "NONE"
  BY <1>1, <1>2 DEF LinksKnown, Exists, Types0, TypeOK
<1>5. ASSUME NEW g \in Handlers PROVE Holding(g)'
  <2>1. CASE g = h
    BY <1>1, <2>1 DEF Holding, Types0, TypeOK
  <2>2. CASE g # h
    <3>1. pc'[g] = pc[g] /\ fix'[g] = fix[g] /\ job'[g] = job[g]
      BY <1>1, <2>2 DEF Types0, TypeOK
    <3>2. ASSUME pc[g] = "confirm"
          PROVE  /\ log[fix[g]].type # "NONE" /\ log[fix[g]].fixes = target[job[g]]
                 /\ \A b \in Adjustments : link'[b] # fix[g]
                 /\ \A k \in Handlers \ {g} : pc'[k] = "confirm" => fix'[k] # fix[g]
      <4>1. /\ Exists(fix[g]) /\ log[fix[g]].fixes = target[job[g]]
            /\ \A b \in Adjustments : link[b] # fix[g]
            /\ \A k \in Handlers \ {g} : pc[k] = "confirm" => fix[k] # fix[g]
        BY <3>2 DEF LinksKnown, Holding
      <4>2. fix[h] # fix[g]
        BY <1>2, <2>2, <3>2
      <4>3. \A b \in Adjustments : link'[b] # fix[g]
        BY <1>1, <4>1, <4>2 DEF Types0, TypeOK
      <4>4. \A k \in Handlers \ {g} : pc'[k] = "confirm" => fix'[k] # fix[g]
        BY <1>1, <4>1 DEF Types0, TypeOK
      <4> QED  BY <4>1, <4>3, <4>4 DEF Exists
    <3> QED  BY <1>1, <3>1, <3>2 DEF Holding, Exists
  <2> QED  BY <2>1, <2>2
<1>6. ASSUME NEW b \in Adjustments
      PROVE  /\ IsFiniteSet(Confirming(b)')
             /\ b \notin stale' \cup cut' =>
                   made'[b] = Cardinality(Confirming(b)')
                                  + (IF status'[b] = "APPROVED" THEN 1 ELSE 0)
  <2>1. IsFiniteSet(Confirming(b))
    BY DEF CountsKnown
  <2>2. b \in Requests
    BY DEF Requests
  <2>3. b \notin stale' \cup cut' =>
          made[b] = Cardinality(Confirming(b)) + (IF status[b] = "APPROVED" THEN 1 ELSE 0)
    BY <1>1 DEF CountsKnown, CorrectedExactlyOnce
  <2>4. CASE b = a
    <3>1. Confirming(b)' = Confirming(b) \ {h}
      BY <1>1, <2>4 DEF Confirming, a, Types0, TypeOK
    <3>2. h \in Confirming(b)
      BY <1>1, <2>4 DEF Confirming, a
    <3>3. /\ IsFiniteSet(Confirming(b)')
          /\ Cardinality(Confirming(b)') = Cardinality(Confirming(b)) - 1
          /\ Cardinality(Confirming(b)) \in Nat
      BY <2>1, <3>1, <3>2, FS_RemoveElement, FS_CardinalityType
    <3>4. /\ status'[b] = "APPROVED" /\ made'[b] = made[b]
          /\ b \notin stale' => status[b] = "PENDING"
      BY <1>1, <2>4 DEF Types0, TypeOK
    <3> QED  BY <2>3, <3>3, <3>4
  <2>5. CASE b # a
    <3>1. Confirming(b)' = Confirming(b)
      BY <1>1, <2>5 DEF Confirming, a, Types0, TypeOK
    <3>2. made'[b] = made[b] /\ status'[b] = status[b]
      BY <1>1, <2>2, <2>5 DEF Types0, TypeOK
    <3> QED  BY <2>1, <2>3, <3>1, <3>2
  <2> QED  BY <2>4, <2>5
<1> QED  BY <1>3, <1>4, <1>5, <1>6 DEF LinksKnown, CountsKnown, CorrectedExactlyOnce, Exists

LEMMA EffectsNext ==
    /\ Types0 /\ References /\ Born /\ LogsKept /\ RequestsKept
    /\ LinksKnown /\ CountsKnown /\ MarksKnown /\ [Next]_vars
    => LinksKnown' /\ CountsKnown' /\ MarksKnown'
<1> DEFINE Goal == LinksKnown' /\ CountsKnown' /\ MarksKnown'
<1> SUFFICES ASSUME Types0, References, Born, LogsKept, RequestsKept,
                    LinksKnown, CountsKnown, MarksKnown, [Next]_vars
             PROVE  Goal
  OBVIOUS
<1> USE AttendanceAssumption DEF docs, local, history
<1>1. ASSUME NoCorrection, NoMark PROVE Goal
  BY <1>1, LinksKept, CountsKept, MarksKept
<1> HIDE DEF Goal
<1>2. ASSUME NEW h \in Handlers, NEW to \in PCs \ {"confirm", "mark"}, NEW r,
             Start(h, to, r)
      PROVE  Goal
  <2>1. NoCorrection /\ NoMark
    BY <1>2 DEF Start, Goto, NoCorrection, NoMark, Types0, TypeOK
  <2> QED  BY <2>1, <1>1
<1>3. ASSUME NEW h \in Handlers, NEW a \in Adjustments, NEW type \in Punches,
             NEW n \in Logs \cup {NoLog}, AdjustmentRead(h, a, type, n)
      PROVE  Goal
  <2>1. NoCorrection /\ NoMark
    BY <1>3 DEF AdjustmentRead, Goto, NoCorrection, NoMark, Types0, TypeOK
  <2> QED  BY <2>1, <1>1
<1>4. ASSUME NEW h \in Handlers, CheckInCreate(h) \/ CheckOutCreate(h) PROVE Goal
  <2>1. PICK n \in Logs, type \in Punches : Write(n, type, "PLAIN", NoLog)
    BY <1>4 DEF CheckInCreate, CheckOutCreate, Punches
  <2>2. \A m \in Logs : log'[m].status = "OUTSIDE_APPROVED" => log[m].status = "OUTSIDE_APPROVED"
    BY <2>1 DEF Write, Types0, TypeOK
  <2>3. /\ UNCHANGED <<status, link, made, cut>> /\ Done(h)
        /\ pc[h] # "confirm"
    BY <1>4 DEF CheckInCreate, CheckOutCreate
  <2>4. NoCorrection /\ NoMark
    BY <2>2, <2>3 DEF Done, Goto, NoCorrection, NoMark, Types0, TypeOK
  <2> QED  BY <2>4, <1>1
<1>5. ASSUME NEW h \in Handlers, AdjustmentCreate(h) PROVE Goal
  <2>1. /\ UNCHANGED <<log, link, made, cut>> /\ Done(h) /\ pc[h] # "confirm"
        /\ status' = status \/ status' = [status EXCEPT ![job[h]] = "PENDING"]
    BY <1>5 DEF AdjustmentCreate
  <2>2. NoCorrection /\ NoMark
    BY <2>1 DEF Done, Goto, NoCorrection, NoMark, Types0, TypeOK, Requests
  <2> QED  BY <2>2, <1>1
<1>6. ASSUME NEW h \in Handlers, Reject(h) \/ Cancel(h) PROVE Goal
  <2>1. /\ UNCHANGED <<log, link, made, cut>> /\ Done(h) /\ pc[h] # "confirm"
        /\ \E d \in {"REJECTED", "CANCELLED"} : status' = [status EXCEPT ![job[h]] = d]
    BY <1>6 DEF Reject, Cancel, Decide
  <2>2. NoCorrection /\ NoMark
    BY <2>1 DEF Done, Goto, NoCorrection, NoMark, Types0, TypeOK, Requests
  <2> QED  BY <2>2, <1>1
<1>7. ASSUME NEW h \in Handlers, Fail(h) PROVE Goal
  <2>1. /\ UNCHANGED <<log, status, link, made>> /\ Done(h)
        /\ cut' = IF pc[h] \in {"confirm", "mark"} THEN cut \cup {job[h]} ELSE cut
    BY <1>7 DEF Fail
  <2>2. NoCorrection /\ NoMark
    BY <2>1 DEF Done, Goto, NoCorrection, NoMark, Types0, TypeOK
  <2> QED  BY <2>2, <1>1
<1>8. ASSUME NEW n \in Logs, NEW type \in Retypes, ManualAdjust(n, type) PROVE Goal
  <2>1. /\ Write(n, type, "MANUAL_ADJUSTED", log[n].fixes)
        /\ UNCHANGED <<status, link, made, cut, pc, job, fix>>
    BY <1>8 DEF ManualAdjust
  <2>2. \A m \in Logs : log'[m].status = "OUTSIDE_APPROVED" => log[m].status = "OUTSIDE_APPROVED"
    BY <2>1 DEF Write, Types0, TypeOK
  <2>3. NoCorrection /\ NoMark
    BY <2>1, <2>2 DEF NoCorrection, NoMark
  <2> QED  BY <2>3, <1>1
<1>9. ASSUME NEW o \in Outings, NEW n \in Logs \cup {NoLog}, OutingCreate(o, n)
      PROVE  Goal
  <2>1. /\ UNCHANGED <<log, link, made, cut, pc, job, fix>>
        /\ status' = [status EXCEPT ![o] = "PENDING"]
    BY <1>9 DEF OutingCreate
  <2>2. NoCorrection /\ NoMark
    BY <2>1 DEF NoCorrection, NoMark, Types0, TypeOK, Requests
  <2> QED  BY <2>2, <1>1
<1>10. ASSUME UNCHANGED vars PROVE Goal
  <2>1. NoCorrection /\ NoMark
    BY <1>10 DEF vars, NoCorrection, NoMark
  <2> QED  BY <2>1, <1>1
<1>11. ASSUME NEW h \in Handlers, AdjustmentCorrect(h) PROVE Goal
  <2>1. PICK n \in Logs : Write(n, wants[job[h]], "MANUAL_ADJUSTED", target[job[h]])
    BY <1>11 DEF AdjustmentCorrect
  <2>2. NoMark
    BY <1>11, <2>1 DEF AdjustmentCorrect, Goto, Write, NoMark, Types0, TypeOK
  <2> QED  BY <1>11, <2>2, CorrectKeeps, MarksKept DEF Goal
<1>12. ASSUME NEW h \in Handlers, AdjustmentConfirm(h) PROVE Goal
  <2>1. NoMark
    BY <1>12 DEF AdjustmentConfirm, Done, Goto, NoMark, Types0, TypeOK
  <2> QED  BY <1>12, <2>1, ConfirmKeeps, MarksKept DEF Goal
<1>13. ASSUME NEW h \in Handlers, OutingAccept(h) PROVE Goal
  <2> DEFINE o == job[h]
  <2>1. /\ o \in Outings /\ o \in Requests /\ o \notin Adjustments
        /\ pc[h] = "accept"
        /\ UNCHANGED <<log, target, link, made, cut>>
        /\ status' = [status EXCEPT ![o] = "APPROVED"]
    BY <1>13 DEF OutingAccept, Decide, Types0, Places, Place, Requests
  <2>2. \/ Done(h)
        \/ pc' = [pc EXCEPT ![h] = "mark"] /\ UNCHANGED <<job, fix>>
    BY <1>13 DEF OutingAccept, Goto
  <2>3. NoCorrection
    BY <2>1, <2>2 DEF Done, Goto, NoCorrection, Types0, TypeOK, Requests
  <2>4. ASSUME NEW r \in Requests, status[r] = "APPROVED" \/ r \in stale
        PROVE  target'[r] = target[r] /\ (status'[r] = "APPROVED" \/ r \in stale')
    BY <2>4 DEF Born, RequestsKept
  <2>5. OutsideExplained'
    <3> SUFFICES ASSUME NEW n \in Logs, log[n].status = "OUTSIDE_APPROVED"
                 PROVE  \E q \in Outings : target'[q] = n
                                             /\ (status'[q] = "APPROVED" \/ q \in stale')
      BY <2>1 DEF OutsideExplained
    <3>1. PICK q \in Outings : target[q] = n /\ (status[q] = "APPROVED" \/ q \in stale)
      BY DEF MarksKnown, OutsideExplained
    <3> QED  BY <2>4, <3>1 DEF Requests
  <2>6. ASSUME NEW g \in Handlers, pc'[g] = "mark"
        PROVE  status'[job'[g]] = "APPROVED" \/ job'[g] \in stale'
    <3>1. CASE g = h
      <4>1. job'[g] = o
        BY <2>2, <2>6, <3>1 DEF Done, Goto, Types0, TypeOK
      <4> QED  BY <2>1, <4>1 DEF Types0, TypeOK
    <3>2. CASE g # h
      <4>1. pc[g] = "mark" /\ job'[g] = job[g]
        BY <2>2, <2>6, <3>2 DEF Done, Goto, Types0, TypeOK
      <4>2. job[g] \in Requests /\ (status[job[g]] = "APPROVED" \/ job[g] \in stale)
        BY <4>1 DEF MarksKnown, Types0, Places, Place, Requests
      <4> QED  BY <2>4, <4>1, <4>2
    <3> QED  BY <3>1, <3>2
  <2>7. MarksKnown'
    BY <2>5, <2>6 DEF MarksKnown
  <2> QED  BY <2>3, <2>7, LinksKept, CountsKept DEF Goal
<1>14. ASSUME NEW h \in Handlers, OutingMark(h) PROVE Goal
  <2> DEFINE o == job[h]
             n == target[o]
  <2>1. /\ o \in Outings /\ o \in Requests /\ o \notin Adjustments /\ n \in Logs
        /\ pc[h] = "mark"
        /\ Write(n, log[n].type, "OUTSIDE_APPROVED", log[n].fixes)
        /\ made' = [made EXCEPT ![o] = @ + 1]
        /\ UNCHANGED <<status, target, link, stale, cut>>
        /\ Done(h)
    BY <1>14 DEF OutingMark, Types0, Places, Place, Requests
  <2>2. NoCorrection
    BY <2>1 DEF Done, Goto, NoCorrection, Types0, TypeOK, Requests
  <2>3. \A m \in Logs \ {n} : log'[m] = log[m]
    BY <2>1 DEF Write, Types0, TypeOK
  <2>4. status[o] = "APPROVED" \/ o \in stale
    BY <2>1 DEF MarksKnown
  <2>5. OutsideExplained'
    BY <2>1, <2>3, <2>4 DEF MarksKnown, OutsideExplained
  <2>6. \A g \in Handlers : pc'[g] = "mark" => pc[g] = "mark" /\ job'[g] = job[g]
    BY <2>1 DEF Done, Goto, Types0, TypeOK
  <2>7. MarksKnown'
    BY <2>1, <2>5, <2>6 DEF MarksKnown
  <2> QED  BY <2>2, <2>7, LinksKept, CountsKept DEF Goal
<1>15. ASSUME NEW h \in Handlers, Receive(h) PROVE Goal
  <2>1. ASSUME CheckInRead(h) \/ CheckOutRead(h) PROVE Goal
    BY <2>1, <1>2 DEF CheckInRead, CheckOutRead, PCs
  <2>2. ASSUME NEW a \in Adjustments, AdjustmentApproveRead(h, a) \/ CancelRead(h, a)
        PROVE  Goal
    BY <2>2, <1>2 DEF AdjustmentApproveRead, CancelRead, ReadPending, PCs
  <2>3. ASSUME NEW o \in Outings, OutingApproveRead(h, o) PROVE Goal
    BY <2>3, <1>2 DEF OutingApproveRead, ReadPending, PCs
  <2>4. ASSUME NEW r \in Requests, RejectRead(h, r) PROVE Goal
    BY <2>4, <1>2 DEF RejectRead, ReadPending, PCs
  <2> QED  BY <1>15, <1>3, <2>1, <2>2, <2>3, <2>4 DEF Receive
<1>16. ASSUME NEW h \in Handlers, Resume(h) \/ Fail(h) PROVE Goal
  BY <1>16, <1>4, <1>5, <1>6, <1>7, <1>11, <1>12, <1>13, <1>14 DEF Resume
<1>17. ASSUME Serve PROVE Goal
  BY <1>17, <1>8, <1>9 DEF Serve
<1> QED  BY <1>10, <1>15, <1>16, <1>17 DEF Next

LEMMA EffectsInvariant == Spec => [](LinksKnown /\ CountsKnown /\ MarksKnown)
<1>1. /\ Types0 /\ References /\ DayKeepsItsPunches /\ Born
      /\ LinksKnown /\ CountsKnown /\ MarksKnown /\ [Next]_vars
      => LinksKnown' /\ CountsKnown' /\ MarksKnown'
  BY ReferencesNext, BornNext, EffectsNext
<1> QED  BY EffectsInit, <1>1, TypesInvariant, ReferencesInvariant, BornInvariant, PTL
         DEF Spec

\* The correction log an APPROVED adjustment names is its own; an adjustment that
\* neither a race nor a failure touched has one if approved, none otherwise.
THEOREM CorrectionsCorrect == Spec => []CorrectionsMatch
<1>1. LinksKnown /\ CountsKnown => CorrectionsMatch
  BY DEF LinksKnown, CountsKnown, CorrectionsMatch
<1> QED  BY <1>1, EffectsInvariant, PTL

\* Only an approved outside work request makes its log OUTSIDE_APPROVED.
THEOREM OutsideCorrect == Spec => []OutsideExplained
<1>1. MarksKnown => OutsideExplained
  BY DEF MarksKnown
<1> QED  BY <1>1, EffectsInvariant, PTL

-----------------------------------------------------------------------------
(* Refinement: any number of handlers implement ApprovalWorkflow.           *)

\* Whether an approval of the request writes or marks a log.
Binds(r) == r \in Outings => target[r] # NoLog

\* The refinement mapping, by name.
Binding == {r \in Requests : status[r] # "NONE" /\ (r \in Outings => target[r] # NoLog)}
Applied ==
    [r \in Requests |-> IF r \in Adjustments THEN made[r] - Cardinality(Confirming(r))
                        ELSE made[r] + IF Marking(r) = {} THEN 0 ELSE 1]
Contested == stale \cup cut
WorkflowState == <<status, Binding, Applied, Contested>>

\* The marks of outings match their decisions, as corrections do: an outing that
\* nobody contests is marked once if it is APPROVED and names a log, or a handler
\* is just about to, and never otherwise.
IsMarking(h, o) == pc[h] = "mark" /\ job[h] = o

Marked(o) ==
    IF status[o] = "APPROVED" /\ target[o] # NoLog
    THEN \/ made[o] = 1 /\ \A h \in Handlers : ~IsMarking(h, o)
         \/ made[o] = 0 /\ \E h \in Handlers : \A g \in Handlers :
                               IsMarking(g, o) <=> g = h
    ELSE made[o] = 0 /\ \A h \in Handlers : ~IsMarking(h, o)

MarkedOnce == \A o \in Outings : o \notin Contested => Marked(o)

\* The step leaves what the workflow reads of q alone.
Spares(q) ==
    /\ status'[q] = status[q] /\ target'[q] = target[q] /\ made'[q] = made[q]
    /\ \A g \in Handlers : IsMarking(g, q)' <=> IsMarking(g, q)
    /\ Confirming(q)' = Confirming(q)

LEMMA MarkedKept == ASSUME NEW q \in Requests, Spares(q), Marked(q) PROVE Marked(q)'
BY DEF Spares, Marked

\* The mark of an outing follows its decision.
MarkFollows(o) == o \in Outings /\ o \notin Contested' /\ Marked(o) => Marked(o)'

\* What a step on the request r alone may be.
Concerns(r) ==
    /\ MarkFollows(r)
    /\ \A q \in Requests \ {r} : Spares(q)
    /\ status[r] # "NONE" /\ target'[r] = target[r]
    /\ \/ status'[r] = status[r]
       \/ /\ status'[r] \in Workflow!Decisions
          /\ status[r] = "PENDING" \/ r \in Contested'
    /\ Contested' \in {Contested, Contested \cup {r}}

\* What a step that creates the request r is.
Creates(r) ==
    /\ \A q \in Requests \ {r} : Spares(q)
    /\ status[r] = "NONE" /\ status'[r] = "PENDING" /\ made'[r] = made[r]
    /\ \A g \in Handlers : IsMarking(g, r)' <=> IsMarking(g, r)
    /\ Confirming(r)' = Confirming(r)
    /\ Contested' = Contested

\* What every step is, seen from the requests.
OneRequest ==
    \/ \E r \in Requests : Concerns(r) \/ Creates(r)
    \/ (\A q \in Requests : Spares(q)) /\ Contested' = Contested

\* A handler that moves from pc[h] to another operation on the same request, or
\* on none, touches no other request with it.
LEMMA HandlerSpares ==
    ASSUME Types0, NEW h \in Handlers,
           \A g \in Handlers \ {h} : pc'[g] = pc[g] /\ job'[g] = job[g],
           job'[h] \in {job[h], NoRequest} \/ pc'[h] \notin {"confirm", "mark"},
           NEW q \in Requests, q # job[h] \/ pc[h] \notin {"confirm", "mark"},
           q = job[h] => pc'[h] \notin {"confirm", "mark"}
    PROVE  /\ Confirming(q)' = Confirming(q)
           /\ \A g \in Handlers : IsMarking(g, q)' <=> IsMarking(g, q)
BY AttendanceAssumption DEF Confirming, IsMarking

LEMMA StepOnOneRequest ==
    ASSUME Types0, Born, [Next]_vars
    PROVE  OneRequest
<1> USE AttendanceAssumption DEF docs, local, history
<1>0. ASSUME UNCHANGED <<status, target, made, stale, cut>>,
             \A q \in Requests : Confirming(q)' = Confirming(q),
             \A q \in Requests, g \in Handlers : IsMarking(g, q)' <=> IsMarking(g, q)
      PROVE  OneRequest
  BY <1>0 DEF OneRequest, Spares, Contested
<1>1. ASSUME NEW h \in Handlers, NEW to \in PCs \ {"confirm", "mark"},
             pc[h] \notin {"confirm", "mark"}, pc' = [pc EXCEPT ![h] = to],
             \A g \in Handlers \ {h} : job'[g] = job[g],
             UNCHANGED <<status, target, made, stale, cut>>
      PROVE  OneRequest
  <2>1. /\ pc'[h] \notin {"confirm", "mark"}
        /\ \A g \in Handlers \ {h} : pc'[g] = pc[g] /\ job'[g] = job[g]
    BY <1>1 DEF Types0, TypeOK
  <2> QED  BY <1>0, <1>1, <2>1, HandlerSpares
<1>2. ASSUME NEW h \in Handlers, Receive(h) PROVE OneRequest
  <2>1. ASSUME NEW to \in PCs \ {"confirm", "mark"}, NEW r, Start(h, to, r)
        PROVE  OneRequest
    BY <1>1, <2>1 DEF Start, Goto, Types0, TypeOK
  <2>2. ASSUME NEW a \in Adjustments, NEW type \in Punches, NEW n \in Logs \cup {NoLog},
               AdjustmentRead(h, a, type, n)
        PROVE  OneRequest
    BY <1>1, <2>2 DEF AdjustmentRead, Goto, PCs, Types0, TypeOK
  <2> QED
    BY <1>2, <2>1, <2>2
    DEF Receive, CheckInRead, CheckOutRead, AdjustmentApproveRead, CancelRead,
        OutingApproveRead, RejectRead, ReadPending, PCs
<1>3. ASSUME NEW h \in Handlers, CheckInCreate(h) \/ CheckOutCreate(h)
      PROVE  OneRequest
  BY <1>1, <1>3 DEF CheckInCreate, CheckOutCreate, Done, Goto, PCs, Types0, TypeOK
<1>4. ASSUME NEW h \in Handlers, AdjustmentCreate(h) PROVE OneRequest
  <2>1. PICK a \in Requests : a = job[h] /\ status[a] = "NONE"
    BY <1>4 DEF AdjustmentCreate, Born, Types0, Places, Place, Requests
  <2>2. /\ pc[h] = "submit" /\ UNCHANGED <<made, stale, cut>>
        /\ pc' = [pc EXCEPT ![h] = "idle"] /\ job' = [job EXCEPT ![h] = NoRequest]
        /\ \/ UNCHANGED <<status, target>>
           \/ /\ status' = [status EXCEPT ![a] = "PENDING"]
              /\ target' = [target EXCEPT ![a] = draft[h].target]
    BY <1>4, <2>1 DEF AdjustmentCreate, Done, Goto
  <2>3. \A q \in Requests : /\ Confirming(q)' = Confirming(q)
                            /\ \A g \in Handlers : IsMarking(g, q)' <=> IsMarking(g, q)
    BY <2>2, HandlerSpares DEF Types0, TypeOK
  <2>4. CASE UNCHANGED <<status, target>>
    BY <1>0, <2>2, <2>3, <2>4
  <2>5. CASE /\ status' = [status EXCEPT ![a] = "PENDING"]
             /\ target' = [target EXCEPT ![a] = draft[h].target]
    BY <2>1, <2>2, <2>3, <2>5 DEF OneRequest, Creates, Spares, Contested, Types0, TypeOK
  <2> QED  BY <2>2, <2>4, <2>5
<1>5. ASSUME NEW o \in Outings, NEW n \in Logs \cup {NoLog}, OutingCreate(o, n)
      PROVE  OneRequest
  <2>1. o \in Requests
    BY DEF Requests
  <2>2. /\ status[o] = "NONE" /\ UNCHANGED <<made, stale, cut, pc, job>>
        /\ status' = [status EXCEPT ![o] = "PENDING"]
        /\ target' = [target EXCEPT ![o] = n]
    BY <1>5 DEF OutingCreate, Unborn
  <2>3. \A q \in Requests : /\ Confirming(q)' = Confirming(q)
                            /\ \A g \in Handlers : IsMarking(g, q)' <=> IsMarking(g, q)
    BY <2>2 DEF Confirming, IsMarking
  <2> QED  BY <2>1, <2>2, <2>3 DEF OneRequest, Creates, Spares, Contested, Types0, TypeOK
<1>6. ASSUME NEW h \in Handlers, NEW d \in Workflow!Decisions, Deciding(h), Decide(h, d),
             UNCHANGED <<target, made, cut>>,
             \A g \in Handlers \ {h} : pc'[g] = pc[g] /\ job'[g] = job[g],
             job'[h] \in {job[h], NoRequest},
             \A r \in Requests : r = job[h] => MarkFollows(r)
      PROVE  OneRequest
  <2>1. PICK r \in Requests : r = job[h] /\ status[r] # "NONE"
    BY <1>6 DEF Born, Deciding, Types0, Places, Place, Requests
  <2>2. /\ status' = [status EXCEPT ![r] = d]
        /\ stale' = IF status[r] = "PENDING" THEN stale ELSE stale \cup {r}
    BY <1>6, <2>1 DEF Decide
  <2>3. \A q \in Requests \ {r} : Spares(q)
    BY <1>6, <2>1, <2>2, HandlerSpares DEF Spares, Types0, TypeOK
  <2>4. /\ status'[r] = d
        /\ status[r] = "PENDING" \/ r \in Contested'
        /\ Contested' \in {Contested, Contested \cup {r}}
    BY <1>6, <2>2 DEF Contested, Types0, TypeOK
  <2> QED  BY <1>6, <2>1, <2>3, <2>4 DEF OneRequest, Concerns
<1>7. ASSUME NEW h \in Handlers,
             Reject(h) \/ Cancel(h) \/ AdjustmentConfirm(h) \/ OutingAccept(h)
      PROVE  OneRequest
  <2>1. PICK d \in Workflow!Decisions : Decide(h, d)
    BY <1>7 DEF Reject, Cancel, AdjustmentConfirm, OutingAccept, Workflow!Decisions
  <2>2. Deciding(h) /\ UNCHANGED <<target, made, cut>>
    BY <1>7 DEF Reject, Cancel, AdjustmentConfirm, OutingAccept, Deciding
  <2>3. \/ Done(h)
        \/ Goto(h, "mark") /\ job' = job
    BY <1>7 DEF Reject, Cancel, AdjustmentConfirm, OutingAccept
  <2>4. /\ \A g \in Handlers \ {h} : pc'[g] = pc[g] /\ job'[g] = job[g]
        /\ job'[h] \in {job[h], NoRequest}
    BY <2>3 DEF Done, Goto, Types0, TypeOK
  <2>5. ASSUME NEW o \in Outings, o = job[h], o \notin Contested', Marked(o)
        PROVE  Marked(o)'
    <3>2. o \in Requests /\ o \notin Adjustments /\ o # NoRequest /\ target'[o] = target[o]
      BY <2>2 DEF Requests
    <3>3. status[o] = "PENDING"
      BY <2>1, <2>5, <2>5 DEF Decide, Contested
    <3>4. made'[o] = 0 /\ \A g \in Handlers : ~IsMarking(g, o)
      BY <2>2, <2>5, <2>5, <3>3 DEF Marked
    <3>5. CASE Reject(h)
      <4>1. status'[o] = "REJECTED" /\ Done(h)
        BY <2>5, <3>2, <3>5 DEF Reject, Decide, Types0, TypeOK
      <4>2. \A g \in Handlers : ~IsMarking(g, o)'
        BY <3>4, <4>1 DEF IsMarking, Done, Goto, Types0, TypeOK
      <4> QED  BY <3>4, <4>1, <4>2 DEF Marked
    <3>6. CASE OutingAccept(h)
      <4>1. /\ status'[o] = "APPROVED"
            /\ IF target[o] = NoLog THEN Done(h) ELSE Goto(h, "mark") /\ job' = job
        BY <2>5, <3>2, <3>6 DEF OutingAccept, Decide, Types0, TypeOK
      <4>2. CASE target[o] = NoLog
        <5>1. \A g \in Handlers : ~IsMarking(g, o)'
          BY <3>4, <4>1, <4>2 DEF IsMarking, Done, Goto, Types0, TypeOK
        <5> QED  BY <3>2, <3>4, <4>2, <5>1 DEF Marked
      <4>3. CASE target[o] # NoLog
        <5>1. \A g \in Handlers : IsMarking(g, o)' <=> g = h
          BY <2>5, <3>4, <4>1, <4>3 DEF IsMarking, Goto, Types0, TypeOK
        <5>2. target'[o] # NoLog
          BY <3>2, <4>3
        <5> QED  BY <3>4, <4>1, <5>1, <5>2 DEF Marked
      <4> QED  BY <4>2, <4>3
    <3>7. ~Cancel(h) /\ ~AdjustmentConfirm(h)
      BY <2>5, <3>2 DEF Cancel, AdjustmentConfirm, Types0, Places, Place
    <3> QED  BY <1>7, <3>5, <3>6, <3>7
  <2>6. \A r \in Requests : r = job[h] => MarkFollows(r)
    BY <2>5 DEF MarkFollows
  <2> QED  BY <1>6, <2>1, <2>2, <2>4, <2>6
<1>8. ASSUME NEW h \in Handlers, AdjustmentCorrect(h) \/ OutingMark(h) \/ Fail(h)
      PROVE  OneRequest
  <2>1. /\ UNCHANGED <<status, target, stale>>
        /\ \A g \in Handlers \ {h} : pc'[g] = pc[g] /\ job'[g] = job[g]
        /\ job'[h] \in {job[h], NoRequest} /\ pc'[h] \in {"idle", "confirm"}
        /\ pc'[h] = "confirm" => pc[h] = "correct"
        /\ \/ cut' = cut
           \/ Deciding(h) /\ cut' = cut \cup {job[h]}
        /\ \/ made' = made
           \/ Deciding(h) /\ made' = [made EXCEPT ![job[h]] = @ + 1]
    <3>1. CASE AdjustmentCorrect(h)
      BY <3>1 DEF AdjustmentCorrect, Goto, Deciding, Types0, TypeOK
    <3>2. CASE OutingMark(h)
      BY <3>2 DEF OutingMark, Done, Goto, Deciding, Types0, TypeOK
    <3>3. CASE Fail(h)
      BY <3>3 DEF Fail, Done, Goto, Deciding, Types0, TypeOK
    <3> QED  BY <1>8, <3>1, <3>2, <3>3
  <2>2. CASE Deciding(h)
    <3>1. PICK r \in Requests : r = job[h] /\ status[r] # "NONE"
      BY <2>2 DEF Born, Deciding, Types0, Places, Place, Requests
    <3>2. \A q \in Requests \ {r} : Spares(q)
      BY <2>1, <3>1, HandlerSpares DEF Spares, Types0, TypeOK
    <3>3. ASSUME r \in Outings, r \notin Contested', Marked(r) PROVE Marked(r)'
      <4>1. r \notin Adjustments /\ r \in Requests
        BY <3>3 DEF Requests
      <4>2. ~AdjustmentCorrect(h)
        BY <3>1, <4>1 DEF AdjustmentCorrect, Types0, Places, Place
      <4>3. CASE OutingMark(h)
        <5>1. /\ IsMarking(h, r) /\ UNCHANGED <<status, target>> /\ Done(h)
              /\ made'[r] = made[r] + 1
          BY <3>1, <4>1, <4>3 DEF OutingMark, IsMarking, Types0, TypeOK
        <5>2. /\ status[r] = "APPROVED" /\ target[r] # NoLog /\ made[r] = 0
              /\ \A g \in Handlers : IsMarking(g, r) <=> g = h
          BY <3>3, <5>1 DEF Marked
        <5>3. \A g \in Handlers : ~IsMarking(g, r)'
          BY <5>1, <5>2 DEF IsMarking, Done, Goto, Types0, TypeOK
        <5> QED  BY <5>1, <5>2, <5>3 DEF Marked
      <4>4. CASE Fail(h)
        <5>1. pc[h] # "mark" /\ UNCHANGED <<status, target, made>> /\ Done(h)
          BY <3>1, <3>3, <4>4 DEF Fail, Contested
        <5>2. \A g \in Handlers : IsMarking(g, r)' <=> IsMarking(g, r)
          BY <5>1 DEF IsMarking, Done, Goto, Types0, TypeOK
        <5> QED  BY <3>3, <5>1, <5>2 DEF Marked
      <4> QED  BY <1>8, <4>2, <4>3, <4>4
    <3>4. MarkFollows(r)
      BY <3>3 DEF MarkFollows
    <3> QED  BY <2>1, <3>1, <3>2, <3>4 DEF OneRequest, Concerns, Contested
  <2>3. CASE ~Deciding(h)
    <3>1. /\ UNCHANGED <<made, cut>> /\ pc[h] \notin {"confirm", "mark"}
          /\ pc'[h] \notin {"confirm", "mark"}
      BY <2>1, <2>3 DEF Deciding
    <3> QED  BY <1>0, <2>1, <3>1, HandlerSpares
  <2> QED  BY <2>2, <2>3
<1>9. ASSUME (\E n \in Logs, type \in Retypes : ManualAdjust(n, type)) \/ UNCHANGED vars
      PROVE  OneRequest
  <2>1. UNCHANGED <<status, target, made, stale, cut, pc, job>>
    BY <1>9 DEF ManualAdjust, vars
  <2> QED  BY <1>0, <2>1 DEF Confirming, IsMarking
<1> QED
  BY <1>2, <1>3, <1>4, <1>5, <1>7, <1>8, <1>9 DEF Next, Serve, Resume

LEMMA MarkedInit == Init => MarkedOnce
BY DEF Init, MarkedOnce, Marked, IsMarking, Requests

LEMMA MarkedNext ==
    ASSUME MarkedOnce, OneRequest PROVE MarkedOnce'
<1> SUFFICES ASSUME NEW o \in Outings, o \notin Contested' PROVE Marked(o)'
  BY DEF MarkedOnce
<1>1. o \in Requests
  BY DEF Requests
<1>2. o \notin Contested
  BY DEF OneRequest, Concerns, Creates
<1>3. Marked(o)
  BY <1>2 DEF MarkedOnce
<1>4. ASSUME Creates(o) PROVE Marked(o)'
  BY <1>3, <1>4 DEF Creates, Marked
<1>5. ASSUME Concerns(o) PROVE Marked(o)'
  BY <1>2, <1>3, <1>5 DEF Concerns, MarkFollows
<1>6. ASSUME Spares(o) PROVE Marked(o)'
  BY <1>1, <1>3, <1>6, MarkedKept
<1>7. Concerns(o) \/ Creates(o) \/ Spares(o)
  BY <1>1 DEF OneRequest, Concerns, Creates
<1> QED  BY <1>4, <1>5, <1>6, <1>7

LEMMA MarkedInvariant == Spec => []MarkedOnce
BY MarkedInit, MarkedNext, StepOnOneRequest, TypesInvariant, BornInvariant, PTL DEF Spec

\* A request that nobody contests has had its effect when it is approved, and not
\* before.
UncontestedApplied ==
    \A r \in Requests : r \notin Contested =>
        Applied[r] = IF status[r] = "APPROVED" /\ Binds(r) THEN 1 ELSE 0

LEMMA AppliedMeaning == Types0 /\ CountsKnown /\ MarkedOnce => UncontestedApplied
<1> SUFFICES ASSUME Types0, CountsKnown, MarkedOnce, NEW r \in Requests, r \notin Contested
             PROVE  Applied[r] = IF status[r] = "APPROVED" /\ Binds(r) THEN 1 ELSE 0
  BY DEF UncontestedApplied
<1> USE AttendanceAssumption
<1>1. CASE r \in Adjustments
  <2>1. Cardinality(Confirming(r)) \in Nat
    BY <1>1, FS_CardinalityType DEF CountsKnown
  <2>2. r \notin Outings /\ made[r] \in Nat
    BY <1>1 DEF Types0, TypeOK
  <2>3. made[r] = Cardinality(Confirming(r)) + (IF status[r] = "APPROVED" THEN 1 ELSE 0)
    BY <1>1 DEF CountsKnown, CorrectedExactlyOnce, Contested
  <2> QED  BY <1>1, <2>1, <2>2, <2>3 DEF Applied, Binds
<1>2. CASE r \in Outings
  <2>1. Marked(r) /\ r \notin Adjustments
    BY <1>2 DEF MarkedOnce
  <2>2. (Marking(r) = {}) <=> \A h \in Handlers : ~IsMarking(h, r)
    BY DEF Marking, IsMarking
  <2> QED  BY <1>2, <2>1, <2>2 DEF Marked, Applied, Binds
<1> QED  BY <1>1, <1>2 DEF Requests

LEMMA SparedState ==
    ASSUME NEW q \in Requests, Spares(q)
    PROVE  (q \in Binding' <=> q \in Binding) /\ Applied'[q] = Applied[q]
<1>1. q \in Binding' <=> q \in Binding
  BY DEF Spares, Binding
<1>2. (Marking(q)' = {}) <=> (Marking(q) = {})
  BY DEF Spares, Marking, IsMarking
<1> QED  BY <1>1, <1>2 DEF Spares, Applied

LEMMA WorkflowStep ==
    ASSUME Types0, Types0', UncontestedApplied, UncontestedApplied', OneRequest
    PROVE  Workflow!WorkflowNext \/ UNCHANGED WorkflowState
<1>1. ASSUME NEW r \in Requests, Creates(r) PROVE Workflow!WorkflowNext
  <2>1. status' = [status EXCEPT ![r] = "PENDING"]
    BY <1>1 DEF Creates, Spares, Types0, TypeOK
  <2>2. Binding' \in {Binding, Binding \cup {r}}
    <3>1. r \notin Binding
      BY <1>1 DEF Creates, Binding
    <3> QED  BY <1>1, <3>1, SparedState DEF Creates, Binding
  <2>3. Applied' = Applied
    <3>1. (Marking(r)' = {}) <=> (Marking(r) = {})
      BY <1>1 DEF Creates, Marking, IsMarking
    <3>2. Applied'[r] = Applied[r]
      BY <1>1, <3>1 DEF Creates, Applied
    <3>3. \A q \in Requests : Applied'[q] = Applied[q]
      BY <1>1, <3>2, SparedState DEF Creates
    <3> QED  BY <3>3 DEF Applied
  <2>4. Workflow!Submit(r)
    BY <1>1, <2>1, <2>2, <2>3 DEF Workflow!Submit, Creates, Binding, Applied, Contested
  <2> QED  BY <2>4 DEF Workflow!WorkflowNext
<1>2. ASSUME NEW r \in Requests, Concerns(r)
      PROVE  Workflow!WorkflowNext \/ UNCHANGED WorkflowState
  <2>1. PICK s \in Workflow!Decisions \cup {status[r]} : s = status'[r]
    BY <1>2 DEF Concerns
  <2>2. status' = [status EXCEPT ![r] = s]
    BY <1>2, <2>1 DEF Concerns, Spares, Types0, TypeOK
  <2>3. Binding' = Binding
    <3>1. r \in Binding' <=> r \in Binding
      BY <1>2, <2>1 DEF Concerns, Binding, Workflow!Decisions
    <3> QED  BY <1>2, <3>1, SparedState DEF Concerns, Binding
  <2>4. \A q \in Requests \ {r} : Applied'[q] = Applied[q]
    BY <1>2, SparedState DEF Concerns
  <2>5. CASE r \in Contested'
    <3>1. Contested' = Contested \cup {r}
      BY <1>2, <2>5 DEF Concerns
    <3>2. Applied' = [Applied EXCEPT ![r] = Applied'[r]]
      BY <2>4 DEF Applied
    <3>3. Workflow!Contest(r)
      BY <1>2, <2>1, <2>2, <2>3, <3>1, <3>2
      DEF Workflow!Contest, Concerns, Binding, Applied, Contested
    <3> QED  BY <3>3 DEF Workflow!WorkflowNext
  <2>6. CASE r \notin Contested'
    <3>1. Contested' = Contested /\ r \notin Contested
      BY <1>2, <2>6 DEF Concerns
    <3>2. Binds(r)' <=> Binds(r)
      BY <1>2 DEF Concerns, Binds
    <3>3. Applied[r] = IF status[r] = "APPROVED" /\ Binds(r) THEN 1 ELSE 0
      BY <3>1 DEF UncontestedApplied
    <3>4. Applied'[r] = IF s = "APPROVED" /\ Binds(r) THEN 1 ELSE 0
      BY <2>1, <2>6, <3>2 DEF UncontestedApplied
    <3>5. CASE s = status[r]
      <4>1. Applied' = Applied
        BY <2>4, <3>3, <3>4, <3>5 DEF Applied
      <4>2. status' = status
        BY <2>2, <3>5 DEF Types0, TypeOK
      <4> QED  BY <2>3, <3>1, <4>1, <4>2 DEF WorkflowState
    <3>6. CASE s # status[r]
      <4>1. s \in Workflow!Decisions /\ status[r] = "PENDING"
        BY <1>2, <2>1, <2>6, <3>6 DEF Concerns
      <4>2. Binds(r) <=> r \in Binding
        BY <4>1 DEF Binds, Binding
      <4>3. Applied[r] = 0
        BY <3>3, <4>1
      <4>4. Applied' = IF s = "APPROVED" /\ r \in Binding
                       THEN [Applied EXCEPT ![r] = @ + 1] ELSE Applied
        BY <2>4, <3>4, <4>2, <4>3 DEF Applied
      <4>5. Workflow!Decide(r, s)
        BY <2>2, <2>3, <3>1, <4>1, <4>4
        DEF Workflow!Decide, Binding, Applied, Contested
      <4> QED  BY <4>1, <4>5 DEF Workflow!WorkflowNext
    <3> QED  BY <3>5, <3>6
  <2> QED  BY <2>5, <2>6
<1>3. ASSUME \A q \in Requests : Spares(q), Contested' = Contested
      PROVE  UNCHANGED WorkflowState
  <2>1. status' = status
    BY <1>3 DEF Spares, Types0, TypeOK
  <2>2. Binding' = Binding
    BY <1>3, SparedState DEF Binding
  <2>3. Applied' = Applied
    <3>1. \A q \in Requests : Applied'[q] = Applied[q]
      BY <1>3, SparedState
    <3> QED  BY <3>1 DEF Applied
  <2> QED  BY <1>3, <2>1, <2>2, <2>3 DEF WorkflowState
<1> QED  BY <1>1, <1>2, <1>3 DEF OneRequest

\* Any number of handlers, failing where they may, implement the workflow: no
\* request is pending twice, the decision of one that no two handlers decided and
\* none abandoned is final, and the log of an approval is written or marked once
\* (AttendanceAdjustmentsService and OutsideWorkService).
THEOREM DayWorkflowImplemented == Spec => ImplementsWorkflow
<1>1. Init => Workflow!WorkflowInit
  <2> SUFFICES ASSUME Init PROVE Workflow!WorkflowInit
    OBVIOUS
  <2>1. \A r \in Requests : Confirming(r) = {} /\ Marking(r) = {}
    BY DEF Init, Confirming, Marking
  <2>2. Applied = [r \in Requests |-> 0]
    BY <2>1, FS_EmptySet DEF Init, Applied
  <2>3. Binding = {} /\ Contested = {}
    BY DEF Init, Binding, Contested
  <2> QED  BY <2>2, <2>3 DEF Init, Workflow!WorkflowInit, Applied, Binding, Contested
<1>2. Types0 /\ Types0' /\ Born /\ UncontestedApplied /\ UncontestedApplied'
        /\ [Next]_vars
        => [Workflow!WorkflowNext]_(Workflow!absVars)
  BY StepOnOneRequest, WorkflowStep
  DEF Workflow!absVars, WorkflowState, Applied, Binding, Contested
<1>3. Spec => []UncontestedApplied
  BY AppliedMeaning, TypesInvariant, EffectsInvariant, MarkedInvariant, PTL
<1> QED
  BY <1>1, <1>2, <1>3, TypesInvariant, BornInvariant, PTL
  DEF Spec, ImplementsWorkflow, Workflow!WorkflowSpec

-----------------------------------------------------------------------------
(* One handler at a time *)

OneAtATime == \A g, h \in Handlers : g = h

\* Nobody has decided what the handler read as PENDING, and no check-in has
\* overtaken another one.
Undisturbed ==
    /\ stale = {} /\ outrun = {} /\ rushed = {}
    /\ \A h \in Handlers :
          pc[h] \in {"correct", "confirm", "accept", "refuse", "cancel"} =>
              status[job[h]] = "PENDING"

LEMMA UndisturbedNext ==
    ASSUME OneAtATime, Types0, Undisturbed, [Next]_vars
    PROVE  Undisturbed'
<1> USE AttendanceAssumption
    DEF OneAtATime, Types0, TypeOK, Undisturbed, Goto, Done, Start, docs, local, history
<1>1. ASSUME NEW h \in Handlers, CheckInRead(h) \/ CheckOutRead(h) PROVE Undisturbed'
  BY <1>1 DEF CheckInRead, CheckOutRead
<1>2. ASSUME NEW h \in Handlers, NEW a \in Adjustments, NEW type \in Punches,
             NEW n \in Logs \cup {NoLog}, AdjustmentRead(h, a, type, n)
      PROVE  Undisturbed'
  BY <1>2 DEF AdjustmentRead
<1>3. ASSUME NEW h \in Handlers, NEW r \in Requests,
             NEW to \in {"correct", "accept", "refuse", "cancel"}, ReadPending(h, r, to)
      PROVE  Undisturbed'
  BY <1>3 DEF ReadPending
<1>4. ASSUME NEW h \in Handlers, CheckInCreate(h) PROVE Undisturbed'
  BY <1>4 DEF CheckInCreate
<1>5. ASSUME NEW h \in Handlers, CheckOutCreate(h) \/ AdjustmentCreate(h) PROVE Undisturbed'
  BY <1>5 DEF CheckOutCreate, AdjustmentCreate
<1>6. ASSUME NEW h \in Handlers, AdjustmentCorrect(h) PROVE Undisturbed'
  BY <1>6 DEF AdjustmentCorrect
<1>7. ASSUME NEW h \in Handlers, AdjustmentConfirm(h) \/ Reject(h) \/ Cancel(h)
      PROVE  Undisturbed'
  BY <1>7 DEF AdjustmentConfirm, Reject, Cancel, Decide
<1>8. ASSUME NEW h \in Handlers, OutingAccept(h) PROVE Undisturbed'
  BY <1>8 DEF OutingAccept, Decide
<1>9. ASSUME NEW h \in Handlers, OutingMark(h) \/ Fail(h) PROVE Undisturbed'
  BY <1>9 DEF OutingMark, Fail
<1>10. ASSUME NEW n \in Logs, NEW type \in Retypes, ManualAdjust(n, type) PROVE Undisturbed'
  BY <1>10 DEF ManualAdjust
<1>11. ASSUME NEW o \in Outings, NEW n \in Logs \cup {NoLog}, OutingCreate(o, n)
       PROVE  Undisturbed'
  <2>1. \A h \in Handlers : job[h] # o
    BY <1>11 DEF OutingCreate, Unborn
  <2> QED  BY <1>11, <2>1 DEF OutingCreate
<1>12. CASE UNCHANGED vars
  BY <1>12 DEF vars
<1> QED
  BY <1>1, <1>2, <1>3, <1>4, <1>5, <1>6, <1>7, <1>8, <1>9, <1>10, <1>11, <1>12
  DEF Next, Serve, Receive, Resume, AdjustmentApproveRead, OutingApproveRead, RejectRead,
      CancelRead, Requests

LEMMA UndisturbedInvariant == OneAtATime /\ Spec => []Undisturbed
<1> SUFFICES ASSUME OneAtATime PROVE Spec => []Undisturbed
  OBVIOUS
<1>1. Init => Undisturbed
  BY DEF Init, Undisturbed
<1>2. Types0 /\ Undisturbed /\ [Next]_vars => Undisturbed'
  BY UndisturbedNext
<1> QED  BY <1>1, <1>2, TypesInvariant, PTL DEF Spec

\* Served one at a time, and though any of them may fail, a day has two check-ins
\* only where an outside work approval brought an adjusted one back, and a log
\* is OUTSIDE_APPROVED only for a request that still is APPROVED (checkIn of
\* AttendanceService, approve and reject of OutsideWorkService).
THEOREM DayAlone ==
    OneAtATime /\ Spec =>
        [](/\ \A m, n \in Logs : m < n /\ Counted(m) /\ Counted(n) =>
                 m \in revived \/ n \in revived
           /\ \A n \in Logs : log[n].status = "OUTSIDE_APPROVED" =>
                 \E o \in Outings : target[o] = n /\ status[o] = "APPROVED")
<1> DEFINE Goal == /\ \A m, n \in Logs : m < n /\ Counted(m) /\ Counted(n) =>
                         m \in revived \/ n \in revived
                   /\ \A n \in Logs : log[n].status = "OUTSIDE_APPROVED" =>
                         \E o \in Outings : target[o] = n /\ status[o] = "APPROVED"
<1> SUFFICES ASSUME OneAtATime PROVE Spec => []Goal
  OBVIOUS
<1>1. Undisturbed /\ OneCheckInExplained /\ OutsideExplained => Goal
  BY DEF Undisturbed, OneCheckInExplained, OutsideExplained
<1> HIDE DEF Goal
<1> QED  BY <1>1, UndisturbedInvariant, PunchesCorrect, OutsideCorrect, PTL

\* Served one at a time, the correction logs of an adjustment that no failure cut
\* short are one if it is APPROVED and none otherwise, and one more while it is
\* being approved (approve of AttendanceAdjustmentsService).
THEOREM CorrectionsAlone ==
    OneAtATime /\ Spec =>
        [](\A a \in Adjustments \ cut :
              made[a] = Cardinality(Confirming(a)) + (IF status[a] = "APPROVED" THEN 1 ELSE 0))
<1> DEFINE Goal == \A a \in Adjustments \ cut :
        made[a] = Cardinality(Confirming(a)) + (IF status[a] = "APPROVED" THEN 1 ELSE 0)
<1> SUFFICES ASSUME OneAtATime PROVE Spec => []Goal
  OBVIOUS
<1>1. Undisturbed /\ CorrectionsMatch => Goal
  BY DEF Undisturbed, CorrectionsMatch, CorrectedExactlyOnce
<1> HIDE DEF Goal
<1> QED  BY <1>1, UndisturbedInvariant, CorrectionsCorrect, PTL
=============================================================================
