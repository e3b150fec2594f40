----------------------- MODULE LeaveRequestsProofs -----------------------
(* Proofs of the safety properties of LeaveRequests, for any number of      *)
(* handlers, requests, employees, types and instants.                      *)
EXTENDS LeaveRequests, Sums

LEMMA NoFormIsAForm == NoForm \in Forms
<1>1. PICK e \in Employees, d \in Moments : TRUE
  BY LeaveAssumption
<1>2. [emp |-> e, type |-> ByName, start |-> d, end |-> d, half |-> FALSE] \in Forms
  BY DEF Forms
<1> QED  BY <1>2 DEF NoForm

\* The amount a form deducts is an integer.
LEMMA ChargeType == ASSUME NEW f \in Forms PROVE Charge(f) \in Int
<1>1. f.start \in Int /\ f.end \in Int
  BY LeaveAssumption DEF Forms
<1>2. CASE f.half
  BY <1>2 DEF Charge
<1>3. CASE ~f.half
  <2>1. (f.end - f.start) \div DayLength \in Int
    BY <1>1, LeaveAssumption
  <2> QED  BY <1>3, <2>1 DEF Charge
<1> QED  BY <1>2, <1>3

\* A handler that is not idle works on a request document.
Working == \A h \in Handlers : pc[h] # "idle" => job[h] \in Requests

LEMMA TypeOKInit == Init => TypeOK /\ Working
BY NoFormIsAForm DEF Init, TypeOK, Working, Status, PCs, Nothing

LEMMA TypeOKNext == TypeOK /\ Working /\ [Next]_vars => TypeOK' /\ Working'
<1> SUFFICES ASSUME TypeOK, Working, [Next]_vars PROVE TypeOK' /\ Working'
  OBVIOUS
<1> USE NoFormIsAForm DEF TypeOK, Working, Goto, Done, Nothing, docs, local, history
<1>1. ASSUME NEW h \in Handlers, NEW r \in Requests, NEW f \in Forms,
             RequestCheck(h, r, f)
      PROVE  TypeOK' /\ Working'
  BY <1>1 DEF RequestCheck, PCs
<1>2. ASSUME NEW h \in Handlers, RequestCreate(h) PROVE TypeOK' /\ Working'
  <2>1. job[h] \in Requests /\ draft[h] \in Forms
    BY <1>2 DEF RequestCreate
  <2>2. since' \in [Handlers -> SUBSET Requests]
    BY <1>2, <2>1 DEF RequestCreate
  <2>3. twins' \subseteq SUBSET Requests
    <3>1. twins' = twins \cup {{job[h], q} : q \in since[h]}
      BY <1>2 DEF RequestCreate
    <3>2. ASSUME NEW t \in twins' PROVE t \subseteq Requests
      <4>1. CASE t \in twins
        BY <4>1
      <4>2. ASSUME NEW q \in since[h], t = {job[h], q} PROVE t \subseteq Requests
        <5>1. q \in Requests
          OBVIOUS
        <5> QED  BY <4>2, <5>1, <2>1
      <4> QED  BY <3>1, <4>1, <4>2
    <3> QED  BY <3>2
  <2>4. /\ status' \in [Requests -> Status]
        /\ form' \in [Requests -> Forms]
        /\ pc' \in [Handlers -> PCs]
        /\ Working'
    BY <1>2, <2>1 DEF RequestCreate, PCs, Status
  <2>5. /\ job' \in [Handlers -> Requests \cup {NoRequest}]
        /\ draft' \in [Handlers -> Forms]
        /\ seen' \in [Handlers -> [status : Status,
                              approvals : Seq({"APPROVED", "REJECTED"})]]
    BY <1>2 DEF RequestCreate, Status
  <2> QED  BY <1>2, <2>2, <2>3, <2>4, <2>5 DEF RequestCreate
<1>3. ASSUME NEW h \in Handlers, NEW r \in Requests,
             NEW to \in {"approve", "reject", "cancel"}, ReadPending(h, r, to)
      PROVE  TypeOK' /\ Working'
  BY <1>3 DEF ReadPending, PCs, Status
<1>4. ASSUME NEW h \in Handlers, ApproveWrite(h) PROVE TypeOK' /\ Working'
  BY <1>4 DEF ApproveWrite, WriteDecision, Approvals, PCs, Status
<1>5. ASSUME NEW h \in Handlers, RejectWrite(h) PROVE TypeOK' /\ Working'
  BY <1>5 DEF RejectWrite, WriteDecision, Approvals, PCs, Status
<1>6. ASSUME NEW h \in Handlers, CancelWrite(h) PROVE TypeOK' /\ Working'
  BY <1>6 DEF CancelWrite, WriteDecision, PCs, Status
<1>7. ASSUME NEW h \in Handlers, ApproveCharge(h) PROVE TypeOK' /\ Working'
  <2> DEFINE r == job[h]
             amount == Charge(form[r])
  <2>1. r \in Requests /\ amount \in Int
    BY <1>7, ChargeType DEF ApproveCharge
  <2>2. \A b \in [total : Int, used : Int, remaining : Int] :
            Deduct(b, amount) \in [total : Int, used : Int, remaining : Int]
    <3> HIDE DEF amount, r, TypeOK, Working
    <3> QED  BY <2>1 DEF Deduct
  <2>3. balance' \in [Accounts -> [total : Int, used : Int, remaining : Int]]
    <3>1. balance' = [balance EXCEPT
                        ![AccountOf(form[r])] = Deduct(@, amount)]
      BY <1>7 DEF ApproveCharge
    <3> HIDE DEF amount
    <3> QED  BY <2>2, <3>1
  <2>4. charged' \in [Requests -> Nat]
    BY <1>7, <2>1 DEF ApproveCharge
  <2>5. pc' \in [Handlers -> PCs] /\ Working'
    BY <1>7, <2>1 DEF ApproveCharge, PCs
  <2>6. UNCHANGED <<status, form, approvals, notices, job, draft, seen,
                    stale, cut, since, twins>>
    BY <1>7 DEF ApproveCharge
  <2> HIDE DEF amount, r
  <2> QED  BY <2>3, <2>4, <2>5, <2>6
<1>8. ASSUME NEW h \in Handlers, NEW at \in {"tellApproved", "tellRejected"},
             NEW d \in {"APPROVED", "REJECTED"}, Tell(h, at, d)
      PROVE  TypeOK' /\ Working'
  <2>1. job[h] \in Requests /\ notices[job[h]] \cup {d} \in SUBSET {"APPROVED", "REJECTED"}
    BY <1>8 DEF Tell
  <2>2. notices' \in [Requests -> SUBSET {"APPROVED", "REJECTED"}]
    BY <1>8, <2>1 DEF Tell
  <2>3. pc' \in [Handlers -> PCs] /\ Working'
    BY <1>8 DEF Tell, PCs
  <2>4. /\ job' \in [Handlers -> Requests \cup {NoRequest}]
        /\ draft' \in [Handlers -> Forms]
        /\ seen' \in [Handlers -> [status : Status,
                              approvals : Seq({"APPROVED", "REJECTED"})]]
    BY <1>8 DEF Tell, Status
  <2> QED  BY <1>8, <2>2, <2>3, <2>4 DEF Tell
<1>9. ASSUME NEW a \in Accounts, NEW amount \in Adjustments,
             AdjustBalance(a, amount)
      PROVE  TypeOK' /\ Working'
  BY <1>9, LeaveAssumption DEF AdjustBalance, Grant
<1>10. ASSUME NEW h \in Handlers, Fail(h) PROVE TypeOK' /\ Working'
  BY <1>10 DEF Fail, PCs, Status
<1>11. CASE UNCHANGED vars
  BY <1>11 DEF vars
<1> QED
  BY <1>1, <1>2, <1>3, <1>4, <1>5, <1>6, <1>7, <1>8, <1>9, <1>10, <1>11
  DEF Next, Undisturbed, Receive, Resume, Adjust, ApproveRead, RejectRead, CancelRead,
      ApproveTell, RejectTell

LEMMA TypeInvariant == Spec => [](TypeOK /\ Working)
BY TypeOKInit, TypeOKNext, PTL DEF Spec

\* The types of every variable, whatever the handlers do.
THEOREM TypeCorrect == Spec => []TypeOK
BY TypeInvariant, PTL

-----------------------------------------------------------------------------
(* What handlers know of the request they work on.                          *)

\* Nothing has happened to a request before its first decision.
Untouched ==
    \A r \in Requests : status[r] \in {"NONE", "PENDING"} =>
        charged[r] = 0 /\ notices[r] = {} /\ approvals[r] = <<>>

\* What the position of a handler says of its request.
Position(h) ==
    LET r == job[h] IN
    /\ pc[h] = "idle" => r = NoRequest
    /\ pc[h] = "create" => /\ status[r] = "NONE"
                           /\ draft[h].start <= draft[h].end
                           /\ \A g \in Handlers : g # h => job[g] # r
    /\ pc[h] \in {"approve", "reject", "cancel"} =>
           /\ status[r] # "NONE"
           /\ seen[h].status = "PENDING" /\ seen[h].approvals = <<>>
    /\ pc[h] \in {"charge", "tellApproved", "tellRejected"} =>
           status[r] \notin {"NONE", "PENDING"}
    /\ pc[h] = "charge" => Typed(r)
    /\ pc[h] = "tellApproved" /\ Typed(r) => charged[r] > 0

Positions == \A h \in Handlers : Position(h)

LEMMA PositionsInit == Init => Untouched /\ Positions
BY DEF Init, Untouched, Positions, Position

LEMMA PositionsNext ==
    TypeOK /\ Working /\ Untouched /\ Positions /\ [Next]_vars => Untouched' /\ Positions'
<1> SUFFICES ASSUME TypeOK, Working, Untouched, Positions, [Next]_vars
             PROVE  Untouched' /\ Positions'
  OBVIOUS
<1> USE LeaveAssumption DEF TypeOK, Working, Untouched, Positions, Position, Typed,
        Goto, Done, docs, local, history
<1>1. ASSUME NEW h \in Handlers, NEW r \in Requests, NEW f \in Forms,
             RequestCheck(h, r, f)
      PROVE  Untouched' /\ Positions'
  BY <1>1 DEF RequestCheck
<1>2. ASSUME NEW h \in Handlers, RequestCreate(h) PROVE Untouched' /\ Positions'
  BY <1>2 DEF RequestCreate
<1>3. ASSUME NEW h \in Handlers, NEW r \in Requests,
             NEW to \in {"approve", "reject", "cancel"}, ReadPending(h, r, to)
      PROVE  Untouched' /\ Positions'
  BY <1>3 DEF ReadPending
<1>4. ASSUME NEW h \in Handlers, ApproveWrite(h) PROVE Untouched' /\ Positions'
  BY <1>4 DEF ApproveWrite, WriteDecision, Approvals
<1>5. ASSUME NEW h \in Handlers, RejectWrite(h) PROVE Untouched' /\ Positions'
  BY <1>5 DEF RejectWrite, WriteDecision, Approvals
<1>6. ASSUME NEW h \in Handlers, CancelWrite(h) PROVE Untouched' /\ Positions'
  BY <1>6 DEF CancelWrite, WriteDecision
<1>7. ASSUME NEW h \in Handlers, ApproveCharge(h) PROVE Untouched' /\ Positions'
  BY <1>7 DEF ApproveCharge
<1>8. ASSUME NEW h \in Handlers, NEW at \in {"tellApproved", "tellRejected"},
             NEW d \in {"APPROVED", "REJECTED"}, Tell(h, at, d)
      PROVE  Untouched' /\ Positions'
  BY <1>8 DEF Tell
<1>9. ASSUME NEW a \in Accounts, NEW amount \in Adjustments,
             AdjustBalance(a, amount)
      PROVE  Untouched' /\ Positions'
  BY <1>9 DEF AdjustBalance
<1>10. ASSUME NEW h \in Handlers, Fail(h) PROVE Untouched' /\ Positions'
  BY <1>10 DEF Fail
<1>11. CASE UNCHANGED vars
  BY <1>11 DEF vars
<1> QED
  BY <1>1, <1>2, <1>3, <1>4, <1>5, <1>6, <1>7, <1>8, <1>9, <1>10, <1>11
  DEF Next, Undisturbed, Receive, Resume, Adjust, ApproveRead, RejectRead, CancelRead,
      ApproveTell, RejectTell

-----------------------------------------------------------------------------
(* The audit trail and the notices.                                         *)

LEMMA TrailInit == Init => AuditMatchesDecision
BY DEF Init, AuditMatchesDecision, NoticeAfterCharge

LEMMA TrailNext ==
    /\ TypeOK /\ Working /\ Untouched /\ Positions
    /\ AuditMatchesDecision /\ [Next]_vars
    => AuditMatchesDecision'
<1> SUFFICES ASSUME TypeOK, Working, Untouched, Positions,
                    AuditMatchesDecision, [Next]_vars
             PROVE  AuditMatchesDecision'
  OBVIOUS
<1> USE LeaveAssumption DEF TypeOK, Working, Untouched, Positions, Position, Typed,
        Goto, Done, docs, local, history, AuditMatchesDecision, NoticeAfterCharge
<1>1. ASSUME NEW h \in Handlers, NEW r \in Requests, NEW f \in Forms,
             RequestCheck(h, r, f)
      PROVE  AuditMatchesDecision'
  BY <1>1 DEF RequestCheck
<1>2. ASSUME NEW h \in Handlers, RequestCreate(h) PROVE AuditMatchesDecision'
  BY <1>2 DEF RequestCreate
<1>3. ASSUME NEW h \in Handlers, NEW r \in Requests,
             NEW to \in {"approve", "reject", "cancel"}, ReadPending(h, r, to)
      PROVE  AuditMatchesDecision'
  BY <1>3 DEF ReadPending
<1>4. ASSUME NEW h \in Handlers, ApproveWrite(h) PROVE AuditMatchesDecision'
  <2>1. /\ status' = [status EXCEPT ![job[h]] = "APPROVED"]
        /\ approvals' = [approvals EXCEPT ![job[h]] = <<"APPROVED">>]
        /\ UNCHANGED <<form, notices, charged>>
    <3>1. seen[h].approvals = <<>> /\ job[h] \in Requests
      BY <1>4 DEF ApproveWrite
    <3>2. Append(<<>>, "APPROVED") = <<"APPROVED">>
      OBVIOUS
    <3> QED  BY <1>4, <3>1, <3>2 DEF ApproveWrite, WriteDecision, Approvals
  <2> QED  BY <2>1
<1>5. ASSUME NEW h \in Handlers, RejectWrite(h) PROVE AuditMatchesDecision'
  <2>1. /\ status' = [status EXCEPT ![job[h]] = "REJECTED"]
        /\ approvals' = [approvals EXCEPT ![job[h]] = <<"REJECTED">>]
        /\ UNCHANGED <<form, notices, charged>>
    <3>1. seen[h].approvals = <<>> /\ job[h] \in Requests
      BY <1>5 DEF RejectWrite
    <3>2. Append(<<>>, "REJECTED") = <<"REJECTED">>
      OBVIOUS
    <3> QED  BY <1>5, <3>1, <3>2 DEF RejectWrite, WriteDecision, Approvals
  <2> QED  BY <2>1
<1>6. ASSUME NEW h \in Handlers, CancelWrite(h) PROVE AuditMatchesDecision'
  BY <1>6 DEF CancelWrite, WriteDecision
<1>7. ASSUME NEW h \in Handlers, ApproveCharge(h) PROVE AuditMatchesDecision'
  BY <1>7 DEF ApproveCharge
<1>8. ASSUME NEW h \in Handlers, NEW at \in {"tellApproved", "tellRejected"},
             NEW d \in {"APPROVED", "REJECTED"}, Tell(h, at, d),
             at = "tellApproved" <=> d = "APPROVED"
      PROVE  AuditMatchesDecision'
  <2>1. "APPROVED" \in notices'[job[h]] => "APPROVED" \in notices[job[h]] \/ d = "APPROVED"
    BY <1>8 DEF Tell
  <2>2. \A r \in Requests : r # job[h] => notices'[r] = notices[r]
    BY <1>8 DEF Tell
  <2> QED  BY <1>8, <2>1, <2>2 DEF Tell
<1>9. ASSUME NEW a \in Accounts, NEW amount \in Adjustments,
             AdjustBalance(a, amount)
      PROVE  AuditMatchesDecision'
  BY <1>9 DEF AdjustBalance
<1>10. ASSUME NEW h \in Handlers, Fail(h) PROVE AuditMatchesDecision'
  BY <1>10 DEF Fail
<1>11. CASE UNCHANGED vars
  BY <1>11 DEF vars
<1> QED
  BY <1>1, <1>2, <1>3, <1>4, <1>5, <1>6, <1>7, <1>8, <1>9, <1>10, <1>11
  DEF Next, Undisturbed, Receive, Resume, Adjust, ApproveRead, RejectRead, CancelRead,
      ApproveTell, RejectTell

-----------------------------------------------------------------------------
(* Deductions.                                                              *)

\* ChargedExactlyOnce with the handlers named one by one.
IsCharging(h, r) == pc[h] = "charge" /\ job[h] = r

Deduction(r) ==
    /\ status[r] = "APPROVED" /\ Typed(r) =>
         \/ charged[r] = 1 /\ \A h \in Handlers : ~IsCharging(h, r)
         \/ charged[r] = 0 /\ \E h \in Handlers : \A g \in Handlers :
                                  IsCharging(g, r) <=> g = h
    /\ ~(status[r] = "APPROVED" /\ Typed(r)) =>
         charged[r] = 0 /\ \A h \in Handlers : ~IsCharging(h, r)

Deductions == \A r \in Requests \ (stale \cup cut) : Deduction(r)

LEMMA DeductionsMeaning == Deductions <=> ChargedExactlyOnce
BY DEF Deductions, Deduction, ChargedExactlyOnce, Charging, IsCharging

LEMMA DeductionInit == Init => Deductions
BY DEF Init, Deductions, Deduction, IsCharging

\* A step that leaves what Deduction(q) reads alone.
LEMMA DeductionFrame ==
    ASSUME NEW q \in Requests, Deduction(q),
           status'[q] = status[q], form'[q] = form[q], charged'[q] = charged[q],
           \A g \in Handlers : IsCharging(g, q)' <=> IsCharging(g, q)
    PROVE  Deduction(q)'
BY DEF Deduction, Typed

LEMMA DeductionNext ==
    TypeOK /\ Working /\ Untouched /\ Positions /\ Deductions /\ [Next]_vars
    => Deductions'
<1> SUFFICES ASSUME TypeOK, Working, Untouched, Positions, Deductions, [Next]_vars
             PROVE  Deductions'
  OBVIOUS
<1> USE LeaveAssumption DEF TypeOK, Working, Untouched, Positions, Position, Typed,
        Goto, Done, docs, local, history, Deductions, Deduction, IsCharging
<1>1. ASSUME NEW h \in Handlers, NEW r \in Requests, NEW f \in Forms,
             RequestCheck(h, r, f)
      PROVE  Deductions'
  BY <1>1 DEF RequestCheck
<1>2. ASSUME NEW h \in Handlers, RequestCreate(h) PROVE Deductions'
  BY <1>2 DEF RequestCreate
<1>3. ASSUME NEW h \in Handlers, NEW r \in Requests,
             NEW to \in {"approve", "reject", "cancel"}, ReadPending(h, r, to)
      PROVE  Deductions'
  <2> SUFFICES ASSUME NEW q \in Requests, q \notin stale', q \notin cut'
               PROVE  Deduction(q)'
    OBVIOUS
  <2>1. \A g \in Handlers : IsCharging(g, q)' <=> IsCharging(g, q)
    BY <1>3 DEF ReadPending
  <2> QED  BY <1>3, <2>1, DeductionFrame DEF ReadPending
<1>4. ASSUME NEW h \in Handlers, ApproveWrite(h) PROVE Deductions'
  <2> SUFFICES ASSUME NEW q \in Requests, q \notin stale', q \notin cut'
               PROVE  Deduction(q)'
    OBVIOUS
  <2>1. q \notin stale /\ q \notin cut
    BY <1>4 DEF ApproveWrite, WriteDecision
  <2>2. CASE q # job[h]
    <3>1. \A g \in Handlers : IsCharging(g, q)' <=> IsCharging(g, q)
      BY <1>4, <2>2 DEF ApproveWrite
    <3>2. status'[q] = status[q] /\ form'[q] = form[q] /\ charged'[q] = charged[q]
      BY <1>4, <2>2 DEF ApproveWrite, WriteDecision
    <3> QED  BY <2>1, <3>1, <3>2, DeductionFrame
  <2>3. CASE q = job[h]
    <3>1. status[q] = "PENDING" /\ charged[q] = 0
      BY <1>4, <2>3 DEF ApproveWrite, WriteDecision
    <3>2. \A g \in Handlers : ~IsCharging(g, q)
      BY <3>1
    <3>3. /\ status'[q] = "APPROVED" /\ form' = form /\ charged' = charged
          /\ pc' = [pc EXCEPT ![h] = IF Typed(q) THEN "charge" ELSE "tellApproved"]
          /\ job' = job
      BY <1>4, <2>3 DEF ApproveWrite, WriteDecision
    <3>4. CASE Typed(q)
      <4>1. \A g \in Handlers : IsCharging(g, q)' <=> g = h
        BY <2>3, <3>2, <3>3, <3>4
      <4> QED  BY <3>1, <3>3, <3>4, <4>1
    <3>5. CASE ~Typed(q)
      <4>1. \A g \in Handlers : ~IsCharging(g, q)'
        BY <2>3, <3>2, <3>3, <3>5
      <4> QED  BY <3>1, <3>3, <3>5, <4>1
    <3> QED  BY <3>4, <3>5
  <2> QED  BY <2>2, <2>3
<1>5. ASSUME NEW h \in Handlers, RejectWrite(h) PROVE Deductions'
  <2> SUFFICES ASSUME NEW q \in Requests, q \notin stale', q \notin cut'
               PROVE  Deduction(q)'
    OBVIOUS
  <2>1. \A g \in Handlers : IsCharging(g, q)' <=> IsCharging(g, q)
    BY <1>5 DEF RejectWrite
  <2>2. /\ q \notin stale /\ q \notin cut
        /\ form' = form /\ charged' = charged
        /\ status' = [status EXCEPT ![job[h]] = "REJECTED"]
    BY <1>5 DEF RejectWrite, WriteDecision
  <2>3. CASE q # job[h]
    <3>1. status'[q] = status[q] /\ form'[q] = form[q] /\ charged'[q] = charged[q]
      BY <2>2, <2>3
    <3> QED  BY <2>1, <2>2, <3>1, DeductionFrame
  <2>4. CASE q = job[h]
    <3>1. status[q] = "PENDING"
      BY <1>5, <2>4 DEF RejectWrite, WriteDecision
    <3> QED  BY <2>1, <2>2, <2>4, <3>1
  <2> QED  BY <2>3, <2>4
<1>6. ASSUME NEW h \in Handlers, CancelWrite(h) PROVE Deductions'
  BY <1>6 DEF CancelWrite, WriteDecision
<1>7. ASSUME NEW h \in Handlers, ApproveCharge(h) PROVE Deductions'
  <2> SUFFICES ASSUME NEW q \in Requests, q \notin stale', q \notin cut'
               PROVE  Deduction(q)'
    OBVIOUS
  <2>1. /\ q \notin stale /\ q \notin cut
        /\ status' = status /\ form' = form /\ job' = job
        /\ charged' = [charged EXCEPT ![job[h]] = @ + 1]
        /\ pc' = [pc EXCEPT ![h] = "tellApproved"]
        /\ IsCharging(h, job[h]) /\ job[h] \in Requests
    BY <1>7 DEF ApproveCharge
  <2>2. CASE q # job[h]
    <3>1. \A g \in Handlers : IsCharging(g, q)' <=> IsCharging(g, q)
      BY <2>1, <2>2
    <3>2. status'[q] = status[q] /\ form'[q] = form[q] /\ charged'[q] = charged[q]
      BY <2>1, <2>2
    <3> QED  BY <2>1, <3>1, <3>2, DeductionFrame
  <2>3. CASE q = job[h]
    <3>1. /\ status[q] = "APPROVED" /\ Typed(q) /\ charged[q] = 0
          /\ \A g \in Handlers : IsCharging(g, q) <=> g = h
      <4>1. Deduction(q)
        <5> HIDE DEF Deduction
        <5> QED  BY <2>1
      <4>2. IsCharging(h, q)
        BY <2>1, <2>3
      <4>3. status[q] = "APPROVED" /\ Typed(q)
        BY <4>1, <4>2
      <4> QED  BY <4>1, <4>2, <4>3
    <3>2. \A g \in Handlers : ~IsCharging(g, q)'
      BY <2>1, <2>3, <3>1
    <3> QED  BY <2>1, <2>3, <3>1, <3>2
  <2> QED  BY <2>2, <2>3
<1>8. ASSUME NEW h \in Handlers, NEW at \in {"tellApproved", "tellRejected"},
             NEW d \in {"APPROVED", "REJECTED"}, Tell(h, at, d)
      PROVE  Deductions'
  BY <1>8 DEF Tell
<1>9. ASSUME NEW a \in Accounts, NEW amount \in Adjustments,
             AdjustBalance(a, amount)
      PROVE  Deductions'
  BY <1>9 DEF AdjustBalance
<1>10. ASSUME NEW h \in Handlers, Fail(h) PROVE Deductions'
  BY <1>10 DEF Fail
<1>11. CASE UNCHANGED vars
  BY <1>11 DEF vars
<1> QED
  BY <1>1, <1>2, <1>3, <1>4, <1>5, <1>6, <1>7, <1>8, <1>9, <1>10, <1>11
  DEF Next, Undisturbed, Receive, Resume, Adjust, ApproveRead, RejectRead, CancelRead,
      ApproveTell, RejectTell

-----------------------------------------------------------------------------
(* Overlapping leave.                                                       *)

\* What the overlap check established, and what may have undone it since.
Checked(h) ==
    \A q \in Requests :
        Active(q) /\ form[q].emp = draft[h].emp /\ Meets(form[q], draft[h])
            => q \in since[h] \/ q \in stale

StoredForms ==
    \A r, q \in Requests :
        r # q /\ Active(r) /\ Active(q) /\ form[r].emp = form[q].emp
             /\ Meets(form[r], form[q])
            => {r, q} \in twins \/ r \in stale \/ q \in stale

Overlaps ==
    /\ \A h \in Handlers : pc[h] = "create" => Checked(h)
    /\ \A h \in Handlers : pc[h] # "create" => since[h] = {}
    /\ StoredForms

LEMMA OverlapsInit == Init => Overlaps
BY DEF Init, Overlaps, StoredForms, Active

\* An instant of a later day comes later, if both are midnights: a day has
\* DayLength instants.
LEMMA MidnightsInOrder ==
    ASSUME NEW a \in Int, NEW b \in Int, a % DayLength = 0, b % DayLength = 0,
           a \div DayLength <= b \div DayLength
    PROVE  a <= b
<1>1. PICK D \in Nat \ {0} : D = DayLength
  BY LeaveAssumption
<1>2. PICK x \in Int, y \in Int : x = a \div D /\ y = b \div D
  BY <1>1
<1>3. a = D * x /\ b = D * y
  BY <1>1, <1>2
<1>4. D * x <= D * y
  <2>1. x <= y
    BY <1>1, <1>2
  <2>2. PICK z \in Nat : z = y - x
    BY <2>1
  <2>3. D * z \in Nat /\ D * y = D * x + D * z
    BY <2>2
  <2> QED  BY <2>3
<1> QED  BY <1>3, <1>4

\* Two requests that clash meet the condition of the query.
LEMMA ClashMeets ==
    ASSUME NEW f \in Forms, NEW g \in Forms,
           \/ Span(f) \cap Span(g) # {}
           \/ /\ DatesAlone(f) /\ DatesAlone(g)
              /\ DaysOf(f) \cap DaysOf(g) # {}
    PROVE  Meets(f, g)
<1>1. /\ f.start \in Int /\ f.end \in Int /\ g.start \in Int /\ g.end \in Int
  BY LeaveAssumption DEF Forms
<1>2. CASE Span(f) \cap Span(g) # {}
  <2>1. PICK m \in Int : f.start <= m /\ m <= f.end /\ g.start <= m /\ m <= g.end
    BY <1>1, <1>2 DEF Span
  <2> QED  BY <1>1, <2>1 DEF Meets
<1>3. CASE /\ DatesAlone(f) /\ DatesAlone(g)
           /\ DaysOf(f) \cap DaysOf(g) # {}
  <2>1. /\ f.start \div DayLength \in Int /\ f.end \div DayLength \in Int
        /\ g.start \div DayLength \in Int /\ g.end \div DayLength \in Int
    BY <1>1, LeaveAssumption
  <2>2. PICK d \in Int : /\ f.start \div DayLength <= d /\ d <= f.end \div DayLength
                         /\ g.start \div DayLength <= d /\ d <= g.end \div DayLength
    BY <1>3, <2>1 DEF DaysOf
  <2>3. /\ f.start \div DayLength <= g.end \div DayLength
        /\ g.start \div DayLength <= f.end \div DayLength
    BY <2>1, <2>2
  <2>4. f.start <= g.end /\ g.start <= f.end
    BY <1>1, <1>3, <2>3, MidnightsInOrder DEF DatesAlone
  <2> QED  BY <1>1, <2>4 DEF Meets
<1> QED  BY <1>2, <1>3

LEMMA OverlapsMeaning == TypeOK /\ Overlaps => OverlapExplained
<1> SUFFICES ASSUME TypeOK, Overlaps, NEW r \in Requests, NEW q \in Requests, Clash(r, q)
             PROVE  {r, q} \in twins \/ r \in stale \/ q \in stale
  BY DEF OverlapExplained
<1>1. form[r] \in Forms /\ form[q] \in Forms
  BY DEF TypeOK
<1>2. Meets(form[r], form[q])
  BY <1>1, ClashMeets DEF Clash
<1> QED  BY <1>2 DEF Clash, Overlaps, StoredForms

LEMMA MeetsBothWays ==
    ASSUME NEW f \in Forms, NEW g \in Forms
    PROVE  Meets(f, g) <=> Meets(g, f)
<1>1. /\ f.start \in Int /\ f.end \in Int /\ g.start \in Int /\ g.end \in Int
  BY LeaveAssumption DEF Forms
<1> QED  BY <1>1 DEF Meets

LEMMA OverlapsNext ==
    TypeOK /\ Working /\ Positions /\ Overlaps /\ [Next]_vars => Overlaps'
<1> SUFFICES ASSUME TypeOK, Working, Positions, Overlaps, [Next]_vars PROVE Overlaps'
  OBVIOUS
<1> USE LeaveAssumption DEF TypeOK, Working, Positions, Position,
        Goto, Done, docs, local, history, Overlaps, StoredForms, Checked, Active
<1>1. ASSUME NEW h \in Handlers, NEW r \in Requests, NEW f \in Forms,
             RequestCheck(h, r, f)
      PROVE  Overlaps'
  <2>1. Checked(h)'
    BY <1>1 DEF RequestCheck, Overlapping
  <2>2. \A g \in Handlers : g # h => pc'[g] = pc[g] /\ draft'[g] = draft[g]
    BY <1>1 DEF RequestCheck
  <2> QED  BY <1>1, <2>1, <2>2 DEF RequestCheck
<1>2. ASSUME NEW h \in Handlers, RequestCreate(h) PROVE Overlaps'
  <2> DEFINE r == job[h]
  <2>1. /\ r \in Requests /\ status[r] = "NONE" /\ Checked(h)
        /\ status' = [status EXCEPT ![r] = "PENDING"]
        /\ form' = [form EXCEPT ![r] = draft[h]]
        /\ pc' = [pc EXCEPT ![h] = "idle"]
        /\ draft' = [draft EXCEPT ![h] = NoForm]
        /\ stale' = stale
        /\ twins' = twins \cup {{r, q} : q \in since[h]}
        /\ \A g \in Handlers : pc'[g] = "create" => since'[g] = since[g] \cup {r}
        /\ \A g \in Handlers : pc'[g] # "create" => since'[g] = {}
    BY <1>2 DEF RequestCreate
  <2>2. \A g \in Handlers : pc'[g] = "create" => Checked(g)'
    BY <2>1
  <2>3. ASSUME NEW q \in Requests, q # r, Active(q), form[q].emp = draft[h].emp,
               Meets(form[q], draft[h]) \/ Meets(draft[h], form[q])
        PROVE  {r, q} \in twins' \/ q \in stale
    <3>1. form[q] \in Forms /\ draft[h] \in Forms
      OBVIOUS
    <3>2. Meets(form[q], draft[h])
      BY <2>3, <3>1, MeetsBothWays
    <3> QED  BY <2>1, <2>3, <3>2
  <2>4. StoredForms'
    <3> SUFFICES ASSUME NEW p \in Requests, NEW q \in Requests, p # q,
                        Active(p)', Active(q)', form'[p].emp = form'[q].emp,
                        Meets(form'[p], form'[q])
                 PROVE  {p, q} \in twins' \/ p \in stale \/ q \in stale
      BY <2>1
    <3>1. CASE p = r
      <4>1. /\ Active(q) /\ form[q].emp = draft[h].emp
            /\ Meets(draft[h], form[q])
        BY <2>1, <3>1
      <4> QED  BY <2>3, <3>1, <4>1
    <3>2. CASE q = r
      <4>1. /\ Active(p) /\ form[p].emp = draft[h].emp
            /\ Meets(form[p], draft[h])
        BY <2>1, <3>2
      <4>2. {r, p} = {p, q}
        BY <3>2
      <4>3. {r, p} \in twins' \/ p \in stale
        BY <2>3, <3>2, <4>1
      <4> QED  BY <4>2, <4>3
    <3>3. CASE p # r /\ q # r
      BY <2>1, <3>3
    <3> QED  BY <3>1, <3>2, <3>3
  <2> QED  BY <2>1, <2>2, <2>4
<1>3. ASSUME NEW h \in Handlers, NEW r \in Requests,
             NEW to \in {"approve", "reject", "cancel"}, ReadPending(h, r, to)
      PROVE  Overlaps'
  BY <1>3 DEF ReadPending
<1>4. ASSUME NEW h \in Handlers, ApproveWrite(h) PROVE Overlaps'
  BY <1>4 DEF ApproveWrite, WriteDecision, Approvals
<1>5. ASSUME NEW h \in Handlers, RejectWrite(h) PROVE Overlaps'
  BY <1>5 DEF RejectWrite, WriteDecision, Approvals
<1>6. ASSUME NEW h \in Handlers, CancelWrite(h) PROVE Overlaps'
  BY <1>6 DEF CancelWrite, WriteDecision
<1>7. ASSUME NEW h \in Handlers, ApproveCharge(h) PROVE Overlaps'
  BY <1>7 DEF ApproveCharge
<1>8. ASSUME NEW h \in Handlers, NEW at \in {"tellApproved", "tellRejected"},
             NEW d \in {"APPROVED", "REJECTED"}, Tell(h, at, d)
      PROVE  Overlaps'
  BY <1>8 DEF Tell
<1>9. ASSUME NEW a \in Accounts, NEW amount \in Adjustments,
             AdjustBalance(a, amount)
      PROVE  Overlaps'
  BY <1>9 DEF AdjustBalance
<1>10. ASSUME NEW h \in Handlers, Fail(h) PROVE Overlaps'
  BY <1>10 DEF Fail
<1>11. CASE UNCHANGED vars
  BY <1>11 DEF vars
<1> QED
  BY <1>1, <1>2, <1>3, <1>4, <1>5, <1>6, <1>7, <1>8, <1>9, <1>10, <1>11
  DEF Next, Undisturbed, Receive, Resume, Adjust, ApproveRead, RejectRead, CancelRead,
      ApproveTell, RejectTell

-----------------------------------------------------------------------------
(* The theorems, for any number of handlers, with failures.                 *)

LEMMA PositionInvariant == Spec => [](Untouched /\ Positions)
BY TypeInvariant, PositionsInit, PositionsNext, PTL DEF Spec

\* A status and its approvals entry agree, and an approval is notified only
\* after its deduction (approve, reject).
THEOREM TrailCorrect == Spec => []AuditMatchesDecision
BY TypeInvariant, PositionInvariant, TrailInit, TrailNext, PTL DEF Spec

\* A request that no outdated read and no failure touched is deducted once
\* when it is APPROVED with a leave type, and never otherwise (approve).
THEOREM DeductionCorrect == Spec => []ChargedExactlyOnce
<1>1. Spec => []Deductions
  BY TypeInvariant, PositionInvariant, DeductionInit, DeductionNext, PTL DEF Spec
<1> QED  BY <1>1, DeductionsMeaning, PTL

LEMMA OverlapsInvariant == Spec => []Overlaps
BY TypeInvariant, PositionInvariant, OverlapsInit, OverlapsNext, PTL DEF Spec

\* Live requests of an employee that have an instant in common, or a day if they
\* were given by dates alone, exist only through the two races that
\* OverlapExplained names (request, approve).
THEOREM OverlapCorrect == Spec => []OverlapExplained
BY TypeInvariant, OverlapsInvariant, OverlapsMeaning, PTL

-----------------------------------------------------------------------------
(* The balances.                                                            *)

\* What every request was deducted, and the requests deducted from an account.
Charges == [r \in Requests |-> charged[r] * Charge(form[r])]
Deducted == {r \in Requests : charged[r] > 0}
DeductedFrom(a) == {r \in Deducted : AccountOf(form[r]) = a}

Ledger ==
    /\ IsFiniteSet(Deducted)
    /\ \A a \in Accounts :
         /\ balance[a].remaining = balance[a].total - balance[a].used
         /\ balance[a].used = Total(Charges, DeductedFrom(a))

\* The sum of the property is the sum of the lemmas.
LEMMA SumMeaning ==
    ASSUME NEW S \in SUBSET Requests
    PROVE  MapThenSumSet(LAMBDA r : charged[r] * Charge(form[r]), S) = Total(Charges, S)
<1>1. \A s \in SUBSET S : s # {} =>
          Charges[Chosen(s)] = charged[Chosen(s)] * Charge(form[Chosen(s)])
  BY DEF Charges, Chosen
<1> HIDE DEF Charges
<1>2. \A f : f = [s \in SUBSET S |->
                    IF s = {} THEN 0
                    ELSE charged[Chosen(s)] * Charge(form[Chosen(s)]) + f[s \ {Chosen(s)}]]
             <=> Adds(Charges, S, f)
  BY <1>1 DEF Adds
<1> QED  BY <1>2 DEF MapThenSumSet, MapThenFoldSet, Total, Adding, Chosen

LEMMA LedgerMeaning == Ledger => LedgerBalanced
<1> SUFFICES ASSUME Ledger, NEW a \in Accounts
             PROVE  /\ balance[a].remaining = balance[a].total - balance[a].used
                    /\ balance[a].used =
                         MapThenSumSet(LAMBDA r : charged[r] * Charge(form[r]),
                           {r \in Requests : charged[r] > 0 /\ AccountOf(form[r]) = a})
  BY DEF LedgerBalanced
<1>1. DeductedFrom(a) = {r \in Requests : charged[r] > 0 /\ AccountOf(form[r]) = a}
  BY DEF DeductedFrom, Deducted
<1>2. DeductedFrom(a) \in SUBSET Requests
  BY DEF DeductedFrom, Deducted
<1>3. MapThenSumSet(LAMBDA r : charged[r] * Charge(form[r]), DeductedFrom(a))
        = Total(Charges, DeductedFrom(a))
  BY <1>2, SumMeaning
<1> QED  BY <1>1, <1>3 DEF Ledger

LEMMA ProductType == ASSUME NEW c \in Int, NEW k \in Int PROVE c * k \in Int
OBVIOUS

LEMMA OnceMore == ASSUME NEW c \in Int, NEW k \in Int PROVE (c + 1) * k = c * k + k
OBVIOUS

LEMMA ChargesType == TypeOK => \A r \in Requests : Charges[r] \in Int
<1> SUFFICES ASSUME TypeOK, NEW r \in Requests PROVE Charges[r] \in Int
  OBVIOUS
<1>1. charged[r] \in Int /\ Charge(form[r]) \in Int
  BY ChargeType DEF TypeOK
<1> QED  BY <1>1, ProductType DEF Charges

LEMMA LedgerInit == Init => Ledger
<1> SUFFICES ASSUME Init PROVE Ledger
  OBVIOUS
<1>1. Deducted = {}
  BY DEF Init, Deducted
<1>2. \A a \in Accounts : DeductedFrom(a) = {}
  BY <1>1 DEF DeductedFrom
<1>3. \A a \in Accounts : Total(Charges, DeductedFrom(a)) = 0
  BY <1>2, TotalOfNone
<1>4. \A a \in Accounts : balance[a].remaining = balance[a].total - balance[a].used
                          /\ balance[a].used = 0
  BY DEF Init
<1> QED  BY <1>1, <1>3, <1>4, FS_EmptySet DEF Ledger

\* A step that deducts nothing: neither the deductions nor the forms they were
\* made for change, and an account only in what it grants.
LEMMA LedgerFrame ==
    ASSUME TypeOK, Ledger, charged' = charged,
           \A r \in Deducted : form'[r] = form[r],
           \A a \in Accounts :
             /\ balance'[a].used = balance[a].used
             /\ balance'[a].remaining = balance'[a].total - balance'[a].used
    PROVE  Ledger'
<1>1. Deducted' = Deducted
  BY DEF Deducted
<1>2. \A a : DeductedFrom(a)' = DeductedFrom(a)
  BY <1>1 DEF DeductedFrom
<1>3. ASSUME NEW a \in Accounts
      PROVE  Total(Charges', DeductedFrom(a)) = Total(Charges, DeductedFrom(a))
  <2>1. IsFiniteSet(DeductedFrom(a))
    BY FS_Subset DEF Ledger, DeductedFrom
  <2>2. \A r \in DeductedFrom(a) : Charges'[r] = Charges[r]
    BY DEF Charges, DeductedFrom, Deducted
  <2> QED  BY <2>1, <2>2, TotalAgrees
<1> QED  BY <1>1, <1>2, <1>3 DEF Ledger

LEMMA LedgerCharge ==
    ASSUME TypeOK, Working, Positions, Ledger, NEW h \in Handlers, ApproveCharge(h)
    PROVE  Ledger'
<1>1. PICK r \in Requests : r = job[h]
  BY DEF ApproveCharge, Working
<1> DEFINE amount == Charge(form[r])
<1>0. PICK b : b = AccountOf(form[r])
  OBVIOUS
<1>2. amount \in Int /\ charged[r] \in Nat
  BY ChargeType DEF TypeOK
<1>3. /\ balance' = [balance EXCEPT ![b] = Deduct(@, amount)]
      /\ charged' = [charged EXCEPT ![r] = @ + 1]
      /\ form' = form
  BY <1>0, <1>1 DEF ApproveCharge
<1>4. Deducted' = Deducted \cup {r}
  <2>1. \A q \in Requests : charged'[q] = IF q = r THEN charged[r] + 1 ELSE charged[q]
    BY <1>3 DEF TypeOK
  <2> QED  BY <1>2, <2>1 DEF Deducted
<1>5. IsFiniteSet(Deducted')
  BY <1>4, FS_AddElement DEF Ledger
<1>6. Charges' = [Charges EXCEPT ![r] = @ + amount]
  <2>1. \A q \in Requests : charged'[q] = IF q = r THEN charged[r] + 1 ELSE charged[q]
    BY <1>3 DEF TypeOK
  <2>2. (charged[r] + 1) * amount = charged[r] * amount + amount
    BY <1>2, OnceMore
  <2>3. \A q \in Requests : Charges'[q] = IF q = r THEN Charges[r] + amount ELSE Charges[q]
    BY <1>3, <2>1, <2>2 DEF Charges
  <2> QED  BY <2>3 DEF Charges
<1>7. \A q \in Requests : Charges[q] \in Int
  BY ChargesType
<1>8. \A a \in Accounts : a # b => DeductedFrom(a)' = DeductedFrom(a)
  BY <1>0, <1>3, <1>4 DEF DeductedFrom
<1>9. DeductedFrom(b)' = DeductedFrom(b) \cup {r}
  BY <1>0, <1>3, <1>4 DEF DeductedFrom
<1>10. \A a : DeductedFrom(a) \in SUBSET Requests /\ IsFiniteSet(DeductedFrom(a))
  BY FS_Subset DEF Ledger, DeductedFrom, Deducted
<1>11. ASSUME NEW a \in Accounts, a # b
       PROVE  Total(Charges, DeductedFrom(a))' = Total(Charges, DeductedFrom(a))
  <2>1. r \notin DeductedFrom(a)
    BY <1>0, <1>11 DEF DeductedFrom
  <2>2. \A q \in DeductedFrom(a) : q \in Requests /\ q # r
    BY <1>10, <2>1
  <2>3. \A q \in DeductedFrom(a) : Charges'[q] = Charges[q]
    BY <1>6, <2>2 DEF Charges
  <2>4. Total(Charges', DeductedFrom(a)) = Total(Charges, DeductedFrom(a))
    BY <1>10, <2>3, TotalAgrees
  <2> QED  BY <1>8, <1>11, <2>4
<1>12. Total(Charges, DeductedFrom(b))' = Total(Charges, DeductedFrom(b)) + amount
  <2> DEFINE S == DeductedFrom(b)
             R == S \ {r}
  <2>1. /\ S \in SUBSET Requests /\ IsFiniteSet(S)
        /\ R \in SUBSET Requests /\ IsFiniteSet(R)
    BY <1>10, FS_Subset
  <2>2. IsFiniteSet(S \cup {r}) /\ (S \cup {r}) \ {r} = R
    BY <2>1, FS_AddElement
  <2>3. Charges'[r] = Charges[r] + amount /\ \A q \in Requests : q # r => Charges'[q] = Charges[q]
    BY <1>6 DEF Charges
  <2>4. \A q \in Requests : Charges'[q] \in Int
    BY <1>2, <1>7, <2>3
  <2> HIDE DEF S
  <2>5. Total(Charges', S \cup {r}) = Charges'[r] + Total(Charges', R)
    BY <2>1, <2>2, <2>4, TotalSplits
  <2>6. Total(Charges', R) = Total(Charges, R) /\ Total(Charges, R) \in Int
    <3> HIDE DEF R
    <3>1. \A q \in R : Charges'[q] = Charges[q]
      BY <2>1, <2>3 DEF R
    <3>2. Total(Charges', R) = Total(Charges, R)
      BY <2>1, <3>1, TotalAgrees
    <3>3. Total(Charges, R) \in Int
      BY <1>7, <2>1, TotalType
    <3> QED  BY <3>2, <3>3
  <2>7. Total(Charges, S) = Charges[r] + Total(Charges, R)
    <3>1. CASE r \in S
      BY <1>7, <2>1, <3>1, TotalSplits
    <3>2. CASE r \notin S
      <4>1. R = S
        BY <3>2
      <4>2. charged[r] = 0
        BY <1>0, <1>2, <3>2 DEF S, DeductedFrom, Deducted
      <4>3. Charges[r] = 0
        BY <1>2, <4>2 DEF Charges
      <4> HIDE DEF R
      <4> QED  BY <2>6, <4>1, <4>3
    <3> QED  BY <3>1, <3>2
  <2>8. Total(Charges', S \cup {r}) = Total(Charges, S) + amount
    BY <1>2, <1>7, <2>3, <2>5, <2>6, <2>7
  <2> QED  BY <1>9, <2>8 DEF S
<1>13. ASSUME NEW a \in Accounts
       PROVE  /\ balance'[a].remaining = balance'[a].total - balance'[a].used
              /\ balance'[a].used = Total(Charges, DeductedFrom(a))'
  <2>1. /\ balance[a].total \in Int /\ balance[a].used \in Int
        /\ balance[a].remaining = balance[a].total - balance[a].used
        /\ balance[a].used = Total(Charges, DeductedFrom(a))
    BY DEF TypeOK, Ledger
  <2>2. CASE a = b
    <3>1. balance'[a] = Deduct(balance[a], amount)
      BY <1>3, <2>2 DEF TypeOK
    <3>2. /\ balance'[a].total = balance[a].total
          /\ balance'[a].used = balance[a].used + amount
          /\ balance'[a].remaining = balance[a].remaining - amount
      BY <3>1 DEF Deduct
    <3> HIDE DEF amount
    <3> QED  BY <1>2, <1>12, <2>1, <2>2, <3>2
  <2>3. CASE a # b
    <3>1. balance'[a] = balance[a]
      BY <1>3, <2>3 DEF TypeOK
    <3> QED  BY <1>11, <2>1, <2>3, <3>1
  <2> QED  BY <2>2, <2>3
<1> QED  BY <1>5, <1>13 DEF Ledger

LEMMA LedgerNext ==
    TypeOK /\ Working /\ Untouched /\ Positions /\ Ledger /\ [Next]_vars => Ledger'
<1> SUFFICES ASSUME TypeOK, Working, Untouched, Positions, Ledger, [Next]_vars
             PROVE  Ledger'
  OBVIOUS
<1>1. ASSUME charged' = charged, form' = form, balance' = balance PROVE Ledger'
  BY <1>1, LedgerFrame DEF Ledger
<1>2. ASSUME NEW h \in Handlers, NEW r \in Requests, NEW f \in Forms,
             RequestCheck(h, r, f)
      PROVE  Ledger'
  BY <1>1, <1>2 DEF RequestCheck, docs, history
<1>3. ASSUME NEW h \in Handlers, RequestCreate(h) PROVE Ledger'
  <2>1. PICK r \in Requests : r = job[h]
    BY <1>3 DEF RequestCreate, Working
  <2>2. /\ charged[r] = 0 /\ charged' = charged /\ balance' = balance
        /\ form' = [form EXCEPT ![r] = draft[h]]
    BY <1>3, <2>1 DEF RequestCreate, Untouched, Positions, Position
  <2>3. \A q \in Deducted : form'[q] = form[q]
    BY <2>2 DEF Deducted, TypeOK
  <2> QED  BY <2>2, <2>3, LedgerFrame DEF Ledger
<1>4. ASSUME NEW h \in Handlers, NEW r \in Requests,
             NEW to \in {"approve", "reject", "cancel"}, ReadPending(h, r, to)
      PROVE  Ledger'
  BY <1>1, <1>4 DEF ReadPending, docs, history
<1>5. ASSUME NEW h \in Handlers, ApproveWrite(h) \/ RejectWrite(h) \/ CancelWrite(h)
      PROVE  Ledger'
  BY <1>1, <1>5 DEF ApproveWrite, RejectWrite, CancelWrite, WriteDecision
<1>6. ASSUME NEW h \in Handlers, ApproveCharge(h) PROVE Ledger'
  BY <1>6, LedgerCharge
<1>7. ASSUME NEW h \in Handlers, NEW at \in {"tellApproved", "tellRejected"},
             NEW d \in {"APPROVED", "REJECTED"}, Tell(h, at, d)
      PROVE  Ledger'
  BY <1>1, <1>7 DEF Tell, history
<1>8. ASSUME NEW a \in Accounts, NEW amount \in Adjustments, AdjustBalance(a, amount)
      PROVE  Ledger'
  <2>1. /\ balance' = [balance EXCEPT ![a] = Grant(@, amount)]
        /\ charged' = charged /\ form' = form /\ amount \in Int
    BY <1>8, LeaveAssumption DEF AdjustBalance, history
  <2>2. ASSUME NEW b \in Accounts
        PROVE  /\ balance'[b].used = balance[b].used
               /\ balance'[b].remaining = balance'[b].total - balance'[b].used
    <3>1. /\ balance[b].total \in Int /\ balance[b].used \in Int
          /\ balance[b].remaining = balance[b].total - balance[b].used
      BY DEF TypeOK, Ledger
    <3>2. balance'[b] = IF a = b THEN Grant(balance[b], amount) ELSE balance[b]
      BY <2>1 DEF TypeOK
    <3> QED  BY <2>1, <3>1, <3>2 DEF Grant
  <2> QED  BY <2>1, <2>2, LedgerFrame
<1>9. ASSUME NEW h \in Handlers, Fail(h) PROVE Ledger'
  BY <1>1, <1>9 DEF Fail, docs
<1>10. CASE UNCHANGED vars
  BY <1>1, <1>10 DEF vars, docs, history
<1> QED
  BY <1>2, <1>3, <1>4, <1>5, <1>6, <1>7, <1>8, <1>9, <1>10
  DEF Next, Undisturbed, Receive, Resume, Adjust, ApproveRead, RejectRead, CancelRead,
      ApproveTell, RejectTell

\* Whatever handlers race or fail and HR grants, usedDays of every account is
\* the sum of what the requests deducted from it amount to, and remainingDays
\* is totalDays less usedDays (upsertBalance, adjustBalance).
THEOREM LedgerCorrect == Spec => []LedgerBalanced
<1>1. Spec => []Ledger
  BY TypeInvariant, PositionInvariant, LedgerInit, LedgerNext, PTL DEF Spec
<1> QED  BY <1>1, LedgerMeaning, PTL

-----------------------------------------------------------------------------
(* One handler at a time.                                                   *)

OneAtATime == \A g, h \in Handlers : g = h

Alone ==
    /\ stale = {} /\ twins = {}
    /\ \A h \in Handlers :
         /\ since[h] = {}
         /\ pc[h] \in {"approve", "reject", "cancel"} => status[job[h]] = "PENDING"

LEMMA AloneInit == Init => Alone
BY DEF Init, Alone

LEMMA AloneNext ==
    OneAtATime /\ TypeOK /\ Working /\ Positions /\ Overlaps /\ Alone /\ [Next]_vars => Alone'
<1> SUFFICES ASSUME OneAtATime, TypeOK, Working, Positions, Overlaps, Alone, [Next]_vars
             PROVE  Alone'
  OBVIOUS
<1> USE LeaveAssumption DEF OneAtATime, TypeOK, Working, Positions, Position,
        Goto, Done, docs, local, history, Alone
<1>1. ASSUME NEW h \in Handlers, NEW r \in Requests, NEW f \in Forms,
             RequestCheck(h, r, f)
      PROVE  Alone'
  BY <1>1 DEF RequestCheck
<1>2. ASSUME NEW h \in Handlers, RequestCreate(h) PROVE Alone'
  <2>1. {{job[h], q} : q \in since[h]} = {}
    OBVIOUS
  <2>2. stale' = {} /\ twins' = {}
    BY <1>2, <2>1 DEF RequestCreate
  <2>3. pc' = [pc EXCEPT ![h] = "idle"] /\ since'[h] = {}
    BY <1>2 DEF RequestCreate
  <2>4. \A g \in Handlers : g = h
    OBVIOUS
  <2> QED  BY <2>2, <2>3, <2>4
<1>3. ASSUME NEW h \in Handlers, NEW r \in Requests,
             NEW to \in {"approve", "reject", "cancel"}, ReadPending(h, r, to)
      PROVE  Alone'
  BY <1>3 DEF ReadPending
<1>4. ASSUME NEW h \in Handlers, ApproveWrite(h) PROVE Alone'
  BY <1>4 DEF ApproveWrite, WriteDecision, Approvals
<1>5. ASSUME NEW h \in Handlers, RejectWrite(h) PROVE Alone'
  BY <1>5 DEF RejectWrite, WriteDecision, Approvals
<1>6. ASSUME NEW h \in Handlers, CancelWrite(h) PROVE Alone'
  BY <1>6 DEF CancelWrite, WriteDecision
<1>7. ASSUME NEW h \in Handlers, ApproveCharge(h) PROVE Alone'
  BY <1>7 DEF ApproveCharge
<1>8. ASSUME NEW h \in Handlers, NEW at \in {"tellApproved", "tellRejected"},
             NEW d \in {"APPROVED", "REJECTED"}, Tell(h, at, d)
      PROVE  Alone'
  BY <1>8 DEF Tell
<1>9. ASSUME NEW a \in Accounts, NEW amount \in Adjustments,
             AdjustBalance(a, amount)
      PROVE  Alone'
  BY <1>9 DEF AdjustBalance
<1>10. ASSUME NEW h \in Handlers, Fail(h) PROVE Alone'
  BY <1>10 DEF Fail
<1>11. CASE UNCHANGED vars
  BY <1>11 DEF vars
<1> QED
  BY <1>1, <1>2, <1>3, <1>4, <1>5, <1>6, <1>7, <1>8, <1>9, <1>10, <1>11
  DEF Next, Undisturbed, Receive, Resume, Adjust, ApproveRead, RejectRead, CancelRead,
      ApproveTell, RejectTell

LEMMA AloneInvariant == OneAtATime /\ Spec => [](TypeOK /\ Working /\ Positions /\ Alone)
<1> SUFFICES ASSUME OneAtATime PROVE Spec => [](TypeOK /\ Working /\ Positions /\ Alone)
  OBVIOUS
<1>1. TypeOK /\ Working /\ Positions /\ Overlaps /\ Alone /\ [Next]_vars => Alone'
  BY AloneNext
<1> QED
  BY <1>1, TypeInvariant, PositionInvariant, OverlapsInvariant, AloneInit, PTL DEF Spec

\* Requests served one at a time never leave two live requests of an employee
\* that clash, even when handlers fail (request).
THEOREM NoOverlapAlone == OneAtATime /\ Spec => []NoOverlap
<1>1. OverlapExplained /\ Alone => NoOverlap
  BY DEF OverlapExplained, Alone, NoOverlap
<1> QED  BY <1>1, AloneInvariant, OverlapCorrect, PTL
-----------------------------------------------------------------------------
(* Refinement: any number of handlers implement ApprovalWorkflow.           *)

\* The refinement mapping, by name.
Binding == {r \in Requests : status[r] # "NONE" /\ Typed(r)}
Applied == [r \in Requests |-> charged[r] + IF Charging(r) = {} THEN 0 ELSE 1]
Contested == stale \cup cut
WorkflowState == <<status, Binding, Applied, Contested>>

\* The step leaves what the workflow reads of q alone.
Spares(q) ==
    /\ status'[q] = status[q] /\ form'[q] = form[q] /\ charged'[q] = charged[q]
    /\ \A g \in Handlers : IsCharging(g, q)' <=> IsCharging(g, q)

LEMMA SparedState ==
    ASSUME NEW q \in Requests, Spares(q)
    PROVE  (q \in Binding' <=> q \in Binding) /\ Applied'[q] = Applied[q]
<1>1. q \in Binding' <=> q \in Binding
  BY DEF Spares, Binding, Typed
<1>2. (Charging(q)' = {}) <=> (Charging(q) = {})
  BY DEF Spares, Charging, IsCharging
<1> QED  BY <1>1, <1>2 DEF Spares, Applied

\* An uncontested request has had its effect when it is approved, and not before.
LEMMA UncontestedApplied ==
    ASSUME TypeOK, Deductions, NEW r \in Requests \ Contested
    PROVE  Applied[r] = IF status[r] = "APPROVED" /\ Typed(r) THEN 1 ELSE 0
<1>1. Deduction(r)
  BY DEF Deductions, Contested
<1>2. (Charging(r) = {}) <=> \A h \in Handlers : ~IsCharging(h, r)
  BY DEF Charging, IsCharging
<1> QED  BY <1>1, <1>2 DEF Deduction, Applied

LEMMA Stutters ==
    ASSUME TypeOK, TypeOK', \A q \in Requests : Spares(q), Contested' = Contested
    PROVE  UNCHANGED WorkflowState
<1>1. status' = status
  BY DEF Spares, TypeOK
<1>2. Binding' = Binding
  BY SparedState DEF Binding
<1>3. Applied' = Applied
  <2>1. \A q \in Requests : Applied'[q] = Applied[q]
    BY SparedState
  <2> QED  BY <2>1 DEF Applied
<1> QED  BY <1>1, <1>2, <1>3 DEF WorkflowState

\* A step on one request, contested now or before.
LEMMA Contests ==
    ASSUME TypeOK, TypeOK', NEW r \in Requests,
           \A q \in Requests \ {r} : Spares(q),
           status[r] # "NONE", form'[r] = form[r],
           status'[r] \in Workflow!Decisions \cup {status[r]},
           Contested' = Contested \cup {r}
    PROVE  Workflow!WorkflowNext
<1>1. status' = [status EXCEPT ![r] = status'[r]]
  BY DEF Spares, TypeOK
<1>2. Binding' = Binding
  <2>1. status'[r] # "NONE"
    BY DEF Workflow!Decisions
  <2>2. r \in Binding' <=> r \in Binding
    BY <2>1 DEF Binding, Typed
  <2> QED  BY <2>2, SparedState DEF Binding
<1>3. Applied' = [Applied EXCEPT ![r] = Applied'[r]]
  <2>1. \A q \in Requests \ {r} : Applied'[q] = Applied[q]
    BY SparedState
  <2> QED  BY <2>1 DEF Applied
<1>4. Workflow!Contest(r)
  BY <1>1, <1>2, <1>3 DEF Workflow!Contest, Binding, Applied, Contested
<1> QED  BY <1>4 DEF Workflow!WorkflowNext

\* A decision that nobody contests.
LEMMA Decides ==
    ASSUME TypeOK, TypeOK', Deductions, Deductions', NEW r \in Requests,
           \A q \in Requests \ {r} : Spares(q),
           status[r] = "PENDING", form'[r] = form[r],
           status'[r] \in Workflow!Decisions,
           Contested' = Contested, r \notin Contested
    PROVE  Workflow!WorkflowNext
<1>0. PICK d \in Workflow!Decisions : d = status'[r]
  OBVIOUS
<1>1. status' = [status EXCEPT ![r] = d]
  BY <1>0 DEF Spares, TypeOK
<1>2. Binding' = Binding
  <2>1. r \in Binding' <=> r \in Binding
    BY DEF Binding, Typed, Workflow!Decisions
  <2> QED  BY <2>1, SparedState DEF Binding
<1>3. Applied[r] = 0
  BY UncontestedApplied
<1>4. Applied'[r] = IF d = "APPROVED" /\ r \in Binding THEN 1 ELSE 0
  <2>1. /\ r \in Contested' <=> r \in Contested
        /\ Typed(r)' <=> Typed(r)
    BY DEF Typed
  <2>2. Deduction(r)'
    BY <2>1 DEF Deductions, Contested
  <2>3. (Charging(r)' = {}) <=> \A h \in Handlers : ~IsCharging(h, r)'
    BY DEF Charging, IsCharging
  <2>4. Applied'[r] = IF d = "APPROVED" /\ Typed(r) THEN 1 ELSE 0
    BY <1>0, <2>1, <2>2, <2>3 DEF Deduction, Applied
  <2> QED  BY <2>4 DEF Binding
<1>5. Applied' = IF d = "APPROVED" /\ r \in Binding
                 THEN [Applied EXCEPT ![r] = @ + 1] ELSE Applied
  <2>1. \A q \in Requests \ {r} : Applied'[q] = Applied[q]
    BY SparedState
  <2> QED  BY <1>3, <1>4, <2>1 DEF Applied
<1>6. Workflow!Decide(r, d)
  BY <1>1, <1>2, <1>5 DEF Workflow!Decide, Binding, Applied, Contested
<1> QED  BY <1>6 DEF Workflow!WorkflowNext

LEMMA WorkflowStep ==
    ASSUME TypeOK, TypeOK', Working, Untouched, Positions, Deductions, Deductions',
           [Next]_vars
    PROVE  Workflow!WorkflowNext \/ UNCHANGED WorkflowState
<1> DEFINE Goal == Workflow!WorkflowNext \/ UNCHANGED WorkflowState
<1> HIDE DEF Goal
<1>0. ASSUME \A g \in Handlers, q \in Requests : IsCharging(g, q)' <=> IsCharging(g, q),
             status' = status, form' = form, charged' = charged,
             stale' = stale, cut' = cut
      PROVE  Goal
  BY <1>0, Stutters DEF Goal, Spares, Contested
<1>1. ASSUME NEW h \in Handlers, NEW r \in Requests, NEW f \in Forms,
             RequestCheck(h, r, f)
      PROVE  Goal
  <2>1. \A g \in Handlers, q \in Requests : IsCharging(g, q)' <=> IsCharging(g, q)
    BY <1>1 DEF RequestCheck, IsCharging, Goto, TypeOK
  <2> QED  BY <1>0, <1>1, <2>1 DEF RequestCheck, docs, history
<1>2. ASSUME NEW h \in Handlers, RequestCreate(h) PROVE Goal
  <2>1. PICK r \in Requests : r = job[h]
    BY <1>2 DEF RequestCreate, Working
  <2>2. /\ status[r] = "NONE"
        /\ status' = [status EXCEPT ![r] = "PENDING"]
        /\ form' = [form EXCEPT ![r] = draft[h]]
        /\ charged' = charged /\ Contested' = Contested
        /\ pc' = [pc EXCEPT ![h] = "idle"]
        /\ job' = [job EXCEPT ![h] = NoRequest]
    BY <1>2, <2>1 DEF RequestCreate, Done, Goto, Positions, Position, Contested
  <2>3. \A g \in Handlers, q \in Requests : IsCharging(g, q)' <=> IsCharging(g, q)
    BY <1>2, <2>2 DEF RequestCreate, IsCharging, TypeOK
  <2>4. Applied' = Applied
    <3>1. \A q \in Requests : (Charging(q)' = {}) <=> (Charging(q) = {})
      BY <2>3 DEF Charging, IsCharging
    <3> QED  BY <2>2, <3>1 DEF Applied
  <2>5. Binding' \in {Binding, Binding \cup {r}}
    <3>1. \A q \in Requests \ {r} : q \in Binding' <=> q \in Binding
      BY <2>2 DEF Binding, Typed, TypeOK
    <3>2. r \notin Binding
      BY <2>2 DEF Binding
    <3> QED  BY <3>1, <3>2 DEF Binding
  <2>6. Workflow!Submit(r)
    BY <2>2, <2>4, <2>5 DEF Workflow!Submit, Binding, Applied, Contested
  <2> QED  BY <2>6 DEF Goal, Workflow!WorkflowNext
<1>3. ASSUME NEW h \in Handlers, NEW r \in Requests,
             NEW to \in {"approve", "reject", "cancel"}, ReadPending(h, r, to)
      PROVE  Goal
  <2>1. \A g \in Handlers, q \in Requests : IsCharging(g, q)' <=> IsCharging(g, q)
    BY <1>3 DEF ReadPending, IsCharging, Goto, TypeOK
  <2> QED  BY <1>0, <1>3, <2>1 DEF ReadPending, docs, history
<1>4. ASSUME NEW h \in Handlers, NEW d \in Workflow!Decisions, WriteDecision(h, d),
             pc[h] \in {"approve", "reject", "cancel"},
             \A g \in Handlers, q \in Requests \ {job[h]} :
                 IsCharging(g, q)' <=> IsCharging(g, q)
      PROVE  Goal
  <2>1. PICK r \in Requests : r = job[h]
    BY <1>4 DEF Working
  <2>2. /\ status[r] # "NONE" /\ form' = form
        /\ status' = [status EXCEPT ![r] = d]
        /\ Contested' = IF status[r] = "PENDING" THEN Contested ELSE Contested \cup {r}
    BY <1>4, <2>1 DEF WriteDecision, Positions, Position, Contested
  <2>3. \A q \in Requests \ {r} : Spares(q)
    BY <1>4, <2>1, <2>2 DEF WriteDecision, Spares, TypeOK
  <2>4. status'[r] = d
    BY <2>2 DEF TypeOK
  <2>5. CASE status[r] = "PENDING" /\ r \notin Contested
    BY <2>2, <2>3, <2>4, <2>5, Decides DEF Goal
  <2>6. CASE ~(status[r] = "PENDING" /\ r \notin Contested)
    <3>1. Contested' = Contested \cup {r}
      BY <2>2, <2>6
    <3> QED  BY <2>2, <2>3, <2>4, <3>1, Contests DEF Goal
  <2> QED  BY <2>5, <2>6
<1>5. ASSUME NEW h \in Handlers, ApproveWrite(h) PROVE Goal
  <2>1. /\ pc[h] = "approve" /\ job' = job
        /\ \A g \in Handlers \ {h} : pc'[g] = pc[g]
    BY <1>5 DEF ApproveWrite, Goto, TypeOK
  <2>2. \A g \in Handlers, q \in Requests \ {job[h]} :
            IsCharging(g, q)' <=> IsCharging(g, q)
    BY <2>1 DEF IsCharging
  <2> QED  BY <1>4, <1>5, <2>1, <2>2 DEF ApproveWrite, Workflow!Decisions
<1>6. ASSUME NEW h \in Handlers, RejectWrite(h) PROVE Goal
  <2>1. \A g \in Handlers, q \in Requests : IsCharging(g, q)' <=> IsCharging(g, q)
    BY <1>6 DEF RejectWrite, Goto, IsCharging, TypeOK
  <2> QED  BY <1>4, <1>6, <2>1 DEF RejectWrite, Workflow!Decisions
<1>7. ASSUME NEW h \in Handlers, CancelWrite(h) PROVE Goal
  <2>1. \A g \in Handlers, q \in Requests : IsCharging(g, q)' <=> IsCharging(g, q)
    BY <1>7 DEF CancelWrite, Done, Goto, IsCharging, TypeOK
  <2> QED  BY <1>4, <1>7, <2>1 DEF CancelWrite, Workflow!Decisions
<1>8. ASSUME NEW h \in Handlers, ApproveCharge(h) PROVE Goal
  <2>1. PICK r \in Requests : r = job[h]
    BY <1>8 DEF ApproveCharge, Working
  <2>2. /\ status' = status /\ form' = form /\ job' = job
        /\ charged' = [charged EXCEPT ![r] = @ + 1]
        /\ Contested' = Contested
        /\ pc[h] = "charge" /\ pc' = [pc EXCEPT ![h] = "tellApproved"]
    BY <1>8, <2>1 DEF ApproveCharge, Goto, Contested
  <2>3. \A q \in Requests \ {r} : Spares(q)
    BY <2>1, <2>2 DEF Spares, IsCharging, TypeOK
  <2>4. CASE r \in Contested
    <3>1. Contested' = Contested \cup {r} /\ status[r] # "NONE"
      BY <2>1, <2>2, <2>4 DEF Positions, Position
    <3> QED  BY <2>2, <2>3, <3>1, Contests DEF Goal
  <2>5. CASE r \notin Contested
    <3>1. Applied[r] = IF status[r] = "APPROVED" /\ Typed(r) THEN 1 ELSE 0
      BY <2>5, UncontestedApplied
    <3>2. Applied'[r] = IF status[r] = "APPROVED" /\ Typed(r) THEN 1 ELSE 0
      <4>1. Deduction(r)'
        BY <2>2, <2>5 DEF Deductions, Contested
      <4>2. (Charging(r)' = {}) <=> \A g \in Handlers : ~IsCharging(g, r)'
        BY DEF Charging, IsCharging
      <4> QED  BY <2>2, <4>1, <4>2 DEF Deduction, Applied, Typed
    <3>3. Applied' = Applied
      <4>1. \A q \in Requests \ {r} : Applied'[q] = Applied[q]
        BY <2>3, SparedState
      <4> QED  BY <3>1, <3>2, <4>1 DEF Applied
    <3>4. Binding' = Binding
      BY <2>2 DEF Binding, Typed
    <3> QED  BY <2>2, <3>3, <3>4 DEF Goal, WorkflowState
  <2> QED  BY <2>4, <2>5
<1>9. ASSUME NEW h \in Handlers, NEW at \in {"tellApproved", "tellRejected"},
             NEW d \in {"APPROVED", "REJECTED"}, Tell(h, at, d)
      PROVE  Goal
  <2>1. \A g \in Handlers, q \in Requests : IsCharging(g, q)' <=> IsCharging(g, q)
    BY <1>9 DEF Tell, Done, Goto, IsCharging, TypeOK
  <2> QED  BY <1>0, <1>9, <2>1 DEF Tell, history
<1>10. ASSUME NEW a \in Accounts, NEW amount \in Adjustments,
              AdjustBalance(a, amount)
       PROVE  Goal
  <2>1. \A g \in Handlers, q \in Requests : IsCharging(g, q)' <=> IsCharging(g, q)
    BY <1>10 DEF AdjustBalance, local, IsCharging
  <2> QED  BY <1>0, <1>10, <2>1 DEF AdjustBalance, history
<1>11. ASSUME NEW h \in Handlers, Fail(h) PROVE Goal
  <2>1. /\ status' = status /\ form' = form /\ charged' = charged
        /\ pc' = [pc EXCEPT ![h] = "idle"] /\ job' = [job EXCEPT ![h] = NoRequest]
        /\ pc[h] # "idle" /\ stale' = stale
        /\ cut' = IF pc[h] \in {"charge", "tellApproved", "tellRejected"}
                  THEN cut \cup {job[h]} ELSE cut
    BY <1>11 DEF Fail, Done, Goto, docs
  <2>2. PICK r \in Requests : r = job[h]
    BY <2>1 DEF Working
  <2>3. CASE pc[h] \in {"charge", "tellApproved", "tellRejected"}
    <3>1. \A q \in Requests \ {r} : Spares(q)
      BY <2>1, <2>2 DEF Spares, IsCharging, TypeOK
    <3>2. Contested' = Contested \cup {r} /\ status[r] # "NONE"
      BY <2>1, <2>2, <2>3 DEF Positions, Position, Contested
    <3> QED  BY <2>1, <3>1, <3>2, Contests DEF Goal
  <2>4. CASE pc[h] \notin {"charge", "tellApproved", "tellRejected"}
    <3>1. \A g \in Handlers, q \in Requests : IsCharging(g, q)' <=> IsCharging(g, q)
      BY <2>1, <2>4 DEF IsCharging, TypeOK
    <3> QED  BY <1>0, <2>1, <2>4, <3>1
  <2> QED  BY <2>3, <2>4
<1>12. ASSUME UNCHANGED vars PROVE Goal
  <2>1. \A g \in Handlers, q \in Requests : IsCharging(g, q)' <=> IsCharging(g, q)
    BY <1>12 DEF vars, local, IsCharging
  <2> QED  BY <1>0, <1>12, <2>1 DEF vars, docs, history
<1> QED
  BY <1>1, <1>2, <1>3, <1>5, <1>6, <1>7, <1>8, <1>9, <1>10, <1>11, <1>12
  DEF Goal, Next, Undisturbed, Receive, Resume, Adjust, ApproveRead, RejectRead,
      CancelRead, ApproveTell, RejectTell

\* Any number of handlers, failing where they may, implement the workflow: no
\* request is pending twice, the decision of a request that no two handlers decided
\* and none abandoned is final, and its deduction is made once and with it
\* (request, approve, reject, cancel).
THEOREM WorkflowImplemented == Spec => ImplementsWorkflow
<1>1. Init => Workflow!WorkflowInit
  <2> SUFFICES ASSUME Init PROVE Workflow!WorkflowInit
    OBVIOUS
  <2>1. Applied = [r \in Requests |-> 0]
    BY DEF Init, Applied, Charging
  <2>2. Binding = {} /\ Contested = {}
    BY DEF Init, Binding, Contested
  <2> QED  BY <2>1, <2>2 DEF Init, Workflow!WorkflowInit, Applied, Binding, Contested
<1>2. TypeOK /\ TypeOK' /\ Working /\ Untouched /\ Positions /\ Deductions
        /\ Deductions' /\ [Next]_vars
        => [Workflow!WorkflowNext]_(Workflow!absVars)
  BY WorkflowStep DEF Workflow!absVars, WorkflowState, Applied, Binding, Contested
<1>3. Spec => []Deductions
  BY DeductionCorrect, DeductionsMeaning, PTL
<1> QED
  BY <1>1, <1>2, <1>3, TypeInvariant, PositionInvariant, PTL
  DEF Spec, ImplementsWorkflow, Workflow!WorkflowSpec

\* No request was decided by two handlers or abandoned by one.
Uncut == cut = {}
Uncontested == stale \cup cut = {}

\* Requests served one at a time and without failures are never contested: the
\* workflow is then implemented with every decision final and every approval
\* deducted once (request, approve, reject, cancel).
THEOREM UncontestedAlone == OneAtATime /\ UndisturbedSpec => []Uncontested
<1> SUFFICES ASSUME OneAtATime PROVE UndisturbedSpec => []Uncontested
  OBVIOUS
<1>1. Init => Uncut
  BY DEF Init, Uncut
<1>2. Uncut /\ [Undisturbed]_vars => Uncut'
  BY DEF Uncut, Undisturbed, Receive, Resume, Adjust, vars, history, RequestCheck,
     ApproveRead, RejectRead, CancelRead, ReadPending, RequestCreate, ApproveWrite,
     RejectWrite, CancelWrite, WriteDecision, ApproveCharge, ApproveTell, RejectTell,
     Tell, AdjustBalance
<1>3. UndisturbedSpec => Spec
  <2>1. [Undisturbed]_vars => [Next]_vars
    BY DEF Next
  <2> QED  BY <2>1, PTL DEF UndisturbedSpec, Spec
<1>4. Alone /\ Uncut => Uncontested
  BY DEF Alone, Uncut, Uncontested
<1> QED  BY <1>1, <1>2, <1>3, <1>4, AloneInvariant, PTL DEF UndisturbedSpec
=============================================================================
