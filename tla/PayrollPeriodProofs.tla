----------------------- MODULE PayrollPeriodProofs -----------------------
(* Proofs of the safety properties of PayrollPeriod, for any number of      *)
(* handlers and employees and any pay.                                     *)
EXTENDS PayrollPeriod, TLAPS

\* What a handler holds while it is in the middle of something.
Holding ==
    \A h \in Handlers :
        /\ pc[h] \in {"scan", "stamp"} => mark[h] \in {"HR_REVIEWED", "PAID"}
        /\ pc[h] \in {"check", "adjust"} => held[h] \in Slots

LEMMA NewSlipType == \A e \in Employees : NewSlip(e) \in Payslips
BY PayrollAssumption DEF NewSlip, Payslips, SlipStatus

LEMMA NoSlipType == NoSlip \in Payslips
BY DEF NoSlip, Payslips, SlipStatus

\* A payslip that updateMany has stamped.
LEMMA StampedType ==
    ASSUME NEW p \in Payslips, NEW m \in {"HR_REVIEWED", "PAID"}
    PROVE  [status |-> m, added |-> p.added, taken |-> p.taken, gross |-> p.gross,
            deductions |-> p.deductions, net |-> p.net] \in Payslips
BY DEF Payslips, SlipStatus

LEMMA AdjustedType ==
    ASSUME NEW old \in Payslips, NEW now \in Payslips, NEW a \in Int, NEW t \in Int
    PROVE  Adjusted(old, now, a, t) \in Payslips
BY DEF Adjusted, Payslips

LEMMA TypeOKInit == Init => TypeOK /\ Holding
BY DEF Init, TypeOK, Holding, PeriodStatus, SlipStatus, Payslips, NoSlip, PCs

LEMMA TypeOKNext == TypeOK /\ Holding /\ [Next]_vars => TypeOK' /\ Holding'
<1> SUFFICES ASSUME TypeOK, Holding, [Next]_vars PROVE TypeOK' /\ Holding'
  OBVIOUS
<1> USE PayrollAssumption, NoSlipType DEF TypeOK, Holding, Goto, Drop, Write, Overtake, Leave, Blame,
        Mishaps, PCs, docs, local, history
<1>1. ASSUME NEW h \in Handlers, GenerateRead(h) PROVE TypeOK' /\ Holding'
  BY <1>1 DEF GenerateRead
<1>2. ASSUME NEW h \in Handlers, GenerateList(h) PROVE TypeOK' /\ Holding'
  BY <1>2 DEF GenerateList
<1>3. ASSUME NEW h \in Handlers, NEW e \in Employees, GenerateInsert(h, e)
      PROVE  TypeOK' /\ Holding'
  <2>1. PICK n \in 1..MaxSlips : slip' = [slip EXCEPT ![<<e, n>>] = NewSlip(e)]
    BY <1>3 DEF GenerateInsert
  <2>2. <<e, n>> \in Slots /\ NewSlip(e) \in Payslips
    BY NewSlipType DEF Slots
  <2>3. slip' \in [Slots -> Payslips]
    BY <2>1, <2>2
  <2> QED  BY <1>3, <2>3 DEF GenerateInsert
<1>4. ASSUME NEW h \in Handlers, GenerateClose(h) PROVE TypeOK' /\ Holding'
  BY <1>4 DEF GenerateClose, PeriodStatus
<1>5. ASSUME NEW h \in Handlers, NEW to \in {"HR_REVIEWED", "PAID"}, MoveRead(h, to)
      PROVE  TypeOK' /\ Holding'
  BY <1>5 DEF MoveRead
<1>6. ASSUME NEW h \in Handlers, MoveScan(h) PROVE TypeOK' /\ Holding'
  BY <1>6 DEF MoveScan
<1>7. ASSUME NEW h \in Handlers, NEW s \in Slots, MoveStamp(h, s)
      PROVE  TypeOK' /\ Holding'
  <2>1. slip[s] \in Payslips /\ mark[h] \in {"HR_REVIEWED", "PAID"}
    BY <1>7 DEF MoveStamp
  <2>2. slip' \in [Slots -> Payslips]
    BY <1>7, <2>1, StampedType DEF MoveStamp
  <2> QED  BY <1>7, <2>2 DEF MoveStamp
<1>8. ASSUME NEW h \in Handlers, MoveClose(h) PROVE TypeOK' /\ Holding'
  BY <1>8 DEF MoveClose, PeriodStatus
<1>9. ASSUME NEW h \in Handlers, NEW s \in Slots, AdjustRead(h, s)
      PROVE  TypeOK' /\ Holding'
  BY <1>9 DEF AdjustRead
<1>10. ASSUME NEW h \in Handlers, AdjustCheck(h) PROVE TypeOK' /\ Holding'
  BY <1>10 DEF AdjustCheck
<1>11. ASSUME NEW h \in Handlers, NEW sums \in Amounts,
              AdjustWrite(h, sums[1], sums[2])
       PROVE  TypeOK' /\ Holding'
  <2>1. held[h] \in Slots /\ sums[1] \in Int /\ sums[2] \in Int
    BY <1>11 DEF AdjustWrite
  <2>2. Adjusted(copy[h], slip[held[h]], sums[1], sums[2]) \in Payslips
    BY <2>1, AdjustedType
  <2>3. slip' \in [Slots -> Payslips]
    BY <1>11, <2>1, <2>2 DEF AdjustWrite
  <2>4. pc' \in [Handlers -> PCs] /\ Holding'
    BY <1>11 DEF AdjustWrite
  <2> QED  BY <1>11, <2>3, <2>4 DEF AdjustWrite
<1>12. ASSUME NEW e \in Employees, Deactivate(e) \/ Reactivate(e)
       PROVE  TypeOK' /\ Holding'
  BY <1>12 DEF Deactivate, Reactivate
<1>13. ASSUME NEW h \in Handlers, Fail(h) PROVE TypeOK' /\ Holding'
  BY <1>13 DEF Fail
<1>14. CASE UNCHANGED vars
  BY <1>14 DEF vars
<1> QED
  BY <1>1, <1>2, <1>3, <1>4, <1>5, <1>6, <1>7, <1>8, <1>9, <1>10, <1>11, <1>12,
     <1>13, <1>14
  DEF Next, Undisturbed, Receive, Resume, Staff, HrReviewRead, PayRead

LEMMA TypeInvariant == Spec => [](TypeOK /\ Holding)
BY TypeOKInit, TypeOKNext, PTL DEF Spec

\* The types of every variable, whatever the handlers do.
THEOREM PayrollTypeCorrect == Spec => []TypeOK
BY TypeInvariant, PTL

-----------------------------------------------------------------------------
(* Balanced payslips.                                                       *)

Balanced(p, e) ==
    /\ p.gross = Pay[e].gross + p.added
    /\ p.deductions = Pay[e].deductions + p.taken
    /\ p.net = p.gross - p.deductions

\* A copy an adjustment holds was balanced when it was read, and no payslip a
\* handler works on is ever deleted.
CopiesBalanced ==
    \A h \in Handlers :
        /\ pc[h] \in {"check", "adjust"} =>
             Exists(held[h]) /\ Balanced(copy[h], held[h][1])
        /\ \A s \in left[h] : Exists(s)

LEMMA BalanceInit == Init => PayslipBalanced /\ CopiesBalanced
BY DEF Init, PayslipBalanced, CopiesBalanced, Exists, NoSlip

LEMMA BalanceNext ==
    TypeOK /\ Holding /\ PayslipBalanced /\ CopiesBalanced /\ [Next]_vars
    => PayslipBalanced' /\ CopiesBalanced'
<1> SUFFICES ASSUME TypeOK, Holding, PayslipBalanced, CopiesBalanced, [Next]_vars
             PROVE  PayslipBalanced' /\ CopiesBalanced'
  OBVIOUS
<1> USE PayrollAssumption DEF TypeOK, Holding, PayslipBalanced, CopiesBalanced,
        Balanced, Exists, Goto, Drop, docs, local, history
<1>1. ASSUME NEW h \in Handlers, GenerateRead(h)
      PROVE  PayslipBalanced' /\ CopiesBalanced'
  BY <1>1 DEF GenerateRead
<1>2. ASSUME NEW h \in Handlers, GenerateList(h)
      PROVE  PayslipBalanced' /\ CopiesBalanced'
  BY <1>2 DEF GenerateList
<1>3. ASSUME NEW h \in Handlers, NEW e \in Employees, GenerateInsert(h, e)
      PROVE  PayslipBalanced' /\ CopiesBalanced'
  <2>1. PICK n \in 1..MaxSlips : slip' = [slip EXCEPT ![<<e, n>>] = NewSlip(e)]
    BY <1>3 DEF GenerateInsert
  <2>2. <<e, n>> \in Slots /\ <<e, n>>[1] = e
    BY DEF Slots
  <2>3. Balanced(NewSlip(e), e) /\ NewSlip(e).status # "NONE"
    BY DEF NewSlip
  <2>4. \A s \in Slots : s # <<e, n>> => slip'[s] = slip[s]
    BY <2>1
  <2>5. slip'[<<e, n>>] = NewSlip(e)
    BY <2>1, <2>2
  <2>6. UNCHANGED <<pc, held, copy, left>>
    BY <1>3 DEF GenerateInsert
  <2> HIDE DEF Balanced
  <2>7. PayslipBalanced'
    <3> SUFFICES ASSUME NEW s \in Slots, Exists(s)' PROVE Balanced(slip'[s], s[1])
      BY DEF Balanced
    <3>1. CASE s = <<e, n>>
      BY <2>2, <2>3, <2>5, <3>1
    <3>2. CASE s # <<e, n>>
      BY <2>4, <3>2 DEF Balanced
    <3> QED  BY <3>1, <3>2
  <2>8. CopiesBalanced'
    <3>1. \A s \in Slots : Exists(s) => Exists(s)'
      BY <2>3, <2>4, <2>5
    <3> QED  BY <2>6, <3>1
  <2> QED  BY <2>7, <2>8
<1>4. ASSUME NEW h \in Handlers, GenerateClose(h)
      PROVE  PayslipBalanced' /\ CopiesBalanced'
  BY <1>4 DEF GenerateClose
<1>5. ASSUME NEW h \in Handlers, NEW to \in {"HR_REVIEWED", "PAID"}, MoveRead(h, to)
      PROVE  PayslipBalanced' /\ CopiesBalanced'
  BY <1>5 DEF MoveRead
<1>6. ASSUME NEW h \in Handlers, MoveScan(h)
      PROVE  PayslipBalanced' /\ CopiesBalanced'
  BY <1>6 DEF MoveScan
<1>7. ASSUME NEW h \in Handlers, NEW s \in Slots, MoveStamp(h, s)
      PROVE  PayslipBalanced' /\ CopiesBalanced'
  <2>1. mark[h] # "NONE" /\ slip[s] \in Payslips
    BY <1>7 DEF MoveStamp
  <2>2. /\ slip'[s] = [status |-> mark[h], added |-> slip[s].added,
                       taken |-> slip[s].taken, gross |-> slip[s].gross,
                       deductions |-> slip[s].deductions, net |-> slip[s].net]
        /\ \A t \in Slots : t # s => slip'[t] = slip[t]
        /\ left' = [left EXCEPT ![h] = @ \ {s}]
        /\ UNCHANGED <<pc, held, copy>>
    BY <1>7 DEF MoveStamp
  <2>3. Exists(s)
    BY <1>7 DEF MoveStamp
  <2> QED  BY <2>1, <2>2, <2>3
<1>8. ASSUME NEW h \in Handlers, MoveClose(h)
      PROVE  PayslipBalanced' /\ CopiesBalanced'
  BY <1>8 DEF MoveClose
<1>9. ASSUME NEW h \in Handlers, NEW s \in Slots, AdjustRead(h, s)
      PROVE  PayslipBalanced' /\ CopiesBalanced'
  BY <1>9 DEF AdjustRead
<1>10. ASSUME NEW h \in Handlers, AdjustCheck(h)
       PROVE  PayslipBalanced' /\ CopiesBalanced'
  BY <1>10 DEF AdjustCheck
<1>11. ASSUME NEW h \in Handlers, NEW sums \in Amounts,
              AdjustWrite(h, sums[1], sums[2])
       PROVE  PayslipBalanced' /\ CopiesBalanced'
  <2>1. /\ held[h] \in Slots /\ sums[1] \in Int /\ sums[2] \in Int
        /\ Balanced(copy[h], held[h][1]) /\ copy[h] \in Payslips
        /\ held[h][1] \in Employees
    BY <1>11 DEF AdjustWrite, Slots
  <2> QED  BY <1>11, <2>1 DEF AdjustWrite, Adjusted, Payslips
<1>12. ASSUME NEW e \in Employees, Deactivate(e) \/ Reactivate(e)
       PROVE  PayslipBalanced' /\ CopiesBalanced'
  BY <1>12 DEF Deactivate, Reactivate
<1>13. ASSUME NEW h \in Handlers, Fail(h)
       PROVE  PayslipBalanced' /\ CopiesBalanced'
  BY <1>13 DEF Fail
<1>14. CASE UNCHANGED vars
  BY <1>14 DEF vars
<1> QED
  BY <1>1, <1>2, <1>3, <1>4, <1>5, <1>6, <1>7, <1>8, <1>9, <1>10, <1>11, <1>12,
     <1>13, <1>14
  DEF Next, Undisturbed, Receive, Resume, Staff, HrReviewRead, PayRead

\* The totals of a payslip are always the calculated ones plus its manual
\* adjustments, whichever outdated copies the adjustments started from
\* (updatePayslipAdjustments).
THEOREM BalanceCorrect == Spec => []PayslipBalanced
BY TypeInvariant, BalanceInit, BalanceNext, PTL DEF Spec

-----------------------------------------------------------------------------
(* Statuses and workflow.                                                   *)

\* A handler that nobody has overtaken relies on a status the period still has.
InTime ==
    \A h \in Handlers \ behind :
        /\ Generating(h) => period = "DRAFT"
        /\ pc[h] \in {"scan", "stamp"} => period = Before[mark[h]]
        /\ pc[h] = "adjust" => period = "GENERATED"

LEMMA InTimeInit == Init => InTime
BY DEF Init, InTime, Generating

LEMMA InTimeNext == TypeOK /\ InTime /\ [Next]_vars => InTime'
<1> SUFFICES ASSUME TypeOK, InTime, [Next]_vars PROVE InTime'
  OBVIOUS
<1> USE DEF TypeOK, InTime, Generating, Goto, Overtake, Leave, Relying, PCs,
        docs, local, history
<1>1. ASSUME NEW h \in Handlers, GenerateRead(h) PROVE InTime'
  BY <1>1 DEF GenerateRead
<1>2. ASSUME NEW h \in Handlers, GenerateList(h) PROVE InTime'
  BY <1>2 DEF GenerateList
<1>3. ASSUME NEW h \in Handlers, NEW e \in Employees, GenerateInsert(h, e) PROVE InTime'
  BY <1>3 DEF GenerateInsert
<1>4. ASSUME NEW h \in Handlers, GenerateClose(h) PROVE InTime'
  BY <1>4 DEF GenerateClose
<1>5. ASSUME NEW h \in Handlers, NEW to \in {"HR_REVIEWED", "PAID"}, MoveRead(h, to)
      PROVE  InTime'
  BY <1>5 DEF MoveRead
<1>6. ASSUME NEW h \in Handlers, MoveScan(h) PROVE InTime'
  BY <1>6 DEF MoveScan
<1>7. ASSUME NEW h \in Handlers, NEW s \in Slots, MoveStamp(h, s) PROVE InTime'
  BY <1>7 DEF MoveStamp
<1>8. ASSUME NEW h \in Handlers, MoveClose(h) PROVE InTime'
  BY <1>8 DEF MoveClose
<1>9. ASSUME NEW h \in Handlers, NEW s \in Slots, AdjustRead(h, s) PROVE InTime'
  BY <1>9 DEF AdjustRead
<1>10. ASSUME NEW h \in Handlers, AdjustCheck(h) PROVE InTime'
  BY <1>10 DEF AdjustCheck
<1>11. ASSUME NEW h \in Handlers, NEW sums \in Amounts, AdjustWrite(h, sums[1], sums[2])
       PROVE  InTime'
  BY <1>11 DEF AdjustWrite
<1>12. ASSUME NEW e \in Employees, Deactivate(e) \/ Reactivate(e) PROVE InTime'
  BY <1>12 DEF Deactivate, Reactivate
<1>13. ASSUME NEW h \in Handlers, Fail(h) PROVE InTime'
  BY <1>13 DEF Fail
<1>14. CASE UNCHANGED vars
  BY <1>14 DEF vars
<1> QED
  BY <1>1, <1>2, <1>3, <1>4, <1>5, <1>6, <1>7, <1>8, <1>9, <1>10, <1>11, <1>12,
     <1>13, <1>14
  DEF Next, Undisturbed, Receive, Resume, Staff, HrReviewRead, PayRead

LEMMA InTimeInvariant == Spec => []InTime
BY TypeInvariant, InTimeInit, InTimeNext, PTL DEF Spec

Rank(status) ==
    CASE status = "DRAFT" -> 0
      [] status = "GENERATED" -> 1
      [] status = "HR_REVIEWED" -> 2
      [] status = "PAID" -> 3

\* The period has at least reached the status a reviewer or payer read in it,
\* and as long as it has not left it, what updateMany visited carries the mark.
Moving(h) ==
    /\ pc[h] \in {"scan", "stamp"} => Rank(Before[mark[h]]) <= Rank(period)
    /\ pc[h] = "stamp" /\ period = Before[mark[h]] =>
         \A s \in Slots \ left[h] : Exists(s) => slip[s].status = mark[h]

Agreement ==
    "stale" \notin blame =>
        /\ \A s \in Slots : Exists(s) => slip[s].status \in Allowed[period]
        /\ \A h \in Handlers : Moving(h)

\* No review or payment is under way in a period that is still a draft.
DraftIsCalm == period = "DRAFT" => \A h \in Handlers : pc[h] \notin {"scan", "stamp"}

LEMMA AgreementInit == Init => Agreement /\ DraftIsCalm
BY DEF Init, Agreement, Moving, DraftIsCalm, Exists, NoSlip

LEMMA AgreementNext ==
    TypeOK /\ Holding /\ InTime /\ Agreement /\ DraftIsCalm /\ [Next]_vars
    => Agreement' /\ DraftIsCalm'
<1> SUFFICES ASSUME TypeOK, Holding, InTime, Agreement, DraftIsCalm, [Next]_vars
             PROVE  Agreement' /\ DraftIsCalm'
  OBVIOUS
<1> USE DEF TypeOK, Holding, Agreement, Moving, DraftIsCalm, Exists, Allowed, Rank,
        InTime, Generating,
        Before, Goto, Drop, Write, Overtake, Leave, Blame, PeriodStatus, docs, local, history
<1>1. ASSUME NEW h \in Handlers, GenerateRead(h)
      PROVE  Agreement' /\ DraftIsCalm'
  BY <1>1 DEF GenerateRead
<1>2. ASSUME NEW h \in Handlers, GenerateList(h)
      PROVE  Agreement' /\ DraftIsCalm'
  BY <1>2 DEF GenerateList
<1>3. ASSUME NEW h \in Handlers, NEW e \in Employees, GenerateInsert(h, e)
      PROVE  Agreement' /\ DraftIsCalm'
  <2>1. PICK n \in 1..MaxSlips :
               ~Exists(<<e, n>>) /\ slip' = [slip EXCEPT ![<<e, n>>] = NewSlip(e)]
    BY <1>3 DEF GenerateInsert
  <2>2. <<e, n>> \in Slots /\ NewSlip(e).status = "DRAFT"
    BY DEF Slots, NewSlip
  <2>3. /\ slip'[<<e, n>>] = NewSlip(e)
        /\ \A s \in Slots : s # <<e, n>> => slip'[s] = slip[s]
    BY <2>1, <2>2
  <2>4. /\ UNCHANGED <<period, pc, mark, left>>
        /\ "stale" \notin blame' => "stale" \notin blame /\ period = "DRAFT"
    BY <1>3 DEF GenerateInsert
  <2> QED  BY <2>2, <2>3, <2>4
<1>4. ASSUME NEW h \in Handlers, GenerateClose(h)
      PROVE  Agreement' /\ DraftIsCalm'
  BY <1>4 DEF GenerateClose
<1>5. ASSUME NEW h \in Handlers, NEW to \in {"HR_REVIEWED", "PAID"}, MoveRead(h, to)
      PROVE  Agreement' /\ DraftIsCalm'
  BY <1>5 DEF MoveRead
<1>6. ASSUME NEW h \in Handlers, MoveScan(h) PROVE Agreement' /\ DraftIsCalm'
  BY <1>6 DEF MoveScan
<1>7. ASSUME NEW h \in Handlers, NEW s \in Slots, MoveStamp(h, s)
      PROVE  Agreement' /\ DraftIsCalm'
  BY <1>7 DEF MoveStamp
<1>8. ASSUME NEW h \in Handlers, MoveClose(h) PROVE Agreement' /\ DraftIsCalm'
  BY <1>8 DEF MoveClose
<1>9. ASSUME NEW h \in Handlers, NEW s \in Slots, AdjustRead(h, s)
      PROVE  Agreement' /\ DraftIsCalm'
  BY <1>9 DEF AdjustRead
<1>10. ASSUME NEW h \in Handlers, AdjustCheck(h)
       PROVE  Agreement' /\ DraftIsCalm'
  BY <1>10 DEF AdjustCheck
<1>11. ASSUME NEW h \in Handlers, NEW sums \in Amounts,
              AdjustWrite(h, sums[1], sums[2])
       PROVE  Agreement' /\ DraftIsCalm'
  <2>1. /\ held[h] \in Slots
        /\ \A a, t : Adjusted(copy[h], slip[held[h]], a, t).status = slip[held[h]].status
    BY <1>11 DEF AdjustWrite, Adjusted
  <2>2. /\ \A s \in Slots : slip'[s].status = slip[s].status
        /\ UNCHANGED <<period, mark, left, blame>>
        /\ pc' = [pc EXCEPT ![h] = "idle"]
    BY <1>11, <2>1 DEF AdjustWrite
  <2> QED  BY <2>2
<1>12. ASSUME NEW e \in Employees, Deactivate(e) \/ Reactivate(e)
       PROVE  Agreement' /\ DraftIsCalm'
  BY <1>12 DEF Deactivate, Reactivate
<1>13. ASSUME NEW h \in Handlers, Fail(h) PROVE Agreement' /\ DraftIsCalm'
  BY <1>13 DEF Fail
<1>14. CASE UNCHANGED vars
  BY <1>14 DEF vars
<1> QED
  BY <1>1, <1>2, <1>3, <1>4, <1>5, <1>6, <1>7, <1>8, <1>9, <1>10, <1>11, <1>12,
     <1>13, <1>14
  DEF Next, Undisturbed, Receive, Resume, Staff, HrReviewRead, PayRead

LEMMA AgreementInvariant == Spec => [](Agreement /\ DraftIsCalm)
BY TypeInvariant, InTimeInvariant, AgreementInit, AgreementNext, PTL DEF Spec

\* Payslips have a status that fits the status of the period, as long as no
\* handler acted on an outdated read of it (hrReviewPeriod, payPeriod).
THEOREM StatusCorrect == Spec => []StatusesAgree
<1>1. Agreement => StatusesAgree
  BY DEF Agreement, StatusesAgree
<1> QED  BY <1>1, AgreementInvariant, PTL

\* A step that moves the period ends a handler.
LEMMA PeriodMovers ==
    ASSUME [Next]_vars, period' # period
    PROVE  \E h \in Handlers : GenerateClose(h) \/ MoveClose(h)
BY DEF Next, Undisturbed, Receive, Resume, Staff, HrReviewRead, PayRead, vars,
   GenerateRead, GenerateList, GenerateInsert, MoveRead, MoveScan, MoveStamp,
   AdjustRead, AdjustCheck, AdjustWrite, Deactivate, Reactivate, Fail, docs

\* Out of order it moves only by a handler that was overtaken.
LEMMA PeriodStep ==
    ASSUME TypeOK, Holding, InTime, [Next]_vars, period' # period
    PROVE  <<period, period'>> \in Steps \/ Overtaken
<1>1. PICK h \in Handlers : GenerateClose(h) \/ MoveClose(h)
  BY PeriodMovers
<1>2. pc'[h] # pc[h]
  BY <1>1 DEF GenerateClose, MoveClose, Goto, TypeOK
<1>3. CASE h \in behind
  BY <1>2, <1>3 DEF Overtaken
<1>4. CASE h \notin behind /\ GenerateClose(h)
  BY <1>4 DEF GenerateClose, InTime, Generating, Steps
<1>5. CASE h \notin behind /\ MoveClose(h)
  <2>1. mark[h] \in {"HR_REVIEWED", "PAID"}
    BY <1>5 DEF MoveClose, Holding
  <2> QED  BY <1>5, <2>1 DEF MoveClose, InTime, Before, Steps
<1> QED  BY <1>1, <1>3, <1>4, <1>5

\* A payslip that is written anew exists from then on.
LEMMA SlipWriters ==
    ASSUME [Next]_vars, NEW s \in Slots, slip'[s] # slip[s]
    PROVE  \E h \in Handlers :
              \/ \E e \in Employees : GenerateInsert(h, e)
              \/ \E t \in Slots : MoveStamp(h, t)
              \/ \E sums \in Amounts : AdjustWrite(h, sums[1], sums[2])
BY DEF Next, Undisturbed, Receive, Resume, Staff, HrReviewRead, PayRead, vars,
   GenerateRead, GenerateList, GenerateClose, MoveRead, MoveScan, MoveClose,
   AdjustRead, AdjustCheck, Deactivate, Reactivate, Fail, docs

\* What has been paid changes only by, or after, a handler that was overtaken:
\* in time, a payer stamps it as it is and an adjustment finds no paid payslip.
LEMMA PaidStep ==
    ASSUME TypeOK, Holding, InTime, Agreement, [Next]_vars,
           NEW s \in Slots, slip[s].status = "PAID", slip'[s] # slip[s]
    PROVE  Overtaken \/ "stale" \in blame'
<1> SUFFICES ASSUME "stale" \notin blame' PROVE Overtaken
  OBVIOUS
<1>1. PICK h \in Handlers :
              \/ \E e \in Employees : GenerateInsert(h, e)
              \/ \E t \in Slots : MoveStamp(h, t)
              \/ \E sums \in Amounts : AdjustWrite(h, sums[1], sums[2])
  BY SlipWriters
<1>2. "stale" \notin blame
  BY <1>1 DEF GenerateInsert, MoveStamp, AdjustWrite, Write, Blame
<1>3. period \in {"HR_REVIEWED", "PAID"}
  BY <1>2 DEF Agreement, Allowed, Exists, TypeOK, PeriodStatus
<1>4. ASSUME NEW e \in Employees, GenerateInsert(h, e) PROVE FALSE
  <2>1. PICK n \in 1..MaxSlips :
               ~Exists(<<e, n>>) /\ slip' = [slip EXCEPT ![<<e, n>>] = NewSlip(e)]
    BY <1>4 DEF GenerateInsert
  <2>2. s = <<e, n>>
    BY <2>1 DEF TypeOK
  <2> QED  BY <2>1, <2>2 DEF Exists
<1>5. ASSUME NEW t \in Slots, MoveStamp(h, t) PROVE FALSE
  <2>1. h \notin behind /\ mark[h] \in {"HR_REVIEWED", "PAID"}
    BY <1>5 DEF MoveStamp, Write, Blame, Holding
  <2>2. mark[h] = "PAID"
    BY <1>3, <1>5, <2>1 DEF MoveStamp, InTime, Before
  <2>3. /\ t = s
        /\ slip'[s] = [status |-> mark[h], added |-> slip[s].added,
                       taken |-> slip[s].taken, gross |-> slip[s].gross,
                       deductions |-> slip[s].deductions, net |-> slip[s].net]
    BY <1>5 DEF MoveStamp, TypeOK
  <2>4. slip[s] \in Payslips
    BY DEF TypeOK
  <2> QED  BY <2>2, <2>3, <2>4 DEF Payslips
<1>6. ASSUME NEW sums \in Amounts, AdjustWrite(h, sums[1], sums[2]) PROVE Overtaken
  <2>1. pc[h] = "adjust" /\ pc'[h] # pc[h]
    BY <1>6 DEF AdjustWrite, Goto, TypeOK
  <2>2. h \in behind
    BY <1>3, <2>1 DEF InTime
  <2> QED  BY <2>1, <2>2 DEF Overtaken
<1> QED  BY <1>1, <1>4, <1>5, <1>6

\* The period takes the documented steps and a paid payslip stays as it is, for
\* any number of handlers, except by a handler under way while another moved
\* the period, or after it (generatePayroll, hrReviewPeriod, payPeriod,
\* updatePayslipAdjustments).
THEOREM WorkflowCorrect == Spec => WorkflowOrderExplained
<1>1. TypeOK /\ Holding /\ InTime /\ Agreement /\ [Next]_vars =>
        [ /\ period' # period => <<period, period'>> \in Steps \/ Overtaken
          /\ \A s \in Slots : slip[s].status = "PAID" /\ slip'[s] # slip[s] =>
                 Overtaken \/ "stale" \in blame' ]_vars
  BY PeriodStep, PaidStep
<1> QED
  BY <1>1, TypeInvariant, InTimeInvariant, AgreementInvariant,
     PTL DEF Spec, WorkflowOrderExplained

-----------------------------------------------------------------------------
(* One payslip for everybody, and only one.                                 *)

\* As long as no generation overlapped another and none was abandoned, there is
\* one at a time, in a draft, and every payslip of a draft is its work.
OneGeneration ==
    blame \cap {"overlap", "cut"} = {} =>
        /\ \A e \in Employees : ~Twice(e)
        /\ \A g, h \in Handlers : Generating(g) /\ Generating(h) => g = h
        /\ \A h \in Handlers : Generating(h) => period = "DRAFT"
        /\ period = "DRAFT" =>
             \A s \in Slots : Exists(s) =>
                 \E h \in Handlers : pc[h] = "insert" /\ s[1] \notin page[h]

LEMMA TwiceFrame ==
    ASSUME \A s \in Slots : Exists(s)' <=> Exists(s)
    PROVE  \A e \in Employees : Twice(e)' <=> Twice(e)
<1> SUFFICES ASSUME NEW e \in Employees PROVE Twice(e)' <=> Twice(e)
  OBVIOUS
<1>1. \A n \in 1..MaxSlips : <<e, n>> \in Slots
  BY DEF Slots
<1> QED  BY <1>1 DEF Twice

LEMMA SameSlips ==
    ASSUME UNCHANGED slip
    PROVE  /\ \A s \in Slots : Exists(s)' <=> Exists(s)
           /\ \A e \in Employees : Twice(e)' <=> Twice(e)
BY TwiceFrame DEF Exists

LEMMA OneGenerationInit == Init => OneGeneration
<1> SUFFICES ASSUME Init PROVE OneGeneration
  OBVIOUS
<1>1. \A s \in Slots : ~Exists(s)
  BY DEF Init, Exists, NoSlip
<1>2. \A e \in Employees, n \in 1..MaxSlips : <<e, n>> \in Slots
  BY DEF Slots
<1>3. \A e \in Employees : ~Twice(e)
  BY <1>1, <1>2 DEF Twice
<1> QED  BY <1>1, <1>3 DEF Init, OneGeneration, Generating

LEMMA OneGenerationNext ==
    TypeOK /\ Holding /\ CopiesBalanced /\ DraftIsCalm /\ OneGeneration /\ [Next]_vars
    => OneGeneration'
<1> SUFFICES ASSUME TypeOK, Holding, CopiesBalanced, DraftIsCalm, OneGeneration,
                    [Next]_vars
             PROVE  OneGeneration'
  OBVIOUS
<1> USE DEF TypeOK, Holding, DraftIsCalm, OneGeneration, Generating,
        Goto, Drop, Write, Overtake, Leave, Blame, docs, local, history
<1>1. ASSUME NEW h \in Handlers, GenerateRead(h) PROVE OneGeneration'
  <2>1. UNCHANGED slip
    BY <1>1 DEF GenerateRead
  <2>2. /\ \A s \in Slots : Exists(s)' <=> Exists(s)
        /\ \A e \in Employees : Twice(e)' <=> Twice(e)
    BY <2>1, SameSlips
  <2> QED  BY <1>1, <2>2 DEF GenerateRead
<1>2. ASSUME NEW h \in Handlers, GenerateList(h) PROVE OneGeneration'
  <2>1. UNCHANGED slip
    BY <1>2 DEF GenerateList
  <2>2. /\ \A s \in Slots : Exists(s)' <=> Exists(s)
        /\ \A e \in Employees : Twice(e)' <=> Twice(e)
    BY <2>1, SameSlips
  <2> QED  BY <1>2, <2>2 DEF GenerateList
<1>3. ASSUME NEW h \in Handlers, NEW e \in Employees, GenerateInsert(h, e)
      PROVE  OneGeneration'
  <2>1. PICK n \in 1..MaxSlips :
               ~Exists(<<e, n>>) /\ slip' = [slip EXCEPT ![<<e, n>>] = NewSlip(e)]
    BY <1>3 DEF GenerateInsert
  <2>2. <<e, n>> \in Slots /\ <<e, n>>[1] = e
    BY DEF Slots
  <2>3. \A s \in Slots : s # <<e, n>> => (Exists(s)' <=> Exists(s))
    BY <2>1 DEF Exists
  <2>4. /\ UNCHANGED <<period, pc>> /\ pc[h] = "insert"
        /\ page' = [page EXCEPT ![h] = @ \ {e}] /\ e \in page[h]
        /\ blame \subseteq blame'
    BY <1>3 DEF GenerateInsert
  <2> SUFFICES ASSUME blame' \cap {"overlap", "cut"} = {} PROVE OneGeneration'
    BY DEF OneGeneration
  <2>5. blame \cap {"overlap", "cut"} = {} /\ period = "DRAFT"
    BY <2>4
  <2>6. ASSUME NEW s \in Slots, Exists(s) PROVE s[1] # e
    BY <2>4, <2>5, <2>6
  <2>7. ASSUME NEW m \in 1..MaxSlips PROVE ~Exists(<<e, m>>)
    <3>1. <<e, m>> \in Slots /\ <<e, m>>[1] = e
      BY DEF Slots
    <3> QED  BY <2>6, <3>1
  <2>8. \A d \in Employees : ~Twice(d)'
    <3> SUFFICES ASSUME NEW d \in Employees, NEW i \in 1..MaxSlips, NEW j \in 1..MaxSlips,
                        i # j, Exists(<<d, i>>)', Exists(<<d, j>>)'
                 PROVE  FALSE
      BY DEF Twice
    <3>1. <<d, i>> \in Slots /\ <<d, j>> \in Slots
      BY DEF Slots
    <3>2. CASE d # e
      <4>1. <<d, i>> # <<e, n>> /\ <<d, j>> # <<e, n>>
        BY <3>2
      <4>2. Exists(<<d, i>>) /\ Exists(<<d, j>>)
        BY <2>3, <3>1, <4>1
      <4> QED  BY <2>5, <4>2 DEF Twice
    <3>3. CASE d = e
      <4>1. \A m \in 1..MaxSlips : m # n => ~Exists(<<e, m>>)'
        <5> SUFFICES ASSUME NEW m \in 1..MaxSlips, m # n PROVE ~Exists(<<e, m>>)'
          OBVIOUS
        <5>1. <<e, m>> \in Slots /\ <<e, m>> # <<e, n>>
          BY DEF Slots
        <5> QED  BY <2>3, <2>7, <5>1
      <4> QED  BY <3>3, <4>1
    <3> QED  BY <3>2, <3>3
  <2>9. \A s \in Slots : Exists(s)' =>
            \E g \in Handlers : pc'[g] = "insert" /\ s[1] \notin page'[g]
    <3> SUFFICES ASSUME NEW s \in Slots, Exists(s)'
                 PROVE  \E g \in Handlers : pc'[g] = "insert" /\ s[1] \notin page'[g]
      OBVIOUS
    <3>1. CASE s = <<e, n>>
      BY <2>2, <2>4, <3>1
    <3>2. CASE s # <<e, n>>
      <4>1. PICK g \in Handlers : pc[g] = "insert" /\ s[1] \notin page[g]
        BY <2>3, <2>5, <3>2
      <4> QED  BY <2>4, <4>1
    <3> QED  BY <3>1, <3>2
  <2> QED  BY <2>4, <2>5, <2>8, <2>9
<1>4. ASSUME NEW h \in Handlers, GenerateClose(h) PROVE OneGeneration'
  <2>1. UNCHANGED slip
    BY <1>4 DEF GenerateClose
  <2>2. /\ \A s \in Slots : Exists(s)' <=> Exists(s)
        /\ \A e \in Employees : Twice(e)' <=> Twice(e)
    BY <2>1, SameSlips
  <2> QED  BY <1>4, <2>2 DEF GenerateClose
<1>5. ASSUME NEW h \in Handlers, NEW to \in {"HR_REVIEWED", "PAID"}, MoveRead(h, to)
      PROVE  OneGeneration'
  <2>1. UNCHANGED slip
    BY <1>5 DEF MoveRead
  <2>2. /\ \A s \in Slots : Exists(s)' <=> Exists(s)
        /\ \A e \in Employees : Twice(e)' <=> Twice(e)
    BY <2>1, SameSlips
  <2> QED  BY <1>5, <2>2 DEF MoveRead
<1>6. ASSUME NEW h \in Handlers, MoveScan(h) PROVE OneGeneration'
  <2>1. UNCHANGED slip
    BY <1>6 DEF MoveScan
  <2>2. /\ \A s \in Slots : Exists(s)' <=> Exists(s)
        /\ \A e \in Employees : Twice(e)' <=> Twice(e)
    BY <2>1, SameSlips
  <2> QED  BY <1>6, <2>2 DEF MoveScan
<1>7. ASSUME NEW h \in Handlers, NEW s \in Slots, MoveStamp(h, s)
      PROVE  OneGeneration'
  <2>1. mark[h] # "NONE" /\ Exists(s)
    BY <1>7 DEF MoveStamp, CopiesBalanced
  <2>2. \A t \in Slots : Exists(t)' <=> Exists(t)
    BY <1>7, <2>1 DEF MoveStamp, Exists
  <2>3. \A e \in Employees : Twice(e)' <=> Twice(e)
    BY <2>2, TwiceFrame
  <2> QED  BY <1>7, <2>2, <2>3 DEF MoveStamp
<1>8. ASSUME NEW h \in Handlers, MoveClose(h) PROVE OneGeneration'
  <2>1. UNCHANGED slip
    BY <1>8 DEF MoveClose
  <2>2. /\ \A s \in Slots : Exists(s)' <=> Exists(s)
        /\ \A e \in Employees : Twice(e)' <=> Twice(e)
    BY <2>1, SameSlips
  <2> QED  BY <1>8, <2>2 DEF MoveClose
<1>9. ASSUME NEW h \in Handlers, NEW s \in Slots, AdjustRead(h, s)
      PROVE  OneGeneration'
  <2>1. UNCHANGED slip
    BY <1>9 DEF AdjustRead
  <2>2. /\ \A t \in Slots : Exists(t)' <=> Exists(t)
        /\ \A e \in Employees : Twice(e)' <=> Twice(e)
    BY <2>1, SameSlips
  <2> QED  BY <1>9, <2>2 DEF AdjustRead
<1>10. ASSUME NEW h \in Handlers, AdjustCheck(h) PROVE OneGeneration'
  <2>1. UNCHANGED slip
    BY <1>10 DEF AdjustCheck
  <2>2. /\ \A s \in Slots : Exists(s)' <=> Exists(s)
        /\ \A e \in Employees : Twice(e)' <=> Twice(e)
    BY <2>1, SameSlips
  <2> QED  BY <1>10, <2>2 DEF AdjustCheck
<1>11. ASSUME NEW h \in Handlers, NEW sums \in Amounts,
              AdjustWrite(h, sums[1], sums[2])
       PROVE  OneGeneration'
  <2>1. \A t \in Slots : Exists(t)' <=> Exists(t)
    BY <1>11 DEF AdjustWrite, Adjusted, Exists
  <2>2. \A e \in Employees : Twice(e)' <=> Twice(e)
    BY <2>1, TwiceFrame
  <2> QED  BY <1>11, <2>1, <2>2 DEF AdjustWrite
<1>12. ASSUME NEW e \in Employees, Deactivate(e) \/ Reactivate(e)
       PROVE  OneGeneration'
  <2>1. UNCHANGED slip
    BY <1>12 DEF Deactivate, Reactivate
  <2>2. /\ \A s \in Slots : Exists(s)' <=> Exists(s)
        /\ \A f \in Employees : Twice(f)' <=> Twice(f)
    BY <2>1, SameSlips
  <2> QED  BY <1>12, <2>2 DEF Deactivate, Reactivate
<1>13. ASSUME NEW h \in Handlers, Fail(h) PROVE OneGeneration'
  <2>1. UNCHANGED slip
    BY <1>13 DEF Fail
  <2>2. /\ \A s \in Slots : Exists(s)' <=> Exists(s)
        /\ \A e \in Employees : Twice(e)' <=> Twice(e)
    BY <2>1, SameSlips
  <2> SUFFICES ASSUME blame' \cap {"overlap", "cut"} = {} PROVE OneGeneration'
    BY DEF OneGeneration
  <2>3. blame \cap {"overlap", "cut"} = {} /\ ~Generating(h)
    <3>1. blame' = blame \cup (IF Generating(h) THEN {"cut"} ELSE {})
      BY <1>13 DEF Fail
    <3>2. CASE Generating(h)
      <4>1. "cut" \in blame'
        BY <3>1, <3>2
      <4> QED  BY <4>1
    <3>3. CASE ~Generating(h)
      <4>1. blame' = blame
        BY <3>1, <3>3
      <4> QED  BY <3>3, <4>1
    <3> QED  BY <3>2, <3>3
  <2>4. /\ period' = period
        /\ \A g \in Handlers : g # h => pc'[g] = pc[g] /\ page'[g] = page[g]
        /\ pc'[h] = "idle"
    BY <1>13 DEF Fail
  <2> QED  BY <2>2, <2>3, <2>4
<1>14. CASE UNCHANGED vars
  <2>1. /\ \A s \in Slots : Exists(s)' <=> Exists(s)
        /\ \A e \in Employees : Twice(e)' <=> Twice(e)
    BY <1>14, SameSlips DEF vars
  <2> QED  BY <1>14, <2>1 DEF vars
<1> QED
  BY <1>1, <1>2, <1>3, <1>4, <1>5, <1>6, <1>7, <1>8, <1>9, <1>10, <1>11, <1>12,
     <1>13, <1>14
  DEF Next, Undisturbed, Receive, Resume, Staff, HrReviewRead, PayRead

\* Two payslips of one employee go back to generations that overlapped, or to
\* one that was abandoned (generatePayroll).
THEOREM DuplicatesCorrect == Spec => []DuplicatesExplained
<1>1. OneGeneration => DuplicatesExplained
  BY DEF OneGeneration, DuplicatesExplained
<1>2. Spec => []CopiesBalanced
  BY TypeInvariant, BalanceInit, BalanceNext, PTL DEF Spec
<1> QED
  BY <1>1, <1>2, TypeInvariant, AgreementInvariant, OneGenerationInit, OneGenerationNext,
     PTL DEF Spec

HasSlip(e) == \E n \in 1..MaxSlips : Exists(<<e, n>>)

Coverage ==
    /\ expected \subseteq active
    /\ \A h \in Handlers : pc[h] = "insert" =>
         \A e \in expected : e \in page[h] \/ HasSlip(e)
    /\ period # "DRAFT" => \A e \in expected : HasSlip(e)

LEMMA CoverageInit == Init => Coverage
BY DEF Init, Coverage

LEMMA CoverageNext ==
    TypeOK /\ Holding /\ CopiesBalanced /\ DraftIsCalm /\ Coverage /\ [Next]_vars
    => Coverage'
<1> SUFFICES ASSUME TypeOK, Holding, CopiesBalanced, DraftIsCalm, Coverage, [Next]_vars
             PROVE  Coverage'
  OBVIOUS
<1> USE DEF TypeOK, Holding, DraftIsCalm, Coverage, HasSlip, Exists,
        Goto, Drop, docs, local, history
<1>1. ASSUME NEW h \in Handlers, GenerateRead(h) PROVE Coverage'
  BY <1>1 DEF GenerateRead
<1>2. ASSUME NEW h \in Handlers, GenerateList(h) PROVE Coverage'
  BY <1>2 DEF GenerateList
<1>3. ASSUME NEW h \in Handlers, NEW e \in Employees, GenerateInsert(h, e)
      PROVE  Coverage'
  <2>1. PICK n \in 1..MaxSlips : slip' = [slip EXCEPT ![<<e, n>>] = NewSlip(e)]
    BY <1>3 DEF GenerateInsert
  <2>2. <<e, n>> \in Slots /\ NewSlip(e).status # "NONE"
    BY DEF Slots, NewSlip
  <2>3. Exists(<<e, n>>)' /\ \A s \in Slots : Exists(s) => Exists(s)'
    BY <2>1, <2>2
  <2>4. HasSlip(e)' /\ \A d \in Employees : HasSlip(d) => HasSlip(d)'
    BY <2>3 DEF Slots
  <2> HIDE DEF HasSlip
  <2> QED  BY <1>3, <2>4 DEF GenerateInsert
<1>4. ASSUME NEW h \in Handlers, GenerateClose(h) PROVE Coverage'
  BY <1>4 DEF GenerateClose
<1>5. ASSUME NEW h \in Handlers, NEW to \in {"HR_REVIEWED", "PAID"}, MoveRead(h, to)
      PROVE  Coverage'
  BY <1>5 DEF MoveRead
<1>6. ASSUME NEW h \in Handlers, MoveScan(h) PROVE Coverage'
  BY <1>6 DEF MoveScan
<1>7. ASSUME NEW h \in Handlers, NEW s \in Slots, MoveStamp(h, s)
      PROVE  Coverage'
  BY <1>7 DEF MoveStamp
<1>8. ASSUME NEW h \in Handlers, MoveClose(h) PROVE Coverage'
  BY <1>8 DEF MoveClose
<1>9. ASSUME NEW h \in Handlers, NEW s \in Slots, AdjustRead(h, s)
      PROVE  Coverage'
  BY <1>9 DEF AdjustRead
<1>10. ASSUME NEW h \in Handlers, AdjustCheck(h) PROVE Coverage'
  BY <1>10 DEF AdjustCheck
<1>11. ASSUME NEW h \in Handlers, NEW sums \in Amounts,
              AdjustWrite(h, sums[1], sums[2])
       PROVE  Coverage'
  <2>1. \A t \in Slots : Exists(t)' <=> Exists(t)
    BY <1>11 DEF AdjustWrite, Adjusted
  <2>2. \A e \in Employees : HasSlip(e) => HasSlip(e)'
    BY <2>1 DEF Slots
  <2> HIDE DEF HasSlip
  <2> QED  BY <1>11, <2>2 DEF AdjustWrite
<1>12. ASSUME NEW e \in Employees, Deactivate(e) \/ Reactivate(e)
       PROVE  Coverage'
  BY <1>12 DEF Deactivate, Reactivate
<1>13. ASSUME NEW h \in Handlers, Fail(h) PROVE Coverage'
  BY <1>13 DEF Fail
<1>14. CASE UNCHANGED vars
  BY <1>14 DEF vars
<1> HIDE DEF TypeOK, Holding, DraftIsCalm, Coverage
<1> QED
  BY <1>1, <1>2, <1>3, <1>4, <1>5, <1>6, <1>7, <1>8, <1>9, <1>10, <1>11, <1>12,
     <1>13, <1>14
  DEF Next, Undisturbed, Receive, Resume, Staff, HrReviewRead, PayRead

\* Nobody who was active all along is left without a payslip, except for the
\* length of the page (generatePayroll).
THEOREM CoverageCorrect == Spec => []NobodyForgotten
<1>1. Coverage => NobodyForgotten
  BY DEF Coverage, HasSlip, NobodyForgotten
<1>2. Spec => []CopiesBalanced
  BY TypeInvariant, BalanceInit, BalanceNext, PTL DEF Spec
<1> QED
  BY <1>1, <1>2, TypeInvariant, AgreementInvariant, CoverageInit, CoverageNext,
     PTL DEF Spec
-----------------------------------------------------------------------------
(* Refinement: one handler at a time implements PayrollCycle.               *)

OneAtATime == \A g, h \in Handlers : g = h

\* The status all payslips have while none is being stamped.
Resting == [DRAFT |-> "DRAFT", GENERATED |-> "DRAFT",
            HR_REVIEWED |-> "HR_REVIEWED", PAID |-> "PAID"]

\* What holds in addition when one handler runs at a time and none fails:
\* nothing goes wrong, nobody gets a second payslip, what a handler has read of
\* the period is still true, and payslips change their status only in between.
Serial ==
    /\ blame = {} /\ behind = {}
    /\ \A s \in Slots : Exists(s) => s[2] = 1
    /\ \A h \in Handlers :
         /\ pc[h] \in {"scan", "stamp"} => period = Before[mark[h]]
         /\ pc[h] = "adjust" => period = "GENERATED"
    /\ (\A h \in Handlers : pc[h] # "stamp") =>
         \A s \in Slots : Exists(s) => slip[s].status = Resting[period]

LEMMA SerialInit == Init => Serial
BY DEF Init, Serial, Exists, NoSlip

\* A generation inserts the first payslip of an employee and no other.
LEMMA FirstSlip ==
    ASSUME OneAtATime, TypeOK, OneGeneration, Serial,
           NEW h \in Handlers, NEW e \in Employees, GenerateInsert(h, e)
    PROVE  /\ period = "DRAFT" /\ <<e, 1>> \in Slots /\ ~Exists(<<e, 1>>)
           /\ slip' = [slip EXCEPT ![<<e, 1>>] = NewSlip(e)]
<1>1. PICK n \in 1..MaxSlips :
             /\ \A m \in 1..(n - 1) : Exists(<<e, m>>)
             /\ ~Exists(<<e, n>>)
             /\ slip' = [slip EXCEPT ![<<e, n>>] = NewSlip(e)]
  BY DEF GenerateInsert
<1>2. period = "DRAFT" /\ e \in page[h]
  BY DEF GenerateInsert, OneGeneration, Generating, Serial
<1>3. 1 \in 1..MaxSlips /\ n \in Nat /\ n >= 1
  BY PayrollAssumption
<1>4. <<e, 1>> \in Slots /\ <<e, 1>>[1] = e
  BY <1>3 DEF Slots
<1>5. ~Exists(<<e, 1>>)
  <2> SUFFICES ASSUME Exists(<<e, 1>>) PROVE FALSE
    OBVIOUS
  <2>1. \E g \in Handlers : pc[g] = "insert" /\ <<e, 1>>[1] \notin page[g]
    BY <1>2, <1>4 DEF OneGeneration, Serial
  <2> QED  BY <1>2, <1>4, <2>1 DEF OneAtATime
<1>6. n = 1
  <2> SUFFICES ASSUME n # 1 PROVE FALSE
    OBVIOUS
  <2>1. 1 \in 1..(n - 1)
    BY <1>3
  <2> QED  BY <1>1, <1>5, <2>1
<1> QED  BY <1>1, <1>2, <1>4, <1>5, <1>6

LEMMA SerialNext ==
    ASSUME OneAtATime, TypeOK, Holding, CopiesBalanced, Agreement, OneGeneration, Serial,
           [Undisturbed]_vars
    PROVE  Serial'
<1> USE DEF OneAtATime, TypeOK, Holding, Generating, Goto, Drop, Write, Overtake, Leave, Blame, Before,
        Resting, PeriodStatus, docs, local, history
<1>1. ASSUME NEW h \in Handlers, GenerateRead(h) PROVE Serial'
  BY <1>1 DEF GenerateRead, Serial, Exists
<1>2. ASSUME NEW h \in Handlers, GenerateList(h) PROVE Serial'
  BY <1>2 DEF GenerateList, Serial, Exists
<1>3. ASSUME NEW h \in Handlers, NEW e \in Employees, GenerateInsert(h, e)
      PROVE  Serial'
  <2>1. /\ period = "DRAFT" /\ <<e, 1>> \in Slots /\ ~Exists(<<e, 1>>)
        /\ slip' = [slip EXCEPT ![<<e, 1>>] = NewSlip(e)]
    BY <1>3, FirstSlip
  <2>2. NewSlip(e).status = "DRAFT" /\ <<e, 1>>[2] = 1
    BY DEF NewSlip
  <2>3. /\ slip'[<<e, 1>>] = NewSlip(e)
        /\ \A s \in Slots : s # <<e, 1>> => slip'[s] = slip[s]
    BY <2>1
  <2>4. UNCHANGED <<period, pc, mark, behind>> /\ blame' = {} /\ pc[h] = "insert"
    BY <1>3, <2>1 DEF GenerateInsert, Serial
  <2>5. \A s \in Slots : Exists(s)' => s[2] = 1
    BY <2>2, <2>3 DEF Serial, Exists
  <2>6. \A s \in Slots : Exists(s)' => slip'[s].status = "DRAFT"
    <3>1. \A s \in Slots : Exists(s) => slip[s].status = "DRAFT"
      BY <2>1, <2>4 DEF Serial
    <3> QED  BY <2>2, <2>3, <3>1 DEF Exists
  <2> QED  BY <2>1, <2>4, <2>5, <2>6 DEF Serial
<1>4. ASSUME NEW h \in Handlers, GenerateClose(h) PROVE Serial'
  BY <1>4 DEF GenerateClose, OneGeneration, Serial, Exists
<1>5. ASSUME NEW h \in Handlers, NEW to \in {"HR_REVIEWED", "PAID"}, MoveRead(h, to)
      PROVE  Serial'
  BY <1>5 DEF MoveRead, Serial, Exists
<1>6. ASSUME NEW h \in Handlers, MoveScan(h) PROVE Serial'
  BY <1>6 DEF MoveScan, Serial, Exists
<1>7. ASSUME NEW h \in Handlers, NEW s \in Slots, MoveStamp(h, s) PROVE Serial'
  <2>1. Exists(s) /\ mark[h] # "NONE"
    BY <1>7 DEF MoveStamp, CopiesBalanced
  <2>2. \A t \in Slots : Exists(t)' <=> Exists(t)
    BY <1>7, <2>1 DEF MoveStamp, Exists
  <2> QED  BY <1>7, <2>2 DEF MoveStamp, Serial
<1>8. ASSUME NEW h \in Handlers, MoveClose(h) PROVE Serial'
  <2>1. \A s \in Slots : Exists(s) => slip[s].status = mark[h]
    BY <1>8 DEF MoveClose, Agreement, Moving, Serial
  <2> QED  BY <1>8, <2>1 DEF MoveClose, Serial, Exists
<1>9. ASSUME NEW h \in Handlers, NEW s \in Slots, AdjustRead(h, s) PROVE Serial'
  BY <1>9 DEF AdjustRead, Serial, Exists
<1>10. ASSUME NEW h \in Handlers, AdjustCheck(h) PROVE Serial'
  BY <1>10 DEF AdjustCheck, Serial, Exists
<1>11. ASSUME NEW h \in Handlers, NEW sums \in Amounts,
              AdjustWrite(h, sums[1], sums[2])
       PROVE  Serial'
  <2>1. \A t \in Slots : slip'[t].status = slip[t].status
    BY <1>11 DEF AdjustWrite, Adjusted
  <2>2. \A t \in Slots : Exists(t)' <=> Exists(t)
    BY <2>1 DEF Exists
  <2> QED  BY <1>11, <2>1, <2>2 DEF AdjustWrite, Serial
<1>12. ASSUME NEW e \in Employees, Deactivate(e) \/ Reactivate(e) PROVE Serial'
  BY <1>12 DEF Deactivate, Reactivate, Serial, Exists
<1>13. CASE UNCHANGED vars
  BY <1>13 DEF vars, Serial, Exists
<1> QED
  BY <1>1, <1>2, <1>3, <1>4, <1>5, <1>6, <1>7, <1>8, <1>9, <1>10, <1>11, <1>12, <1>13
  DEF Undisturbed, Receive, Resume, Staff, HrReviewRead, PayRead

\* The refinement mapping, by name, and what it is while nobody is paid twice.
StampOf == [e \in Employees |-> IF Twice(e) THEN "TWICE" ELSE slip[<<e, 1>>].status]
NetOf == [e \in Employees |-> slip[<<e, 1>>].net]
FirstStatus == [e \in Employees |-> slip[<<e, 1>>].status]

CycleState == <<period, StampOf, NetOf>>

LEMMA OneSlipEach == OneGeneration /\ Serial => StampOf = FirstStatus
BY DEF OneGeneration, Serial, StampOf, FirstStatus

LEMMA SlipsUnchanged ==
    ASSUME UNCHANGED <<period, slip>>
    PROVE  UNCHANGED CycleState
<1>1. \A e \in Employees : Twice(e)' <=> Twice(e)
  BY SameSlips
<1> QED  BY <1>1 DEF CycleState, StampOf, NetOf

\* All payslips have the status that the period's next step asks for.
LEMMA PeriodMovesOn ==
    ASSUME MaxSlips > 0, TypeOK, UNCHANGED slip, StampOf = FirstStatus, period # "PAID",
           \A s \in Slots : Exists(s) => slip[s].status = Cycle!Mark[period],
           period' = Cycle!After[period]
    PROVE  Cycle!MoveOn
<1>1. \A e \in Employees : StampOf[e] \in {"NONE", Cycle!Mark[period]}
  <2> SUFFICES ASSUME NEW e \in Employees
               PROVE  StampOf[e] \in {"NONE", Cycle!Mark[period]}
    OBVIOUS
  <2>1. <<e, 1>> \in Slots
    BY PayrollAssumption DEF Slots
  <2>2. StampOf[e] = slip[<<e, 1>>].status
    BY DEF FirstStatus
  <2> QED  BY <2>1, <2>2 DEF Exists
<1>2. StampOf' = StampOf /\ NetOf' = NetOf
  <2>1. \A e \in Employees : Twice(e)' <=> Twice(e)
    BY SameSlips
  <2> QED  BY <2>1 DEF StampOf, NetOf
<1> QED  BY <1>1, <1>2 DEF Cycle!MoveOn, StampOf, NetOf

LEMMA CycleStep ==
    ASSUME OneAtATime, MaxSlips > 0, TypeOK, Holding, CopiesBalanced, Agreement,
           DraftIsCalm, OneGeneration, Serial, [Undisturbed]_vars
    PROVE  Cycle!CycleNext \/ UNCHANGED CycleState
<1> DEFINE Goal == Cycle!CycleNext \/ UNCHANGED CycleState
<1>a. [Next]_vars
  BY DEF Next
<1>b. StampOf = FirstStatus
  BY OneSlipEach
<1>c. StampOf' = FirstStatus'
  <2>1. Serial'
    BY SerialNext
  <2>2. OneGeneration'
    BY <1>a, OneGenerationNext
  <2> QED  BY <2>1, <2>2 DEF OneGeneration, Serial, StampOf, FirstStatus
<1>d. \A e \in Employees : <<e, 1>> \in Slots /\ <<e, 1>>[1] = e
  BY PayrollAssumption DEF Slots
<1>1. ASSUME NEW h \in Handlers, GenerateRead(h) PROVE Goal
  BY <1>1, SlipsUnchanged DEF GenerateRead, docs
<1>2. ASSUME NEW h \in Handlers, GenerateList(h) PROVE Goal
  BY <1>2, SlipsUnchanged DEF GenerateList, docs
<1>3. ASSUME NEW h \in Handlers, NEW e \in Employees, GenerateInsert(h, e) PROVE Goal
  <2>1. /\ period = "DRAFT" /\ <<e, 1>> \in Slots /\ ~Exists(<<e, 1>>)
        /\ slip' = [slip EXCEPT ![<<e, 1>>] = NewSlip(e)]
    BY <1>3, FirstSlip
  <2>2. FirstStatus' = [FirstStatus EXCEPT ![e] = "DRAFT"] /\ FirstStatus[e] = "NONE"
    BY <1>d, <2>1 DEF FirstStatus, NewSlip, Exists, TypeOK
  <2>3. NetOf' = [NetOf EXCEPT ![e] = Pay[e].gross - Pay[e].deductions]
    BY <1>d, <2>1 DEF NetOf, NewSlip, TypeOK
  <2>4. period' = period
    BY <1>3 DEF GenerateInsert
  <2>5. Cycle!Prepare(e)
    BY <1>b, <1>c, <2>1, <2>2, <2>3, <2>4 DEF Cycle!Prepare, StampOf, NetOf
  <2> QED  BY <2>5 DEF Cycle!CycleNext
<1>4. ASSUME NEW h \in Handlers, GenerateClose(h) PROVE Goal
  <2>1. period = "DRAFT" /\ period' = "GENERATED" /\ UNCHANGED slip
    BY <1>4 DEF GenerateClose, OneGeneration, Serial, Generating
  <2>2. \A s \in Slots : Exists(s) => slip[s].status = "DRAFT"
    BY <2>1 DEF Agreement, Serial, Allowed
  <2>3. Cycle!MoveOn
    BY <1>b, <2>1, <2>2, PeriodMovesOn DEF Cycle!Mark, Cycle!After
  <2> QED  BY <2>3 DEF Cycle!CycleNext
<1>5. ASSUME NEW h \in Handlers, NEW to \in {"HR_REVIEWED", "PAID"}, MoveRead(h, to)
      PROVE  Goal
  BY <1>5, SlipsUnchanged DEF MoveRead, docs
<1>6. ASSUME NEW h \in Handlers, MoveScan(h) PROVE Goal
  BY <1>6, SlipsUnchanged DEF MoveScan, docs
<1>7. ASSUME NEW h \in Handlers, NEW s \in Slots, MoveStamp(h, s) PROVE Goal
  <2>1. /\ Exists(s) /\ s[2] = 1 /\ mark[h] \in {"HR_REVIEWED", "PAID"}
        /\ period = Before[mark[h]]
    BY <1>7 DEF MoveStamp, CopiesBalanced, Serial, Holding
  <2>2. PICK e \in Employees : s = <<e, 1>>
    BY <2>1 DEF Slots
  <2>3. /\ slip'[s].status = mark[h] /\ slip'[s].net = slip[s].net
        /\ \A t \in Slots : t # s => slip'[t] = slip[t]
        /\ period' = period
    BY <1>7 DEF MoveStamp, TypeOK
  <2>4. FirstStatus' = [FirstStatus EXCEPT ![e] = mark[h]] /\ FirstStatus[e] # "NONE"
    BY <1>d, <2>1, <2>2, <2>3 DEF FirstStatus, Exists
  <2>5. NetOf' = NetOf
    BY <1>d, <2>2, <2>3 DEF NetOf
  <2>6. /\ period \in {"GENERATED", "HR_REVIEWED"}
        /\ Cycle!Mark[period] = mark[h]
    BY <2>1 DEF Before, Cycle!Mark
  <2>7. Cycle!Stamp(e)
    BY <1>b, <1>c, <2>3, <2>4, <2>5, <2>6 DEF Cycle!Stamp, StampOf, NetOf
  <2> QED  BY <2>7 DEF Cycle!CycleNext
<1>8. ASSUME NEW h \in Handlers, MoveClose(h) PROVE Goal
  <2>1. /\ mark[h] \in {"HR_REVIEWED", "PAID"} /\ period = Before[mark[h]]
        /\ period' = mark[h] /\ UNCHANGED slip
    BY <1>8 DEF MoveClose, Holding, Serial
  <2>2. \A s \in Slots : Exists(s) => slip[s].status = mark[h]
    BY <1>8, <2>1 DEF MoveClose, Agreement, Moving, Serial
  <2>3. /\ period # "PAID" /\ Cycle!Mark[period] = mark[h]
        /\ Cycle!After[period] = mark[h]
    BY <2>1 DEF Before, Cycle!Mark, Cycle!After
  <2>4. Cycle!MoveOn
    BY <1>b, <2>1, <2>2, <2>3, PeriodMovesOn
  <2> QED  BY <2>4 DEF Cycle!CycleNext
<1>9. ASSUME NEW h \in Handlers, NEW s \in Slots, AdjustRead(h, s) PROVE Goal
  BY <1>9, SlipsUnchanged DEF AdjustRead, docs
<1>10. ASSUME NEW h \in Handlers, AdjustCheck(h) PROVE Goal
  BY <1>10, SlipsUnchanged DEF AdjustCheck, docs
<1>11. ASSUME NEW h \in Handlers, NEW sums \in Amounts,
              AdjustWrite(h, sums[1], sums[2])
       PROVE  Goal
  <2>1. PICK s \in Slots : s = held[h]
    BY <1>11 DEF AdjustWrite, Holding
  <2>2. /\ Exists(s) /\ s[2] = 1 /\ period = "GENERATED"
        /\ slip[s].status = "DRAFT"
    <3>1. Exists(s) /\ period = "GENERATED" /\ \A g \in Handlers : pc[g] # "stamp"
      BY <1>11, <2>1 DEF AdjustWrite, CopiesBalanced, Serial, OneAtATime
    <3> QED  BY <3>1 DEF Serial, Resting
  <2>3. PICK e \in Employees : s = <<e, 1>>
    BY <2>2 DEF Slots
  <2>4. sums[1] \in Int /\ sums[2] \in Int
    BY PayrollAssumption
  <2>5. Adjusted(copy[h], slip[s], sums[1], sums[2]) \in Payslips
    BY <2>4, AdjustedType DEF TypeOK
  <2>6. /\ slip' = [slip EXCEPT ![s] = Adjusted(copy[h], slip[s], sums[1], sums[2])]
        /\ period' = period
    BY <1>11, <2>1 DEF AdjustWrite
  <2>7. /\ slip'[s].status = slip[s].status /\ slip'[s].net \in Int
        /\ \A t \in Slots : t # s => slip'[t] = slip[t]
    BY <2>5, <2>6 DEF TypeOK, Adjusted, Payslips
  <2>8. FirstStatus' = FirstStatus /\ FirstStatus[e] = "DRAFT"
    BY <1>d, <2>2, <2>3, <2>7 DEF FirstStatus
  <2>9. NetOf'[e] \in Int /\ NetOf' = [NetOf EXCEPT ![e] = NetOf'[e]]
    BY <1>d, <2>3, <2>7 DEF NetOf
  <2>10. Cycle!Correct(e)
    BY <1>b, <1>c, <2>2, <2>6, <2>8, <2>9 DEF Cycle!Correct, StampOf, NetOf
  <2> QED  BY <2>10 DEF Cycle!CycleNext
<1>12. ASSUME NEW e \in Employees, Deactivate(e) \/ Reactivate(e) PROVE Goal
  BY <1>12, SlipsUnchanged DEF Deactivate, Reactivate
<1>13. CASE UNCHANGED vars
  BY <1>13, SlipsUnchanged DEF vars, docs
<1> QED
  BY <1>1, <1>2, <1>3, <1>4, <1>5, <1>6, <1>7, <1>8, <1>9, <1>10, <1>11, <1>12, <1>13
  DEF Undisturbed, Receive, Resume, Staff, HrReviewRead, PayRead

\* A period whose requests are served one at a time and without failures keeps
\* the promise of PayrollCycle: one payslip for an employee, made in the draft,
\* corrected during the review alone, and stamped with all others before the
\* period moves on (generatePayroll, hrReviewPeriod, payPeriod,
\* updatePayslipAdjustments).
THEOREM CycleImplemented ==
    OneAtATime /\ MaxSlips > 0 /\ UndisturbedSpec => ImplementsCycle
<1> SUFFICES ASSUME OneAtATime, MaxSlips > 0 PROVE UndisturbedSpec => ImplementsCycle
  OBVIOUS
<1>1. Init => Cycle!CycleInit
  <2> SUFFICES ASSUME Init PROVE Cycle!CycleInit
    OBVIOUS
  <2>1. \A e \in Employees, n \in 1..MaxSlips :
            <<e, n>> \in Slots /\ ~Exists(<<e, n>>)
    BY DEF Slots, Init, Exists, NoSlip
  <2>2. \A e \in Employees : ~Twice(e)
    BY <2>1 DEF Twice
  <2>3. \A e \in Employees : slip[<<e, 1>>] = NoSlip
    BY <2>1, PayrollAssumption DEF Init
  <2>4. StampOf = [e \in Employees |-> "NONE"] /\ NetOf = [e \in Employees |-> 0]
    BY <2>2, <2>3 DEF StampOf, NetOf, NoSlip
  <2> QED  BY <2>4 DEF Init, Cycle!CycleInit, StampOf, NetOf
<1>2. TypeOK /\ Holding /\ CopiesBalanced /\ Agreement /\ DraftIsCalm
        /\ OneGeneration /\ Serial /\ [Undisturbed]_vars
        => [Cycle!CycleNext]_(Cycle!cycleVars)
  <2> SUFFICES ASSUME TypeOK, Holding, CopiesBalanced, Agreement, DraftIsCalm,
                      OneGeneration, Serial, [Undisturbed]_vars
               PROVE  Cycle!CycleNext \/ UNCHANGED Cycle!cycleVars
    OBVIOUS
  <2>1. Cycle!CycleNext \/ UNCHANGED CycleState
    BY CycleStep
  <2>2. Cycle!cycleVars = CycleState /\ Cycle!cycleVars' = CycleState'
    BY DEF Cycle!cycleVars, CycleState, StampOf, NetOf
  <2> QED  BY <2>1, <2>2
<1>3. [Undisturbed]_vars => [Next]_vars
  BY DEF Next
<1>4. UndisturbedSpec => Spec
  BY <1>3, PTL DEF UndisturbedSpec, Spec
<1>5. Spec => []CopiesBalanced
  BY TypeInvariant, BalanceInit, BalanceNext, PTL DEF Spec
<1>6. Spec => []OneGeneration
  BY <1>5, TypeInvariant, AgreementInvariant, OneGenerationInit, OneGenerationNext,
     PTL DEF Spec
<1>7. TypeOK /\ Holding /\ CopiesBalanced /\ Agreement /\ OneGeneration /\ Serial
        /\ [Undisturbed]_vars => Serial'
  <2> SUFFICES ASSUME TypeOK, Holding, CopiesBalanced, Agreement, OneGeneration, Serial,
                      [Undisturbed]_vars
               PROVE  Serial'
    OBVIOUS
  <2> QED  BY SerialNext
<1>8. UndisturbedSpec => [](TypeOK /\ Holding /\ CopiesBalanced /\ Agreement
                            /\ DraftIsCalm /\ OneGeneration)
  BY <1>4, <1>5, <1>6, TypeInvariant, AgreementInvariant, PTL
<1>9. UndisturbedSpec => []Serial
  BY <1>7, <1>8, SerialInit, PTL DEF UndisturbedSpec
<1> QED
  BY <1>1, <1>2, <1>8, <1>9, PTL
  DEF UndisturbedSpec, ImplementsCycle, Cycle!CycleSpec
-----------------------------------------------------------------------------
(* One handler at a time, which may fail: what it has read stays true.      *)

ReadsHold ==
    /\ "stale" \notin blame /\ behind = {}
    /\ \A h \in Handlers :
         /\ Generating(h) => period = "DRAFT"
         /\ pc[h] \in {"scan", "stamp"} => period = Before[mark[h]]

LEMMA ReadsHoldInit == Init => ReadsHold
BY DEF Init, ReadsHold, Generating

LEMMA ReadsHoldNext ==
    ASSUME OneAtATime, TypeOK, Holding, ReadsHold, [Next]_vars
    PROVE  ReadsHold'
<1> USE DEF OneAtATime, TypeOK, Generating, Goto, Drop, Write, Overtake, Leave, Blame, docs, local, history,
            ReadsHold
<1>1. ASSUME NEW h \in Handlers, GenerateRead(h) PROVE ReadsHold'
  BY <1>1 DEF GenerateRead
<1>2. ASSUME NEW h \in Handlers, NEW status \in {"HR_REVIEWED", "PAID"}, MoveRead(h, status)
      PROVE  ReadsHold'
  BY <1>2 DEF MoveRead
<1>3. ASSUME NEW h \in Handlers, NEW s \in Slots, AdjustRead(h, s) PROVE ReadsHold'
  BY <1>3 DEF AdjustRead
<1>4. ASSUME NEW h \in Handlers, GenerateList(h) PROVE ReadsHold'
  BY <1>4 DEF GenerateList
<1>5. ASSUME NEW h \in Handlers, NEW e \in Employees, GenerateInsert(h, e) PROVE ReadsHold'
  BY <1>5 DEF GenerateInsert
<1>6. ASSUME NEW h \in Handlers, GenerateClose(h) PROVE ReadsHold'
  BY <1>6 DEF GenerateClose
<1>7. ASSUME NEW h \in Handlers, MoveScan(h) PROVE ReadsHold'
  BY <1>7 DEF MoveScan
<1>8. ASSUME NEW h \in Handlers, NEW s \in Slots, MoveStamp(h, s) PROVE ReadsHold'
  BY <1>8 DEF MoveStamp
<1>9. ASSUME NEW h \in Handlers, MoveClose(h) PROVE ReadsHold'
  BY <1>9 DEF MoveClose
<1>10. ASSUME NEW h \in Handlers, AdjustCheck(h) PROVE ReadsHold'
  BY <1>10 DEF AdjustCheck
<1>11. ASSUME NEW h \in Handlers, NEW sums \in Amounts, AdjustWrite(h, sums[1], sums[2])
       PROVE  ReadsHold'
  BY <1>11 DEF AdjustWrite
<1>12. ASSUME Staff PROVE ReadsHold'
  BY <1>12 DEF Staff, Deactivate, Reactivate
<1>13. ASSUME NEW h \in Handlers, Fail(h) PROVE ReadsHold'
  BY <1>13 DEF Fail
<1>14. CASE UNCHANGED vars
  BY <1>14 DEF vars
<1> QED
  BY <1>1, <1>2, <1>3, <1>4, <1>5, <1>6, <1>7, <1>8, <1>9, <1>10, <1>11, <1>12, <1>13, <1>14
  DEF Next, Undisturbed, Receive, Resume, HrReviewRead, PayRead

LEMMA ReadsHoldAlone == OneAtATime /\ Spec => []ReadsHold
<1> SUFFICES ASSUME OneAtATime PROVE Spec => []ReadsHold
  OBVIOUS
<1>1. TypeOK /\ Holding /\ ReadsHold /\ [Next]_vars => ReadsHold'
  BY ReadsHoldNext
<1> QED  BY <1>1, TypeInvariant, ReadsHoldInit, PTL DEF Spec

\* Served one request at a time, a period takes the documented steps alone, even
\* when requests are abandoned half way: leaving the order takes a race (the
\* workflow of payroll-period.schema.ts).
THEOREM OrderAlone == OneAtATime /\ Spec => WorkflowOrder
<1> SUFFICES ASSUME OneAtATime PROVE Spec => WorkflowOrder
  OBVIOUS
<1>1. Spec => []ReadsHold
  BY ReadsHoldAlone
<1>2. ReadsHold /\ [ /\ period' # period => <<period, period'>> \in Steps \/ Overtaken
                     /\ \A s \in Slots : slip[s].status = "PAID" /\ slip'[s] # slip[s] =>
                            Overtaken \/ "stale" \in blame' ]_vars
        => [ period' # period => <<period, period'>> \in Steps ]_vars
  BY DEF ReadsHold, Overtaken
<1> QED  BY <1>1, <1>2, WorkflowCorrect, PTL DEF WorkflowOrder, WorkflowOrderExplained

\* And its payslips always have a status that fits the period's.
THEOREM StatusesAlone ==
    OneAtATime /\ Spec => [](\A s \in Slots : Exists(s) => slip[s].status \in Allowed[period])
<1> SUFFICES ASSUME OneAtATime
             PROVE  Spec => [](\A s \in Slots :
                                  Exists(s) => slip[s].status \in Allowed[period])
  OBVIOUS
<1>1. ReadsHold /\ StatusesAgree =>
          \A s \in Slots : Exists(s) => slip[s].status \in Allowed[period]
  BY DEF ReadsHold, StatusesAgree
<1> QED  BY <1>1, ReadsHoldAlone, StatusCorrect, PTL
=============================================================================
