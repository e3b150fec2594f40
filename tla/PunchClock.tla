----------------------------- MODULE PunchClock -----------------------------
(***************************************************************************)
(* Attendance over several days: which calendar day a check-in, a check-   *)
(* out, a report and the payroll mean.  Check-in and check-out ask for the *)
(* day of the server, the schedule and the records for the day in Bangkok, *)
(* the summaries for the day in UTC, and the payroll for the time between  *)
(* two dates, each of them midnight in UTC.                                *)
(*                                                                         *)
(* A day is a few units long, now is the time since midnight in Bangkok of *)
(* day 0.  Which schedule applies is an input of the handlers: Policies    *)
(* and ShiftRoster say where it comes from.  Left out: places and the      *)
(* geofence, breaks, branches, notifications; and, as AttendanceDay has    *)
(* them, the steps of an approval.                                         *)
(***************************************************************************)
EXTENDS Serving

CONSTANTS
    Workers,        \* employees
    DayLength,      \* the units of time of a day
    Zone,           \* those from midnight in Bangkok to midnight in UTC
    Margin,         \* the 120 minutes before and after a shift
    Timetables,     \* the schedules: [start, end, days, grace, overnight]
    Weekend,        \* days that are a Saturday or a Sunday
    Month,          \* the days of the month reported and paid
    LastMoment,     \* bound: the time that passes
    MaxLogs,        \* bound: attendance logs
    FixMoments,     \* bound: the times that HR writes
    MaxFixes        \* bound: the logs that HR wrote or changed

ASSUME PunchClockAssumption ==
    /\ DayLength \in Nat \ {0}
    /\ Zone \in 0..(DayLength - 1)
    /\ Margin \in Nat
    /\ \A s \in Timetables : /\ {s.start, s.end} \subseteq 0..(DayLength - 1)
                            /\ s.days \subseteq Nat /\ s.grace \in Nat
                            /\ s.overnight \in BOOLEAN
    /\ Month \subseteq Nat /\ IsFiniteSet(Month) /\ Month # {}
    /\ \A c, d \in Month : c..d \subseteq Month
    /\ LastMoment \in Nat /\ FixMoments \subseteq 0..LastMoment
    /\ MaxLogs \in Nat /\ MaxFixes \in Nat

Moments == 0..LastMoment
Punches == {"CHECK_IN", "CHECK_OUT"}
PunchStatus == {"NORMAL", "LATE_MINOR", "LATE", "EARLY_LEAVE", "MANUAL_ADJUSTED"}
NoLog == 0
NoTimetable == <<>>         \* resolveWorkSchedule() found nothing
PunchPCs == {"idle", "punchIn", "punchOut"}

VARIABLES
    lag,            \* from midnight in Bangkok to midnight of the server
    now,
    logs,           \* sequence of [who, type, at, status, late, fixes]
    \* history, for the properties only
    odd             \* logs of handlers that another check-in, or midnight, overtook

punchVars == <<lag, now, logs, odd>>

PunchInit ==
    /\ lag \in {0, Zone}
    /\ now = 0
    /\ logs = <<>>
    /\ odd = {}

-----------------------------------------------------------------------------
(* Days *)

BangkokDay(t) == t \div DayLength               \* toBangkokDateKey()
Minute(t) == t % DayLength                      \* getMinutesSinceMidnight()
ServerDay(t) == (t - lag) \div DayLength        \* setHours()
UTCDay(t) == (t - Zone) \div DayLength          \* setUTCHours()
UTCMidnight(d) == d * DayLength + Zone          \* new Date("YYYY-MM-DD")

\* What findTodayLogs() and findTodayCheckIn() see; the latter passes over
\* adjusted logs.
TodayLogs(e) == {n \in DOMAIN logs : logs[n].who = e /\ ServerDay(logs[n].at) = ServerDay(now)}
TodayCheckIns(e) ==
    {n \in TodayLogs(e) : logs[n].type = "CHECK_IN" /\ logs[n].status # "MANUAL_ADJUSTED"}

-----------------------------------------------------------------------------
(* checkIn() and checkOut() *)

GuardWorkDay(s) == s # NoTimetable => BangkokDay(now) \in s.days
CheckInClosed(s) == Minute(now) > s.end + Margin
GuardCheckInWindow(s) ==
    s # NoTimetable => Minute(now) >= s.start - Margin /\ ~CheckInClosed(s)
GuardCheckOutWindow(s, reason) ==
    s # NoTimetable => s.overnight \/ Minute(now) >= s.end \/ reason

\* calculateCheckInStatus()
LateMinutes(s) ==
    IF s = NoTimetable \/ Minute(now) <= s.start THEN 0 ELSE Minute(now) - s.start
CheckInStatus(s) ==
    CASE LateMinutes(s) = 0 -> "NORMAL"
      [] LateMinutes(s) \in 1..s.grace -> "LATE_MINOR"
      [] OTHER -> "LATE"
CheckOutStatus(s) ==
    IF s = NoTimetable \/ Minute(now) >= s.end THEN "NORMAL" ELSE "EARLY_LEAVE"

Room == Len(logs) < MaxLogs
Store(e, type, t, status, late, fixes) ==
    logs' = Append(logs, [who |-> e, type |-> type, at |-> t, status |-> status,
                          late |-> late, fixes |-> fixes])

\* Both look for a check-in of today ...
SeenToday(e) == [who |-> e, day |-> ServerDay(now), upto |-> Len(logs)]
ClockInRead_Again(h, e) ==
    /\ Enter(h, "punchIn", SeenToday(e))
    /\ UNCHANGED punchVars
ClockInRead(h, e) ==
    /\ TodayCheckIns(e) = {}
    /\ Enter(h, "punchIn", SeenToday(e))
    /\ UNCHANGED punchVars
ClockOutRead(h, e) ==
    /\ TodayCheckIns(e) # {}
    /\ Enter(h, "punchOut", SeenToday(e))
    /\ UNCHANGED punchVars

\* ... and then, with the schedule and what it allows, create a log.
ClockInCreate(h, s) ==
    LET w == work[h] IN
    /\ pc[h] = "punchIn"
    /\ Room /\ GuardWorkDay(s) /\ GuardCheckInWindow(s)
    /\ Store(w.who, "CHECK_IN", now, CheckInStatus(s), LateMinutes(s), NoLog)
    /\ odd' = IF w.day # ServerDay(now) \/ \E n \in TodayCheckIns(w.who) : n > w.upto
              THEN odd \cup {Len(logs) + 1} ELSE odd
    /\ Leave(h)
    /\ UNCHANGED <<lag, now>>
ClockOutCreate(h, s, reason) ==
    LET w == work[h] IN
    /\ pc[h] = "punchOut"
    /\ Room /\ GuardCheckOutWindow(s, reason)
    /\ Store(w.who, "CHECK_OUT", now, CheckOutStatus(s), 0, NoLog)
    /\ odd' = IF w.day # ServerDay(now) THEN odd \cup {Len(logs) + 1} ELSE odd
    /\ Leave(h)
    /\ UNCHANGED <<lag, now>>

PunchRefused(h) == Abandoned(h) /\ UNCHANGED punchVars

-----------------------------------------------------------------------------
(* What HR writes *)

Fixed == {n \in DOMAIN logs : logs[n].status = "MANUAL_ADJUSTED"}

\* AttendanceAdjustmentsService: the log an approved request asks for.
Correct(h, e, type, n, t) ==
    /\ AtOnce(h)
    /\ Room /\ Cardinality(Fixed) < MaxFixes
    /\ n # NoLog => logs[n].who = e /\ logs[n].type = type
    /\ Store(e, type, t, "MANUAL_ADJUSTED", 0, n)
    /\ UNCHANGED <<lag, now, odd>>

\* manualAdjust()
AdjustPunch(h, n, type, t) ==
    /\ AtOnce(h)
    /\ Cardinality(Fixed \cup {n}) <= MaxFixes
    /\ logs' = [logs EXCEPT ![n].status = "MANUAL_ADJUSTED", ![n].type = type, ![n].at = t]
    /\ UNCHANGED <<lag, now, odd>>

PassTime == now < LastMoment /\ now' = now + 1 /\ UNCHANGED <<pc, work, lag, logs, odd>>

PunchNext ==
    \/ PassTime
    \/ \E h \in Handlers :
        \/ \E e \in Workers : ClockInRead(h, e) \/ ClockOutRead(h, e)
        \/ \E s \in Timetables \cup {NoTimetable} :
             ClockInCreate(h, s) \/ \E reason \in BOOLEAN : ClockOutCreate(h, s, reason)
        \/ \E type \in Punches, t \in FixMoments :
             \/ \E e \in Workers, n \in {NoLog} \cup DOMAIN logs : Correct(h, e, type, n, t)
             \/ \E n \in DOMAIN logs : AdjustPunch(h, n, type, t)
        \/ PunchRefused(h)

PunchSpec == ServingInit /\ PunchInit /\ [][PunchNext]_<<pc, work, punchVars>>

-----------------------------------------------------------------------------
(* Records and reports *)

LogsOf(e) == {n \in DOMAIN logs : logs[n].who = e}
OnBangkokDay(e, d) == {n \in LogsOf(e) : BangkokDay(logs[n].at) = d}
OfType(S, type) == {n \in S : logs[n].type = type}

\* withoutSupersededLogs(), among the logs it is given
Effective(S) == {n \in S : \A m \in S : logs[m].fixes # n}

FirstOf(S) == IF S = {} THEN NoLog
               ELSE CHOOSE n \in S : \A m \in S : logs[n].at <= logs[m].at
FinalOf(S) == IF S = {} THEN NoLog
              ELSE CHOOSE n \in S : \A m \in S : logs[n].at >= logs[m].at

\* getMyHistory(): findDailyPaginated() and toDailyRecord()
DailyRecord(e, d) ==
    LET S == Effective(OnBangkokDay(e, d)) IN
    [in |-> FirstOf(OfType(S, "CHECK_IN")), out |-> FinalOf(OfType(S, "CHECK_OUT"))]

\* getEmployeeMonthlyReport(): the logs between the server's midnights, by the
\* day in Bangkok, superseded or not.
MonthLogs(e, d) == {n \in OnBangkokDay(e, d) : ServerDay(logs[n].at) \in Month}
MonthRecord(e, d) ==
    [in |-> FirstOf(OfType(MonthLogs(e, d), "CHECK_IN")),
     out |-> FinalOf(OfType(MonthLogs(e, d), "CHECK_OUT"))]
DayStatus(e, d) ==
    LET r == MonthRecord(e, d) IN
    CASE d \in Weekend -> "WEEKEND"
      [] d \notin Weekend /\ r.in = NoLog -> "ABSENT"
      [] d \notin Weekend /\ r.in # NoLog ->
           IF r.out # NoLog /\ logs[r.out].status = "EARLY_LEAVE" THEN "EARLY_LEAVE"
           ELSE IF logs[r.in].late > 0 THEN "LATE" ELSE "PRESENT"
DaysWith(e, s) == Cardinality({d \in Month : DayStatus(e, d) = s})
MonthlySummary(e) ==
    [days |-> Cardinality(Month \ Weekend), present |-> DaysWith(e, "PRESENT"),
     late |-> DaysWith(e, "LATE"), absent |-> DaysWith(e, "ABSENT"),
     early |-> DaysWith(e, "EARLY_LEAVE")]

\* findCheckedInEmployeeIds() and getSummary(), for the day of a date in UTC
CheckInsOn(u) == {n \in OfType(DOMAIN logs, "CHECK_IN") : UTCDay(logs[n].at) = u}
CheckedInIds(u) == {logs[n].who : n \in CheckInsOn(u)}
LateOn(u) == {n \in CheckInsOn(u) : logs[n].status \in {"LATE", "LATE_MINOR"}}
Summary(u) ==
    LET total == Cardinality(Workers)  came == Cardinality(CheckInsOn(u)) IN
    [total |-> total, checkedIn |-> came, late |-> Cardinality(LateOn(u)),
     notCheckedIn |-> IF came <= total THEN total - came ELSE 0]

\* getNotCheckedInReport() for a date at time t, of employees with shift s
NotCheckedIn(t, s) ==
    {e \in Workers \ CheckedInIds(UTCDay(t)) :
        s # NoTimetable =>
            /\ BangkokDay(t) \in s.days
            /\ BangkokDay(t) = BangkokDay(now) => s.start <= Minute(now)}

\* getLateReport() between two dates
LateReport(from, to) ==
    {n \in DOMAIN logs : logs[n].status = "LATE" /\ logs[n].at \in from..to}

\* countPresenceDaysByEmployee(), between the dates of a payroll period
First == CHOOSE d \in Month : \A c \in Month : d <= c
Last == CHOOSE d \in Month : \A c \in Month : d >= c
PresenceDays(e) ==
    {BangkokDay(logs[n].at) :
        n \in {m \in OfType(LogsOf(e), "CHECK_IN") :
                 logs[m].at \in UTCMidnight(First)..UTCMidnight(Last)}}

-----------------------------------------------------------------------------
(* Properties *)

PunchTypeOK ==
    /\ \A h \in Handlers : pc[h] \in PunchPCs
    /\ lag \in {0, Zone} /\ now \in Moments
    /\ Len(logs) <= MaxLogs
    /\ \A n \in DOMAIN logs :
         /\ logs[n].who \in Workers /\ logs[n].type \in Punches
         /\ logs[n].at \in Moments /\ logs[n].status \in PunchStatus
         /\ logs[n].late \in 0..DayLength /\ logs[n].fixes \in 0..(n - 1)
    /\ odd \subseteq DOMAIN logs

\* Nothing HR wrote, and no handler overtaken, among the logs of an employee.
Ordinary(e) == LogsOf(e) \cap (Fixed \cup odd) = {}
Early(n) == Minute(logs[n].at) < Zone           \* before midnight in UTC

\* The summary of a day counts check-ins, and means employees: the same, where
\* the days of the server are those of the summary.
SummaryCountsEmployees ==
    lag = Zone /\ (\A e \in Workers : Ordinary(e)) =>
        \A u \in {UTCDay(t) : t \in Moments} :
            Summary(u).checkedIn = Cardinality(CheckedInIds(u))

\* Whoever is in the records of a day leaves it after coming, unless leaving,
\* before midnight in UTC, ended the work of the day before.
ComesBeforeLeaving ==
    \A e \in Workers, d \in {BangkokDay(t) : t \in Moments} :
        LET r == DailyRecord(e, d) IN
        Ordinary(e) /\ r.in # NoLog /\ r.out # NoLog =>
            logs[r.in].at <= logs[r.out].at \/ (lag = Zone /\ Early(r.out))

\* A day that is paid is in the records of the employee, unless HR gave a
\* correction another type than the log it corrects, and in the month report
\* unless it is a weekend; and a day that the report calls present is
\* paid, unless it is the last of the period, or the first and the employee
\* came before midnight in UTC.
Crossed(e) ==
    \E n \in LogsOf(e) : logs[n].fixes # NoLog /\ logs[n].type # logs[logs[n].fixes].type
PaysForReportedDays ==
    \A e \in Workers :
        /\ \A d \in PresenceDays(e) :
             /\ DailyRecord(e, d).in # NoLog \/ Crossed(e)
             /\ DayStatus(e, d) # "ABSENT"
        /\ \A d \in Month :
             DayStatus(e, d) \notin {"ABSENT", "WEEKEND"} =>
                 \/ d \in PresenceDays(e)
                 \/ d = Last
                 \/ d = First /\ \A n \in OfType(MonthLogs(e, d), "CHECK_IN") : Early(n)

\* Both records of a day begin with the same check-in, unless one of its logs
\* was corrected or fell out of the month of the server; and who came early in
\* every sense is nowhere late.
RecordsAgree ==
    \A e \in Workers, d \in Month :
        LET same == MonthLogs(e, d) = Effective(OnBangkokDay(e, d)) IN
        /\ same => MonthRecord(e, d) = DailyRecord(e, d)
        /\ Ordinary(e) /\ DayStatus(e, d) = "PRESENT" =>
               OnBangkokDay(e, d) \cap LateReport(0, LastMoment) \subseteq
                   {n \in LogsOf(e) : n # MonthRecord(e, d).in}

\* Nobody is reported missing on a day on which they came, unless before
\* midnight in UTC.
MissingDidNotCome ==
    \A d \in Month, s \in Timetables \cup {NoTimetable} :
        \A e \in NotCheckedIn(UTCMidnight(d), s) :
            \A n \in OfType(OnBangkokDay(e, d), "CHECK_IN") : Early(n)

\* The records, the reports, the summaries and the payroll tell the same story
\* of the days, with the exceptions that their different midnights make.
RecordsAddUp ==
    /\ SummaryCountsEmployees
    /\ ComesBeforeLeaving
    /\ PaysForReportedDays
    /\ RecordsAgree
    /\ MissingDidNotCome

\* "Block check-in after shift end + 2-hour grace": a check-in that comes during
\* the shift, on a day that it is worked, is not one of those blocked.
OnShift(s) ==
    IF s.overnight THEN Minute(now) \notin s.end..(s.start - 1)
                   ELSE Minute(now) \in s.start..s.end
ShiftAdmitsCheckIn ==
    Waiting({"punchIn"}) # {} =>
        \A s \in Timetables : GuardWorkDay(s) /\ OnShift(s) => ~CheckInClosed(s)

=============================================================================
