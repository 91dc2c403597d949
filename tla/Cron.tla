-------------------------------- MODULE Cron --------------------------------
(***************************************************************************)
(* Cron expressions (backend/jobs/cron.py): what their fields mean, the    *)
(* first time after another at which one runs, and that time in UTC for an *)
(* expression read in a time zone.                                         *)
(*                                                                         *)
(* A time is a number of minutes since 1970-01-01 00:00: cron.py drops     *)
(* seconds.  A day is a number of days since then.                         *)
(***************************************************************************)
EXTENDS Integers

CONSTANT Never    \* CronError: "This schedule never runs"

Minutes == 24 * 60          \* of a day
DayOf(t) == t \div Minutes

-----------------------------------------------------------------------------
(***************************************************************************)
(* The calendar of Python's datetime.                                      *)
(***************************************************************************)
WeekdayOf(d) == (d + 4) % 7    \* 0 is Sunday: 1970-01-01 was a Thursday

\* years begin in March, so that their leap day comes last
YearDay(d) ==
    LET n == (d + 719468) % 146097
        year == (n - n \div 1460 + n \div 36524 - n \div 146096) \div 365
    IN n - (365 * year + year \div 4 - year \div 100)
MonthOf(d) == (((5 * YearDay(d) + 2) \div 153 + 2) % 12) + 1
MonthDayOf(d) ==
    LET month == (5 * YearDay(d) + 2) \div 153 IN YearDay(d) - (153 * month + 2) \div 5 + 1

-----------------------------------------------------------------------------
(***************************************************************************)
(* A field is a set of parts, the comma-separated list of the expression.  *)
(***************************************************************************)
Star == [form |-> "any", from |-> 0, to |-> 0, step |-> 1]                   \* *
Every(n) == [form |-> "every", from |-> 0, to |-> 0, step |-> n]             \* */n
At(v) == [form |-> "at", from |-> v, to |-> v, step |-> 1]                   \* v
From(v, n) == [form |-> "at", from |-> v, to |-> v, step |-> n]              \* v/n
Span(v, w, n) == [form |-> "span", from |-> v, to |-> w, step |-> n]         \* v-w/n

\* the parts that _field() does not refuse
ValidPart(p, low, high) ==
    /\ p.step \in Nat \ {0}
    /\ \/ p = Star
       \/ p.form = "every"
       \/ p.form = "at" /\ p.from \in low..high /\ p.to = p.from
       \/ p.form = "span" /\ p.from \in low..high /\ p.to \in p.from..high

FirstOf(p, low) == IF p.form \in {"any", "every"} THEN low ELSE p.from

\* "5/10": from 5, every 10
LastOf(p, high) ==
    IF p.form \in {"any", "every"} \/ (p.form = "at" /\ p.step > 1) THEN high ELSE p.to

Values(parts, low, high) ==
    UNION {{v \in FirstOf(p, low)..LastOf(p, high) : (v - FirstOf(p, low)) % p.step = 0} : p \in parts}

\* minute, hour, day of month, month, day of week
Limits == [minute |-> <<0, 59>>, hour |-> <<0, 23>>, day |-> <<1, 31>>, month |-> <<1, 12>>,
           weekday |-> <<0, 7>>]
Valid(c) ==
    \A f \in DOMAIN Limits :
        c[f] # {} /\ \A p \in c[f] : ValidPart(p, Limits[f][1], Limits[f][2])
ValuesOf(c, f) == Values(c[f], Limits[f][1], Limits[f][2])

-----------------------------------------------------------------------------
\* Bug variant: a day has to match both fields.
DayMatchesBoth(c, d) ==
    /\ MonthOf(d) \in ValuesOf(c, "month")
    /\ MonthDayOf(d) \in ValuesOf(c, "day")
    /\ WeekdayOf(d) \in {v % 7 : v \in ValuesOf(c, "weekday")}

\* "when both the day of month and the day of week are restricted, either can match";
\* 7 is also Sunday
DayMatches(c, d) ==
    LET in_month == MonthDayOf(d) \in ValuesOf(c, "day")
        in_week == WeekdayOf(d) \in {v % 7 : v \in ValuesOf(c, "weekday")}
        any_day == c.day = {Star}
        any_weekday == c.weekday = {Star}
    IN /\ MonthOf(d) \in ValuesOf(c, "month")
       /\ \/ any_day /\ any_weekday
          \/ any_day /\ in_week
          \/ any_weekday /\ in_month
          \/ ~any_day /\ ~any_weekday /\ (in_month \/ in_week)

\* the times of day d at which c runs, no earlier than start
Candidates(c, d, start) ==
    IF DayMatches(c, d)
    THEN {t \in {Minutes * d + 60 * h + m : h \in ValuesOf(c, "hour"), m \in ValuesOf(c, "minute")} :
             t >= start}
    ELSE {}

Earliest(S) == CHOOSE t \in S : \A u \in S : t <= u

\* Bug variant: four years always hold a leap day.
MaxDaysShort == 366 * 4

MaxDays == 366 * 8    \* "leap days on a Sunday may be years away"

\* Bug variant: the search starts at `after` itself.
NextFrom(c, after) ==
    LET Runs(i) == Candidates(c, DayOf(after) + i, after)
    IN IF \A i \in 0..(MaxDays - 1) : Runs(i) = {}
       THEN Never
       ELSE Earliest(Runs(CHOOSE i \in 0..(MaxDays - 1) :
                             Runs(i) # {} /\ \A k \in 0..(i - 1) : Runs(k) = {}))

\* The first time strictly after `after` at which c runs, or Never.
NextAfter(c, after) ==
    LET start == after + 1
        Runs(i) == Candidates(c, DayOf(start) + i, start)
    IN IF \A i \in 0..(MaxDays - 1) : Runs(i) = {}
       THEN Never
       ELSE LET first == CHOOSE i \in 0..(MaxDays - 1) :
                            Runs(i) # {} /\ \A k \in 0..(i - 1) : Runs(k) = {}
            IN Earliest(Runs(first))

-----------------------------------------------------------------------------
(***************************************************************************)
(* A time zone: its offsets from UTC, in minutes, before and after it      *)
(* changes.  In spring local times are skipped, in autumn they come twice. *)
(***************************************************************************)
LocalOf(zone, utc) == utc + (IF utc < zone.change THEN zone.before ELSE zone.after)

\* astimezone() of a local time whose fold is 0, as datetime.combine() makes them: one that
\* comes twice is the first, one that is skipped is read with the offset before the change
UtcOf(zone, local) ==
    local - (IF local < zone.change + (IF zone.before > zone.after THEN zone.before ELSE zone.after)
             THEN zone.before ELSE zone.after)

NextRun(c, zone, utc) ==
    LET local == NextAfter(c, LocalOf(zone, utc)) IN
    IF local = Never THEN Never ELSE UtcOf(zone, local)
=============================================================================
