------------------------------ MODULE NextRuns ------------------------------
(***************************************************************************)
(* The list of the next runs of an expression, which admins see while they *)
(* type it (admin_job_schedule_next_runs in backend/api/admin_jobs.py):    *)
(* next_run() is applied to its own answer.                                *)
(***************************************************************************)
EXTENDS Cron

CONSTANTS
    Crons,    \* the expressions that are typed
    Zones,    \* the time zones they are read in
    Starts,   \* when they are typed
    Listed    \* how many runs are listed

ASSUME NextRunsAssumption ==
    /\ \A c \in Crons : Valid(c)
    /\ Starts \subseteq Nat /\ Listed \in Nat
    /\ \A z \in Zones :
        /\ z.change \in Int /\ z.before \in Int /\ z.after \in Int
        /\ \A t \in Starts : LocalOf(z, t) \in Nat
    /\ Never \notin Int

VARIABLES
    cron, zone,   \* what was typed
    after,        \* the last run that was found, at first the time of the request
    next,         \* the run found after it
    listed        \* how many were found

vars == <<cron, zone, after, next, listed>>

Init ==
    /\ cron \in Crons /\ zone \in Zones /\ after \in Starts
    /\ next = NextRun(cron, zone, after)
    /\ listed = 0

Lists ==
    /\ listed < Listed /\ next # Never
    /\ after' = next
    /\ next' = NextRun(cron, zone, next)
    /\ listed' = listed + 1
    /\ UNCHANGED <<cron, zone>>

Spec == Init /\ [][Lists]_vars

-----------------------------------------------------------------------------
(***************************************************************************)
(* What an expression means, minute by minute: cron's own definition.      *)
(***************************************************************************)
Reaches(from, step, v) == \E k \in 0..v : v = from + k * step
Says(p, v, low) ==
    \/ p.form = "any"
    \/ p.form = "every" /\ Reaches(low, p.step, v)
    \/ p.form = "at" /\ p.step = 1 /\ v = p.from
    \/ p.form = "at" /\ p.step > 1 /\ Reaches(p.from, p.step, v)
    \/ p.form = "span" /\ v <= p.to /\ Reaches(p.from, p.step, v)
Holds(parts, v, low) == \E p \in parts : Says(p, v, low)

\* Sunday is 0 and 7
WeekdayHolds(c, d) ==
    \/ Holds(c.weekday, WeekdayOf(d), 0)
    \/ WeekdayOf(d) = 0 /\ Holds(c.weekday, 7, 0)
DayHolds(c, d) ==
    /\ Holds(c.month, MonthOf(d), 1)
    /\ IF c.day = {Star} \/ c.weekday = {Star}
       THEN Holds(c.day, MonthDayOf(d), 1) /\ WeekdayHolds(c, d)
       ELSE Holds(c.day, MonthDayOf(d), 1) \/ WeekdayHolds(c, d)
TimeHolds(c, t) == Holds(c.hour, (t % Minutes) \div 60, 0) /\ Holds(c.minute, t % 60, 0)

\* the minutes of UTC that are, in the zone, on day d
MinutesOf(d) == {t \in (Minutes * (d - 1))..(Minutes * (d + 2)) : DayOf(LocalOf(zone, t)) = d}

\* a local time that the zone skips, read as if it had not changed yet
Skipped(t) == LocalOf(zone, t) - zone.after + zone.before

\* The run found is later, the expression holds then (or at a local time skipped just
\* before), and holds at no minute in between: no run is missed, none is made up.
NextIsFirst ==
    next # Never =>
        LET local == LocalOf(zone, next) IN
        /\ next > after
        /\ \/ DayHolds(cron, DayOf(local)) /\ TimeHolds(cron, local)
           \/ /\ next >= zone.change /\ Skipped(next) < zone.change + zone.after
              /\ DayHolds(cron, DayOf(Skipped(next))) /\ TimeHolds(cron, Skipped(next))
        /\ \A d \in DayOf(LocalOf(zone, after))..DayOf(local) :
               DayHolds(cron, d) =>
                   \A t \in MinutesOf(d) :
                       after < t /\ t < next => ~TimeHolds(cron, LocalOf(zone, t))

\* An expression that is refused because it "never runs" has no day in the four centuries
\* after which the calendar repeats itself: looking MaxDays ahead is enough.
NeverIsNever ==
    next = Never => \A d \in DayOf(after)..(DayOf(after) + 146097) : ~DayHolds(cron, d)
=============================================================================
