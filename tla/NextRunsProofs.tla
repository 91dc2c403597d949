--------------------------- MODULE NextRunsProofs ---------------------------
(***************************************************************************)
(* The next runs that are listed of an expression, for all expressions,    *)
(* all dates and all zones: what is refused never runs; and where clocks   *)
(* are not set back, and only ever skip a full hour, nothing is missed.    *)
(***************************************************************************)
EXTENDS NextRuns, CronProofs

(***************************************************************************)
(* What the fields mean and what _field() computes are the same.           *)
(***************************************************************************)
LEMMA MultiplesOf ==
    ASSUME NEW n \in Nat, NEW s \in Nat \ {0}
    PROVE  n % s = 0 <=> \E k \in 0..n : n = k * s
<1>1. ASSUME n % s = 0
      PROVE  \E k \in 0..n : n = k * s
  <2>1. PICK k \in Int : k = n \div s
    BY SMT
  <2>2. n = k * s /\ k >= 0
    BY <1>1, <2>1, SMT
  <2>3. k <= k * s
    BY <2>2, SMT
  <2> QED
    BY <2>2, <2>3, SMT
<1>2. ASSUME NEW k \in 0..n, n = k * s
      PROVE  n % s = 0
  <2>1. (k * s) % s = 0
    BY SMT
  <2> QED
    BY <1>2, <2>1
<1> QED
  BY <1>1, <1>2

LEMMA ReachesWhat ==
    ASSUME NEW from \in Nat, NEW s \in Nat \ {0}, NEW v \in Nat
    PROVE  Reaches(from, s, v) <=> from <= v /\ (v - from) % s = 0
<1>1. ASSUME from <= v, (v - from) % s = 0
      PROVE  \E k \in 0..v : v = from + k * s
  <2>1. PICK n \in Nat : n = v - from
    BY <1>1
  <2>2. PICK k \in 0..n : n = k * s
    BY <1>1, <2>1, MultiplesOf
  <2>3. k \in 0..v /\ v = from + k * s
    BY <2>1, <2>2, SMT
  <2> QED
    BY <2>3
<1>2. ASSUME NEW k \in 0..v, v = from + k * s
      PROVE  from <= v /\ (v - from) % s = 0
  <2>1. (k * s) % s = 0 /\ k * s >= 0 /\ k * s \in Int
    BY SMT
  <2>2. v - from = k * s /\ from <= v
    BY <1>2, <2>1, SMT
  <2> QED
    BY <2>1, <2>2
<1> QED
  BY <1>1, <1>2 DEF Reaches

LEMMA PartSays ==
    ASSUME NEW p, NEW low \in Nat, NEW high \in Nat, ValidPart(p, low, high), NEW v \in low..high
    PROVE  Says(p, v, low) <=>
               v \in FirstOf(p, low)..LastOf(p, high) /\ (v - FirstOf(p, low)) % p.step = 0
<1>1. v \in Nat
  OBVIOUS
<1>2. PICK s \in Nat \ {0} : s = p.step
  BY DEF ValidPart
<1>3. CASE p = Star
  <2>1. (v - low) % 1 = 0
    BY SMT
  <2>2. p.form = "any" /\ p.step = 1
    BY <1>3 DEF Star
  <2> QED
    BY <2>1, <2>2 DEF Says, FirstOf, LastOf
<1>4. CASE p.form = "every"
  <2>1. Reaches(low, s, v) <=> (v - low) % s = 0
    BY <1>1, ReachesWhat
  <2>2. Says(p, v, low) <=> Reaches(low, s, v)
    BY <1>2, <1>4 DEF Says
  <2> QED
    BY <1>2, <1>4, <2>1, <2>2 DEF FirstOf, LastOf
<1>5. CASE (p.form = "at" /\ p.from \in low..high /\ p.to = p.from)
           \/ (p.form = "span" /\ p.from \in low..high /\ p.to \in p.from..high)
  <2>1. PICK from \in Nat : from = p.from /\ from \in low..high
    BY <1>5
  <2>2. PICK to \in Nat : to = p.to /\ to \in from..high
    BY <1>5, <2>1
  <2>3. Reaches(from, s, v) <=> from <= v /\ (v - from) % s = 0
    BY <1>1, ReachesWhat
  <2>4. CASE p.form = "at" /\ s = 1
    <3>1. Says(p, v, low) <=> v = from
      BY <1>2, <2>1, <2>4 DEF Says
    <3>2. to = from
      BY <1>5, <2>1, <2>2, <2>4
    <3>3. FirstOf(p, low) = from /\ LastOf(p, high) = from
      BY <1>2, <2>1, <2>2, <2>4, <3>2 DEF FirstOf, LastOf
    <3>4. (from - from) % 1 = 0
      BY SMT
    <3> QED
      BY <1>2, <2>4, <3>1, <3>3, <3>4
  <2>5. CASE p.form = "at" /\ s > 1
    <3>1. Says(p, v, low) <=> Reaches(from, s, v)
      BY <1>2, <2>1, <2>5 DEF Says
    <3>2. FirstOf(p, low) = from /\ LastOf(p, high) = high
      BY <1>2, <2>1, <2>5 DEF FirstOf, LastOf
    <3> QED
      BY <1>2, <2>3, <3>1, <3>2
  <2>6. CASE p.form = "span"
    <3>1. Says(p, v, low) <=> v <= to /\ Reaches(from, s, v)
      BY <1>2, <2>1, <2>2, <2>6 DEF Says
    <3>2. FirstOf(p, low) = from /\ LastOf(p, high) = to
      BY <2>1, <2>2, <2>6 DEF FirstOf, LastOf
    <3> QED
      BY <1>2, <2>3, <3>1, <3>2
  <2> QED
    BY <1>2, <1>5, <2>4, <2>5, <2>6
<1> QED
  BY <1>3, <1>4, <1>5 DEF ValidPart

LEMMA FieldHolds ==
    ASSUME NEW parts, NEW low \in Nat, NEW high \in Nat, \A p \in parts : ValidPart(p, low, high),
           NEW v \in low..high
    PROVE  Holds(parts, v, low) <=> v \in Values(parts, low, high)
BY PartSays DEF Holds, Values

LEMMA StarHolds ==
    ASSUME NEW v, NEW low
    PROVE  Holds({Star}, v, low)
BY DEF Holds, Says, Star

LEMMA TimeIsTime ==
    ASSUME NEW c, Valid(c), NEW t \in Int
    PROVE  TimeHolds(c, t) <=> (t % Minutes) \div 60 \in ValuesOf(c, "hour") /\ t % 60 \in ValuesOf(c, "minute")
<1>1. PICK h \in 0..23 : h = (t % Minutes) \div 60
  BY SMT DEF Minutes
<1>2. PICK m \in 0..59 : m = t % 60
  BY SMT
<1>3. Holds(c.hour, h, 0) <=> h \in Values(c["hour"], 0, 23)
  BY Fields, FieldHolds
<1>4. Holds(c.minute, m, 0) <=> m \in Values(c["minute"], 0, 59)
  BY Fields, FieldHolds
<1> QED
  BY <1>1, <1>2, <1>3, <1>4, Fields DEF TimeHolds

LEMMA WeekdayIsWeekday ==
    ASSUME NEW c, Valid(c), NEW d \in Int
    PROVE  WeekdayHolds(c, d) <=> WeekdayOf(d) \in {v % 7 : v \in ValuesOf(c, "weekday")}
<1>1. PICK w \in 0..6 : w = WeekdayOf(d)
  BY MonthsAndDays
<1>2. Values(c["weekday"], 0, 7) \subseteq 0..7
  BY Fields, ValuesAreWithin
<1>3. w \in {v % 7 : v \in Values(c["weekday"], 0, 7)} <=>
          w \in Values(c["weekday"], 0, 7) \/ (w = 0 /\ 7 \in Values(c["weekday"], 0, 7))
  <2>1. \A v \in 0..7 : v % 7 = w <=> v = w \/ (w = 0 /\ v = 7)
    BY SMT
  <2> QED
    BY <1>2, <2>1
<1>4. w \in 0..7 /\ 7 \in 0..7
  BY SMT
<1>5. /\ Holds(c.weekday, w, 0) <=> w \in Values(c["weekday"], 0, 7)
      /\ Holds(c.weekday, 7, 0) <=> 7 \in Values(c["weekday"], 0, 7)
  BY <1>4, Fields, FieldHolds
<1> QED
  BY <1>1, <1>3, <1>5, Fields DEF WeekdayHolds

LEMMA DayIsDay ==
    ASSUME NEW c, Valid(c), NEW d \in Int
    PROVE  DayHolds(c, d) <=> DayMatches(c, d)
<1>1. Holds(c.month, MonthOf(d), 1) <=> MonthOf(d) \in ValuesOf(c, "month")
  BY MonthsAndDays, Fields, FieldHolds
<1>2. Holds(c.day, MonthDayOf(d), 1) <=> MonthDayOf(d) \in ValuesOf(c, "day")
  BY MonthsAndDays, Fields, FieldHolds
<1>3. WeekdayHolds(c, d) <=> WeekdayOf(d) \in {v % 7 : v \in ValuesOf(c, "weekday")}
  BY WeekdayIsWeekday
<1>4. c.day = {Star} => Holds(c.day, MonthDayOf(d), 1)
  BY StarHolds
<1>5. c.weekday = {Star} => WeekdayHolds(c, d)
  BY StarHolds DEF WeekdayHolds
<1> QED
  BY <1>1, <1>2, <1>3, <1>4, <1>5, Zenon DEF DayHolds, DayMatches

LEMMA RunsIsRuns ==
    ASSUME NEW c, Valid(c), NEW t \in Int
    PROVE  RunsAt(c, t) <=> DayHolds(c, DayOf(t)) /\ TimeHolds(c, t)
<1>1. DayOf(t) \in Int
  BY SMT DEF DayOf, Minutes
<1> QED
  BY <1>1, DayIsDay, TimeIsTime DEF RunsAt

-----------------------------------------------------------------------------
(***************************************************************************)
(* What is listed was searched for: after the run before it, in the zone.  *)
(***************************************************************************)
Listing ==
    /\ cron \in Crons /\ zone \in Zones /\ after \in Int /\ LocalOf(zone, after) \in Nat
    /\ next = NextRun(cron, zone, after)

LEMMA ConstantFacts ==
    /\ \A c \in Crons : Valid(c)
    /\ \A z \in Zones : z.change \in Int /\ z.before \in Int /\ z.after \in Int
    /\ Never \notin Int
  BY NextRunsAssumption

(* The run that is found, in local time and in UTC.                        *)
LEMMA FoundLocally ==
    ASSUME NEW c, Valid(c), NEW z, z.change \in Int, z.before \in Int, z.after \in Int, Never \notin Int,
           NEW t, LocalOf(z, t) \in Nat, NextRun(c, z, t) # Never
    PROVE  \E local \in Nat :
               /\ NextAfter(c, LocalOf(z, t)) = local /\ NextRun(c, z, t) = UtcOf(z, local)
               /\ local > LocalOf(z, t) /\ RunsAt(c, local)
               /\ \A u \in Int : LocalOf(z, t) < u /\ u < local => ~RunsAt(c, u)
<1>1. NextAfter(c, LocalOf(z, t)) # Never
  BY DEF NextRun
<1>2. NextRun(c, z, t) = UtcOf(z, NextAfter(c, LocalOf(z, t)))
  BY <1>1 DEF NextRun
<1> QED
  BY <1>1, <1>2, NextAfterIsFirst

LEMMA BackToLocal ==
    ASSUME NEW z, z.change \in Int, z.before \in Int, z.after \in Int, NEW local \in Int
    PROVE  /\ UtcOf(z, local) \in Int /\ LocalOf(z, UtcOf(z, local)) \in Int
           /\ LocalOf(z, UtcOf(z, local)) >= local
<1>1. PICK change \in Int, before \in Int, later \in Int :
          change = z.change /\ before = z.before /\ later = z.after
  OBVIOUS
<1>2. CASE before > later
  BY <1>1, <1>2, SMT DEF LocalOf, UtcOf
<1>3. CASE ~(before > later)
  BY <1>1, <1>3, SMT DEF LocalOf, UtcOf
<1> QED
  BY <1>2, <1>3

THEOREM ListingIsInvariant == Spec => []Listing
<1>1. Init => Listing
  BY NextRunsAssumption DEF Init, Listing
<1>2. Listing /\ [Lists]_vars => Listing'
  <2> SUFFICES ASSUME Listing, [Lists]_vars PROVE Listing'
    OBVIOUS
  <2>1. CASE UNCHANGED vars
    BY <2>1 DEF vars, Listing
  <2>2. CASE Lists
    <3>1. cron \in Crons /\ zone \in Zones /\ next = NextRun(cron, zone, after) /\ LocalOf(zone, after) \in Nat
      BY DEF Listing
    <3>2. Valid(cron) /\ zone.change \in Int /\ zone.before \in Int /\ zone.after \in Int
      BY <3>1, ConstantFacts
    <3>3. next # Never /\ after' = next /\ next' = NextRun(cron, zone, next) /\ cron' = cron /\ zone' = zone
      BY <2>2 DEF Lists
    <3>4. PICK local \in Nat : next = UtcOf(zone, local)
      BY <3>1, <3>2, <3>3, FoundLocally, ConstantFacts
    <3>5. next \in Int /\ LocalOf(zone, next) \in Nat
      BY <3>2, <3>4, BackToLocal
    <3> QED
      BY <3>1, <3>3, <3>5 DEF Listing
  <2> QED
    BY <2>1, <2>2
<1> QED
  BY <1>1, <1>2, PTL DEF Spec

(***************************************************************************)
(* "This schedule never runs": what is refused runs on no day at all, so   *)
(* that the years that are looked at are enough.                           *)
(***************************************************************************)
THEOREM RefusedForGood == Spec => []NeverIsNever
<1>1. Listing => NeverIsNever
  <2> SUFFICES ASSUME Listing, next = Never, NEW d \in DayOf(after)..(DayOf(after) + 146097)
               PROVE  ~DayHolds(cron, d)
    BY DEF NeverIsNever
  <2>1. cron \in Crons /\ zone \in Zones /\ next = NextRun(cron, zone, after) /\ LocalOf(zone, after) \in Nat
    BY DEF Listing
  <2>2. Valid(cron) /\ zone.change \in Int /\ zone.before \in Int /\ zone.after \in Int
    BY <2>1, ConstantFacts
  <2>3. NextAfter(cron, LocalOf(zone, after)) = Never
    <3>1. CASE NextAfter(cron, LocalOf(zone, after)) # Never
      <4>1. NextAfter(cron, LocalOf(zone, after)) \in Int
        BY <2>1, <2>2, <3>1, NextAfterIsFirst
      <4>2. next = UtcOf(zone, NextAfter(cron, LocalOf(zone, after)))
        BY <2>1, <3>1 DEF NextRun
      <4>3. next \in Int
        BY <2>2, <4>1, <4>2, BackToLocal
      <4> QED
        BY <4>3, ConstantFacts
    <3> QED
      BY <3>1
  <2>4. d \in Int
    BY SMT DEF DayOf, Minutes, Listing
  <2>5. ~DayMatches(cron, d)
    BY <2>1, <2>2, <2>3, <2>4, RefusedNeverRuns, ConstantFacts
  <2> QED
    BY <2>2, <2>4, <2>5, DayIsDay
<1> QED
  BY <1>1, ListingIsInvariant, PTL

(***************************************************************************)
(* Zones whose clocks do not change, or skip a full hour, as they do in    *)
(* spring.  Where an hour repeats, a run can be listed before the last.    *)
(***************************************************************************)
SkipsAnHour(z) == z.after = z.before + 60 /\ (z.change + z.before) % 60 = 0
OnlyForward == \A z \in Zones : z.after = z.before \/ SkipsAnHour(z)

(* Local times follow each other as those of UTC do.                       *)
LEMMA LocalTimesFollow ==
    ASSUME NEW z, SetsClocksForward(z), NEW t \in Int, NEW u \in Int, t < u
    PROVE  LocalOf(z, t) \in Int /\ LocalOf(z, u) \in Int /\ LocalOf(z, t) < LocalOf(z, u)
<1>1. PICK change \in Int, before \in Int, later \in Int :
          change = z.change /\ before = z.before /\ later = z.after /\ before <= later
  BY DEF SetsClocksForward
<1> QED
  BY <1>1, SMT DEF LocalOf

(* A local time that is skipped is read an hour later; the others as they  *)
(* are.                                                                    *)
WasSkipped(z, local) ==
    /\ SkipsAnHour(z)
    /\ z.change + z.before <= local /\ local < z.change + z.after
    /\ UtcOf(z, local) = local - z.before /\ UtcOf(z, local) >= z.change
    /\ LocalOf(z, UtcOf(z, local)) = local + 60

LEMMA LocalOrSkipped ==
    ASSUME NEW z, z.change \in Int, z.before \in Int, z.after \in Int, NEW local \in Int,
           z.after = z.before \/ SkipsAnHour(z)
    PROVE  LocalOf(z, UtcOf(z, local)) = local \/ WasSkipped(z, local)
<1>1. PICK change \in Int, before \in Int, later \in Int :
          change = z.change /\ before = z.before /\ later = z.after
  OBVIOUS
<1>2. CASE later = before
  BY <1>1, <1>2, SMT DEF LocalOf, UtcOf
<1>3. CASE SkipsAnHour(z)
  <2>1. later = before + 60
    BY <1>1, <1>3 DEF SkipsAnHour
  <2>2. CASE local < change + before
    BY <1>1, <2>1, <2>2, SMT DEF LocalOf, UtcOf
  <2>3. CASE change + before <= local /\ local < change + later
    <3>1. UtcOf(z, local) = local - before
      BY <1>1, <2>1, <2>3, SMT DEF UtcOf
    <3>2. local - before >= change
      BY <2>3, SMT
    <3>3. LocalOf(z, local - before) = local + 60
      BY <1>1, <2>1, <3>2, SMT DEF LocalOf
    <3> QED
      BY <1>1, <1>3, <2>3, <3>1, <3>2, <3>3 DEF WasSkipped
  <2>4. CASE local >= change + later
    BY <1>1, <2>1, <2>4, SMT DEF LocalOf, UtcOf
  <2> QED
    BY <2>2, <2>3, <2>4, SMT
<1> QED
  BY <1>1, <1>2, <1>3

(* Minutes of one hour later, before the same minute: they run in the hour *)
(* before too.                                                             *)
LEMMA SameHour ==
    ASSUME NEW c, NEW hour \in Int, hour % 60 = 0, NEW local \in Int, NEW u \in Int,
           hour <= local, local < hour + 60, hour <= u, u < hour + 60,
           RunsAt(c, local), RunsAt(c, u + 60)
    PROVE  RunsAt(c, u)
<1>1. DayOf(u) = DayOf(local) /\ (u % Minutes) \div 60 = (local % Minutes) \div 60
  BY SMT DEF DayOf, Minutes
<1>2. u % 60 = (u + 60) % 60
  BY SMT
<1> QED
  BY <1>1, <1>2 DEF RunsAt

LEMMA NothingIsMissed ==
    ASSUME NEW c, NEW z, z.change \in Int, z.before \in Int, z.after \in Int,
           z.after = z.before \/ SkipsAnHour(z), NEW a \in Int, NEW local \in Int,
           local > LocalOf(z, a), RunsAt(c, local),
           \A u \in Int : LocalOf(z, a) < u /\ u < local => ~RunsAt(c, u),
           NEW t \in Int, a < t, t < UtcOf(z, local)
    PROVE  ~RunsAt(c, LocalOf(z, t))
<1>1. SetsClocksForward(z)
  BY SMT DEF SetsClocksForward, SkipsAnHour
<1>2. UtcOf(z, local) \in Int
  BY BackToLocal
<1>3. LocalOf(z, a) \in Int /\ LocalOf(z, t) \in Int /\ LocalOf(z, a) < LocalOf(z, t)
  BY <1>1, LocalTimesFollow
<1>4. LocalOf(z, t) < LocalOf(z, UtcOf(z, local))
  BY <1>1, <1>2, LocalTimesFollow
<1>5. CASE LocalOf(z, t) < local
  BY <1>3, <1>5
<1>6. CASE WasSkipped(z, local) /\ ~(LocalOf(z, t) < local)
  <2>1. PICK change \in Int, before \in Int :
            change = z.change /\ before = z.before /\ z.after = before + 60 /\ (change + before) % 60 = 0
    BY <1>6 DEF WasSkipped, SkipsAnHour
  <2>2. /\ change + before <= local /\ local < change + before + 60
        /\ LocalOf(z, UtcOf(z, local)) = local + 60
    BY <1>6, <2>1, SMT DEF WasSkipped
  <2> DEFINE hour == change + before
             u == LocalOf(z, t) - 60
  <2>3. hour \in Int /\ u \in Int /\ hour % 60 = 0
    BY <1>3, <2>1
  <2>4. t >= change /\ LocalOf(z, t) = t + before + 60
    BY <1>6, <2>1, <2>2, SMT DEF LocalOf
  <2>5. a < change /\ LocalOf(z, a) = a + before
    BY <2>1, <2>2, SMT DEF LocalOf
  <2>6. hour <= u /\ u < local /\ LocalOf(z, a) < u /\ u + 60 = LocalOf(z, t)
    BY <1>3, <1>4, <2>2, <2>4, <2>5, SMT
  <2>7. ~RunsAt(c, u)
    BY <2>3, <2>6
  <2> HIDE DEF hour, u
  <2>8. hour <= local /\ local < hour + 60 /\ u < hour + 60
    BY <2>2, <2>3, <2>6, SMT DEF hour
  <2>9. RunsAt(c, u + 60) => RunsAt(c, u)
    BY <2>3, <2>6, <2>8, SameHour
  <2> QED
    BY <2>6, <2>7, <2>9
<1> QED
  BY <1>3, <1>4, <1>5, <1>6, LocalOrSkipped

(***************************************************************************)
(* "The next run after `after_utc`" (next_run): it is later, the           *)
(* expression holds then, and at no minute in between.                     *)
(***************************************************************************)
THEOREM ListedInOrder == ASSUME OnlyForward PROVE Spec => []NextIsFirst
<1>1. Listing => NextIsFirst
  <2> SUFFICES ASSUME Listing, next # Never PROVE NextIsFirst
    BY DEF NextIsFirst
  <2>1. /\ cron \in Crons /\ zone \in Zones /\ next = NextRun(cron, zone, after)
        /\ after \in Int /\ LocalOf(zone, after) \in Nat
    BY DEF Listing
  <2>2. /\ Valid(cron) /\ zone.change \in Int /\ zone.before \in Int /\ zone.after \in Int
        /\ zone.after = zone.before \/ SkipsAnHour(zone)
    BY <2>1, ConstantFacts DEF OnlyForward
  <2>3. PICK found \in Nat :
            /\ next = UtcOf(zone, found) /\ found > LocalOf(zone, after) /\ RunsAt(cron, found)
            /\ \A u \in Int : LocalOf(zone, after) < u /\ u < found => ~RunsAt(cron, u)
    BY <2>1, <2>2, FoundLocally, ConstantFacts
  <2>4. next \in Int /\ LocalOf(zone, next) \in Int
    BY <2>2, <2>3, BackToLocal
  <2>5. next > after
    <3>1. SetsClocksForward(zone)
      BY <2>2, SMT DEF SetsClocksForward, SkipsAnHour
    <3> QED
      BY <2>1, <2>3, <3>1, LaterLocallyIsLater
  <2>6. \/ DayHolds(cron, DayOf(LocalOf(zone, next))) /\ TimeHolds(cron, LocalOf(zone, next))
        \/ /\ next >= zone.change /\ Skipped(next) < zone.change + zone.after
           /\ DayHolds(cron, DayOf(Skipped(next))) /\ TimeHolds(cron, Skipped(next))
    <3>1. DayHolds(cron, DayOf(found)) /\ TimeHolds(cron, found)
      BY <2>2, <2>3, RunsIsRuns
    <3>2. CASE LocalOf(zone, next) = found
      BY <3>1, <3>2
    <3>3. CASE WasSkipped(zone, found)
      <4>1. Skipped(next) = found
        BY <2>2, <2>3, <3>3, SMT DEF Skipped, WasSkipped, SkipsAnHour
      <4> QED
        BY <2>3, <3>1, <3>3, <4>1 DEF WasSkipped
    <3> QED
      BY <2>2, <2>3, <3>2, <3>3, LocalOrSkipped
  <2>7. ASSUME NEW d, DayHolds(cron, d), NEW t \in MinutesOf(d), after < t, t < next
        PROVE  ~TimeHolds(cron, LocalOf(zone, t))
    <3>1. t \in Int /\ DayOf(LocalOf(zone, t)) = d
      BY DEF MinutesOf
    <3>2. ~RunsAt(cron, LocalOf(zone, t))
      BY <2>1, <2>2, <2>3, <2>7, <3>1, NothingIsMissed
    <3>3. LocalOf(zone, t) \in Int
      BY <2>2, <3>1, SMT DEF LocalOf
    <3> QED
      BY <2>2, <2>7, <3>1, <3>2, <3>3, RunsIsRuns
  <2> QED
    BY <2>5, <2>6, <2>7 DEF NextIsFirst
<1> QED
  BY <1>1, ListingIsInvariant, PTL
=============================================================================
