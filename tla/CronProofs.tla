----------------------------- MODULE CronProofs -----------------------------
(***************************************************************************)
(* What next_after() and next_run() promise, for every valid expression,   *)
(* every time and every zone whose clocks are not set back: the run that   *)
(* is found is the first; and what is refused as never running never runs. *)
(***************************************************************************)
EXTENDS Cron, WellFoundedInduction, TLAPS

(***************************************************************************)
(* The least-number principle, from the library's well-founded order.      *)
(***************************************************************************)
Below == {p \in Nat \X Nat : p[1] < p[2]}

LEMMA BelowIsWellFounded == IsWellFoundedOn(Below, Nat)
<1>1. OpToRel(<, Nat) = Below
  BY DEF OpToRel, Below
<1> QED
  BY <1>1, NatLessThanWellFounded

LEMMA EarliestExists ==
    ASSUME NEW S, S \subseteq Nat, S # {}
    PROVE  Earliest(S) \in S /\ \A t \in S : Earliest(S) <= t
<1>1. PICK n \in S : \A m \in S : ~(<<m, n>> \in Below)
  BY BelowIsWellFounded, WFMin
<1>2. \A m \in S : n <= m
  <2> TAKE m \in S
  <2>1. <<m, n>> \in Nat \X Nat
    OBVIOUS
  <2>2. <<m, n>>[1] = m /\ <<m, n>>[2] = n
    OBVIOUS
  <2>3. ~(m < n)
    BY <1>1, <2>1, <2>2 DEF Below
  <2> QED
    BY <2>3
<1> QED
  BY <1>2 DEF Earliest

(***************************************************************************)
(* A field stays within its limits, so a day's times stay within the day.  *)
(***************************************************************************)
LEMMA ValuesAreWithin ==
    ASSUME NEW parts, NEW low \in Nat, NEW high \in Nat,
           \A p \in parts : ValidPart(p, low, high)
    PROVE  Values(parts, low, high) \subseteq low..high
<1> SUFFICES ASSUME NEW p \in parts, NEW v \in FirstOf(p, low)..LastOf(p, high)
             PROVE  v \in low..high
  BY DEF Values
<1>1. ValidPart(p, low, high)
  OBVIOUS
<1>2. CASE p.form \in {"any", "every"}
  BY <1>2 DEF FirstOf, LastOf
<1>3. CASE p.form = "at" \/ p.form = "span"
  BY <1>1, <1>3 DEF FirstOf, LastOf, ValidPart, Star
<1> QED
  BY <1>1, <1>2, <1>3 DEF ValidPart, Star

LEMMA ValuesExist ==
    ASSUME NEW parts, parts # {}, NEW low \in Nat, NEW high \in Nat, low <= high,
           \A p \in parts : ValidPart(p, low, high)
    PROVE  Values(parts, low, high) # {}
<1>1. PICK p \in parts : ValidPart(p, low, high)
  OBVIOUS
<1>2. FirstOf(p, low) \in FirstOf(p, low)..LastOf(p, high)
  <2>1. CASE p.form \in {"any", "every"}
    BY <2>1 DEF FirstOf, LastOf
  <2>2. CASE p.form = "at" \/ p.form = "span"
    BY <1>1, <2>2 DEF FirstOf, LastOf, ValidPart, Star
  <2> QED
    BY <1>1, <2>1, <2>2 DEF ValidPart, Star
<1>3. PICK v \in Int : v = FirstOf(p, low)
  BY <1>2
<1>4. (v - FirstOf(p, low)) % p.step = 0
  <2>1. p.step \in Nat \ {0}
    BY <1>1 DEF ValidPart
  <2>2. \A n \in Nat \ {0} : 0 % n = 0
    OBVIOUS
  <2>3. v - FirstOf(p, low) = 0
    BY <1>3
  <2> QED
    BY <2>1, <2>2, <2>3
<1> QED
  BY <1>2, <1>3, <1>4 DEF Values

LEMMA Fields ==
    ASSUME NEW c, Valid(c)
    PROVE  /\ ValuesOf(c, "hour") = Values(c["hour"], 0, 23) /\ c["hour"] # {}
           /\ ValuesOf(c, "minute") = Values(c["minute"], 0, 59) /\ c["minute"] # {}
           /\ ValuesOf(c, "day") = Values(c["day"], 1, 31)
           /\ ValuesOf(c, "month") = Values(c["month"], 1, 12)
           /\ ValuesOf(c, "weekday") = Values(c["weekday"], 0, 7)
           /\ \A p \in c["hour"] : ValidPart(p, 0, 23)
           /\ \A p \in c["minute"] : ValidPart(p, 0, 59)
           /\ \A p \in c["day"] : ValidPart(p, 1, 31)
           /\ \A p \in c["month"] : ValidPart(p, 1, 12)
           /\ \A p \in c["weekday"] : ValidPart(p, 0, 7)
<1>1. \A f \in {"hour", "minute", "day", "month", "weekday"} :
          f \in DOMAIN Limits /\ c[f] # {} /\ \A p \in c[f] : ValidPart(p, Limits[f][1], Limits[f][2])
  BY DEF Valid, Limits
<1>2. /\ Limits["hour"][1] = 0 /\ Limits["hour"][2] = 23
      /\ Limits["minute"][1] = 0 /\ Limits["minute"][2] = 59
      /\ Limits["day"][1] = 1 /\ Limits["day"][2] = 31
      /\ Limits["month"][1] = 1 /\ Limits["month"][2] = 12
      /\ Limits["weekday"][1] = 0 /\ Limits["weekday"][2] = 7
  BY DEF Limits
<1> QED
  BY <1>1, <1>2 DEF ValuesOf

LEMMA HoursAndMinutes ==
    ASSUME NEW c, Valid(c)
    PROVE  /\ ValuesOf(c, "hour") \subseteq 0..23 /\ ValuesOf(c, "hour") # {}
           /\ ValuesOf(c, "minute") \subseteq 0..59 /\ ValuesOf(c, "minute") # {}
<1>1. Values(c["hour"], 0, 23) \subseteq 0..23 /\ Values(c["minute"], 0, 59) \subseteq 0..59
  BY Fields, ValuesAreWithin
<1>2. Values(c["hour"], 0, 23) # {} /\ Values(c["minute"], 0, 59) # {}
  BY Fields, ValuesExist
<1> QED
  BY <1>1, <1>2, Fields

(***************************************************************************)
(* The times at which an expression runs, in local time: the candidates of *)
(* the days it matches.                                                    *)
(***************************************************************************)
RunsAt(c, t) ==
    /\ DayMatches(c, DayOf(t))
    /\ (t % Minutes) \div 60 \in ValuesOf(c, "hour") /\ t % 60 \in ValuesOf(c, "minute")

LEMMA CandidatesRun ==
    ASSUME NEW c, Valid(c), NEW d \in Int, NEW start \in Int, NEW t \in Candidates(c, d, start)
    PROVE  t \in Int /\ start <= t /\ DayOf(t) = d /\ RunsAt(c, t)
<1>1. DayMatches(c, d)
  BY DEF Candidates
<1>2. PICK h \in ValuesOf(c, "hour"), m \in ValuesOf(c, "minute") :
          t = Minutes * d + 60 * h + m /\ t >= start
  BY <1>1 DEF Candidates
<1>3. h \in 0..23 /\ m \in 0..59
  BY HoursAndMinutes
<1>4. t \in Int /\ DayOf(t) = d /\ (t % Minutes) \div 60 = h /\ t % 60 = m
  BY <1>2, <1>3, SMT DEF Minutes, DayOf
<1> QED
  BY <1>1, <1>2, <1>4 DEF RunsAt

LEMMA RunsAreCandidates ==
    ASSUME NEW c, NEW start \in Int, NEW t \in Int, start <= t, RunsAt(c, t)
    PROVE  t \in Candidates(c, DayOf(t), start)
<1>1. t = Minutes * DayOf(t) + 60 * ((t % Minutes) \div 60) + (t % 60)
  BY SMT DEF Minutes, DayOf
<1> QED
  BY <1>1 DEF RunsAt, Candidates

LEMMA AnyDayHasCandidates ==
    ASSUME NEW c, Valid(c), NEW d \in Int, NEW start \in Int, start <= Minutes * d, DayMatches(c, d)
    PROVE  Candidates(c, d, start) # {}
<1>1. PICK h \in ValuesOf(c, "hour"), m \in ValuesOf(c, "minute") : TRUE
  BY HoursAndMinutes
<1>2. h \in 0..23 /\ m \in 0..59
  BY HoursAndMinutes
<1>3. Minutes * d + 60 * h + m >= start
  BY <1>2, SMT DEF Minutes
<1> QED
  BY <1>3 DEF Candidates

(***************************************************************************)
(* The search: once a day has candidates, the first of the first such day. *)
(***************************************************************************)
LEMMA SearchFinds ==
    ASSUME NEW c, Valid(c), NEW after \in Nat, NEW found \in 0..(MaxDays - 1),
           Candidates(c, DayOf(after + 1) + found, after + 1) # {}
    PROVE  /\ NextAfter(c, after) \in Nat /\ NextAfter(c, after) > after
           /\ RunsAt(c, NextAfter(c, after))
           /\ \A t \in Int : after < t /\ t < NextAfter(c, after) => ~RunsAt(c, t)
<1> DEFINE start == after + 1
           Runs(i) == Candidates(c, DayOf(start) + i, start)
           days == {i \in 0..(MaxDays - 1) : Runs(i) # {}}
           first == CHOOSE i \in 0..(MaxDays - 1) : Runs(i) # {} /\ \A k \in 0..(i - 1) : Runs(k) = {}
<1>1. MaxDays - 1 \in Nat /\ start \in Nat /\ DayOf(start) \in Nat
  BY DEF MaxDays, DayOf, Minutes
<1>2. days # {} /\ NextAfter(c, after) = Earliest(Runs(first))
  BY DEF NextAfter
<1>3. first \in 0..(MaxDays - 1) /\ Runs(first) # {} /\ \A k \in 0..(first - 1) : Runs(k) = {}
  <2>1. days \subseteq Nat
    BY <1>1
  <2>2. PICK i \in days : \A k \in days : i <= k
    BY <1>2, <2>1, EarliestExists
  <2>3. \A k \in 0..(i - 1) : k \in 0..(MaxDays - 1) /\ ~(i <= k)
    BY <1>1, <2>2
  <2>4. \A k \in 0..(i - 1) : Runs(k) = {}
    BY <2>2, <2>3
  <2> HIDE DEF Runs
  <2> QED
    BY <2>2, <2>4
<1> HIDE DEF first
<1>4. DayOf(start) + first \in Int
  BY <1>1, <1>3
<1>5. \A t \in Runs(first) : t \in Int /\ start <= t /\ DayOf(t) = DayOf(start) + first /\ RunsAt(c, t)
  BY <1>1, <1>4, CandidatesRun
<1>6. Runs(first) \subseteq Nat
  BY <1>1, <1>5
<1> DEFINE next == NextAfter(c, after)
<1>7. next \in Runs(first) /\ \A t \in Runs(first) : next <= t
  BY <1>2, <1>3, <1>6, EarliestExists
<1> HIDE DEF next, Runs
<1>8. next \in Nat /\ next > after /\ DayOf(next) = DayOf(start) + first /\ RunsAt(c, next)
  BY <1>1, <1>5, <1>6, <1>7
<1>9. ASSUME NEW t \in Int, after < t, t < next, RunsAt(c, t)
      PROVE  FALSE
  <2>1. start <= t
    BY <1>9
  <2>2. PICK i \in Int : i = DayOf(t) - DayOf(start)
    BY <1>1, SMT DEF DayOf, Minutes
  <2>3. 0 <= i /\ i <= first
    BY <1>1, <1>3, <1>8, <1>9, <2>1, <2>2, SMT DEF DayOf, Minutes
  <2>4. DayOf(t) = DayOf(start) + i
    BY <1>1, <2>2, SMT DEF DayOf, Minutes
  <2>5. t \in Runs(i)
    BY <1>1, <1>9, <2>1, <2>4, RunsAreCandidates DEF Runs
  <2>6. CASE i = first
    BY <1>7, <1>8, <1>9, <2>5, <2>6
  <2>7. CASE i < first
    <3>1. i \in 0..(first - 1)
      BY <1>3, <2>3, <2>7
    <3> QED
      BY <1>3, <2>5, <3>1
  <2> QED
    BY <1>3, <2>3, <2>6, <2>7
<1> QED
  BY <1>8, <1>9 DEF next

(***************************************************************************)
(* "The first time strictly after `after`" (Cron.next_after): the time     *)
(* found is one of the expression's, strictly later, and no time of the    *)
(* expression that is strictly later is earlier.                           *)
(***************************************************************************)
THEOREM NextAfterIsFirst ==
    ASSUME NEW c, Valid(c), NEW after \in Nat, NextAfter(c, after) # Never
    PROVE  /\ NextAfter(c, after) \in Nat /\ NextAfter(c, after) > after
           /\ RunsAt(c, NextAfter(c, after))
           /\ \A t \in Int : after < t /\ t < NextAfter(c, after) => ~RunsAt(c, t)
<1>1. PICK i \in 0..(MaxDays - 1) : Candidates(c, DayOf(after + 1) + i, after + 1) # {}
  BY DEF NextAfter
<1> QED
  BY <1>1, SearchFinds

-----------------------------------------------------------------------------
(***************************************************************************)
(* The calendar repeats itself every 400 years, 146097 days.  A day is day *)
(* x of year y of such a period; years begin in March, so that only the    *)
(* last day of some years is a leap day.                                   *)
(***************************************************************************)
YearStart(y) == 365 * y + y \div 4 - y \div 100
IsLeap(y) == y % 4 = 3 /\ (y % 100 = 99 => y = 399)
IsYear(y) == y \in 0..399
IsDate(d, e, y, x) ==
    /\ e \in Int /\ IsYear(y) /\ x \in 0..365 /\ (x = 365 => IsLeap(y))
    /\ d = 146097 * e + YearStart(y) + x - 719468

(* Year y is the r-th after q leap years of century c.                     *)
Counts(y, c, q, r) == c \in 0..3 /\ q \in 0..24 /\ r \in 0..3 /\ y = 100 * c + 4 * q + r

LEMMA YearInCenturies ==
    ASSUME NEW y, NEW c, NEW q, NEW r, Counts(y, c, q, r)
    PROVE  /\ IsYear(y) /\ YearStart(y) = 36524 * c + 1461 * q + 365 * r
           /\ IsLeap(y) <=> r = 3 /\ (q # 24 \/ c = 3)
BY DEF Counts, YearStart, IsLeap, IsYear

LEMMA CenturiesOfYear ==
    ASSUME NEW y, IsYear(y)
    PROVE  \E c, q, r : Counts(y, c, q, r)
<1> DEFINE c == y \div 100
           q == (y - 100 * c) \div 4
           r == y - 100 * c - 4 * q
<1>1. y \in Int /\ c \in Int /\ 0 <= c /\ c <= 3 /\ 100 * c <= y /\ y < 100 * c + 100
  BY DEF IsYear
<1> HIDE DEF c
<1>2. q \in Int /\ 0 <= q /\ q <= 24 /\ 4 * q <= y - 100 * c /\ y - 100 * c < 4 * q + 4
  BY <1>1
<1> HIDE DEF q
<1>3. r \in Int /\ 0 <= r /\ r <= 3 /\ y = 100 * c + 4 * q + r
  BY <1>1, <1>2
<1> HIDE DEF r
<1>4. c \in 0..3 /\ q \in 0..24 /\ r \in 0..3
  BY <1>1, <1>2, <1>3
<1> QED
  BY <1>3, <1>4 DEF Counts

LEMMA YearsStart ==
    ASSUME NEW y, IsYear(y)
    PROVE  y \in Int /\ 0 <= y /\ y <= 399 /\ YearStart(y) \in Int
<1>1. PICK c, q, r : Counts(y, c, q, r)
  BY CenturiesOfYear
<1>2. YearStart(y) = 36524 * c + 1461 * q + 365 * r
  BY <1>1, YearInCenturies
<1>3. c \in Int /\ q \in Int /\ r \in Int
  BY <1>1 DEF Counts
<1> QED
  BY <1>2, <1>3, SMT DEF IsYear

LEMMA DatesAreTyped ==
    ASSUME NEW d, NEW e, NEW y, NEW x, IsDate(d, e, y, x)
    PROVE  /\ e \in Int /\ y \in Int /\ 0 <= y /\ y <= 399 /\ x \in Int /\ 0 <= x /\ x <= 365
           /\ YearStart(y) \in Int /\ d = 146097 * e + YearStart(y) + x - 719468 /\ d \in Int
<1>1. IsYear(y) /\ e \in Int /\ x \in 0..365 /\ d = 146097 * e + YearStart(y) + x - 719468
  BY DEF IsDate
<1> QED
  BY <1>1, YearsStart, SMT

(* Every day is such a date ...                                            *)
LEMMA DaysAreDates ==
    ASSUME NEW d \in Int
    PROVE  \E e, y, x : IsDate(d, e, y, x)
<1> DEFINE e == (d + 719468) \div 146097
           n == (d + 719468) % 146097
<1>1. e \in Int /\ n \in Int /\ 0 <= n /\ n <= 146096 /\ d = 146097 * e + n - 719468
  OBVIOUS
<1> HIDE DEF e, n
<1>2. PICK c \in 0..3 : 36524 * c <= n /\ (c < 3 => n < 36524 * (c + 1))
  <2>1. CASE n < 36524
    BY <1>1, <2>1, SMT
  <2>2. CASE n >= 36524 /\ n < 36524 * 2
    BY <1>1, <2>2, SMT
  <2>3. CASE n >= 36524 * 2 /\ n < 36524 * 3
    BY <1>1, <2>3, SMT
  <2>4. CASE n >= 36524 * 3
    BY <1>1, <2>4, SMT
  <2> QED
    BY <1>1, <2>1, <2>2, <2>3, <2>4, SMT
<1> DEFINE inCentury == n - 36524 * c
           q == inCentury \div 1461
<1>3. inCentury \in Int /\ 0 <= inCentury /\ inCentury <= 36524 /\ (inCentury = 36524 => c = 3)
  BY <1>1, <1>2, SMT
<1> HIDE DEF inCentury
<1>4. q \in Int /\ 0 <= q /\ q <= 24 /\ 1461 * q <= inCentury /\ inCentury < 1461 * (q + 1)
  BY <1>3, SMT
<1> HIDE DEF q
<1> DEFINE left == inCentury - 1461 * q
<1>5. left \in Int /\ 0 <= left /\ left <= 1460 /\ (left = 1460 /\ q = 24 => c = 3)
  BY <1>2, <1>3, <1>4, SMT
<1> HIDE DEF left
<1>6. PICK r \in 0..3, x \in 0..365 : left = 365 * r + x /\ (x = 365 => r = 3)
  <2>1. CASE left < 365
    BY <1>5, <2>1, SMT
  <2>2. CASE left >= 365 /\ left < 730
    BY <1>5, <2>2, SMT
  <2>3. CASE left >= 730 /\ left < 1095
    BY <1>5, <2>3, SMT
  <2>4. CASE left >= 1095
    BY <1>5, <2>4, SMT
  <2> QED
    BY <1>5, <2>1, <2>2, <2>3, <2>4, SMT
<1>7. q \in 0..24
  BY <1>4, SMT
<1> DEFINE y == 100 * c + 4 * q + r
<1>8. Counts(y, c, q, r)
  BY <1>7 DEF Counts
<1> HIDE DEF y
<1>9. /\ IsYear(y) /\ YearStart(y) = 36524 * c + 1461 * q + 365 * r
      /\ IsLeap(y) <=> r = 3 /\ (q # 24 \/ c = 3)
  BY <1>8, YearInCenturies
<1>10. x = 365 => IsLeap(y)
  BY <1>5, <1>6, <1>7, <1>9, SMT
<1>11. d = 146097 * e + YearStart(y) + x - 719468
  BY <1>1, <1>6, <1>7, <1>9, SMT DEF inCentury, left
<1>12. IsDate(d, e, y, x)
  BY <1>1, <1>9, <1>10, <1>11 DEF IsDate
<1> QED
  BY <1>12

(* ... and YearDay gives its day back.                                     *)
LEMMA YearDayOfDate ==
    ASSUME NEW d, NEW e, NEW y, NEW x, IsDate(d, e, y, x)
    PROVE  YearDay(d) = x
<1>1. /\ e \in Int /\ y \in Int /\ x \in Int /\ 0 <= x /\ x <= 365
      /\ d = 146097 * e + YearStart(y) + x - 719468
  BY DatesAreTyped
<1>2. IsYear(y) /\ (x = 365 => IsLeap(y))
  BY DEF IsDate
<1>3. PICK c, q, r : Counts(y, c, q, r)
  BY <1>2, CenturiesOfYear
<1>4. YearStart(y) = 36524 * c + 1461 * q + 365 * r /\ (IsLeap(y) <=> r = 3 /\ (q # 24 \/ c = 3))
  BY <1>3, YearInCenturies
<1>5. c \in 0..3 /\ q \in 0..24 /\ r \in 0..3 /\ y = 100 * c + 4 * q + r
  BY <1>3 DEF Counts
<1> DEFINE n == 36524 * c + 1461 * q + 365 * r + x
<1>6. n \in Int /\ 0 <= n /\ n <= 146096 /\ d = 146097 * e + n - 719468
  BY <1>1, <1>2, <1>4, <1>5, SMT
<1> HIDE DEF n
<1>7. (d + 719468) % 146097 = n
  BY <1>1, <1>6, SMT
<1>8. (n - n \div 1460 + n \div 36524 - n \div 146096) \div 365 = y
  BY <1>1, <1>2, <1>4, <1>5, SMT DEF n
<1>9. n - (365 * y + y \div 4 - y \div 100) = x
  BY <1>1, <1>4, <1>5, SMT DEF n, YearStart
<1> QED
  BY <1>7, <1>8, <1>9 DEF YearDay

LEMMA YearDayIsBounded ==
    ASSUME NEW d \in Int
    PROVE  YearDay(d) \in 0..365
<1>1. PICK e, y, x : IsDate(d, e, y, x)
  BY DaysAreDates
<1>2. YearDay(d) = x
  BY <1>1, YearDayOfDate
<1> QED
  BY <1>1, <1>2 DEF IsDate

LEMMA YearLength ==
    ASSUME NEW y, IsYear(y), y < 399
    PROVE  /\ IsYear(y + 1)
           /\ \/ ~IsLeap(y) /\ YearStart(y + 1) = YearStart(y) + 365
              \/ IsLeap(y) /\ YearStart(y + 1) = YearStart(y) + 366
<1>1. PICK c, q, r : Counts(y, c, q, r)
  BY CenturiesOfYear
<1>2. c \in 0..3 /\ q \in 0..24 /\ r \in 0..3 /\ y = 100 * c + 4 * q + r
  BY <1>1 DEF Counts
<1>3. YearStart(y) = 36524 * c + 1461 * q + 365 * r /\ (IsLeap(y) <=> r = 3 /\ (q # 24 \/ c = 3))
  BY <1>1, YearInCenturies
<1>4. IsYear(y + 1)
  BY <1>2, SMT DEF IsYear
<1>5. CASE r < 3
  <2>1. Counts(y + 1, c, q, r + 1)
    BY <1>2, <1>5, SMT DEF Counts
  <2>2. YearStart(y + 1) = 36524 * c + 1461 * q + 365 * (r + 1)
    BY <2>1, YearInCenturies
  <2> QED
    BY <1>2, <1>3, <1>4, <1>5, <2>2, SMT
<1>6. CASE r = 3 /\ q < 24
  <2>1. Counts(y + 1, c, q + 1, 0)
    BY <1>2, <1>6, SMT DEF Counts
  <2>2. YearStart(y + 1) = 36524 * c + 1461 * (q + 1) + 365 * 0
    BY <2>1, YearInCenturies
  <2> QED
    BY <1>2, <1>3, <1>4, <1>6, <2>2, SMT
<1>7. CASE r = 3 /\ q = 24
  <2>1. Counts(y + 1, c + 1, 0, 0) /\ c < 3
    BY <1>2, <1>7, SMT DEF Counts
  <2>2. YearStart(y + 1) = 36524 * (c + 1) + 1461 * 0 + 365 * 0
    BY <2>1, YearInCenturies
  <2> QED
    BY <1>2, <1>3, <1>4, <1>7, <2>1, <2>2, SMT
<1> QED
  BY <1>2, <1>5, <1>6, <1>7, SMT

(***************************************************************************)
(* Every day of the year comes back within the days that are looked at:    *)
(* leap days after 8 years at most, the others within two years.           *)
(***************************************************************************)
Soon(d, f, days) == f \in Int /\ d < f /\ f <= d + days

LEMMA YearGoesOn ==
    ASSUME NEW d, NEW e, NEW y, NEW x, IsDate(d, e, y, x), NEW j \in Nat, x + j <= 364
    PROVE  YearDay(d + j) = x + j
<1>1. IsYear(y) /\ e \in Int /\ x \in 0..365 /\ d = 146097 * e + YearStart(y) + x - 719468
  BY DEF IsDate
<1>4. YearStart(y) \in Int
  BY <1>1, YearsStart
<1>2. x + j \in 0..365 /\ x + j # 365 /\ d + j = 146097 * e + YearStart(y) + (x + j) - 719468
  BY <1>1, <1>4, SMT
<1>3. IsDate(d + j, e, y, x + j)
  BY <1>1, <1>2 DEF IsDate
<1> QED
  BY <1>3, YearDayOfDate

LEMMA OtherDaysComeBack ==
    ASSUME NEW d \in Int, NEW x \in 0..364
    PROVE  \E f, e, y : Soon(d, f, 731) /\ IsDate(f, e, y, x)
<1>1. PICK e, y, z : IsDate(d, e, y, z)
  BY DaysAreDates
<1>2. /\ e \in Int /\ y \in Int /\ y <= 399 /\ z \in Int /\ 0 <= z /\ z <= 365
      /\ YearStart(y) \in Int /\ d = 146097 * e + YearStart(y) + z - 719468
  BY <1>1, DatesAreTyped
<1>3. IsYear(y) /\ (z = 365 => IsLeap(y))
  BY <1>1 DEF IsDate
<1>4. CASE y < 399
  <2>1. /\ IsYear(y + 1)
        /\ \/ ~IsLeap(y) /\ YearStart(y + 1) = YearStart(y) + 365
           \/ IsLeap(y) /\ YearStart(y + 1) = YearStart(y) + 366
    BY <1>3, <1>4, YearLength
  <2>4. YearStart(y + 1) \in Int
    BY <2>1, YearsStart
  <2> DEFINE f == 146097 * e + YearStart(y + 1) + x - 719468
  <2>2. YearStart(y + 1) - YearStart(y) = 366 \/ (YearStart(y + 1) - YearStart(y) = 365 /\ z # 365)
    BY <1>2, <1>3, <2>1, <2>4, SMT
  <2>5. Soon(d, f, 731)
    <3>1. f - d = (YearStart(y + 1) - YearStart(y)) + x - z
      BY <1>2, <2>4, SMT
    <3>2. f \in Int
      BY <1>2, <2>4, SMT
    <3> HIDE DEF f
    <3> QED
      BY <1>2, <2>2, <3>1, <3>2, SMT DEF Soon
  <2>3. IsDate(f, e, y + 1, x)
    BY <1>2, <2>1, SMT DEF IsDate
  <2> QED
    BY <2>3, <2>5
<1>5. CASE y = 399
  <2>1. YearStart(0) = 0 /\ YearStart(399) = 145731 /\ IsYear(0)
    BY SMT DEF YearStart, IsYear
  <2> DEFINE f == 146097 * (e + 1) + YearStart(0) + x - 719468
  <2>2. Soon(d, f, 731)
    BY <1>2, <1>5, <2>1, SMT DEF Soon
  <2>3. IsDate(f, e + 1, 0, x)
    BY <1>2, <2>1, SMT DEF IsDate
  <2> QED
    BY <2>2, <2>3
<1> QED
  BY <1>2, <1>4, <1>5, SMT

(* There is a leap day within 2921 days of another, and within 2921 of the *)
(* beginning of a year without one.                                        *)
LeapsSoon(y, z) ==
    /\ IsYear(z) /\ IsLeap(z) /\ YearStart(y) < YearStart(z)
    /\ YearStart(z) - YearStart(y) <= 2921
    /\ ~IsLeap(y) => YearStart(z) - YearStart(y) <= 2921 - 365

LEMMA NextLeapYear ==
    ASSUME NEW y, IsYear(y), y < 399
    PROVE  \E z : LeapsSoon(y, z)
<1>1. PICK c, q, r : Counts(y, c, q, r)
  BY CenturiesOfYear
<1>2. c \in 0..3 /\ q \in 0..24 /\ r \in 0..3 /\ y = 100 * c + 4 * q + r
  BY <1>1 DEF Counts
<1>3. YearStart(y) = 36524 * c + 1461 * q + 365 * r /\ (IsLeap(y) <=> r = 3 /\ (q # 24 \/ c = 3))
  BY <1>1, YearInCenturies
<1>4. CASE r < 3 /\ (q < 24 \/ c = 3)
  <2> DEFINE z == 100 * c + 4 * q + 3
  <2>1. Counts(z, c, q, 3)
    BY <1>2 DEF Counts
  <2> HIDE DEF z
  <2>2. /\ IsYear(z) /\ YearStart(z) = 36524 * c + 1461 * q + 365 * 3
        /\ IsLeap(z) <=> q # 24 \/ c = 3
    BY <2>1, YearInCenturies
  <2>3. LeapsSoon(y, z)
    BY <1>2, <1>3, <1>4, <2>2, SMT DEF LeapsSoon
  <2> QED
    BY <2>3
<1>5. CASE c < 3 /\ (q = 24 \/ (r = 3 /\ q = 23))
  <2> DEFINE z == 100 * (c + 1) + 3
  <2>1. Counts(z, c + 1, 0, 3)
    BY <1>2, <1>5, SMT DEF Counts
  <2> HIDE DEF z
  <2>2. IsYear(z) /\ YearStart(z) = 36524 * (c + 1) + 1461 * 0 + 365 * 3 /\ IsLeap(z)
    BY <2>1, YearInCenturies
  <2>3. LeapsSoon(y, z)
    BY <1>2, <1>3, <1>5, <2>2, SMT DEF LeapsSoon
  <2> QED
    BY <2>3
<1>6. CASE r = 3 /\ q < 24 /\ (q < 23 \/ c = 3)
  <2> DEFINE z == 100 * c + 4 * (q + 1) + 3
  <2>1. Counts(z, c, q + 1, 3)
    BY <1>2, <1>6, SMT DEF Counts
  <2> HIDE DEF z
  <2>2. /\ IsYear(z) /\ YearStart(z) = 36524 * c + 1461 * (q + 1) + 365 * 3
        /\ IsLeap(z) <=> q + 1 # 24 \/ c = 3
    BY <2>1, YearInCenturies
  <2>3. LeapsSoon(y, z)
    BY <1>2, <1>3, <1>6, <2>2, SMT DEF LeapsSoon
  <2> QED
    BY <2>3
<1> QED
  BY <1>2, <1>4, <1>5, <1>6, SMT

LEMMA LeapDaysComeBack ==
    ASSUME NEW d \in Int
    PROVE  \E f, e, y : Soon(d, f, 2921) /\ IsDate(f, e, y, 365)
<1>1. PICK e, y, x : IsDate(d, e, y, x)
  BY DaysAreDates
<1>2. /\ e \in Int /\ y \in Int /\ y <= 399 /\ x \in Int /\ 0 <= x /\ x <= 365
      /\ YearStart(y) \in Int /\ d = 146097 * e + YearStart(y) + x - 719468
  BY <1>1, DatesAreTyped
<1>3. IsYear(y) /\ (x = 365 => IsLeap(y))
  BY <1>1 DEF IsDate
<1>4. CASE IsLeap(y) /\ x < 365
  <2> DEFINE f == 146097 * e + YearStart(y) + 365 - 719468
  <2>1. Soon(d, f, 2921)
    BY <1>2, <1>4, SMT DEF Soon
  <2>2. IsDate(f, e, y, 365)
    BY <1>2, <1>3, <1>4, SMT DEF IsDate
  <2> QED
    BY <2>1, <2>2
<1>5. CASE y < 399 /\ (IsLeap(y) => x = 365)
  <2>1. PICK z : LeapsSoon(y, z)
    BY <1>3, <1>5, NextLeapYear
  <2>2. /\ IsYear(z) /\ IsLeap(z) /\ YearStart(y) < YearStart(z)
        /\ YearStart(z) - YearStart(y) <= 2921
        /\ ~IsLeap(y) => YearStart(z) - YearStart(y) <= 2921 - 365
    BY <2>1 DEF LeapsSoon
  <2>3. YearStart(z) \in Int
    BY <2>2, YearsStart
  <2> DEFINE f == 146097 * e + YearStart(z) + 365 - 719468
  <2>4. Soon(d, f, 2921)
    BY <1>2, <1>5, <2>2, <2>3, SMT DEF Soon
  <2>5. IsDate(f, e, z, 365)
    BY <1>2, <2>2, SMT DEF IsDate
  <2> QED
    BY <2>4, <2>5
<1>6. CASE y = 399 /\ x = 365
  <2>1. YearStart(3) = 1095 /\ YearStart(399) = 145731 /\ IsLeap(3) /\ IsYear(3)
    BY SMT DEF YearStart, IsLeap, IsYear
  <2> DEFINE f == 146097 * (e + 1) + YearStart(3) + 365 - 719468
  <2>2. Soon(d, f, 2921)
    BY <1>2, <1>6, <2>1, SMT DEF Soon
  <2>3. IsDate(f, e + 1, 3, 365)
    BY <1>2, <2>1, SMT DEF IsDate
  <2> QED
    BY <2>2, <2>3
<1>7. IsLeap(399)
  BY SMT DEF IsLeap
<1> QED
  BY <1>2, <1>4, <1>5, <1>6, <1>7, SMT

(* Months and their days are told by the day of the year.                  *)
LEMMA MonthsAndDays ==
    ASSUME NEW d \in Int
    PROVE  WeekdayOf(d) \in 0..6 /\ MonthOf(d) \in 1..12 /\ MonthDayOf(d) \in 1..31
<1>1. YearDay(d) \in 0..365
  BY YearDayIsBounded
<1>2. PICK x \in 0..365 : x = YearDay(d)
  BY <1>1
<1>3. MonthOf(d) \in 1..12
  BY <1>2, SMT DEF MonthOf
<1>4. MonthDayOf(d) \in 1..31
  <2> DEFINE month == (5 * x + 2) \div 153
             before == (153 * month + 2) \div 5
  <2>1. month \in Int /\ 153 * month <= 5 * x + 2 /\ 5 * x + 2 <= 153 * month + 152
    BY SMT
  <2> HIDE DEF month
  <2>2. before \in Int /\ 5 * before <= 153 * month + 2 /\ 153 * month + 2 <= 5 * before + 4
    BY <2>1, SMT
  <2> HIDE DEF before
  <2>3. x - before + 1 \in 1..31
    BY <2>1, <2>2, SMT
  <2> QED
    BY <1>2, <2>3 DEF MonthDayOf, month, before
<1>5. WeekdayOf(d) \in 0..6
  BY SMT DEF WeekdayOf
<1> QED
  BY <1>3, <1>4, <1>5

LEMMA SameDayComesBack ==
    ASSUME NEW d \in Int, NEW a \in Int
    PROVE  \E f : Soon(d, f, MaxDays - 1) /\ MonthOf(f) = MonthOf(a) /\ MonthDayOf(f) = MonthDayOf(a)
<1>1. PICK x \in 0..365 : x = YearDay(a)
  BY YearDayIsBounded
<1>2. PICK f, e, y : (Soon(d, f, 731) \/ Soon(d, f, 2921)) /\ IsDate(f, e, y, x)
  <2>1. CASE x = 365
    BY <2>1, LeapDaysComeBack
  <2>2. CASE x # 365
    <3>1. x \in 0..364
      BY <2>2, SMT
    <3>2. \E f, e, y : Soon(d, f, 731) /\ IsDate(f, e, y, x)
      BY <3>1, OtherDaysComeBack
    <3> QED
      BY <3>2
  <2> QED
    BY <2>1, <2>2
<1>3. YearDay(f) = YearDay(a)
  BY <1>1, <1>2, YearDayOfDate
<1>4. Soon(d, f, MaxDays - 1)
  BY <1>2, SMT DEF Soon, MaxDays
<1> QED
  BY <1>3, <1>4 DEF MonthOf, MonthDayOf

(* The first seven days of a month are one of each weekday.                *)
LEMMA SameWeekdayComesBack ==
    ASSUME NEW d \in Int, NEW a \in Int, NEW w \in 0..6
    PROVE  \E f : Soon(d, f, MaxDays - 1) /\ MonthOf(f) = MonthOf(a) /\ WeekdayOf(f) = w
<1>1. PICK z \in 0..365 : z = YearDay(a)
  BY YearDayIsBounded
<1> DEFINE month == (5 * z + 2) \div 153
           x == (153 * month + 2) \div 5
<1>2. month \in Int /\ 0 <= month /\ month <= 11
  BY SMT
<1>3. MonthOf(a) = ((month + 2) % 12) + 1
  BY <1>1 DEF MonthOf
<1> HIDE DEF month
<1>4. x \in Int /\ 0 <= x /\ x <= 337 /\ 5 * x <= 153 * month + 2 /\ 153 * month + 2 <= 5 * x + 4
  BY <1>2, SMT
<1> HIDE DEF x
<1>5. x \in 0..364
  BY <1>4, SMT
<1>6. PICK f, e, y : Soon(d, f, 731) /\ IsDate(f, e, y, x)
  BY <1>5, OtherDaysComeBack
<1>7. f \in Int /\ d < f /\ f <= d + 731
  BY <1>6 DEF Soon
<1>8. PICK j \in 0..6 : (f + j + 4) % 7 = w
  <2> DEFINE j == (w - (f + 4)) % 7
  <2>1. j \in 0..6 /\ (f + j + 4) % 7 = w
    BY <1>7, SMT
  <2> QED
    BY <2>1
<1>9. YearDay(f + j) = x + j
  <2>1. j \in Nat /\ x + j <= 364
    BY <1>4, SMT
  <2> QED
    BY <1>6, <2>1, YearGoesOn
<1>10. (5 * (x + j) + 2) \div 153 = month
  BY <1>2, <1>4, SMT
<1>11. MonthOf(f + j) = MonthOf(a)
  BY <1>3, <1>9, <1>10 DEF MonthOf
<1>12. Soon(d, f + j, MaxDays - 1)
  BY <1>7, SMT DEF Soon, MaxDays
<1>13. WeekdayOf(f + j) = w
  BY <1>7, <1>8 DEF WeekdayOf
<1> QED
  BY <1>11, <1>12, <1>13
-----------------------------------------------------------------------------
(***************************************************************************)
(* An expression that matches a day, of whatever year, matches another one *)
(* soon.  It either is told by its month and its day, or by its month and  *)
(* its weekday.                                                            *)
(***************************************************************************)
LEMMA MatchesAgain ==
    ASSUME NEW c, NEW a \in Int, DayMatches(c, a), NEW d \in Int
    PROVE  \E f : Soon(d, f, MaxDays - 1) /\ DayMatches(c, f)
<1>1. CASE WeekdayOf(a) \in {v % 7 : v \in ValuesOf(c, "weekday")}
  <2>1. PICK w \in 0..6 : w = WeekdayOf(a)
    BY MonthsAndDays
  <2>2. PICK f : Soon(d, f, MaxDays - 1) /\ MonthOf(f) = MonthOf(a) /\ WeekdayOf(f) = w
    BY SameWeekdayComesBack
  <2>3. PICK g : Soon(d, g, MaxDays - 1) /\ MonthOf(g) = MonthOf(a) /\ MonthDayOf(g) = MonthDayOf(a)
    BY SameDayComesBack
  <2>4. DayMatches(c, f) \/ DayMatches(c, g)
    BY <1>1, <2>1, <2>2, <2>3, Zenon DEF DayMatches
  <2> QED
    BY <2>2, <2>3, <2>4
<1>2. CASE WeekdayOf(a) \notin {v % 7 : v \in ValuesOf(c, "weekday")}
  <2>1. PICK f : Soon(d, f, MaxDays - 1) /\ MonthOf(f) = MonthOf(a) /\ MonthDayOf(f) = MonthDayOf(a)
    BY SameDayComesBack
  <2>2. DayMatches(c, f)
    BY <1>2, <2>1, Zenon DEF DayMatches
  <2> QED
    BY <2>1, <2>2
<1> QED
  BY <1>1, <1>2

(***************************************************************************)
(* "This schedule never runs" (CronError): no day of any year matches an   *)
(* expression that is refused.  Looking 8 years ahead is enough.           *)
(***************************************************************************)
THEOREM RefusedNeverRuns ==
    ASSUME NEW c, Valid(c), NEW after \in Nat, Never \notin Int, NextAfter(c, after) = Never, NEW d \in Int
    PROVE  ~DayMatches(c, d)
<1> SUFFICES ASSUME DayMatches(c, d) PROVE FALSE
  OBVIOUS
<1> DEFINE today == DayOf(after + 1)
<1>1. today \in Int /\ after + 1 < Minutes * (today + 1)
  BY SMT DEF DayOf, Minutes
<1> HIDE DEF today
<1>2. PICK f : Soon(today, f, MaxDays - 1) /\ DayMatches(c, f)
  BY <1>1, MatchesAgain
<1>3. f \in Int /\ today < f /\ f <= today + (MaxDays - 1)
  BY <1>2 DEF Soon
<1>4. after + 1 <= Minutes * f
  BY <1>1, <1>3, SMT DEF Minutes
<1>5. Candidates(c, f, after + 1) # {}
  BY <1>2, <1>3, <1>4, AnyDayHasCandidates
<1>6. PICK i \in 0..(MaxDays - 1) : i = f - today
  BY <1>1, <1>3, SMT DEF MaxDays
<1>7. f = today + i
  BY <1>1, <1>3, <1>6
<1>8. NextAfter(c, after) \in Nat
  BY <1>5, <1>7, SearchFinds DEF today
<1> QED
  BY <1>8

(***************************************************************************)
(* "The next run after `after_utc`" (next_run), in every zone whose clocks *)
(* are not set back: in UTC too, it is strictly later.                     *)
(***************************************************************************)
SetsClocksForward(zone) ==
    zone.change \in Int /\ zone.before \in Int /\ zone.after \in Int /\ zone.before <= zone.after

LEMMA LaterLocallyIsLater ==
    ASSUME NEW zone, SetsClocksForward(zone), NEW utc \in Int, NEW local \in Int,
           local > LocalOf(zone, utc)
    PROVE  UtcOf(zone, local) \in Int /\ UtcOf(zone, local) > utc
<1>1. CASE utc < zone.change
  BY <1>1 DEF SetsClocksForward, LocalOf, UtcOf
<1>2. CASE ~(utc < zone.change)
  BY <1>2 DEF SetsClocksForward, LocalOf, UtcOf
<1> QED
  BY <1>1, <1>2

THEOREM NextRunIsLater ==
    ASSUME NEW c, Valid(c), NEW zone, SetsClocksForward(zone), NEW utc \in Nat,
           LocalOf(zone, utc) \in Nat, Never \notin Int, NextRun(c, zone, utc) # Never
    PROVE  NextRun(c, zone, utc) \in Int /\ NextRun(c, zone, utc) > utc
<1> DEFINE local == NextAfter(c, LocalOf(zone, utc))
<1>1. local # Never /\ NextRun(c, zone, utc) = UtcOf(zone, local)
  BY DEF NextRun
<1>2. local \in Nat /\ local > LocalOf(zone, utc)
  BY <1>1, NextAfterIsFirst
<1> HIDE DEF local
<1> QED
  BY <1>1, <1>2, LaterLocallyIsLater
=============================================================================
