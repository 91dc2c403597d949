------------------------- MODULE JobSchedulesProofs -------------------------
(***************************************************************************)
(* For any number of workers, admins, schedules and zones: rows keep their *)
(* shape, and, as long as clocks are not set back, a due time is answered  *)
(* once, by a schedule that is enabled.                                    *)
(***************************************************************************)
EXTENDS JobSchedules, CronProofs, TLAPS

USE DEF Taken

-----------------------------------------------------------------------------
LEMMA TimesAreNumbers == (\A t \in Times : t \in Int) /\ Never \notin Int
BY JobSchedulesAssumption

LEMMA NextRunIsATime ==
    ASSUME NEW c \in Crons, NEW zone \in Zones, NEW utc \in Times
    PROVE  /\ NextRunAt[c][zone][utc] = NextRun(c, zone, utc)
           /\ NextRunAt[c][zone][utc] \in Int \cup {Never}
<1> DEFINE local == NextAfter(c, LocalOf(zone, utc))
<1>1. NextRunAt[c][zone][utc] = NextRun(c, zone, utc)
  BY DEF NextRunAt
<1>2. local = Never \/ local \in Nat
  BY NextAfterIsFirst, JobSchedulesAssumption
<1>3. zone.change \in Int /\ zone.before \in Int /\ zone.after \in Int
  BY JobSchedulesAssumption
<1>4. NextRun(c, zone, utc) = IF local = Never THEN Never ELSE UtcOf(zone, local)
  BY DEF NextRun
<1> HIDE DEF local
<1> QED
  BY <1>1, <1>2, <1>3, <1>4 DEF UtcOf

LEMMA NoRowIsWellFormed == WellFormed(NoRow)
BY DEF WellFormed, NoRow, Row

LEMMA AnsweredIsWellFormed ==
    ASSUME NEW row, WellFormed(row), row.saved, NEW now \in Times
    PROVE  /\ WellFormed(Answered(row, now)) /\ Answered(row, now).saved
           /\ Answered(row, now).next = NextRunAt[row.cron][row.zone][now]
<1> DEFINE next == NextRunAt[row.cron][row.zone][now]
<1>1. next \in Int \cup {Never}
  BY NextRunIsATime DEF WellFormed
<1> HIDE DEF next
<1>2. Answered(row, now) = [row EXCEPT !.enabled = (next # Never), !.next = next]
  BY DEF Answered, next
<1>3. (next # Never) \in BOOLEAN
  OBVIOUS
<1> QED
  BY <1>1, <1>2, <1>3 DEF WellFormed, Row, next

LEMMA EditedIsWellFormed ==
    ASSUME NEW row, WellFormed(row), NEW c \in Crons, NEW zone \in Zones, NEW enabled \in BOOLEAN,
           clock \in Times
    PROVE  WellFormed(Edited(row, c, zone, enabled)) /\ Edited(row, c, zone, enabled).saved
<1> DEFINE next == IF enabled THEN NextRunAt[c][zone][clock] ELSE Never
<1>1. next \in Int \cup {Never}
  BY NextRunIsATime
<1> HIDE DEF next
<1>2. Edited(row, c, zone, enabled) =
        [row EXCEPT !.saved = TRUE, !.cron = c, !.zone = zone, !.enabled = enabled, !.next = next]
  BY DEF Edited, next
<1> QED
  BY <1>1, <1>2 DEF WellFormed, Row

LEMMA MergedIsWellFormed ==
    ASSUME NEW now, NEW seen, NEW row, WellFormed(now), WellFormed(seen), WellFormed(row), row.saved
    PROVE  WellFormed(Merged(now, seen, row))
<1>1. CASE seen.saved /\ ~now.saved
  BY <1>1 DEF Merged
<1>2. CASE ~(seen.saved /\ ~now.saved)
  <2> DEFINE saved == IF row.saved # seen.saved THEN row.saved ELSE now.saved
             enabled == IF row.enabled # seen.enabled THEN row.enabled ELSE now.enabled
             cron == IF row.cron # seen.cron THEN row.cron ELSE now.cron
             zone == IF row.zone # seen.zone THEN row.zone ELSE now.zone
             next == IF row.next # seen.next THEN row.next ELSE now.next
  <2>1. Merged(now, seen, row) =
          [saved |-> saved, enabled |-> enabled, cron |-> cron, zone |-> zone, next |-> next]
    BY <1>2 DEF Merged, Mixed
  <2>2. /\ saved \in BOOLEAN /\ enabled \in BOOLEAN /\ next \in Int \cup {Never}
        /\ row.cron \in Crons /\ row.zone \in Zones
    BY DEF WellFormed, Row
  <2>3. saved
    <3>1. row.saved = TRUE /\ seen.saved \in BOOLEAN /\ now.saved \in BOOLEAN
      BY DEF WellFormed, Row
    <3> QED
      BY <1>2, <3>1
  <2>4. cron \in Crons /\ zone \in Zones
    <3>1. CASE seen.saved
      BY <1>2, <2>2, <3>1 DEF WellFormed
    <3>2. CASE ~seen.saved
      <4>1. seen.cron = Never /\ seen.zone = Never
        BY <3>2 DEF WellFormed, NoRow
      <4> QED
        BY <2>2, <4>1, JobSchedulesAssumption
    <3> QED
      BY <3>1, <3>2
  <2> HIDE DEF saved, enabled, cron, zone, next
  <2> QED
    BY <2>1, <2>2, <2>3, <2>4 DEF WellFormed, Row
<1> QED
  BY <1>1, <1>2

(***************************************************************************)
(* Each step rewrites one row, one transaction or one request.             *)
(***************************************************************************)
LEMMA ScheduleMoves ==
    ASSUME TypeOK, NEW s \in Schedules, NEW row, WellFormed(row),
           schedule' = [schedule EXCEPT ![s] = row]
    PROVE  schedule' \in [Schedules -> Row] /\ \A x \in Schedules : WellFormed(schedule'[x])
BY DEF TypeOK, WellFormed

LEMMA WorkerMoves ==
    ASSUME TypeOK, NEW w \in Workers, NEW t \in WorkerState, Transaction(t),
           worker' = [worker EXCEPT ![w] = t]
    PROVE  worker' \in [Workers -> WorkerState] /\ \A v \in Workers : Transaction(worker'[v])
BY DEF TypeOK

LEMMA RequestMoves ==
    ASSUME TypeOK, NEW a \in Admins, NEW r \in RequestState, Meant(r),
           admin' = [admin EXCEPT ![a] = r]
    PROVE  admin' \in [Admins -> RequestState] /\ \A b \in Admins : Meant(admin'[b])
BY DEF TypeOK

LEMMA IdleIsTyped ==
    IdleWorker \in WorkerState /\ Transaction(IdleWorker) /\ IdleAdmin \in RequestState /\ Meant(IdleAdmin)
<1>1. NoRow \in Row /\ WellFormed(NoRow)
  BY NoRowIsWellFormed DEF WellFormed
<1>2. IdleWorker \in WorkerState
  BY <1>1 DEF IdleWorker, WorkerState
<1>3. Transaction(IdleWorker)
  BY <1>1 DEF IdleWorker, Transaction
<1>4. IdleAdmin \in RequestState /\ Meant(IdleAdmin)
  BY <1>1 DEF IdleAdmin, RequestState, Meant
<1> QED
  BY <1>2, <1>3, <1>4

\* the transaction once schedule s has its next run
AfterAnswer(t, s, jobs) ==
    [t EXCEPT !.todo = t.todo \ {s}, !.rows = [t.rows EXCEPT ![s] = Answered(t.rows[s], t.now)],
              !.jobs = jobs]

LEMMA AnswersOne ==
    ASSUME TypeOK, NEW w \in Workers, RunsSchedule(w)
    PROVE  /\ worker[w].pc = "taken"
           /\ UNCHANGED <<clock, schedule, busy, admin, fired, failures>>
           /\ \E s \in worker[w].todo, jobs \in SUBSET Kinds :
                 /\ worker' = [worker EXCEPT ![w] = AfterAnswer(worker[w], s, jobs)]
                 /\ AfterAnswer(worker[w], s, jobs) \in WorkerState
                 /\ Transaction(AfterAnswer(worker[w], s, jobs))
<1> DEFINE t == worker[w]
<1>1. t \in WorkerState /\ Transaction(t)
  BY DEF TypeOK
<1>2. PICK s \in t.taken : Answers(w, s, Answered(t.rows[s], t.now))
  BY DEF RunsSchedule
<1> DEFINE row == Answered(t.rows[s], t.now)
           rows == [t.rows EXCEPT ![s] = row]
           todo == t.todo \ {s}
           jobs == IF Skipped(w, s) THEN t.jobs ELSE t.jobs \cup {KindOf[s]}
           after == AfterAnswer(t, s, jobs)
<1>3. t.pc = "taken" /\ s \in t.todo /\ s \in Schedules /\ t.now \in Times
  BY <1>1, <1>2 DEF Answers, WorkerState, Transaction
<1>4. WellFormed(row) /\ row.saved
  BY <1>1, <1>3, AnsweredIsWellFormed DEF Transaction
<1>5. jobs \in SUBSET Kinds
  BY <1>1, <1>3, JobSchedulesAssumption DEF WorkerState
<1>6. worker' = [worker EXCEPT ![w] = after]
  BY <1>2 DEF Answers, AfterAnswer
<1>7. after = [t EXCEPT !.todo = todo, !.rows = rows, !.jobs = jobs]
  BY DEF AfterAnswer
<1>8. /\ rows \in [Schedules -> Row] /\ \A x \in Schedules : WellFormed(rows[x])
      /\ \A x \in t.taken : rows[x].saved
  BY <1>1, <1>4 DEF WorkerState, Transaction, WellFormed
<1>9. todo \subseteq t.taken /\ todo \in SUBSET Schedules
  BY <1>1 DEF WorkerState, Transaction
<1> HIDE DEF rows, todo, jobs
<1>10. after \in WorkerState
  BY <1>1, <1>5, <1>7, <1>8, <1>9 DEF WorkerState
<1>11. Transaction(after)
  BY <1>1, <1>3, <1>7, <1>8, <1>9 DEF WorkerState, Transaction
<1> QED
  BY <1>2, <1>3, <1>5, <1>6, <1>10, <1>11 DEF Answers

LEMMA TakesSome ==
    ASSUME TypeOK, NEW w \in Workers, TakesDue(w)
    PROVE  /\ UNCHANGED <<clock, schedule, busy, admin, fired, failures>>
           /\ worker[w].now \in Times
           /\ \E S \in SUBSET Schedules, t \in WorkerState :
                 /\ worker' = [worker EXCEPT ![w] = t] /\ Transaction(t)
                 /\ t.taken = S /\ t.todo = S /\ (S # {} => t.now = worker[w].now)
                 /\ \A s \in S : /\ IsDue(schedule[s], worker[w].now) /\ ~Locked(s)
                                 /\ t.rows[s] = schedule[s] /\ t.due[s] = schedule[s].next
<1> DEFINE S == {s \in Schedules : IsDue(schedule[s], worker[w].now) /\ ~Locked(s)}
           rows == [s \in Schedules |-> IF s \in S THEN schedule[s] ELSE NoRow]
           due == [s \in Schedules |-> IF s \in S THEN schedule[s].next ELSE Never]
           t == [worker[w] EXCEPT !.pc = "taken", !.taken = S, !.todo = S, !.rows = rows, !.due = due]
<1>1. worker[w] \in WorkerState /\ Transaction(worker[w]) /\ worker[w].pc = "asking"
  BY DEF TypeOK, TakesDue, Takes
<1>2. worker[w].now \in Times /\ UNCHANGED <<clock, schedule, busy, admin, fired, failures>>
  BY <1>1 DEF Transaction, TakesDue, Takes
<1>3. S \in SUBSET Schedules /\ \A s \in S : IsDue(schedule[s], worker[w].now) /\ ~Locked(s)
  OBVIOUS
<1>4. worker' = [worker EXCEPT ![w] = IF S = {} THEN IdleWorker ELSE t]
  BY DEF TakesDue, Takes
<1>5. /\ \A s \in Schedules : schedule[s] \in Row /\ WellFormed(schedule[s])
      /\ NoRow \in Row /\ WellFormed(NoRow)
  BY NoRowIsWellFormed DEF TypeOK, WellFormed
<1>6. /\ rows \in [Schedules -> Row] /\ \A s \in Schedules : WellFormed(rows[s])
      /\ \A s \in S : rows[s] = schedule[s] /\ rows[s].saved
  BY <1>5 DEF IsDue
<1>7. /\ due \in [Schedules -> Int \cup {Never}]
      /\ \A s \in S : due[s] = schedule[s].next /\ due[s] \in Int
  BY <1>5 DEF IsDue, Row
<1> HIDE DEF S, rows, due
<1>8. CASE S = {}
  <2>1. IdleWorker.taken = {} /\ IdleWorker.todo = {}
    BY DEF IdleWorker
  <2> QED
    BY <1>2, <1>4, <1>8, <2>1, IdleIsTyped
<1>9. CASE S # {}
  <2>1. t \in WorkerState
    BY <1>1, <1>3, <1>6, <1>7 DEF WorkerState
  <2>2. Transaction(t)
    BY <1>1, <1>2, <1>3, <1>6, <1>7, <1>9 DEF Transaction, WorkerState
  <2>3. /\ t.taken = S /\ t.todo = S /\ t.now = worker[w].now
        /\ \A s \in S : t.rows[s] = schedule[s] /\ t.due[s] = schedule[s].next
    BY <1>1, <1>6, <1>7 DEF WorkerState
  <2>4. worker' = [worker EXCEPT ![w] = t]
    BY <1>4, <1>9
  <2> HIDE DEF t
  <2> QED
    BY <1>2, <1>3, <2>1, <2>2, <2>3, <2>4
<1> QED
  BY <1>8, <1>9

-----------------------------------------------------------------------------
(***************************************************************************)
(* Rows, transactions and requests keep their shapes: a schedule is whole  *)
(* or absent, whoever wrote it (save_schedule, run_due_schedules and       *)
(* admin_delete_job_schedule).                                             *)
(***************************************************************************)
LEMMA TypeInit == Init => TypeOK
<1> SUFFICES ASSUME Init PROVE TypeOK
  OBVIOUS
<1> USE DEF Init
<1>1. clock \in Times /\ busy \subseteq Kinds /\ failures \in 0..MaxFailures
  BY JobSchedulesAssumption
<1>2. schedule \in [Schedules -> Row] /\ \A s \in Schedules : WellFormed(schedule[s])
  BY NoRowIsWellFormed DEF WellFormed
<1>3. /\ worker \in [Workers -> WorkerState] /\ \A w \in Workers : Transaction(worker[w])
      /\ admin \in [Admins -> RequestState] /\ \A a \in Admins : Meant(admin[a])
  BY IdleIsTyped
<1>4. fired \in [Schedules -> SUBSET Int]
  OBVIOUS
<1> QED
  BY <1>1, <1>2, <1>3, <1>4 DEF TypeOK

LEMMA TypeNext ==
    ASSUME TypeOK, [Next]_vars
    PROVE  TypeOK'
<1>1. CASE UNCHANGED vars
  BY <1>1 DEF vars, TypeOK
<1>2. CASE TimePasses
  BY <1>2 DEF TimePasses, TypeOK
<1>3. ASSUME NEW k \in Kinds, JobEnds(k) PROVE TypeOK'
  BY <1>3 DEF JobEnds, TypeOK
<1>4. ASSUME NEW w \in Workers, ReadsClock(w) PROVE TypeOK'
  <2> DEFINE t == [IdleWorker EXCEPT !.pc = "asking", !.now = clock]
  <2>1. t \in WorkerState /\ Transaction(t)
    BY IdleIsTyped DEF TypeOK, IdleWorker, WorkerState, Transaction
  <2>2. worker' = [worker EXCEPT ![w] = t]
    BY <1>4 DEF ReadsClock
  <2> HIDE DEF t
  <2>3. worker' \in [Workers -> WorkerState] /\ \A v \in Workers : Transaction(worker'[v])
    BY <2>1, <2>2, WorkerMoves
  <2> QED
    BY <1>4, <2>3 DEF ReadsClock, TypeOK
<1>5. ASSUME NEW w \in Workers, TakesDue(w) PROVE TypeOK'
  <2>1. worker' \in [Workers -> WorkerState] /\ \A v \in Workers : Transaction(worker'[v])
    BY <1>5, TakesSome, WorkerMoves
  <2> QED
    BY <1>5, <2>1, TakesSome DEF TypeOK
<1>6. ASSUME NEW w \in Workers, RunsSchedule(w) PROVE TypeOK'
  <2>1. worker' \in [Workers -> WorkerState] /\ \A v \in Workers : Transaction(worker'[v])
    BY <1>6, AnswersOne, WorkerMoves
  <2> QED
    BY <1>6, <2>1, AnswersOne DEF TypeOK
<1>7. ASSUME NEW w \in Workers, Commits(w) PROVE TypeOK'
  <2>1. worker[w] \in WorkerState /\ Transaction(worker[w])
    BY DEF TypeOK
  <2>2. worker' \in [Workers -> WorkerState] /\ \A v \in Workers : Transaction(worker'[v])
    BY <1>7, IdleIsTyped, WorkerMoves DEF Commits
  <2>3. schedule' \in [Schedules -> Row] /\ \A s \in Schedules : WellFormed(schedule'[s])
    BY <1>7, <2>1 DEF Commits, TypeOK, Transaction, WorkerState
  <2>4. fired' \in [Schedules -> SUBSET Int]
    BY <1>7, <2>1 DEF Commits, TypeOK, Transaction, WorkerState
  <2>5. busy' \subseteq Kinds
    BY <1>7, <2>1 DEF Commits, TypeOK, WorkerState
  <2> QED
    BY <1>7, <2>2, <2>3, <2>4, <2>5 DEF Commits, TypeOK
<1>8. ASSUME NEW w \in Workers, RollsBack(w) PROVE TypeOK'
  <2>1. worker' \in [Workers -> WorkerState] /\ \A v \in Workers : Transaction(worker'[v])
    BY <1>8, IdleIsTyped, WorkerMoves DEF RollsBack
  <2>2. failures' \in 0..MaxFailures
    BY <1>8, JobSchedulesAssumption DEF RollsBack, TypeOK
  <2> QED
    BY <1>8, <2>1, <2>2 DEF RollsBack, TypeOK
<1>9. ASSUME NEW a \in Admins, NEW s \in Schedules, Opens(a, s) PROVE TypeOK'
  <2> DEFINE r == [pc |-> "open", schedule |-> s, seen |-> schedule[s], row |-> schedule[s]]
  <2>1. r \in RequestState /\ Meant(r)
    BY DEF TypeOK, RequestState, Meant
  <2>2. admin' = [admin EXCEPT ![a] = r]
    BY <1>9 DEF Opens
  <2> HIDE DEF r
  <2>3. admin' \in [Admins -> RequestState] /\ \A b \in Admins : Meant(admin'[b])
    BY <2>1, <2>2, RequestMoves
  <2> QED
    BY <1>9, <2>3 DEF Opens, TypeOK
<1>10. ASSUME NEW a \in Admins, Edits(a) PROVE TypeOK'
  <2>1. PICK c \in Crons, zone \in Zones, enabled \in BOOLEAN :
           admin' = [admin EXCEPT ![a] =
             IF enabled /\ NextRunAt[c][zone][clock] = Never THEN IdleAdmin
             ELSE [admin[a] EXCEPT !.pc = "saving", !.row = Edited(admin[a].row, c, zone, enabled)]]
    BY <1>10 DEF Edits
  <2> DEFINE row == Edited(admin[a].row, c, zone, enabled)
             r == [admin[a] EXCEPT !.pc = "saving", !.row = row]
  <2>2. admin[a] \in RequestState /\ Meant(admin[a]) /\ clock \in Times /\ admin[a].pc = "open"
    BY <1>10 DEF TypeOK, Edits
  <2>3. WellFormed(row) /\ row.saved
    BY <2>2, EditedIsWellFormed DEF Meant
  <2> HIDE DEF row
  <2>4. r \in RequestState /\ Meant(r)
    BY <2>2, <2>3 DEF RequestState, Meant, WellFormed
  <2> HIDE DEF r
  <2>5. admin' = [admin EXCEPT ![a] = IdleAdmin] \/ admin' = [admin EXCEPT ![a] = r]
    BY <2>1 DEF r, row
  <2>6. admin' \in [Admins -> RequestState] /\ \A b \in Admins : Meant(admin'[b])
    BY <2>4, <2>5, IdleIsTyped, RequestMoves
  <2> QED
    BY <1>10, <2>6 DEF Edits, TypeOK
<1>11. ASSUME NEW a \in Admins, Saves(a) PROVE TypeOK'
  <2> DEFINE r == admin[a]
             row == Merged(schedule[r.schedule], r.seen, r.row)
  <2>1. r \in RequestState /\ Meant(r) /\ r.pc = "saving"
    BY <1>11 DEF TypeOK, Saves, Writes
  <2>2. r.schedule \in Schedules /\ WellFormed(schedule[r.schedule])
    BY <2>1 DEF Meant, TypeOK
  <2>3. WellFormed(row)
    BY <2>1, <2>2, MergedIsWellFormed DEF Meant
  <2>4. schedule' = [schedule EXCEPT ![r.schedule] = row] /\ fired' = [fired EXCEPT ![r.schedule] = {}]
    BY <1>11, <2>2 DEF Saves, Writes
  <2> HIDE DEF row
  <2>5. schedule' \in [Schedules -> Row] /\ \A s \in Schedules : WellFormed(schedule'[s])
    BY <2>2, <2>3, <2>4, ScheduleMoves
  <2>6. admin' \in [Admins -> RequestState] /\ \A b \in Admins : Meant(admin'[b])
    BY <1>11, IdleIsTyped, RequestMoves DEF Saves, Writes
  <2>7. fired' \in [Schedules -> SUBSET Int]
    BY <2>4 DEF TypeOK
  <2> QED
    BY <1>11, <2>5, <2>6, <2>7 DEF Saves, Writes, TypeOK
<1>12. ASSUME NEW s \in Schedules, RunsNow(s) PROVE TypeOK'
  BY <1>12, JobSchedulesAssumption DEF RunsNow, TypeOK
<1>13. ASSUME NEW s \in Schedules, Deletes(s) PROVE TypeOK'
  <2>1. schedule' \in [Schedules -> Row] /\ \A x \in Schedules : WellFormed(schedule'[x])
    BY <1>13, NoRowIsWellFormed, ScheduleMoves DEF Deletes
  <2>2. fired' \in [Schedules -> SUBSET Int]
    BY <1>13 DEF Deletes, TypeOK
  <2> QED
    BY <1>13, <2>1, <2>2 DEF Deletes, TypeOK
<1> QED
  BY <1>1, <1>2, <1>3, <1>4, <1>5, <1>6, <1>7, <1>8, <1>9, <1>10, <1>11, <1>12, <1>13
     DEF Next, Housekeeping, Request

THEOREM TypeCorrect == Spec => []TypeOK
BY TypeInit, TypeNext, PTL DEF Spec

-----------------------------------------------------------------------------
(***************************************************************************)
(* What the row locks give: a row is in the hands of one transaction.  It  *)
(* does not change meanwhile, so what the transaction read is what the     *)
(* table holds, until it commits.  And where clocks are not set back, every*)
(* due time that was answered is before the next one: it is not met again. *)
(***************************************************************************)
OneHolder == \A w, v \in Workers : w # v => Taken(w) \cap Taken(v) = {}

ClocksGoForward == \A zone \in Zones : SetsClocksForward(zone)

Later(row, now) == ClocksGoForward => row.next = Never \/ (row.next \in Int /\ row.next > now)

\* what the table and the transaction say of a row it took
InHand(row, t, s) ==
    /\ row.enabled /\ row.next \in Int
    /\ t.due[s] = row.next /\ row.next <= t.now
    /\ IF s \in t.todo THEN t.rows[s] = row ELSE Later(t.rows[s], t.now)

Past(row, times) ==
    ClocksGoForward /\ row.enabled /\ row.next # Never => \A t \in times : t < row.next

Answering ==
    /\ TypeOK
    /\ OneHolder
    /\ \A w \in Workers : \A s \in Taken(w) : InHand(schedule[s], worker[w], s)
    /\ \A s \in Schedules : Past(schedule[s], fired[s])

LEMMA AnswerIsLater ==
    ASSUME NEW row, WellFormed(row), row.saved, NEW now \in Times
    PROVE  Later(Answered(row, now), now)
<1> DEFINE next == NextRunAt[row.cron][row.zone][now]
<1>1. row.cron \in Crons /\ row.zone \in Zones
  BY DEF WellFormed
<1>2. next = NextRun(row.cron, row.zone, now)
  BY <1>1, NextRunIsATime
<1>3. Valid(row.cron) /\ LocalOf(row.zone, now) \in Nat /\ now \in Nat /\ Never \notin Int
  BY <1>1, JobSchedulesAssumption
<1>4. ClocksGoForward => SetsClocksForward(row.zone)
  BY <1>1 DEF ClocksGoForward
<1>5. ClocksGoForward => next = Never \/ (next \in Int /\ next > now)
  BY <1>2, <1>3, <1>4, NextRunIsLater
<1> HIDE DEF next
<1>6. Answered(row, now).next = next
  BY AnsweredIsWellFormed DEF next
<1> QED
  BY <1>5, <1>6 DEF Later

LEMMA AnsweringInit == Init => Answering
<1> SUFFICES ASSUME Init PROVE Answering
  OBVIOUS
<1>1. \A w \in Workers : Taken(w) = {}
  BY DEF Init, IdleWorker
<1>2. \A s \in Schedules : Past(schedule[s], fired[s])
  BY DEF Init, Past
<1> QED
  BY <1>1, <1>2, TypeInit DEF Answering, OneHolder

\* a step that leaves the transactions alone, and the rows they hold
LEMMA TransactionsKeep ==
    ASSUME Answering, TypeOK', UNCHANGED worker,
           \A s \in Schedules : Locked(s) => schedule'[s] = schedule[s],
           \A s \in Schedules : Past(schedule'[s], fired'[s])
    PROVE  Answering'
<1>1. OneHolder'
  BY DEF Answering, OneHolder
<1>2. ASSUME NEW w \in Workers, NEW s \in Taken(w)'
      PROVE  InHand(schedule[s], worker[w], s)'
  <2>1. s \in Taken(w) /\ s \in Schedules /\ Locked(s)
    BY <1>2 DEF Answering, TypeOK, WorkerState, Locked
  <2> QED
    BY <2>1 DEF Answering, InHand
<1> QED
  BY <1>1, <1>2 DEF Answering

\* a step of one transaction that leaves the table alone
LEMMA TransactionMoves ==
    ASSUME Answering, TypeOK', NEW w \in Workers, NEW t, worker' = [worker EXCEPT ![w] = t],
           UNCHANGED <<schedule, fired>>,
           \A s \in t.taken : s \in Taken(w) \/ ~Locked(s),
           \A s \in t.taken : InHand(schedule[s], t, s)
    PROVE  Answering'
<1>1. /\ Taken(w)' = t.taken /\ worker'[w] = t
      /\ \A v \in Workers : v # w => worker'[v] = worker[v] /\ Taken(v)' = Taken(v)
  BY DEF Answering, TypeOK
<1>2. \A v \in Workers : v # w => t.taken \cap Taken(v) = {}
  BY DEF Answering, OneHolder, Locked
<1>3. OneHolder'
  BY <1>1, <1>2 DEF Answering, OneHolder
<1>4. ASSUME NEW v \in Workers, NEW s \in Taken(v)'
      PROVE  InHand(schedule[s], worker[v], s)'
  <2>1. CASE v = w
    BY <1>1, <1>4, <2>1 DEF InHand
  <2>2. CASE v # w
    BY <1>1, <1>4, <2>2 DEF Answering, InHand
  <2> QED
    BY <2>1, <2>2
<1>5. \A s \in Schedules : Past(schedule[s], fired[s])'
  BY DEF Answering, Past
<1> QED
  BY <1>3, <1>4, <1>5 DEF Answering

LEMMA AnsweringNext ==
    ASSUME Answering, [Next]_vars
    PROVE  Answering'
<1> USE DEF Answering
<1>0. TypeOK'
  BY TypeNext
<1>1. CASE UNCHANGED vars
  BY <1>0, <1>1, TransactionsKeep DEF vars
<1>2. CASE TimePasses
  BY <1>0, <1>2, TransactionsKeep DEF TimePasses
<1>3. ASSUME NEW k \in Kinds, JobEnds(k) PROVE Answering'
  BY <1>0, <1>3, TransactionsKeep DEF JobEnds
<1>4. ASSUME NEW w \in Workers, ReadsClock(w) PROVE Answering'
  <2> DEFINE t == [IdleWorker EXCEPT !.pc = "asking", !.now = clock]
  <2>1. t.taken = {}
    BY DEF IdleWorker
  <2>2. worker' = [worker EXCEPT ![w] = t] /\ UNCHANGED <<schedule, fired>>
    BY <1>4 DEF ReadsClock
  <2> HIDE DEF t
  <2> QED
    BY <1>0, <2>1, <2>2, TransactionMoves
<1>5. ASSUME NEW w \in Workers, TakesDue(w) PROVE Answering'
  <2>1. PICK t \in WorkerState :
           /\ worker' = [worker EXCEPT ![w] = t]
           /\ t.todo = t.taken /\ t.taken \subseteq Schedules
           /\ t.taken # {} => t.now = worker[w].now
           /\ \A s \in t.taken : /\ IsDue(schedule[s], worker[w].now) /\ ~Locked(s)
                                 /\ t.rows[s] = schedule[s] /\ t.due[s] = schedule[s].next
    BY <1>5, TakesSome
  <2>2. ASSUME NEW s \in t.taken PROVE InHand(schedule[s], t, s)
    BY <2>1, <2>2 DEF InHand, IsDue, TypeOK, Row
  <2>3. UNCHANGED <<schedule, fired>>
    BY <1>5, TakesSome
  <2> QED
    BY <1>0, <2>1, <2>2, <2>3, TransactionMoves
<1>6. ASSUME NEW w \in Workers, RunsSchedule(w) PROVE Answering'
  <2> DEFINE t == worker[w]
  <2>1. PICK s \in t.todo, jobs \in SUBSET Kinds : worker' = [worker EXCEPT ![w] = AfterAnswer(t, s, jobs)]
    BY <1>6, AnswersOne
  <2> DEFINE after == AfterAnswer(t, s, jobs)
             row == Answered(t.rows[s], t.now)
  <2>2. t \in WorkerState /\ Transaction(t) /\ t.pc = "taken"
    BY <1>6, AnswersOne DEF TypeOK
  <2>3. s \in t.taken /\ s \in Schedules /\ t.now \in Times /\ WellFormed(t.rows[s]) /\ t.rows[s].saved
    BY <2>2 DEF WorkerState, Transaction
  <2>4. Later(row, t.now)
    BY <2>3, AnswerIsLater
  <2>5. /\ after.taken = t.taken /\ after.todo = t.todo \ {s} /\ after.due = t.due /\ after.now = t.now
        /\ after.rows[s] = row /\ \A x \in Schedules \ {s} : after.rows[x] = t.rows[x]
    BY <2>2, <2>3 DEF AfterAnswer, WorkerState
  <2> HIDE DEF after, row
  <2>6. ASSUME NEW x \in after.taken PROVE InHand(schedule[x], after, x)
    <3>1. InHand(schedule[x], t, x) /\ x \in Schedules
      BY <2>2, <2>5, <2>6 DEF WorkerState
    <3>2. CASE x = s
      BY <2>4, <2>5, <3>1, <3>2 DEF InHand
    <3>3. CASE x # s
      BY <2>5, <3>1, <3>3 DEF InHand
    <3> QED
      BY <3>2, <3>3
  <2>7. worker' = [worker EXCEPT ![w] = after] /\ UNCHANGED <<schedule, fired>>
    BY <1>6, <2>1, AnswersOne DEF after
  <2> QED
    BY <1>0, <2>5, <2>6, <2>7, TransactionMoves
<1>7. ASSUME NEW w \in Workers, Commits(w) PROVE Answering'
  <2> DEFINE t == worker[w]
  <2>1. /\ t \in WorkerState /\ t.todo = {} /\ Taken(w)' = {}
        /\ \A v \in Workers : v # w => worker'[v] = worker[v] /\ Taken(v)' = Taken(v)
    BY <1>7 DEF Commits, TypeOK, IdleWorker
  <2>2. OneHolder'
    BY <2>1 DEF OneHolder
  <2>3. ASSUME NEW v \in Workers, NEW s \in Taken(v)'
        PROVE  InHand(schedule[s], worker[v], s)'
    <3>1. v # w /\ s \in Taken(v) /\ s \notin Taken(w) /\ s \in Schedules
      BY <2>1, <2>3 DEF OneHolder, TypeOK, WorkerState
    <3>2. schedule'[s] = schedule[s]
      BY <1>7, <3>1 DEF Commits
    <3> QED
      BY <2>1, <3>1, <3>2 DEF InHand
  <2>4. ASSUME NEW s \in Schedules PROVE Past(schedule[s], fired[s])'
    <3>1. CASE s \notin Taken(w)
      <4>1. schedule'[s] = schedule[s] /\ fired'[s] = fired[s]
        BY <1>7, <3>1 DEF Commits
      <4> QED
        BY <4>1 DEF Past
    <3>2. CASE s \in Taken(w)
      <4>1. schedule'[s] = t.rows[s] /\ fired'[s] = fired[s] \cup {t.due[s]}
        BY <1>7, <3>2 DEF Commits
      <4>2. InHand(schedule[s], t, s) /\ Past(schedule[s], fired[s]) /\ fired[s] \subseteq Int
        BY <3>2 DEF TypeOK
      <4>3. t.now \in Int /\ t.rows[s].next \in Int \cup {Never}
        <5>1. Transaction(t) /\ t.pc = "taken"
          BY <1>7 DEF TypeOK, Commits
        <5>2. t.now \in Int
          BY <5>1, TimesAreNumbers DEF Transaction
        <5>3. t.rows[s] \in Row
          BY <5>1 DEF Transaction, WellFormed
        <5> QED
          BY <5>2, <5>3 DEF Row
      <4>4. Later(t.rows[s], t.now) /\ schedule[s].next \in Int /\ schedule[s].next # Never
        BY <2>1, <4>2, TimesAreNumbers DEF InHand
      <4>5. ClocksGoForward => \A u \in fired'[s] : u \in Int /\ u <= schedule[s].next
        BY <4>1, <4>2, <4>4 DEF InHand, Past
      <4> QED
        BY <4>1, <4>2, <4>3, <4>4, <4>5 DEF InHand, Past, Later
    <3> QED
      BY <3>1, <3>2
  <2> QED
    BY <1>0, <2>2, <2>3, <2>4
<1>8. ASSUME NEW w \in Workers, RollsBack(w) PROVE Answering'
  <2>1. IdleWorker.taken = {}
    BY DEF IdleWorker
  <2> QED
    BY <1>0, <1>8, <2>1, TransactionMoves DEF RollsBack
<1>9. ASSUME NEW a \in Admins, NEW s \in Schedules, Opens(a, s) PROVE Answering'
  BY <1>0, <1>9, TransactionsKeep DEF Opens
<1>10. ASSUME NEW a \in Admins, Edits(a) PROVE Answering'
  BY <1>0, <1>10, TransactionsKeep DEF Edits
<1>11. ASSUME NEW a \in Admins, Saves(a) PROVE Answering'
  <2> DEFINE s == admin[a].schedule
  <2>1. /\ ~Locked(s) /\ UNCHANGED worker
        /\ \A x \in Schedules : x # s => schedule'[x] = schedule[x] /\ fired'[x] = fired[x]
        /\ s \in Schedules => fired'[s] = {}
    BY <1>11 DEF Saves, Writes, TypeOK
  <2> HIDE DEF s
  <2>2. \A x \in Schedules : Past(schedule'[x], fired'[x])
    BY <2>1 DEF Past
  <2>3. \A x \in Schedules : Locked(x) => schedule'[x] = schedule[x]
    BY <2>1
  <2> QED
    BY <1>0, <2>1, <2>2, <2>3, TransactionsKeep
<1>12. ASSUME NEW s \in Schedules, RunsNow(s) PROVE Answering'
  BY <1>0, <1>12, TransactionsKeep DEF RunsNow
<1>13. ASSUME NEW s \in Schedules, Deletes(s) PROVE Answering'
  <2>1. \A x \in Schedules : Past(schedule'[x], fired'[x])
    BY <1>13 DEF Deletes, Past, TypeOK
  <2>2. \A x \in Schedules : Locked(x) => schedule'[x] = schedule[x]
    BY <1>13 DEF Deletes
  <2> QED
    BY <1>0, <1>13, <2>1, <2>2, TransactionsKeep DEF Deletes
<1> QED
  BY <1>1, <1>2, <1>3, <1>4, <1>5, <1>6, <1>7, <1>8, <1>9, <1>10, <1>11, <1>12, <1>13
     DEF Next, Housekeeping, Request

THEOREM AnsweringIsInvariant == Spec => []Answering
BY AnsweringInit, AnsweringNext, PTL DEF Spec

(***************************************************************************)
(* "The next run after `after_utc`" (next_run), as run_due_schedules uses  *)
(* it: where clocks are not set back, a schedule that was just answered is *)
(* not due any more.                                                       *)
(***************************************************************************)
THEOREM AnsweredAreNotDue == ASSUME ClocksGoForward PROVE Spec => []AnsweredIsNotDue
<1>1. Answering => AnsweredIsNotDue
  <2> SUFFICES ASSUME Answering, NEW w \in Workers, NEW s \in Taken(w) \ worker[w].todo
               PROVE  ~IsDue(worker[w].rows[s], worker[w].now)
    BY DEF AnsweredIsNotDue
  <2>1. worker[w] \in WorkerState /\ Transaction(worker[w]) /\ InHand(schedule[s], worker[w], s)
    BY DEF Answering, TypeOK
  <2>2. worker[w].now \in Int
    <3>1. worker[w].now \in Times
      BY <2>1 DEF Transaction
    <3> QED
      BY <3>1, TimesAreNumbers
  <2>3. Later(worker[w].rows[s], worker[w].now)
    BY <2>1 DEF InHand
  <2> QED
    BY <2>2, <2>3 DEF Later, IsDue
<1> QED
  BY <1>1, AnsweringIsInvariant, PTL

(***************************************************************************)
(* "Safe with several workers: each schedule is taken by one"              *)
(* (run_due_schedules): where clocks are not set back, a due time is       *)
(* answered once until the schedule is saved again, whatever the number of *)
(* workers and of admins, and however they interleave and fail.            *)
(***************************************************************************)
THEOREM AnsweredOnce == ASSUME ClocksGoForward PROVE Spec => OncePerDueTime
<1>1. ASSUME Answering, NEW w \in Workers, NEW s \in Taken(w) PROVE worker[w].due[s] \notin fired[s]
  <2>1. s \in Schedules /\ InHand(schedule[s], worker[w], s) /\ Past(schedule[s], fired[s])
    BY <1>1 DEF Answering, TypeOK, WorkerState
  <2> QED
    BY <2>1, JobSchedulesAssumption DEF InHand, Past
<1>2. Answering => [\A w \in Workers : Commits(w) =>
                       \A s \in Taken(w) : worker[w].due[s] \notin fired[s]]_vars
  BY <1>1
<1> QED
  BY <1>2, AnsweringIsInvariant, PTL DEF OncePerDueTime

(***************************************************************************)
(* A schedule that an admin disabled or deleted does not queue a job, not  *)
(* even by a worker that found it due before (the row locks of             *)
(* run_due_schedules).                                                     *)
(***************************************************************************)
THEOREM DisabledQueuesNothing == Spec => DisabledStaysQuiet
<1>1. Answering => [\A w \in Workers : Commits(w) => \A s \in Taken(w) : schedule[s].enabled]_vars
  BY DEF Answering, InHand
<1> QED
  BY <1>1, AnsweringIsInvariant, PTL DEF DisabledStaysQuiet

-----------------------------------------------------------------------------
(***************************************************************************)
(* An enabled schedule has a next run.  Requests write the columns that    *)
(* they changed on top of what the row became: with one request at a time, *)
(* only workers change it meanwhile, and they leave disabled schedules     *)
(* alone.                                                                  *)
(***************************************************************************)
RunsAgain(row) == row.enabled => row.next # Never

StillSeen(seen, now) == ~seen.enabled => now = seen \/ ~now.saved

Pending(r) == r.pc # "idle" => RunsAgain(r.row) /\ StillSeen(r.seen, schedule[r.schedule])

AgainInv ==
    /\ \A s \in Schedules : RunsAgain(schedule[s])
    /\ \A w \in Workers : \A s \in Taken(w) : RunsAgain(worker[w].rows[s])
    /\ \A a \in Admins : Pending(admin[a])

LEMMA MergedRunsAgain ==
    ASSUME NEW now, NEW seen, NEW row, WellFormed(now), WellFormed(seen), WellFormed(row),
           RunsAgain(now), RunsAgain(row), StillSeen(seen, now), NEW m, m = Merged(now, seen, row)
    PROVE  RunsAgain(m)
<1>1. CASE seen.saved /\ ~now.saved
  BY <1>1 DEF Merged
<1>2. CASE ~(seen.saved /\ ~now.saved)
  <2>1. /\ m.enabled = IF row.enabled # seen.enabled THEN row.enabled ELSE now.enabled
        /\ m.next = IF row.next # seen.next THEN row.next ELSE now.next
    BY <1>2 DEF Merged, Mixed
  <2>2. row.enabled \in BOOLEAN /\ seen.enabled \in BOOLEAN /\ now.enabled \in BOOLEAN
    BY DEF WellFormed, Row
  <2>3. ~seen.enabled => now = seen
    BY <1>2 DEF StillSeen, WellFormed
  <2> QED
    BY <2>1, <2>2, <2>3 DEF RunsAgain
<1> QED
  BY <1>1, <1>2

LEMMA EditedRunsAgain ==
    ASSUME NEW row, WellFormed(row), NEW c \in Crons, NEW zone \in Zones, NEW enabled \in BOOLEAN,
           ~(enabled /\ NextRunAt[c][zone][clock] = Never)
    PROVE  RunsAgain(Edited(row, c, zone, enabled))
<1> DEFINE next == IF enabled THEN NextRunAt[c][zone][clock] ELSE Never
<1>1. enabled => next # Never
  OBVIOUS
<1> HIDE DEF next
<1>2. Edited(row, c, zone, enabled) =
        [row EXCEPT !.saved = TRUE, !.cron = c, !.zone = zone, !.enabled = enabled, !.next = next]
  BY DEF Edited, next
<1> QED
  BY <1>1, <1>2 DEF WellFormed, Row, RunsAgain

LEMMA AnsweredRunsAgain ==
    ASSUME NEW row, WellFormed(row), row.saved, NEW now \in Times
    PROVE  RunsAgain(Answered(row, now))
<1> DEFINE next == NextRunAt[row.cron][row.zone][now]
<1>1. Answered(row, now) = [row EXCEPT !.enabled = (next # Never), !.next = next]
  BY DEF Answered
<1> HIDE DEF next
<1>2. (next # Never) \in BOOLEAN
  OBVIOUS
<1> QED
  BY <1>1, <1>2 DEF WellFormed, Row, RunsAgain

\* the table and the transactions change, not the requests
LEMMA RequestsKeep ==
    ASSUME AgainInv, TypeOK, UNCHANGED admin,
           \A s \in Schedules : RunsAgain(schedule'[s]),
           \A w \in Workers : \A s \in Taken(w)' : RunsAgain(worker'[w].rows[s]),
           \A s \in Schedules : schedule'[s] = schedule[s] \/ ~schedule'[s].saved \/ schedule[s].enabled
    PROVE  AgainInv'
<1>1. ASSUME NEW a \in Admins PROVE Pending(admin[a])'
  <2> SUFFICES ASSUME admin[a].pc # "idle", admin' = admin
               PROVE  RunsAgain(admin[a].row) /\ StillSeen(admin[a].seen, schedule'[admin[a].schedule])
    BY DEF Pending
  <2>1. RunsAgain(admin[a].row) /\ StillSeen(admin[a].seen, schedule[admin[a].schedule])
    BY DEF AgainInv, Pending
  <2>2. admin[a].schedule \in Schedules /\ WellFormed(schedule[admin[a].schedule])
    BY DEF TypeOK, Meant
  <2>3. schedule[admin[a].schedule].enabled => schedule[admin[a].schedule].saved
    BY <2>2 DEF WellFormed, NoRow
  <2> QED
    BY <2>1, <2>2, <2>3 DEF StillSeen
<1> QED
  BY <1>1 DEF AgainInv

\* a request moves
LEMMA RequestGoesOn ==
    ASSUME AgainInv, TypeOK, NEW a \in Admins, NEW r, admin' = [admin EXCEPT ![a] = r],
           UNCHANGED <<schedule, worker>>,
           r.pc # "idle" => RunsAgain(r.row) /\ StillSeen(r.seen, schedule[r.schedule])
    PROVE  AgainInv'
<1>1. ASSUME NEW b \in Admins PROVE Pending(admin[b])'
  BY DEF AgainInv, Pending, TypeOK
<1>2. \A w \in Workers : Taken(w)' = Taken(w)
  OBVIOUS
<1> QED
  BY <1>1, <1>2 DEF AgainInv

LEMMA AgainNext ==
    ASSUME \A a, b \in Admins : a = b, Answering, AgainInv, [Next]_vars
    PROVE  AgainInv'
<1>0. TypeOK /\ \A s \in Schedules : RunsAgain(schedule[s])
  BY DEF Answering, AgainInv
<1>1. CASE UNCHANGED vars \/ TimePasses \/ \E k \in Kinds : JobEnds(k)
  <2>1. UNCHANGED <<schedule, worker, admin>>
    BY <1>1 DEF vars, TimePasses, JobEnds
  <2> QED
    BY <1>0, <2>1, RequestsKeep DEF AgainInv
<1>2. ASSUME NEW s \in Schedules, RunsNow(s) PROVE AgainInv'
  BY <1>0, <1>2, RequestsKeep DEF RunsNow, AgainInv
<1>3. ASSUME NEW w \in Workers, NEW t, worker' = [worker EXCEPT ![w] = t], UNCHANGED <<schedule, admin>>,
             \A s \in t.taken : RunsAgain(t.rows[s])
      PROVE  AgainInv'
  <2>1. \A v \in Workers : \A s \in Taken(v)' : RunsAgain(worker'[v].rows[s])
    BY <1>0, <1>3 DEF AgainInv, TypeOK
  <2> QED
    BY <1>0, <1>3, <2>1, RequestsKeep
<1>4. ASSUME NEW w \in Workers, ReadsClock(w) PROVE AgainInv'
  <2>1. PICK t : t = [IdleWorker EXCEPT !.pc = "asking", !.now = clock]
    OBVIOUS
  <2>2. t.taken = {}
    BY <2>1 DEF IdleWorker
  <2> QED
    BY <1>3, <1>4, <2>1, <2>2 DEF ReadsClock
<1>5. ASSUME NEW w \in Workers, TakesDue(w) PROVE AgainInv'
  <2>1. PICK t \in WorkerState :
           /\ worker' = [worker EXCEPT ![w] = t] /\ t.taken \subseteq Schedules
           /\ \A s \in t.taken : t.rows[s] = schedule[s]
    BY <1>0, <1>5, TakesSome
  <2>2. UNCHANGED <<schedule, admin>>
    BY <1>0, <1>5, TakesSome
  <2> QED
    BY <1>0, <1>3, <2>1, <2>2
<1>6. ASSUME NEW w \in Workers, RunsSchedule(w) PROVE AgainInv'
  <2>1. PICK s \in worker[w].todo, jobs \in SUBSET Kinds :
           worker' = [worker EXCEPT ![w] = AfterAnswer(worker[w], s, jobs)]
    BY <1>0, <1>6, AnswersOne
  <2>2. PICK t : t = worker[w]
    OBVIOUS
  <2>3. t \in WorkerState /\ Transaction(t) /\ t.pc = "taken" /\ s \in t.todo
    BY <1>0, <1>6, <2>1, <2>2, AnswersOne DEF TypeOK
  <2>4. s \in t.taken /\ t.now \in Times /\ WellFormed(t.rows[s]) /\ t.rows[s].saved
    BY <2>3 DEF WorkerState, Transaction
  <2>5. PICK row : row = Answered(t.rows[s], t.now)
    OBVIOUS
  <2>6. RunsAgain(row)
    BY <2>4, <2>5, AnsweredRunsAgain
  <2>7. PICK after : after = AfterAnswer(t, s, jobs)
    OBVIOUS
  <2>8. after.taken = t.taken /\ after.rows = [t.rows EXCEPT ![s] = row]
    BY <2>3, <2>5, <2>7 DEF AfterAnswer, WorkerState
  <2>9. \A x \in t.taken : x \in Schedules /\ RunsAgain(t.rows[x])
    BY <2>2, <2>3 DEF AgainInv, WorkerState
  <2>10. \A x \in after.taken : RunsAgain(after.rows[x])
    BY <2>3, <2>6, <2>8, <2>9 DEF WorkerState
  <2>11. UNCHANGED <<schedule, admin>>
    BY <1>0, <1>6, AnswersOne
  <2> QED
    BY <1>3, <2>1, <2>2, <2>7, <2>10, <2>11
<1>7. ASSUME NEW w \in Workers, Commits(w) PROVE AgainInv'
  <2>1. /\ schedule' = [s \in Schedules |-> IF s \in Taken(w) THEN worker[w].rows[s] ELSE schedule[s]]
        /\ worker' = [worker EXCEPT ![w] = IdleWorker] /\ admin' = admin
    BY <1>7 DEF Commits
  <2>2. \A s \in Schedules : RunsAgain(schedule'[s])
    BY <1>0, <2>1 DEF AgainInv
  <2>3. \A v \in Workers : \A s \in Taken(v)' : RunsAgain(worker'[v].rows[s])
    BY <1>0, <2>1 DEF AgainInv, TypeOK, IdleWorker
  <2>4. \A s \in Taken(w) : schedule[s].enabled
    BY DEF Answering, InHand
  <2> QED
    BY <1>0, <2>1, <2>2, <2>3, <2>4, RequestsKeep
<1>8. ASSUME NEW w \in Workers, RollsBack(w) PROVE AgainInv'
  <2>1. IdleWorker.taken = {}
    BY DEF IdleWorker
  <2> QED
    BY <1>3, <1>8, <2>1 DEF RollsBack
<1>9. ASSUME NEW a \in Admins, NEW s \in Schedules, Opens(a, s) PROVE AgainInv'
  <2>1. PICK r : r = [pc |-> "open", schedule |-> s, seen |-> schedule[s], row |-> schedule[s]]
    OBVIOUS
  <2>2. admin' = [admin EXCEPT ![a] = r] /\ UNCHANGED <<schedule, worker>>
    BY <1>9, <2>1 DEF Opens
  <2>3. RunsAgain(r.row) /\ StillSeen(r.seen, schedule[r.schedule])
    BY <1>0, <2>1 DEF StillSeen
  <2> QED
    BY <1>0, <2>2, <2>3, RequestGoesOn
<1>10. ASSUME NEW a \in Admins, Edits(a) PROVE AgainInv'
  <2>1. PICK c \in Crons, zone \in Zones, enabled \in BOOLEAN :
           admin' = [admin EXCEPT ![a] =
             IF enabled /\ NextRunAt[c][zone][clock] = Never THEN IdleAdmin
             ELSE [admin[a] EXCEPT !.pc = "saving", !.row = Edited(admin[a].row, c, zone, enabled)]]
    BY <1>10 DEF Edits
  <2>2. /\ admin[a] \in RequestState /\ WellFormed(admin[a].row) /\ admin[a].pc = "open"
        /\ UNCHANGED <<schedule, worker>> /\ StillSeen(admin[a].seen, schedule[admin[a].schedule])
    BY <1>0, <1>10 DEF Edits, TypeOK, Meant, AgainInv, Pending
  <2>3. CASE enabled /\ NextRunAt[c][zone][clock] = Never
    <3>1. admin' = [admin EXCEPT ![a] = IdleAdmin] /\ IdleAdmin.pc = "idle"
      BY <2>1, <2>3 DEF IdleAdmin
    <3> QED
      BY <1>0, <2>2, <3>1, RequestGoesOn
  <2>4. CASE ~(enabled /\ NextRunAt[c][zone][clock] = Never)
    <3>1. PICK row : row = Edited(admin[a].row, c, zone, enabled)
      OBVIOUS
    <3>2. RunsAgain(row)
      BY <2>2, <2>4, <3>1, EditedRunsAgain
    <3>3. PICK r : r = [admin[a] EXCEPT !.pc = "saving", !.row = row]
      OBVIOUS
    <3>4. r.row = row /\ r.seen = admin[a].seen /\ r.schedule = admin[a].schedule
      BY <2>2, <3>3 DEF RequestState
    <3>5. admin' = [admin EXCEPT ![a] = r]
      BY <2>1, <2>4, <3>1, <3>3
    <3> QED
      BY <1>0, <2>2, <3>2, <3>4, <3>5, RequestGoesOn
  <2> QED
    BY <2>3, <2>4
<1>11. ASSUME NEW a \in Admins, Saves(a) PROVE AgainInv'
  <2>1. PICK r : r = admin[a]
    OBVIOUS
  <2>2. /\ r \in RequestState /\ Meant(r) /\ r.pc = "saving"
        /\ RunsAgain(r.row) /\ StillSeen(r.seen, schedule[r.schedule])
    BY <1>0, <1>11, <2>1 DEF TypeOK, Saves, Writes, AgainInv, Pending
  <2>3. r.schedule \in Schedules /\ WellFormed(schedule[r.schedule]) /\ WellFormed(r.seen) /\ WellFormed(r.row)
    BY <1>0, <2>2 DEF Meant, TypeOK
  <2>4. PICK m : m = Merged(schedule[r.schedule], r.seen, r.row)
    OBVIOUS
  <2>5. RunsAgain(m)
    BY <1>0, <2>2, <2>3, <2>4, MergedRunsAgain
  <2>6. schedule' = [schedule EXCEPT ![r.schedule] = m] /\ admin' = [admin EXCEPT ![a] = IdleAdmin] /\ worker' = worker
    BY <1>0, <1>11, <2>1, <2>3, <2>4 DEF Saves, Writes, TypeOK
  <2>7. \A b \in Admins : admin'[b].pc = "idle"
    BY <1>0, <2>6 DEF TypeOK, IdleAdmin
  <2>8. \A s \in Schedules : RunsAgain(schedule'[s])
    BY <1>0, <2>3, <2>5, <2>6 DEF TypeOK
  <2> QED
    BY <2>6, <2>7, <2>8 DEF AgainInv, Pending
<1>12. ASSUME NEW s \in Schedules, Deletes(s) PROVE AgainInv'
  <2>1. schedule' = [schedule EXCEPT ![s] = NoRow] /\ UNCHANGED <<worker, admin>>
    BY <1>12 DEF Deletes
  <2>2. RunsAgain(NoRow) /\ ~NoRow.saved
    BY DEF RunsAgain, NoRow
  <2>3. \A x \in Schedules : RunsAgain(schedule'[x])
    BY <1>0, <2>1, <2>2 DEF TypeOK
  <2>4. \A x \in Schedules : schedule'[x] = schedule[x] \/ ~schedule'[x].saved
    BY <1>0, <2>1, <2>2 DEF TypeOK
  <2> QED
    BY <1>0, <2>1, <2>3, <2>4, RequestsKeep DEF AgainInv
<1> QED
  BY <1>1, <1>2, <1>4, <1>5, <1>6, <1>7, <1>8, <1>9, <1>10, <1>11, <1>12
     DEF Next, Housekeeping, Request

(***************************************************************************)
(* An enabled schedule has a next run, whatever workers write between what *)
(* a request read and what it writes (save_schedule): with one request at  *)
(* a time.  With two the columns of one can complete those of the other.   *)
(***************************************************************************)
THEOREM EnabledIsNotForgotten ==
    ASSUME \A a, b \in Admins : a = b
    PROVE  Spec => []EnabledRunsAgain
<1>1. Init => AgainInv
  <2> SUFFICES ASSUME Init PROVE AgainInv
    OBVIOUS
  <2>1. \A s \in Schedules : RunsAgain(schedule[s])
    BY DEF Init, RunsAgain, NoRow
  <2>2. \A w \in Workers : Taken(w) = {}
    BY DEF Init, IdleWorker
  <2>3. \A a \in Admins : Pending(admin[a])
    BY DEF Init, IdleAdmin, Pending
  <2> QED
    BY <2>1, <2>2, <2>3 DEF AgainInv
<1>2. Answering /\ AgainInv /\ [Next]_vars => AgainInv'
  BY AgainNext
<1>3. AgainInv => EnabledRunsAgain
  BY DEF AgainInv, RunsAgain, EnabledRunsAgain
<1> QED
  BY <1>1, <1>2, <1>3, AnsweringIsInvariant, PTL DEF Spec
=============================================================================
