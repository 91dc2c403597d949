---------------------------- MODULE JobSchedules ----------------------------
(***************************************************************************)
(* Schedules of jobs: rows of the table `job_schedules`, the workers that  *)
(* queue the jobs of those that are due (queue.run_due_schedules, between  *)
(* two jobs of a maintenance lane) and the admins who save, run and delete *)
(* them (queue.save_schedule, backend/api/admin_jobs.py).                  *)
(*                                                                         *)
(* A worker locks the rows it found due until it commits (FOR UPDATE SKIP  *)
(* LOCKED).  An admin's request reads its row without a lock, and writes   *)
(* the columns it changed, when it can.  Both compute next_run_at from     *)
(* what they read.                                                         *)
(***************************************************************************)
EXTENDS Cron, FiniteSets

CONSTANTS
    Schedules,    \* ids of schedules
    Kinds,        \* kinds of jobs; none is concurrent
    KindOf,       \* the kind each schedule runs
    Crons,        \* the expressions admins choose from
    Zones,        \* the time zones they choose from
    Times,        \* bound: what the clock may read, minutes of UTC
    Workers,
    Admins,       \* requests being served
    MaxFailures   \* bound: how many times a worker dies or loses the database

ASSUME JobSchedulesAssumption ==
    /\ KindOf \in [Schedules -> Kinds]
    /\ \A c \in Crons : Valid(c)
    /\ \A z \in Zones :
        /\ z.change \in Int /\ z.before \in Int /\ z.after \in Int
        /\ \A t \in Times : LocalOf(z, t) \in Nat
    /\ Times \subseteq Nat /\ Times # {} /\ IsFiniteSet(Times)
    /\ MaxFailures \in Nat
    /\ Never \notin Int \cup Crons \cup Zones

\* next_run(), tabulated
NextRunAt == [c \in Crons |-> [zone \in Zones |-> [utc \in Times |-> NextRun(c, zone, utc)]]]

VARIABLES
    clock,      \* utcnow()
    schedule,   \* the table `job_schedules`
    busy,       \* the kinds with an active job
    worker,     \* each worker's transaction
    admin,      \* each request
    fired,      \* history: the due times answered since each schedule was last saved
    failures

vars == <<clock, schedule, busy, worker, admin, fired, failures>>

\* `next` is next_run_at, Never for NULL.  History: `due`, when the rows a worker took were due.
NoRow == [saved |-> FALSE, enabled |-> FALSE, cron |-> Never, zone |-> Never, next |-> Never]
IdleWorker == [pc |-> "idle", now |-> Never, taken |-> {}, todo |-> {}, jobs |-> {},
               rows |-> [s \in Schedules |-> NoRow], due |-> [s \in Schedules |-> Never]]
IdleAdmin == [pc |-> "idle", schedule |-> Never, seen |-> NoRow, row |-> NoRow]

Init ==
    /\ clock \in Times /\ \A t \in Times : clock <= t
    /\ schedule = [s \in Schedules |-> NoRow]
    /\ busy = {}
    /\ worker = [w \in Workers |-> IdleWorker]
    /\ admin = [a \in Admins |-> IdleAdmin]
    /\ fired = [s \in Schedules |-> {}]
    /\ failures = 0

Taken(w) == worker[w].taken
Locked(s) == \E w \in Workers : s \in Taken(w)
IsDue(row, now) == row.saved /\ row.enabled /\ row.next # Never /\ row.next <= now

TimePasses ==
    /\ \E t \in Times : clock < t /\ clock' = t /\ \A u \in Times : clock < u => t <= u
    /\ UNCHANGED <<schedule, busy, worker, admin, fired, failures>>

\* the job of a kind ends: the work of JobQueue
JobEnds(k) ==
    /\ k \in busy
    /\ busy' = busy \ {k}
    /\ UNCHANGED <<clock, schedule, worker, admin, fired, failures>>

-----------------------------------------------------------------------------
(***************************************************************************)
(* run_due_schedules(): one transaction.                                   *)
(***************************************************************************)
ReadsClock(w) ==
    /\ worker[w].pc = "idle"
    /\ worker' = [worker EXCEPT ![w] = [IdleWorker EXCEPT !.pc = "asking", !.now = clock]]
    /\ UNCHANGED <<clock, schedule, busy, admin, fired, failures>>

Takes(w, S) ==
    /\ worker[w].pc = "asking"
    /\ worker' = [worker EXCEPT ![w] =
         IF S = {} THEN IdleWorker
         ELSE [@ EXCEPT !.pc = "taken", !.taken = S, !.todo = S,
                        !.rows = [s \in Schedules |-> IF s \in S THEN schedule[s] ELSE NoRow],
                        !.due = [s \in Schedules |-> IF s \in S THEN schedule[s].next ELSE Never]]]
    /\ UNCHANGED <<clock, schedule, busy, admin, fired, failures>>

\* Bug variant: the rows are read without a lock.
TakesUnlocked(w) == Takes(w, {s \in Schedules : IsDue(schedule[s], worker[w].now)})

\* the due schedules that no other transaction holds
TakesDue(w) == Takes(w, {s \in Schedules : IsDue(schedule[s], worker[w].now) /\ ~Locked(s)})

\* the next run after the time the transaction began with; a schedule that never runs again is
\* disabled
Answered(row, now) ==
    LET next == NextRunAt[row.cron][row.zone][now] IN
    [row EXCEPT !.enabled = next # Never, !.next = next]

\* run_schedule() is skipped when a job of the kind is active, also one that this
\* transaction just queued
Skipped(w, s) == KindOf[s] \in busy \cup worker[w].jobs

Answers(w, s, row) ==
    /\ worker[w].pc = "taken"
    /\ s \in worker[w].todo
    /\ \A o \in worker[w].todo : worker[w].rows[s].next <= worker[w].rows[o].next
    /\ LET t == worker[w] IN
        worker' = [worker EXCEPT ![w] =
          [t EXCEPT !.todo = t.todo \ {s},
                    !.rows = [t.rows EXCEPT ![s] = row],
                    !.jobs = IF Skipped(w, s) THEN t.jobs ELSE t.jobs \cup {KindOf[s]}]]
    /\ UNCHANGED <<clock, schedule, busy, admin, fired, failures>>

\* Bug variant: a schedule that is skipped keeps its due time.
RunsIfFree(w) == \E s \in Taken(w) :
    LET row == worker[w].rows[s] IN
    Answers(w, s, IF Skipped(w, s) THEN row ELSE Answered(row, worker[w].now))

\* the earliest of its due schedules
RunsSchedule(w) ==
    \E s \in Taken(w) : Answers(w, s, Answered(worker[w].rows[s], worker[w].now))

Commits(w) ==
    /\ worker[w].pc = "taken" /\ worker[w].todo = {}
    /\ schedule' = [s \in Schedules |-> IF s \in Taken(w) THEN worker[w].rows[s] ELSE schedule[s]]
    /\ busy' = busy \cup worker[w].jobs
    /\ fired' = [s \in Schedules |->
                    IF s \in Taken(w) THEN fired[s] \cup {worker[w].due[s]} ELSE fired[s]]
    /\ worker' = [worker EXCEPT ![w] = IdleWorker]
    /\ UNCHANGED <<clock, admin, failures>>

\* the worker dies or a statement fails: nothing was written, the locks are released
RollsBack(w) ==
    /\ worker[w].pc = "taken"
    /\ failures < MaxFailures /\ failures' = failures + 1
    /\ worker' = [worker EXCEPT ![w] = IdleWorker]
    /\ UNCHANGED <<clock, schedule, busy, admin, fired>>

-----------------------------------------------------------------------------
(***************************************************************************)
(* Admins.                                                                 *)
(***************************************************************************)
\* get_schedule_or_404(), or JobSchedule() for a new one
Opens(a, s) ==
    /\ admin[a].pc = "idle"
    /\ schedule[s].saved \/ \A b \in Admins : admin[b].schedule # s
    /\ admin' = [admin EXCEPT ![a] = [pc |-> "open", schedule |-> s, seen |-> schedule[s],
                                      row |-> schedule[s]]]
    /\ UNCHANGED <<clock, schedule, busy, worker, fired, failures>>

\* Bug variant: only a new expression has its next run computed.
EditedIfNew(row, c, zone, enabled) ==
    [row EXCEPT !.saved = TRUE, !.cron = c, !.zone = zone, !.enabled = enabled,
                !.next = IF c = row.cron THEN @ ELSE IF enabled THEN NextRunAt[c][zone][clock] ELSE Never]

\* the fields of the request on the row it read
Edited(row, c, zone, enabled) ==
    [row EXCEPT !.saved = TRUE, !.cron = c, !.zone = zone, !.enabled = enabled,
                !.next = IF enabled THEN NextRunAt[c][zone][clock] ELSE Never]

\* save_schedule() up to its flush; an enabled schedule that never runs is refused
Edits(a) ==
    /\ admin[a].pc = "open"
    /\ \E c \in Crons, zone \in Zones, enabled \in BOOLEAN :
        admin' = [admin EXCEPT ![a] =
          IF enabled /\ NextRunAt[c][zone][clock] = Never THEN IdleAdmin
          ELSE [@ EXCEPT !.pc = "saving", !.row = Edited(admin[a].row, c, zone, enabled)]]
    /\ UNCHANGED <<clock, schedule, busy, worker, fired, failures>>

Mixed(now, seen, row) ==
    LET Column(c) == IF row[c] # seen[c] THEN row[c] ELSE now[c] IN
    [saved |-> Column("saved"), enabled |-> Column("enabled"), cron |-> Column("cron"),
     zone |-> Column("zone"), next |-> Column("next")]

\* Bug variant: a row that was deleted meanwhile is written.
MergedBlindly(now, seen, row) == Mixed(now, seen, row)

\* the columns that differ from what was read are written; the request fails if the row is
\* gone
Merged(now, seen, row) == IF seen.saved /\ ~now.saved THEN now ELSE Mixed(now, seen, row)

Writes(a) ==
    /\ admin[a].pc = "saving"
    /\ LET r == admin[a] IN
        /\ schedule' = [schedule EXCEPT ![r.schedule] = Merged(@, r.seen, r.row)]
        /\ fired' = [fired EXCEPT ![r.schedule] = {}]
    /\ admin' = [admin EXCEPT ![a] = IdleAdmin]
    /\ UNCHANGED <<clock, busy, worker, failures>>

\* Bug variant: the request does not wait for the worker that holds the row.
SavesAnyway(a) == Writes(a)

\* flush() and commit, once the row is free
Saves(a) == ~Locked(admin[a].schedule) /\ Writes(a)

\* admin_run_job_schedule(): refused when its kind is busy; the next run doesn't change
RunsNow(s) ==
    /\ schedule[s].saved /\ ~Locked(s)
    /\ KindOf[s] \notin busy
    /\ busy' = busy \cup {KindOf[s]}
    /\ UNCHANGED <<clock, schedule, worker, admin, fired, failures>>

Deletes(s) ==
    /\ schedule[s].saved /\ ~Locked(s)
    /\ schedule' = [schedule EXCEPT ![s] = NoRow]
    /\ fired' = [fired EXCEPT ![s] = {}]
    /\ UNCHANGED <<clock, busy, worker, admin, failures>>

-----------------------------------------------------------------------------
Housekeeping(w) == ReadsClock(w) \/ TakesDue(w) \/ RunsSchedule(w) \/ Commits(w)

Request(a) == Edits(a) \/ Saves(a) \/ \E s \in Schedules : Opens(a, s)

Next ==
    \/ TimePasses
    \/ \E k \in Kinds : JobEnds(k)
    \/ \E w \in Workers : Housekeeping(w) \/ RollsBack(w)
    \/ \E a \in Admins : Request(a)
    \/ \E s \in Schedules : RunsNow(s) \/ Deletes(s)

Spec == Init /\ [][Next]_vars

\* workers look for due schedules again and again, between their maintenance jobs
FairSpec == Spec /\ \A w \in Workers : WF_vars(Housekeeping(w))

-----------------------------------------------------------------------------
Row == [saved : BOOLEAN, enabled : BOOLEAN, cron : Crons \cup {Never}, zone : Zones \cup {Never},
        next : Int \cup {Never}]

\* a saved schedule has an expression and a zone, a deleted one has nothing
WellFormed(row) ==
    /\ row \in Row
    /\ row.saved => row.cron \in Crons /\ row.zone \in Zones
    /\ ~row.saved => row = NoRow

WorkerState == [pc : {"idle", "asking", "taken"}, now : Times \cup {Never},
                taken : SUBSET Schedules, todo : SUBSET Schedules, jobs : SUBSET Kinds,
                rows : [Schedules -> Row], due : [Schedules -> Int \cup {Never}]]
Transaction(t) ==
    /\ t.pc # "idle" => t.now \in Times
    /\ (t.pc = "taken") = (t.taken # {})
    /\ t.todo \subseteq t.taken
    /\ \A s \in Schedules : WellFormed(t.rows[s])
    /\ \A s \in t.taken : t.rows[s].saved /\ t.due[s] \in Int

RequestState == [pc : {"idle", "open", "saving"}, schedule : Schedules \cup {Never}, seen : Row, row : Row]
Meant(r) ==
    /\ r.pc # "idle" => r.schedule \in Schedules
    /\ WellFormed(r.seen) /\ WellFormed(r.row)
    /\ r.pc = "saving" => r.row.saved

\* The shape of the rows and of the local states: a schedule is whole or absent, whoever
\* wrote it, and a transaction holds rows when it took some.
TypeOK ==
    /\ clock \in Times /\ busy \subseteq Kinds /\ failures \in 0..MaxFailures
    /\ schedule \in [Schedules -> Row] /\ \A s \in Schedules : WellFormed(schedule[s])
    /\ worker \in [Workers -> WorkerState] /\ \A w \in Workers : Transaction(worker[w])
    /\ admin \in [Admins -> RequestState] /\ \A a \in Admins : Meant(admin[a])
    /\ fired \in [Schedules -> SUBSET Int]

\* "Safe with several workers: each schedule is taken by one" (run_due_schedules): however
\* workers, admins and failures interleave, a due time is answered once until the schedule
\* is saved again.
OncePerDueTime ==
    [][\A w \in Workers : Commits(w) =>
          \A s \in Taken(w) : worker[w].due[s] \notin fired[s]]_vars

\* A schedule that an admin disabled or deleted, and whose request was answered, does not
\* queue a job: not even by a worker that found it due before.
DisabledStaysQuiet ==
    [][\A w \in Workers : Commits(w) => \A s \in Taken(w) : schedule[s].enabled]_vars

\* An enabled schedule has a next run: whatever wrote its row last, it is not forgotten.
EnabledRunsAgain == \A s \in Schedules : schedule[s].enabled => schedule[s].next # Never

\* "Starts the jobs of schedules when they're due" (worker.py): a due schedule is run or
\* skipped, and due no more, or an admin changes it.
DueIsAnswered ==
    \A s \in Schedules : IsDue(schedule[s], clock) ~> ~IsDue(schedule[s], clock)

\* "The next run after `after_utc`" (cron.next_run): a schedule that was just answered is
\* not due any more.
AnsweredIsNotDue ==
    \A w \in Workers : \A s \in Taken(w) \ worker[w].todo :
        ~IsDue(worker[w].rows[s], worker[w].now)
=============================================================================
