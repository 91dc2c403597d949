------------------------------ MODULE JobQueue ------------------------------
(***************************************************************************)
(* The server's jobs: rows of the table `jobs` (backend/jobs/queue.py),    *)
(* the workers that claim and run them (backend/jobs/worker.py), the       *)
(* reporter a running job writes through (backend/jobs/report.py) and the  *)
(* admins who create and cancel them (backend/api/admin_jobs.py).          *)
(*                                                                         *)
(* One action is one database transaction, or one stretch of Python        *)
(* between two of them.  What a request or a worker has READ before its    *)
(* transaction ends is part of its local state (admin[a].seen,             *)
(* thread[t].seen): nothing locks the row in between, so both can be stale *)
(* when they write.                                                        *)
(***************************************************************************)
EXTENDS Naturals, FiniteSets

CONSTANTS
    MaxJobs,      \* bound: how many jobs are ever created
    Workers,      \* worker ids, "hostname:pid"
    Lanes,        \* the worker's lanes: a subset of {"maintenance", "interactive"}
    Kinds,        \* what jobs can do
    Interactive,  \* the kinds of the interactive lane (kinds.INTERACTIVE)
    Concurrent,   \* the kinds that may have several active jobs (module.CONCURRENT)
    Admins,       \* requests being served: admins, users and due schedules
    Forces,       \* what requests to cancel may ask for: a subset of BOOLEAN (`force`)
    MaxAttempts,  \* queue.MAX_ATTEMPTS
    Faults,       \* what can go wrong, a subset of FaultKinds
    MaxFaults,    \* bound: how many times something goes wrong
    NoJob, NoWorker, NoKind

(***************************************************************************)
(* "kill"     the worker's process dies: SIGKILL, out of memory, reboot    *)
(* "term"     SIGTERM, e.g. a deploy                                       *)
(* "db"       a statement of a worker fails, e.g. the database restarts    *)
(* "silence"  a live worker's heartbeats don't reach the database for      *)
(*            STALE_AFTER: a paused machine, a cut network                 *)
(* "slow"     a worker goes on for STALE_AFTER after SIGTERM without       *)
(*            reporting: its heartbeat thread stopped with the signal      *)
(***************************************************************************)
FaultKinds == {"kill", "term", "db", "silence", "slow"}

ASSUME JobQueueAssumption ==
    /\ MaxJobs \in Nat /\ MaxAttempts \in Nat /\ MaxFaults \in Nat
    /\ Lanes \subseteq {"maintenance", "interactive"} /\ "maintenance" \in Lanes
    /\ Interactive \subseteq Kinds /\ Concurrent \subseteq Kinds
    /\ Interactive # {} => "interactive" \in Lanes
    /\ Faults \subseteq FaultKinds /\ Forces \subseteq BOOLEAN
    /\ NoWorker \notin Workers
    /\ NoKind \notin Kinds
    /\ NoJob \notin 1..MaxJobs

Jobs == 1..MaxJobs
Threads == Workers \X Lanes

\* queue.ACTIVE and queue.FINISHED; "done" stands for done_with_errors too, which
\* differs by a counter of the reporter
Active == {"queued", "running"}
Finished == {"done", "failed", "cancelled"}
Statuses == Active \cup Finished \cup {"none"}   \* "none": no such row yet

\* Bug variant: every kind waits for the same thread.
LaneOfAll(k) == "maintenance"

LaneOf(k) == IF k \in Interactive THEN "interactive" ELSE "maintenance"

VARIABLES
    job,      \* the table `jobs`
    proc,     \* each worker's process
    thread,   \* where each lane's thread is, and what it holds
    running,  \* Worker.running: what the heartbeat thread keeps alive
    admin,    \* what each request is doing
    worked,   \* history: the jobs whose module.run() went through everything it had to do
    faults    \* how many things went wrong so far

vars == <<job, proc, thread, running, admin, worked, faults>>

NoRow == [kind |-> NoKind, status |-> "none", worker |-> NoWorker, attempts |-> 0,
          cancel |-> FALSE, fresh |-> FALSE]
IdleThread == [pc |-> "idle", job |-> NoJob, heard |-> FALSE, outcome |-> "none",
               status |-> "none", worker |-> NoWorker]
IdleAdmin == [pc |-> "idle", kind |-> NoKind, job |-> NoJob, seen |-> "none", force |-> FALSE]

(***************************************************************************)
(* A thread between claim() and the end of run() holds its job.            *)
(***************************************************************************)
Holding == {"claimed", "registered", "work", "ended", "flushed", "decided"}
Holds(t, j) == thread[t].pc \in Holding /\ thread[t].job = j

Init ==
    /\ job = [j \in Jobs |-> NoRow]
    /\ proc = [w \in Workers |-> "down"]
    /\ thread = [t \in Threads |-> IdleThread]
    /\ running = [t \in Threads |-> NoJob]
    /\ admin = [a \in Admins |-> IdleAdmin]
    /\ worked = [j \in Jobs |-> FALSE]
    /\ faults = 0

\* one row, and one thread's local state, written
Writes(j, row) == job' = [job EXCEPT ![j] = row]
Moves(t, state) == thread' = [thread EXCEPT ![t] = state]

Fault(f) == f \in Faults /\ faults < MaxFaults /\ faults' = faults + 1

-----------------------------------------------------------------------------
(***************************************************************************)
(* Requests.  queue.create() looks for an active job of the kind, then     *)
(* inserts; the caller commits later.  queue.cancel() changes the row its  *)
(* request read.                                                           *)
(***************************************************************************)
ActiveJobs(k) == {j \in Jobs : job[j].kind = k /\ job[j].status \in Active}
NewIds == {j \in Jobs : job[j].status = "none"}
Creating == {a \in Admins : admin[a].pc = "creating"}

\* Bug variant: only a running job makes its kind busy.
AsksWhenNoneRuns(a, k) ==
    /\ admin[a].pc = "idle"
    /\ k \in Concurrent \/ \A j \in ActiveJobs(k) : job[j].status # "running"
    /\ Cardinality(Creating) < Cardinality(NewIds)
    /\ admin' = [admin EXCEPT ![a] = [IdleAdmin EXCEPT !.pc = "creating", !.kind = k]]
    /\ UNCHANGED <<job, proc, thread, running, worked, faults>>

\* create() up to its flush: refused when active_job(kind) finds one.  An id is kept
\* for each request that passed (bound: MaxJobs).
AsksForJob(a, k) ==
    /\ admin[a].pc = "idle"
    /\ k \in Concurrent \/ ActiveJobs(k) = {}
    /\ Cardinality(Creating) < Cardinality(NewIds)
    /\ admin' = [admin EXCEPT ![a] = [IdleAdmin EXCEPT !.pc = "creating", !.kind = k]]
    /\ UNCHANGED <<job, proc, thread, running, worked, faults>>

InsertsJob(a) ==
    /\ admin[a].pc = "creating"
    /\ \E j \in NewIds :
        /\ \A i \in NewIds : j <= i
        /\ Writes(j, [NoRow EXCEPT !.kind = admin[a].kind, !.status = "queued"])
    /\ admin' = [admin EXCEPT ![a] = IdleAdmin]
    /\ UNCHANGED <<proc, thread, running, worked, faults>>

\* admin_cancel_job() up to its check of the status
AsksToCancel(a, j, force) ==
    /\ admin[a].pc = "idle"
    /\ job[j].status \in Active
    /\ admin' = [admin EXCEPT ![a] = [IdleAdmin EXCEPT !.pc = "cancelling", !.job = j,
                                                       !.seen = job[j].status, !.force = force]]
    /\ UNCHANGED <<job, proc, thread, running, worked, faults>>

\* queue.cancel() and the commit: the columns it assigned, on the row as it is now
Cancels(a) ==
    /\ admin[a].pc = "cancelling"
    /\ LET r == admin[a] IN
       Writes(r.job, [job[r.job] EXCEPT
         !.status = IF r.seen = "queued" \/ r.force THEN "cancelled" ELSE @,
         !.cancel = @ \/ r.seen = "running"])
    /\ admin' = [admin EXCEPT ![a] = IdleAdmin]
    /\ UNCHANGED <<proc, thread, running, worked, faults>>

-----------------------------------------------------------------------------
(***************************************************************************)
(* Heartbeats.  A running job is stale when its heartbeat is STALE_AFTER   *)
(* old: `fresh` says it is not.  The heartbeat thread renews it for the    *)
(* jobs in Worker.running, until SIGTERM.                                  *)
(***************************************************************************)
Alive(w) == proc[w] # "down"

Beaten(w, j) == job[j].worker = w /\ \E l \in Lanes : running[w, l] = j

\* Bug variant: the heartbeat thread says the worker is alive, and forgets its jobs.
KeptWhenClaimed(j) == \E w \in Workers, l \in Lanes :
    Alive(w) /\ job[j].worker = w /\ Holds(<<w, l>>, j) /\ thread[w, l].pc # "work"

\* Some worker renews the heartbeat of job j: its heartbeat thread, or after SIGTERM the
\* reports of its run, which are only far apart while the job's own work goes on.
Kept(j) == \E w \in Workers, l \in Lanes :
    /\ job[j].worker = w
    /\ \/ proc[w] = "up" /\ running[w, l] = j
       \/ /\ Alive(w) /\ Holds(<<w, l>>, j)
          /\ thread[w, l].pc = "work" => "slow" \notin Faults

BecomesStale(j) ==
    /\ job[j].status = "running" /\ job[j].fresh
    /\ Writes(j, [job[j] EXCEPT !.fresh = FALSE])
    /\ IF Kept(j) THEN Fault("silence") ELSE UNCHANGED faults
    /\ UNCHANGED <<proc, thread, running, admin, worked>>

Heartbeat(w) ==
    /\ proc[w] = "up"
    /\ \E j \in Jobs : Beaten(w, j) /\ ~job[j].fresh
    /\ job' = [j \in Jobs |-> IF Beaten(w, j) THEN [job[j] EXCEPT !.fresh = TRUE] ELSE job[j]]
    /\ UNCHANGED <<proc, thread, running, admin, worked, faults>>

-----------------------------------------------------------------------------
(***************************************************************************)
(* A lane's thread: lane_loop, tick, run_next and queue.run().             *)
(***************************************************************************)
Goes(t, pc) == Moves(t, [thread[t] EXCEPT !.pc = pc])
Returns(t) == Moves(t, IdleThread)

\* the top of lane_loop: it only stops there
BeginsTick(w, l) ==
    /\ proc[w] = "up"
    /\ thread[w, l].pc = "idle"
    /\ Goes(<<w, l>>, IF l = "maintenance" THEN "housekeeping" ELSE "claiming")
    /\ UNCHANGED <<job, proc, running, admin, worked, faults>>

Requeued(r) == IF r.cancel THEN [r EXCEPT !.status = "cancelled"]
               ELSE IF r.attempts >= MaxAttempts THEN [r EXCEPT !.status = "failed"]
               ELSE [r EXCEPT !.status = "queued", !.worker = NoWorker]

\* Bug variant: a restarting worker takes back everything that runs.
Unfinished(r) == r.status = "running"

\* Bug variant: a job that used its attempts is left alone rather than given up.
StaleWithAttempts(r) == r.status = "running" /\ ~r.fresh /\ r.attempts < MaxAttempts

Stale(r) == r.status = "running" /\ ~r.fresh

\* housekeeping(), in the maintenance lane only
RequeuesStale(w) ==
    /\ Alive(w)
    /\ thread[w, "maintenance"].pc = "housekeeping"
    /\ job' = [j \in Jobs |-> IF Stale(job[j]) THEN Requeued(job[j]) ELSE job[j]]
    /\ Goes(<<w, "maintenance">>, "claiming")
    /\ UNCHANGED <<proc, running, admin, worked, faults>>

Claimable(l) == {j \in Jobs : job[j].status = "queued" /\ LaneOf(job[j].kind) = l}

\* Bug variant: the id is lost with the transaction.
ClaimsNamelessly(w, l) ==
    /\ Alive(w)
    /\ thread[w, l].pc = "claiming"
    /\ \E j \in Claimable(l) :
        /\ \A i \in Claimable(l) : j <= i
        /\ Writes(j, [job[j] EXCEPT !.status = "running", !.worker = w, !.fresh = TRUE,
                                    !.attempts = @ + 1])
        /\ Moves(<<w, l>>, [IdleThread EXCEPT !.pc = "claimed"])
    /\ UNCHANGED <<proc, running, admin, worked, faults>>

\* queue.claim(): the oldest queued job of the lane
Claims(w, l) ==
    /\ Alive(w)
    /\ thread[w, l].pc = "claiming"
    /\ \E j \in Claimable(l) :
        /\ \A i \in Claimable(l) : j <= i
        /\ Writes(j, [job[j] EXCEPT !.status = "running", !.worker = w, !.fresh = TRUE,
                                    !.attempts = @ + 1])
        /\ Moves(<<w, l>>, [IdleThread EXCEPT !.pc = "claimed", !.job = j])
    /\ UNCHANGED <<proc, running, admin, worked, faults>>

FindsNothing(w, l) ==
    /\ Alive(w)
    /\ thread[w, l].pc = "claiming" /\ Claimable(l) = {}
    /\ Returns(<<w, l>>)
    /\ UNCHANGED <<job, proc, running, admin, worked, faults>>

\* run_next(): the job is written in Worker.running, and the worker sends a heartbeat
Registers(w, l) ==
    /\ Alive(w)
    /\ thread[w, l].pc = "claimed"
    /\ running' = [running EXCEPT ![<<w, l>>] = thread[w, l].job]
    /\ LET beaten == {running[w, k] : k \in Lanes \ {l}} \cup {thread[w, l].job} IN
       job' = [j \in Jobs |-> IF job[j].worker = w /\ j \in beaten
                              THEN [job[j] EXCEPT !.fresh = TRUE] ELSE job[j]]
    /\ Goes(<<w, l>>, "registered")
    /\ UNCHANGED <<proc, admin, worked, faults>>

\* ... or the heartbeat raises: lane_loop catches it, and Worker.running keeps the job
RegisterFails(w, l) ==
    /\ Alive(w)
    /\ thread[w, l].pc = "claimed"
    /\ Fault("db")
    /\ running' = [running EXCEPT ![<<w, l>>] = thread[w, l].job]
    /\ Returns(<<w, l>>)
    /\ UNCHANGED <<job, proc, admin, worked>>

\* Reporter.flush(): also a heartbeat, whoever the row says runs the job, and it hears
\* whether a cancel was asked for
Flush(t, pc) ==
    /\ LET j == thread[t].job IN
        /\ Writes(j, [job[j] EXCEPT !.fresh = TRUE])
        /\ Moves(t, [thread[t] EXCEPT !.pc = pc, !.heard = job[j].cancel])
    /\ UNCHANGED <<proc, running, admin, worked, faults>>

\* run() opens a reporter, whose first line "Starting" or "Resuming" is flushed
Starts(w, l) == Alive(w) /\ thread[w, l].pc = "registered" /\ Flush(<<w, l>>, "work")

\* report.log(), error() and should_stop() flush
Reports(w, l) == Alive(w) /\ thread[w, l].pc = "work" /\ Flush(<<w, l>>, "work")

\* flush() swallows its failure, e.g. while the database restarts: run() goes on with what it
\* knew of the cancel
FlushFails(w, l) ==
    /\ Alive(w)
    /\ thread[w, l].pc \in {"registered", "ended"}
    /\ Fault("db")
    /\ Goes(<<w, l>>, IF thread[w, l].pc = "registered" THEN "work" ELSE "flushed")
    /\ UNCHANGED <<job, proc, running, admin, worked>>

Ends(t, outcome) == Moves(t, [thread[t] EXCEPT !.pc = "ended", !.outcome = outcome])

\* should_stop() is true: the job returns with work left
StopsEarly(w, l) ==
    /\ Alive(w)
    /\ thread[w, l].pc = "work"
    /\ thread[w, l].heard \/ proc[w] = "stopping"
    /\ Ends(<<w, l>>, "partial")
    /\ UNCHANGED <<job, proc, running, admin, worked, faults>>

Completes(w, l) ==
    /\ Alive(w)
    /\ thread[w, l].pc = "work"
    /\ Ends(<<w, l>>, "complete")
    /\ worked' = [worked EXCEPT ![thread[w, l].job] = TRUE]
    /\ UNCHANGED <<job, proc, running, admin, faults>>

Crashes(w, l) ==
    /\ Alive(w)
    /\ thread[w, l].pc = "work"
    /\ Ends(<<w, l>>, "crash")
    /\ UNCHANGED <<job, proc, running, admin, worked, faults>>

\* report.flush(force=True)
FlushesLast(w, l) == Alive(w) /\ thread[w, l].pc = "ended" /\ Flush(<<w, l>>, "flushed")

\* Bug variant: a job that returned is done, even when it returned for a deploy.
VerdictOnReturn(w, l, r) ==
    LET t == thread[w, l] IN
    IF t.outcome = "crash" THEN "failed"
    ELSE IF t.heard \/ r.cancel THEN "cancelled"
    ELSE "done"

\* the status run() chooses, from the row it refreshed
Verdict(w, l, r) ==
    LET t == thread[w, l] IN
    IF t.outcome = "crash" THEN "failed"
    ELSE IF t.heard \/ r.cancel THEN "cancelled"
    ELSE IF proc[w] = "stopping" THEN "queued"
    ELSE "done"

\* run() reads the row again: cancelled already (force), or it decides the new status
FindsCancelled(w, l) ==
    /\ Alive(w)
    /\ thread[w, l].pc = "flushed"
    /\ job[thread[w, l].job].status = "cancelled"
    /\ running' = [running EXCEPT ![<<w, l>>] = NoJob]
    /\ Returns(<<w, l>>)
    /\ UNCHANGED <<job, proc, admin, worked, faults>>

Decides(w, l) ==
    /\ Alive(w)
    /\ thread[w, l].pc = "flushed"
    /\ LET r == job[thread[w, l].job] IN
        /\ r.status # "cancelled"
        /\ Moves(<<w, l>>, [thread[w, l] EXCEPT !.pc = "decided", !.outcome = Verdict(w, l, r),
                                                !.status = r.status, !.worker = r.worker])
    /\ UNCHANGED <<job, proc, running, admin, worked, faults>>

\* ... and writes it, whoever the row belongs to by now.  The session only writes the
\* columns whose value differs from what it read.
Saves(w, l) ==
    /\ Alive(w)
    /\ thread[w, l].pc = "decided"
    /\ LET t == thread[w, l] IN
       Writes(t.job, [job[t.job] EXCEPT
         !.status = IF t.outcome # t.status THEN t.outcome ELSE @,
         !.worker = IF t.outcome = "queued" /\ t.worker # NoWorker THEN NoWorker ELSE @])
    /\ running' = [running EXCEPT ![<<w, l>>] = NoJob]
    /\ Returns(<<w, l>>)
    /\ UNCHANGED <<proc, admin, worked, faults>>

\* a statement of run() outside its try fails: the row stays as it was
RunFails(w, l) ==
    /\ Alive(w)
    /\ thread[w, l].pc \in {"registered", "flushed", "decided"}
    /\ Fault("db")
    /\ running' = [running EXCEPT ![<<w, l>>] = NoJob]
    /\ Returns(<<w, l>>)
    /\ UNCHANGED <<job, proc, admin, worked>>

-----------------------------------------------------------------------------
(***************************************************************************)
(* The worker's process.                                                   *)
(***************************************************************************)
Boots(w) ==
    /\ proc[w] = "down"
    /\ proc' = [proc EXCEPT ![w] = "up"]
    /\ UNCHANGED <<job, thread, running, admin, worked, faults>>

IsTold(w) ==
    /\ proc[w] = "up"
    /\ Fault("term")
    /\ proc' = [proc EXCEPT ![w] = "stopping"]
    /\ UNCHANGED <<job, thread, running, admin, worked>>

\* with the process go its threads and Worker.running
Dies(w) ==
    /\ proc' = [proc EXCEPT ![w] = "down"]
    /\ thread' = [t \in Threads |-> IF t[1] = w THEN IdleThread ELSE thread[t]]
    /\ running' = [t \in Threads |-> IF t[1] = w THEN NoJob ELSE running[t]]
    /\ UNCHANGED <<job, admin, worked>>

IsKilled(w) == Alive(w) /\ Fault("kill") /\ Dies(w)

\* loop() ends when the maintenance lane has: the interactive lane's thread, a daemon,
\* has 120 seconds to end too
Exits(w) ==
    /\ proc[w] = "stopping"
    /\ thread[w, "maintenance"].pc = "idle"
    /\ Dies(w)
    /\ UNCHANGED faults

-----------------------------------------------------------------------------
Request(a) ==
    \/ \E k \in Kinds : AsksForJob(a, k)
    \/ InsertsJob(a)
    \/ \E j \in Jobs, force \in Forces : AsksToCancel(a, j, force)
    \/ Cancels(a)

\* what ends a job's own work, at a time nobody controls
Work(w, l) == Completes(w, l) \/ Crashes(w, l)

\* a statement of the thread fails
Fails(w, l) == RegisterFails(w, l) \/ FlushFails(w, l) \/ RunFails(w, l)

Step(w, l) ==
    \/ BeginsTick(w, l)
    \/ l = "maintenance" /\ RequeuesStale(w)
    \/ Claims(w, l) \/ FindsNothing(w, l)
    \/ Registers(w, l)
    \/ Starts(w, l)
    \/ StopsEarly(w, l)
    \/ FlushesLast(w, l)
    \/ FindsCancelled(w, l) \/ Decides(w, l) \/ Saves(w, l)

Next ==
    \/ \E a \in Admins : Request(a)
    \/ \E j \in Jobs : BecomesStale(j)
    \/ \E w \in Workers : Heartbeat(w) \/ Boots(w) \/ IsTold(w) \/ IsKilled(w) \/ Exits(w)
    \/ \E w \in Workers, l \in Lanes :
        Step(w, l) \/ Work(w, l) \/ Reports(w, l) \/ Fails(w, l)

Spec == Init /\ [][Next]_vars

-----------------------------------------------------------------------------
(***************************************************************************)
(* Fairness.  Threads run, the container restarts its worker (init.sh),    *)
(* the heartbeat thread beats, and time passes: a heartbeat that nobody    *)
(* renews grows old.  Nobody has to ask for anything, and nothing has to   *)
(* go wrong.                                                               *)
(***************************************************************************)
AgesUnkept(j) == ~Kept(j) /\ BecomesStale(j)

FairWorkers ==
    /\ \A w \in Workers : WF_vars(Boots(w)) /\ WF_vars(Exits(w)) /\ WF_vars(Heartbeat(w))
    /\ \A w \in Workers, l \in Lanes : WF_vars(Step(w, l))
    /\ \A j \in Jobs : WF_vars(AgesUnkept(j))

\* every job's own work ends, in hours or in seconds
FairSpec == Spec /\ FairWorkers /\ \A w \in Workers, l \in Lanes : WF_vars(Work(w, l))

\* only users' short jobs do: maintenance jobs "can take hours"
FairToUsersSpec == Spec /\ FairWorkers /\ \A w \in Workers : WF_vars(Work(w, "interactive"))

-----------------------------------------------------------------------------
Row == [kind : Kinds \cup {NoKind}, status : Statuses, worker : Workers \cup {NoWorker},
        attempts : Nat, cancel : BOOLEAN, fresh : BOOLEAN]
Outcomes == {"partial", "complete", "crash"}   \* how a job's own work ended
Verdicts == {"queued"} \cup Finished          \* the status run() chose for it
ThreadState == [pc : {"idle", "housekeeping", "claiming"} \cup Holding,
                job : Jobs \cup {NoJob}, heard : BOOLEAN,
                outcome : {"none"} \cup Outcomes \cup Verdicts,
                status : Statuses, worker : Workers \cup {NoWorker}]
AdminState == [pc : {"idle", "creating", "cancelling"}, kind : Kinds \cup {NoKind},
               job : Jobs \cup {NoJob}, seen : Statuses, force : BOOLEAN]

\* what a thread holds at each of its steps, and what a request is about
Coherent(t) ==
    /\ t.pc \in Holding => t.job \in Jobs
    /\ t.pc \in {"ended", "flushed"} => t.outcome \in Outcomes
    /\ t.pc = "decided" => t.outcome \in Verdicts
Meant(r) ==
    /\ r.pc = "cancelling" => r.job \in Jobs
    /\ r.pc = "creating" => r.kind \in Kinds

\* The shape of every row and of every thread's local state; a thread that holds a job
\* names one, and so does a request that cancels.
TypeOK ==
    /\ job \in [Jobs -> Row]
    /\ proc \in [Workers -> {"down", "up", "stopping"}]
    /\ thread \in [Threads -> ThreadState]
    /\ running \in [Threads -> Jobs \cup {NoJob}]
    /\ admin \in [Admins -> AdminState]
    /\ worked \in [Jobs -> BOOLEAN]
    /\ faults \in 0..MaxFaults
    /\ \A t \in Threads : Coherent(thread[t])
    /\ \A a \in Admins : Meant(admin[a])

\* "Several workers can run: the database decides who runs what" (worker.py): no two
\* lanes, of one worker or of two, run the same job, as long as heartbeats get through.
OneRunner ==
    \A t, u \in Threads, j \in Jobs : Holds(t, j) /\ Holds(u, j) => t = u

\* A job is only said to be done when some worker went through all of its work: not when
\* it stopped halfway for a cancel or a deploy, in whatever order its workers, the admins
\* and the housekeeping of other workers wrote its row.
DoneMeansWorked == \A j \in Jobs : job[j].status = "done" => worked[j]

\* A job that is done or failed is over: no worker, no admin and no housekeeping makes it
\* queued or running again (create() of its successor relied on it being over).
NoRedo ==
    [][\A j \in Jobs : job[j].status \in {"done", "failed"} => job'[j].status \in Finished]_vars

\* "Jobs of the same kind would do the same work twice, and fight over the same files"
\* (queue.create): one active job of a kind, unless the kind is concurrent.
OneActivePerKind ==
    \A k \in Kinds \ Concurrent : \A i, j \in ActiveJobs(k) : i = j

\* Every job ends, whatever its workers go through (requeue_stale and MAX_ATTEMPTS).
EventuallyFinished ==
    \A j \in Jobs : (job[j].status \in Active) ~> (job[j].status \in Finished)

\* "users' jobs run next to them, so users don't wait" (worker.py): a queued job of the
\* interactive lane is taken even when the maintenance job never ends.
UsersDontWait ==
    \A j \in Jobs : (job[j].status = "queued" /\ job[j].kind \in Interactive)
                      ~> (job[j].status # "queued")

\* "if it's killed, its jobs are queued again after a few minutes" (worker.py).
OrphansAreRequeued ==
    \A j \in Jobs : (job[j].status = "running" /\ ~ \E t \in Threads : Holds(t, j))
                      ~> (job[j].status # "running" \/ \E t \in Threads : Holds(t, j))

-----------------------------------------------------------------------------
(***************************************************************************)
(* JobQueue implements JobLifecycle.                                       *)
(***************************************************************************)
PhaseOf(status) == CASE status = "none" -> "absent"
                     [] status = "queued" -> "waiting"
                     [] status = "running" -> "taken"
                     [] status = "cancelled" -> "withdrawn"
                     [] OTHER -> "ended"
RunnerOf(j) == IF \E t \in Threads : Holds(t, j)
               THEN (CHOOSE t \in Threads : Holds(t, j))[1] ELSE NoWorker

Lifecycle == INSTANCE JobLifecycle WITH phase <- [j \in Jobs |-> PhaseOf(job[j].status)],
                                        runner <- [j \in Jobs |-> RunnerOf(j)]

\* Rows, requests and workers together keep the promise of JobLifecycle: one runner at a
\* time, taken only while it waits, and over for good once it ended.
ImplementsLifecycle == Lifecycle!Spec
=============================================================================
