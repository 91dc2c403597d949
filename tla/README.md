# QA-Board: specifications and proofs

TLA+ modules that follow the code of QA-Board's server and of its web application,
the TLC configurations that check them on small instances, and theorems checked by TLAPS. All paths
below are relative to the repository; "backend" is `backend/backend`.

- [The system](#the-system)
- [Plan](#plan)
- [Modules and the code](#modules-and-the-code)
- [Runs](#runs), [bounds](#bounds-and-why-they-are-enough), [fairness](#fairness)
- [Proofs](#proofs)
- [What the code does that its docs do not say](#what-the-code-does-that-its-docs-do-not-say)
- [What is not modelled, and why](#what-is-not-modelled-and-why)

To check everything: `tlc -config X.cfg M` for each row of [Runs](#runs), and
`tlapm M.tla` for each module of [Proofs](#proofs).

## The system

QA-Board runs algorithms on inputs, stores what they output, and shows the
differences between versions. A Python CLI (`qaboard/`) runs the algorithms, on
the user's machine or through a runner (LSF, Dask, Celery...), and tells a server.
The server (backend: Flask, SQLAlchemy, Postgres) keeps projects, commits, batches
and outputs, and has a worker process for what takes long. A React application
(`webapp/`) shows it all.

The web server is several uwsgi processes of several threads, each request in a
session of its own. Postgres runs at READ COMMITTED, sessions do not autoflush,
and little is locked: what a request read can be stale when it writes. The worker
is one process (`init.sh` restarts it when it ends) with two lanes, threads that
each run a job at a time, and a third thread for heartbeats. Several servers may
run side by side on one database.

| Component | State | Operations | Talks to | What is hard | What makes it correct |
|---|---|---|---|---|---|
| Job queue and worker: `jobs/queue.py`, `worker.py`, `report.py`, `models/Job.py`, `api/admin_jobs.py` | rows of `jobs`; `Worker.running`, `stop_event`; the reporter's counters and what it heard | create, cancel (force), retry, claim, run, report, heartbeat, requeue stale jobs, stop | admins, schedules, the kinds of jobs | workers that die, restart, lose the database or go silent at any step; stale reads; `force` | one runner per job; one active job per kind; done means the work was done; over is over; every job ends; users do not wait for maintenance |
| Job schedules: `jobs/cron.py`, `queue.py`, `api/admin_jobs.py` | rows of `job_schedules`: expression, zone, enabled, next run | save, disable, delete, run now, run those that are due, list next runs | the queue | several workers at once, requests that overlap them, clocks that change, dates that do not exist | a due time is answered once, and answered; disabled is quiet; the next run is the first one, and later |
| Deletions: `jobs/hard_delete.py`, `delete_runs.py`, `garbage_collect.py`, `common.py`, `storage_actions.py`, `artifacts.py` | files, rows marked deleted, cursors | delete runs, commits, folders; protect milestones and artifacts | the queue, runs, milestones | hours between reading what is protected and deleting; redo in between; resuming after a crash | nothing protected or running is deleted; nothing is skipped |
| Other kinds of jobs: `jobs/scan.py`, `usage.py`, `groups.py`, `measure_deleted.py`, `fail_stuck_runs.py` | reports | scans of the storage, LDAP groups, failing stuck runs | storage, LDAP, runs | mostly I/O | counts match |
| Runs: `models/Output.py`, `Batch.py`, `CiCommit.py`, `api/outputs.py`, `api/batch.py`, `redo.py`, `run_activity.py`, `submissions.py` | outputs: pending, running, failed, deleted; batches; commits | webhooks of a run, stop, redo, fail stuck runs, rename and delete batches | the CLI, runners, notifications | two requests that create the same row; webhooks next to stop, redo and "stuck" | one row per run; what is over stays over until redone; a run that died ends |
| Batch notifications: `notifications/batches.py`, `mail.py` | `batch_notifications`: waiting, sending, sent, cancelled | request, cancel, a run ended, send | runs, SMTP | the last runs end together; a server stops between claim and send; requests after the end | sent once, and sent |
| Tokens and sessions: `tokens.py`, `sign_in/`, `api/auth.py`, `actor.py`, `service_accounts.py` | tokens, sessions, device codes | sign in, approve a device, revoke, expire | CLI, identity providers | polling next to approval, revocation next to use | a revoked one is refused; a code is used once |
| Access rules: `access/`, `ci_trust.py`, `first_admin.py` | grants, groups, trusted CI | grant, revoke, decide | every request | precedence of grants | decisions follow the grants |
| Storage usage: `storage_usage.py`, `usage.py` | sizes by project and user | refresh, scan | deletions, runs | incremental refresh next to writes | sums agree with the rows |
| Milestones, artifacts, exports: `milestones.py`, `artifacts.py`, `exports.py` | JSON on projects, files | save, delete, export | deletions | saved while a deletion runs | what is protected stays |
| Hybrid cache: `hybrid_cache.py` | memory over disk | get, set, evict | viewers | threads | a hit is what was set |
| Git hosts, integrations, settings, encryption, viewers' API, migrations, tuning | configuration, passed-through data | - | external services | - | - |
| CLI: `qaboard/` | none that outlives a command, except credentials | run, batch, optimize, gate, sign in | the server, runners | what a killed run tells the server | matching, filters and comparisons are pure functions |
| Web app: preferences, `stores/prefsSync.js` | the store (localStorage), what waits to be sent, the user's row | sign in, merge, change, flush, leave | the server, the user's other browsers | changes while the server is asked; a shared browser; requests that overlap or fail | nothing chosen is lost, or sent for somebody else |
| Web app: live logs, `components/logs/useLogTail.js` | the text read, how far, the polling | first read, poll, last read, retry, load all | nginx, runs | reads that overlap, a file replaced or missing | no hole, nothing twice, to the end |
| Web app: submissions, `components/logs/submissions.js` | a store per submission and status: who looks, the polling | subscribe, check, stop | the job's files, LSF's report | components come and go during a check | polled while watched; "done" is true |
| Web app: videos, `viewers/videos/syncedPlayback.js` | two elements, the time sought, queued seeks | seek, align, play | the browser's events | events of past seeks | both show the frame asked for |
| Web app: comparisons, `selection.js` | the URL | add, remove, move, copy, swap references | every page | names and colors are computed again each time | results keep theirs |
| Web app: pixels, `image-viewer/pixelTiles.js` | a cache of tiles, the pointer's slot | request, evict, retry | the server | the pointer is faster than reads | where it stops is read |
| Web app: integrations, `useIntegrationStatuses.js` | statuses shown and saved per commit | start, poll, change commit, reload | CI servers | requests that a page or a commit leaves behind | never stuck loading |
| Web app: milestones, `milestones/hooks.js` | the cached list | star, edit, delete | the server | shown before it is saved | what is refused is undone |
| Web app: editor of batches, `components/tuning/BatchesEditor.jsx` | the document, its draft in localStorage | load, type, save, solve conflicts | `api/tuning.py`, other users | loads and saves that overlap | drafts survive; nothing unseen is overwritten |
| Web app: the rest | views | - | the API | - | - |

`PROJECT.json` lists the components with their files and status, and every hazard
at its line.

## Plan

The order puts first what runs unattended, concurrently, and cannot be reproduced
in a test.

1. **Done.** The job queue: `JobLifecycle` (what it promises), `JobQueue` (what it
   does), `MCJobQueue`; proofs of its types, of `DoneMeansWorked`, and of
   `OneRunner`, `NoRedo` and `ImplementsLifecycle` when heartbeats get through.
2. **Done.** Schedules: `Cron` (expressions and zones), `NextRuns` (their listing),
   `JobSchedules` (rows, workers, admins); `CronProofs`, `NextRunsProofs`,
   `JobSchedulesProofs`.
3. **Done.** The email of a command that ends: `BatchEnds` (its runs, the handlers of
   their ends, stops, `fail_runs()`, restarts), next to the deletion of old runs in
   `Server`; `ServerProofs`.
4. **Done.** Hard deletion: `HardDelete`, next to redo, milestones and kills of the
   worker. It takes from the queue that its job is run by one worker at a time
   (`OneRunner`), and run again when it dies (`EventuallyFinished`);
   `HardDeleteProofs`.
5. **Done.** The parts of the web app with a state of their own and answers that
   overlap: `PrefsSync`, `LogTail`, `Submissions`, `SyncedSeeks`, `References`,
   `PixelTiles`, `IntegrationStatuses`, `Milestones`, `BatchDrafts`, together in `WebApp`;
   `WebAppViewers` and `WebAppProofs`, which extends it.
6. Left: the whole life of a run's row (webhooks next to stop, redo and `fail_runs()`),
   if what should win there gets written down somewhere; playing two videos;
   `delete_runs` and the collection of commits.
7. **Done.** Proofs of the calendar's search, and of the types of the whole web app
   (`ShapesOK`). Every invariant that a passing run checks now has a theorem.

## Modules and the code

**`JobLifecycle`** is the promise: a job is absent, waiting, taken, withdrawn or
ended, and has at most one runner. It is never taken except while it waits and
nobody runs it. Nothing in it names heartbeats, lanes or columns. Withdrawing does
not take a job from its runner, because `queue.cancel()` does not either.

**`JobQueue`** is the code. One action is one transaction, or the Python between two.

| Variable | Code |
|---|---|
| `job[j]` | a row of `jobs`: kind, status, worker, attempts, `cancel_requested`; `fresh` says that `heartbeat_at` is less than `STALE_AFTER` old |
| `proc[w]` | the worker's process: down, up, or `stopping` after SIGTERM |
| `thread[w, l]` | where the thread of lane `l` is between `lane_loop` and the end of `run()`, its job, what the reporter heard of a cancel, how the work ended, and the columns it read before it writes |
| `running[w, l]` | `Worker.running` |
| `admin[a]` | a request between its read and its commit: the status it saw, or the kind it found free |
| `worked`, `faults` | history: whose work was done; how many things went wrong |

`AsksForJob` and `InsertsJob` are the two halves of `create()`, `AsksToCancel` and
`Cancels` of `admin_cancel_job()` (retry is a create). `RequeuesStale`, `Claims`,
`Registers`, `Starts`, `Reports`, `StopsEarly`/`Completes`/`Crashes`, `FlushesLast`,
`FindsCancelled`/`Decides` and `Saves` are the steps of `tick()` and `run()` in
order. SQLAlchemy writes the columns that changed since they were read: `Saves`
and `Cancels` do the same, on the row as it is by then, which is how a zombie or a
late cancel can overwrite what somebody else wrote. `RegisterFails`, `FlushFails`
and `RunFails` are statements that raise. `Boots`, `IsTold`, `IsKilled`, `Exits`
are the process.

**`Cron`** gives an expression its meaning as sets of minutes, hours, days, months
and weekdays, and `next_after()` as the earliest candidate of the first day that
has one. A zone changes its offset once, forward or back; `UtcOf` does what
`astimezone()` does with `fold=0`. Times are minutes since 1970: the code drops
seconds. (`NextRun` agrees with `cron.py` itself on 385 samples of expressions,
zones and dates, leap years and clock changes among them.) **`NextRuns`** is
`admin_job_schedule_next_runs()`: each listed run is computed from the one before.

**`JobSchedules`** has the rows of `job_schedules`, of which `next` is `next_run_at`;
the workers' `run_due_schedules()`, one transaction that reads the clock, locks the
due rows nobody holds, answers them from the earliest on, and commits; and the
admins' requests. A request reads its row without a lock, computes, waits for the
row and writes the columns that changed (`Merged`). A job is only the kind it makes
busy: what happens to it is `JobQueue`'s. `fired` is history: which due times were
answered since the row was saved.

**`BatchEnds`** has the runs of one `qa batch` command and of the steps its runs start
with a nested one (`StartedBy`). `row` is `outputs.is_pending`, `job` the run's process,
`thread[r]` the handler of the request that ends run `r` (`new_output_webhook`, then
`on_run_ended()`), a statement per step since each sees what others committed before
it, `note` the row of `batch_notifications`. Runs end and say so, die silently
and are settled by `qa batch` later, or are given up by `Batch.stop()` and
`fail_runs()` (`givenUp`); requests time out and are handled afterwards (`late`); the
server restarts and its threads are gone. Each request can be lost, also the one by which
`qa batch` tells of a run before it starts any (`Tell`): the CLI goes on. The server then
knows the run, if at all, as a run of no command: its row stays `untold`, and neither
`has_pending_runs()` nor `on_run_ended()` has to do with it (`unheard`: these runs, and those
that they start). If no run of the command is told of, nobody looks and the email waits for ever.

**`HardDelete`** is one project of a hard delete: pages of commits, batches, runs, and
`job` says where it is and what it read by then. `missing` is `Folders.missing`, which
remembers folders it found missing, `protection` the milestones it read once, `resume` the
cursor that another attempt starts from: reports save it at most every few seconds,
so a kill loses some. Users redo, delete and protect the same runs meanwhile. `due` is
history: what should be gone when it ends; `raced`: what users changed since it started.

The web app's modules each have the state of one hook, class or store. Its code runs in
one thread, so that an action is what runs between two awaits: a user's action, an
answer, a timer, an effect. Requests and events under way are state, and may
be answered in any order, or fail.

| Module | State and code |
|---|---|
| `PrefsSync` | the store, the sync of one page (`phase`, `pending`, `timer`), the POSTs under way and the server's row. `GotAnswer` is the merge at login, `Flush` what leaves; `told` and `chosen` are history |
| `LogTail` | a byte of the log is its file's incarnation and its position; `first` and `more` are the reads under way with what nginx answered (part, all, 416, 404); `log.fresh` says whether what is shown answers the current question; `outgrown` is history: a redone log got longer than what had been read (`ReadEnds`) of the one before |
| `Submissions` | a store per status of the submission (`storeKey`), since the status moves its components to another; `ReadLog` and `ReadReport` are the two halves of a check |
| `SyncedSeeks` | times are frames; `video` is the browser's, `events` what it will say of it, `player` the controller's `target`, `pending` and `resumeAt` |
| `References` | `url` is the selection: sides with the label and the color the URL has, if any. Operations keep their names, and `side_colors`, `needed_colors`, `with_names`, `with_colors` are functions of it; `was` is history: where each side came from |
| `PixelTiles` | `tiles` is the Map in its order, so its first tiles are the least recently used; `latest` the slot of the pointer |
| `IntegrationStatuses` | `statuses` shown, `latest` (the ref that polling reads, as old as the last effects), `stored` and its `index` in localStorage |
| `Milestones` | `shown` is react-query's list, `jobs` the actions under way with the answers that came, `refetch` a reading of the list. A request is answered, refused, or handled though its answer is lost (`Handle`), which the page takes for a refusal |
| `BatchDrafts` | `doc` is the editor's document, `stored` its backup, `loads` and `saves` the requests under way, which outlive the view for saves; `seen` and `typed` are history |

`WebApp` and `Server` put components that share no variable next to each other: each
step is a step of one of them. Theorems about a component are about
these compositions. For TLC, `MCWebApp` and `MCServer` let one part (`part`) take all the steps of a
behaviour: since nothing is shared, each is seen in all its states, without the
product of all of them.

Names such as `ClaimsNamelessly`, marked "Bug variant", or that end with `Bug`, are plausible mistakes. No
specification uses them; replacing the definition after them by one must make the
property they are listed with in `PROJECT.json` false, which is how we know that
the property says something about the code.

## Runs

| Run (`.cfg`) | Instance | What it shows |
|---|---|---|
| `QueueFaults` | 2 workers, a job and its successor of the same kind; kill, SIGTERM, database failures, two in a row; force cancels | `OneRunner`, `NoRedo`, and `JobQueue` implements `JobLifecycle` |
| `QueueZombies` | 2 workers, 1 job; silent workers whose job is taken over, kills, SIGTERM; both kinds of cancel | `DoneMeansWorked` even then, and `EventuallyFinished` |
| `QueueLanes` | both lanes of a worker that may be killed; a user's kind and an admin's | `UsersDontWait`, though maintenance may never end; `OneActivePerKind` with a request at a time |
| `QueueBusyRace` | 2 requests, nothing goes wrong | fails: two active jobs of one kind |
| `QueueOrphans` | a worker killed in a user's job, then busy with maintenance | fails: the orphan waits |
| `QueueLeak` | one failure of the database | fails: a job that nobody runs, and whose heartbeat stays fresh |
| `NextRuns` | 8 year searches at leap days, month ends, 2100, clock changes | `NextIsFirst`: what is listed is what reading the expression minute by minute gives; `NeverIsNever`: an expression refused as never running has no time in the 400 years after which the calendar repeats |
| `Schedules` | 2 workers, 2 schedules of one kind, a request at a time, 1 failure, around the change of March | `OncePerDueTime`, `DisabledStaysQuiet`, `EnabledRunsAgain`, `AnsweredIsNotDue`, `DueIsAnswered` |
| `SchedulesAutumn` | one schedule at 02:30 in the hour that October repeats | fails: answered, and due again |
| `Server` | a command of two runs, one of which starts a third; 1 restart, one stop, one `fail_runs()` | `AtMostOneEmail`; `NotBeforeTheEnd`: the email is claimed when all processes that QA-Board was told of are over; `NobodyLeftWaiting`: when the last runs end together, one of them claims it |
| `Server`, other part | a hard delete of 3 runs in 2 batches, each on its page, in its three modes; 2 changes by users; any number of kills and stops | `NothingSkipped`: what was due is gone when it is done; `OnlyWhatItMay`: neither milestones nor files that users keep |
| `BatchStopped` | the same command, `Batch.stop()` | fails: the batch was stopped, and the email is sent |
| `WebApp`, preferences | a preference and one that belongs to an account; 2 POSTs, another browser | `NothingForgotten`, `OnlyChoicesAreSent`, `QuietMeansSaved` |
| `WebApp`, live logs | a file of 3 bytes, whose end of 2 is read first; replaced once, by a shorter or a longer one; a lost request | `NoHoleNothingTwice`, `LiveLogIsFollowed` |
| `WebApp`, submissions | 2 components, with and without LSF, a failed request | `PollsWhileWatched`, `FinalIsTrue`, `EndIsSeen` |
| `WebApp`, videos | a leader of 3 frames, a follower of 2; 4 seeks while they load | `SameFrameWhenSettled` |
| `WebApp`, comparisons | 2 references, 2 colors, 1 name of a user | `ColorsFollow`, `NamesStay` |
| `WebApp`, pixels | 3 tiles, a cache of 2, 3 reads | `PointerIsServed` |
| `WebApp`, integrations | 1 build, 3 commits of which 2 are saved, 2 requests at once | `NeverStuckLoading` |
| `WebApp`, milestones | 2 milestones, 2 actions at once, of one or both; requests refused, answers lost | `ShownIsSaved` |
| `WebApp`, editor | 3 texts, 5 acts of a user, 2 saves under way, one save of somebody else | `DraftsSurvive`, `OverwritesKnown` |

`TypeOK` is checked in `QueueFaults`, `Schedules` and `Server` (where
`DeletionTypeOK` is the deletion's), and all of the web app's as `ShapesOK`. It also says what the local
state of a thread or request must hold at each step.

### Bounds, and why they are enough

- *Two workers* are what a conflict needs: a holder and a rival. Two jobs of a
  kind are a job and its successor, which can start while a worker has not let go of
  the first (a force cancel); of two kinds, what each lane does. One
  job is enough where the property is about one row (`QueueZombies`).
- *`MaxFaults` is 2*: a fault, and a second in the recovery from the first.
  `MaxAttempts` is 2 rather than 5: one retry, then giving up.
- *`MaxJobs`* bounds creation: a request only asks when an id is left for it.
  It does not bound how often a job runs; `MaxAttempts` does, in the code.
- *`fresh`* is one bit of a clock: every property depends only on whether the
  heartbeat is older than `STALE_AFTER`.
- *`Times`* are three or four instants around one change of clocks: before it,
  between, and after, with schedules due at each. `MaxFailures` is 1: a
  transaction fails, the same or the other worker tries again.
- *Three runs* in `Server`: two that end together, and one whose starter may end first.
  One restart, one stop and one `fail_runs()` are enough to be in each other's way.
  The deletion has a page before and after the one it is killed in, a batch of two
  runs (one is touched, the other not), and two acts of users: a redo and what follows.
- *In the web app*, two of what can overlap (requests, components, videos, loads) and
  one failure or one other user. `MaxPosts` bounds the requests of a behaviour:
  one at login, and one that is under way with it or fails. A file of 3
  bytes has a cut first line, a shown one, and bytes added later, and a second one can outgrow
  what was read of the first. 3 tiles in
  a cache of 2 evict each other; 3 commits where 2 are saved forget one. 5 acts are
  what it takes to load, type, save, leave and load again in `BatchDrafts`; the loads and
  saves they begin may end in any order. `MaxCopies` is 0: references are copied, copies
  are not copied again.
- *`QueueFaults`* uses symmetry (of workers, requests and kinds). It checks no
  liveness, with which symmetry would not be sound.

### Fairness

`FairWorkers`: the container restarts its worker (`init.sh` loops for ever);
threads are scheduled; the heartbeat thread beats while the process was not told
to stop; time passes, so that a heartbeat nobody renews grows old (`AgesUnkept`;
one that is renewed may grow old, but only as a fault). `FairSpec` adds that a
job's own work ends. `FairToUsersSpec` adds it for users' jobs only, since
maintenance jobs "can take hours". Nothing makes requests, cancels or faults
happen. In the web app, two parts have a liveness property. `LogTail`: timers fire
(`setInterval`, the retry), the page hears whether the run goes on, the
server answers and its answers arrive; requests fail `MaxFailures` times at
most. `Submissions`: its two requests are answered, and the timer between checks fires; jobs
need not end. In `MCWebApp` both are stated for the part that runs. In `JobSchedules` workers do their housekeeping again and again, which
the queue gives as long as maintenance jobs end; admins need not do anything, and
clocks need not advance.

## Proofs

What TLC shows for small instances, these theorems show for every value of the
constants that the named assumptions allow (`JobQueueAssumption`,
`JobSchedulesAssumption`, `NextRunsAssumption`, `StarterAssumption`, `RestartsAssumption`,
`OldRunsAssumption`, `PrefsAssumption`, `AppAssumption`; TLC evaluates them).

| Module | Theorem | Argument |
|---|---|---|
| `JobQueueProofs` | `TypeCorrect`: `Spec => []TypeOK` | by the parts of `TypeOK`, an action at a time; `RowWritten` and `ThreadMoved` reduce a step to the record it writes |
| `JobQueueProofs` | `DoneWasWorked`: `Spec => []DoneMeansWorked`, zombies included | `Ages`: rows only get done through a thread that decided so. `Honesty`: a thread that decided "done" completed the work, since a thread that stopped early either heard a cancel, which stays requested, or was told to stop, which its process stays |
| `JobQueueProofs` | `OneAtATime`: `Spec => []OneActivePerKind`, for one request at a time and without SIGTERM | below |
| `JobQueueProofs` | `RunsOnce`: `Spec => []OneRunner`; `OverForGood`: `Spec => NoRedo`; `KeepsThePromise`: `Spec => ImplementsLifecycle`; all under `HeartbeatsGetThrough` | below |
| `CronProofs` | `NextAfterIsFirst` | the least-number principle (from the library's well-founded order) for the first day and its earliest time; times of a day stay in that day (`CandidatesAreOnTheDay`), so the first day's come before any other's |
| `CronProofs` | `RefusedNeverRuns`: an expression that is refused matches no day of any year | below |
| `CronProofs` | `NextRunIsLater` | a later local time is later in UTC, in a zone that sets its clocks forward |
| `NextRunsProofs` | `RefusedForGood`: `Spec => []NeverIsNever`; `ListedInOrder`: `Spec => []NextIsFirst` under `OnlyForward` | below |
| `JobSchedulesProofs` | `TypeCorrect` | the row, transaction or request that each step writes is well formed; the hard one is `MergedIsWellFormed`: columns of three versions of a row make a whole row |
| `JobSchedulesProofs` | `AnsweredAreNotDue`, `AnsweredOnce` under `ClocksGoForward`; `DisabledQueuesNothing` always; `EnabledIsNotForgotten`: `Spec => []EnabledRunsAgain` for one request at a time | below |
| `ServerProofs` | `TypeCorrect`, `EmailedOnce`: `Spec => []AtMostOneEmail`, `EmailedAtTheEnd`: `Spec => NotBeforeTheEnd`, `SomebodyAlwaysLooks`: `Spec => []NobodyLeftWaiting` | below |
| `ServerProofs` | `BothAsAlone`: `ServerSpec => Spec /\ Deletion!Spec`; `DeletionTypes`, `DeletionSkipsNothing`, `DeletionOnlyMay` | the invariants of `HardDeleteProofs`, whose lemmas hold of every instance; `SameDeletion` says that its instance is that of `Server` |
| `HardDeleteProofs` | `TypeCorrect`; `DeletesAll`: `Spec => []NothingSkipped`; `DeletesNothingElse`: `Spec => OnlyWhatItMay`; each from `DeletionAssumption`, stated as a hypothesis since `Server` takes the module with INSTANCE | below |
| `WebAppProofs` | `TypeCorrect` (of `PrefsSync`), `NothingIsForgotten`, `SendsOnlyChoices`, `SavedWhenQuiet` | below |
| `WebAppProofs` | `LoadingEnds`: `AppSpec => []NeverStuckLoading` | what is loaded from localStorage, from whichever commit, does not load; each request under way answers |
| `WebAppProofs` | `WatchedIsPolled`, `OverIsTrue`: `AppSpec => []PollsWhileWatched`, `[]FinalIsTrue` | below |
| `WebAppProofs` | `LogIsWhole`: `AppSpec => []NoHoleNothingTwice` | below |
| `WebAppProofs` | `NothingTypedIsLost`: `AppSpec => []DraftsSurvive`; `SavesKnowWhatTheyReplace`: `AppSpec => []OverwritesKnown` | below |
| `WebAppProofs` | `QuietListIsSaved`: `AppSpec => []ShownIsSaved` | below |
| `WebAppProofs` | `ShapesAreKept`: `AppSpec => []ShapesOK` | below |
| `WebAppViewers` | `PointerGetsItsTile`: `AppSpec => []PointerIsServed`; `SettledIsInSync`: `AppSpec => []SameFrameWhenSettled` | below |
| `WebAppViewers` | `ColorsStay`: `AppSpec => ColorsFollow`; `NamesAreKept`: `AppSpec => NamesStay` | below |

**Ownership.** `OneRunner` is not inductive: nothing in it keeps a second worker
from claiming. The strengthening says that the row of a job that a thread holds
names that worker, is of that lane's kind, says running (or cancelled, with
force), and if running is fresh. Claiming takes queued rows, requeueing takes stale
ones, so neither touches it; and two holders of one row would be the same worker and
lane. It needs `HeartbeatsGetThrough`: no live worker is silent for `STALE_AFTER`,
which the faults "silence" and "slow" are. With them `OneRunner` is false, by
design of the code; `DoneMeansWorked` and `EventuallyFinished` are what is left then.

**Keeping the promise.** `JobQueue` implements `JobLifecycle` with a row's status as its phase
and the worker whose thread holds the job as its runner, which `OneRunner` makes unique.
A claim is a `Take` since a held row is not queued (`Ownership`); housekeeping is a `Recover`
since a stale row is held by nobody; a verdict is a `LetGo`, which takes two more
invariants: a thread that decided had read "running" (`Decided`), so it always writes
its verdict, and a request that cancels had read a row that exists (`Asked`), which stays
(`RowsStay`). Everything else a thread does leaves phases and runners alone.

**One active job.** A row only becomes active when it is inserted, as no thread queues its job
again (`NoRequeue`), housekeeping queues rows that were running already, and a claim goes from one active status to
another. A request that is about to insert found no active job of the kind and, alone, it still
would (`Checked`). Both hypotheses are needed. With two requests it is false: run
`QueueBusyRace`. With SIGTERM it is false even with one: `run()` reads the row, a force cancel is
committed and its successor created, and the commit of `run()` queues the first again.

**Answering.** What a lock gives: a row is held by one transaction (`OneHolder`),
the table still says of it what the transaction read (`InHand`), and nobody
changes it before the commit. So what is committed was enabled. Where clocks
are not set back the new time is later than the clock the worker read, by
`NextRunIsLater`, hence later than all answered before (`Past`), so that a due time
is not met twice. The proof holds for overlapping requests as well, which
the run does not have.

**Never.** That eight years are enough is a fact about the calendar. A day is day `x` of year `y` of a period of 400 years,
and years begin in March, so that only the last day of some of them is a leap day (`DaysAreDates`, and back, `YearDayOfDate`:
the divisions of the code give `x`). Days 0 to 364 come back within two years, leap days within eight, also around a
century that has none (`NextLeapYear`), and the first seven days of a month are one of each weekday. An expression that
matches a day does so by its month and its day, or by its month and its weekday (when both must match, one of the fields is `*`): either way it
matches a day soon, wherever the search begins (`MatchesAgain`). The provers only see linear equations: `q`, `r` and `c`
are named before they are multiplied.

**Listed in order.** `NextIsFirst` says what an expression means without the code's ranges and steps; `PartSays` is where both meet. `next_after()`
finds the first local time; what is left is the zone. `OnlyForward` says that clocks do not change, or skip a full
hour, as in spring. Both halves are needed, and TLC finds why: where an hour repeats, `*/15 * * * *` is
listed only the first time the hour is there (and asked for the second time, the next run is in the past: finding 4), and where half an hour is skipped, `10,35 2 * * *` runs at 2:40 for the 2:10 that does not
exist, and misses 2:35. With a full hour, a skipped minute is read as the same minute of the next hour.

**Running again.** `EnabledRunsAgain` needs what requests and transactions hold (`AgainInv`): rows they will
write have a next run if enabled, and a request that read a disabled row still has it before it
(`StillSeen`), since workers leave disabled rows alone. This is where one request at a time is needed: with
two, TLC finds that requests complete each other's columns: one disables the schedule while the other gives it a new
next run, which leaves a disabled row that has one; then one enables it, while the other, which
read it disabled and saves it so, only clears the next run.

**Telling.** `Once`: no email left before its notification was claimed, and one handler
at most holds the claim, as it is an UPDATE of the row that waits. That the command
is over when it is claimed needs what each process leaves behind (`Handled`, `Known`,
`AllTold`): as long as nobody gave up on a run, a run that is told of is pending until its
own end is handled, and whoever starts runs is pending until it told about all of
them. So a handler that finds none pending finds them over, and those that
were never told about will not be (`ClaimsAtTheEnd`), however deep steps are nested. The
handler looks once: nothing can begin after, since only processes begin others. All this is said of the
runs that were heard of: a run whose starter was heard of but whose own request was lost joins `unheard` with
what it starts, so that whoever starts a run that was heard of was heard of itself. `AllOver` leaves the
unheard out; that it must is finding 6.
`SomebodyAlwaysLooks` is the converse: once no row is pending and the notification waits, a handler that saved its run
but did not look yet, or `fail_runs()`, is there to see it (`FoundInv`). The last of them to save
looks after all the others did.

**Forgetting nothing.** `NothingForgotten` is inductive with the types once it is known
where the sync is (`IsOut`, `Asks`, `Waits`): changes wait for the answer without a
timer, and with one after it. What leaves with a flush counts as told from then on, as in the code, which
forgets it: a POST that fails is not sent again, and `NothingForgotten` does not say that the server has it.
`QuietMeansSaved` does, of requests that neither fail nor overlap. The merge is its hard step: key by key, the server's value
wins, is of another type, is missing and sent, or loses to what users changed
meanwhile. `QuietMeansSaved` also needs that a request under way carries what the
server was told and does not have yet (`Answered`, `Knows`), which only holds
while requests neither fail nor overlap: `clean`.

**Skipping nothing.** `NothingSkipped` only speaks of a job that is done. `NoneSkipped` says
where each due run still is: beyond the point the job resumes from (whatever report saved it
last), and while the job runs beyond its last page; in its page, in a batch that is left
or in the batch being deleted; there, among the candidates or the rows to delete. A due run that
has files was read as deleted, since only redoing writes them again, and that takes the
run out of what is due (`OpenStays`). A page must have no gaps: its commits are the first
ones after the last (`PageHasNoGaps`, with the library's facts on cardinalities).

**Deleting nothing else.** `NothingStale` says of what the job read that it still holds for the
runs nobody raced it for: a folder known as missing is missing, what it read of the
milestones is right, candidates and rows to delete are of this batch, not running, and
deleted if they were read so.

**Polling and telling.** One invariant for both (`SubsInv`), over the stores of all statuses: a store polls exactly
if it has listeners and its state is not final (`Polls`), also while a check is
in the middle of its two reads; what a check read and will combine is true of the job, then or earlier (`Knows`),
and a job's end does not change, so that a final state is the job's (`Tells`).

**Whole logs.** `TailInv`: the bytes shown have consecutive positions (`Consecutive`), and a read of what was added starts where they end
(`Adds`). That they are bytes of one file, too (`FilesInv`), needs what was read of each file and is still in hand, on the page or in an answer under
way: while no redone log outgrew one, the file there is either the same or no longer than what was read of an older one,
so that nginx answers 416, or everything again, and never a part that would go on from it. Files only get replaced by newer ones, so that even then older bytes
do not follow newer ones. The cursor may only move with them, and a read is dropped when its question is not the current one, so
an answer never lands after other bytes. The rest is about concatenation and prefixes of
sequences, with the library's theorems, and the least element of a set for the first newline.

**Losing no text.** `DocInv`: while a file is edited, its backup is there exactly if the draft differs from the base, and
what was typed is in it; while it is not, the backup keeps it. `GoodSave` says of each save under way, by where it is,
what its users saw: the base it compares with, or the text on the server it would replace, unless somebody
saved since (`fresh`). The editor's document follows its loads, so both need that a base was seen.

**Quiet lists.** `StarsInv`: while `orderly`, one of three (`Right`). An action under way will ask for the list
again, since the server did a part of it (`AsksAgain`); or the list is asked for, what was read of it is what the
server has, and no favorite is under way; or what is shown is what is saved but for the favorites under way, each of
another milestone, shown as it will be and saved as the server answered or not (`Agrees`, `Toggled`). An answer that is lost
is the third case no more when nothing will ask for the list: a favorite, one edit or one removal, which ends `orderly`. Edits
and removals of several milestones ask for it whatever is answered. The server may
change a row under the second or the third: only for an edit or a removal, which makes it the first, or for a favorite.

**Shapes.** Few of the types are inductive alone. That the list of commits whose statuses are kept is never longer than
`LS_MAX_COMMITS`, and names each of them, needs that none is in it twice, which holds as it is removed before it is
added (`UnlistedIs`). The offsets of a log's text stay those of some file since nginx answers within the file it has, and the
cursor only moves to the end of an answer (`TailAnswer`). The document of the editor has a base, or a draft, only together, and while a dialog or an undo is shown
(`Shows`) it has both: that is why a save begins with texts. The backup's single entry comes from `DocInv`, the lists of
milestones from `StarTypes`.

**The pointer's tile.** `PixelInv`: the tile the pointer is on is among the tiles, or the slot is busy and it is what
comes next, or it was evicted. A tile that is used moves to the end of the Map, so the one that a
request evicts is not the one it asks for.

**Videos in sync.** The invariant (`InSync`) is about where each video will be (`Goal`: the seek that waits, or where it is): the
leader at the time users asked for last, the follower there too, within its duration, once both
loaded; and a seek only waits while the video seeks or its "seeked" event is to come, whose handler
takes it. Before it loads a video does not move, and the time asked for waits in `resumeAt`. `seek`, `onSeeked` and `alignFollower` are compositions of four steps
on records, each with a lemma of what it changes (`MovedIs`, `PendingIs`).

**Colors that follow.** The URL has less than what is shown, so the first half is about one state: `needed_colors`
only drops a color when the sides' colors stay the same, along its whole loop (`NeededKeeps`, by the least
step that would not), and the page that reads the new URL shows what the operation computed (`Showing`).
The second half is about two. Colors are passed on as they are shown, and two sides never show the same (`SidesDiffer`),
so each is the first to have its own and keeps it (`ColorsCarried`, `ColorsPermuted`). It says of the references, and of the top results unless a reference is removed, that they keep the color they had, or get one if they were gray. The top results are passed on
as the URL has them, without a color if it was told: they take the smallest that is free, which is still free, as every other
is carried along, and still the smallest, as a color that was given is shown by somebody (`GivenStays`). A removed
reference is not carried along, so the top results keep theirs then or take one that was freed (finding 8).

**Names that stay.** `with_names` writes all names down except the "ref" we gave. No other is called "ref" then
(`NamesDiffer`), and no new one is, so 1 is the smallest number that is free and the only one without a name gets it back
(`NamesCarried`), wherever it was moved. A reference that is added takes a number without being written down first: those
below it were all taken (`NamesAppended`). `swap_with_top` writes the others' names down too, and
keeps them (`SwapsFollow`); `rename_reference` and `switch_new_and_reference` do not, and are left out: the first may pass
the name "ref" on, the second is finding 9. The k-th smallest number of a set and the places below it are counted with the library's
theorems on cardinalities.

With TLC only: liveness (`EventuallyFinished` and the like, under fairness, which is out of the prover's
reach); and, of the theorems with a hypothesis (`HeartbeatsGetThrough`, `ClocksGoForward`, `OnlyForward`, one request at a
time), what happens without it, in the instances of the runs.

## What the code does that its docs do not say

1. **Two active jobs of a kind** (`QueueBusyRace`; `queue.py:42`). `create()` looks,
   then inserts, and nothing locks in between.
2. **Orphans of a busy worker** (`QueueOrphans`; `worker.py:154`). "A few minutes" is
   however long the maintenance job takes: stale jobs are only looked for between
   two of them.
3. **A job kept alive by nobody** (`QueueLeak`; `worker.py:141`). The heartbeat
   after a claim can raise; `Worker.running` then keeps the job's name.
4. **The hour that repeats** (`SchedulesAutumn`; `cron.py:133`). The next run
   of a schedule inside it can be in the past, and it runs at every tick until the
   hour is over.

5. **Stopped batches send their email** (`BatchStopped`; `models/Batch.py:178`). The
   docs say "there is no email". `Batch.stop()` leaves the notification waiting, and the
   stopped runs say that they ended; when none does, it waits for ever.

Four more are contrary to what a doc or a comment says. The properties of the runs above exclude them by name, and the property that
does not is next to them in its module, for whoever fixes the code. TLC finds each of these false in seconds, with `Spec` and the
constants of the component in `Server` or `WebApp` (for `References`, `MaxReferences = 3`):

6. **Emailed before the last run ends** (`NotBeforeTheLastRun` in `BatchEnds`; `qaboard/qa.py:964`). The docs say "when its last run
   ends" (`website/docs/using-the-qa-cli.mdx:141`), since `qa batch` "tells QA-Board about all its runs (as pending) before it starts
   any of them" (`batches.py:5`). `notify_qa_database()` swallows its failures, and the run starts all the same; its own requests do
   not name the command. The server does not count it, and the end of another run sends the email.
7. **Two files in one log** (`OneFileIsShown` in `LogTail`; `useLogTail.js:75`). "[start, end[ are the bytes we have" (`:17`), and a
   file that was replaced is told by being shorter than that (`:89`). A redone log that is longer by the next poll is
   answered from the middle, which is added to the old file's text: the start of the new log is missing.
8. **The top results change color** (`TopKeepsItsColor` in `References`; `selection.js:302`). "Each keeps its own wherever it goes"
   (`:189`), and the color of a removed reference "goes to the first gray reference, else to the next one added" (`:301`). When the
   reference in the first color is removed, top results without a color in the URL take it.
9. **Switching renames bystanders** (`SwitchRenamesNoOther` in `References`; `selection.js:359`). ""new" and "ref N" stay in place"
   (`:253`). `switch_new_and_reference()` does not write the other references' names down, as `swap_with_top()` does: those
   without a label can be numbered again, and "ref 2" becomes "ref".

Reachable too, but not contrary to anything written, or excluded by name in
a property because the code allows it:

- two changes of a preference can be handled in the other order, and a POST that
  fails is not sent again (`prefsSync.js:72`);
- what a run writes while the last poll of its log is under way, and it ends, is not
  read (`useLogTail.js:117`);
- renaming a reference to nothing, or to another name when it was called "ref", can pass the name "ref" on to another
  (`selection.js`, `rename_reference`);
- if the server saves a favorite, one edit or one removal and its answer is lost, the old value is shown until the list
  is read again (`milestones/hooks.js:47`, `:59`, `:112`);
- the answer to a request about a commit's builds is shown on the commit the page
  shows by then (`useIntegrationStatuses.js:113`), and saved with it;
- two changes at once of one favorite, or one while the list is read, can show the
  wrong one until the list is read again (`milestones/hooks.js:103`);
- somebody who saves a file of batches between the look and the write of another
  is overwritten, and a look that fails lets the write go on (`BatchesEditor.jsx:535`);
- when none of the requests that tell of a command's runs arrives, its email waits for ever (`qa.py:964`);
- a seek between the loading of a video and its event is lost
  (`syncedPlayback.js:213`);
- a hard delete that started before a run was redone, or protected, can delete its row
  or its files (`hard_delete.py:160`, `:257`); a folder it once found missing stays
  missing for it, also when a run writes it again;
- a notification that was claimed when the server restarts stays "sending" (`batches.py:101`).

In the queue and schedules: with two overlapping saves
of a schedule, it can end enabled without a next run; a force cancel in the
window between `run()`'s last read and its commit is overwritten.

## What is not modelled, and why

- In the queue: `done_with_errors` is `done` (it differs by a counter); logs,
  progress, parameters, alerts and messages are left out; ids are taken in order of
  insertion; `purge_old_errors()`, the worker's default schedules and its usage
  refresh change other rows and come with their components. `SKIP LOCKED` can make
  a claim miss a row that is locked for a moment; it only delays the claim, and the
  model's `FindsNothing` needs an empty lane.
- In schedules: kind, name and parameters of a schedule do not change; kinds are
  not concurrent; messages are left out; `job_schedules` ids are not reused. A
  zone changes its clocks once: a run near two changes is not looked at.
  `run now` and due runs are refused when their kind is busy, as `create()` does;
  the race of finding 1 is in `JobQueue` only.
- In `BatchEnds`: one user per command, who has an address; what the email says; the
  retries of requests by the CLI (a lost one is lost). The request for the email may be handled after the client gave
  up on it; the others are handled before the client goes on, or not at all. Statements are atomic and see
  what was committed, as READ COMMITTED gives; claiming is one UPDATE.
- In `HardDelete`: dates and dry runs, several projects (each starts over), runs saved
  elsewhere than in their batch's folder, rows of batches, storage usage. A batch per
  commit stands for its batches.
- In the web app: layout and drawing, what toasts say, analytics. Of `syncedPlayback.js`,
  playing: it follows clocks and presented frames, of which the model has none. Of
  `selection.js`, which results are compared. Of `milestones/hooks.js`, groups, creation
  and import, and a request that the server handles after a proxy said that it failed. Of `pixelTiles.js`, reads that
  others abort: no source of pixels of this app does. Of `BatchesEditor.jsx`, several files and previews; update_groups()
  truncates then writes, which is one step here. The setters of `prefs.js` are one.
- What is left of the web app is React components whose state is what react-query
  caches and what the URL says, drawing code (canvas, WebGL) and controls taken from
  other projects: nothing there is shared between two actors in flight.
- The components with status `not_modelled` in `PROJECT.json` each say why: planned
  above, I/O, layout, or configuration.
