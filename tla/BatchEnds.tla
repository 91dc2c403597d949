----------------------------- MODULE BatchEnds -----------------------------
(* Telling users when the batch they started ends (backend/notifications/   *)
(* batches.py): the runs of one `qa batch` command and those of the         *)
(* pipelines' steps it starts, the requests they send, the handlers of      *)
(* those requests in the server's threads, users who stop the batch,        *)
(* administrators who mark its runs as failed, and restarts of the server.  *)
(*                                                                          *)
(* The database runs at READ COMMITTED: each statement of a handler sees    *)
(* what was committed before it, so the statements of on_run_ended() are    *)
(* steps of their own.                                                      *)
EXTENDS Integers, FiniteSets

CONSTANTS
    Runs,       \* the runs of the command
    StartedBy,  \* the run whose code started each run with a nested `qa batch`
    Cli,        \* instead of a run: `qa batch` itself
    MaxRestarts

ASSUME StarterAssumption == Cli \notin Runs /\ StartedBy \in [Runs -> Runs \cup {Cli}]
ASSUME RestartsAssumption == MaxRestarts \in Nat

VARIABLES
    row,      \* outputs.is_pending of each run that QA-Board knows as one of the command
    job,      \* what the run's process does
    thread,   \* where the handler of the run's end is
    note,     \* batch_notifications.status of the command
    emails,   \* how many emails users got
    asked,    \* the request that asks for the email
    cli,      \* whether `qa batch` could start its runs
    stop,     \* Batch.stop(): the runs it found pending
    fail,     \* fail_runs(): the runs it picked, and where it is
    restarts,
    givenUp,  \* history: the runs that QA-Board ended without their process
    late,     \* history: the email was asked for after a run had ended
    unheard   \* history: the runs that QA-Board was not told of, and those that they start

vars == <<row, job, thread, note, emails, asked, cli, stop, fail, restarts, givenUp, late, unheard>>

Rows == {"untold", "pending", "ended"}
Jobs == {"new", "told", "running", "over"}
Threads == {"idle", "save", "look", "check", "claim", "send"}
Notes == {"none", "waiting", "sending", "sent", "failed", "cancelled"}

Init ==
    /\ row = [r \in Runs |-> "untold"]
    /\ job = [r \in Runs |-> "new"]
    /\ thread = [r \in Runs |-> "idle"]
    /\ note = "none" /\ emails = 0 /\ asked = "sending" /\ cli = "up"
    /\ stop = [at |-> "no", ids |-> {}] /\ fail = [at |-> "no", ids |-> {}]
    /\ restarts = 0 /\ givenUp = {} /\ late = FALSE /\ unheard = {}

\* has_pending_runs
PendingRuns == {r \in Runs : row[r] = "pending"}

-----------------------------------------------------------------------------
(* The command and its runs *)

\* `qa batch` asks before it tells about its runs, the web app before it starts `qa batch`.
Request ==
    /\ asked \in {"sending", "given up"} /\ note = "none"
    /\ note' = "waiting" /\ asked' = "answered" /\ late' = (\E r \in Runs : row[r] = "ended")
    /\ UNCHANGED <<row, job, thread, emails, cli, stop, fail, restarts, givenUp, unheard>>

\* The client stops waiting for the answer and goes on: the server may answer later.
RequestTimesOut ==
    /\ asked = "sending" /\ asked' = "given up"
    /\ UNCHANGED <<row, job, thread, note, emails, cli, stop, fail, restarts, givenUp, late, unheard>>

Siblings(r) == {o \in Runs : StartedBy[o] = StartedBy[r]}

\* `qa batch` tells about a run, as pending, and of which command it is. It goes on when nobody
\* hears: the run starts all the same, and what it says itself does not name its command.
Tell(r) ==
    /\ job[r] = "new" /\ asked # "sending"
    /\ IF StartedBy[r] = Cli THEN cli = "up" ELSE job[StartedBy[r]] = "running"
    /\ job' = [job EXCEPT ![r] = "told"]
    /\ \/ row' = [row EXCEPT ![r] = "pending"]
          /\ unheard' = IF StartedBy[r] \in unheard THEN unheard \cup {r} ELSE unheard
       \/ row' = row /\ unheard' = unheard \cup {r}
    /\ UNCHANGED <<thread, note, emails, asked, cli, stop, fail, restarts, givenUp, late>>

\* `qa batch` starts its runs when it told about all of them.
StartedBug(r) == (StartedBy[r] = Cli => cli = "up")
Started(r) == (StartedBy[r] = Cli => cli = "up") /\ \A o \in Siblings(r) : job[o] # "new"

\* A run starts, and says so, unless that is lost.
Start(r) ==
    /\ job[r] = "told" /\ Started(r)
    /\ job' = [job EXCEPT ![r] = "running"]
    /\ row' \in {row, [row EXCEPT ![r] = IF @ = "untold" THEN "untold" ELSE "pending"]}
    /\ UNCHANGED <<thread, note, emails, asked, cli, stop, fail, restarts, givenUp, late, unheard>>

\* A run says that it ended, also when it's interrupted.
End(r) ==
    /\ job[r] = "running" /\ thread[r] = "idle"
    /\ job' = [job EXCEPT ![r] = "over"]
    /\ thread' = [thread EXCEPT ![r] = "save"]
    /\ UNCHANGED <<row, note, emails, asked, cli, stop, fail, restarts, givenUp, late, unheard>>

\* SIGKILL, or the request is lost: nothing sends it again.
EndUnsaid(r) ==
    /\ job[r] = "running" \/ (job[r] = "told" /\ Started(r))
    /\ job' = [job EXCEPT ![r] = "over"]
    /\ UNCHANGED <<row, thread, note, emails, asked, cli, stop, fail, restarts, givenUp, late, unheard>>

\* At the end of `qa batch`, for the runs of its jobs that are over and still pending.
Settle(r) ==
    /\ \A o \in Siblings(r) : job[o] = "over"
    /\ row[r] = "pending" /\ thread[r] = "idle"
    /\ thread' = [thread EXCEPT ![r] = "save"]
    /\ UNCHANGED <<row, job, note, emails, asked, cli, stop, fail, restarts, givenUp, late, unheard>>

\* The web app could not start `qa batch`, or it ended before it started its runs.
FailToStart ==
    /\ cli = "up" /\ asked = "answered"
    /\ \A r \in Runs : job[r] \in {"new", "told"}
    /\ cli' = "failed"
    /\ note' = IF note = "waiting" THEN "cancelled" ELSE note
    /\ UNCHANGED <<row, job, thread, emails, asked, stop, fail, restarts, givenUp, late, unheard>>

-----------------------------------------------------------------------------
(* The handler of a run's end: new_output_webhook, on_run_ended *)

Goes(r, to) == thread' = [thread EXCEPT ![r] = to]

\* It looks no further for a run that it knows of no command.
Save(r) ==
    /\ thread[r] = "save" /\ Goes(r, IF row[r] = "untold" THEN "idle" ELSE "look")
    /\ row' = [row EXCEPT ![r] = IF @ = "untold" THEN "untold" ELSE "ended"]
    /\ UNCHANGED <<job, note, emails, asked, cli, stop, fail, restarts, givenUp, late, unheard>>

Look(r) ==
    /\ thread[r] = "look" /\ Goes(r, IF note = "waiting" THEN "check" ELSE "idle")
    /\ UNCHANGED <<row, job, note, emails, asked, cli, stop, fail, restarts, givenUp, late, unheard>>

Check(r) ==
    /\ thread[r] = "check" /\ Goes(r, IF PendingRuns = {} THEN "claim" ELSE "idle")
    /\ UNCHANGED <<row, job, note, emails, asked, cli, stop, fail, restarts, givenUp, late, unheard>>

\* UPDATE ... WHERE status = 'waiting'
ClaimBug(r) ==
    /\ thread[r] = "claim"
    /\ note' = "sending" /\ Goes(r, "send")
    /\ UNCHANGED <<row, job, emails, asked, cli, stop, fail, restarts, givenUp, late, unheard>>
Claim(r) ==
    /\ thread[r] = "claim"
    /\ IF note = "waiting" THEN note' = "sending" /\ Goes(r, "send") ELSE UNCHANGED note /\ Goes(r, "idle")
    /\ UNCHANGED <<row, job, emails, asked, cli, stop, fail, restarts, givenUp, late, unheard>>

SendBug(r) ==
    /\ thread[r] = "send" /\ note = "sending" /\ Goes(r, "idle")
    /\ \/ emails' = emails + 1 /\ note' = "sent"
       \/ emails' = emails /\ note' = "SMTPException"
    /\ UNCHANGED <<row, job, asked, cli, stop, fail, restarts, givenUp, late, unheard>>
\* The email leaves, then its outcome is saved.
Send(r) ==
    /\ thread[r] = "send" /\ note = "sending" /\ Goes(r, "idle")
    /\ \/ emails' = emails + 1 /\ note' = "sent"
       \/ emails' = emails /\ note' = "failed"
    /\ UNCHANGED <<row, job, asked, cli, stop, fail, restarts, givenUp, late, unheard>>

-----------------------------------------------------------------------------
(* Batch.stop *)

\* Its jobs are stopped: those that run may still say that they end. Runs that it knows of no
\* command are pending too, from their start.
Stop ==
    /\ stop.at = "no"
    /\ PendingRuns # {} \/ \E r \in Runs : row[r] = "untold" /\ job[r] \in {"running", "over"}
    /\ stop' = [at |-> "jobs", ids |-> PendingRuns]
    /\ job' = [r \in Runs |-> IF job[r] = "told" THEN "over" ELSE job[r]]
    /\ cli' = "failed"
    /\ UNCHANGED <<row, thread, note, emails, asked, fail, restarts, givenUp, late, unheard>>

\* The runs it found pending are failed, unless some jobs could not be stopped.
Stopped ==
    /\ stop.at = "jobs" /\ stop' = [at |-> "done", ids |-> {}]
    /\ \/ /\ row' = [r \in Runs |-> IF r \in stop.ids THEN "ended" ELSE row[r]]
          /\ givenUp' = givenUp \cup stop.ids
       \/ UNCHANGED <<row, givenUp>>
    /\ UNCHANGED <<job, thread, note, emails, asked, cli, fail, restarts, late, unheard>>

-----------------------------------------------------------------------------
(* fail_runs, cancel_notifications *)

FailPick ==
    /\ fail.at = "no"
    /\ \E S \in SUBSET PendingRuns :
          S # {} /\ fail' = [at |-> "mark", ids |-> S]
    /\ UNCHANGED <<row, job, thread, note, emails, asked, cli, stop, restarts, givenUp, late, unheard>>

FailMark ==
    /\ fail.at = "mark" /\ fail' = [fail EXCEPT !.at = "check"]
    /\ row' = [r \in Runs |-> IF r \in fail.ids \cap PendingRuns THEN "ended" ELSE row[r]]
    /\ givenUp' = givenUp \cup (fail.ids \cap PendingRuns)
    /\ UNCHANGED <<job, thread, note, emails, asked, cli, stop, restarts, late, unheard>>

FailCheck ==
    /\ fail.at = "check"
    /\ fail' = [fail EXCEPT !.at = IF PendingRuns # {} THEN "done" ELSE "cancel"]
    /\ UNCHANGED <<row, job, thread, note, emails, asked, cli, stop, restarts, givenUp, late, unheard>>

FailCancel ==
    /\ fail.at = "cancel" /\ fail' = [fail EXCEPT !.at = "done"]
    /\ note' = IF note = "waiting" THEN "cancelled" ELSE note
    /\ UNCHANGED <<row, job, thread, emails, asked, cli, stop, restarts, givenUp, late, unheard>>

\* The server restarts: its handlers stop where they are.
Restart ==
    /\ restarts < MaxRestarts /\ restarts' = restarts + 1
    /\ thread' = [r \in Runs |-> "idle"]
    /\ stop' = [stop EXCEPT !.at = IF @ = "no" THEN "no" ELSE "done"]
    /\ fail' = [fail EXCEPT !.at = IF @ = "no" THEN "no" ELSE "done"]
    /\ asked' = IF asked = "sending" THEN "given up" ELSE asked
    /\ UNCHANGED <<row, job, note, emails, cli, givenUp, late, unheard>>

-----------------------------------------------------------------------------
\* The handler commits after on_run_ended() instead of before: "send" with nothing to send.
HandlerBug(r) ==
    \/ /\ thread[r] = "save" /\ Goes(r, IF row[r] = "untold" THEN "idle" ELSE "look") /\ UNCHANGED row
       /\ UNCHANGED <<job, note, emails, asked, cli, stop, fail, restarts, givenUp, late, unheard>>
    \/ Look(r) \/ Claim(r) \/ Send(r)
    \/ /\ thread[r] = "check" /\ Goes(r, IF PendingRuns = {r} THEN "claim" ELSE "send") /\ UNCHANGED row
       /\ UNCHANGED <<job, note, emails, asked, cli, stop, fail, restarts, givenUp, late, unheard>>
    \/ /\ thread[r] = "send" /\ note = "waiting" /\ Goes(r, "idle") /\ row' = [row EXCEPT ![r] = "ended"]
       /\ UNCHANGED <<job, note, emails, asked, cli, stop, fail, restarts, givenUp, late, unheard>>
Handler(r) == Save(r) \/ Look(r) \/ Check(r) \/ Claim(r) \/ Send(r)

Next ==
    \/ Request \/ RequestTimesOut \/ FailToStart
    \/ \E r \in Runs : Tell(r) \/ Start(r) \/ End(r) \/ EndUnsaid(r) \/ Settle(r) \/ Handler(r)
    \/ Stop \/ Stopped
    \/ FailPick \/ FailMark \/ FailCheck \/ FailCancel
    \/ Restart

Spec == Init /\ [][Next]_vars

-----------------------------------------------------------------------------
Stages == {"no", "mark", "check", "cancel", "jobs", "done"}

\* The type of the state.
TypeOK ==
    /\ row \in [Runs -> Rows] /\ job \in [Runs -> Jobs] /\ thread \in [Runs -> Threads]
    /\ note \in Notes /\ emails \in Nat
    /\ asked \in {"sending", "given up", "answered"} /\ cli \in {"up", "failed"}
    /\ stop \in [at : Stages, ids : SUBSET Runs] /\ fail \in [at : Stages, ids : SUBSET Runs]
    /\ restarts \in Nat /\ givenUp \in SUBSET Runs /\ late \in BOOLEAN /\ unheard \in SUBSET Runs

\* A command is emailed about at most once, when runs end together, when the server restarts
\* while it sends and when administrators cancel meanwhile (batches.py: "exactly once").
AtMostOneEmail == emails <= 1

\* No process of these runs is there, or will be: those that were never told about were steps of others.
Over(S) == \A r \in S : job[r] = "over" \/ (job[r] = "new" /\ StartedBy[r] # Cli)
AllOver == Over(Runs \ unheard)

\* The email is claimed when the command is really over, with the steps its runs started: all the
\* runs that QA-Board was told of, unless somebody gave up on one of them. It holds between two
\* statements of on_run_ended() because those who tell about runs are themselves pending ("before
\* it starts any of them").
NotBeforeTheEnd ==
    [][note = "waiting" /\ note' = "sending" => givenUp # {} \/ stop.at # "no" \/ AllOver]_vars

\* using-the-qa-cli.mdx: "one per `qa batch`, when its last run ends", and batches.py: "`qa batch`
\* tells QA-Board about all its runs (as pending) before it starts any of them". It is false: the
\* request that tells about a run can be lost, and the run starts all the same (qa.py:964).
NotBeforeTheLastRun ==
    [][note = "waiting" /\ note' = "sending" => givenUp # {} \/ stop.at # "no" \/ Over(Runs)]_vars

\* When the last runs end together, one of them sees that none is left: nobody waits for an email
\* when all is over, unless the batch was stopped, the server restarted or the email was asked for late.
NobodyLeftWaiting ==
    (/\ note = "waiting"
     /\ \E r \in Runs : row[r] = "ended"
     /\ \A r \in Runs : row[r] # "pending" /\ thread[r] = "idle"
     /\ fail.at \in {"no", "done"})
    => stop.at # "no" \/ restarts > 0 \/ late

\* running-from-the-webapp.mdx: "If you stop the batch from QA-Board, there is no email."
NoEmailOnceStopped == [][note = "waiting" /\ note' = "sending" => stop.at = "no"]_vars
=============================================================================
