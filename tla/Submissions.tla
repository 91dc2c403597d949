----------------------------- MODULE Submissions -----------------------------
(***************************************************************************)
(* Where a batch started from QA-Board is at, told from the files its job  *)
(* writes (src/webapp/src/components/logs/submissions.js): log.txt, which  *)
(* ends with qa batch's exit code, and LSF's report in log.lsf.txt.        *)
(*                                                                         *)
(* Components that show the same submission share a store and its polling. *)
(* They come and go, the submission's status moves them to another store,  *)
(* and a check reads its two files at two moments.                         *)
(***************************************************************************)
EXTENDS Integers, FiniteSets

CONSTANTS
    Listeners,      \* the components that may show the submission
    MaxFailures     \* bound: the requests that fail

SubmissionsAssumption == MaxFailures \in Nat

Statuses == {"submitting", "submitted", "done", "failed"}
States == {"queued", "running", "done", "failed"}
IsFinal(state) == state \in {"done", "failed"}

VARIABLES
    job,        \* whether it logs, its exit code (-1: none yet), LSF's report
    lsf,        \* whether LSF runs it
    status,     \* what the server says of the submission
    stores,     \* by status: what is shown, who listens, the polling
    failures
vars == <<job, lsf, status, stores, failures>>

Codes == {-1, 0, 1}
Unread == {}
Reports == {"none", "successful", "exited"}

TypeOK ==
    /\ job \in [log : BOOLEAN, code : Codes, report : Reports]
    /\ lsf \in BOOLEAN /\ status \in Statuses /\ failures \in 0..MaxFailures
    /\ stores \in [Statuses -> [state : States, listeners : SUBSET Listeners,
                                polling : BOOLEAN, timer : BOOLEAN,
                                log : SUBSET (BOOLEAN \X Codes), report : SUBSET Reports]]

SubmissionStateBug(backend, report, log) ==     \* LSF said something: it is over
    IF backend \in {"failed", "done"} THEN backend
    ELSE IF report # "none" THEN "failed"
    ELSE IF log[2] # -1 THEN (IF log[2] = 0 THEN "done" ELSE "failed")
    ELSE IF log[1] \/ backend = "submitting" THEN "running"
    ELSE "queued"

SubmissionStateDeaf(backend, report, log) ==    \* the exit code is not looked for
    IF backend \in {"failed", "done"} THEN backend
    ELSE IF report # "none" THEN (IF report = "successful" THEN "done" ELSE "failed")
    ELSE IF log[1] \/ backend = "submitting" THEN "running"
    ELSE "queued"

(* submissionState(): the server's last word, else LSF's, else the log's.  *)
SubmissionState(backend, report, log) ==
    IF backend = "failed" THEN "failed"
    ELSE IF backend = "done" THEN "done"
    ELSE IF report = "successful" THEN "done"
    ELSE IF report = "exited" THEN "failed"
    ELSE IF log[2] # -1 THEN (IF log[2] = 0 THEN "done" ELSE "failed")
    ELSE IF log[1] \/ backend = "submitting" THEN "running"
    ELSE "queued"

NoLog == <<FALSE, -1>>

Init ==
    /\ job = [log |-> FALSE, code |-> -1, report |-> "none"]
    /\ lsf \in BOOLEAN
    /\ status \in {"submitting", "submitted"}
    /\ stores = [s \in Statuses |->
                   [state |-> SubmissionState(s, "none", NoLog), listeners |-> {},
                    polling |-> FALSE, timer |-> FALSE, log |-> Unread, report |-> Unread]]
    /\ failures = 0

-----------------------------------------------------------------------------
(* startPolling(): once per store, unless there is nothing more to learn.  *)
Started(store, s) ==
    IF store.polling \/ IsFinal(store.state) \/ s \in {"done", "failed"} THEN store
    ELSE [store EXCEPT !.polling = TRUE, !.timer = FALSE, !.log = Unread, !.report = Unread]

(* stopPolling(): the requests under way are aborted.                      *)
StoppedBug(store) ==                \* the controller stays
    [store EXCEPT !.timer = FALSE, !.log = Unread, !.report = Unread]

Stopped(store) ==
    [store EXCEPT !.polling = FALSE, !.timer = FALSE, !.log = Unread, !.report = Unread]

Joins(store, s, who) == Started([store EXCEPT !.listeners = @ \cup who], s)

Leaves(store, who) ==
    IF store.listeners \subseteq who THEN Stopped([store EXCEPT !.listeners = {}])
    ELSE [store EXCEPT !.listeners = @ \ who]

Subscribe ==
    \E c \in Listeners \ stores[status].listeners :
        /\ stores' = [stores EXCEPT ![status] = Joins(@, status, {c})]
        /\ UNCHANGED <<job, lsf, status, failures>>

Unsubscribe ==
    \E c \in stores[status].listeners :
        /\ stores' = [stores EXCEPT ![status] = Leaves(@, {c})]
        /\ UNCHANGED <<job, lsf, status, failures>>

(* The batch is refreshed, its submission has another status: the same     *)
(* components subscribe to another store.                                  *)
StatusChanges ==
    \E s \in Statuses, who \in {stores[status].listeners} :
        /\ \/ status = "submitting" /\ s \in {"submitted", "failed"}
           \/ status = "submitted" /\ s = "done" /\ job.code = 0
           \/ status = "submitted" /\ s = "failed" /\ (job.code = 1 \/ job.report = "exited")
        /\ status' = s
        /\ stores' = [stores EXCEPT ![status] = IF who = {} THEN @ ELSE Leaves(@, who),
                                    ![s] = IF who = {} THEN @ ELSE Joins(@, s, who)]
        /\ UNCHANGED <<job, lsf, failures>>

-----------------------------------------------------------------------------
(* The job: it logs, prints its exit code last, then LSF reports; or LSF   *)
(* kills it.                                                               *)
JobLogs ==
    /\ ~job.log /\ job.report = "none"
    /\ job' = [job EXCEPT !.log = TRUE]
    /\ UNCHANGED <<lsf, status, stores, failures>>

JobExits ==
    /\ job.log /\ job.code = -1 /\ job.report = "none"
    /\ \E code \in {0, 1} : job' = [job EXCEPT !.code = code]
    /\ UNCHANGED <<lsf, status, stores, failures>>

LsfReports ==
    /\ lsf /\ job.report = "none"
    /\ job' = [job EXCEPT !.report = IF job.code = 0 THEN "successful" ELSE "exited"]
    /\ UNCHANGED <<lsf, status, stores, failures>>

-----------------------------------------------------------------------------
(* check(): the two files, in any order ...                                *)
Asking(s) == stores[s].polling /\ ~stores[s].timer

ReadLog ==
    \E s \in Statuses :
        /\ Asking(s) /\ stores[s].log = Unread
        /\ stores' = [stores EXCEPT ![s].log = {<<job.log, job.code>>}]
        /\ UNCHANGED <<job, lsf, status, failures>>

ReadReport ==
    \E s \in Statuses :
        /\ Asking(s) /\ stores[s].report = Unread
        /\ stores' = [stores EXCEPT ![s].report = {IF lsf THEN job.report ELSE "none"}]
        /\ UNCHANGED <<job, lsf, status, failures>>

(* ... then what they say, until it is final.                              *)
Checked ==
    \E s \in Statuses :
        /\ Asking(s)
        /\ \E log \in stores[s].log, report \in stores[s].report :
             LET state == SubmissionState(s, report, log) IN
             stores' = [stores EXCEPT ![s] = [@ EXCEPT !.state = state, !.polling = ~IsFinal(state),
                                                       !.timer = ~IsFinal(state), !.log = Unread, !.report = Unread]]
        /\ UNCHANGED <<job, lsf, status, failures>>

CheckFails ==
    \E s \in Statuses :
        /\ Asking(s) /\ failures < MaxFailures
        /\ failures' = failures + 1
        /\ stores' = [stores EXCEPT ![s] = [@ EXCEPT !.timer = TRUE, !.log = Unread, !.report = Unread]]
        /\ UNCHANGED <<job, lsf, status>>

CheckAgain ==
    \E s \in Statuses :
        /\ stores[s].timer
        /\ stores' = [stores EXCEPT ![s].timer = FALSE]
        /\ UNCHANGED <<job, lsf, status, failures>>

Next ==
    \/ Subscribe \/ Unsubscribe \/ StatusChanges
    \/ JobLogs \/ JobExits \/ LsfReports
    \/ ReadLog \/ ReadReport \/ Checked \/ CheckFails \/ CheckAgain

(* Requests are answered and timers fire; nothing says that jobs end.      *)
Fairness ==
    /\ WF_vars(ReadLog) /\ WF_vars(ReadReport) /\ WF_vars(Checked) /\ WF_vars(CheckAgain)

Spec == Init /\ [][Next]_vars /\ Fairness

-----------------------------------------------------------------------------
(* A store polls while somebody looks and there is something to learn, and *)
(* only then: whoever comes back finds it polling again (startPolling,     *)
(* stopPolling, useSubmissionStatus).                                      *)
PollsWhileWatched ==
    \A s \in Statuses :
        stores[s].polling <=> stores[s].listeners # {} /\ ~IsFinal(stores[s].state)

(* A final state is what became of the job, whatever was read first.       *)
FinalIsTrue ==
    \A s \in {"submitting", "submitted"} :
        /\ stores[s].state = "done" => job.code = 0
        /\ stores[s].state = "failed" => job.code = 1 \/ (job.report = "exited" /\ job.code # 0)

(* Whoever keeps looking learns that the job is over.                      *)
EndIsSeen ==
    [](job.code # -1 => <>(stores[status].listeners = {} \/ IsFinal(stores[status].state)))
=============================================================================
