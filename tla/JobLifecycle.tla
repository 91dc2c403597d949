---------------------------- MODULE JobLifecycle ----------------------------
(***************************************************************************)
(* What the job queue promises to those who created a job, whatever its    *)
(* workers go through: a job is run by one worker at a time, a worker only *)
(* takes a job that waits for one, and a job that ended never waits again. *)
(* Withdrawing a job (a cancel) does not take it away from its worker: the *)
(* worker lets go of it later, and what it says then replaces the cancel.  *)
(* JobQueue implements it as long as heartbeats get through.               *)
(***************************************************************************)
CONSTANTS Jobs, Workers, NoWorker

VARIABLES
    phase,   \* of each job: absent, waiting, taken, withdrawn, ended
    runner   \* the worker that runs it, or NoWorker

Free(j) == runner[j] = NoWorker

Init ==
    /\ phase = [j \in Jobs |-> "absent"]
    /\ runner = [j \in Jobs |-> NoWorker]

Submit(j) ==
    /\ phase[j] = "absent"
    /\ phase' = [phase EXCEPT ![j] = "waiting"]
    /\ UNCHANGED runner

Take(j, w) ==
    /\ phase[j] = "waiting" /\ Free(j)
    /\ phase' = [phase EXCEPT ![j] = "taken"]
    /\ runner' = [runner EXCEPT ![j] = w]

\* a cancel: also of a job that just ended
Withdraw(j) ==
    /\ phase[j] # "absent"
    /\ phase' = [phase EXCEPT ![j] = "withdrawn"]
    /\ UNCHANGED runner

\* the worker is through with the job, or gives it back
LetGo(j) ==
    /\ ~Free(j)
    /\ runner' = [runner EXCEPT ![j] = NoWorker]
    /\ \E p \in {"waiting", "withdrawn", "ended"} : phase' = [phase EXCEPT ![j] = p]

\* a worker dies, or loses the database: nobody runs its jobs
Drop(S) ==
    /\ S # {} /\ \A j \in S : ~Free(j)
    /\ runner' = [j \in Jobs |-> IF j \in S THEN NoWorker ELSE runner[j]]
    /\ UNCHANGED phase

\* the jobs nobody runs any more wait for another worker, or are over
Recover(S) ==
    /\ S # {} /\ \A j \in S : phase[j] = "taken" /\ Free(j)
    /\ \E p \in [S -> {"waiting", "withdrawn", "ended"}] :
        phase' = [j \in Jobs |-> IF j \in S THEN p[j] ELSE phase[j]]
    /\ UNCHANGED runner

Next ==
    \/ \E j \in Jobs : Submit(j) \/ Withdraw(j) \/ LetGo(j)
    \/ \E j \in Jobs, w \in Workers : Take(j, w)
    \/ \E S \in SUBSET Jobs : Drop(S) \/ Recover(S)

Spec == Init /\ [][Next]_<<phase, runner>>
=============================================================================
