------------------------------- MODULE Server -------------------------------
(* Two components of the server, next to each other: the end of a command  *)
(* that is under way (BatchEnds, whose names are kept) and the deletion of *)
(* the runs of a project that were deleted before (HardDelete).  They      *)
(* share no variable; each step is a step of one of them.                  *)
EXTENDS BatchEnds

CONSTANTS
    OldRuns,            \* the runs of the project, of other commands
    Commits,
    CommitOf,
    COMMITS_PER_PAGE,
    MaxTouches

VARIABLES mode, run, milestones, deletion, protection, missing, resume, touches, due, raced
deletions == <<mode, run, milestones, deletion, protection, missing, resume, touches, due, raced>>

Deletion == INSTANCE HardDelete WITH Runs <- OldRuns, job <- deletion

ASSUME OldRunsAssumption == Deletion!DeletionAssumption

Parts == {"ends", "deletion"}
StepOf(part) ==
    \/ part = "ends" /\ Next /\ UNCHANGED deletions
    \/ part = "deletion" /\ Deletion!Next /\ UNCHANGED vars

ServerInit == Init /\ Deletion!Init
ServerNext == \E part \in Parts : StepOf(part)
ServerSpec == ServerInit /\ [][ServerNext]_<<vars, deletions>>

-----------------------------------------------------------------------------
(* hard_delete.py: the rows, the job and its progress keep their shapes.   *)
DeletionTypeOK == Deletion!TypeOK

(* HardDelete.project, batch: a job that is done skipped nothing, however  *)
(* often it was interrupted.                                               *)
NothingSkipped == Deletion!NothingSkipped

(* HardDelete.batch, delete_run: neither milestones, nor the files of runs *)
(* that users kept, are deleted.                                           *)
OnlyWhatItMay == [][Deletion!DeletesOnlyWhatItMay]_deletions
=============================================================================
