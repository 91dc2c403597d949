----------------------------- MODULE HardDelete -----------------------------
(***************************************************************************)
(* The job that deletes the rows of deleted runs, and what is left of      *)
(* their files (backend/jobs/hard_delete.py), next to users who redo,      *)
(* delete and protect the same runs: it works for hours, from what it read *)
(* of the milestones when it started, of a batch's runs before it deleted  *)
(* their files, and of the folders it once found missing.  When its worker *)
(* dies it resumes from the last page that it reported.                    *)
(*                                                                         *)
(* One project, with one batch per commit; several projects follow each    *)
(* other in the same way.                                                  *)
(***************************************************************************)
EXTENDS Integers, FiniteSets

CONSTANTS
    Runs,
    Commits,            \* the ids of the commits, and of their batches
    CommitOf,
    COMMITS_PER_PAGE,
    MaxTouches          \* bound: what users do while the job is there

DeletionAssumption ==
    /\ Commits \subseteq Nat \ {0} /\ IsFiniteSet(Commits)
    /\ CommitOf \in [Runs -> Commits]
    /\ COMMITS_PER_PAGE \in Nat \ {0} /\ MaxTouches \in Nat

VARIABLES
    mode,       \* the parameter `runs`
    run,        \* the row of each run (gone, once deleted), and whether its folder is there
    milestones, \* the batches users protect
    job,        \* where the job is, and what it works on
    protection, \* the milestones that it read
    missing,    \* Folders.missing: the runs whose folder it knows to be missing
    resume,     \* progress["resume"], in the job's row: the last commit of a page
    touches,    \* how many times users did something
    due,        \* history: what the job found to delete when it was queued, untouched since
    raced       \* history: the runs redone, protected or not anymore, since it started
vars == <<mode, run, milestones, job, protection, missing, resume, touches, due, raced>>

Modes == {"deleted", "missing_files", "both"}
Stopped == [at |-> "off", last |-> 0, page |-> 0, todo |-> {}, batch |-> 0, gone |-> FALSE,
            candidates |-> {}, to_delete |-> {}]
Jobs == [at : {"off", "page", "batch", "runs", "folders", "rows", "done"}, last : Commits \cup {0},
         page : Commits \cup {0}, todo : SUBSET Commits, batch : Commits \cup {0}, gone : BOOLEAN,
         candidates : SUBSET [id : Runs, deleted : BOOLEAN], to_delete : SUBSET Runs]

TypeOK ==
    /\ mode \in Modes
    /\ run \in [Runs -> [row : BOOLEAN, deleted : BOOLEAN, is_pending : BOOLEAN, files : BOOLEAN]]
    /\ \A r \in Runs : run[r].is_pending => ~run[r].deleted
    /\ milestones \subseteq Commits /\ protection \subseteq Commits
    /\ job \in Jobs /\ resume \in Commits \cup {0}
    /\ touches \in 0..MaxTouches
    /\ missing \subseteq Runs /\ due \subseteq Runs /\ raced \subseteq Runs

RunsOf(c) == {r \in Runs : CommitOf[r] = c}

CandidateBug(r) ==                      \* runs that run, or are redone, too
    run[r].row /\ (mode = "deleted" => run[r].deleted)

(* candidate_runs(): never those running, or running again.                *)
Candidate(r) == run[r].row /\ ~run[r].is_pending /\ (mode = "deleted" => run[r].deleted)

(* What the job should delete, were it alone.                              *)
ToDelete(r) ==
    /\ Candidate(r) /\ CommitOf[r] \notin milestones
    /\ IF run[r].files THEN run[r].deleted /\ mode # "missing_files" ELSE TRUE

Init ==
    /\ mode \in Modes
    /\ run \in [Runs -> [row : {TRUE}, deleted : BOOLEAN, is_pending : BOOLEAN, files : BOOLEAN]]
    /\ \A r \in Runs : run[r].is_pending => ~run[r].deleted
    /\ milestones \in SUBSET Commits
    /\ job = Stopped /\ protection = {} /\ missing = {} /\ resume = 0 /\ touches = 0
    /\ due = {r \in Runs : ToDelete(r)} /\ raced = {}

-----------------------------------------------------------------------------
(* A worker runs the job, for the first time or after another stopped: it  *)
(* reads what is protected, once, and goes on after the page it reported.  *)
Starts ==
    /\ job.at = "off"
    /\ job' = [Stopped EXCEPT !.at = "page", !.last = resume]
    /\ protection' = milestones /\ missing' = {} /\ raced' = {}
    /\ UNCHANGED <<mode, run, milestones, touches, resume, due>>

(* Without knowing its milestones, the project is skipped.                 *)
SkipsProject ==
    /\ job.at = "off"
    /\ job' = [Stopped EXCEPT !.at = "done"]
    /\ due' = {}
    /\ UNCHANGED <<mode, run, milestones, touches, protection, missing, resume, raced>>

(* should_stop() and the reports of errors save the progress - at most     *)
(* every few seconds.                                                      *)
Flush == resume' \in {resume, job.last}

Left == {c \in Commits : c > job.last}
Page == {c \in Left : Cardinality({d \in Left : d < c}) < COMMITS_PER_PAGE}

ReadsPage ==
    /\ job.at = "page"
    /\ Flush
    /\ \/ Left = {} /\ job' = [job EXCEPT !.at = "done"]
       \/ \E last \in Page :
            /\ \A c \in Page : c <= last
            /\ job' = [job EXCEPT !.at = "batch", !.page = last,
                                  !.todo = {c \in Page : \E r \in RunsOf(c) : Candidate(r)}]
    /\ UNCHANGED <<mode, run, milestones, touches, protection, missing, due, raced>>

PageEndsBug ==                          \* the page is where the job resumes from as soon as it is read
    /\ job.at = "batch"
    /\ job.last # job.page
    /\ job' = [job EXCEPT !.last = job.page]
    /\ UNCHANGED <<mode, run, milestones, touches, protection, missing, resume, due, raced>>

(* Its batches are done: it resumes after them.                            *)
PageEnds ==
    /\ job.at = "batch" /\ job.todo = {}
    /\ job' = [Stopped EXCEPT !.at = "page", !.last = job.page]
    /\ UNCHANGED <<mode, run, milestones, touches, protection, missing, resume, due, raced>>

(* Folders.exists(): under a folder known to be missing, everything is;    *)
(* the highest folder that is missing is remembered, a run's, its batch's  *)
(* or one that batches share.                                              *)
Gone(r) == r \in missing \/ ~run[r].files

Remembers(below) ==
    \E folder \in {below, {r \in Runs : \E o \in below : CommitOf[r] = CommitOf[o]}, Runs} :
        /\ \A r \in folder : Gone(r)
        /\ missing' = missing \cup folder

Protected(c) == c \in protection

(* batch(): milestones are left alone; if its folder is missing, so is     *)
(* everything inside it, and the job remembers it.  The folder can be      *)
(* there without those of the runs.                                        *)
TakesBatch ==
    /\ job.at = "batch"
    /\ Flush
    /\ \E c \in job.todo :
        /\ \A other \in job.todo : c <= other
        /\ LET next == [job EXCEPT !.todo = @ \ {c}] IN
           IF Protected(c) THEN job' = next /\ UNCHANGED <<missing, due>>
           ELSE \/ /\ Remembers(RunsOf(c))
                   /\ job' = [next EXCEPT !.at = "runs", !.batch = c, !.gone = TRUE]
                   /\ UNCHANGED due
                \/ /\ ~(RunsOf(c) \subseteq missing)
                   /\ \/ /\ job' = [next EXCEPT !.at = "runs", !.batch = c, !.gone = FALSE]
                         /\ UNCHANGED due
                      \/ job' = next /\ due' = due \ RunsOf(c)  \* the storage may not be mounted
                   /\ UNCHANGED missing
    /\ UNCHANGED <<mode, run, milestones, touches, protection, raced>>

ReadsRuns ==
    /\ job.at = "runs"
    /\ LET found == {r \in RunsOf(job.batch) : Candidate(r)} IN
       job' = IF job.gone THEN [job EXCEPT !.at = "rows", !.to_delete = found]
              ELSE [job EXCEPT !.at = "folders",
                               !.candidates = {[id |-> r, deleted |-> run[r].deleted] : r \in found}]
    /\ UNCHANGED <<mode, run, milestones, touches, protection, missing, resume, due, raced>>

(* "It has files: users still have it", and one mode deletes none.         *)
KeepsFiles(candidate) == ~candidate.deleted \/ mode = "missing_files"

(* delete_run(): whoever uses the folder now, it goes if the run was read  *)
(* as deleted.                                                             *)
DeletesRun ==
    /\ job.at = "folders"
    /\ \E candidate \in job.candidates :
        LET r == candidate.id
            left == [job EXCEPT !.candidates = @ \ {candidate}]
            deleted == [job EXCEPT !.candidates = @ \ {candidate}, !.to_delete = @ \cup {r}]
        IN  \/ Remembers({r}) /\ job' = deleted /\ UNCHANGED <<run, resume, due>>
            \/ ~Gone(r) /\ KeepsFiles(candidate) /\ job' = left /\ UNCHANGED <<run, missing, resume, due>>
            \/ /\ ~Gone(r) /\ ~KeepsFiles(candidate)
               /\ run' = [run EXCEPT ![r].files = FALSE]
               /\ job' = deleted /\ missing' = missing \cup {r}
               /\ UNCHANGED <<resume, due>>
            \/ /\ r \notin missing    \* no storage, or no permission: the run is kept
               /\ Flush
               /\ job' = left /\ due' = due \ {r}
               /\ UNCHANGED <<run, missing>>
    /\ UNCHANGED <<mode, milestones, touches, protection, raced>>

BatchEnds(next) == [next EXCEPT !.at = "batch", !.batch = 0, !.gone = FALSE, !.to_delete = {}]

RunsAreDone ==
    /\ job.at = "folders" /\ job.candidates = {}
    /\ job' = [job EXCEPT !.at = "rows"]
    /\ UNCHANGED <<mode, run, milestones, touches, protection, missing, resume, due, raced>>

(* The rows go by id, or the database refuses and they stay.               *)
DeletesRows ==
    /\ job.at = "rows"
    /\ job' = BatchEnds(job)
    /\ \/ /\ run' = [r \in Runs |-> IF r \in job.to_delete THEN [run[r] EXCEPT !.row = FALSE] ELSE run[r]]
          /\ UNCHANGED <<resume, due>>
       \/ /\ job.to_delete # {} /\ Flush
          /\ due' = due \ job.to_delete
          /\ UNCHANGED run
    /\ UNCHANGED <<mode, milestones, touches, protection, missing, raced>>

(* should_stop(): a deploy.                                                *)
Stops ==
    /\ job.at = "page" \/ (job.at = "batch" /\ job.todo # {})
    /\ resume' = job.last
    /\ job' = Stopped
    /\ UNCHANGED <<mode, run, milestones, touches, protection, missing, due, raced>>

IsKilled ==
    /\ job.at \notin {"off", "done"}
    /\ job' = Stopped
    /\ UNCHANGED <<mode, run, milestones, touches, protection, missing, resume, due, raced>>

-----------------------------------------------------------------------------
(* What users do meanwhile, to runs that are there.  Deleting keeps e.g.   *)
(* the manifest in the run's folder.                                       *)
Touched == touches < MaxTouches /\ touches' = touches + 1

Touches(r, new) ==
    /\ Touched
    /\ run[r].row
    /\ run' = [run EXCEPT ![r] = new]
    /\ UNCHANGED <<mode, milestones, job, protection, missing, resume>>

SoftDelete(r) ==
    /\ ~run[r].is_pending /\ ~run[r].deleted
    /\ Touches(r, [run[r] EXCEPT !.deleted = TRUE])
    /\ UNCHANGED <<due, raced>>

RedoBug(r) ==                           \* what is redone stays deleted
    /\ ~run[r].is_pending
    /\ Touches(r, [run[r] EXCEPT !.is_pending = TRUE])
    /\ due' = due \ {r} /\ raced' = raced \cup {r}

(* A run is redone, writes its folder, and ends.                           *)
Redo(r) ==
    /\ ~run[r].is_pending
    /\ Touches(r, [run[r] EXCEPT !.is_pending = TRUE, !.deleted = FALSE])
    /\ due' = due \ {r} /\ raced' = raced \cup {r}

Writes(r) ==
    /\ run[r].is_pending /\ ~run[r].files
    /\ Touches(r, [run[r] EXCEPT !.files = TRUE])
    /\ raced' = raced \cup {r}
    /\ UNCHANGED due

Ends(r) ==
    /\ run[r].is_pending
    /\ Touches(r, [run[r] EXCEPT !.is_pending = FALSE])
    /\ UNCHANGED <<due, raced>>

(* A quota script, or users, delete the folder.                            *)
LosesFiles(r) ==
    /\ run[r].files
    /\ Touches(r, [run[r] EXCEPT !.files = FALSE])
    /\ UNCHANGED <<due, raced>>

ChangesMilestone(c) ==
    /\ Touched
    /\ milestones' = IF c \in milestones THEN milestones \ {c} ELSE milestones \cup {c}
    /\ due' = due \ RunsOf(c) /\ raced' = raced \cup RunsOf(c)
    /\ UNCHANGED <<mode, run, job, protection, missing, resume>>

Next ==
    \/ Starts \/ SkipsProject \/ ReadsPage \/ PageEnds \/ TakesBatch \/ ReadsRuns
    \/ DeletesRun \/ RunsAreDone \/ DeletesRows \/ Stops \/ IsKilled
    \/ \E r \in Runs : SoftDelete(r) \/ Redo(r) \/ Writes(r) \/ Ends(r) \/ LosesFiles(r)
    \/ \E c \in Commits : ChangesMilestone(c)

Spec == Init /\ [][Next]_vars

-----------------------------------------------------------------------------
(* "The job resumes where it was if it's interrupted": when it is done,    *)
(* nothing that it was asked to delete is left, however often it was       *)
(* killed in the middle of a page - but for what users touched since, and  *)
(* the errors that it reported.                                            *)
NothingSkipped == job.at = "done" => \A r \in due : ~run[r].row

(* "Milestones are never deleted", runs that users did not delete only     *)
(* lose their row once they have no files, and "we never delete files"     *)
(* of missing runs: unless the runs are redone, or the milestones change,  *)
(* while the job runs.                                                     *)
DeletesOnlyWhatItMay ==
    job' # job => \A r \in Runs :
        LET untouched == r \notin raced
            may == CommitOf[r] \notin milestones /\ ~run[r].is_pending
        IN  /\ untouched /\ run[r].files /\ ~run'[r].files => may /\ run[r].deleted /\ mode # "missing_files"
            /\ untouched /\ run[r].row /\ ~run'[r].row => may /\ ~run[r].files /\ (mode = "deleted" => run[r].deleted)
OnlyWhatItMay == [][DeletesOnlyWhatItMay]_vars
=============================================================================
