-------------------------- MODULE HardDeleteProofs --------------------------
(* The job that hard-deletes runs, for any runs, commits and pages, however *)
(* often it is interrupted and whatever users do meanwhile: when it is done *)
(* it skipped nothing, and it only deleted what it may.                     *)
EXTENDS HardDelete, FiniteSetTheorems, TLAPS

RunRows == [row : BOOLEAN, deleted : BOOLEAN, is_pending : BOOLEAN, files : BOOLEAN]

(* The types, by who changes them.                                         *)
UserTypes ==
    /\ mode \in Modes /\ milestones \in SUBSET Commits /\ touches \in 0..MaxTouches
    /\ run \in [Runs -> RunRows] /\ \A r \in Runs : run[r].is_pending => ~run[r].deleted
JobTypes == job \in Jobs /\ resume \in Commits \cup {0}
SetTypes ==
    /\ protection \in SUBSET Commits /\ missing \in SUBSET Runs
    /\ due \in SUBSET Runs /\ raced \in SUBSET Runs

LEMMA Types == TypeOK <=> UserTypes /\ JobTypes /\ SetTypes
BY DEF TypeOK, UserTypes, JobTypes, SetTypes, RunRows

LEMMA StoppedJob == Stopped \in Jobs /\ Stopped.at = "off" /\ Stopped.to_delete = {}
BY DEF Stopped, Jobs

-----------------------------------------------------------------------------
(* What each step does to the job, field by field: the rest of the proofs  *)
(* uses these.                                                             *)
SamePage == job' \in Jobs /\ job'.last = job.last /\ job'.page = job.page
SameBatch == SamePage /\ job'.todo = job.todo /\ job'.batch = job.batch

LEMMA StartsJob ==
    ASSUME JobTypes, Starts
    PROVE  job' \in Jobs /\ job'.at = "page" /\ job'.last = resume /\ job'.to_delete = {}
BY DEF JobTypes, Jobs, Stopped, Starts

LEMMA SkipsProjectJob ==
    ASSUME SkipsProject
    PROVE  job' \in Jobs /\ job'.at = "done" /\ job'.to_delete = {}
BY DEF Jobs, Stopped, SkipsProject

LEMMA ReadsPageJob ==
    ASSUME JobTypes, ReadsPage
    PROVE  /\ job' \in Jobs /\ job'.last = job.last /\ job'.to_delete = job.to_delete
           /\ \/ job'.at = "done" /\ Left = {}
              \/ /\ job'.at = "batch" /\ job'.page \in Page /\ \A c \in Page : c <= job'.page
                 /\ job'.todo = {c \in Page : \E r \in RunsOf(c) : Candidate(r)}
<1>1. CASE Left = {} /\ job' = [job EXCEPT !.at = "done"]
  BY <1>1 DEF JobTypes, Jobs
<1>2. ASSUME NEW last \in Page, \A c \in Page : c <= last,
             NEW S, S = {c \in Page : \E r \in RunsOf(c) : Candidate(r)},
             job' = [job EXCEPT !.at = "batch", !.page = last, !.todo = S]
      PROVE  /\ job' \in Jobs /\ job'.last = job.last /\ job'.to_delete = job.to_delete
             /\ job'.at = "batch" /\ job'.page = last /\ job'.todo = S
  <2>1. S \in SUBSET Commits /\ last \in Commits
    BY <1>2 DEF Page, Left
  <2> QED
    BY <1>2, <2>1 DEF JobTypes, Jobs
<1> QED
  BY <1>1, <1>2 DEF ReadsPage

LEMMA PageEndsJob ==
    ASSUME JobTypes, PageEnds
    PROVE  job' \in Jobs /\ job'.at = "page" /\ job'.last = job.page /\ job'.to_delete = {}
BY DEF JobTypes, Jobs, Stopped, PageEnds

(* A batch is protected, reported with an error, or taken.                 *)
LEMMA TakesBatchJob ==
    ASSUME JobTypes, TakesBatch
    PROVE  \E c \in job.todo :
             /\ SamePage /\ job'.todo = job.todo \ {c} /\ job'.to_delete = job.to_delete
             /\ \/ /\ job'.at = "batch"
                   /\ (Protected(c) /\ due' = due) \/ due' = due \ RunsOf(c)
                \/ /\ job'.at = "runs" /\ job'.batch = c /\ ~Protected(c) /\ due' = due
                   /\ job'.gone => RunsOf(c) \subseteq missing'
<1> USE DEF SamePage
<1>1. PICK c \in job.todo :
         \/ /\ (Protected(c) /\ due' = due) \/ due' = due \ RunsOf(c)
            /\ job' = [job EXCEPT !.todo = @ \ {c}]
         \/ /\ ~Protected(c) /\ due' = due /\ Remembers(RunsOf(c))
            /\ job' = [[job EXCEPT !.todo = @ \ {c}] EXCEPT !.at = "runs", !.batch = c, !.gone = TRUE]
         \/ /\ ~Protected(c) /\ due' = due
            /\ job' = [[job EXCEPT !.todo = @ \ {c}] EXCEPT !.at = "runs", !.batch = c, !.gone = FALSE]
  BY DEF TakesBatch
<1>2. job \in Jobs /\ c \in Commits /\ job.at = "batch"
  BY DEF JobTypes, Jobs, TakesBatch
<1>3. CASE /\ (Protected(c) /\ due' = due) \/ due' = due \ RunsOf(c)
           /\ job' = [job EXCEPT !.todo = @ \ {c}]
  <2>1. SamePage /\ job'.todo = job.todo \ {c} /\ job'.to_delete = job.to_delete /\ job'.at = "batch"
    BY <1>2, <1>3 DEF Jobs
  <2> QED
    BY <1>3, <2>1
<1>4. CASE /\ ~Protected(c) /\ due' = due /\ Remembers(RunsOf(c))
           /\ job' = [[job EXCEPT !.todo = @ \ {c}] EXCEPT !.at = "runs", !.batch = c, !.gone = TRUE]
  <2>1. RunsOf(c) \subseteq missing'
    BY <1>4 DEF Remembers, RunsOf
  <2> QED
    BY <1>2, <1>4, <2>1 DEF Jobs
<1>5. CASE /\ ~Protected(c) /\ due' = due
           /\ job' = [[job EXCEPT !.todo = @ \ {c}] EXCEPT !.at = "runs", !.batch = c, !.gone = FALSE]
  BY <1>2, <1>5 DEF Jobs
<1> QED
  BY <1>1, <1>3, <1>4, <1>5

LEMMA ReadsRunsJob ==
    ASSUME JobTypes, UserTypes, ReadsRuns, NEW found, found = {r \in RunsOf(job.batch) : Candidate(r)}
    PROVE  /\ SameBatch
           /\ \/ job.gone /\ job'.at = "rows" /\ job'.to_delete = found
              \/ /\ job'.at = "folders" /\ job'.to_delete = job.to_delete
                 /\ job'.candidates = {[id |-> r, deleted |-> run[r].deleted] : r \in found}
<1> USE DEF SamePage, SameBatch
<1>1. found \subseteq Runs /\ \A r \in Runs : run[r].deleted \in BOOLEAN
  BY DEF RunsOf, UserTypes, RunRows
<1>2. CASE job' = [job EXCEPT !.at = "rows", !.to_delete = found] /\ job.gone
  BY <1>1, <1>2 DEF JobTypes, Jobs
<1>3. ASSUME NEW S, S = {[id |-> r, deleted |-> run[r].deleted] : r \in found},
             job' = [job EXCEPT !.at = "folders", !.candidates = S]
      PROVE  SameBatch /\ job'.at = "folders" /\ job'.to_delete = job.to_delete /\ job'.candidates = S
  <2>1. S \in SUBSET [id : Runs, deleted : BOOLEAN]
    BY <1>1, <1>3
  <2> QED
    BY <1>3, <2>1 DEF JobTypes, Jobs
<1> QED
  BY <1>2, <1>3 DEF ReadsRuns

(* A candidate is to be deleted, or it is kept or reported.                *)
LEMMA DeletesRunJob ==
    ASSUME JobTypes, DeletesRun
    PROVE  \E candidate \in job.candidates :
             /\ SameBatch /\ job'.at = "folders" /\ job'.candidates = job.candidates \ {candidate}
             /\ \/ /\ job'.to_delete = job.to_delete \cup {candidate.id} /\ due' = due
                   /\ \/ run' = run /\ Remembers({candidate.id}) /\ candidate.id \in missing'
                      \/ /\ ~KeepsFiles(candidate) /\ run' = [run EXCEPT ![candidate.id].files = FALSE]
                         /\ missing' = missing \cup {candidate.id}
                \/ /\ job'.to_delete = job.to_delete /\ run' = run /\ missing' = missing
                   /\ \/ ~Gone(candidate.id) /\ KeepsFiles(candidate) /\ due' = due
                      \/ due' = due \ {candidate.id}
<1> USE DEF SamePage, SameBatch
<1>1. PICK candidate \in job.candidates :
         \/ /\ job' = [job EXCEPT !.candidates = @ \ {candidate}, !.to_delete = @ \cup {candidate.id}]
            /\ due' = due
            /\ \/ run' = run /\ Remembers({candidate.id})
               \/ /\ ~KeepsFiles(candidate) /\ run' = [run EXCEPT ![candidate.id].files = FALSE]
                  /\ missing' = missing \cup {candidate.id}
         \/ /\ job' = [job EXCEPT !.candidates = @ \ {candidate}] /\ run' = run /\ missing' = missing
            /\ \/ ~Gone(candidate.id) /\ KeepsFiles(candidate) /\ due' = due
               \/ due' = due \ {candidate.id}
  BY Zenon DEF DeletesRun
<1>2. job \in Jobs /\ candidate.id \in Runs /\ job.at = "folders"
  BY DEF JobTypes, Jobs, DeletesRun
<1>3. ASSUME job' = [job EXCEPT !.candidates = @ \ {candidate}]
      PROVE  /\ SameBatch /\ job'.at = "folders" /\ job'.candidates = job.candidates \ {candidate}
             /\ job'.to_delete = job.to_delete
  BY <1>2, <1>3 DEF Jobs
<1>4. ASSUME job' = [job EXCEPT !.candidates = @ \ {candidate}, !.to_delete = @ \cup {candidate.id}]
      PROVE  /\ SameBatch /\ job'.at = "folders" /\ job'.candidates = job.candidates \ {candidate}
             /\ job'.to_delete = job.to_delete \cup {candidate.id}
  BY <1>2, <1>4 DEF Jobs
<1>5. Remembers({candidate.id}) => candidate.id \in missing'
  BY <1>2 DEF Remembers
<1> QED
  BY <1>1, <1>3, <1>4, <1>5

LEMMA RunsAreDoneJob ==
    ASSUME JobTypes, RunsAreDone
    PROVE  SameBatch /\ job'.at = "rows" /\ job'.to_delete = job.to_delete
BY DEF JobTypes, Jobs, RunsAreDone, SamePage, SameBatch

LEMMA DeletesRowsJob ==
    ASSUME JobTypes, DeletesRows
    PROVE  SamePage /\ job'.at = "batch" /\ job'.todo = job.todo /\ job'.to_delete = {}
<1>1. job' = BatchEnds(job) /\ job \in Jobs
  BY DEF DeletesRows, JobTypes
<1> QED
  BY <1>1 DEF Jobs, BatchEnds, SamePage

(* What users do leaves the job alone.                                     *)
LEMMA UsersJob ==
    ASSUME \/ \E r \in Runs : SoftDelete(r) \/ Redo(r) \/ Writes(r) \/ Ends(r) \/ LosesFiles(r)
           \/ \E c \in Commits : ChangesMilestone(c)
    PROVE  UNCHANGED <<mode, job, protection, missing, resume>>
BY DEF SoftDelete, Redo, Writes, Ends, LosesFiles, Touches, ChangesMilestone

-----------------------------------------------------------------------------
LEMMA TypeInit == DeletionAssumption /\ Init => TypeOK
<1> SUFFICES ASSUME DeletionAssumption, Init PROVE UserTypes /\ JobTypes /\ SetTypes
  BY Types
<1>1. UserTypes
  <2>1. run \in [Runs -> RunRows]
    BY DEF Init, RunRows
  <2>2. 0 \in 0..MaxTouches
    BY DEF DeletionAssumption
  <2> QED
    BY <2>1, <2>2 DEF Init, UserTypes
<1>2. JobTypes
  BY StoppedJob DEF Init, JobTypes
<1>3. SetTypes
  BY DEF Init, SetTypes
<1> QED
  BY <1>1, <1>2, <1>3

(* What one run becomes.                                                   *)
LEMMA RunTypesTouched ==
    ASSUME DeletionAssumption, UserTypes, NEW r \in Runs, NEW new \in RunRows,
           new.is_pending => ~new.deleted, Touches(r, new)
    PROVE  UserTypes'
BY DEF UserTypes, Touches, Touched, DeletionAssumption

LEMMA UserTypesStep == DeletionAssumption /\ TypeOK /\ [Next]_vars => UserTypes'
<1> SUFFICES ASSUME DeletionAssumption, UserTypes, JobTypes, [Next]_vars PROVE UserTypes'
  BY Types
<1>1. CASE Starts \/ SkipsProject \/ ReadsPage \/ PageEnds \/ TakesBatch \/ ReadsRuns \/ RunsAreDone \/ Stops \/ IsKilled
  BY <1>1 DEF UserTypes, Starts, SkipsProject, ReadsPage, PageEnds, TakesBatch, ReadsRuns, RunsAreDone, Stops, IsKilled
<1>2. CASE DeletesRun
  <2>1. UNCHANGED <<mode, milestones, touches>>
    BY <1>2 DEF DeletesRun
  <2>2. run' = run \/ \E candidate \in job.candidates : run' = [run EXCEPT ![candidate.id].files = FALSE]
    BY <1>2, DeletesRunJob
  <2> QED
    BY <2>1, <2>2 DEF UserTypes, RunRows
<1>3. CASE DeletesRows
  <2>1. UNCHANGED <<mode, milestones, touches>>
    BY <1>3 DEF DeletesRows
  <2>2. \/ run' = run
        \/ run' = [r \in Runs |-> IF r \in job.to_delete THEN [run[r] EXCEPT !.row = FALSE] ELSE run[r]]
    BY <1>3 DEF DeletesRows
  <2> QED
    BY <2>1, <2>2 DEF UserTypes, RunRows
<1>4. ASSUME NEW r \in Runs, SoftDelete(r) \/ Redo(r) \/ Writes(r) \/ Ends(r) \/ LosesFiles(r)
      PROVE  UserTypes'
  <2>1. run[r] \in RunRows /\ (run[r].is_pending => ~run[r].deleted)
    BY DEF UserTypes
  <2>2. PICK new \in RunRows : (new.is_pending => ~new.deleted) /\ Touches(r, new)
    BY <1>4, <2>1 DEF SoftDelete, Redo, Writes, Ends, LosesFiles, RunRows
  <2> QED
    BY <2>2, RunTypesTouched
<1>5. ASSUME NEW c \in Commits, ChangesMilestone(c)
      PROVE  UserTypes'
  BY <1>5 DEF UserTypes, ChangesMilestone, Touched, DeletionAssumption
<1>6. CASE UNCHANGED vars
  BY <1>6 DEF UserTypes, vars
<1> QED
  BY <1>1, <1>2, <1>3, <1>4, <1>5, <1>6 DEF Next

LEMMA JobTypesStep == TypeOK /\ [Next]_vars => JobTypes'
<1> SUFFICES ASSUME UserTypes, JobTypes, [Next]_vars PROVE JobTypes'
  BY Types
<1>1. job' \in Jobs
  <2>1. CASE Starts \/ SkipsProject \/ ReadsPage \/ PageEnds \/ TakesBatch
    BY <2>1, StartsJob, SkipsProjectJob, ReadsPageJob, PageEndsJob, TakesBatchJob DEF SamePage
  <2>2. CASE ReadsRuns \/ DeletesRun \/ RunsAreDone \/ DeletesRows
    BY <2>2, ReadsRunsJob, DeletesRunJob, RunsAreDoneJob, DeletesRowsJob DEF SamePage, SameBatch
  <2>3. CASE Stops \/ IsKilled
    BY <2>3, StoppedJob DEF Stops, IsKilled
  <2>4. CASE UNCHANGED vars
    BY <2>4 DEF vars, JobTypes
  <2> QED
    BY <2>1, <2>2, <2>3, <2>4, UsersJob DEF Next, JobTypes
<1>2. resume' \in {resume, job.last}
  BY UsersJob DEF Next, Starts, SkipsProject, ReadsPage, PageEnds, TakesBatch, ReadsRuns, DeletesRun,
                  RunsAreDone, DeletesRows, Stops, IsKilled, Flush, vars
<1> QED
  BY <1>1, <1>2 DEF JobTypes, Jobs

LEMMA SetTypesStep == TypeOK /\ [Next]_vars => SetTypes'
<1> SUFFICES ASSUME UserTypes, JobTypes, SetTypes, [Next]_vars PROVE SetTypes'
  BY Types
<1> USE DEF SetTypes
<1>1. CASE Starts \/ SkipsProject \/ ReadsPage \/ PageEnds \/ ReadsRuns \/ RunsAreDone \/ Stops \/ IsKilled
  BY <1>1 DEF UserTypes, Starts, SkipsProject, ReadsPage, PageEnds, ReadsRuns, RunsAreDone, Stops, IsKilled
<1>2. CASE TakesBatch
  BY <1>2 DEF TakesBatch, Remembers, RunsOf
<1>3. CASE DeletesRun
  BY <1>3 DEF DeletesRun, Remembers, JobTypes, Jobs
<1>4. CASE DeletesRows
  BY <1>4 DEF DeletesRows
<1>5. ASSUME NEW r \in Runs, SoftDelete(r) \/ Redo(r) \/ Writes(r) \/ Ends(r) \/ LosesFiles(r)
      PROVE  SetTypes'
  BY <1>5 DEF SoftDelete, Redo, Writes, Ends, LosesFiles, Touches
<1>6. ASSUME NEW c \in Commits, ChangesMilestone(c)
      PROVE  SetTypes'
  BY <1>6 DEF ChangesMilestone, RunsOf
<1>7. CASE UNCHANGED vars
  BY <1>7 DEF vars
<1> QED
  BY <1>1, <1>2, <1>3, <1>4, <1>5, <1>6, <1>7 DEF Next

LEMMA TypeStep == DeletionAssumption /\ TypeOK /\ [Next]_vars => TypeOK'
<1>1. DeletionAssumption /\ TypeOK /\ [Next]_vars => UserTypes' /\ JobTypes' /\ SetTypes'
  BY UserTypesStep, JobTypesStep, SetTypesStep
<1> QED
  BY <1>1 DEF TypeOK, UserTypes, JobTypes, SetTypes, RunRows

(* For any runs, commits and pages: the rows, the job and its progress keep *)
(* their types, and no run is at once running and deleted (hard_delete.py,  *)
(* outputs.py).                                                             *)
THEOREM TypeCorrect ==
    ASSUME DeletionAssumption
    PROVE  Spec => []TypeOK
<1>1. Init => TypeOK
  BY TypeInit
<1>2. TypeOK /\ [Next]_vars => TypeOK'
  BY TypeStep
<1> QED
  BY <1>1, <1>2, PTL DEF Spec
-----------------------------------------------------------------------------
(* Nothing is skipped: what the job was asked to delete is still there to   *)
(* be found, after the point it resumes from, after the page it reads, in a *)
(* batch of the page that is left, or in what it found in this batch.       *)
Open(r) == r \in due /\ run[r].row
Running == job.at \notin {"off", "done"}

AfterTheResume(r) == ToDelete(r) /\ CommitOf[r] > resume /\ job.at # "done"
AfterTheLast(r) == Running => ~Protected(CommitOf[r]) /\ CommitOf[r] > job.last
OnThePage(r) ==
    job.at \in {"batch", "runs", "folders", "rows"} /\ CommitOf[r] <= job.page =>
        CommitOf[r] \in job.todo \/ (job.at # "batch" /\ CommitOf[r] = job.batch)
InTheBatch(r) ==
    CommitOf[r] = job.batch =>
        /\ job.at = "folders" =>
              \/ r \in job.to_delete
              \/ \E candidate \in job.candidates : candidate.id = r /\ (run[r].files => ~KeepsFiles(candidate))
        /\ job.at = "rows" => r \in job.to_delete
NotSkipped(r) == AfterTheResume(r) /\ AfterTheLast(r) /\ OnThePage(r) /\ InTheBatch(r)
NoneSkipped == \A r \in Runs : Open(r) => NotSkipped(r)

(* The commits of a page are those that follow the last one, without gaps. *)
LEMMA PageHasNoGaps ==
    ASSUME DeletionAssumption, NEW p \in Page, NEW c \in Left, c <= p, job.last \in Nat
    PROVE  c \in Page
<1> DEFINE Before(x) == {d \in Left : d < x}
<1>1. Left \subseteq Commits /\ Left \subseteq Nat /\ IsFiniteSet(Commits) /\ COMMITS_PER_PAGE \in Nat
  BY DEF Left, DeletionAssumption
<1>2. p \in Left /\ Cardinality(Before(p)) < COMMITS_PER_PAGE
  BY DEF Page
<1>3. IsFiniteSet(Before(p))
  <2>1. Before(p) \subseteq Commits
    BY <1>1
  <2> QED
    BY <1>1, <2>1, FS_Subset
<1>4. Before(c) \subseteq Before(p)
  <2>1. \A d \in Left : d \in Nat /\ c \in Nat /\ p \in Nat
    BY <1>1, <1>2
  <2>2. \A d \in Left : d < c => d < p
    BY <2>1
  <2> QED
    BY <2>2
<1>5. Cardinality(Before(c)) <= Cardinality(Before(p)) /\ IsFiniteSet(Before(c))
  BY <1>3, <1>4, FS_Subset
<1>6. Cardinality(Before(c)) \in Nat /\ Cardinality(Before(p)) \in Nat
  BY <1>3, <1>5, FS_CardinalityType
<1>7. Cardinality(Before(c)) < COMMITS_PER_PAGE
  <2> HIDE DEF Before
  <2> QED
    BY <1>1, <1>2, <1>5, <1>6
<1> QED
  BY <1>7 DEF Page

(* No step of anybody opens a run again, or lets the job keep it: users who *)
(* redo a run, or change the milestones, take it out of what is due.        *)
LEMMA OpenStays ==
    ASSUME TypeOK, [Next]_vars, NEW r \in Runs, Open(r) => ToDelete(r), Open(r)'
    PROVE  Open(r) /\ ToDelete(r)' /\ (run'[r].files => run[r].files) /\ mode' = mode
<1> USE DEF Open, ToDelete, Candidate
<1>0. /\ UserTypes /\ JobTypes /\ run[r] \in RunRows /\ run \in [Runs -> RunRows]
  BY Types DEF UserTypes
<1>1. CASE Starts \/ SkipsProject \/ ReadsPage \/ PageEnds \/ TakesBatch \/ ReadsRuns \/ RunsAreDone \/ Stops \/ IsKilled
  BY <1>1 DEF Starts, SkipsProject, ReadsPage, PageEnds, TakesBatch, ReadsRuns, RunsAreDone, Stops, IsKilled
<1>2. CASE DeletesRun
  <2>1. mode' = mode /\ milestones' = milestones /\ due' \subseteq due
    BY <1>2 DEF DeletesRun
  <2>2. run' = run \/ \E candidate \in job.candidates : run' = [run EXCEPT ![candidate.id].files = FALSE]
    BY <1>0, <1>2, DeletesRunJob
  <2>3. /\ run'[r].row = run[r].row /\ run'[r].is_pending = run[r].is_pending /\ run'[r].deleted = run[r].deleted
        /\ run'[r].files => run[r].files
    <3>1. CASE run' = run
      BY <3>1
    <3>2. ASSUME NEW o, run' = [run EXCEPT ![o].files = FALSE]
          PROVE  run'[r] = run[r] \/ run'[r] = [run[r] EXCEPT !.files = FALSE]
      BY <1>0, <3>2
    <3>3. \A row \in RunRows : LET new == [row EXCEPT !.files = FALSE] IN
             /\ new.row = row.row /\ new.is_pending = row.is_pending /\ new.deleted = row.deleted
             /\ new.files = FALSE
      BY DEF RunRows
    <3> QED
      BY <1>0, <2>2, <3>1, <3>2, <3>3
  <2> QED
    BY <2>1, <2>3
<1>3. CASE DeletesRows
  <2>1. mode' = mode /\ milestones' = milestones /\ due' \subseteq due
    BY <1>3 DEF DeletesRows
  <2>2. \/ run' = run
        \/ run' = [o \in Runs |-> IF o \in job.to_delete THEN [run[o] EXCEPT !.row = FALSE] ELSE run[o]]
    BY <1>3 DEF DeletesRows
  <2>3. /\ run'[r].row => run[r].row
        /\ run'[r].is_pending = run[r].is_pending /\ run'[r].deleted = run[r].deleted /\ run'[r].files = run[r].files
    BY <1>0, <2>2 DEF RunRows
  <2> QED
    BY <2>1, <2>3
<1>4. ASSUME NEW o \in Runs, SoftDelete(o) \/ Redo(o) \/ Writes(o) \/ Ends(o) \/ LosesFiles(o)
      PROVE  Open(r) /\ ToDelete(r)' /\ (run'[r].files => run[r].files) /\ mode' = mode
  <2>1. UNCHANGED <<mode, milestones>> /\ due' \subseteq due /\ (Redo(o) => o \notin due')
    BY <1>4 DEF SoftDelete, Redo, Writes, Ends, LosesFiles, Touches
  <2>2. CASE o # r
    <3>1. run'[r] = run[r]
      BY <1>0, <1>4, <2>2 DEF SoftDelete, Redo, Writes, Ends, LosesFiles, Touches
    <3> QED
      BY <2>1, <3>1
  <2>3. CASE o = r /\ SoftDelete(o)
    BY <1>0, <2>1, <2>3 DEF SoftDelete, Touches, RunRows
  <2>4. CASE o = r /\ LosesFiles(o)
    BY <1>0, <2>1, <2>4 DEF LosesFiles, Touches, RunRows
  <2>5. CASE o = r /\ (Writes(o) \/ Ends(o))
    BY <1>0, <2>1, <2>5 DEF Writes, Ends, Touches, RunRows
  <2> QED
    BY <1>4, <2>1, <2>2, <2>3, <2>4, <2>5
<1>5. ASSUME NEW c \in Commits, ChangesMilestone(c)
      PROVE  Open(r) /\ ToDelete(r)' /\ (run'[r].files => run[r].files) /\ mode' = mode
  <2>1. UNCHANGED <<mode, run>> /\ due' = due \ RunsOf(c)
    BY <1>5 DEF ChangesMilestone
  <2>2. CommitOf[r] # c
    BY <2>1 DEF RunsOf
  <2>3. CommitOf[r] \notin milestones => CommitOf[r] \notin milestones'
    BY <1>5, <2>2 DEF ChangesMilestone
  <2> QED
    BY <2>1, <2>3
<1>6. CASE UNCHANGED vars
  BY <1>6 DEF vars
<1> QED
  BY <1>1, <1>2, <1>3, <1>4, <1>5, <1>6 DEF Next

LEMMA NumbersOfTheJob ==
    ASSUME DeletionAssumption, TypeOK, NEW r \in Runs
    PROVE  /\ CommitOf[r] \in Nat /\ CommitOf[r] \in Commits /\ CommitOf[r] > 0
           /\ resume \in Nat /\ job.last \in Nat /\ job.page \in Nat
<1>1. Commits \subseteq Nat /\ 0 \notin Commits /\ CommitOf[r] \in Commits
  BY DEF DeletionAssumption
<1>2. resume \in Commits \cup {0} /\ job.last \in Commits \cup {0} /\ job.page \in Commits \cup {0}
  BY DEF TypeOK, Jobs
<1>3. resume \in Nat /\ job.last \in Nat /\ job.page \in Nat
  <2>1. \A n \in Commits \cup {0} : n \in Nat
    BY DEF DeletionAssumption
  <2> QED
    BY <1>2, <2>1
<1>4. CommitOf[r] \in Nat /\ CommitOf[r] # 0
  BY <1>1
<1>5. CommitOf[r] > 0
  BY <1>4
<1> QED
  BY <1>1, <1>3, <1>4, <1>5

LEMMA AllAhead == DeletionAssumption /\ Init => NoneSkipped
<1> SUFFICES ASSUME DeletionAssumption, Init, NEW r \in Runs, Open(r) PROVE NotSkipped(r)
  BY DEF NoneSkipped
<1>1. TypeOK
  BY TypeInit
<1>2. ToDelete(r) /\ CommitOf[r] > resume
  BY <1>1, NumbersOfTheJob DEF Init, Open
<1> QED
  BY <1>2, StoppedJob DEF Init, NotSkipped, AfterTheResume, AfterTheLast, OnThePage, InTheBatch, Running

(* Each step of the job keeps what is due ahead of it.                     *)
LEMMA AheadStarts ==
    ASSUME DeletionAssumption, TypeOK, Starts, NEW r \in Runs, NotSkipped(r), ToDelete(r)'
    PROVE  NotSkipped(r)'
<1>1. JobTypes /\ job'.at = "page" /\ job'.last = resume /\ resume' = resume /\ protection' = milestones
  BY Types, StartsJob DEF Starts
<1>2. CommitOf[r] \notin milestones /\ CommitOf[r] > resume
  BY DEF NotSkipped, AfterTheResume, ToDelete
<1> QED
  BY <1>1, <1>2 DEF NotSkipped, AfterTheResume, AfterTheLast, OnThePage, InTheBatch, Protected

LEMMA AheadReadsPage ==
    ASSUME DeletionAssumption, TypeOK, ReadsPage, NEW r \in Runs, NotSkipped(r), ToDelete(r)'
    PROVE  NotSkipped(r)'
<1>1. JobTypes /\ job.at = "page" /\ protection' = protection /\ resume' \in {resume, job.last} /\ job'.last = job.last
  BY Types, ReadsPageJob DEF ReadsPage, Flush
<1>2. /\ CommitOf[r] \in Nat /\ CommitOf[r] \in Commits /\ job.last \in Nat
      /\ CommitOf[r] > job.last /\ CommitOf[r] > resume /\ ~Protected(CommitOf[r]) /\ ToDelete(r)
  BY <1>1, NumbersOfTheJob DEF NotSkipped, AfterTheLast, AfterTheResume, Running
<1>3. CommitOf[r] \in Left
  BY <1>2 DEF Left
<1>4. PICK p \in Page : /\ job'.at = "batch" /\ job'.page = p
                        /\ job'.todo = {c \in Page : \E o \in RunsOf(c) : Candidate(o)}
  BY <1>1, <1>3, ReadsPageJob
<1>5. CommitOf[r] <= p => CommitOf[r] \in job'.todo
  BY <1>2, <1>3, <1>4, PageHasNoGaps DEF RunsOf, ToDelete
<1> QED
  BY <1>1, <1>2, <1>4, <1>5 DEF NotSkipped, AfterTheResume, AfterTheLast, OnThePage, InTheBatch, Protected

LEMMA AheadPageEnds ==
    ASSUME DeletionAssumption, TypeOK, PageEnds, NEW r \in Runs, NotSkipped(r), ToDelete(r)'
    PROVE  NotSkipped(r)'
<1>1. JobTypes /\ job.at = "batch" /\ job.todo = {} /\ protection' = protection /\ resume' = resume
  BY Types DEF PageEnds
<1>2. job'.at = "page" /\ job'.last = job.page
  BY <1>1, PageEndsJob
<1>3. CommitOf[r] > job.page
  BY <1>1, NumbersOfTheJob DEF NotSkipped, OnThePage
<1> QED
  BY <1>1, <1>2, <1>3 DEF NotSkipped, AfterTheResume, AfterTheLast, OnThePage, InTheBatch, Protected, Running

LEMMA AheadTakesBatch ==
    ASSUME DeletionAssumption, TypeOK, TakesBatch, NEW r \in Runs, NotSkipped(r), ToDelete(r)', Open(r)'
    PROVE  NotSkipped(r)'
<1>1. JobTypes /\ job.at = "batch" /\ protection' = protection /\ resume' \in {resume, job.last}
  BY Types DEF TakesBatch, Flush
<1>2. CommitOf[r] > job.last /\ CommitOf[r] > resume /\ ~Protected(CommitOf[r])
  BY <1>1 DEF NotSkipped, AfterTheLast, AfterTheResume, Running
<1>3. PICK c \in job.todo :
         /\ SamePage /\ job'.todo = job.todo \ {c}
         /\ \/ /\ job'.at = "batch"
               /\ (Protected(c) /\ due' = due) \/ due' = due \ RunsOf(c)
            \/ job'.at = "runs" /\ job'.batch = c
  BY <1>1, TakesBatchJob
<1>4. job'.at = "batch" => CommitOf[r] # c
  BY <1>2, <1>3 DEF Open, RunsOf
<1>5. OnThePage(r)'
  BY <1>1, <1>3, <1>4 DEF NotSkipped, OnThePage, SamePage
<1> QED
  BY <1>1, <1>2, <1>3, <1>5 DEF NotSkipped, AfterTheResume, AfterTheLast, InTheBatch, Protected, SamePage

LEMMA AheadReadsRuns ==
    ASSUME DeletionAssumption, TypeOK, ReadsRuns, NEW r \in Runs, NotSkipped(r), ToDelete(r)'
    PROVE  NotSkipped(r)'
<1>1. JobTypes /\ UserTypes /\ job.at = "runs" /\ protection' = protection /\ resume' = resume /\ run' = run /\ mode' = mode
  BY Types DEF ReadsRuns
<1>2. PICK found : found = {o \in RunsOf(job.batch) : Candidate(o)}
  OBVIOUS
<1>3. /\ SameBatch
      /\ \/ job'.at = "rows" /\ job'.to_delete = found
         \/ job'.at = "folders" /\ job'.candidates = {[id |-> o, deleted |-> run[o].deleted] : o \in found}
  BY <1>1, <1>2, ReadsRunsJob
<1>4. CommitOf[r] = job.batch => r \in found
  BY <1>2 DEF NotSkipped, AfterTheResume, ToDelete, RunsOf
<1>5. run[r].files => run[r].deleted /\ mode # "missing_files"
  BY DEF NotSkipped, AfterTheResume, ToDelete
<1>6. CASE job'.at = "rows" /\ job'.to_delete = found
  BY <1>1, <1>3, <1>4, <1>6 DEF NotSkipped, AfterTheResume, AfterTheLast, OnThePage, InTheBatch, Protected, Running, SameBatch, SamePage
<1>7. CASE job'.at = "folders" /\ job'.candidates = {[id |-> o, deleted |-> run[o].deleted] : o \in found}
  <2>1. CommitOf[r] = job.batch => \E candidate \in job'.candidates : candidate.id = r /\ (run[r].files => ~KeepsFiles(candidate)')
    <3>1. SUFFICES ASSUME CommitOf[r] = job.batch
                   PROVE  \E candidate \in job'.candidates : candidate.id = r /\ (run[r].files => ~KeepsFiles(candidate)')
      OBVIOUS
    <3>2. [id |-> r, deleted |-> run[r].deleted] \in job'.candidates
      BY <1>4, <1>7, <3>1
    <3> QED
      BY <1>1, <1>5, <3>2 DEF KeepsFiles
  <2> QED
    BY <1>1, <1>3, <1>7, <2>1 DEF NotSkipped, AfterTheResume, AfterTheLast, OnThePage, InTheBatch, Protected, Running, SameBatch, SamePage
<1> QED
  BY <1>3, <1>6, <1>7

LEMMA AheadDeletesRun ==
    ASSUME DeletionAssumption, TypeOK, DeletesRun, NEW r \in Runs, NotSkipped(r), ToDelete(r)', Open(r)',
           run'[r].files => run[r].files, Open(r)
    PROVE  NotSkipped(r)'
<1>1. JobTypes /\ job.at = "folders" /\ protection' = protection /\ resume' \in {resume, job.last} /\ mode' = mode
  BY Types DEF DeletesRun, Flush
<1>2. PICK k \in job.candidates :
         /\ SameBatch /\ job'.at = "folders" /\ job'.candidates = job.candidates \ {k}
         /\ \/ job'.to_delete = job.to_delete \cup {k.id}
            \/ /\ job'.to_delete = job.to_delete
               /\ (~Gone(k.id) /\ KeepsFiles(k)) \/ due' = due \ {k.id}
  BY <1>1, DeletesRunJob
<1>3. CommitOf[r] = job.batch =>
        \/ r \in job'.to_delete
        \/ \E candidate \in job'.candidates : candidate.id = r /\ (run'[r].files => ~KeepsFiles(candidate)')
  <2> SUFFICES ASSUME CommitOf[r] = job.batch, r \notin job.to_delete
               PROVE  \/ r \in job'.to_delete
                      \/ \E candidate \in job'.candidates : candidate.id = r /\ (run'[r].files => ~KeepsFiles(candidate)')
    BY <1>2
  <2>1. PICK candidate \in job.candidates : candidate.id = r /\ (run[r].files => ~KeepsFiles(candidate))
    BY <1>1 DEF NotSkipped, InTheBatch
  <2>2. CASE candidate = k
    BY <1>2, <2>1, <2>2 DEF Gone, Open
  <2>3. CASE candidate # k
    BY <1>1, <1>2, <2>1, <2>3 DEF KeepsFiles
  <2> QED
    BY <2>2, <2>3
<1>4. CommitOf[r] > job.last /\ CommitOf[r] > resume /\ ~Protected(CommitOf[r])
  BY <1>1 DEF NotSkipped, AfterTheLast, AfterTheResume, Running
<1>5. OnThePage(r)'
  BY <1>1, <1>2 DEF NotSkipped, OnThePage, SamePage, SameBatch
<1> QED
  BY <1>1, <1>2, <1>3, <1>4, <1>5 DEF NotSkipped, AfterTheResume, AfterTheLast, InTheBatch, Protected, SameBatch, SamePage

LEMMA AheadRunsAreDone ==
    ASSUME DeletionAssumption, TypeOK, RunsAreDone, NEW r \in Runs, NotSkipped(r), ToDelete(r)'
    PROVE  NotSkipped(r)'
<1>1. JobTypes /\ job.at = "folders" /\ job.candidates = {} /\ protection' = protection /\ resume' = resume
  BY Types DEF RunsAreDone
<1>2. SameBatch /\ job'.at = "rows" /\ job'.to_delete = job.to_delete
  BY <1>1, RunsAreDoneJob
<1> QED
  BY <1>1, <1>2 DEF NotSkipped, AfterTheResume, AfterTheLast, OnThePage, InTheBatch, Protected, Running, SameBatch, SamePage

LEMMA AheadDeletesRows ==
    ASSUME DeletionAssumption, TypeOK, DeletesRows, NEW r \in Runs, NotSkipped(r), ToDelete(r)', Open(r)'
    PROVE  NotSkipped(r)'
<1>1. JobTypes /\ job.at = "rows" /\ protection' = protection /\ resume' \in {resume, job.last}
  BY Types DEF DeletesRows, Flush
<1>2. SamePage /\ job'.at = "batch" /\ job'.todo = job.todo
  BY <1>1, DeletesRowsJob
<1>3. r \notin job.to_delete
  <2>1. \/ run' = [o \in Runs |-> IF o \in job.to_delete THEN [run[o] EXCEPT !.row = FALSE] ELSE run[o]]
        \/ due' = due \ job.to_delete
    BY DEF DeletesRows
  <2>2. run[r] \in RunRows
    BY Types DEF UserTypes
  <2> QED
    BY <2>1, <2>2 DEF Open, RunRows
<1>4. CommitOf[r] # job.batch
  BY <1>1, <1>3 DEF NotSkipped, InTheBatch
<1>5. CommitOf[r] > job.last /\ CommitOf[r] > resume /\ ~Protected(CommitOf[r])
  BY <1>1 DEF NotSkipped, AfterTheLast, AfterTheResume, Running
<1>6. OnThePage(r)'
  BY <1>1, <1>2, <1>4 DEF NotSkipped, OnThePage, SamePage
<1> QED
  BY <1>1, <1>2, <1>5, <1>6 DEF NotSkipped, AfterTheResume, AfterTheLast, InTheBatch, Protected, SamePage

(* Interrupted, the job resumes before what is due.                        *)
LEMMA AheadStops ==
    ASSUME DeletionAssumption, TypeOK, Stops \/ IsKilled, NEW r \in Runs, NotSkipped(r), ToDelete(r)'
    PROVE  NotSkipped(r)'
<1>1. Running /\ job' = Stopped /\ resume' \in {resume, job.last}
  BY DEF Stops, IsKilled, Running
<1>2. CommitOf[r] > job.last /\ CommitOf[r] > resume
  BY <1>1 DEF NotSkipped, AfterTheLast, AfterTheResume
<1> QED
  BY <1>1, <1>2, StoppedJob DEF NotSkipped, AfterTheResume, AfterTheLast, OnThePage, InTheBatch, Running

(* What users do, or nobody.                                               *)
LEMMA AheadUsers ==
    ASSUME UNCHANGED <<mode, job, protection, resume>>, NEW r \in Runs, NotSkipped(r), ToDelete(r)',
           run'[r].files => run[r].files
    PROVE  NotSkipped(r)'
<1>1. \A candidate : KeepsFiles(candidate) => KeepsFiles(candidate)'
  BY DEF KeepsFiles
<1>2. \A candidate : KeepsFiles(candidate)' => KeepsFiles(candidate)
  BY DEF KeepsFiles
<1>3. InTheBatch(r)'
  BY <1>1, <1>2 DEF NotSkipped, InTheBatch
<1> QED
  BY <1>3 DEF NotSkipped, AfterTheResume, AfterTheLast, OnThePage, Running, Protected

LEMMA NoneSkippedStep == DeletionAssumption /\ TypeOK /\ NoneSkipped /\ [Next]_vars => NoneSkipped'
<1> SUFFICES ASSUME DeletionAssumption, TypeOK, NoneSkipped, [Next]_vars, NEW r \in Runs, Open(r)'
             PROVE  NotSkipped(r)'
  BY DEF NoneSkipped
<1>1. Open(r) => ToDelete(r)
  BY DEF NoneSkipped, NotSkipped, AfterTheResume
<1>2. Open(r) /\ NotSkipped(r) /\ ToDelete(r)' /\ (run'[r].files => run[r].files)
  BY <1>1, OpenStays DEF NoneSkipped
<1>3. CASE Starts \/ ReadsPage \/ PageEnds \/ TakesBatch \/ ReadsRuns
  BY <1>2, <1>3, AheadStarts, AheadReadsPage, AheadPageEnds, AheadTakesBatch, AheadReadsRuns
<1>4. CASE DeletesRun \/ RunsAreDone \/ DeletesRows \/ Stops \/ IsKilled
  BY <1>2, <1>4, AheadDeletesRun, AheadRunsAreDone, AheadDeletesRows, AheadStops
<1>5. CASE SkipsProject
  BY <1>5 DEF SkipsProject, Open
<1>6. CASE UNCHANGED <<mode, job, protection, resume>>
  BY <1>2, <1>6, AheadUsers
<1>7. UNCHANGED vars => UNCHANGED <<mode, job, protection, resume>>
  BY DEF vars
<1> QED
  BY <1>3, <1>4, <1>5, <1>6, <1>7, UsersJob DEF Next

LEMMA SkipsNothingDue == TypeOK /\ NoneSkipped => NothingSkipped
  BY DEF TypeOK, NoneSkipped, NotSkipped, AfterTheResume, Open, NothingSkipped

(* "The job resumes where it was if it's interrupted" (hard_delete.py,     *)
(* project): for any runs, commits and size of page, when it is done no    *)
(* row is left of what it was asked to delete - but for what users touched *)
(* since, and the errors that it reported.                                 *)
THEOREM DeletesAll ==
    ASSUME DeletionAssumption
    PROVE  Spec => []NothingSkipped
<1>1. Init => TypeOK /\ NoneSkipped
  BY TypeInit, AllAhead
<1>2. TypeOK /\ NoneSkipped /\ [Next]_vars => (TypeOK /\ NoneSkipped)'
  BY TypeStep, NoneSkippedStep
<1>3. TypeOK /\ NoneSkipped => NothingSkipped
  BY SkipsNothingDue
<1> QED
  BY <1>1, <1>2, <1>3, PTL DEF Spec

-----------------------------------------------------------------------------
(* It only deletes what it may: what it read of the milestones, of the      *)
(* folders and of the runs still holds for those that nobody redid, nor     *)
(* protected, since it started.                                             *)
Fits(r) == ~run[r].is_pending /\ (mode = "deleted" => run[r].deleted)
KnownMissing(r) == r \in missing => ~run[r].files
KnownProtected(r) == Running => (Protected(CommitOf[r]) <=> CommitOf[r] \in milestones)
BatchIsOpen(r) ==
    job.at \in {"runs", "folders", "rows"} /\ CommitOf[r] = job.batch =>
        ~Protected(CommitOf[r]) /\ (job.at = "runs" /\ job.gone => r \in missing)
CandidatesFit(r) ==
    job.at = "folders" => \A candidate \in job.candidates :
        candidate.id = r => CommitOf[r] = job.batch /\ Fits(r) /\ (candidate.deleted => run[r].deleted)
RowsFit(r) == r \in job.to_delete => CommitOf[r] = job.batch /\ Fits(r) /\ ~run[r].files
StillTrue(r) == KnownMissing(r) /\ KnownProtected(r) /\ BatchIsOpen(r) /\ CandidatesFit(r) /\ RowsFit(r)
NothingStale ==
    /\ \A r \in Runs \ raced : StillTrue(r)
    /\ job.at \notin {"folders", "rows"} => job.to_delete = {}

(* The folder that is remembered, and all it has, was missing.             *)
LEMMA RemembersMissing ==
    ASSUME NEW below, Remembers(below), NEW r \in Runs, KnownMissing(r), run' = run
    PROVE  KnownMissing(r)'
BY DEF Remembers, KnownMissing, Gone

LEMMA StillTrueTakesBatch ==
    ASSUME TypeOK, TakesBatch, job.to_delete = {}, NEW r \in Runs, StillTrue(r)
    PROVE  StillTrue(r)' /\ job'.to_delete = {}
<1>1. JobTypes /\ job.at = "batch" /\ UNCHANGED <<mode, run, milestones, protection>>
  BY Types DEF TakesBatch
<1>2. PICK c \in job.todo :
         /\ job'.to_delete = {}
         /\ \/ job'.at = "batch"
            \/ /\ job'.at = "runs" /\ job'.batch = c /\ ~Protected(c)
               /\ job'.gone => RunsOf(c) \subseteq missing'
  BY <1>1, TakesBatchJob
<1>3. KnownMissing(r)'
  BY <1>1, RemembersMissing DEF TakesBatch, StillTrue, KnownMissing
<1> QED
  BY <1>1, <1>2, <1>3 DEF StillTrue, KnownProtected, BatchIsOpen, CandidatesFit, RowsFit, Running, Protected, RunsOf

LEMMA StillTrueReadsRuns ==
    ASSUME TypeOK, ReadsRuns, job.to_delete = {}, NEW r \in Runs, StillTrue(r)
    PROVE  StillTrue(r)' /\ job'.at \in {"folders", "rows"}
<1>1. JobTypes /\ UserTypes /\ job.at = "runs" /\ UNCHANGED <<mode, run, milestones, protection, missing>>
  BY Types DEF ReadsRuns
<1>2. PICK found : found = {o \in RunsOf(job.batch) : Candidate(o)}
  OBVIOUS
<1>3. /\ SameBatch
      /\ \/ job.gone /\ job'.at = "rows" /\ job'.to_delete = found
         \/ /\ job'.at = "folders" /\ job'.to_delete = job.to_delete
            /\ job'.candidates = {[id |-> o, deleted |-> run[o].deleted] : o \in found}
  BY <1>1, <1>2, ReadsRunsJob
<1>4. r \in found => CommitOf[r] = job.batch /\ Fits(r) /\ (job.gone => ~run[r].files)
  BY <1>1, <1>2 DEF RunsOf, Candidate, Fits, StillTrue, BatchIsOpen, KnownMissing
<1>5. (KnownMissing(r) /\ KnownProtected(r) /\ BatchIsOpen(r))'
  BY <1>1, <1>3 DEF StillTrue, KnownMissing, KnownProtected, BatchIsOpen, Running, Protected, SameBatch
<1>6. Fits(r)' <=> Fits(r)
  BY <1>1 DEF Fits
<1>7. CandidatesFit(r)'
  <2> SUFFICES ASSUME job'.at = "folders", NEW candidate \in job'.candidates, candidate.id = r
               PROVE  CommitOf[r] = job'.batch /\ Fits(r)' /\ (candidate.deleted => run'[r].deleted)
    BY DEF CandidatesFit
  <2>1. PICK o \in found : candidate = [id |-> o, deleted |-> run[o].deleted]
    BY <1>3
  <2>2. o = r /\ candidate.deleted = run[r].deleted
    BY <2>1
  <2> QED
    BY <1>1, <1>3, <1>4, <1>6, <2>1, <2>2 DEF SameBatch
<1>8. RowsFit(r)'
  BY <1>1, <1>3, <1>4, <1>6 DEF RowsFit, SameBatch
<1> QED
  BY <1>3, <1>5, <1>7, <1>8 DEF StillTrue

LEMMA StillTrueDeletesRun ==
    ASSUME TypeOK, DeletesRun, NEW r \in Runs, StillTrue(r)
    PROVE  StillTrue(r)' /\ job'.at = "folders"
<1>1. /\ JobTypes /\ UserTypes /\ job.at = "folders" /\ run[r] \in RunRows
      /\ UNCHANGED <<mode, milestones, protection>>
  BY Types DEF DeletesRun, UserTypes
<1>2. PICK k \in job.candidates :
         /\ SameBatch /\ job'.at = "folders" /\ job'.candidates = job.candidates \ {k}
         /\ \/ /\ job'.to_delete = job.to_delete \cup {k.id}
               /\ \/ run' = run /\ Remembers({k.id}) /\ k.id \in missing'
                  \/ run' = [run EXCEPT ![k.id].files = FALSE] /\ missing' = missing \cup {k.id}
            \/ job'.to_delete = job.to_delete /\ run' = run /\ missing' = missing
  BY <1>1, DeletesRunJob
<1>3. /\ run'[r].is_pending = run[r].is_pending /\ run'[r].deleted = run[r].deleted
      /\ run'[r].files => run[r].files
      /\ run' = run \/ (k.id = r => ~run'[r].files)
  <2>1. CASE run' = run
    BY <2>1
  <2>2. CASE run' = [run EXCEPT ![k.id].files = FALSE]
    <3>1. CASE k.id = r
      BY <1>1, <2>2, <3>1 DEF UserTypes, RunRows
    <3>2. CASE k.id # r
      <4>1. run'[r] = run[r]
        BY <1>1, <2>2, <3>2 DEF UserTypes
      <4> QED
        BY <3>2, <4>1
    <3> QED
      BY <3>1, <3>2
  <2> QED
    BY <1>2, <2>1, <2>2
<1>4. KnownMissing(r)'
  <2>1. CASE run' = run /\ Remembers({k.id})
    BY <2>1, RemembersMissing DEF StillTrue
  <2>2. CASE missing' = missing
    BY <1>3, <2>2 DEF StillTrue, KnownMissing
  <2>3. CASE run' = [run EXCEPT ![k.id].files = FALSE] /\ missing' = missing \cup {k.id}
    <3>1. k.id = r => ~run'[r].files
      BY <1>1, <2>3 DEF UserTypes, RunRows
    <3> QED
      BY <1>3, <2>3, <3>1 DEF StillTrue, KnownMissing
  <2> QED
    BY <1>2, <2>1, <2>2, <2>3
<1>5. Fits(r) => Fits(r)'
  BY <1>1, <1>3 DEF Fits
<1>6. k.id = r => CommitOf[r] = job.batch /\ Fits(r)
  BY <1>1 DEF StillTrue, CandidatesFit
<1>7. k.id = r /\ r \in job'.to_delete => ~run'[r].files
  BY <1>2, <1>3, <1>4 DEF StillTrue, RowsFit, KnownMissing
<1>8. RowsFit(r)'
  BY <1>2, <1>3, <1>5, <1>6, <1>7 DEF StillTrue, RowsFit, SameBatch
<1>9. CandidatesFit(r)'
  BY <1>1, <1>2, <1>3, <1>5 DEF StillTrue, CandidatesFit, SameBatch
<1>10. (KnownProtected(r) /\ BatchIsOpen(r))'
  BY <1>1, <1>2 DEF StillTrue, KnownProtected, BatchIsOpen, Running, Protected, SameBatch
<1> QED
  BY <1>2, <1>4, <1>8, <1>9, <1>10 DEF StillTrue

LEMMA StillTrueDeletesRows ==
    ASSUME TypeOK, DeletesRows, NEW r \in Runs, StillTrue(r)
    PROVE  StillTrue(r)' /\ job'.to_delete = {}
<1>1. /\ JobTypes /\ job.at = "rows" /\ run[r] \in RunRows
      /\ UNCHANGED <<mode, milestones, protection, missing>>
  BY Types DEF DeletesRows, UserTypes
<1>2. job'.at = "batch" /\ job'.to_delete = {}
  BY <1>1, DeletesRowsJob
<1>3. run'[r].files = run[r].files
  <2>1. \/ run' = run
        \/ run' = [o \in Runs |-> IF o \in job.to_delete THEN [run[o] EXCEPT !.row = FALSE] ELSE run[o]]
    BY DEF DeletesRows
  <2> QED
    BY <1>1, <2>1 DEF RunRows
<1> QED
  BY <1>1, <1>2, <1>3 DEF StillTrue, KnownMissing, KnownProtected, BatchIsOpen, CandidatesFit, RowsFit, Running, Protected

(* Users: what they redo, write or protect is raced.                       *)
LEMMA UsersRace ==
    ASSUME TypeOK, NEW r \in Runs, r \notin raced',
           \/ \E o \in Runs : SoftDelete(o) \/ Redo(o) \/ Writes(o) \/ Ends(o) \/ LosesFiles(o)
           \/ \E c \in Commits : ChangesMilestone(c)
    PROVE  /\ r \notin raced
           /\ run'[r].is_pending => run[r].is_pending
           /\ run[r].deleted => run'[r].deleted
           /\ run'[r].files => run[r].files
           /\ CommitOf[r] \in milestones' <=> CommitOf[r] \in milestones
<1>1. run \in [Runs -> RunRows] /\ run[r] \in RunRows
  BY Types DEF UserTypes
<1>2. ASSUME NEW o \in Runs, SoftDelete(o) \/ Redo(o) \/ Writes(o) \/ Ends(o) \/ LosesFiles(o)
      PROVE  /\ r \notin raced /\ milestones' = milestones
             /\ run'[r].is_pending => run[r].is_pending
             /\ run[r].deleted => run'[r].deleted
             /\ run'[r].files => run[r].files
  <2>1. milestones' = milestones /\ r \notin raced
    BY <1>2 DEF SoftDelete, Redo, Writes, Ends, LosesFiles, Touches
  <2>2. CASE o # r
    <3>1. run'[r] = run[r]
      BY <1>1, <1>2, <2>2 DEF SoftDelete, Redo, Writes, Ends, LosesFiles, Touches
    <3> QED
      BY <2>1, <3>1
  <2>3. CASE o = r /\ SoftDelete(o)
    BY <1>1, <2>1, <2>3 DEF SoftDelete, Touches, RunRows
  <2>4. CASE o = r /\ LosesFiles(o)
    BY <1>1, <2>1, <2>4 DEF LosesFiles, Touches, RunRows
  <2>5. CASE o = r /\ Ends(o)
    BY <1>1, <2>1, <2>5 DEF Ends, Touches, RunRows
  <2>6. ~(o = r /\ (Redo(o) \/ Writes(o)))
    BY DEF Redo, Writes
  <2> QED
    BY <1>2, <2>2, <2>3, <2>4, <2>5, <2>6
<1>3. ASSUME NEW c \in Commits, ChangesMilestone(c)
      PROVE  /\ r \notin raced /\ run' = run
             /\ CommitOf[r] \in milestones' <=> CommitOf[r] \in milestones
  <2>1. run' = run /\ raced' = raced \cup RunsOf(c)
    BY <1>3 DEF ChangesMilestone
  <2>2. CommitOf[r] # c
    BY <2>1 DEF RunsOf
  <2> QED
    BY <1>3, <2>1, <2>2 DEF ChangesMilestone
<1> QED
  BY <1>2, <1>3

LEMMA StillTrueUsers ==
    ASSUME TypeOK, NEW r \in Runs, StillTrue(r), r \notin raced',
           \/ \E o \in Runs : SoftDelete(o) \/ Redo(o) \/ Writes(o) \/ Ends(o) \/ LosesFiles(o)
           \/ \E c \in Commits : ChangesMilestone(c)
    PROVE  StillTrue(r)'
<1>1. UNCHANGED <<mode, job, protection, missing>>
  BY UsersJob
<1>2. /\ run'[r].is_pending => run[r].is_pending
      /\ run[r].deleted => run'[r].deleted
      /\ run'[r].files => run[r].files
      /\ CommitOf[r] \in milestones' <=> CommitOf[r] \in milestones
  BY UsersRace
<1>3. Fits(r) => Fits(r)'
  BY <1>1, <1>2 DEF Fits
<1>4. (KnownMissing(r) /\ KnownProtected(r) /\ BatchIsOpen(r))'
  BY <1>1, <1>2 DEF StillTrue, KnownMissing, KnownProtected, BatchIsOpen, Running, Protected
<1>5. (CandidatesFit(r) /\ RowsFit(r))'
  BY <1>1, <1>2, <1>3 DEF StillTrue, CandidatesFit, RowsFit
<1> QED
  BY <1>4, <1>5 DEF StillTrue

LEMMA NothingIsStaleYet == Init => NothingStale
BY StoppedJob DEF Init, NothingStale, StillTrue, KnownMissing, KnownProtected, BatchIsOpen, CandidatesFit, RowsFit, Running

LEMMA NothingStaleStep == TypeOK /\ NothingStale /\ [Next]_vars => NothingStale'
<1> SUFFICES ASSUME TypeOK, NothingStale, [Next]_vars PROVE NothingStale'
  OBVIOUS
<1>0. JobTypes /\ UserTypes
  BY Types
<1>1. CASE Starts
  <2>1. job'.at = "page" /\ job'.to_delete = {}
    BY <1>0, <1>1, StartsJob
  <2> QED
    BY <1>1, <2>1 DEF Starts, NothingStale, StillTrue, KnownMissing, KnownProtected, BatchIsOpen, CandidatesFit, RowsFit, Protected
<1>2. CASE SkipsProject \/ ReadsPage \/ PageEnds \/ Stops \/ IsKilled
  <2>1. UNCHANGED <<mode, run, milestones, protection, missing, raced>>
    BY <1>2 DEF SkipsProject, ReadsPage, PageEnds, Stops, IsKilled
  <2>2. job.at \in {"page", "batch"} => job.to_delete = {}
    BY DEF NothingStale
  <2>3. job'.at \notin {"runs", "folders", "rows"}
    BY <1>0, <1>2, StoppedJob, SkipsProjectJob, ReadsPageJob, PageEndsJob DEF Stops, IsKilled
  <2>4. job'.to_delete = {} /\ (Running' => Running)
    <3>1. CASE SkipsProject
      BY <3>1, SkipsProjectJob DEF Running
    <3>2. CASE ReadsPage
      BY <1>0, <2>2, <3>2, ReadsPageJob DEF Running, ReadsPage
    <3>3. CASE PageEnds
      BY <1>0, <3>3, PageEndsJob DEF Running, PageEnds
    <3>4. CASE Stops \/ IsKilled
      BY <3>4, StoppedJob DEF Stops, IsKilled, Running
    <3> QED
      BY <1>2, <3>1, <3>2, <3>3, <3>4
  <2> QED
    BY <2>1, <2>3, <2>4 DEF NothingStale, StillTrue, KnownMissing, KnownProtected, BatchIsOpen, CandidatesFit, RowsFit, Protected
<1>3. CASE TakesBatch
  <2>1. job.to_delete = {} /\ raced' = raced /\ job' \in Jobs /\ job'.to_delete = {}
    BY <1>0, <1>3, TakesBatchJob DEF TakesBatch, NothingStale, SamePage
  <2> QED
    BY <1>3, <2>1, StillTrueTakesBatch DEF NothingStale
<1>4. CASE ReadsRuns
  <2>1. job.to_delete = {} /\ raced' = raced /\ job'.at \in {"folders", "rows"}
    BY <1>0, <1>4, ReadsRunsJob DEF ReadsRuns, NothingStale
  <2> QED
    BY <1>4, <2>1, StillTrueReadsRuns DEF NothingStale
<1>5. CASE DeletesRun
  <2>1. raced' = raced /\ job'.at = "folders"
    BY <1>0, <1>5, DeletesRunJob DEF DeletesRun
  <2> QED
    BY <1>5, <2>1, StillTrueDeletesRun DEF NothingStale
<1>6. CASE RunsAreDone
  <2>1. SameBatch /\ job.at = "folders" /\ job'.at = "rows" /\ job'.to_delete = job.to_delete
    BY <1>0, <1>6, RunsAreDoneJob DEF RunsAreDone
  <2> QED
    BY <1>6, <2>1 DEF RunsAreDone, NothingStale, StillTrue, KnownMissing, KnownProtected, BatchIsOpen, CandidatesFit, RowsFit, Running, Protected, Fits, SameBatch
<1>7. CASE DeletesRows
  <2>1. raced' = raced /\ job'.to_delete = {}
    BY <1>0, <1>7, DeletesRowsJob DEF DeletesRows
  <2> QED
    BY <1>7, <2>1, StillTrueDeletesRows DEF NothingStale
<1>8. CASE \/ \E o \in Runs : SoftDelete(o) \/ Redo(o) \/ Writes(o) \/ Ends(o) \/ LosesFiles(o)
           \/ \E c \in Commits : ChangesMilestone(c)
  <2>1. job' = job
    BY <1>8, UsersJob
  <2> QED
    BY <1>8, <2>1, UsersRace, StillTrueUsers DEF NothingStale
<1>9. CASE UNCHANGED vars
  BY <1>9 DEF vars, NothingStale, StillTrue, KnownMissing, KnownProtected, BatchIsOpen, CandidatesFit, RowsFit, Running, Protected, Fits
<1> QED
  BY <1>1, <1>2, <1>3, <1>4, <1>5, <1>6, <1>7, <1>8, <1>9 DEF Next

LEMMA DeletesWhatItMay == TypeOK /\ NothingStale /\ [Next]_vars => [DeletesOnlyWhatItMay]_vars
<1> SUFFICES ASSUME TypeOK, NothingStale, Next, job' # job, NEW r \in Runs, r \notin raced
             PROVE  LET may == CommitOf[r] \notin milestones /\ ~run[r].is_pending
                    IN  /\ run[r].files /\ ~run'[r].files => may /\ run[r].deleted /\ mode # "missing_files"
                        /\ run[r].row /\ ~run'[r].row => may /\ ~run[r].files /\ (mode = "deleted" => run[r].deleted)
  BY DEF DeletesOnlyWhatItMay
<1>0. JobTypes /\ StillTrue(r) /\ run \in [Runs -> RunRows] /\ run[r] \in RunRows
  BY Types DEF NothingStale, UserTypes
<1>1. CASE Starts \/ SkipsProject \/ ReadsPage \/ PageEnds \/ TakesBatch \/ ReadsRuns \/ RunsAreDone \/ Stops \/ IsKilled
  <2>1. run' = run
    BY <1>1 DEF Starts, SkipsProject, ReadsPage, PageEnds, TakesBatch, ReadsRuns, RunsAreDone, Stops, IsKilled
  <2> QED
    BY <2>1
<1>2. CASE DeletesRun
  <2>1. PICK k \in job.candidates : run' = run \/ (~KeepsFiles(k) /\ run' = [run EXCEPT ![k.id].files = FALSE])
    BY <1>0, <1>2, DeletesRunJob
  <2>2. job.at = "folders"
    BY <1>2 DEF DeletesRun
  <2>3. CASE run' = run \/ k.id # r
    BY <1>0, <2>1, <2>3
  <2>4. CASE k.id = r /\ ~KeepsFiles(k) /\ run' = [run EXCEPT ![k.id].files = FALSE]
    <3>1. CommitOf[r] = job.batch /\ Fits(r) /\ run[r].deleted /\ mode # "missing_files"
      BY <1>0, <2>2, <2>4 DEF StillTrue, CandidatesFit, KeepsFiles
    <3>2. CommitOf[r] \notin milestones
      BY <1>0, <2>2, <3>1 DEF StillTrue, BatchIsOpen, KnownProtected, Running
    <3>3. run'[r].row = run[r].row
      BY <1>0, <2>4 DEF RunRows
    <3> QED
      BY <3>1, <3>2, <3>3 DEF Fits
  <2> QED
    BY <2>1, <2>3, <2>4
<1>3. CASE DeletesRows
  <2>1. /\ job.at = "rows"
        /\ \/ run' = run
           \/ run' = [o \in Runs |-> IF o \in job.to_delete THEN [run[o] EXCEPT !.row = FALSE] ELSE run[o]]
    BY <1>3 DEF DeletesRows
  <2>2. CASE run'[r] = run[r]
    BY <2>2
  <2>3. CASE r \in job.to_delete /\ run'[r] = [run[r] EXCEPT !.row = FALSE]
    <3>1. CommitOf[r] = job.batch /\ Fits(r) /\ ~run[r].files
      BY <1>0, <2>3 DEF StillTrue, RowsFit
    <3>2. CommitOf[r] \notin milestones
      BY <1>0, <2>1, <3>1 DEF StillTrue, BatchIsOpen, KnownProtected, Running
    <3> QED
      BY <3>1, <3>2 DEF Fits
  <2> QED
    BY <2>1, <2>2, <2>3
<1> QED
  BY <1>1, <1>2, <1>3, UsersJob DEF Next

(* "Milestones are never deleted" and "we never delete files" of runs that  *)
(* users have (hard_delete.py, batch, delete_run): for any runs, commits    *)
(* and size of page, and however often the job is interrupted - unless the  *)
(* runs are redone, or the milestones change, while it runs.                *)
THEOREM DeletesNothingElse ==
    ASSUME DeletionAssumption
    PROVE  Spec => OnlyWhatItMay
<1>1. Init => TypeOK /\ NothingStale
  BY TypeInit, NothingIsStaleYet
<1>2. TypeOK /\ NothingStale /\ [Next]_vars => (TypeOK /\ NothingStale)'
  BY TypeStep, NothingStaleStep
<1>3. TypeOK /\ NothingStale /\ [Next]_vars => [DeletesOnlyWhatItMay]_vars
  BY DeletesWhatItMay
<1> QED
  BY <1>1, <1>2, <1>3, PTL DEF Spec, OnlyWhatItMay
=============================================================================
