----------------------------- MODULE Milestones -----------------------------
(* Editing, deleting and starring milestones in the web app (src/webapp/    *)
(* src/milestones/hooks.js): the list it shows is changed before or after   *)
(* the server's answers, several requests can be under way, and some fail.  *)
EXTENDS Integers, FiniteSets, Functions

CONSTANTS
    Ids,            \* the milestones
    Labels,         \* what they can be edited to
    MaxActions      \* bound: what the user does

MilestonesAssumption == MaxActions \in Nat

VARIABLES
    saved,      \* the server's milestones
    shown,      \* the cached list
    jobs,       \* the actions under way, with the answers that came
    refetch,    \* whether the list is asked again, and what was read
    done,       \* how many actions started
    orderly     \* history: no favorite was changed while something else changed it, or the list was
                \* read, and no answer was lost that nothing asks for again
vars == <<saved, shown, jobs, refetch, done, orderly>>

Milestone == [favorite : BOOLEAN, label : Labels]
Lists == UNION {[ids -> Milestone] : ids \in SUBSET Ids}
Quiet == [on |-> FALSE, read |-> {}]
Empty == [m \in {} |-> {}]

TypeOK ==
    /\ saved \in Lists /\ shown \in Lists
    /\ \A job \in jobs :
          /\ job.id \in 1..MaxActions /\ job.kind \in {"favorite", "edit", "remove"}
          /\ job.of \in Lists /\ DOMAIN job.answers \subseteq DOMAIN job.of
          /\ \A m \in DOMAIN job.answers : job.answers[m] \subseteq Milestone
    /\ refetch.on \in BOOLEAN /\ refetch.read \subseteq Lists
    /\ done \in 0..MaxActions /\ orderly \in BOOLEAN

Init ==
    /\ saved \in {[m \in Ids |-> [favorite |-> FALSE, label |-> l]] : l \in Labels} /\ shown = saved
    /\ jobs = {} /\ refetch = Quiet /\ done = 0 /\ orderly = TRUE

With(list, m, milestone) == [i \in DOMAIN list \cup {m} |-> IF i = m THEN milestone ELSE list[i]]
Starred(list, m, value) == With(list, m, [list[m] EXCEPT !.favorite = value])

Begin(kind, ms, label, many) ==
    /\ done < MaxActions /\ done' = done + 1
    /\ jobs' = jobs \cup {[id |-> done + 1, kind |-> kind, many |-> many, label |-> label,
                           of |-> Restrict(shown, ms), answers |-> Empty]}

-----------------------------------------------------------------------------
(* toggleFavorite(): shown at once.                                        *)
ToggleFavorite(m) ==
    /\ m \in DOMAIN shown
    /\ Begin("favorite", {m}, shown[m].label, FALSE)
    /\ shown' = Starred(shown, m, ~shown[m].favorite)
    /\ orderly' = (orderly /\ ~refetch.on /\ \A job \in jobs : m \notin DOMAIN job.of)
    /\ UNCHANGED <<saved, refetch>>

(* save(), updateMany(), remove(), removeMany(): nothing is shown yet.     *)
Edit(ms, label, many) ==
    /\ Begin("edit", ms, label, many)
    /\ UNCHANGED <<saved, shown, refetch, orderly>>

Remove(ms, many) ==
    /\ Begin("remove", ms, CHOOSE l \in Labels : TRUE, many)
    /\ UNCHANGED <<saved, shown, refetch, orderly>>

(* The server saves what one of an action's requests asks for, and what it *)
(* answers: the milestone, or the one that was deleted.                    *)
Saves(job, m) ==
    /\ m \in DOMAIN saved
    /\ saved' = CASE job.kind = "favorite" -> Starred(saved, m, ~job.of[m].favorite)
                  [] job.kind = "edit" -> With(saved, m, [saved[m] EXCEPT !.label = job.label])
                  [] job.kind = "remove" -> Restrict(saved, DOMAIN saved \ {m})
Answers(job, m, answer) ==
    jobs' = (jobs \ {job}) \cup {[job EXCEPT !.answers = With(@, m, answer)]}

(* A request is handled and answered; or handled, but its answer is lost,  *)
(* so that the page takes it for a failure; or refused, or lost itself.    *)
(* Not modelled: one that is handled after a proxy said that it failed.    *)
Handle(job, m) ==
    /\ m \in DOMAIN job.of \ DOMAIN job.answers
    /\ \/ /\ Saves(job, m)
          /\ Answers(job, m, {IF job.kind = "remove" THEN saved[m] ELSE saved'[m]})
          /\ UNCHANGED orderly
       \/ /\ Saves(job, m)
          /\ Answers(job, m, {})
          /\ orderly' = (orderly /\ job.many)
       \/ /\ Answers(job, m, {})
          /\ UNCHANGED <<saved, orderly>>
    /\ UNCHANGED <<shown, refetch, done>>

Answered(job) == {m \in DOMAIN job.answers : job.answers[m] # {}}
All(job) == DOMAIN job.answers = DOMAIN job.of

(* refresh(): the list is asked again, from the start.                     *)
Refresh ==
    /\ refetch' = [on |-> TRUE, read |-> {}]
    /\ orderly' = (orderly /\ \A other \in jobs : other.kind # "favorite")

FavoriteAnsweredBug(job) ==         \* a refused favorite stays
    /\ job.kind = "favorite" /\ All(job)
    /\ UNCHANGED <<shown, refetch, orderly>>

(* A refused favorite is shown as it was, in the list or back in it.       *)
FavoriteAnswered(job) ==
    /\ job.kind = "favorite" /\ All(job)
    /\ shown' = IF Answered(job) # {} THEN shown
                ELSE [m \in DOMAIN shown \cup DOMAIN job.of |->
                        IF m \notin DOMAIN job.of THEN shown[m]
                        ELSE [(IF m \in DOMAIN shown THEN shown[m] ELSE job.of[m])
                                EXCEPT !.favorite = job.of[m].favorite]]
    /\ UNCHANGED <<refetch, orderly>>

(* What the server saved is shown, then asked again; also when several     *)
(* milestones were edited and some could not be.                           *)
EditAnswered(job) ==
    /\ job.kind = "edit" /\ All(job)
    /\ shown' = [m \in DOMAIN shown |-> IF m \in Answered(job) THEN CHOOSE s \in job.answers[m] : TRUE
                                        ELSE shown[m]]
    /\ IF job.many \/ Answered(job) # {} THEN Refresh ELSE UNCHANGED <<refetch, orderly>>

RemoveAnswered(job) ==
    /\ job.kind = "remove" /\ All(job)
    /\ shown' = Restrict(shown, DOMAIN shown \ Answered(job))
    /\ IF job.many \/ Answered(job) # {} THEN Refresh ELSE UNCHANGED <<refetch, orderly>>

JobEnds(job) ==
    /\ FavoriteAnswered(job) \/ EditAnswered(job) \/ RemoveAnswered(job)
    /\ jobs' = jobs \ {job}
    /\ UNCHANGED <<saved, done>>

(* The list is asked again, e.g. when the page gets the focus; the server  *)
(* reads it, then its answer wins.                                         *)
Refetch ==
    /\ ~refetch.on /\ Refresh
    /\ UNCHANGED <<saved, shown, jobs, done>>

RefetchRead ==
    /\ refetch.on /\ refetch.read = {} /\ refetch' = [refetch EXCEPT !.read = {saved}]
    /\ orderly' = (orderly \/ jobs = {})
    /\ UNCHANGED <<saved, shown, jobs, done>>

RefetchAnswered ==
    /\ refetch.on /\ \E list \in refetch.read : shown' = list
    /\ refetch' = Quiet
    /\ UNCHANGED <<saved, jobs, done, orderly>>

Next ==
    \/ \E m \in Ids : ToggleFavorite(m)
    \/ \E m \in DOMAIN shown, l \in Labels : Edit({m}, l, FALSE)
    \/ \E ms \in SUBSET DOMAIN shown, l \in Labels : ms # {} /\ Edit(ms, l, TRUE)
    \/ \E m \in DOMAIN shown : Remove({m}, FALSE)
    \/ \E ms \in SUBSET DOMAIN shown : ms # {} /\ Remove(ms, TRUE)
    \/ \E job \in jobs : JobEnds(job) \/ \E m \in DOMAIN job.of : Handle(job, m)
    \/ Refetch \/ RefetchRead \/ RefetchAnswered

Spec == Init /\ [][Next]_vars

-----------------------------------------------------------------------------
(* When nothing is under way the list shows what the server saved, whatever *)
(* was refused, whatever edit or removal of several milestones lost its     *)
(* answers, and in whatever order the others came.  Unless nothing reads it *)
(* again: a favorite changed twice at once, or while the list was read, or  *)
(* the answer to a favorite or to one edit or removal was lost after the    *)
(* server saved it (toggleFavorite, save and remove, their catch).          *)
ShownIsSaved == jobs = {} /\ ~refetch.on /\ orderly => shown = saved
=============================================================================
