------------------------------- MODULE WebApp -------------------------------
(* The components of the web app that keep a state of their own, next to   *)
(* each other: the preferences (PrefsSync, whose names are kept), and the  *)
(* eight others.  They share no variable; each step is a step of one.      *)
EXTENDS PrefsSync

CONSTANTS
    InitialBytes, Newlines, MaxLength, MaxFiles, MaxReadFailures,
    Listeners, MaxCheckFailures,
    End, MaxSeeks,
    UserNames, side_color_count, MaxReferences, MaxCopies,
    Tiles, MAX_TILES, MaxFetches,
    Commits, Builds, Links, LS_MAX_COMMITS, MaxRequests,
    Ids, Labels, MaxActions,
    Texts, NoText, MaxSaves, MaxActs, MaxOthers

VARIABLES
    file, running, live, all, log, cursor, first, more, poll, lost, outgrown,
    job, lsf, status, stores, failures,
    video, events, player, asked, seeks,
    url, was,
    tiles, fetched, inflight, latest, pointer, evicted,
    commit, statuses, latest_statuses, requests, stored, index,
    saved, shown, jobs, refetch, done, orderly,
    batches, others, acts, doc, backup, loads, saves, conflict, undo, typed, seen

tail == <<file, running, live, all, log, cursor, first, more, poll, lost, outgrown>>
subs == <<job, lsf, status, stores, failures>>
videos == <<video, events, player, asked, seeks>>
refs == <<url, was>>
pixels == <<tiles, fetched, inflight, latest, pointer, evicted>>
ints == <<commit, statuses, latest_statuses, requests, stored, index>>
stars == <<saved, shown, jobs, refetch, done, orderly>>
drafts == <<batches, others, acts, doc, backup, loads, saves, conflict, undo, typed, seen>>
app == <<vars, tail, subs, videos, refs, pixels, ints, stars, drafts>>

Logs == INSTANCE LogTail WITH MaxFailures <- MaxReadFailures
Subs == INSTANCE Submissions WITH MaxFailures <- MaxCheckFailures
Seeks == INSTANCE SyncedSeeks WITH MaxActions <- MaxSeeks, actions <- seeks
Refs == INSTANCE References
Pixels == INSTANCE PixelTiles
Ints == INSTANCE IntegrationStatuses WITH latest <- latest_statuses
Stars == INSTANCE Milestones
Drafts == INSTANCE BatchDrafts WITH file <- batches, stored <- backup

ASSUME AppAssumption ==
    /\ Logs!LogAssumption /\ Subs!SubmissionsAssumption
    /\ Seeks!SeeksAssumption /\ Refs!ReferencesAssumption /\ Pixels!TilesAssumption
    /\ Ints!StatusesAssumption /\ Stars!MilestonesAssumption /\ Drafts!DraftsAssumption

Parts == {"prefs", "logs", "subs", "seeks", "refs", "pixels", "ints", "stars", "drafts"}
StepOf(part) ==
    \/ part = "prefs" /\ Next /\ UNCHANGED <<tail, subs, videos, refs, pixels, ints, stars, drafts>>
    \/ part = "logs" /\ Logs!Next /\ UNCHANGED <<vars, subs, videos, refs, pixels, ints, stars, drafts>>
    \/ part = "subs" /\ Subs!Next /\ UNCHANGED <<vars, tail, videos, refs, pixels, ints, stars, drafts>>
    \/ part = "seeks" /\ Seeks!Next /\ UNCHANGED <<vars, tail, subs, refs, pixels, ints, stars, drafts>>
    \/ part = "refs" /\ Refs!Next /\ UNCHANGED <<vars, tail, subs, videos, pixels, ints, stars, drafts>>
    \/ part = "pixels" /\ Pixels!Next /\ UNCHANGED <<vars, tail, subs, videos, refs, ints, stars, drafts>>
    \/ part = "ints" /\ Ints!Next /\ UNCHANGED <<vars, tail, subs, videos, refs, pixels, stars, drafts>>
    \/ part = "stars" /\ Stars!Next /\ UNCHANGED <<vars, tail, subs, videos, refs, pixels, ints, drafts>>
    \/ part = "drafts" /\ Drafts!Next /\ UNCHANGED <<vars, tail, subs, videos, refs, pixels, ints, stars>>

AppInit ==
    /\ Init /\ Logs!Init /\ Subs!Init /\ Seeks!Init /\ Refs!Init
    /\ Pixels!Init /\ Ints!Init /\ Stars!Init /\ Drafts!Init
AppNext == \E part \in Parts : StepOf(part)
AppSpec == AppInit /\ [][AppNext]_app

(* What the browser and the servers do by themselves, as each component    *)
(* says.                                                                   *)
AppFairness == Logs!Fairness /\ Subs!Fairness

-----------------------------------------------------------------------------
(* Every component's variables keep their shapes.                          *)
ShapesOK ==
    /\ TypeOK /\ Logs!TypeOK /\ Subs!TypeOK /\ Seeks!TypeOK /\ Refs!TypeOK
    /\ Pixels!TypeOK /\ Ints!TypeOK /\ Stars!TypeOK /\ Drafts!TypeOK

(* useLogTail: the log that is shown has no hole and nothing twice, and    *)
(* mixes no two files unless a redone one outgrew what had been read.      *)
NoHoleNothingTwice == Logs!NoHoleNothingTwice

(* useLogTail: a live log that stays in place ends up shown to its end.    *)
LiveLogIsFollowed == Logs!LiveLogIsFollowed

(* submissions.js: a submission that somebody shows and that is not over   *)
(* is polled.                                                              *)
PollsWhileWatched == Subs!PollsWhileWatched

(* submissionState: a submission shown as over did end that way.           *)
FinalIsTrue == Subs!FinalIsTrue

(* submissions.js: whoever goes on watching sees the end.                  *)
EndIsSeen == Subs!EndIsSeen

(* syncedPlayback: once no seek is under way, the videos show one frame.   *)
SameFrameWhenSettled == Seeks!SameFrameWhenSettled

(* selection.js: colors follow the results that stay, but that the top     *)
(* results may take the color of a reference that is removed.              *)
ColorsFollow == [][refs' # refs => Refs!ColorsMove]_app

(* selection.js: showing, adding, removing, moving, copying a reference,   *)
(* or swapping one with the top results, renames none of the others.       *)
NamesStay == [][refs' # refs => Refs!NamesMove]_app

(* pixelTiles: the tile under the pointer is kept, asked for, or next.     *)
PointerIsServed == Pixels!PointerIsServed

(* useIntegrationStatuses: "loading" means that an answer is to come.      *)
NeverStuckLoading == Ints!NeverStuckLoading

(* milestones/hooks.js: once quiet, what is shown is what is saved, unless *)
(* favorites overlapped, or an answer that nothing asks again was lost.    *)
ShownIsSaved == Stars!ShownIsSaved

(* BatchesEditor: what users wrote, and neither saved nor discarded, is    *)
(* in the editor or comes back with it.                                    *)
DraftsSurvive == Drafts!DraftsSurvive

(* BatchesEditor, save: a save replaces nothing that its user never saw.   *)
OverwritesKnown == Drafts!OverwritesKnown
=============================================================================
