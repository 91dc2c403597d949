----------------------------- MODULE BatchDrafts -----------------------------
(***************************************************************************)
(* Editing a file of batches in the browser (src/webapp/src/components/    *)
(* tuning/BatchesEditor.jsx): the drafts that localStorage keeps from one  *)
(* view, or page, to the next, and saving without overwriting what others  *)
(* saved meanwhile (GET and POST /api/v1/tests/groups of api/tuning.py).   *)
(*                                                                         *)
(* One file, in one tab at a time.  The file is loaded again when the list *)
(* of files changes, so that loads overlap, and saves go on after the view *)
(* is left.  The server's open, truncate and write are one step here.      *)
(***************************************************************************)
EXTENDS Integers, FiniteSets

CONSTANTS
    Texts,
    NoText,         \* no file was loaded yet
    MaxSaves,       \* bound: the saves under way together
    MaxActs,        \* bound: how often users load, type, save or leave
    MaxOthers       \* bound: the saves of others

DraftsAssumption ==
    NoText \notin Texts /\ MaxSaves \in Nat /\ MaxActs \in Nat /\ MaxOthers \in Nat

VARIABLES
    file,       \* the file on the server
    others,     \* how many times somebody else saved it
    acts,       \* how many times users did something
    doc,        \* the editor's document
    stored,     \* localStorage: its draft and what it is based on, or {}
    loads,      \* the GETs of load(): what they read, or {}
    saves,      \* save() and write(): at the check, at the server, or answered
    conflict,   \* the dialog: the saved text, or {}; whether it is what is saved still
    undo,       \* the text that a toast can bring back
    typed,      \* history: what users wrote, neither saved nor discarded
    seen        \* history: the saved texts that users saw or wrote
vars == <<file, others, acts, doc, stored, loads, saves, conflict, undo, typed, seen>>

Closed == [status |-> "closed", base |-> NoText, draft |-> NoText, saving |-> FALSE]
NoConflict == [server |-> {}, fresh |-> TRUE]

TypeOK ==
    /\ file \in Texts /\ others \in 0..MaxOthers /\ acts \in 0..MaxActs
    /\ doc \in [status : {"closed", "loading", "ready", "error"},
                base : Texts \cup {NoText}, draft : Texts \cup {NoText}, saving : BOOLEAN]
    /\ doc.status = "ready" => doc.base \in Texts /\ doc.draft \in Texts
    /\ stored \subseteq [draft : Texts, base : Texts] /\ Cardinality(stored) <= 1
    /\ loads \subseteq [n : 1..2, read : SUBSET Texts]
    /\ saves \subseteq [n : 1..MaxSaves, at : {"check", "server", "answered"}, base : Texts, content : Texts,
                        read : SUBSET Texts, fresh : BOOLEAN, here : BOOLEAN]
    /\ conflict \in [server : SUBSET Texts, fresh : BOOLEAN]
    /\ undo \subseteq Texts /\ typed \subseteq Texts /\ seen \subseteq Texts

Init ==
    /\ file \in Texts /\ others = 0 /\ acts = 0
    /\ doc = Closed /\ stored = {}
    /\ loads = {} /\ saves = {} /\ conflict = NoConflict
    /\ undo = {} /\ typed = {} /\ seen = {}

Acts == acts < MaxActs /\ acts' = acts + 1

(* The effect that backs up the drafts runs after every change of a ready  *)
(* document: storeDraft().                                                 *)
Becomes(new) ==
    /\ doc' = new
    /\ stored' = IF new.status # "ready" THEN stored
                 ELSE IF new.draft = new.base THEN {}
                 ELSE {[draft |-> new.draft, base |-> new.base]}

-----------------------------------------------------------------------------
(* load(): when the view opens, when the list of files changes - users are *)
(* known later than projects - and to retry.                               *)
Load ==
    /\ Acts
    /\ \E n \in (1..2) \ {l.n : l \in loads} :
          /\ loads' = loads \cup {[n |-> n, read |-> {}]}
          /\ Becomes([doc EXCEPT !.status = "loading"])
          /\ UNCHANGED <<file, others, saves, conflict, undo, typed, seen>>

LoadIsRead ==
    \E l \in loads :
        /\ l.read = {}
        /\ loads' = (loads \ {l}) \cup {[l EXCEPT !.read = {file}]}
        /\ UNCHANGED <<file, others, acts, doc, stored, saves, conflict, undo, typed, seen>>

LoadedBug(content, kept) ==             \* the draft is based on what was just read
    [doc EXCEPT !.status = "ready", !.base = content, !.draft = kept.draft]

(* A draft keeps what it was based on: saving it will find the conflict.   *)
Loaded(content, kept) ==
    [doc EXCEPT !.status = "ready", !.base = kept.base, !.draft = kept.draft]

LoadArrives ==
    \E l \in loads : \E content \in l.read :
        LET drafts == {kept \in stored : kept.draft # content} IN
        /\ loads' = loads \ {l}
        /\ Becomes(IF drafts # {} THEN Loaded(content, CHOOSE kept \in drafts : TRUE)
                   ELSE [doc EXCEPT !.status = "ready", !.base = content, !.draft = content])
        /\ seen' = IF drafts # {} THEN seen ELSE seen \cup {content}
        /\ typed' = typed \ {content}
        /\ UNCHANGED <<file, others, acts, saves, conflict, undo>>

LoadFails ==
    \E l \in loads :
        /\ loads' = loads \ {l}
        /\ Becomes([doc EXCEPT !.status = "error"])
        /\ UNCHANGED <<file, others, acts, saves, conflict, undo, typed, seen>>

(* onChange().                                                             *)
Types ==
    /\ Acts
    /\ doc.status = "ready"
    /\ \E t \in Texts \ {doc.draft} :
          Becomes([doc EXCEPT !.draft = t]) /\ typed' = {t} \ {doc.base}
    /\ UNCHANGED <<file, others, loads, saves, conflict, undo, seen>>

(* discard(), and the Undo of its toast.  Drafts brought back while the    *)
(* file is loaded again do not outlive it.                                 *)
Discard ==
    /\ Acts
    /\ doc.status = "ready" /\ doc.draft # doc.base
    /\ Becomes([doc EXCEPT !.draft = doc.base])
    /\ undo' = {doc.draft} /\ typed' = {}
    /\ UNCHANGED <<file, others, loads, saves, conflict, seen>>

Undo ==
    \E t \in undo :
        /\ Becomes([doc EXCEPT !.draft = t])
        /\ undo' = {}
        /\ typed' = IF doc.status = "ready" THEN {t} \ {doc.base} ELSE typed
        /\ UNCHANGED <<file, others, acts, loads, saves, conflict, seen>>

-----------------------------------------------------------------------------
Numbers == {s.n : s \in saves}
With(at, content, fresh) ==
    \E n \in (1..MaxSaves) \ Numbers :
        saves' = saves \cup {[n |-> n, at |-> at, base |-> doc.base, content |-> content,
                              read |-> {}, fresh |-> fresh, here |-> TRUE]}
Moves(s, new) == saves' = (saves \ {s}) \cup {new}

(* save(): what is saved is looked at first ...                            *)
Save ==
    /\ Acts
    /\ doc.status = "ready" /\ ~doc.saving /\ doc.draft # doc.base
    /\ With("check", doc.draft, TRUE)
    /\ Becomes([doc EXCEPT !.saving = TRUE])
    /\ UNCHANGED <<file, others, loads, conflict, undo, typed, seen>>

CheckIsRead ==
    \E s \in saves :
        /\ s.at = "check" /\ s.read = {}
        /\ Moves(s, [s EXCEPT !.read = {file}])
        /\ UNCHANGED <<file, others, acts, doc, stored, loads, conflict, undo, typed, seen>>

(* ... and written if it is what the draft was based on - or could not be  *)
(* read, "we'll know soon enough if the server is unreachable".            *)
WriteBegins ==
    \E s \in saves :
        /\ s.at = "check"
        /\ \/ s.read = {s.base} /\ Moves(s, [s EXCEPT !.at = "server"])
           \/ s.read = {} /\ Moves(s, [s EXCEPT !.at = "server", !.fresh = FALSE])
        /\ UNCHANGED <<file, others, acts, doc, stored, loads, conflict, undo, typed, seen>>

FindsConflict ==
    \E s \in saves : \E server \in s.read :
        /\ s.at = "check" /\ server # s.base
        /\ saves' = saves \ {s}
        /\ IF s.here
           THEN /\ Becomes([doc EXCEPT !.saving = FALSE])
                /\ conflict' = [server |-> {server}, fresh |-> s.fresh]
                /\ seen' = seen \cup {server}
           ELSE UNCHANGED <<doc, stored, conflict, seen>>
        /\ UNCHANGED <<file, others, acts, loads, undo, typed>>

(* update_groups() writes, its answer arrives; or it refuses, or one of    *)
(* them is lost.                                                           *)
Handled ==
    \E s \in saves :
        /\ s.at = "server"
        /\ file' = s.content
        /\ Moves(s, [s EXCEPT !.at = "answered"])
        /\ seen' = seen \cup {s.content}
        /\ UNCHANGED <<others, acts, doc, stored, loads, conflict, undo, typed>>

WrittenBug(content) ==                  \* the editor shows what was saved
    [doc EXCEPT !.saving = FALSE, !.base = content, !.draft = content]

Written(content) == [doc EXCEPT !.saving = FALSE, !.base = content]

WriteEnds ==
    \E s \in saves :
        /\ s.at = "answered"
        /\ saves' = saves \ {s}
        /\ IF s.here THEN Becomes(Written(s.content)) /\ typed' = typed \ {s.content}
           ELSE UNCHANGED <<doc, stored, typed>>
        /\ UNCHANGED <<file, others, acts, loads, conflict, undo, seen>>

WriteFails ==
    \E s \in saves :
        /\ s.at # "check"
        /\ saves' = saves \ {s}
        /\ IF s.here THEN Becomes([doc EXCEPT !.saving = FALSE]) ELSE UNCHANGED <<doc, stored>>
        /\ UNCHANGED <<file, others, acts, loads, conflict, undo, typed, seen>>

-----------------------------------------------------------------------------
(* The dialog of a conflict: it can be closed, the saved text become the   *)
(* reference or the draft, or be overwritten, without another look at it.  *)
KeepEditing ==
    \E server \in conflict.server :
        /\ Becomes([doc EXCEPT !.base = server])
        /\ conflict' = NoConflict
        /\ typed' = typed \ {server}
        /\ UNCHANGED <<file, others, acts, loads, saves, undo, seen>>

UseSaved ==
    \E server \in conflict.server :
        /\ Becomes([doc EXCEPT !.base = server, !.draft = server])
        /\ conflict' = NoConflict
        /\ undo' = {doc.draft} /\ typed' = {}
        /\ UNCHANGED <<file, others, acts, loads, saves, seen>>

Overwrite ==
    /\ conflict.server # {}
    /\ With("server", doc.draft, conflict.fresh)
    /\ conflict' = NoConflict
    /\ Becomes([doc EXCEPT !.saving = TRUE])
    /\ UNCHANGED <<file, others, acts, loads, undo, typed, seen>>

ClosesDialog ==
    /\ conflict.server # {}
    /\ conflict' = NoConflict
    /\ UNCHANGED <<file, others, acts, doc, stored, loads, saves, undo, typed, seen>>

-----------------------------------------------------------------------------
(* Users leave the view, and its saves go on; or close the tab, and only   *)
(* what the server already got does.                                       *)
Leaves ==
    /\ Acts
    /\ doc.status # "closed"
    /\ doc' = Closed
    /\ loads' = {} /\ conflict' = NoConflict /\ undo' = {}
    /\ \E goOn \in {saves, {s \in saves : s.at # "check"}} : saves' = {[s EXCEPT !.here = FALSE] : s \in goOn}
    /\ UNCHANGED <<file, others, stored, typed, seen>>

OtherSaves ==
    /\ others < MaxOthers /\ others' = others + 1
    /\ \E t \in Texts \ {file} : file' = t
    /\ saves' = {[s EXCEPT !.fresh = s.fresh /\ s.at = "check" /\ s.read = {}] : s \in saves}
    /\ conflict' = IF conflict.server = {} THEN conflict ELSE [conflict EXCEPT !.fresh = FALSE]
    /\ UNCHANGED <<acts, doc, stored, loads, undo, typed, seen>>

Next ==
    \/ Load \/ LoadIsRead \/ LoadArrives \/ LoadFails
    \/ Types \/ Discard \/ Undo
    \/ Save \/ CheckIsRead \/ WriteBegins \/ FindsConflict \/ Handled \/ WriteEnds \/ WriteFails
    \/ KeepEditing \/ UseSaved \/ Overwrite \/ ClosesDialog
    \/ Leaves \/ OtherSaves

Spec == Init /\ [][Next]_vars

-----------------------------------------------------------------------------
(* "Unsaved changes are kept in the browser": what users wrote, and        *)
(* neither saved nor discarded, is in the editor, or comes back with it.   *)
DraftsSurvive ==
    \A t \in typed : IF doc.status = "ready" THEN doc.draft = t ELSE \E kept \in stored : kept.draft = t

(* "Don't overwrite changes someone else saved while we were editing": a   *)
(* save only replaces what users saw, or wrote - unless somebody saved     *)
(* after save() or the dialog looked, or save() could not look.            *)
OverwritesKnown ==
    \A s \in saves : s.at = "server" /\ s.fresh => file \in seen
=============================================================================
