------------------------------ MODULE PrefsSync ------------------------------
(***************************************************************************)
(* The preferences of a user, kept by their browser and by the server      *)
(* (src/webapp/src/stores/prefsSync.js, over the store of stores/prefs.js  *)
(* and POST /api/v1/user/preferences of backend/api/users.py).             *)
(*                                                                         *)
(* One page asks the server for its preferences when its user signs in,    *)
(* merges them with its own, then sends what users change, a second after  *)
(* the last change.  Requests are lost, refused once the session is over,  *)
(* and handled in any order; another browser of the same user writes too.  *)
(***************************************************************************)
EXTENDS Integers

CONSTANTS
    Keys,           \* the synced preferences
    AccountKeys,    \* those that belong to an account, not to a browser
    OtherKeys,      \* bound: those that the user's other browsers change
    Values,         \* what the app understands
    Default,        \* the value of a preference nobody changed
    Absent,         \* what the server does not have
    Foreign,        \* a value of another type, saved by another version
    MaxPosts        \* bound: the POST requests of a behaviour

ASSUME PrefsAssumption ==
    /\ AccountKeys \subseteq Keys /\ OtherKeys \subseteq Keys
    /\ Default \in Values
    /\ Absent \notin Values /\ Foreign \notin Values /\ Absent # Foreign
    /\ MaxPosts \in Nat

VARIABLES
    local,      \* the store, which localStorage keeps
    phase,      \* "out", "asking", "ready" or "failed" (the server could not be asked)
    pending,    \* the changes to send, Absent for the keys without one
    timer,      \* whether a flush is scheduled
    answer,     \* what the server answered to GET, not handled yet
    posts,      \* the POST requests under way
    sent,       \* how many were sent
    server,     \* the user's row
    told,       \* history: what the server had at login, or was sent since, per key
    chosen,     \* history: what users chose while the page synced, per key
    clean       \* history: no request failed or overtook another, nobody else wrote

vars == <<local, phase, pending, timer, answer, posts, sent, server, told, chosen, clean>>
Saved == Values \cup {Absent, Foreign}
Nothing == [k \in Keys |-> Absent]
NoAnswer == {}

TypeOK ==
    /\ local \in [Keys -> Values]
    /\ phase \in {"out", "asking", "ready", "failed"}
    /\ pending \in [Keys -> Values \cup {Absent}]
    /\ timer \in BOOLEAN
    /\ answer \subseteq [Keys -> Saved] /\ \A a, b \in answer : a = b
    /\ posts \subseteq [id : 1..sent, prefs : [Keys -> Values \cup {Absent}]]
    /\ sent \in 0..MaxPosts
    /\ server \in [Keys -> Saved]
    /\ told \in [Keys -> Saved]
    /\ chosen \in [Keys -> Values \cup {Absent}]
    /\ clean \in BOOLEAN

Init ==
    /\ local \in [Keys -> Values]
    /\ server \in [Keys -> Saved]
    /\ phase = "out" /\ pending = Nothing /\ timer = FALSE /\ answer = NoAnswer
    /\ posts = {} /\ sent = 0
    /\ told = Nothing /\ chosen = Nothing /\ clean = TRUE

-----------------------------------------------------------------------------
(* The merge at login: the server's values win, except over what users     *)
(* changed meanwhile and over values of another type ...                   *)
Kept(p) == {k \in Keys : p[k] # Absent}

Apply(mine, theirs, keep) ==
    [k \in Keys |-> IF theirs[k] \in Values /\ k \notin keep THEN theirs[k] ELSE mine[k]]

PushBug(mine, theirs, p) ==             \* whoever used this browser before is forgotten
    [k \in Keys |-> IF theirs[k] = Absent /\ mine[k] # Default THEN mine[k] ELSE p[k]]

(* ... and what the server lacks is sent to it, except the defaults and    *)
(* what belongs to whoever used this browser before.                       *)
Push(mine, theirs, p) ==
    [k \in Keys |-> IF /\ theirs[k] = Absent
                       /\ mine[k] # Default
                       /\ k \notin AccountKeys
                    THEN mine[k] ELSE p[k]]

PostBug(p) ==                           \* a flush waits for the one under way, and forgets
    IF p = Nothing \/ posts # {} THEN UNCHANGED <<posts, sent, clean>>
    ELSE /\ sent < MaxPosts
         /\ sent' = sent + 1
         /\ posts' = posts \cup {[id |-> sent + 1, prefs |-> p]}
         /\ clean' = clean

(* client.post(), when there is something to send.                          *)
Post(p) ==
    IF p = Nothing THEN UNCHANGED <<posts, sent, clean>>
    ELSE /\ sent < MaxPosts
         /\ sent' = sent + 1
         /\ posts' = posts \cup {[id |-> sent + 1, prefs |-> p]}
         /\ clean' = (clean /\ posts = {})

(* flush(), once ready: everything pending leaves in one request, and is   *)
(* not pending any more whatever becomes of the request.                   *)
Flush(p, known) ==
    /\ Post(p)
    /\ pending' = Nothing /\ timer' = FALSE
    /\ told' = [k \in Keys |-> IF p[k] # Absent THEN p[k] ELSE known[k]]

(* stop(), or the end of the page: one last flush, if ready.  What the     *)
(* sync knew is gone with it; its requests are not.                        *)
Stop ==
    /\ Post(IF phase = "ready" THEN pending ELSE Nothing)
    /\ phase' = "out" /\ answer' = NoAnswer
    /\ pending' = Nothing /\ timer' = FALSE
    /\ told' = Nothing /\ chosen' = Nothing

(* The user is known: start() asks for the server's preferences.           *)
SignIn ==
    /\ phase = "out"
    /\ phase' = "asking"
    /\ clean' = (posts = {})
    /\ UNCHANGED <<local, pending, timer, answer, posts, sent, server, told, chosen>>

ServerAnswers ==
    /\ phase = "asking" /\ answer = NoAnswer
    /\ answer' = {server}
    /\ UNCHANGED <<local, phase, pending, timer, posts, sent, server, told, chosen, clean>>

(* start() goes on: what it writes in the store is not a change to send.   *)
GotAnswer ==
    \E theirs \in answer :
        /\ local' = Apply(local, theirs, Kept(pending))
        /\ phase' = "ready" /\ answer' = NoAnswer
        /\ Flush(Push(local', theirs, pending), theirs)
        /\ UNCHANGED <<server, chosen>>

(* The request fails, or is refused: unsubscribe(), nothing is sent any    *)
(* more until the next sign-in.                                            *)
AskFails ==
    /\ phase = "asking"
    /\ phase' = "failed" /\ answer' = NoAnswer
    /\ pending' = Nothing /\ timer' = FALSE
    /\ told' = Nothing /\ chosen' = Nothing
    /\ UNCHANGED <<local, posts, sent, server, clean>>

(* A setter of the store, and the subscription that hears of it.           *)
SetPreference(k, v) == local[k] # v /\ local' = [local EXCEPT ![k] = v]

HeardBug(k, v) ==                       \* deaf until the server answered
    IF phase = "ready"
    THEN pending' = [pending EXCEPT ![k] = v] /\ timer' = TRUE
    ELSE UNCHANGED <<pending, timer>>

Heard(k, v) ==
    IF phase \in {"asking", "ready"}
    THEN pending' = [pending EXCEPT ![k] = v] /\ timer' = (phase = "ready")
    ELSE UNCHANGED <<pending, timer>>

Change ==
    \E k \in Keys, v \in Values :
        /\ SetPreference(k, v)
        /\ Heard(k, v)
        /\ chosen' = IF phase \in {"asking", "ready"} THEN [chosen EXCEPT ![k] = v] ELSE chosen
        /\ UNCHANGED <<phase, answer, posts, sent, server, told, clean>>

TimerFires ==
    /\ timer
    /\ Flush(pending, told)
    /\ UNCHANGED <<local, phase, answer, server, chosen>>

(* The page is hidden, and users come back to it ...                       *)
PageHides ==
    /\ phase = "ready"
    /\ Flush(pending, told)
    /\ UNCHANGED <<local, phase, answer, server, chosen>>

(* ... or do not: localStorage is all that remains.  Or they sign out:     *)
(* the app forgets them and the effect is cleaned up, while another        *)
(* request tells the server.                                               *)
Leaves ==
    /\ phase # "out"
    /\ Stop
    /\ UNCHANGED <<local, server>>

(* update_preferences() merges the changes into the row it read.  Two at  *)
(* once may lose one's changes: only requests that overlap, see `clean`.   *)
PostHandled ==
    \E p \in posts :
        /\ server' = [k \in Keys |-> IF p.prefs[k] # Absent THEN p.prefs[k] ELSE server[k]]
        /\ posts' = posts \ {p}
        /\ UNCHANGED <<local, phase, pending, timer, answer, sent, told, chosen, clean>>

(* Lost, or refused once the session is over: nobody sends it again.       *)
PostFails ==
    \E p \in posts :
        /\ posts' = posts \ {p}
        /\ clean' = FALSE
        /\ UNCHANGED <<local, phase, pending, timer, answer, sent, server, told, chosen>>

(* The same user, in another browser or with another version of the app.   *)
OtherBrowser ==
    /\ \E k \in OtherKeys, v \in Values \cup {Foreign} : server' = [server EXCEPT ![k] = v]
    /\ server' # server
    /\ clean' = FALSE
    /\ UNCHANGED <<local, phase, pending, timer, answer, posts, sent, told, chosen>>

Next ==
    \/ SignIn \/ ServerAnswers \/ GotAnswer \/ AskFails
    \/ Change \/ TimerFires \/ PageHides \/ Leaves
    \/ PostHandled \/ PostFails \/ OtherBrowser

Spec == Init /\ [][Next]_vars

-----------------------------------------------------------------------------
(* A preference needs no request when its value came from the server or    *)
(* was sent to it (if that request fails, nothing sends it again), when    *)
(* the server has one of another type, or lacks it and is not to be sent   *)
(* it.                                                                     *)
Settled(k, theirs) ==
    \/ theirs[k] = local[k]
    \/ theirs[k] = Foreign
    \/ theirs[k] = Absent /\ (local[k] = Default \/ k \in AccountKeys)

(* While the page syncs, what users chose is what they see, and every      *)
(* preference is settled or waits, with its last value, for a flush that   *)
(* is scheduled: the answer at login, a change made while asking and a     *)
(* flush that a change reschedules lose none (createPrefsSync).  It says   *)
(* that each is sent once, not that the request that has it succeeds.      *)
NothingForgotten ==
    /\ \A k \in Keys : chosen[k] # Absent => local[k] = chosen[k]
    /\ phase = "ready" =>
         \A k \in Keys : \/ pending[k] = local[k] /\ timer
                         \/ pending[k] = Absent /\ Settled(k, told)

(* What leaves for the server is what users chose since they signed in, or *)
(* what the server lacked, never what came from the server nor what an     *)
(* account left in this browser (mergeOnLogin, account_keys, `applying`).  *)
SendsChoices ==
    \A p \in posts' : \A k \in Kept(p.prefs) :
        \/ \E q \in posts : q.id = p.id
        \/ chosen[k] = p.prefs[k]
        \/ k \notin AccountKeys /\ p.prefs[k] # Default /\ \E theirs \in answer : theirs[k] = Absent
OnlyChoicesAreSent == [][SendsChoices]_vars

(* Once nothing is under way, the browser and the server agree: unless a   *)
(* request failed, two of them were under way together, or another browser *)
(* wrote (createPrefsSync and update_preferences together).                *)
QuietMeansSaved ==
    clean /\ posts = {} /\ phase = "ready" /\ pending = Nothing =>
        \A k \in Keys : Settled(k, server)
=============================================================================
