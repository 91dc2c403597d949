----------------------------- MODULE SyncedSeeks -----------------------------
(***************************************************************************)
(* Two videos compared frame by frame, paused                              *)
(* (src/webapp/src/viewers/videos/syncedPlayback.js): the leader drives    *)
(* the clock, the follower shows the same frame.                           *)
(*                                                                         *)
(* Times are frames.  Each video loads and seeks at its own pace and says  *)
(* so later, in events: by the time one is handled, users have scrubbed    *)
(* elsewhere.  Playing is not modelled.                                    *)
(***************************************************************************)
EXTENDS Integers, Sequences

CONSTANTS
    End,            \* the last frame of the leader, of the follower (it may be shorter)
    MaxActions      \* bound: how often users seek

SeeksAssumption ==
    /\ End \in [{"leader", "follower"} -> Nat]
    /\ MaxActions \in Nat

VARIABLES
    video,      \* the elements: where they are, whether they seek and are loaded
    events,     \* by element: the events that were not handled yet
    player,     \* the controller: the time sought, by element the next one, where to start
    asked,      \* history: the frame users want
    actions
vars == <<video, events, player, asked, actions>>

Elements == {"leader", "follower"}
None == -1
Frames == 0..End["leader"]

TypeOK ==
    /\ video \in [Elements -> [at : Frames, seeking : BOOLEAN, loaded : BOOLEAN]]
    /\ events \in [Elements -> Seq({"seeked", "loaded"})]
    /\ player \in [target : Frames \cup {None}, pending : [Elements -> Frames \cup {None}],
                   resumeAt : Frames]
    /\ asked \in Frames /\ actions \in 0..MaxActions

Init ==
    /\ video = [e \in Elements |-> [at |-> 0, seeking |-> FALSE, loaded |-> FALSE]]
    /\ events = [e \in Elements |-> <<>>]
    /\ player = [target |-> None, pending |-> [e \in Elements |-> None], resumeAt |-> 0]
    /\ asked = 0 /\ actions = 0

-----------------------------------------------------------------------------
(* What the controller does, as functions of the state s = [v, p]: the     *)
(* elements and the controller.                                            *)
Now == [v |-> video, p |-> player]
Becomes(s) == video' = s.v /\ player' = s.p

Within(time, e) == IF time < End[e] THEN time ELSE End[e]
Usable(s, e) == s.v[e].loaded

(* get time()                                                              *)
Time(s) ==
    IF s.p.target # None THEN s.p.target
    ELSE IF Usable(s, "leader") THEN s.v["leader"].at ELSE s.p.resumeAt

Moved(s, e, time) ==
    IF s.v[e].at = time THEN s ELSE [s EXCEPT !.v[e].at = time, !.v[e].seeking = TRUE]

(* While a video seeks, only the latest target is kept.                    *)
SeekElementBug(s, e, time) ==       \* what was pending is not outdated by a new seek
    IF s.v[e].seeking THEN [s EXCEPT !.p.pending[e] = time]
    ELSE Moved(s, e, time)

SeekElement(s, e, time) ==
    IF s.v[e].seeking THEN [s EXCEPT !.p.pending[e] = time]
    ELSE Moved([s EXCEPT !.p.pending[e] = None], e, time)

SeekLeader(s, time) ==
    LET sought == SeekElement([s EXCEPT !.p.target = time], "leader", time)
    IN  IF sought.v["leader"].seeking \/ sought.p.pending["leader"] # None THEN sought
        ELSE [sought EXCEPT !.p.target = None]

Seek(s, time) ==
    IF ~Usable(s, "leader") THEN [s EXCEPT !.p.resumeAt = time]
    ELSE LET sought == SeekLeader(s, time) IN
         IF Usable(s, "follower")
         THEN SeekElement(sought, "follower", Within(time, "follower"))
         ELSE sought

AlignFollower(s) ==
    LET time == Within(Time(s), "follower") IN
    IF /\ Usable(s, "follower") /\ Usable(s, "leader")
       /\ s.v["follower"].at # time \/ s.p.pending["follower"] # None
    THEN SeekElement(s, "follower", time)
    ELSE s

-----------------------------------------------------------------------------
(* "seeked": on to what was asked for since, if it is elsewhere.           *)
OnSeeked(s, e) ==
    LET time == s.p.pending[e]
        done == [s EXCEPT !.p.pending[e] = None]
    IN  IF time # None /\ s.v[e].at # time THEN Moved(done, e, time)
        ELSE IF e = "leader" THEN [done EXCEPT !.p.target = None] ELSE done

(* attach(): once loaded, the leader goes where users are, the follower to *)
(* the leader.                                                             *)
OnLoaded(s, e) ==
    IF e = "leader" /\ s.v[e].at # s.p.resumeAt THEN Seek(s, s.p.resumeAt) ELSE AlignFollower(s)

Deliver(e) ==
    /\ events[e] # <<>>
    /\ events' = [events EXCEPT ![e] = Tail(@)]
    /\ Becomes(IF Head(events[e]) = "loaded" THEN OnLoaded(Now, e) ELSE OnSeeked(Now, e))
    /\ UNCHANGED <<asked, actions>>

(* Users scrub, except between the loading of the leader and its event:    *)
(* the position it starts from, handled then, would win.                   *)
UserSeeks ==
    \E time \in Frames :
        /\ actions < MaxActions /\ actions' = actions + 1
        /\ \A i \in DOMAIN events["leader"] : events["leader"][i] # "loaded"
        /\ Becomes(Seek(Now, time))
        /\ asked' = time
        /\ UNCHANGED events

(* The browser: the videos load, and end their seeks.                      *)
Fires(e, event) ==
    /\ events' = [events EXCEPT ![e] = Append(@, event)]
    /\ UNCHANGED <<player, asked, actions>>

Load(e) ==
    /\ ~video[e].loaded
    /\ video' = [video EXCEPT ![e].loaded = TRUE]
    /\ Fires(e, "loaded")

SeekEnds(e) ==
    /\ video[e].seeking
    /\ video' = [video EXCEPT ![e].seeking = FALSE]
    /\ Fires(e, "seeked")

Next ==
    \/ UserSeeks
    \/ \E e \in Elements : Load(e) \/ SeekEnds(e) \/ Deliver(e)

Spec == Init /\ [][Next]_vars

-----------------------------------------------------------------------------
Settled ==
    \A e \in Elements : events[e] = <<>> /\ ~video[e].seeking /\ video[e].loaded

(* Once both videos settled, they show the same frame, the one users asked *)
(* for last, whatever seeks and events were under way when they did, and   *)
(* the timeline shows it (seek, seekElement, onSeeked, alignFollower).     *)
SameFrameWhenSettled ==
    Settled =>
        /\ player.target = None /\ \A e \in Elements : player.pending[e] = None
        /\ video["leader"].at = asked
        /\ video["follower"].at = Within(asked, "follower")
=============================================================================
