------------------------------- MODULE LogTail -------------------------------
(***************************************************************************)
(* Following the log of a run in the browser, like tail -f                 *)
(* (src/webapp/src/components/logs/useLogTail.js and fetchRange.js): the   *)
(* end of the file first, then what was added since, by HTTP ranges.       *)
(*                                                                         *)
(* A byte is <<incarnation of the file, position>>: redoing a run replaces *)
(* its log.  What the page knows of the run is late: it polls, retries and *)
(* asks for the last bytes according to `live`, while the run goes on.     *)
(***************************************************************************)
EXTENDS Integers, SequencesExt

CONSTANTS
    InitialBytes,   \* INITIAL_BYTES: how much of the end is read first
    Newlines,       \* the positions that hold the end of a line
    MaxLength,      \* bound: the bytes of a file
    MaxFiles,       \* bound: the incarnations of the log
    MaxFailures     \* bound: the requests that fail though the file exists

LogAssumption ==
    /\ InitialBytes \in Nat \ {0} /\ MaxLength \in Nat /\ MaxFiles \in Nat \ {0} /\ MaxFailures \in Nat
    /\ Newlines \subseteq Nat

VARIABLES
    file,       \* the log: its incarnation, its length, whether it exists
    running,    \* the run
    live,       \* whether the page thinks so
    all,        \* users asked for the whole file
    log,        \* what was read; fresh: it answers the current question
    cursor,     \* how far: the end of what we have
    first,      \* the first read: what the server answered, {} until then
    more,       \* the reads of what was added: from where, and the answers
    poll,       \* the polling loop: "off", "timer" or "reading"
    lost,       \* how many requests were
    outgrown    \* history: a redone log was longer than what had been read of the one before

vars == <<file, running, live, all, log, cursor, first, more, poll, lost, outgrown>>

Bytes(inc, from, to) == [i \in 1..(to - from) |-> <<inc, from + i - 1>>]
Empty == [status |-> "idle", text |-> <<>>, start |-> 0, end |-> 0, fresh |-> FALSE]

Answers == [status : {200, 206, 416, 404}, inc : 1..MaxFiles,
            start : 0..MaxLength, end : 0..MaxLength, total : 0..MaxLength]
TextBytes == (1..MaxFiles) \X (0..MaxLength)

TypeOK ==
    /\ file \in [inc : 1..MaxFiles, len : 0..MaxLength, exists : BOOLEAN]
    /\ running \in BOOLEAN /\ live \in BOOLEAN /\ all \in BOOLEAN
    /\ log.status \in {"idle", "loaded", "error"} /\ log.text \in Seq(TextBytes)
    /\ log.start \in 0..MaxLength /\ log.end \in 0..MaxLength /\ log.fresh \in BOOLEAN
    /\ cursor \in 0..MaxLength
    /\ first \subseteq Answers
    /\ more \in Seq([from : 0..MaxLength, got : SUBSET Answers])
    /\ poll \in {"off", "timer", "reading"}
    /\ lost \in 0..MaxFailures /\ outgrown \in BOOLEAN

(* The server's answers, from nginx: part of the file, all of it when it   *)
(* ignores ranges, or neither.                                             *)
Answer(status, start, end) ==
    [status |-> status, inc |-> file.inc, start |-> start, end |-> end, total |-> file.len]

Whole == Answer(200, 0, file.len)
Missing == Answer(404, 0, 0)

FromEnd(size) == Answer(206, IF file.len > size THEN file.len - size ELSE 0, file.len)

From(start) ==
    IF start < file.len THEN Answer(206, start, file.len) ELSE Answer(416, 0, 0)

-----------------------------------------------------------------------------
(* An answer to another question only stands in until it comes.            *)
IsLoaded(l) == l.fresh /\ l.status = "loaded"

(* The first line is likely cut: it is not shown.                          *)
FirstText(a) ==
    LET ends == {p \in Newlines : a.start <= p /\ p < a.end} IN
    IF a.start = 0 THEN Bytes(a.inc, 0, a.end)
    ELSE IF ends = {} THEN <<>>
    ELSE Bytes(a.inc, 1 + (CHOOSE p \in ends : \A q \in ends : p <= q), a.end)

Init ==
    /\ file = [inc |-> 1, len |-> 0, exists |-> FALSE]
    /\ running = TRUE /\ live = TRUE /\ all = FALSE
    /\ log = Empty /\ cursor = 0
    /\ first = {} /\ more = <<>> /\ poll = "off" /\ lost = 0
    /\ outgrown = FALSE

(* Effects: the loop runs while `live` and loaded, from a timer ...        *)
Loop(loaded, isLive) ==
    poll' = IF ~(loaded /\ isLive) THEN "off"
            ELSE IF IsLoaded(log) /\ live THEN poll ELSE "timer"

(* readMore(), one at a time ...                                           *)
ReadMoreBug ==                          \* current.busy is not looked at
    more' = Append(more, [from |-> cursor, got |-> {}])

ReadMore ==
    more' = IF more = <<>> THEN <<[from |-> cursor, got |-> {}]>> ELSE more

(* ... and another question aborts what is under way.                      *)
AskAgain(whole) ==
    /\ all' = whole
    /\ log' = [log EXCEPT !.fresh = FALSE]
    /\ cursor' = 0 /\ first' = {} /\ more' = <<>> /\ poll' = "off"

-----------------------------------------------------------------------------
(* How far the page read, or is about to have read, and of which file.     *)
ReadEnds ==
    (IF log.fresh /\ log.text # <<>> THEN {<<Last(log.text)[1], cursor>>} ELSE {})
    \cup {<<a.inc, a.end>> :
              a \in {b \in first \cup UNION {more[i].got : i \in DOMAIN more} : b.end > 0}}

(* The run writes its log, ends, and is redone: its log starts again.      *)
Write ==
    /\ running /\ file.len < MaxLength
    /\ file' = IF file.exists THEN [file EXCEPT !.len = @ + 1] ELSE [file EXCEPT !.exists = TRUE]
    /\ outgrown' = (outgrown \/ \E e \in ReadEnds : e[1] # file.inc /\ file'.len > e[2])
    /\ UNCHANGED <<running, live, all, log, cursor, first, more, poll, lost>>

RunEnds ==
    /\ running
    /\ running' = FALSE
    /\ UNCHANGED <<file, live, all, log, cursor, first, more, poll, lost, outgrown>>

RunIsRedone ==
    /\ file.inc < MaxFiles
    /\ running' = TRUE
    /\ \E exists \in BOOLEAN : file' = [inc |-> file.inc + 1, len |-> 0, exists |-> exists]
    /\ UNCHANGED <<live, all, log, cursor, first, more, poll, lost, outgrown>>

(* The page hears of it.  When the run ends, we read what was written      *)
(* since the last poll, unless a read is under way.                        *)
LiveChanges ==
    /\ live # running
    /\ live' = running
    /\ Loop(IsLoaded(log), running)
    /\ IF IsLoaded(log) /\ ~running THEN ReadMore ELSE UNCHANGED more
    /\ UNCHANGED <<file, running, all, log, cursor, first, lost, outgrown>>

LoadAll ==
    /\ ~all
    /\ AskAgain(TRUE)
    /\ UNCHANGED <<file, running, live, lost, outgrown>>

(* While runs start, their log may not exist yet: another try, later.      *)
Retry ==
    /\ live /\ log.fresh /\ log.status = "error"
    /\ AskAgain(all)
    /\ UNCHANGED <<file, running, live, lost, outgrown>>

-----------------------------------------------------------------------------
(* The first read, at the server then in the page.                         *)
ServeFirst ==
    /\ ~log.fresh /\ first = {}
    /\ \E a \in IF ~file.exists THEN {Missing}
                ELSE IF all \/ file.len = 0 THEN {Whole} ELSE {Whole, FromEnd(InitialBytes)} :
         first' = {a}
    /\ UNCHANGED <<file, running, live, all, log, cursor, more, poll, lost, outgrown>>

FirstArrives ==
    \E a \in first :
        /\ a.status # 404
        /\ log' = [status |-> "loaded", text |-> FirstText(a), start |-> a.start, end |-> a.end,
                   fresh |-> TRUE]
        /\ cursor' = a.end
        /\ first' = {}
        /\ Loop(TRUE, live)
        /\ UNCHANGED <<file, running, live, all, more, lost, outgrown>>

FirstFails ==
    /\ ~log.fresh
    /\ \/ (\E a \in first : a.status = 404) /\ UNCHANGED lost
       \/ lost < MaxFailures /\ lost' = lost + 1
    /\ log' = [Empty EXCEPT !.status = "error", !.fresh = TRUE]
    /\ first' = {}
    /\ UNCHANGED <<file, running, live, all, cursor, more, poll, outgrown>>

(* poll(): it waits for its read, and for the timer again.                 *)
Poll ==
    /\ poll = "timer"
    /\ ReadMore
    /\ poll' = IF more = <<>> THEN "reading" ELSE poll
    /\ UNCHANGED <<file, running, live, all, log, cursor, first, lost, outgrown>>

ServeMore ==
    \E i \in DOMAIN more :
        /\ more[i].got = {}
        /\ \E a \in IF file.exists THEN {From(more[i].from), Whole} ELSE {Missing} :
             more' = [more EXCEPT ![i].got = {a}]
        /\ UNCHANGED <<file, running, live, all, log, cursor, first, poll, lost, outgrown>>

Done(i) ==
    /\ more' = RemoveAt(more, i)
    /\ poll' = IF poll = "reading" THEN "timer" ELSE poll

(* 206: what was added.  200: everything again.                            *)
MoreArrives ==
    \E i \in DOMAIN more : \E a \in more[i].got :
        /\ a.status \in {200, 206}
        /\ log' = [log EXCEPT
                     !.text = IF a.status = 206 THEN @ \o Bytes(a.inc, a.start, a.end)
                              ELSE Bytes(a.inc, 0, a.end),
                     !.start = IF a.status = 206 THEN @ ELSE 0,
                     !.end = a.end]
        /\ cursor' = a.end
        /\ Done(i)
        /\ UNCHANGED <<file, running, live, all, first, lost, outgrown>>

(* 416: nothing new, or a file shorter than before: it was replaced.       *)
ReplacedBug(a) == FALSE                 \* 416 always means nothing new
Replaced(a) == a.total < cursor

NothingMore ==
    \E i \in DOMAIN more : \E a \in more[i].got :
        /\ a.status = 416
        /\ IF Replaced(a) THEN AskAgain(all)
           ELSE Done(i) /\ UNCHANGED <<all, log, cursor, first>>
        /\ UNCHANGED <<file, running, live, lost, outgrown>>

(* It will be read at the next poll.                                       *)
MoreFails ==
    \E i \in DOMAIN more :
        /\ \/ (\E a \in more[i].got : a.status = 404) /\ UNCHANGED lost
           \/ lost < MaxFailures /\ lost' = lost + 1
        /\ Done(i)
        /\ UNCHANGED <<file, running, live, all, log, cursor, first, outgrown>>

Next ==
    \/ Write \/ RunEnds \/ RunIsRedone \/ LiveChanges \/ LoadAll \/ Retry
    \/ ServeFirst \/ FirstArrives \/ FirstFails
    \/ Poll \/ ServeMore \/ MoreArrives \/ NothingMore \/ MoreFails

(* Timers fire, the server answers, and what it sends arrives: requests    *)
(* fail MaxFailures times at most.                                         *)
Fairness ==
    /\ WF_vars(LiveChanges) /\ WF_vars(Retry) /\ WF_vars(Poll)
    /\ WF_vars(ServeFirst) /\ WF_vars(FirstArrives) /\ WF_vars(FirstFails)
    /\ WF_vars(ServeMore) /\ WF_vars(MoreArrives) /\ WF_vars(NothingMore) /\ WF_vars(MoreFails)

Spec == Init /\ [][Next]_vars /\ Fairness

-----------------------------------------------------------------------------
(* What is shown is the bytes of one file, with no hole and nothing twice, *)
(* up to where the next read starts, whichever of the polls, the last      *)
(* read, a redone run and a new question the answers come between          *)
(* (readMore, current.busy, current.end) - unless a redone log outgrew     *)
(* what had been read of the one before.  Even then, bytes of the old log  *)
(* never follow bytes of the new one.                                      *)
NoHoleNothingTwice ==
    /\ \A i \in 2..Len(log.text) :
          /\ log.text[i][2] = log.text[i - 1][2] + 1
          /\ log.text[i][1] >= log.text[i - 1][1]
          /\ outgrown \/ log.text[i][1] = log.text[i - 1][1]
    /\ log.text # <<>> => Last(log.text)[2] = log.end - 1
    /\ IsLoaded(log) => cursor = log.end

(* "[start, end[ are the bytes we have" of the log (useLogTail.js:17): of  *)
(* one file, since a file that is replaced is read again (:89).  Not so    *)
(* when the new one is longer than the cursor at the next poll.            *)
OneFileIsShown ==
    IsLoaded(log) => \A i \in 2..Len(log.text) : log.text[i][1] = log.text[i - 1][1]

(* A live log that stays in place is shown to its end, whatever the        *)
(* failures, and though it was missing or replaced by a shorter one before *)
(* (the polling and retry effects, and 416 in readMore).                   *)
LiveLogIsFollowed ==
    <>[](running /\ file.exists) => <>[](IsLoaded(log) /\ log.end = file.len)
=============================================================================
