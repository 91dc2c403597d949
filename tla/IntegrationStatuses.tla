------------------------- MODULE IntegrationStatuses -------------------------
(* The statuses of a commit's integrations - links, webhooks, CI jobs - in  *)
(* the sidebar (src/webapp/src/useIntegrationStatuses.js): builds are       *)
(* started, statuses are polled, both while users go from commit to commit; *)
(* those of the builds they started are kept in the browser, per commit,    *)
(* for the latest LS_MAX_COMMITS commits.                                   *)
EXTENDS Integers, FiniteSets, SequencesExt

CONSTANTS
    Commits,
    Builds,         \* the integrations that are polled once they were started
    Links,          \* those that are always polled
    LS_MAX_COMMITS,
    MaxRequests     \* bound: the requests under way

StatusesAssumption ==
    LS_MAX_COMMITS \in Nat \ {0} /\ MaxRequests \in Nat /\ Builds \cap Links = {}

VARIABLES
    commit,     \* the commit the page shows
    statuses,   \* and its integrations' statuses
    latest,     \* what polling and requests read: as of the last effect
    requests,   \* under way
    stored,     \* localStorage: statuses per commit,
    index       \* and which commits, the oldest first
vars == <<commit, statuses, latest, requests, stored, index>>

integrations == Builds \cup Links
Status == [loading : BOOLEAN, triggered : BOOLEAN, error : BOOLEAN]
Unknown == [loading |-> FALSE, triggered |-> FALSE, error |-> FALSE]
Nothing == [k \in integrations |-> Unknown]

TypeOK ==
    /\ commit \in Commits /\ statuses \in [integrations -> Status]
    /\ latest \in [integrations -> Status]
    /\ requests \in [integrations -> [trigger : 0..MaxRequests, poll : 0..MaxRequests]]
    /\ stored \in [Commits -> [integrations -> Status]]
    /\ index \in Seq(Commits) /\ IsInjective(index) /\ Len(index) <= LS_MAX_COMMITS
    /\ \A c \in Commits : stored[c] # Nothing => Contains(index, c)

LoadedBug(c) == stored[c]       \* as they were saved

(* loadIntegrationStatuses(): the requests of a page that was closed are    *)
(* gone.                                                                    *)
Loaded(c) == [k \in integrations |-> [stored[c][k] EXCEPT !.loading = FALSE]]

(* saveIntegrationStatuses(): the builds that were started; the commit, that *)
(* is listed once at most, moves last, and the oldest are forgotten.        *)
Cleaned(s) == [k \in integrations |-> IF s[k].triggered THEN s[k] ELSE Unknown]

SaveBug(c, s) ==         \* the commit is listed again
    IF Cleaned(s) = Nothing THEN stored' = [stored EXCEPT ![c] = Nothing] /\ UNCHANGED index
    ELSE LET listed == Append(index, c)
             forgotten == Len(listed) - LS_MAX_COMMITS IN
         /\ index' = SubSeq(listed, IF forgotten > 0 THEN forgotten + 1 ELSE 1, Len(listed))
         /\ stored' = [o \in Commits |-> IF o = c THEN Cleaned(s)
                                         ELSE IF \E i \in DOMAIN listed : i <= forgotten /\ listed[i] = o
                                         THEN Nothing ELSE stored[o]]

Save(c, s) ==
    IF Cleaned(s) = Nothing THEN stored' = [stored EXCEPT ![c] = Nothing] /\ UNCHANGED index
    ELSE LET listed == Append(RemoveFirst(index, c), c)
             forgotten == Len(listed) - LS_MAX_COMMITS IN
         /\ index' = SubSeq(listed, IF forgotten > 0 THEN forgotten + 1 ELSE 1, Len(listed))
         /\ stored' = [o \in Commits |-> IF o = c THEN Cleaned(s)
                                         ELSE IF \E i \in DOMAIN listed : i <= forgotten /\ listed[i] = o
                                         THEN Nothing ELSE stored[o]]

Init ==
    /\ commit \in Commits /\ statuses = Nothing /\ latest = Nothing
    /\ requests = [k \in integrations |-> [trigger |-> 0, poll |-> 0]]
    /\ stored = [c \in Commits |-> Nothing] /\ index = <<>>

InFlight(k) == requests[k].trigger + requests[k].poll

-----------------------------------------------------------------------------
(* The effects of a render: what is shown is saved, and read from then on.  *)
Effects ==
    /\ latest' = statuses /\ Save(commit, statuses)
    /\ UNCHANGED <<commit, statuses, requests>>

(* Another commit is shown, with the statuses it was left with.             *)
GoTo(c) ==
    /\ c # commit /\ commit' = c
    /\ statuses' = Loaded(c)
    /\ UNCHANGED <<latest, requests, stored, index>>

(* The page is loaded again.                                                *)
Reload ==
    /\ statuses' = Loaded(commit) /\ latest' = Loaded(commit)
    /\ requests' = [k \in integrations |-> [trigger |-> 0, poll |-> 0]]
    /\ UNCHANGED <<commit, stored, index>>

(* trigger(): a build is started.                                           *)
Trigger(k) ==
    /\ InFlight(k) < MaxRequests
    /\ requests' = [requests EXCEPT ![k].trigger = @ + 1]
    /\ statuses' = [statuses EXCEPT ![k] = [loading |-> TRUE, triggered |-> TRUE, error |-> FALSE]]
    /\ UNCHANGED <<commit, latest, stored, index>>

TriggerAnswered(k) ==
    /\ requests[k].trigger > 0
    /\ requests' = [requests EXCEPT ![k].trigger = @ - 1]
    /\ \E failed \in BOOLEAN :
          statuses' = [statuses EXCEPT ![k] = [loading |-> FALSE, triggered |-> ~failed, error |-> failed]]
    /\ UNCHANGED <<commit, latest, stored, index>>

(* update(): statuses are asked for, unless they are already.               *)
Poll(k) ==
    /\ ~latest[k].loading /\ (k \in Builds => latest[k].triggered)
    /\ InFlight(k) < MaxRequests
    /\ requests' = [requests EXCEPT ![k].poll = @ + 1]
    /\ statuses' = [statuses EXCEPT ![k].loading = TRUE]
    /\ UNCHANGED <<commit, latest, stored, index>>

PollAnswered(k) ==
    /\ requests[k].poll > 0
    /\ requests' = [requests EXCEPT ![k].poll = @ - 1]
    /\ \E failed \in BOOLEAN :
          statuses' = [statuses EXCEPT ![k] = [@ EXCEPT !.loading = FALSE, !.error = failed]]
    /\ UNCHANGED <<commit, latest, stored, index>>

Next ==
    \/ Effects \/ Reload
    \/ \E c \in Commits : GoTo(c)
    \/ \E k \in Builds : Trigger(k) \/ TriggerAnswered(k)
    \/ \E k \in integrations : Poll(k) \/ PollAnswered(k)

Spec == Init /\ [][Next]_vars

-----------------------------------------------------------------------------
(* A status that loads has a request under way, whose answer will say that  *)
(* it does not load anymore: else update() would never ask for it again. It *)
(* holds from commit to commit, and when the page is loaded again while its *)
(* saved statuses say that they load.                                       *)
NeverStuckLoading == \A k \in integrations : statuses[k].loading => InFlight(k) > 0
=============================================================================
