------------------------------ MODULE MCWebApp ------------------------------
(* The web app's components, one or the other: they share nothing, so that *)
(* each is seen in all its states.  Fewer initial states stand for the     *)
(* others of AppInit.                                                      *)
EXTENDS WebApp

MCEnd == [e \in {"leader", "follower"} |-> IF e = "leader" THEN 2 ELSE 1]

VARIABLE part

MCInit ==
    /\ part \in Parts
    /\ Init /\ server["theme"] # Foreign /\ server["emails"] = Absent /\ local["theme"] = "v"
    /\ part # "prefs" => server = Nothing /\ local["emails"] = Default
    /\ Logs!Init
    /\ Subs!Init /\ (part # "subs" => lsf = TRUE /\ status = "submitting")
    /\ Seeks!Init
    /\ Refs!Init /\ (part # "refs" => url.ref.label = Refs!NoLabel /\ url.ref.color = -1)
    /\ Pixels!Init
    /\ Ints!Init /\ commit = "c1"
    /\ Stars!Init /\ saved["a"].label = "old"
    /\ Drafts!Init /\ batches = "old"

MCNext == StepOf(part) /\ UNCHANGED part

(* Where a component does not run, its actions are not asked to.           *)
Fairness ==
    /\ WF_tail(part = "logs" /\ Logs!LiveChanges) /\ WF_tail(part = "logs" /\ Logs!Retry)
    /\ WF_tail(part = "logs" /\ Logs!Poll) /\ WF_tail(part = "logs" /\ Logs!ServeFirst)
    /\ WF_tail(part = "logs" /\ Logs!FirstArrives) /\ WF_tail(part = "logs" /\ Logs!FirstFails)
    /\ WF_tail(part = "logs" /\ Logs!ServeMore) /\ WF_tail(part = "logs" /\ Logs!MoreArrives)
    /\ WF_tail(part = "logs" /\ Logs!NothingMore) /\ WF_tail(part = "logs" /\ Logs!MoreFails)
    /\ WF_subs(part = "subs" /\ Subs!ReadLog) /\ WF_subs(part = "subs" /\ Subs!ReadReport)
    /\ WF_subs(part = "subs" /\ Subs!Checked) /\ WF_subs(part = "subs" /\ Subs!CheckAgain)
MCSpec == MCInit /\ [][MCNext]_<<part, app>> /\ Fairness
=============================================================================
