------------------------------ MODULE MCServer ------------------------------
(* The server's components, one or the other: they share nothing, so that  *)
(* each is seen in all its states.  The deletion has two batches, each on  *)
(* its page; one run was deleted before, another may have files left.      *)
EXTENDS Server, MCBatchEnds

MCOldRuns == {"a", "b", "c"}
MCCommitOf == [r \in MCOldRuns |-> IF r = "c" THEN 2 ELSE 1]

VARIABLE part

MCInit ==
    /\ part \in Parts
    /\ ServerInit
    /\ milestones \subseteq {1} /\ run["b"].deleted
    /\ run["c"] = [row |-> TRUE, deleted |-> TRUE, is_pending |-> FALSE, files |-> TRUE]
    /\ part = "ends" => mode = "both" /\ milestones = {} /\ run["a"] = run["c"] /\ run["b"] = run["c"]

MCNext == StepOf(part) /\ UNCHANGED part

MCSpec == MCInit /\ [][MCNext]_<<part, vars, deletions>>
=============================================================================
