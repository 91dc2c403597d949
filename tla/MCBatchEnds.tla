---------------------------- MODULE MCBatchEnds ----------------------------
(* A pipeline whose first run starts another one. *)
EXTENDS BatchEnds

MCRuns == {"step", "other", "nested"}
MCStartedBy == [r \in MCRuns |-> IF r = "nested" THEN "step" ELSE "cli"]
=============================================================================
