----------------------------- MODULE MCJobQueue -----------------------------
(* Small instances of JobQueue.  Workers are interchangeable, and so are requests and, when *)
(* no kind is interactive or concurrent, kinds: the run that checks no liveness uses it.     *)
EXTENDS JobQueue, TLC

Symmetry == Permutations(Workers) \cup Permutations(Admins) \cup Permutations(Kinds)
=============================================================================
