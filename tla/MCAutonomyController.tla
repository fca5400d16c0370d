------------------------ MODULE MCAutonomyController ------------------------
(* Instances of AutonomyController for TLC: the roadmaps and the bounds.    *)
EXTENDS AutonomyController

\* The roadmap of a product run (build_mandate): the first step, and points
\* that depend on it; one of them is the standing item CONTINUE.
MCProduct  == [i \in Items |-> IF i = "STEP_1" THEN {} ELSE {"STEP_1"}]

\* Without chains the worktree is edited once from outside.
MCMaxEdits == [c \in BOOLEAN |-> IF c THEN 0 ELSE 1]
=============================================================================
