------------------------ MODULE MCWorkspaceRecovery ------------------------
(* WorkspaceRecovery on a small instance; only safety is checked under       *)
(* symmetry.                                                                 *)
EXTENDS WorkspaceRecovery, TLC

Symmetry == Permutations(Runs) \cup Permutations(Bridges) \cup Permutations(Paths)
=============================================================================
