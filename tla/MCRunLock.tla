----------------------------- MODULE MCRunLock ------------------------------
(* Instances of RunLock for TLC.                                            *)
EXTENDS RunLock, TLC

\* Controllers and PIDs are interchangeable.
Symmetry == Permutations(Agents) \cup Permutations(Pids)
=============================================================================
