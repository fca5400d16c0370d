------------------------ MODULE MCExecutionProtocol -------------------------
(* Small instances of ExecutionProtocol for TLC. *)
EXTENDS ExecutionProtocol, TLC

\* The one-shot architect, a repair with its diagnosis, and a final review
\* with its packet preparation and a second round.
MCRun == <<<<"plan">>, <<"diagnose", "repair">>,
           <<"prepare_packet", "final_review", "final_review">>>>

Symmetry == Permutations(Profiles)
=============================================================================
