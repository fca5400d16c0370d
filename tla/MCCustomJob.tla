---------------------------- MODULE MCCustomJob ----------------------------
(* CustomJob on five small jobs.                                            *)
EXTENDS CustomJob, TLC

Shape(type, program, calls, approval, selects) ==
    [type |-> type, program |-> program, calls |-> calls, approval |-> approval, selects |-> selects]

MCShapes == {
    Shape("MULTI_SUBTASK", <<"SUBTASK", "COMMIT", "REVIEW">>, 4, "NONE", TRUE),
    Shape("SINGLE_IMPLEMENTATION", <<"IMPLEMENT", "REVIEW">>, 4, "NONE", TRUE),
    Shape("MULTI_SUBTASK", <<"SUBTASK", "GATE", "COMMIT", "SUBTASK", "COMMIT", "REVIEW">>, 2, "NONE", FALSE),
    Shape("SINGLE_IMPLEMENTATION", <<"PLAN", "IMPLEMENT", "REVIEW">>, 3, "HUMAN_APPROVAL", FALSE),
    Shape("MULTI_STAGE", <<"PLAN", "STAGES">>, 2, "AUTO_ACCEPT_BOUNDED", FALSE)}

MCWriters == Clis \cup {Runner}
MCEvents == JobEvents
Symmetry == Permutations(Clis)
============================================================================
