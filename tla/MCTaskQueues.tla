---------------------------- MODULE MCTaskQueues ----------------------------
(* An instance of TaskQueues for TLC.                                      *)
EXTENDS TaskQueues

MCOrder == <<"q1", "q2">>
MCQueueOf == [t \in Tasks |-> IF t = "t3" THEN "q2" ELSE "q1"]
MCBacklog == [q \in {"q1", "q2"} |-> IF q = "q1" THEN <<"t1", "t2">> ELSE <<>>]
\* The first tasks of the two queues share a worktree; the third task has none.
MCWorktree == [t \in Tasks |-> IF t = "t2" THEN "" ELSE "shared"]
MCAutoContinue == [q \in {"q1", "q2"} |-> TRUE]
=============================================================================
