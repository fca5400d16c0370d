--------------------------- MODULE MCWorkflowRun ---------------------------
(* Small workflows in the shape of those under WORKFLOWS/.                 *)
EXTENDS WorkflowRun

Edge(from, label, to, kind, when) ==
  [id |-> <<from, label>>, to |-> to, kind |-> kind, when |-> when]

MCNode(n, type, deps, mode, edges) ==
  [id |-> n, type |-> type, deps |-> deps, mode |-> mode, edges |-> edges,
   on_pass |-> NoNode, on_fail |-> NoNode, origin |-> NoNode, policy |-> "none",
   expected |-> {}, files |-> {}, reads |-> {}, branch |-> FALSE]

A == <<"A">>
B == <<"B">>
C == <<"C">>
D == <<"D">>
R == <<"R">>
M == <<"M">>
G == <<"G">>
OnVerdict(v) == [verdict |-> v]
Go(from, to) == <<Edge(from, "go", to, "CONTINUE", Always)>>
Both(from, x, y) == <<Edge(from, "x", x, "CONTINUE", [outcome |-> "PASS"]),
                      Edge(from, "y", y, "CONTINUE", [outcome |-> "PASS"]),
                      Edge(from, "failed", G, "FALLBACK", [outcome |-> "FAIL"])>>
Gate == MCNode(G, "HUMAN_GATE", {}, "FIRST_MATCH", <<>>)

\* MERGE_SLICE_V1: a check fans out to two branches that a merge joins.
Slice(policy, filesOfC) ==
  [nodes |->
     (A :> MCNode(A, "MACHINE_GATE", {}, "ALL_MATCHES", Both(A, B, C)) @@
      B :> [MCNode(B, "IMPLEMENT", {A}, "FIRST_MATCH", Go(B, M))
              EXCEPT !.files = {"f1"}, !.branch = TRUE] @@
      C :> [MCNode(C, "IMPLEMENT", {A}, "FIRST_MATCH", Go(C, M))
              EXCEPT !.files = filesOfC, !.branch = TRUE] @@
      M :> [MCNode(M, "MERGE", {}, "FIRST_MATCH", Go(M, G))
              EXCEPT !.policy = policy, !.expected = {<<B, "go">>, <<C, "go">>}] @@
      G :> Gate),
   start |-> A, maxNodes |-> 6, maxRepairs |-> 1, maxCalls |-> 3, workers |-> 2]

\* MERGE_SLICE_REPAIR_V1: a review that may need a repair, beside a branch.
Repairing ==
  [nodes |->
     (A :> MCNode(A, "MACHINE_GATE", {}, "ALL_MATCHES", Both(A, B, C)) @@
      B :> [MCNode(B, "IMPLEMENT", {A}, "FIRST_MATCH", Go(B, M)) EXCEPT !.files = {"f1"}] @@
      C :> MCNode(C, "REVIEW", {A}, "FIRST_MATCH",
             <<Edge(C, "pass", G, "CONTINUE", OnVerdict("PASS")),
               Edge(C, "repair", R, "REPAIR", OnVerdict("REPAIR")),
               Edge(C, "blocked", G, "FALLBACK", OnVerdict("BLOCKED"))>>) @@
      R :> MCNode(R, "REPAIR", {}, "FIRST_MATCH", Go(R, M)) @@
      M :> [MCNode(M, "MERGE", {}, "FIRST_MATCH", Go(M, G))
              EXCEPT !.policy = "ALL_REQUIRED", !.expected = {<<B, "go">>, <<R, "go">>}] @@
      G :> Gate),
   start |-> A, maxNodes |-> 7, maxRepairs |-> 1, maxCalls |-> 3, workers |-> 2]

\* Two reviewers in parallel, each with its repair, that meet in one node.
Rejoining ==
  [nodes |->
     (A :> MCNode(A, "MACHINE_GATE", {}, "ALL_MATCHES", Both(A, B, C)) @@
      B :> [MCNode(B, "REVIEW", {A}, "ALL_MATCHES",
             <<Edge(B, "on", D, "CONTINUE", OnVerdict("PASS")),
               Edge(B, "repair", R, "REPAIR", [min_severity |-> 3])>>) EXCEPT !.files = {"f1"}] @@
      C :> [MCNode(C, "REVIEW", {A}, "FIRST_MATCH",
             <<Edge(C, "repair", R, "REPAIR", [has_findings |-> TRUE]),
               Edge(C, "on", D, "CONTINUE", Always)>>) EXCEPT !.files = {"f2"}] @@
      R :> MCNode(R, "REPAIR", {}, "FIRST_MATCH", Go(R, D)) @@
      D :> [MCNode(D, "IMPLEMENT", {A}, "FIRST_MATCH", <<>>)
              EXCEPT !.on_pass = Stop, !.on_fail = HumanRequired, !.files = {"f3"}] @@
      G :> Gate),
   start |-> A, maxNodes |-> 7, maxRepairs |-> 1, maxCalls |-> 4, workers |-> 2]

MCWorkflows == [all |-> Slice("ALL_REQUIRED", {"f2"}),
                clash |-> Slice("ALL_REQUIRED", {"f1", "f2"}),
                any |-> Slice("ANY_COMPLETED", {"f2"}),
                repairing |-> Repairing, rejoining |-> Rejoining]
MCResults == {Passed, [Failed EXCEPT !.findings = {"HIGH"}], [Failed EXCEPT !.outcome = "BLOCKED"]}
=============================================================================
