-------------------------- MODULE RoutingContract --------------------------
(***************************************************************************)
(* routing_contract.py: which edges of a node a settled result selects,    *)
(* how an arrival is classified, what a merge waits for and what a re-run  *)
(* of a node replaces.  All of it is pure.                                 *)
(*                                                                         *)
(* A node id is a sequence: a declared node is <<name>>, and the k-th      *)
(* branch minted from a node is its id followed by k (the code writes the  *)
(* k-th letter).  A result is what project_result keeps of it:             *)
(*   [outcome, verdict ("none" when not stated), findings (severities)].   *)
(* An edge is [id, to, kind, when]; "when" is a record of predicates,      *)
(* all of which must hold, and <<>> holds of everything.                   *)
(***************************************************************************)
EXTENDS Naturals, Sequences, FiniteSets

Outcomes == {"PASS", "FAIL", "BLOCKED", "INVALID"}
Verdicts == {"PASS", "REPAIR", "BLOCKED"}
Severities == {"LOW", "MEDIUM", "HIGH", "CRITICAL", "UNKNOWN"}
NoNode == <<>>
Stop == <<"STOP">>
HumanRequired == <<"HUMAN_REQUIRED">>
LlmTypes == {"IMPLEMENT", "REVIEW", "REPAIR"}
GateTypes == {"HUMAN_GATE", "FINAL_GATE"}

Elements(s) == {s[i] : i \in DOMAIN s}

\* A list comprehension: the elements at these positions, in order.  (A
\* recursive function, because the provers know nothing of SelectSeq.)
Picked(s, keep) ==
  LET upto[k \in 0..Len(s)] ==
        IF k = 0 THEN <<>>
        ELSE IF k \in keep THEN Append(upto[k - 1], s[k]) ELSE upto[k - 1]
  IN upto[Len(s)]

-----------------------------------------------------------------------------
(* The projection of a result and the predicates over it *)

\* A verdict that is not stated follows from the outcome; INVALID has none.
DeriveVerdict(r) ==
  IF r.verdict # "none" THEN r.verdict
  ELSE CASE r.outcome = "FAIL"    -> "REPAIR"
         [] r.outcome = "INVALID" -> "none"
         [] OTHER                 -> r.outcome

\* An unknown severity ranks highest; no finding at all ranks 0.
SeverityRank(s) ==
  CASE s = "LOW" -> 1 [] s = "MEDIUM" -> 2 [] s = "HIGH" -> 3 [] OTHER -> 4

AtLeast(findings, rank) == \E s \in findings : SeverityRank(s) >= rank

Holds(key, when, r) ==
  CASE key = "verdict"      -> DeriveVerdict(r) = when.verdict
    [] key = "outcome"      -> r.outcome = when.outcome
    [] key = "has_findings" -> (r.findings # {}) = when.has_findings
    [] key = "min_severity" -> AtLeast(r.findings, when.min_severity)

MatchCondition(when, r) == \A key \in DOMAIN when : Holds(key, when, r)

-----------------------------------------------------------------------------
(* Edges and the gate *)

Always == <<>>

\* A node that declares no edges has its two legacy transitions compiled.
DeclaresEdges(node) == node.edges # <<>>

Legacy(node, to, outcome) ==
  IF to = NoNode THEN <<>>
  ELSE <<[id |-> <<node.id, outcome>>, to |-> to, kind |-> "CONTINUE",
          when |-> [outcome |-> outcome]]>>

CompileEdges(node) ==
  IF DeclaresEdges(node) THEN node.edges
  ELSE Legacy(node, node.on_pass, "PASS") \o Legacy(node, node.on_fail, "FAIL")

Eligible(edge, r) == ~(DeriveVerdict(r) = "BLOCKED" /\ edge.kind = "CONTINUE")

\* evaluate_gate: every viable edge, or the first one only.
Selected(node, r) ==
  LET edges  == CompileEdges(node)
      viable == Picked(edges, {i \in DOMAIN edges :
                  MatchCondition(edges[i].when, r) /\ Eligible(edges[i], r)})
  IN IF node.mode = "FIRST_MATCH" /\ viable # <<>> THEN <<Head(viable)>> ELSE viable

\* The ids of the edges it holds back.
Held(node, r) ==
  {e.id : e \in Elements(CompileEdges(node)) \ Elements(Selected(node, r))}

\* mint_branch_node: the first free branch of the origin, and its node.
NextBranch(origin, known) ==
  Append(origin, CHOOSE k \in 1..(Cardinality(known) + 1) :
                   /\ Append(origin, k) \notin known
                   /\ \A j \in 1..(k - 1) : Append(origin, j) \in known)

MintBranch(template, origin, known) ==
  [template EXCEPT !.id = NextBranch(origin, known), !.deps = {origin}, !.origin = origin]

-----------------------------------------------------------------------------
(* Arrivals: [edge, from, status], in the order in which they came *)

Accepted(rows) == {a \in Elements(rows) : a.status = "ACCEPTED"}

ClassifyOrdinary(rows) == IF Accepted(rows) = {} THEN "ACCEPTED" ELSE "DUPLICATE"

ClassifySlot(rows, edge, from) ==
  LET slot == {a \in Accepted(rows) : a.edge = edge}
  IN CASE slot = {}                          -> "ACCEPTED"
       [] \E a \in slot : a.from = from      -> "DUPLICATE"
       [] OTHER                              -> "STALE_LINEAGE"

\* What can be reached from a set inside another, in as many steps as it has.
Closure(start, next, within) ==
  LET reached[k \in 0..Cardinality(within)] ==
        IF k = 0 THEN start \cap within
        ELSE reached[k - 1] \cup (within \cap UNION {next[m] : m \in reached[k - 1]})
  IN reached[Cardinality(within)]

\* ancestry_of: a node with every accepted arrival's source, transitively.
Sources(rows) == {a.from : a \in Accepted(rows)}
Ancestry(n, arrivals) ==
  LET within  == DOMAIN arrivals \cup {n} \cup UNION {Sources(arrivals[m]) : m \in DOMAIN arrivals}
      parents == [m \in within |-> IF m \in DOMAIN arrivals THEN Sources(arrivals[m]) ELSE {}]
  IN Closure({n}, parents, within)

-----------------------------------------------------------------------------
(* Merges and the downstream cone *)

\* Mutant: one arrival is enough for any merge.
ReadyOnFirst(merge, rows) == Accepted(rows) # {}
MergeReady(merge, rows) ==
  IF merge.policy = "ALL_REQUIRED"
  THEN merge.expected \subseteq {a.edge : a \in Accepted(rows)}
  ELSE Accepted(rows) # {}

\* merge_selected_edges: the arrivals that feed the merge; the first accepted
\* one alone under ANY_COMPLETED.
MergeInputs(merge, rows) ==
  IF merge.policy = "ALL_REQUIRED"
  THEN {a \in Accepted(rows) : a.edge \in merge.expected}
  ELSE {rows[i] : i \in {i \in DOMAIN rows :
          /\ rows[i].status = "ACCEPTED"
          /\ \A j \in 1..(i - 1) : rows[j].status # "ACCEPTED"}}

TargetsOf(declared) == [n \in DOMAIN declared |-> {e.to : e \in Elements(CompileEdges(declared[n]))}]

\* Mutant: the branches minted from the cone are not part of it.
ConeDeclared(declared, minted, start) ==
  Closure({start}, TargetsOf(declared), DOMAIN declared)

\* downstream_cone: the declared nodes that can be reached, and the branches
\* minted from one of the cone.
Cone(declared, minted, start) ==
  LET reached  == Closure({start}, TargetsOf(declared), DOMAIN declared)
      within   == reached \cup DOMAIN minted
      branches == [b \in within |-> {m \in DOMAIN minted : minted[m].origin = b}]
  IN Closure(reached, branches, within)
=============================================================================
