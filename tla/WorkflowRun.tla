---------------------------- MODULE WorkflowRun ----------------------------
(***************************************************************************)
(* workflow_runner.py: one workflow, its run and the runs that resume it.  *)
(*                                                                         *)
(* execute is one loop: harvest the workers that have finished, record and *)
(* route what they bring, dispatch what the frontier offers.  Between two  *)
(* of its steps workers finish, a cancellation is asked for, somebody      *)
(* moves the canonical checkout, or the process dies; the state is saved   *)
(* at the end of each step, so what survives is what the variables say.    *)
(*                                                                         *)
(* LLM workers are processes of their own, or threads of the runner when   *)
(* an in-memory adapter is active; a machine gate is always a thread.      *)
(* A MERGE node also copies the files of its branch worktrees into the     *)
(* run's worktree, guarded by a journal on disk.                           *)
(***************************************************************************)
EXTENDS RoutingContract, SequencesExt

CONSTANTS
  Workflows,       \* by name: [nodes, start, maxNodes, maxRepairs, maxCalls, workers]
  Results,         \* what a worker may bring back
  MaxRuns,         \* bound: the first run and the resumed ones
  MaxFaults,       \* bound: crashes, cancellations, failing files, time that ran out
  JournalMayStay,  \* may removing the merge journal fail unnoticed?
  ResumeAtMerge    \* may a run be resumed at a MERGE node?

\* What _validate_workflow makes sure of, as far as the runner relies on it.
Targets(nodes) == DOMAIN nodes \cup {Stop, HumanRequired}

NodeFields == {"id", "type", "deps", "mode", "edges", "on_pass", "on_fail", "origin",
               "policy", "expected", "files", "reads", "branch"}

ValidNode(node, nodes) ==
  /\ DOMAIN node = NodeFields
  /\ {node.on_pass, node.on_fail} \subseteq Targets(nodes) \cup {NoNode}
  /\ node.edges \in Seq(Elements(node.edges))
  /\ \A e \in Elements(node.edges) :
       /\ e.to \in Targets(nodes)
       /\ e.kind = "REPAIR" => e.to \in DOMAIN nodes /\ nodes[e.to].type = "REPAIR"

ValidWorkflow(w) ==
  /\ IsFiniteSet(DOMAIN w.nodes) /\ DOMAIN w.nodes \subseteq Seq(STRING) \ {NoNode}
  /\ w.start \in DOMAIN w.nodes
  /\ \A n \in DOMAIN w.nodes : w.nodes[n].id = n /\ ValidNode(w.nodes[n], w.nodes)

ASSUME WorkflowAssumption ==
  /\ MaxRuns \in Nat \ {0} /\ MaxFaults \in Nat
  /\ {JournalMayStay, ResumeAtMerge} \subseteq BOOLEAN
  /\ \A w \in DOMAIN Workflows : ValidWorkflow(Workflows[w])

VARIABLES
  flow,      \* the name of the workflow
  inMemory,  \* is the in-memory adapter active?
  minted,    \* routing.minted_nodes: the repair branches
  frontier,  \* state["frontier"]
  active,    \* active_workers, in order: [id, res]
  due,       \* finished_ids: the workers this pass of the loop harvests
  completed, \* completed_nodes with node_results: [id, type, res, cycle, here]
  arrivals,  \* routing.arrivals
  merges,    \* routing.merges: the status of each MERGE node
  cycle,     \* repair_cycle
  calls,     \* llm_calls
  status,    \* state["status"]
  pc,        \* "head", "record", "dispatch", "merge", or "off" without a runner
  cancel,    \* was the token asked to cancel?
  candidate, \* the candidate of the human gate
  merging,   \* the MERGE node in progress
  todo,      \* files the merge in progress has still to write
  journal,   \* .aaw_transaction_journal.json: its files and their backups
  tree,      \* the run whose version of a branch file the worktree holds
  sealed,    \* history: the worktree as the last completed merge left it
  runs,      \* how many runs there have been
  faults     \* how many faults

graphVars == <<flow, inMemory, minted>>
queueVars == <<frontier, active, due>>
routeVars == <<arrivals, merges>>
budgetVars == <<cycle, calls>>
mergeVars == <<merging, todo, journal, tree, sealed>>
vars == <<graphVars, queueVars, completed, routeVars, budgetVars, status, pc,
          cancel, candidate, mergeVars, runs, faults>>

Settled == {"BLOCKED", "INVALID", "WORKFLOW_LIMIT_REACHED", "WAITING_FOR_HUMAN",
            "READY_FOR_EXTERNAL_INTEGRATION", "REJECTED", "NO_ROUTE", "COMPLETED",
            "CANCELLED"}

Failed   == [outcome |-> "FAIL", verdict |-> "none", findings |-> {}]
Passed   == [Failed EXCEPT !.outcome = "PASS"]
Invalid  == [Failed EXCEPT !.outcome = "INVALID"]
Busy     == [Failed EXCEPT !.outcome = "busy"]
Raised   == [Failed EXCEPT !.outcome = "cancelled"]

Seed == <<"RESUME_SEED">>
NoJournal == [files |-> {}, before |-> <<>>]

\* The workflows as they were read and validated; TLC evaluates them once.
Loaded == Workflows
Flow == Loaded[flow]
Declared == DOMAIN Flow.nodes
Known == Declared \cup DOMAIN minted
Node(n) == IF n \in Declared THEN Flow.nodes[n] ELSE minted[n]
Merges == {n \in Declared : Flow.nodes[n].type = "MERGE"}
CompletedIds == {rec.id : rec \in Elements(completed)}
ActiveIds == {w.id : w \in Elements(active)}
BranchFiles == UNION {Flow.nodes[n].files : n \in {n \in Declared : Flow.nodes[n].branch}}
Rows(all, n) == IF n \in DOMAIN all THEN all[n] ELSE <<>>

TypeOK ==
  /\ flow \in DOMAIN Workflows
  /\ inMemory \in BOOLEAN /\ cancel \in BOOLEAN
  /\ Elements(frontier) \subseteq Known /\ ActiveIds \subseteq Known
  /\ Elements(due) \subseteq ActiveIds
  /\ CompletedIds \subseteq Known
  /\ DOMAIN arrivals \subseteq Known
  /\ merges \in [Merges -> {"WAITING", "READY", "MERGED", "BLOCKED"}]
  /\ {Len(active), cycle, calls} \subseteq Nat
  /\ status \in Settled \cup {"RUNNING"}
  /\ pc \in {"head", "record", "dispatch", "merge", "merged", "committed", "off"}
  /\ candidate \in {"none", "verified", "unverified"}
  /\ merging \in Merges \cup {NoNode} /\ todo \subseteq journal.files
  /\ {tree, sealed} \subseteq [BranchFiles -> 0..MaxRuns]
  /\ runs \in 1..MaxRuns /\ faults \in 0..MaxFaults

Init ==
  /\ flow \in DOMAIN Workflows /\ inMemory \in BOOLEAN
  /\ minted = <<>> /\ frontier = <<Flow.start>> /\ active = <<>> /\ due = <<>>
  /\ completed = <<>> /\ arrivals = <<>> /\ merges = [m \in Merges |-> "WAITING"]
  /\ cycle = 0 /\ calls = 0 /\ status = "RUNNING" /\ pc = "head" /\ cancel = FALSE
  /\ candidate = "none" /\ merging = NoNode /\ todo = {}
  /\ journal = NoJournal /\ tree = [f \in BranchFiles |-> 0] /\ sealed = tree
  /\ runs = 1 /\ faults = 0

-----------------------------------------------------------------------------
(* Routing a recorded result: what one decision does to frontier, arrivals, *)
(* merges and minted branches, and the status it leaves                     *)

WithArrival(s, n, row) ==
  [s EXCEPT !.arrivals = [m \in DOMAIN s.arrivals \cup {n} |->
     IF m = n THEN Append(Rows(s.arrivals, n), row) ELSE s.arrivals[m]]]

\* A REPAIR edge mints a branch of its template.
FollowRepair(s, node, e) ==
  LET known  == Declared \cup DOMAIN s.minted
      branch == MintBranch(Flow.nodes[e.to], node.id, known)
  IN IF Cardinality(known) >= Flow.maxNodes
     THEN [s EXCEPT !.status = "WORKFLOW_LIMIT_REACHED"]
     ELSE [WithArrival(s, branch.id, [edge |-> e.id, from |-> node.id, status |-> "ACCEPTED"])
             EXCEPT !.minted = [m \in DOMAIN s.minted \cup {branch.id} |->
                                  IF m = branch.id THEN branch ELSE s.minted[m]],
                    !.frontier = Append(s.frontier, branch.id)]

\* _record_merge_arrival: the merge is queued when its policy is satisfied.
FollowMerge(s, node, e) ==
  LET late == s.merges[e.to] \in {"READY", "MERGED"}
      slot == ClassifySlot(Rows(s.arrivals, e.to), e.id, node.id)
      row  == [edge |-> e.id, from |-> node.id,
               status |-> IF late /\ slot = "ACCEPTED" THEN "LATE" ELSE slot]
      t    == WithArrival(s, e.to, row)
  IN IF ~late /\ MergeReady(Flow.nodes[e.to], t.arrivals[e.to]) /\ s.merges[e.to] = "WAITING"
     THEN [t EXCEPT !.merges[e.to] = "READY", !.frontier = Append(s.frontier, e.to)]
     ELSE t

\* An ordinary target: not queued when it has completed or is queued already.
\* Whether a worker is at it is not asked.
Enter(s, node, e, done) ==
  LET t == WithArrival(s, e.to, [edge |-> e.id, from |-> node.id,
                                 status |-> ClassifyOrdinary(Rows(s.arrivals, e.to))])
  IN IF e.to \in done \cup Elements(s.frontier) THEN t
     ELSE [t EXCEPT !.frontier = Append(s.frontier, e.to)]

FollowEdge(s, node, e, done) ==
  IF s.status # "RUNNING" \/ e.to = Stop THEN s
  ELSE IF e.to = HumanRequired THEN [s EXCEPT !.status = "WORKFLOW_LIMIT_REACHED"]
  ELSE IF e.kind = "REPAIR" THEN FollowRepair(s, node, e)
  ELSE IF e.to \in Merges THEN FollowMerge(s, node, e)
  ELSE Enter(s, node, e, done)

\* A merge that waits for an edge this node has held back can never be ready,
\* unless a later repair may still take the edge.
Starved(s, node, r) ==
  {m \in Merges : /\ node.type # "REPAIR"
                  /\ s.merges[m] \notin {"MERGED", "BLOCKED"}
                  /\ Held(node, r) \cap Flow.nodes[m].expected # {}}

\* apply_gate_decision
Applied(s, node, r, done) ==
  IF Starved(s, node, r) # {}
  THEN [s EXCEPT !.merges[CHOOSE m \in Starved(s, node, r) : TRUE] = "BLOCKED",
                 !.status = "BLOCKED"]
  ELSE LET edges == Selected(node, r)
           after[k \in 0..Len(edges)] ==
             IF k = 0 THEN s
             ELSE LET t == after[k - 1] IN FollowEdge(t, node, edges[k], done)
       IN after[Len(edges)]

\* The first thing that _record_node_completion finds against routing a result.
StatusAfter(node, r, settledBefore) ==
  IF r.outcome = "INVALID" THEN "INVALID"
  ELSE IF r.outcome = "BLOCKED" /\ ~DeclaresEdges(node) THEN "BLOCKED"
  ELSE IF node.type \in GateTypes THEN "WAITING_FOR_HUMAN"
  ELSE IF settledBefore THEN "BLOCKED"
  ELSE IF Selected(node, r) = <<>> THEN "NO_ROUTE"
  ELSE "RUNNING"

\* Mutant: an artifact of an earlier decision is overwritten.
StatusOverwriting(node, r) == StatusAfter(node, r, FALSE)

\* The decision of a node that has settled before is an artifact that exists.
StatusOnRecord(node, r) ==
  StatusAfter(node, r, \E rec \in Elements(completed) : rec.id = node.id /\ rec.here)

\* _record_node_completion: append the record and, when it may be routed,
\* carry its gate decision out on what the run has routed so far.
Routed(s, node, r) ==
  IF StatusOnRecord(node, r) = "RUNNING"
  THEN Applied(s, node, r, CompletedIds \cup {node.id})
  ELSE [s EXCEPT !.status = StatusOnRecord(node, r)]

RecordCompletion(s, node, r) ==
  \E t \in {Routed(s, node, r)} :
    /\ completed' = Append(completed, [id |-> node.id, type |-> node.type, res |-> r,
                                       cycle |-> cycle, here |-> TRUE])
    /\ frontier' = t.frontier /\ arrivals' = t.arrivals
    /\ merges' = t.merges /\ minted' = t.minted /\ status' = t.status

RoutedSoFar == [frontier |-> frontier, arrivals |-> arrivals, merges |-> merges,
                minted |-> minted, status |-> "RUNNING"]

Fault == faults < MaxFaults /\ faults' = faults + 1

Goto(where) == pc' = IF status' = "RUNNING" THEN where ELSE "off"

StopWith(verdict) == status' = verdict /\ pc' = "off"

-----------------------------------------------------------------------------
(* The loop of execute *)

\* Mutant: at the end only the merges that were made ready are looked at.
UnmergedReady == {m \in Merges : merges[m] = "READY"}
Unmerged == {m \in Merges : merges[m] # "MERGED"}

\* The top of the loop: take a snapshot of the workers that have finished, or
\* end a run that has drained.  A merge that nothing made ready blocks it.
Harvest ==
  /\ pc = "head"
  /\ IF frontier = <<>> /\ active = <<>>
     THEN /\ UNCHANGED due
          /\ \/ Unmerged = {} /\ StopWith("COMPLETED") /\ UNCHANGED merges
             \/ \E m \in Unmerged :
                  merges' = [merges EXCEPT ![m] = "BLOCKED"] /\ StopWith("BLOCKED")
     ELSE /\ due' = LET done == Picked(active, {i \in DOMAIN active : active[i].res # Busy})
                    IN [i \in DOMAIN done |-> done[i].id]
          /\ pc' = "record"
          /\ UNCHANGED <<merges, status>>
  /\ UNCHANGED <<graphVars, frontier, active, completed, arrivals, budgetVars, cancel,
                 candidate, mergeVars, runs, faults>>

Without(id) == Picked(active, {i \in DOMAIN active : active[i].id # id})

\* A worker of the snapshot is collected; RunCancelled of a thread ends the run.
Record ==
  /\ pc = "record" /\ due # <<>>
  /\ LET worker == CHOOSE w \in Elements(active) : w.id = Head(due)
     IN /\ active' = Without(Head(due))
        /\ due' = Tail(due)
        /\ IF worker.res = Raised
           THEN /\ frontier' = <<>>
                /\ StopWith("CANCELLED")
                /\ UNCHANGED <<completed, arrivals, merges, minted>>
           ELSE /\ RecordCompletion(RoutedSoFar, Node(worker.id), worker.res)
                /\ Goto("record")
  /\ UNCHANGED <<flow, inMemory, budgetVars, cancel, candidate, mergeVars, runs, faults>>

\* A cancellation is looked for only when nothing runs and something is queued.
LookAround ==
  /\ pc = "record" /\ due = <<>>
  /\ IF cancel /\ active = <<>> /\ frontier # <<>>
     THEN StopWith("CANCELLED") /\ frontier' = <<>>
     ELSE pc' = "dispatch" /\ UNCHANGED <<status, frontier>>
  /\ UNCHANGED <<graphVars, active, due, completed, routeVars, budgetVars, cancel,
                 candidate, mergeVars, runs, faults>>

\* assert_main_unchanged finds the canonical checkout moved; a result that was
\* about to be recorded is lost.
MainMoved ==
  /\ pc \in {"head", "record"} /\ Fault
  /\ StopWith("BLOCKED")
  /\ active' = IF pc = "record" /\ due # <<>> THEN Without(Head(due)) ELSE active
  /\ due' = <<>>
  /\ UNCHANGED <<graphVars, frontier, completed, routeVars, budgetVars, cancel,
                 candidate, mergeVars, runs>>

-----------------------------------------------------------------------------
(* Dispatch *)

Exclusive(n) == Node(n).type \in GateTypes \cup {"MERGE"}
Unmet(n) == Node(n).deps \ CompletedIds

\* _nodes_conflict: a file that one writes and the other reads or writes, or
\* two implementers neither of which names its files or has a branch.
Conflict(a, b) ==
  \/ a.files \cap (b.files \cup b.reads) # {}
  \/ b.files \cap a.reads # {}
  \/ /\ a.type \in LlmTypes /\ b.type \in LlmTypes
     /\ ~a.branch /\ ~b.branch /\ a.files = {} /\ b.files = {}

\* Mutant: an entry whose dependencies are unmet is skipped even when nothing
\* runs that could meet them.
SkippedForever(n) ==
  \/ Unmet(n) # {}
  \/ ~Exclusive(n) /\ \E w \in Elements(active) : Conflict(Node(n), Node(w.id))

\* An entry waits for what runs: for a dependency or for a file.
Skipped(n) ==
  /\ active # <<>>
  /\ \/ Unmet(n) # {}
     \/ ~Exclusive(n) /\ \E w \in Elements(active) : Conflict(Node(n), Node(w.id))

\* The position of the entry the loop over the frontier takes up, if any.
Turn == {i \in DOMAIN frontier : /\ Len(active) < Flow.workers
                                 /\ ~Skipped(frontier[i])
                                 /\ \A j \in 1..(i - 1) : Skipped(frontier[j])}

\* Nothing (more) to take up: merges and gates wait until nothing runs.
DispatchEnds ==
  /\ pc = "dispatch"
  /\ \A i \in Turn : Exclusive(frontier[i]) /\ active # <<>>
  /\ pc' = "head"
  /\ UNCHANGED <<graphVars, queueVars, completed, routeVars, budgetVars, status, cancel,
                 candidate, mergeVars, runs, faults>>

DispatchUnmet(i) ==
  /\ Unmet(frontier[i]) # {}
  /\ StopWith("INVALID")
  /\ UNCHANGED faults
  /\ UNCHANGED <<graphVars, queueVars, completed, routeVars, budgetVars, candidate, mergeVars>>

\* The worker starts busy; an LLM process that starts after a cancellation is
\* terminated at once.
Started(n) ==
  IF cancel /\ ~inMemory /\ Node(n).type # "MACHINE_GATE" THEN Failed ELSE Busy

\* enforce_limits, but for the wall time.
WithinLimits(n) ==
  /\ Node(n).type = "REPAIR" => cycle < Flow.maxRepairs
  /\ Node(n).type \in LlmTypes => calls < Flow.maxCalls

\* active_workers is a dictionary: a node that is dispatched while a worker is
\* at it gets a new worker in the place of the old one.
Enrolled(worker) ==
  IF worker.id \in ActiveIds
  THEN [i \in DOMAIN active |-> IF active[i].id = worker.id THEN worker ELSE active[i]]
  ELSE Append(active, worker)

DispatchWorker(i, inTime) ==
  LET n == frontier[i]
  IN /\ Unmet(n) = {} /\ ~Exclusive(n)
     /\ frontier' = RemoveAt(frontier, i)
     /\ IF inTime THEN UNCHANGED faults ELSE Fault
     /\ IF inTime /\ WithinLimits(n)
        THEN /\ active' = Enrolled([id |-> n, res |-> Started(n)])
             /\ cycle' = IF Node(n).type = "REPAIR" THEN cycle + 1 ELSE cycle
             /\ calls' = IF Node(n).type \in LlmTypes THEN calls + 1 ELSE calls
             /\ UNCHANGED <<status, pc>>
        ELSE StopWith("WORKFLOW_LIMIT_REACHED") /\ UNCHANGED <<active, budgetVars>>
     /\ UNCHANGED <<graphVars, due, completed, routeVars, candidate, mergeVars>>

\* The human gate: what the records say of the work, and the run waits.
ReviewsPassed ==
  LET of(type) == {rec \in Elements(completed) : rec.type = type}
      passed(set) == \A rec \in set : rec.res.outcome = "PASS"
  IN IF of("REVIEW") = {} THEN \A n \in Known : Node(n).type # "REVIEW"
     ELSE passed(of("REVIEW")) \/ (of("REPAIR") # {} /\ passed(of("REPAIR")))

ChecksPassed ==
  \A rec \in Elements(completed) : rec.type = "MACHINE_GATE" => rec.res.outcome = "PASS"

DispatchGate(i) ==
  /\ Unmet(frontier[i]) = {} /\ Node(frontier[i]).type \in GateTypes /\ active = <<>>
  /\ candidate' = IF ReviewsPassed /\ ChecksPassed THEN "verified" ELSE "unverified"
  /\ RecordCompletion([RoutedSoFar EXCEPT !.frontier = RemoveAt(frontier, i)],
                      Node(frontier[i]), Passed)
  /\ pc' = "off"
  /\ UNCHANGED <<flow, inMemory, active, due, budgetVars, mergeVars, faults>>

\* The branches a merge copies from: those it has selected whose worktree this
\* run made; and their files.
MergedBranches(m) ==
  {n \in {a.from : a \in MergeInputs(Flow.nodes[m], Rows(arrivals, m))} :
     Node(n).branch /\ \E rec \in Elements(completed) : rec.id = n /\ rec.here}
MergeFiles(m) == UNION {Node(n).files : n \in MergedBranches(m)}

DispatchMerge(i) ==
  /\ Unmet(frontier[i]) = {} /\ Node(frontier[i]).type = "MERGE" /\ active = <<>>
  /\ frontier' = RemoveAt(frontier, i)
  /\ merging' = frontier[i]
  /\ pc' = "merge"
  /\ UNCHANGED <<graphVars, active, due, completed, routeVars, budgetVars, status,
                 candidate, todo, journal, tree, sealed, faults>>

Dispatch ==
  /\ pc = "dispatch"
  /\ \E i \in Turn :
       \/ DispatchUnmet(i)
       \/ \E inTime \in BOOLEAN : DispatchWorker(i, inTime)
       \/ DispatchGate(i)
       \/ DispatchMerge(i)
  /\ UNCHANGED <<cancel, runs>>

-----------------------------------------------------------------------------
(* execute_merge and transactional_merge_branch_worktrees *)

\* Two branches brought the same file, perhaps with different contents.
Clash(m) ==
  \E a, b \in MergedBranches(m) : a # b /\ Node(a).files \cap Node(b).files # {}

MergeStops(verdict) ==
  /\ merges' = [merges EXCEPT ![merging] = "MERGED"]
  /\ merging' = NoNode
  /\ StopWith(verdict)
  /\ UNCHANGED <<graphVars, queueVars, completed, arrivals, budgetVars, cancel, candidate, runs>>

\* Nothing is touched when contents clash, when a journal is left from an
\* earlier merge, or when the journal cannot be written.
MergeRefused ==
  /\ pc = "merge" /\ todo = {} /\ MergeFiles(merging) # {}
  /\ \/ Clash(merging) /\ MergeStops("INVALID") /\ UNCHANGED faults
     \/ journal # NoJournal /\ MergeStops("BLOCKED") /\ UNCHANGED faults
     \/ journal = NoJournal /\ Fault /\ MergeStops("INVALID")
  /\ UNCHANGED <<todo, journal, tree, sealed>>

\* Mutant: the first file is written before the journal is.
MergePreparesLate ==
  /\ pc = "merge" /\ todo = {} /\ MergeFiles(merging) # {} /\ journal = NoJournal
  /\ \E f \in MergeFiles(merging) :
       /\ tree' = [tree EXCEPT ![f] = runs]
       /\ journal' = [files |-> MergeFiles(merging), before |-> tree']
       /\ todo' = MergeFiles(merging) \ {f}
  /\ UNCHANGED <<graphVars, queueVars, completed, routeVars, budgetVars, status, pc,
                 cancel, candidate, merging, sealed, runs, faults>>

\* The journal with the backups is on disk before the first file is touched.
MergePrepares ==
  /\ pc = "merge" /\ todo = {} /\ MergeFiles(merging) # {} /\ journal = NoJournal
  /\ todo' = MergeFiles(merging)
  /\ journal' = [files |-> todo', before |-> tree]
  /\ UNCHANGED <<graphVars, queueVars, completed, routeVars, budgetVars, status, pc,
                 cancel, candidate, merging, tree, sealed, runs, faults>>

MergeWrites ==
  /\ pc = "merge"
  /\ \E f \in todo :
       /\ tree' = [tree EXCEPT ![f] = runs]
       /\ todo' = todo \ {f}
       /\ IF todo' = {} THEN pc' = "merged" ELSE UNCHANGED pc
  /\ UNCHANGED <<graphVars, queueVars, completed, routeVars, budgetVars, status,
                 cancel, candidate, merging, journal, sealed, runs, faults>>

Restored(files) == [f \in DOMAIN tree |-> IF f \in files THEN journal.before[f] ELSE tree[f]]

\* A write fails: everything is rolled back and the journal removed, or the
\* rollback fails too and the journal stays.
MergeFails ==
  /\ pc = "merge" /\ todo # {} /\ Fault
  /\ \E files \in SUBSET journal.files :
       /\ tree' = Restored(files)
       /\ journal' = IF files = journal.files THEN NoJournal ELSE journal
  /\ todo' = {}
  /\ MergeStops("INVALID")
  /\ UNCHANGED sealed

\* Every file is written: the journal is removed ...
MergeCommits ==
  /\ pc = "merged"
  /\ journal' = NoJournal \/ (JournalMayStay /\ journal' = journal)
  /\ sealed' = tree
  /\ pc' = "committed"
  /\ UNCHANGED <<graphVars, queueVars, completed, routeVars, budgetVars, status,
                 cancel, candidate, merging, todo, tree, runs, faults>>

\* ... and only then the merge recorded and its edges followed.
MergeCompletes ==
  /\ \/ pc = "committed"
     \/ pc = "merge" /\ todo = {} /\ MergeFiles(merging) = {}
  /\ RecordCompletion([RoutedSoFar EXCEPT !.merges[merging] = "MERGED"],
                      Node(merging), Passed)
  /\ merging' = NoNode
  /\ Goto("head")
  /\ UNCHANGED <<flow, inMemory, active, due, budgetVars, cancel, candidate, todo, journal,
                 tree, sealed, runs, faults>>

Merge == MergeRefused \/ MergePrepares \/ MergeWrites \/ MergeCommits \/ MergeCompletes

-----------------------------------------------------------------------------
(* The workers and the world around the runner *)

IsThread(n) == inMemory \/ Node(n).type = "MACHINE_GATE"

\* What the worker of a node may come back with.  The process of a minted
\* branch does not know its node; the process of a node that has run before
\* cannot replace its result file; a thread may be cut short by a cancellation.
Answers(n) ==
  IF IsThread(n) THEN Results \cup (IF cancel THEN {Raised} ELSE {})
  ELSE IF n \notin Declared THEN {Invalid}
  ELSE LET before == {rec \in Elements(completed) : rec.id = n /\ rec.here}
       IN IF before # {} THEN {rec.res : rec \in before} ELSE Results

Finish ==
  /\ pc # "off"
  /\ \E i \in DOMAIN active :
       /\ active[i].res = Busy
       /\ \E r \in Answers(active[i].id) : active' = [active EXCEPT ![i].res = r]
  /\ UNCHANGED <<graphVars, frontier, due, completed, routeVars, budgetVars, status, pc,
                 cancel, candidate, mergeVars, runs, faults>>

\* token.request: every registered process is terminated and leaves no output.
Cancel ==
  /\ pc # "off" /\ ~cancel /\ Fault
  /\ cancel' = TRUE
  /\ active' = [i \in DOMAIN active |->
       IF active[i].res = Busy /\ ~IsThread(active[i].id)
       THEN [active[i] EXCEPT !.res = Failed] ELSE active[i]]
  /\ UNCHANGED <<graphVars, frontier, due, completed, routeVars, budgetVars, status, pc,
                 candidate, mergeVars, runs>>

\* The runner dies, or an exception nobody handles ends it.
Crash ==
  /\ pc # "off" /\ Fault
  /\ pc' = "off"
  /\ active' = <<>> /\ due' = <<>> /\ merging' = NoNode /\ todo' = {}
  /\ UNCHANGED <<graphVars, frontier, completed, routeVars, budgetVars, status, cancel,
                 candidate, journal, tree, sealed, runs>>

\* recover_run_in_place: an unsettled run is blocked and a merge that was cut
\* short is undone, completely or not at all.
Recover ==
  /\ pc = "off" /\ status = "RUNNING"
  /\ \/ /\ status' = "BLOCKED"
        /\ tree' = Restored(journal.files) /\ journal' = NoJournal
     \/ /\ \E files \in SUBSET journal.files : tree' = Restored(files)
        /\ UNCHANGED <<status, journal>>
  /\ UNCHANGED <<graphVars, queueVars, completed, routeVars, budgetVars, pc, cancel,
                 candidate, merging, todo, sealed, runs, faults>>

\* apply_human_verdict; LEAVE changes nothing the model tells apart.
Decide ==
  /\ pc = "off" /\ status = "WAITING_FOR_HUMAN"
  /\ status' \in {"READY_FOR_EXTERNAL_INTEGRATION", "REJECTED"}
  /\ UNCHANGED <<graphVars, queueVars, completed, routeVars, budgetVars, pc, cancel,
                 candidate, mergeVars, runs, faults>>

-----------------------------------------------------------------------------
(* Run from here: plan_resume and _seed_from_resume *)

ResetBy(t) == Cone(Flow.nodes, minted, t)

Inherited(reset) == Picked(completed, {i \in DOMAIN completed : completed[i].id \notin reset})

Highest(numbers) == CHOOSE k \in numbers \cup {0} : \A j \in numbers : j <= k

\* _seed_from_resume: a run that starts at t from what it inherits.
SeedFromResume(t, inherited) ==
  LET ids == {rec.id : rec \in Elements(inherited)} IN
  /\ Node(t).deps \subseteq ids
  /\ completed' = [i \in DOMAIN inherited |-> [inherited[i] EXCEPT !.here = FALSE]]
  /\ calls' = Cardinality({i \in DOMAIN inherited : inherited[i].type \in LlmTypes})
  /\ cycle' = Highest({rec.cycle : rec \in Elements(inherited)})
  /\ minted' = [m \in DOMAIN minted \cap ids |-> minted[m]]
  /\ arrivals' = [n \in {t} |-> [i \in DOMAIN inherited |->
       [edge |-> Seed, from |-> inherited[i].id, status |-> "ACCEPTED"]]]
  /\ frontier' = <<t>> /\ active' = <<>> /\ due' = <<>>
  /\ merges' = [m \in Merges |-> "WAITING"]
  /\ status' = "RUNNING" /\ pc' = "head" /\ cancel' = FALSE /\ candidate' = "none"
  /\ runs' = runs + 1
  /\ UNCHANGED <<flow, inMemory, mergeVars, faults>>

Resume(t) ==
  /\ pc = "off" /\ status \in Settled /\ runs < MaxRuns
  /\ t \notin Merges \/ ResumeAtMerge
  /\ \E reset \in {ResetBy(t)} : \E inherited \in {Inherited(reset)} :
       SeedFromResume(t, inherited)

-----------------------------------------------------------------------------
Loop == Harvest \/ Record \/ LookAround \/ Dispatch \/ DispatchEnds \/ Merge

Next ==
  \/ Loop \/ Finish \/ MainMoved \/ MergeFails \/ Cancel \/ Crash \/ Recover \/ Decide
  \/ \E t \in Declared : Resume(t)

Spec == Init /\ [][Next]_vars

\* The runner's own loop never blocks, and every call a worker makes has a
\* timeout.
FairSpec == Spec /\ WF_vars(Loop) /\ WF_vars(Finish)

-----------------------------------------------------------------------------
(* A node that settles twice in one run stops the run: a second decision    *)
(* never reaches the frontier (unique_json in _record_node_completion).     *)
Twice == \E i, j \in DOMAIN completed :
  i # j /\ completed[i].id = completed[j].id /\ completed[j].here /\ completed[i].here
SettledTwiceStops == Twice => status \in {"BLOCKED", "INVALID"}

(* Nothing a decision selected is forgotten: when a run is COMPLETED, every *)
(* edge selected in it has led to a completed node, a merge included        *)
(* (frontier, dedup and the drain check of execute).                        *)
Followed(rec, e) ==
  \/ e.to = Stop
  \/ IF e.kind = "REPAIR"
     THEN \E b \in DOMAIN minted : minted[b].origin = rec.id /\ b \in CompletedIds
     ELSE e.to \in CompletedIds
CompletedIsWhole ==
  status = "COMPLETED" =>
    \A rec \in {rec \in Elements(completed) : rec.here} :
      \A e \in Elements(Selected(Node(rec.id), rec.res)) : Followed(rec, e)

(* What a merge has read is finished and was routed to it: each input of a  *)
(* merge that is done comes from a completed node that selected that edge,  *)
(* and ALL_REQUIRED has one for every slot (merge arrivals, execute_merge). *)
MergedFromResults ==
  \A rec \in Elements(completed) :
    rec.type = "MERGE" /\ rec.here =>
      LET merge == Flow.nodes[rec.id]
          inputs == MergeInputs(merge, Rows(arrivals, rec.id))
      IN /\ \A a \in inputs : \E source \in Elements(completed) :
               /\ source.id = a.from
               /\ a.edge \in {e.id : e \in Elements(Selected(Node(source.id), source.res))}
         /\ merge.policy = "ALL_REQUIRED" => {a.edge : a \in inputs} = merge.expected

(* Outside a merge, and with no journal left, the worktree is one that a    *)
(* completed merge has left: a crash, a failed write or a failed rollback   *)
(* never leaves some of the files of a merge                                *)
(* (transactional_merge_branch_worktrees, recover_run_in_place).            *)
MergeAtomic == pc \notin {"merge", "merged"} /\ journal = NoJournal => tree = sealed

(* A resumed run inherits only what does not stand on a node it repeats:    *)
(* no inherited record has one in its causal ancestry (plan_resume).        *)
CausesOf(n) ==
  Ancestry(n, [m \in DOMAIN arrivals |->
                 Picked(arrivals[m], {i \in DOMAIN arrivals[m] : arrivals[m][i].edge # Seed})]) \ {n}
InheritsNoStale ==
  [][runs' # runs =>
       \A rec \in Elements(completed') : CausesOf(rec.id) \cap (Known \ {r.id : r \in Elements(completed')}) = {}]_vars

(* Every run settles: the loop ends by itself, whatever the workers bring,  *)
(* whatever fails and whoever cancels (execute).                            *)
RunSettles == (pc # "off") ~> (pc = "off")
=============================================================================
