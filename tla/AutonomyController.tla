------------------------- MODULE AutonomyController -------------------------
(***************************************************************************)
(* autonomy_controller.py with autonomy_contract.py and autonomy_chain.py: *)
(* the phases of an autonomous run, its iterations, roadmap, chains and    *)
(* polish pass, and the Human Gate that ends it.                           *)
(*                                                                         *)
(* A phase handler is one step: what happens inside its executor calls is  *)
(* ExecutionProtocol's subject, and that one controller drives the run is  *)
(* RunLock's.  What a model may answer is chosen nondeterministically;     *)
(* what the code does with the answer is not.  The worktree is a version   *)
(* number that grows with every change of its content.                     *)
(***************************************************************************)
EXTENDS Naturals, Sequences, FiniteSets

CONSTANTS
  Items,            \* mandate: roadmap items ...
  DependsOn,        \* ... what each depends on
  HumanRequired,    \* ... those a human has to do
  Recurring,        \* ... and those no iteration completes
  MaxIterations,    \* autonomy_bounds.max_iterations
  RepairCap,        \* most repair attempts of an iteration, ladder included
  Chaining,         \* the chain block of AUTONOMY_ROLES.json: may it be enabled, ...
  ChainLength, MidChainReview, PlanBatching, PolishEnabled, \* ... and the rest of it
  EndsOpenChain,    \* may the planner report NO_FURTHER_ACTION mid-chain?
  Skips, Stubs,     \* bounds: what a planner may skip beside its iteration, and what it
                    \* may put into a chain_plan
  NoTree,
  MaxEdits,         \* bound: changes of the worktree nobody was asked for, in runs
                    \* with and without chains
  MaxIntegrations   \* bound: times the integrating promoter is run

ASSUME RoadmapAssumption ==
  /\ IsFiniteSet(Items)
  /\ DependsOn \in [Items -> SUBSET Items]
  /\ HumanRequired \subseteq Items
  /\ Recurring \subseteq Items \ HumanRequired
ASSUME BoundAssumption ==
  /\ MaxIterations \in Nat \ {0} /\ RepairCap \in Nat \ {0}
  /\ MaxEdits \in [BOOLEAN -> Nat] /\ MaxIntegrations \in Nat
  /\ NoTree \notin Nat
ASSUME ChainAssumption ==
  /\ Chaining \subseteq BOOLEAN /\ PlanBatching \in BOOLEAN
  /\ PolishEnabled \in BOOLEAN /\ EndsOpenChain \in BOOLEAN
  /\ ChainLength \in Nat \ {0, 1}
  /\ Skips \subseteq SUBSET Items /\ Stubs \subseteq SUBSET Items \ {{}}
  /\ MidChainReview \in {"PRIMARY", "NONE"}

VARIABLES
  phase, status,
  roadmap,     \* the status of each item
  iterations,  \* the iterations, the last one is the current one
  chainPlan,   \* stubs (their roadmap_refs) left of the planner's chain_plan
  polish,      \* "no", "pending" (polish_pending) or "done" (polish_done)
  backlog,     \* are there OPEN deferred findings?
  packet,      \* the worktree the current review packet describes
  hold,        \* what the Human Gate shows
  escalation,  \* why autonomy stopped, and in which phase
  promotion,   \* a promote with a promoter: "none" runs, its check has "found" the
               \* approved content, or (history) it was "moved" since that check
  integrated,  \* the contents an integrating promoter was run on
  tree,        \* the worktree
  chained,     \* chain.enabled, frozen with the roles of the run
  reviewed,    \* history: the worktree of the last REVIEW that passed ...
  passed,      \* ... and of the last FINAL_REVIEW that passed
  edits

run  == <<roadmap, iterations, chainPlan, polish, backlog, packet, reviewed, passed>>
gate == <<status, hold, escalation, promotion, integrated>>
vars == <<phase, run, gate, tree, edits, chained>>

SideEffectPhases == {"EXECUTE", "REPAIR"}
RunPhases == {"PLAN", "EXECUTE", "SELF_VERIFY", "AWAITING_REVIEW", "REVIEW",
              "REPAIR", "FINAL_REVIEW", "ROADMAP_CHECK"}
GatePhases == {"AWAITING_HUMAN", "HUMAN_APPROVED", "PROMOTED", "REJECTED"}
RoadmapStatuses == {"PENDING", "DONE", "SKIPPED", "HUMAN_REQUIRED"}
Modes == {"NONE", "LIGHT", "CHAIN_CLOSE", "POLISH"}

\* TRANSITIONS; PROMOTE is entered and left within one call of promote.
Transitions ==
  [p \in RunPhases |->
     CASE p = "PLAN"            -> {"EXECUTE"}
       [] p = "EXECUTE"         -> {"SELF_VERIFY"}
       [] p = "SELF_VERIFY"     -> {"AWAITING_REVIEW", "REPAIR", "ROADMAP_CHECK"}
       [] p = "AWAITING_REVIEW" -> {"REVIEW"}
       [] p = "REVIEW"          -> {"REPAIR", "FINAL_REVIEW", "ROADMAP_CHECK"}
       [] p = "REPAIR"          -> {"SELF_VERIFY", "FINAL_REVIEW"}
       [] p = "FINAL_REVIEW"    -> {"REPAIR", "ROADMAP_CHECK"}
       [] p = "ROADMAP_CHECK"   -> {"PLAN", "AWAITING_REVIEW"}]

Iteration == [status : {"IN_PROGRESS", "PROVISIONAL", "ACCEPTED", "ESCALATED"},
              refs : SUBSET Items, mode : Modes, attempts : Nat,
              executed : BOOLEAN, work : Nat]
NoHold == [reason |-> "none", promotable |-> FALSE, tree |-> NoTree]
NoEscalation == [code |-> "none", from |-> "none"]

TypeOK ==
  /\ phase \in RunPhases \cup GatePhases
  /\ status \in {"RUNNING"} \cup GatePhases
  /\ roadmap \in [Items -> RoadmapStatuses]
  /\ iterations \in Seq(Iteration)
  /\ chainPlan \in Seq(SUBSET Items)
  /\ polish \in {"no", "pending", "done"}
  /\ backlog \in BOOLEAN
  /\ packet \in Nat
  /\ hold \in [reason : {"none", "ESCALATION", "ROADMAP_EXHAUSTED", "ITERATION_CAP"},
               promotable : BOOLEAN, tree : Nat \cup {NoTree}]
  /\ escalation \in [code : {"none", "TIMEOUT", "OTHER"}, from : RunPhases \cup {"none"}]
  /\ promotion \in {"none", "found", "moved"}
  /\ integrated \in Seq(Nat)
  /\ tree \in Nat
  /\ reviewed \in Nat
  /\ passed \in Nat
  /\ edits \in 0..MaxEdits[chained]
  /\ chained \in BOOLEAN

\* start, with initial_roadmap.
Init ==
  /\ phase = "PLAN" /\ status = "RUNNING"
  /\ roadmap = [i \in Items |-> IF i \in HumanRequired THEN "HUMAN_REQUIRED" ELSE "PENDING"]
  /\ iterations = <<>> /\ chainPlan = <<>> /\ polish = "no" /\ backlog = FALSE
  /\ packet = 0 /\ reviewed = 0 /\ passed = 0
  /\ hold = NoHold /\ escalation = NoEscalation /\ promotion = "none" /\ integrated = <<>>
  /\ tree = 0 /\ edits = 0
  /\ chained \in Chaining

-----------------------------------------------------------------------------
Current == iterations[Len(iterations)]
SetCurrent(it) == iterations' = [iterations EXCEPT ![Len(iterations)] = it]
HasStatus(s) == {i \in DOMAIN iterations : iterations[i].status = s}

Goto(p) == /\ p \in Transitions[phase]
           /\ phase' = p
           /\ UNCHANGED gate

\* _escalate: only a human can act now, and nothing can be promoted.
Escalate(code) ==
  /\ status' = "AWAITING_HUMAN"
  /\ phase' = "AWAITING_HUMAN"
  /\ escalation' = [code |-> code, from |-> phase]
  /\ hold' = [reason |-> "ESCALATION", promotable |-> FALSE, tree |-> NoTree]
  /\ UNCHANGED <<promotion, integrated>>

\* _await_human: the candidate is what the worktree holds at this moment.
AwaitHuman(reason) ==
  /\ status' = "AWAITING_HUMAN"
  /\ phase' = "AWAITING_HUMAN"
  /\ hold' = [reason |-> reason, promotable |-> HasStatus("ACCEPTED") # {}, tree |-> tree]
  /\ UNCHANGED <<escalation, promotion, integrated>>

In(p) == phase = p /\ status = "RUNNING"

\* An implementer may change the worktree.
MayChange == tree' \in {tree, tree + 1}

\* Every way a handler gives up before it has a verdict: a call that escalated,
\* an unusable answer, a Git violation, a policy refusal, and in EXECUTE and
\* REPAIR an interruption found by resume (E_INTERRUPTED).  In these two, and
\* under a verifier that edits (E_VERIFY_MUTATION), the worktree may be left
\* changed; a review has perhaps rebuilt its packet.
PhaseEscalates ==
  /\ status = "RUNNING"
  /\ \E code \in {"OTHER"} \cup (IF phase \in SideEffectPhases THEN {"TIMEOUT"} ELSE {}) :
       Escalate(code)
  /\ IF phase \in SideEffectPhases \cup {"SELF_VERIFY"} THEN MayChange ELSE UNCHANGED tree
  /\ packet' \in IF phase \in {"REVIEW", "FINAL_REVIEW"} THEN {packet, tree} ELSE {packet}
  /\ IF phase = "REPAIR"
       THEN \E begun \in {0, 1} : SetCurrent([Current EXCEPT !.attempts = @ + begun])
       ELSE UNCHANGED iterations
  /\ UNCHANGED <<roadmap, chainPlan, polish, backlog, reviewed, passed, edits>>

-----------------------------------------------------------------------------
\* The roadmap.
Remaining == {i \in Items : roadmap[i] = "PENDING"}

\* refresh_dependency_states; kept up to date at every change of a status.
DependencyState(i) ==
  LET found == {roadmap[d] : d \in DependsOn[i]}
  IN  CASE "HUMAN_REQUIRED" \in found -> "HUMAN_REQUIRED"
        [] "HUMAN_REQUIRED" \notin found /\ "SKIPPED" \in found
             -> "BLOCKED_BY_SKIPPED_DEPENDENCY"
        [] found \subseteq {"DONE"} -> "READY"
        [] OTHER -> "WAITING_FOR_DEPENDENCIES"

AutonomousRemaining ==
  {i \in Remaining :
     DependencyState(i) \notin {"HUMAN_REQUIRED", "BLOCKED_BY_SKIPPED_DEPENDENCY"}}

\* _mark_roadmap_done
MarkRoadmapDone(refs) ==
  roadmap' = [i \in Items |-> IF i \in refs \ Recurring THEN "DONE" ELSE roadmap[i]]

\* Mutant: only the gates of the dependencies are checked, not that they are done.
AcceptedEarly(refs, skips) ==
  /\ skips \subseteq Remaining
  /\ iterations # <<>> => refs # {} /\ refs \subseteq Remaining
  /\ refs \cap (skips \cup HumanRequired) = {}
  /\ \A r \in refs : \A d \in DependsOn[r] : roadmap[d] \notin {"HUMAN_REQUIRED", "SKIPPED"}

\* check_plan on an ITERATION: ACCEPT.
Accepted(refs, skips) ==
  /\ skips \subseteq Remaining
  /\ iterations # <<>> => refs # {} /\ refs \subseteq Remaining
  /\ refs \cap (skips \cup HumanRequired) = {}
  /\ \A r \in refs : \A d \in DependsOn[r] :
       /\ roadmap[d] \notin {"HUMAN_REQUIRED", "SKIPPED"}
       /\ roadmap[d] = "PENDING" => d \in refs

-----------------------------------------------------------------------------
\* PLAN.
Position == Cardinality(HasStatus("PROVISIONAL")) + 1
ReviewModeLate(position) == IF position > ChainLength THEN "CHAIN_CLOSE" ELSE "LIGHT" \* a mutant
ReviewModeFor(position) == IF position >= ChainLength THEN "CHAIN_CLOSE" ELSE "LIGHT"

StartIteration(refs, mode) ==
  /\ iterations' = Append(iterations,
                     [status |-> "IN_PROGRESS", refs |-> refs, mode |-> mode,
                      attempts |-> 0, executed |-> FALSE, work |-> 0])
  /\ Goto("EXECUTE")

ChainMode == IF chained THEN ReviewModeFor(Position) ELSE "NONE"

\* _chain_plan_for and build_polish_plan.
PlanPolish == /\ In("PLAN")
              /\ polish = "pending"
              /\ polish' = "done"
              /\ StartIteration({}, "POLISH")
              /\ UNCHANGED <<roadmap, chainPlan, backlog, packet, reviewed, passed, tree, edits>>

\* Every open finding lies outside the mandate's areas.
PolishEmpty == /\ In("PLAN")
               /\ polish = "pending"
               /\ polish' = "done"
               /\ AwaitHuman("ROADMAP_EXHAUSTED")
               /\ UNCHANGED <<roadmap, iterations, chainPlan, backlog, packet, reviewed, passed,
                              tree, edits>>

StubDue == /\ chained /\ PlanBatching
           /\ polish # "pending"
           /\ iterations # <<>> /\ Position > 1 /\ chainPlan # <<>>

PlanStub == /\ In("PLAN")
            /\ StubDue
            /\ Accepted(Head(chainPlan), {})
            /\ chainPlan' = Tail(chainPlan)
            /\ StartIteration(Head(chainPlan), ChainMode)
            /\ UNCHANGED <<roadmap, polish, backlog, packet, reviewed, passed, tree, edits>>

\* The roadmap moved under the outline: dropping it is saved before the
\* planner is called.
DropStubs == /\ In("PLAN")
             /\ StubDue
             /\ ~Accepted(Head(chainPlan), {})
             /\ chainPlan' = <<>>
             /\ UNCHANGED <<phase, roadmap, iterations, polish, backlog, packet, reviewed, passed,
                            gate, tree, edits>>

PlannerCalled == In("PLAN") /\ polish # "pending" /\ ~StubDue

\* clean_stubs keeps a first stub even when no slot is left after this
\* iteration.
StubLimit == IF ChainLength > Position + 1 THEN ChainLength - Position ELSE 1

PlanIteration ==
  /\ PlannerCalled
  /\ \E refs \in SUBSET Items, skips \in Skips :
       /\ Accepted(refs, skips)
       /\ roadmap' = [i \in Items |-> IF i \in skips THEN "SKIPPED" ELSE roadmap[i]]
       /\ StartIteration(refs, ChainMode)
  /\ chainPlan' \in IF chained /\ PlanBatching
                    THEN UNION {[1..n -> Stubs] : n \in 0..StubLimit}
                    ELSE {chainPlan}
  /\ UNCHANGED <<polish, backlog, packet, reviewed, passed, tree, edits>>

\* NO_FURTHER_ACTION: every pending item is skipped with a reason.
PlanEnds == /\ PlannerCalled
            /\ iterations # <<>>
            /\ EndsOpenChain \/ HasStatus("PROVISIONAL") = {}
            /\ roadmap' = [i \in Items |-> IF i \in Remaining THEN "SKIPPED" ELSE roadmap[i]]
            /\ AwaitHuman("ROADMAP_EXHAUSTED")
            /\ UNCHANGED <<iterations, chainPlan, polish, backlog, packet, reviewed, passed,
                           tree, edits>>

-----------------------------------------------------------------------------
\* EXECUTE, SELF_VERIFY and REPAIR.
Execute == /\ In("EXECUTE")
           /\ MayChange
           /\ SetCurrent([Current EXCEPT !.executed = TRUE, !.work = tree'])
           /\ Goto("SELF_VERIFY")
           /\ UNCHANGED <<roadmap, chainPlan, polish, backlog, packet, reviewed, passed, edits>>

\* _accept_provisional: the iteration counts as done for planning.
AcceptProvisional == /\ SetCurrent([Current EXCEPT !.status = "PROVISIONAL"])
                     /\ MarkRoadmapDone(Current.refs)
                     /\ Goto("ROADMAP_CHECK")

VerifiedOnly == Current.mode = "LIGHT" /\ MidChainReview = "NONE"

SelfVerifyPasses ==
  /\ In("SELF_VERIFY")
  /\ IF VerifiedOnly
       THEN AcceptProvisional
       ELSE Goto("AWAITING_REVIEW") /\ UNCHANGED <<roadmap, iterations>>
  /\ UNCHANGED <<chainPlan, polish, backlog, packet, reviewed, passed, tree, edits>>

\* _begin_repair: E_REPAIR_LIMIT, E_NO_PROGRESS after an earlier repair, or
\* the next attempt.
BeginRepair ==
  \/ Current.attempts < RepairCap /\ Goto("REPAIR")
  \/ Current.attempts > 0 /\ Escalate("OTHER")

SelfVerifyFails == /\ In("SELF_VERIFY")
                   /\ BeginRepair
                   /\ UNCHANGED <<run, tree, edits>>

\* Mutant: the final reviewer sees the repair of its findings at once.
RepairUnverified ==
  /\ In("REPAIR")
  /\ MayChange
  /\ SetCurrent([Current EXCEPT !.attempts = @ + 1, !.work = tree'])
  /\ Goto("FINAL_REVIEW")
  /\ UNCHANGED <<roadmap, chainPlan, polish, backlog, packet, reviewed, passed, edits>>

Repair == /\ In("REPAIR")
          /\ MayChange
          /\ SetCurrent([Current EXCEPT !.attempts = @ + 1, !.work = tree'])
          /\ Goto("SELF_VERIFY")
          /\ UNCHANGED <<roadmap, chainPlan, polish, backlog, packet, reviewed, passed, edits>>

-----------------------------------------------------------------------------
\* AWAITING_REVIEW, REVIEW and FINAL_REVIEW.
PrepareReview == /\ In("AWAITING_REVIEW")
                 /\ packet' = tree
                 /\ Goto("REVIEW")
                 /\ UNCHANGED <<roadmap, iterations, chainPlan, polish, backlog, reviewed, passed,
                                tree, edits>>

\* _relax: in a chain, findings below the threshold go to the backlog.
Relax == backlog' \in IF Current.mode = "NONE" THEN {backlog} ELSE {backlog, TRUE}

\* A stale packet is rebuilt before the reviewer sees it.
ReviewPasses ==
  /\ In("REVIEW")
  /\ packet' = tree
  /\ reviewed' = packet'
  /\ Relax
  /\ IF Current.mode = "LIGHT"
       THEN AcceptProvisional
       ELSE Goto("FINAL_REVIEW") /\ UNCHANGED <<roadmap, iterations>>
  /\ UNCHANGED <<chainPlan, polish, passed, tree, edits>>

ReviewRepairs ==
  /\ In("REVIEW")
  /\ packet' = tree
  /\ Relax
  /\ BeginRepair
  /\ UNCHANGED <<roadmap, iterations, chainPlan, polish, reviewed, passed, tree, edits>>

ReviewEscalates ==
  /\ In("REVIEW")
  /\ packet' = tree
  /\ Relax
  /\ Escalate("OTHER")
  /\ UNCHANGED <<roadmap, iterations, chainPlan, polish, reviewed, passed, tree, edits>>

\* FINAL_REVIEW always builds a fresh packet; accepting the iteration that
\* closes a chain accepts the whole chain (_close_chain).
CloseChain(its) == [i \in DOMAIN its |->
  IF its[i].status = "PROVISIONAL" THEN [its[i] EXCEPT !.status = "ACCEPTED"] ELSE its[i]]

FinalReviewPasses ==
  /\ In("FINAL_REVIEW")
  /\ packet' = tree
  /\ passed' = packet'
  /\ LET closes == Current.mode \in {"CHAIN_CLOSE", "POLISH"}
         its    == [iterations EXCEPT ![Len(iterations)].status = "ACCEPTED"]
     IN  /\ iterations' = IF closes THEN CloseChain(its) ELSE its
         /\ chainPlan' = IF closes THEN <<>> ELSE chainPlan
         /\ IF Current.mode = "POLISH" THEN backlog' \in BOOLEAN ELSE Relax
  /\ MarkRoadmapDone(Current.refs)
  /\ Goto("ROADMAP_CHECK")
  /\ UNCHANGED <<polish, reviewed, tree, edits>>

FinalReviewRepairs ==
  /\ In("FINAL_REVIEW")
  /\ packet' = tree
  /\ Relax
  /\ BeginRepair
  /\ UNCHANGED <<roadmap, iterations, chainPlan, polish, reviewed, passed, tree, edits>>

FinalReviewEscalates ==
  /\ In("FINAL_REVIEW")
  /\ packet' = tree
  /\ Relax
  /\ SetCurrent([Current EXCEPT !.status = "ESCALATED"])
  /\ Escalate("OTHER")
  /\ UNCHANGED <<roadmap, chainPlan, polish, reviewed, passed, tree, edits>>

-----------------------------------------------------------------------------
\* ROADMAP_CHECK.
BudgetUsed == Len(iterations) >= MaxIterations
WorkEnds   == AutonomousRemaining = {} \/ BudgetUsed

\* Mutant: a chain is closed when the roadmap ends, not when the budget does.
ChainToCloseLate == chained /\ AutonomousRemaining = {} /\ Current.status = "PROVISIONAL"

\* _begin_chain_close: the last provisional iteration is reviewed seriously.
ChainToClose == chained /\ WorkEnds /\ Current.status = "PROVISIONAL"
\* Mutant: the closing iteration keeps its light review.
CloseOpenChainLightly ==
  /\ In("ROADMAP_CHECK")
  /\ ChainToClose
  /\ SetCurrent([Current EXCEPT !.status = "IN_PROGRESS"])
  /\ Goto("AWAITING_REVIEW")
  /\ UNCHANGED <<roadmap, chainPlan, polish, backlog, packet, reviewed, passed, tree, edits>>

CloseOpenChain ==
  /\ In("ROADMAP_CHECK")
  /\ ChainToClose
  /\ SetCurrent([Current EXCEPT !.status = "IN_PROGRESS", !.mode = "CHAIN_CLOSE"])
  /\ Goto("AWAITING_REVIEW")
  /\ UNCHANGED <<roadmap, chainPlan, polish, backlog, packet, reviewed, passed, tree, edits>>

PolishDue == /\ chained /\ ~ChainToClose
             /\ AutonomousRemaining = {}
             /\ PolishEnabled /\ polish # "done" /\ backlog
StartPolish ==
  /\ In("ROADMAP_CHECK")
  /\ PolishDue
  /\ polish' = "pending"
  /\ Goto("PLAN")
  /\ UNCHANGED <<roadmap, iterations, chainPlan, backlog, packet, reviewed, passed, tree, edits>>

RoadmapEnds ==
  /\ In("ROADMAP_CHECK")
  /\ ~ChainToClose /\ ~PolishDue
  /\ WorkEnds
  /\ AwaitHuman(IF AutonomousRemaining = {} THEN "ROADMAP_EXHAUSTED" ELSE "ITERATION_CAP")
  /\ UNCHANGED <<run, tree, edits>>

NextIteration == /\ In("ROADMAP_CHECK")
                 /\ ~WorkEnds
                 /\ Goto("PLAN")
                 /\ UNCHANGED <<run, tree, edits>>

-----------------------------------------------------------------------------
\* The human surface; it takes the run lock, so no controller runs meanwhile.
AtGate == status = "AWAITING_HUMAN" /\ phase = "AWAITING_HUMAN"

\* What an operator has to show to keep the work of a timed-out implementer.
TimeoutProven == /\ AtGate
                 /\ escalation.code = "TIMEOUT"
                 /\ escalation.from \in SideEffectPhases
                 /\ tree # 0

\* adopt_timed_out_side_effect_result
AdoptTimedOut ==
  /\ TimeoutProven
  /\ ~Current.executed
  /\ SetCurrent([Current EXCEPT !.executed = TRUE, !.work = tree])
  /\ status' = "RUNNING"
  /\ phase' = "SELF_VERIFY"
  /\ escalation' = NoEscalation
  /\ hold' = NoHold
  /\ UNCHANGED <<roadmap, chainPlan, polish, backlog, packet, reviewed, passed, promotion,
                 integrated, tree, edits>>

Decide(verdict) == /\ status' = verdict
                   /\ phase' = verdict
                   /\ UNCHANGED <<run, hold, escalation, tree, edits>>

\* approve_promotion with the candidate_id shown; before the roadmap is
\* exhausted the human adds early_end.
Approve == /\ AtGate
           /\ hold.promotable
           /\ Decide("HUMAN_APPROVED")
           /\ UNCHANGED <<promotion, integrated>>

Reject == /\ status = "AWAITING_HUMAN"
          /\ Decide("REJECTED")
          /\ UNCHANGED <<promotion, integrated>>

\* promote without a promoter: READY_FOR_EXTERNAL_INTEGRATION.
PromoteRecords == /\ phase = "HUMAN_APPROVED"
                  /\ promotion = "none"
                  /\ Decide("PROMOTED")
                  /\ UNCHANGED <<promotion, integrated>>

\* Mutant: the candidate is not read again.
PromoteUnchecked == /\ phase = "HUMAN_APPROVED"
                    /\ promotion = "none"
                    /\ Len(integrated) < MaxIntegrations
                    /\ promotion' = "found"
                    /\ UNCHANGED <<phase, status, run, hold, escalation, integrated, tree, edits>>

\* promote with a promoter reads the candidate again, and refuses unless it is
\* what the human approved.
PromoteChecks == /\ phase = "HUMAN_APPROVED"
                 /\ promotion = "none"
                 /\ tree = hold.tree
                 /\ Len(integrated) < MaxIntegrations
                 /\ promotion' = "found"
                 /\ UNCHANGED <<phase, status, run, hold, escalation, integrated, tree, edits>>

\* The promoter is called with a token for the approved candidate_id; what it
\* integrates is what the worktree holds by then.
Integrate == /\ promotion # "none"
             /\ promotion' = "none"
             /\ integrated' = Append(integrated, tree)
PromoteIntegrates == Integrate /\ Decide("PROMOTED")

\* The process ends, or the promoter raises, after the integration, whose
\* outcome is then not saved ...
PromoteInterrupted == Integrate /\ UNCHANGED <<phase, status, run, hold, escalation, tree, edits>>

\* ... or before it.
PromoteLapses == /\ promotion # "none"
                 /\ promotion' = "none"
                 /\ UNCHANGED <<phase, status, run, hold, escalation, integrated, tree, edits>>

\* An orphaned executor or a person edits the worktree.
OutsideEdit == /\ edits < MaxEdits[chained]
               /\ edits' = edits + 1
               /\ tree' = tree + 1
               /\ promotion' = IF promotion = "none" THEN "none" ELSE "moved"
               /\ UNCHANGED <<phase, run, status, hold, escalation, integrated>>

Controller ==
  \/ PlanPolish \/ PolishEmpty \/ PlanStub \/ DropStubs \/ PlanIteration \/ PlanEnds
  \/ Execute \/ SelfVerifyPasses \/ SelfVerifyFails \/ Repair
  \/ PrepareReview \/ ReviewPasses \/ ReviewRepairs \/ ReviewEscalates
  \/ FinalReviewPasses \/ FinalReviewRepairs \/ FinalReviewEscalates
  \/ CloseOpenChain \/ StartPolish \/ RoadmapEnds \/ NextIteration
  \/ PhaseEscalates

Human == \/ AdoptTimedOut \/ Approve \/ Reject
         \/ PromoteRecords \/ PromoteChecks
         \/ PromoteIntegrates \/ PromoteInterrupted \/ PromoteLapses

Next == (Controller \/ Human \/ OutsideEdit) /\ UNCHANGED chained

Spec == Init /\ [][Next]_vars

\* The controller of a run is kept running, or resumed; every phase ends.
\* Nobody has to decide at the gate.
FairSpec == Spec /\ WF_vars(Controller /\ UNCHANGED chained)

-----------------------------------------------------------------------------
\* Accepted work was reviewed as it is: whatever the implementer last changed
\* in an iteration was already there when a REVIEW and a FINAL_REVIEW passed,
\* also for the iterations of a chain, which only its closing review accepts.
AcceptedWasReviewed ==
  \A i \in HasStatus("ACCEPTED") :
    iterations[i].work <= reviewed /\ iterations[i].work <= passed

\* The provisional iterations are the open chain: fewer than its length, after
\* every accepted iteration, with only the current iteration behind them.
OpenChain ==
  LET open == HasStatus("PROVISIONAL")
  IN  /\ Cardinality(open) < ChainLength
      /\ \A i \in open, j \in DOMAIN iterations :
           j > i => \/ j \in open
                    \/ j = Len(iterations) /\ iterations[j].status # "ACCEPTED"

\* The mandate's budget: one iteration beyond max_iterations at most, and that
\* one is the polish pass.
IterationBudget ==
  /\ Len(iterations) <= MaxIterations + 1
  /\ Len(iterations) > MaxIterations => Current.mode = "POLISH"

\* Progress on the roadmap is backed by work: an item is DONE only while an
\* iteration that names it is provisionally or finally accepted, or closes its
\* chain (an escalated close leaves it on record); and its own dependencies
\* are done too, except standing ones.
DoneIsBacked ==
  \A item \in Items : roadmap[item] = "DONE" =>
    /\ \E i \in DOMAIN iterations :
         /\ item \in iterations[i].refs
         /\ iterations[i].status \in {"PROVISIONAL", "ACCEPTED"} \/ iterations[i].mode = "CHAIN_CLOSE"
    /\ \A d \in DependsOn[item] \ Recurring : roadmap[d] = "DONE"

\* The candidate a human may approve is what the last final review saw, unless
\* somebody edited the worktree uninvited.
CandidateReviewed == hold.promotable /\ edits = 0 => hold.tree = passed

\* Left to itself, a run does not work for ever: standing items, repairs,
\* chains and the polish pass all end at the Human Gate.
RunSettles == status = "RUNNING" ~> status # "RUNNING"

\* The Human Gate that this controller implements: whatever led to a candidate,
\* an integration starts only after a human approved it and a check found it in
\* the worktree, one check for one integration, and what is integrated is that
\* content unless the worktree was edited between the two.
Gate == INSTANCE PromotionGate
          WITH offered <- IF hold.promotable THEN hold.tree ELSE NoTree,
               verdict <- CASE status = "HUMAN_APPROVED" -> "APPROVED"
                            [] status \in {"REJECTED", "PROMOTED"} -> status
                            [] OTHER -> "open"
ImplementsGate == Gate!Spec
=============================================================================
