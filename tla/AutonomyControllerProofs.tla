---------------------- MODULE AutonomyControllerProofs ----------------------
(***************************************************************************)
(* For every roadmap, every chain configuration and any number of edits    *)
(* nobody asked for: the controller keeps its types, accepts only reviewed *)
(* work, stays within its iteration budget, and implements the Human Gate. *)
(***************************************************************************)
EXTENDS AutonomyController, SequenceTheorems, FiniteSetTheorems, TLAPS

\* Phases that work on the current iteration.
IterationPhases == RunPhases \ {"PLAN", "ROADMAP_CHECK"}

\* A run is at a phase of the loop exactly while it is RUNNING.
Gated == /\ status = "RUNNING" => phase \in RunPhases /\ escalation = NoEscalation
         /\ status # "RUNNING" => phase = status

\* The handlers after PLAN find an iteration, and it is in progress while they
\* work on it; so it is when an implementer's phase escalated.
Working ==
  /\ status = "RUNNING" /\ phase # "PLAN" => iterations # <<>>
  /\ status = "RUNNING" /\ phase \in IterationPhases => Current.status = "IN_PROGRESS"
  /\ escalation.from \in SideEffectPhases => iterations # <<>> /\ Current.status = "IN_PROGRESS"

\* Nothing is reviewed, or was produced, beyond what the worktree holds; and a
\* final review starts from work that a review has passed.
Versions ==
  /\ reviewed <= tree /\ passed <= tree
  /\ \A i \in 1..Len(iterations) : iterations[i].work <= tree
  /\ In("FINAL_REVIEW") => \A i \in 1..Len(iterations) : iterations[i].work <= reviewed

Reviewed ==
  \A i \in 1..Len(iterations) :
    iterations[i].status = "ACCEPTED"
      => iterations[i].work <= reviewed /\ iterations[i].work <= passed

IInv == TypeOK /\ Gated /\ Working /\ Versions /\ Reviewed

\* Provisional iterations are light ones; a run plans with budget left, or for
\* its polish pass.
Budget ==
  /\ \A i \in 1..Len(iterations) :
       iterations[i].status = "PROVISIONAL" => iterations[i].mode = "LIGHT"
  /\ polish = "pending" => Len(iterations) <= MaxIterations
  /\ In("PLAN") /\ polish # "pending" => Len(iterations) < MaxIterations
  /\ Len(iterations) > MaxIterations => polish = "done"
  /\ IterationBudget

-----------------------------------------------------------------------------
\* What replacing the current iteration leaves alone.
LEMMA ReplaceCurrent ==
  ASSUME iterations \in Seq(Iteration), iterations # <<>>,
         NEW it \in Iteration, SetCurrent(it)
  PROVE  /\ iterations' \in Seq(Iteration)
         /\ iterations' # <<>>
         /\ Len(iterations) \in Nat \ {0}
         /\ Len(iterations') = Len(iterations)
         /\ Current' = it /\ iterations'[Len(iterations)] = it
         /\ \A j \in 1..Len(iterations) : iterations'[j] \in {it, iterations[j]}
         /\ \A j \in 1..Len(iterations) : j # Len(iterations) => iterations'[j] = iterations[j]
<1>1. Len(iterations) \in Nat \ {0}
  BY EmptySeq
<1>2. Len(iterations) \in 1..Len(iterations)
  BY <1>1
<1>3. /\ iterations' \in Seq(Iteration) /\ Len(iterations') = Len(iterations)
      /\ iterations'[Len(iterations)] = it
      /\ \A j \in 1..Len(iterations) : j # Len(iterations) => iterations'[j] = iterations[j]
  BY <1>1, <1>2, ExceptSeq DEF SetCurrent
<1>4. iterations' # <<>>
  BY <1>1, <1>3, EmptySeq
<1> QED BY <1>1, <1>3, <1>4 DEF Current

\* The current iteration is one.
LEMMA CurrentIteration ==
  ASSUME iterations \in Seq(Iteration)
  PROVE  /\ Len(iterations) \in Nat
         /\ \A i \in 1..Len(iterations) : iterations[i] \in Iteration /\ iterations[i].work \in Nat
         /\ iterations # <<>> => Current \in Iteration /\ Current = iterations[Len(iterations)]
                                  /\ Len(iterations) \in 1..Len(iterations)
<1>1. Len(iterations) \in Nat
  BY LenProperties
<1>2. \A i \in 1..Len(iterations) : iterations[i] \in Iteration
  BY ElementOfSeq
<1>3. iterations # <<>> => Len(iterations) \in 1..Len(iterations)
  BY <1>1, EmptySeq
<1> QED BY <1>1, <1>2, <1>3 DEF Current, Iteration

\* What starting an iteration leaves alone.
LEMMA AppendIteration ==
  ASSUME iterations \in Seq(Iteration), NEW refs \in SUBSET Items, NEW mode \in Modes,
         StartIteration(refs, mode)
  PROVE  /\ iterations' \in Seq(Iteration)
         /\ iterations' # <<>>
         /\ Len(iterations) \in Nat
         /\ Len(iterations') = Len(iterations) + 1
         /\ iterations'[Len(iterations) + 1] =
              [status |-> "IN_PROGRESS", refs |-> refs, mode |-> mode,
               attempts |-> 0, executed |-> FALSE, work |-> 0]
         /\ \A j \in 1..Len(iterations) : iterations'[j] = iterations[j]
<1> DEFINE new == [status |-> "IN_PROGRESS", refs |-> refs, mode |-> mode,
                   attempts |-> 0, executed |-> FALSE, work |-> 0]
<1>1. new \in Iteration
  BY DEF Iteration
<1>2. iterations' = Append(iterations, new)
  BY DEF StartIteration
<1> QED BY <1>1, <1>2, AppendProperties DEF StartIteration

\* Closing a chain changes nothing but the status of its provisional members.
LEMMA CloseChainFacts ==
  ASSUME NEW its \in Seq(Iteration)
  PROVE  /\ CloseChain(its) \in Seq(Iteration)
         /\ Len(CloseChain(its)) = Len(its)
         /\ \A i \in 1..Len(its) :
              /\ CloseChain(its)[i].work = its[i].work
              /\ CloseChain(its)[i].mode = its[i].mode
              /\ CloseChain(its)[i].refs = its[i].refs
              /\ CloseChain(its)[i].status = IF its[i].status = "PROVISIONAL" THEN "ACCEPTED"
                                             ELSE its[i].status
<1>1. Len(its) \in Nat /\ DOMAIN its = 1..Len(its)
  BY LenProperties
<1>2. \A i \in 1..Len(its) : its[i] \in Iteration
  BY <1>1, ElementOfSeq
<1>3. CloseChain(its) \in [1..Len(its) -> Iteration]
  BY <1>1, <1>2 DEF CloseChain, Iteration
<1>4. CloseChain(its) \in Seq(Iteration)
  BY <1>1, <1>3, SeqDef
<1>5. Len(CloseChain(its)) = Len(its)
  BY <1>1, <1>3, <1>4, LenProperties
<1> QED BY <1>1, <1>2, <1>4, <1>5 DEF CloseChain, Iteration

-----------------------------------------------------------------------------
\* What the handlers write into an iteration.
LEMMA UpdatedIteration ==
  ASSUME NEW it \in Iteration
  PROVE  /\ LET new == [it EXCEPT !.status = "IN_PROGRESS", !.mode = "CHAIN_CLOSE"]
            IN  /\ new \in Iteration /\ new.work = it.work /\ new.status = "IN_PROGRESS"
                /\ new.mode = "CHAIN_CLOSE" /\ new.refs = it.refs
         /\ \A st \in {"PROVISIONAL", "ACCEPTED", "ESCALATED"} :
              LET new == [it EXCEPT !.status = st]
              IN  /\ new \in Iteration /\ new.work = it.work /\ new.status = st
                  /\ new.mode = it.mode /\ new.refs = it.refs
         /\ \A k \in {0, 1} :
              LET new == [it EXCEPT !.attempts = @ + k]
              IN  /\ new \in Iteration /\ new.work = it.work /\ new.status = it.status
                  /\ new.mode = it.mode /\ new.refs = it.refs
<1>1. LET new == [it EXCEPT !.status = "IN_PROGRESS", !.mode = "CHAIN_CLOSE"]
      IN  /\ new \in Iteration /\ new.work = it.work /\ new.status = "IN_PROGRESS"
          /\ new.mode = "CHAIN_CLOSE" /\ new.refs = it.refs
  BY DEF Iteration, Modes
<1>2. ASSUME NEW st \in {"PROVISIONAL", "ACCEPTED", "ESCALATED"}
      PROVE  LET new == [it EXCEPT !.status = st]
             IN  /\ new \in Iteration /\ new.work = it.work /\ new.status = st
                 /\ new.mode = it.mode /\ new.refs = it.refs
  BY DEF Iteration, Modes
<1>3. ASSUME NEW k \in {0, 1}
      PROVE  LET new == [it EXCEPT !.attempts = @ + k]
             IN  /\ new \in Iteration /\ new.work = it.work /\ new.status = it.status
                 /\ new.mode = it.mode /\ new.refs = it.refs
  <2>1. it.attempts + k \in Nat
    BY DEF Iteration
  <2> QED BY <2>1 DEF Iteration, Modes
<1> QED BY <1>1, <1>2, <1>3

\* What an implementer's phase writes into it.
LEMMA WorkedIteration ==
  ASSUME NEW it \in Iteration, NEW w \in Nat
  PROVE  /\ LET new == [it EXCEPT !.executed = TRUE, !.work = w]
            IN  /\ new \in Iteration /\ new.work = w /\ new.status = it.status
                /\ new.mode = it.mode /\ new.refs = it.refs
         /\ LET new == [it EXCEPT !.attempts = @ + 1, !.work = w]
            IN  /\ new \in Iteration /\ new.work = w /\ new.status = it.status
                /\ new.mode = it.mode /\ new.refs = it.refs
<1>1. LET new == [it EXCEPT !.executed = TRUE, !.work = w]
      IN  /\ new \in Iteration /\ new.work = w /\ new.status = it.status
          /\ new.mode = it.mode /\ new.refs = it.refs
  BY DEF Iteration, Modes
<1>2. it.attempts + 1 \in Nat
  BY DEF Iteration
<1>3. LET new == [it EXCEPT !.attempts = @ + 1, !.work = w]
      IN  /\ new \in Iteration /\ new.work = w /\ new.status = it.status
          /\ new.mode = it.mode /\ new.refs = it.refs
  BY <1>2 DEF Iteration, Modes
<1> QED BY <1>1, <1>3

\* The two halves of TypeOK: what a change of phase writes, and the rest.
GateTypes ==
  /\ phase \in RunPhases \cup GatePhases
  /\ status \in {"RUNNING"} \cup GatePhases
  /\ hold \in [reason : {"none", "ESCALATION", "ROADMAP_EXHAUSTED", "ITERATION_CAP"},
               promotable : BOOLEAN, tree : Nat \cup {NoTree}]
  /\ escalation \in [code : {"none", "TIMEOUT", "OTHER"}, from : RunPhases \cup {"none"}]
  /\ promotion \in {"none", "found", "moved"}
  /\ integrated \in Seq(Nat)
RunTypes ==
  /\ roadmap \in [Items -> RoadmapStatuses]
  /\ iterations \in Seq(Iteration)
  /\ chainPlan \in Seq(SUBSET Items)
  /\ polish \in {"no", "pending", "done"}
  /\ backlog \in BOOLEAN
  /\ packet \in Nat
  /\ tree \in Nat
  /\ reviewed \in Nat
  /\ passed \in Nat
  /\ edits \in 0..MaxEdits[chained]
  /\ chained \in BOOLEAN

LEMMA Types == TypeOK <=> GateTypes /\ RunTypes
BY DEF TypeOK, GateTypes, RunTypes

\* A handler that goes on to another phase.
LEMMA GotoStep ==
  ASSUME TypeOK, Gated, status = "RUNNING", NEW p \in RunPhases, Goto(p)
  PROVE  GateTypes' /\ Gated' /\ status' = "RUNNING" /\ phase' = p /\ escalation' = NoEscalation
<1>1. phase' = p /\ UNCHANGED <<status, hold, escalation, promotion, integrated>>
  BY DEF Goto, gate
<1>2. GateTypes'
  BY <1>1 DEF TypeOK, GateTypes
<1> QED BY <1>1, <1>2 DEF Gated

\* A handler that hands the run to the human, ...
LEMMA AwaitStep ==
  ASSUME TypeOK, Gated, status = "RUNNING", NEW r \in {"ROADMAP_EXHAUSTED", "ITERATION_CAP"},
         AwaitHuman(r)
  PROVE  GateTypes' /\ Gated' /\ status' # "RUNNING" /\ phase' = "AWAITING_HUMAN"
         /\ escalation' = NoEscalation
<1>1. /\ phase' = "AWAITING_HUMAN" /\ status' = "AWAITING_HUMAN"
      /\ UNCHANGED <<escalation, promotion, integrated>>
  BY DEF AwaitHuman
<1>2. hold' \in [reason : {"none", "ESCALATION", "ROADMAP_EXHAUSTED", "ITERATION_CAP"},
                 promotable : BOOLEAN, tree : Nat \cup {NoTree}]
  BY DEF AwaitHuman, TypeOK
<1>3. GateTypes'
  BY <1>1, <1>2 DEF TypeOK, GateTypes, GatePhases
<1> QED BY <1>1, <1>3 DEF Gated

\* ... or escalates.
LEMMA EscalateStep ==
  ASSUME TypeOK, Gated, status = "RUNNING", NEW code \in {"TIMEOUT", "OTHER"}, Escalate(code)
  PROVE  GateTypes' /\ Gated' /\ status' # "RUNNING" /\ phase' = "AWAITING_HUMAN"
         /\ escalation'.from = phase
<1>1. /\ phase' = "AWAITING_HUMAN" /\ status' = "AWAITING_HUMAN" /\ UNCHANGED <<promotion, integrated>>
      /\ escalation' = [code |-> code, from |-> phase]
  BY DEF Escalate
<1>2. hold' \in [reason : {"none", "ESCALATION", "ROADMAP_EXHAUSTED", "ITERATION_CAP"},
                 promotable : BOOLEAN, tree : Nat \cup {NoTree}]
  BY DEF Escalate
<1>3. escalation' \in [code : {"none", "TIMEOUT", "OTHER"}, from : RunPhases \cup {"none"}]
  BY <1>1 DEF Gated
<1>4. GateTypes'
  BY <1>1, <1>2, <1>3 DEF TypeOK, GateTypes, GatePhases
<1> QED BY <1>1, <1>4 DEF Gated

\* Steps that leave the iterations and the verdicts of the reviews alone.
LEMMA QuietStep ==
  ASSUME TypeOK, Versions, Reviewed, UNCHANGED <<iterations, reviewed, passed>>,
         tree' \in Nat, tree' >= tree, In("FINAL_REVIEW")' => In("FINAL_REVIEW")
  PROVE  Versions' /\ Reviewed'
<1>1. \A i \in 1..Len(iterations) : iterations[i].work \in Nat
  BY CurrentIteration DEF TypeOK
<1>2. reviewed' <= tree' /\ passed' <= tree'
  BY DEF TypeOK, Versions
<1>3. \A i \in 1..Len(iterations') : iterations'[i].work <= tree'
  BY <1>1 DEF TypeOK, Versions
<1>4. Versions'
  BY <1>2, <1>3 DEF Versions
<1>5. Reviewed'
  BY DEF Reviewed
<1> QED BY <1>4, <1>5

\* Steps that write the current iteration without accepting it.
LEMMA WriteStep ==
  ASSUME TypeOK, Versions, Reviewed, iterations # <<>>,
         NEW it \in Iteration, SetCurrent(it), it.status # "ACCEPTED", it.work <= tree',
         tree' \in Nat, tree' >= tree, UNCHANGED passed,
         reviewed' \in {reviewed, tree}, ~In("FINAL_REVIEW")'
  PROVE  Versions' /\ Reviewed'
<1>1. /\ Len(iterations') = Len(iterations)
      /\ \A j \in 1..Len(iterations) : iterations'[j] \in {it, iterations[j]}
  BY ReplaceCurrent DEF TypeOK
<1>2. \A i \in 1..Len(iterations) : iterations[i].work \in Nat
  BY CurrentIteration DEF TypeOK
<1>3. reviewed' <= tree' /\ passed' <= tree' /\ reviewed' >= reviewed
  BY DEF TypeOK, Versions
<1>4. ASSUME NEW j \in 1..Len(iterations')
      PROVE  iterations'[j].work <= tree'
  <2>1. j \in 1..Len(iterations) /\ iterations'[j] \in {it, iterations[j]}
    BY <1>1
  <2>2. iterations[j].work \in Nat /\ iterations[j].work <= tree
    BY <1>2, <2>1 DEF Versions
  <2>3. iterations[j].work <= tree'
    BY <2>2 DEF TypeOK
  <2> QED BY <2>1, <2>3
<1>5. Versions'
  BY <1>3, <1>4 DEF Versions
<1>6. ASSUME NEW j \in 1..Len(iterations'), iterations'[j].status = "ACCEPTED"
      PROVE  iterations'[j].work <= reviewed' /\ iterations'[j].work <= passed'
  <2>1. iterations'[j] = iterations[j] /\ j \in 1..Len(iterations)
    BY <1>1, <1>6
  <2>2. iterations[j].work <= reviewed /\ iterations[j].work <= passed
    BY <1>6, <2>1 DEF Reviewed
  <2> QED BY <1>2, <1>3, <2>1, <2>2 DEF TypeOK
<1> QED BY <1>5, <1>6 DEF Reviewed

\* The number of stubs a plan may carry.
LEMMA StubLimitNat == \A k \in 0..StubLimit : k \in Nat
OBVIOUS

LEMMA InductiveInit == Init => IInv
<1> SUFFICES ASSUME Init PROVE IInv
  OBVIOUS
<1>1. iterations = <<>> /\ Len(iterations) = 0 /\ chainPlan = <<>> /\ integrated = <<>>
  BY EmptySeq DEF Init
<1>2. iterations \in Seq(Iteration) /\ chainPlan \in Seq(SUBSET Items) /\ integrated \in Seq(Nat)
  <2>1. iterations \in Seq(Iteration)
    BY <1>1
  <2>2. chainPlan \in Seq(SUBSET Items)
    BY <1>1
  <2>3. integrated \in Seq(Nat)
    BY <1>1
  <2> QED BY <2>1, <2>2, <2>3
<1>3. roadmap \in [Items -> RoadmapStatuses]
  BY DEF Init, RoadmapStatuses
<1>4. /\ hold \in [reason : {"none", "ESCALATION", "ROADMAP_EXHAUSTED", "ITERATION_CAP"},
                   promotable : BOOLEAN, tree : Nat \cup {NoTree}]
      /\ escalation \in [code : {"none", "TIMEOUT", "OTHER"}, from : RunPhases \cup {"none"}]
  BY DEF Init, NoHold, NoEscalation
<1>5. edits \in 0..MaxEdits[chained] /\ chained \in BOOLEAN
  BY BoundAssumption, ChainAssumption DEF Init
<1>6. TypeOK
  BY <1>2, <1>3, <1>4, <1>5 DEF Init, TypeOK, RunPhases, GatePhases
<1>7. Gated
  BY DEF Init, Gated, RunPhases
<1>8. escalation.from \notin SideEffectPhases
  BY DEF Init, NoEscalation, SideEffectPhases
<1>9. Working
  BY <1>8 DEF Init, Working, IterationPhases
<1>10. Versions /\ Reviewed
  BY <1>1 DEF Init, Versions, Reviewed, In
<1> QED BY <1>6, <1>7, <1>9, <1>10 DEF IInv

\* A new iteration has no work yet.
LEMMA StartStep ==
  ASSUME TypeOK, Gated, Versions, Reviewed, In("PLAN"), NEW refs \in SUBSET Items, NEW mode \in Modes,
         StartIteration(refs, mode), UNCHANGED <<tree, reviewed, passed>>
  PROVE  /\ GateTypes' /\ Gated' /\ Working' /\ Versions' /\ Reviewed'
         /\ iterations' \in Seq(Iteration)
<1>1. GateTypes' /\ Gated' /\ status' = "RUNNING" /\ phase' = "EXECUTE" /\ escalation' = NoEscalation
  BY GotoStep DEF StartIteration, In, RunPhases
<1> DEFINE n == Len(iterations)
<1> DEFINE new == [status |-> "IN_PROGRESS", refs |-> refs, mode |-> mode,
                   attempts |-> 0, executed |-> FALSE, work |-> 0]
<1>2. /\ iterations' \in Seq(Iteration) /\ iterations' # <<>> /\ n \in Nat
      /\ Len(iterations') = n + 1 /\ iterations'[n + 1] = new
      /\ \A j \in 1..n : iterations'[j] = iterations[j]
  <2>1. iterations \in Seq(Iteration)
    BY DEF TypeOK
  <2> QED BY <2>1, AppendIteration
<1>3. new.status = "IN_PROGRESS" /\ new.work = 0
  OBVIOUS
<1> HIDE DEF n, new
<1>4. Working'
  BY <1>1, <1>2, <1>3 DEF Working, NoEscalation, SideEffectPhases, Current
<1>5. ASSUME NEW j \in 1..Len(iterations')
      PROVE  \/ j = n + 1
             \/ j \in 1..n /\ iterations'[j] = iterations[j]
  <2>1. j \in 1..(n + 1)
    BY <1>2
  <2>2. j = n + 1 \/ j \in 1..n
    BY <1>2, <2>1
  <2> QED BY <1>2, <2>2
<1>6. ASSUME NEW j \in 1..Len(iterations')
      PROVE  iterations'[j].work <= tree'
  <2>1. CASE j = n + 1
    BY <1>2, <1>3, <2>1 DEF TypeOK
  <2>2. CASE j \in 1..n /\ iterations'[j] = iterations[j]
    BY <2>2 DEF Versions, n
  <2> QED BY <1>5, <2>1, <2>2
<1>7. Versions'
  BY <1>1, <1>6 DEF Versions, In
<1>8. ASSUME NEW j \in 1..Len(iterations'), iterations'[j].status = "ACCEPTED"
      PROVE  iterations'[j].work <= reviewed' /\ iterations'[j].work <= passed'
  <2>1. j \in 1..n /\ iterations'[j] = iterations[j]
    BY <1>2, <1>3, <1>5, <1>8
  <2> QED BY <1>8, <2>1 DEF Reviewed, n
<1>9. Reviewed'
  BY <1>8 DEF Reviewed
<1> QED BY <1>1, <1>2, <1>4, <1>7, <1>9

LEMMA PlanSteps ==
  ASSUME IInv, PlanPolish \/ PolishEmpty \/ PlanStub \/ DropStubs \/ PlanIteration \/ PlanEnds, UNCHANGED chained
  PROVE  IInv'
<1>0. TypeOK /\ Gated /\ Working /\ Versions /\ Reviewed /\ RunTypes /\ phase = "PLAN"
      /\ status = "RUNNING" /\ In("PLAN") /\ ChainMode \in Modes
  BY Types DEF IInv, In, PlanPolish, PolishEmpty, PlanStub, DropStubs, PlanIteration, PlanEnds,
     PlannerCalled, ChainMode, ReviewModeFor, Modes
<1>1. CASE PlanPolish
  <2>1. GateTypes' /\ Gated' /\ Working' /\ Versions' /\ Reviewed' /\ iterations' \in Seq(Iteration)
    BY <1>0, <1>1, StartStep DEF PlanPolish, Modes
  <2>2. RunTypes'
    BY <1>0, <1>1, <2>1 DEF PlanPolish, RunTypes
  <2> QED BY <2>1, <2>2 DEF IInv, TypeOK, GateTypes, RunTypes
<1>2. CASE PolishEmpty
  <2>1. GateTypes' /\ Gated' /\ status' # "RUNNING" /\ escalation' = NoEscalation
    BY <1>0, <1>2, AwaitStep DEF PolishEmpty
  <2>2. RunTypes'
    BY <1>0, <1>2 DEF PolishEmpty, RunTypes
  <2>3. Working'
    BY <2>1 DEF Working, NoEscalation, SideEffectPhases
  <2>4. Versions' /\ Reviewed'
    BY <1>0, <1>2, <2>1, QuietStep DEF PolishEmpty, TypeOK, In
  <2> QED BY <2>1, <2>2, <2>3, <2>4 DEF IInv, TypeOK, GateTypes, RunTypes
<1>3. CASE PlanStub
  <2>1. Head(chainPlan) \in SUBSET Items /\ Tail(chainPlan) \in Seq(SUBSET Items)
    <3>1. chainPlan # <<>> /\ chainPlan \in Seq(SUBSET Items)
      BY <1>3 DEF PlanStub, StubDue, IInv, TypeOK
    <3> QED BY <3>1, HeadTailProperties
  <2>2. GateTypes' /\ Gated' /\ Working' /\ Versions' /\ Reviewed' /\ iterations' \in Seq(Iteration)
    BY <1>0, <1>3, <2>1, StartStep DEF PlanStub
  <2>3. RunTypes'
    BY <1>0, <1>3, <2>1, <2>2 DEF PlanStub, RunTypes
  <2> QED BY <2>2, <2>3 DEF IInv, TypeOK, GateTypes, RunTypes
<1>4. CASE DropStubs
  <2>1. UNCHANGED <<phase, status, iterations, hold, escalation, promotion, integrated, tree,
                  reviewed, passed>>
    BY <1>4 DEF DropStubs, gate
  <2>2. chainPlan' \in Seq(SUBSET Items)
    BY <1>4 DEF DropStubs
  <2>3. GateTypes' /\ RunTypes'
    BY <1>0, <1>4, <2>1, <2>2 DEF DropStubs, RunTypes, GateTypes, TypeOK
  <2>4. Gated' /\ Working'
    BY <1>0, <2>1 DEF Gated, Working, Current
  <2>5. Versions' /\ Reviewed'
    BY <1>0, <2>1, QuietStep DEF TypeOK, In
  <2> QED BY <2>3, <2>4, <2>5 DEF IInv, TypeOK, GateTypes, RunTypes
<1>5. CASE PlanIteration
  <2>1. PICK refs \in SUBSET Items, skips \in Skips :
          /\ roadmap' = [i \in Items |-> IF i \in skips THEN "SKIPPED" ELSE roadmap[i]]
          /\ StartIteration(refs, ChainMode)
    BY <1>5 DEF PlanIteration
  <2>2. UNCHANGED <<polish, backlog, packet, reviewed, passed, tree, edits>>
    BY <1>5 DEF PlanIteration
  <2>3. GateTypes' /\ Gated' /\ Working' /\ Versions' /\ Reviewed' /\ iterations' \in Seq(Iteration)
    BY <1>0, <2>1, <2>2, StartStep
  <2>4. chainPlan' \in Seq(SUBSET Items)
    <3>1. CASE chainPlan' = chainPlan
      BY <1>0, <3>1 DEF RunTypes
    <3>2. CASE chainPlan' # chainPlan
      <4>1. PICK k \in 0..StubLimit : chainPlan' \in [1..k -> Stubs]
        BY <1>5, <3>2 DEF PlanIteration
      <4>2. k \in Nat
        BY <4>1, StubLimitNat
      <4>3. chainPlan' \in [1..k -> SUBSET Items]
        BY <4>1, ChainAssumption
      <4> QED BY <4>2, <4>3, SeqDef
    <3> QED BY <3>1, <3>2
  <2>5. roadmap' \in [Items -> RoadmapStatuses]
    BY <1>0, <2>1 DEF RunTypes, RoadmapStatuses
  <2>6. RunTypes'
    BY <1>0, <2>2, <2>3, <2>4, <2>5 DEF RunTypes
  <2> QED BY <2>3, <2>6 DEF IInv, TypeOK, GateTypes, RunTypes
<1>6. CASE PlanEnds
  <2>1. GateTypes' /\ Gated' /\ status' # "RUNNING" /\ escalation' = NoEscalation
    BY <1>0, <1>6, AwaitStep DEF PlanEnds
  <2>2. roadmap' \in [Items -> RoadmapStatuses]
    BY <1>0, <1>6 DEF PlanEnds, RunTypes, RoadmapStatuses
  <2>3. RunTypes'
    BY <1>0, <1>6, <2>2 DEF PlanEnds, RunTypes
  <2>4. Working'
    BY <2>1 DEF Working, NoEscalation, SideEffectPhases
  <2>5. Versions' /\ Reviewed'
    BY <1>0, <1>6, <2>1, QuietStep DEF PlanEnds, TypeOK, In
  <2> QED BY <2>1, <2>3, <2>4, <2>5 DEF IInv, TypeOK, GateTypes, RunTypes
<1> QED BY <1>1, <1>2, <1>3, <1>4, <1>5, <1>6

\* _accept_provisional, after SELF_VERIFY or after a light REVIEW.
LEMMA ProvisionalStep ==
  ASSUME TypeOK, Gated, Working, Versions, Reviewed, status = "RUNNING", phase \in IterationPhases,
         AcceptProvisional, tree' = tree, passed' = passed, reviewed' \in {reviewed, tree}
  PROVE  /\ GateTypes' /\ Gated' /\ Working' /\ Versions' /\ Reviewed'
         /\ iterations' \in Seq(Iteration) /\ roadmap' \in [Items -> RoadmapStatuses]
<1> DEFINE it == [Current EXCEPT !.status = "PROVISIONAL"]
<1>1. GateTypes' /\ Gated' /\ status' = "RUNNING" /\ phase' = "ROADMAP_CHECK"
      /\ escalation' = NoEscalation
  BY GotoStep DEF AcceptProvisional, RunPhases
<1>2. iterations # <<>> /\ Current \in Iteration /\ Current.work <= tree
  BY CurrentIteration DEF TypeOK, Working, Versions, IterationPhases
<1>3. it \in Iteration /\ it.status = "PROVISIONAL" /\ it.work = Current.work
  BY <1>2, UpdatedIteration
<1>4. SetCurrent(it)
  BY DEF AcceptProvisional
<1> HIDE DEF it
<1>5. iterations' \in Seq(Iteration) /\ iterations' # <<>> /\ Current' = it
  BY <1>2, <1>3, <1>4, ReplaceCurrent DEF TypeOK
<1>6. Working'
  BY <1>1, <1>5 DEF Working, NoEscalation, SideEffectPhases, IterationPhases
<1>7. Versions' /\ Reviewed'
  BY <1>1, <1>2, <1>3, <1>4, WriteStep DEF TypeOK, In
<1>8. roadmap' \in [Items -> RoadmapStatuses]
  BY DEF AcceptProvisional, MarkRoadmapDone, TypeOK, RoadmapStatuses
<1> QED BY <1>1, <1>5, <1>6, <1>7, <1>8

\* _begin_repair, from a phase that works on the current iteration.
LEMMA RepairStep ==
  ASSUME TypeOK, Gated, Working, Versions, Reviewed, status = "RUNNING", phase \in IterationPhases,
         phase \notin SideEffectPhases,
         BeginRepair, UNCHANGED <<iterations, tree, reviewed, passed>>
  PROVE  GateTypes' /\ Gated' /\ Working' /\ Versions' /\ Reviewed'
<1>1. iterations # <<>> /\ Current.status = "IN_PROGRESS" /\ Current' = Current
  BY DEF Working, IterationPhases, Current
<1>2. CASE Goto("REPAIR")
  <2>1. GateTypes' /\ Gated' /\ status' = "RUNNING" /\ phase' = "REPAIR" /\ escalation' = NoEscalation
    BY <1>2, GotoStep DEF RunPhases
  <2>2. Working'
    BY <1>1, <2>1 DEF Working
  <2>3. Versions' /\ Reviewed'
    BY <2>1, QuietStep DEF TypeOK, In
  <2> QED BY <2>1, <2>2, <2>3
<1>3. CASE Escalate("OTHER")
  <2>1. GateTypes' /\ Gated' /\ status' # "RUNNING" /\ escalation'.from = phase
    BY <1>3, EscalateStep
  <2>2. Working'
    BY <1>1, <2>1 DEF Working
  <2>3. Versions' /\ Reviewed'
    BY <2>1, QuietStep DEF TypeOK, In
  <2> QED BY <2>1, <2>2, <2>3
<1> QED BY <1>2, <1>3 DEF BeginRepair

LEMMA WorkSteps ==
  ASSUME IInv, Execute \/ SelfVerifyPasses \/ SelfVerifyFails \/ Repair \/ PrepareReview, UNCHANGED chained
  PROVE  IInv'
<1>0. /\ TypeOK /\ Gated /\ Working /\ Versions /\ Reviewed /\ RunTypes /\ status = "RUNNING"
      /\ phase \in IterationPhases /\ iterations # <<>> /\ Current.status = "IN_PROGRESS"
  BY Types DEF IInv, In, Execute, SelfVerifyPasses, SelfVerifyFails, Repair, PrepareReview,
     IterationPhases, RunPhases, Working
<1>00. Current \in Iteration /\ Current.work <= tree /\ tree \in Nat
  BY <1>0, CurrentIteration DEF TypeOK, Versions
<1>1. CASE Execute
  <2> DEFINE it == [Current EXCEPT !.executed = TRUE, !.work = tree']
  <2>1. GateTypes' /\ Gated' /\ status' = "RUNNING" /\ phase' = "SELF_VERIFY"
        /\ escalation' = NoEscalation
    BY <1>0, <1>1, GotoStep DEF Execute, RunPhases
  <2>2. tree' \in Nat /\ tree' >= tree /\ UNCHANGED <<reviewed, passed>>
    BY <1>00, <1>1 DEF Execute, MayChange
  <2>3. it \in Iteration /\ it.status = "IN_PROGRESS" /\ it.work = tree'
    <3> HIDE DEF Current
    <3>1. it \in Iteration /\ it.work = tree' /\ it.status = Current.status
      BY <1>00, <2>2, WorkedIteration
    <3> QED BY <1>0, <3>1
  <2>4. SetCurrent(it)
    BY <1>1 DEF Execute
  <2> HIDE DEF it
  <2>5. iterations' \in Seq(Iteration) /\ iterations' # <<>> /\ Current' = it
    BY <1>0, <2>3, <2>4, ReplaceCurrent DEF TypeOK
  <2>6. RunTypes'
    BY <1>0, <1>1, <2>2, <2>5 DEF Execute, RunTypes
  <2>7. Working'
    BY <2>1, <2>3, <2>5 DEF Working, NoEscalation, SideEffectPhases
  <2>8. Versions' /\ Reviewed'
    BY <1>0, <2>1, <2>2, <2>3, <2>4, WriteStep DEF In
  <2> QED BY <2>1, <2>6, <2>7, <2>8 DEF IInv, TypeOK, GateTypes, RunTypes
<1>2. CASE Repair
  <2> DEFINE it == [Current EXCEPT !.attempts = @ + 1, !.work = tree']
  <2>1. GateTypes' /\ Gated' /\ status' = "RUNNING" /\ phase' = "SELF_VERIFY"
        /\ escalation' = NoEscalation
    BY <1>0, <1>2, GotoStep DEF Repair, RunPhases
  <2>2. tree' \in Nat /\ tree' >= tree /\ UNCHANGED <<reviewed, passed>>
    BY <1>00, <1>2 DEF Repair, MayChange
  <2>3. it \in Iteration /\ it.status = "IN_PROGRESS" /\ it.work = tree'
    <3> HIDE DEF Current
    <3>1. it \in Iteration /\ it.work = tree' /\ it.status = Current.status
      BY <1>00, <2>2, WorkedIteration
    <3> QED BY <1>0, <3>1
  <2>4. SetCurrent(it)
    BY <1>2 DEF Repair
  <2> HIDE DEF it
  <2>5. iterations' \in Seq(Iteration) /\ iterations' # <<>> /\ Current' = it
    BY <1>0, <2>3, <2>4, ReplaceCurrent DEF TypeOK
  <2>6. RunTypes'
    BY <1>0, <1>2, <2>2, <2>5 DEF Repair, RunTypes
  <2>7. Working'
    BY <2>1, <2>3, <2>5 DEF Working, NoEscalation, SideEffectPhases
  <2>8. Versions' /\ Reviewed'
    BY <1>0, <2>1, <2>2, <2>3, <2>4, WriteStep DEF In
  <2> QED BY <2>1, <2>6, <2>7, <2>8 DEF IInv, TypeOK, GateTypes, RunTypes
<1>3. CASE SelfVerifyPasses
  <2>1. UNCHANGED <<chainPlan, polish, backlog, packet, reviewed, passed, tree, edits>>
    BY <1>3 DEF SelfVerifyPasses
  <2>2. CASE AcceptProvisional
    <3>1. GateTypes' /\ Gated' /\ Working' /\ Versions' /\ Reviewed'
          /\ iterations' \in Seq(Iteration) /\ roadmap' \in [Items -> RoadmapStatuses]
      BY <1>0, <2>1, <2>2, ProvisionalStep
    <3>2. RunTypes'
      BY <1>0, <2>1, <3>1 DEF RunTypes
    <3> QED BY <3>1, <3>2 DEF IInv, TypeOK, GateTypes, RunTypes
  <2>3. CASE Goto("AWAITING_REVIEW") /\ UNCHANGED <<roadmap, iterations>>
    <3>1. GateTypes' /\ Gated' /\ status' = "RUNNING" /\ phase' = "AWAITING_REVIEW"
          /\ escalation' = NoEscalation
      BY <1>0, <2>3, GotoStep DEF RunPhases
    <3>2. RunTypes'
      BY <1>0, <2>1, <2>3 DEF RunTypes
    <3>3. Working'
      BY <1>0, <2>3, <3>1 DEF Working, NoEscalation, SideEffectPhases, Current
    <3>4. Versions' /\ Reviewed'
      BY <1>0, <1>00, <2>1, <2>3, <3>1, QuietStep DEF In
    <3> QED BY <3>1, <3>2, <3>3, <3>4 DEF IInv, TypeOK, GateTypes, RunTypes
  <2> QED BY <1>3, <2>2, <2>3 DEF SelfVerifyPasses
<1>4. CASE SelfVerifyFails
  <2>1. GateTypes' /\ Gated' /\ Working' /\ Versions' /\ Reviewed'
    BY <1>0, <1>4, RepairStep DEF SelfVerifyFails, In, SideEffectPhases, run
  <2>2. RunTypes'
    BY <1>0, <1>4 DEF SelfVerifyFails, RunTypes, run
  <2> QED BY <2>1, <2>2 DEF IInv, TypeOK, GateTypes, RunTypes
<1>5. CASE PrepareReview
  <2>1. GateTypes' /\ Gated' /\ status' = "RUNNING" /\ phase' = "REVIEW" /\ escalation' = NoEscalation
    BY <1>0, <1>5, GotoStep DEF PrepareReview, RunPhases
  <2>2. RunTypes'
    BY <1>0, <1>5 DEF PrepareReview, RunTypes
  <2>3. Working'
    BY <1>0, <1>5, <2>1 DEF PrepareReview, Working, NoEscalation, SideEffectPhases, Current
  <2>4. Versions' /\ Reviewed'
    BY <1>0, <1>00, <1>5, <2>1, QuietStep DEF PrepareReview, In
  <2> QED BY <2>1, <2>2, <2>3, <2>4 DEF IInv, TypeOK, GateTypes, RunTypes
<1> QED BY <1>1, <1>2, <1>3, <1>4, <1>5

\* An escalation that leaves the iterations alone.
LEMMA EscalationKeeps ==
  ASSUME TypeOK, Gated, Working, Versions, Reviewed, status = "RUNNING",
         NEW code \in {"TIMEOUT", "OTHER"}, Escalate(code),
         tree' \in Nat, tree' >= tree, UNCHANGED <<iterations, reviewed, passed>>
  PROVE  GateTypes' /\ Gated' /\ Working' /\ Versions' /\ Reviewed'
<1>1. /\ GateTypes' /\ Gated' /\ status' # "RUNNING" /\ phase' = "AWAITING_HUMAN"
      /\ escalation'.from = phase
  BY EscalateStep
<1>2. phase \in SideEffectPhases => iterations # <<>> /\ Current.status = "IN_PROGRESS"
  BY DEF Working, SideEffectPhases, IterationPhases, RunPhases
<1>3. Working'
  BY <1>1, <1>2 DEF Working, Current
<1>4. Versions' /\ Reviewed'
  BY <1>1, QuietStep DEF In
<1> QED BY <1>1, <1>3, <1>4

LEMMA ReviewSteps ==
  ASSUME IInv, ReviewPasses \/ ReviewRepairs \/ ReviewEscalates \/ FinalReviewRepairs, UNCHANGED chained
  PROVE  IInv'
<1>0. /\ TypeOK /\ Gated /\ Working /\ Versions /\ Reviewed /\ RunTypes /\ status = "RUNNING"
      /\ phase \in {"REVIEW", "FINAL_REVIEW"} /\ phase \in IterationPhases
      /\ phase \notin SideEffectPhases
      /\ iterations # <<>> /\ Current.status = "IN_PROGRESS" /\ tree \in Nat
  BY Types DEF IInv, In, ReviewPasses, ReviewRepairs, ReviewEscalates, FinalReviewRepairs,
     IterationPhases, RunPhases, SideEffectPhases, Working, TypeOK
<1>00. packet' = tree /\ UNCHANGED <<chainPlan, polish, passed, tree, edits>>
  BY DEF ReviewPasses, ReviewRepairs, ReviewEscalates, FinalReviewRepairs
<1>000. backlog' \in BOOLEAN
  BY <1>0 DEF ReviewPasses, ReviewRepairs, ReviewEscalates, FinalReviewRepairs, Relax, RunTypes
<1>1. CASE ReviewPasses
  <2>1. reviewed' = tree
    BY <1>1, <1>00 DEF ReviewPasses
  <2>2. CASE AcceptProvisional
    <3>1. GateTypes' /\ Gated' /\ Working' /\ Versions' /\ Reviewed'
          /\ iterations' \in Seq(Iteration) /\ roadmap' \in [Items -> RoadmapStatuses]
      BY <1>0, <1>00, <2>1, <2>2, ProvisionalStep
    <3>2. RunTypes'
      BY <1>0, <1>00, <1>000, <2>1, <3>1 DEF RunTypes
    <3> QED BY <3>1, <3>2 DEF IInv, TypeOK, GateTypes, RunTypes
  <2>3. CASE Goto("FINAL_REVIEW") /\ UNCHANGED <<roadmap, iterations>>
    <3>1. GateTypes' /\ Gated' /\ status' = "RUNNING" /\ phase' = "FINAL_REVIEW"
          /\ escalation' = NoEscalation
      BY <1>0, <2>3, GotoStep DEF RunPhases
    <3>2. RunTypes'
      BY <1>0, <1>00, <1>000, <2>1, <2>3 DEF RunTypes
    <3>3. Working'
      BY <1>0, <2>3, <3>1 DEF Working, NoEscalation, SideEffectPhases, Current
    <3>4. \A i \in 1..Len(iterations) : iterations[i].work \in Nat /\ iterations[i].work <= tree
      BY <1>0, CurrentIteration DEF TypeOK, Versions
    <3>5. Versions'
      BY <1>0, <1>00, <2>1, <2>3, <3>4 DEF Versions, RunTypes
    <3>6. Reviewed'
      BY <1>0, <1>00, <2>1, <2>3, <3>4 DEF Reviewed
    <3> QED BY <3>1, <3>2, <3>3, <3>5, <3>6 DEF IInv, TypeOK, GateTypes, RunTypes
  <2> QED BY <1>1, <2>2, <2>3 DEF ReviewPasses
<1>2. CASE ReviewRepairs \/ FinalReviewRepairs
  <2>1. BeginRepair /\ UNCHANGED <<roadmap, iterations, reviewed>>
    BY <1>2 DEF ReviewRepairs, FinalReviewRepairs
  <2>2. GateTypes' /\ Gated' /\ Working' /\ Versions' /\ Reviewed'
    BY <1>0, <1>00, <2>1, RepairStep
  <2>3. RunTypes'
    BY <1>0, <1>00, <1>000, <2>1 DEF RunTypes
  <2> QED BY <2>2, <2>3 DEF IInv, TypeOK, GateTypes, RunTypes
<1>3. CASE ReviewEscalates
  <2>1. Escalate("OTHER") /\ UNCHANGED <<roadmap, iterations, reviewed>>
    BY <1>3 DEF ReviewEscalates
  <2>2. GateTypes' /\ Gated' /\ Working' /\ Versions' /\ Reviewed'
    BY <1>0, <1>00, <2>1, EscalationKeeps
  <2>3. RunTypes'
    BY <1>0, <1>00, <1>000, <2>1 DEF RunTypes
  <2> QED BY <2>2, <2>3 DEF IInv, TypeOK, GateTypes, RunTypes
<1> QED BY <1>1, <1>2, <1>3

\* The heart of the matter: a final review accepts what it has just seen, and
\* a review has passed before it.
LEMMA FinalReviewSteps ==
  ASSUME IInv, FinalReviewPasses \/ FinalReviewEscalates, UNCHANGED chained
  PROVE  IInv'
<1>0. /\ TypeOK /\ Gated /\ Working /\ Versions /\ Reviewed /\ RunTypes /\ status = "RUNNING"
      /\ phase = "FINAL_REVIEW" /\ In("FINAL_REVIEW") /\ iterations # <<>> /\ tree \in Nat
  BY Types DEF IInv, In, FinalReviewPasses, FinalReviewEscalates, IterationPhases, RunPhases,
     Working, TypeOK
<1>00. packet' = tree /\ UNCHANGED <<polish, reviewed, tree, edits>>
  BY DEF FinalReviewPasses, FinalReviewEscalates
<1>000. backlog' \in BOOLEAN
  BY <1>0 DEF FinalReviewPasses, FinalReviewEscalates, Relax, RunTypes
<1>a. /\ Current \in Iteration /\ Len(iterations) \in 1..Len(iterations)
      /\ Current = iterations[Len(iterations)]
      /\ \A i \in 1..Len(iterations) :
           /\ iterations[i].work \in Nat
           /\ iterations[i].work <= tree /\ iterations[i].work <= reviewed
  BY <1>0, CurrentIteration DEF TypeOK, Versions
<1>1. CASE FinalReviewPasses
  <2> DEFINE its == [iterations EXCEPT ![Len(iterations)].status = "ACCEPTED"]
             it  == [Current EXCEPT !.status = "ACCEPTED"]
  <2>1. GateTypes' /\ Gated' /\ status' = "RUNNING" /\ phase' = "ROADMAP_CHECK"
        /\ escalation' = NoEscalation
    BY <1>0, <1>1, GotoStep DEF FinalReviewPasses, RunPhases
  <2>2. it \in Iteration /\ it.work = Current.work
    <3> HIDE DEF Current
    <3> QED BY <1>a, UpdatedIteration
  <2>3. its = [iterations EXCEPT ![Len(iterations)] = it]
    BY DEF Current
  <2>4. /\ its \in Seq(Iteration) /\ Len(its) = Len(iterations) /\ its[Len(iterations)] = it
        /\ \A j \in 1..Len(iterations) : j # Len(iterations) => its[j] = iterations[j]
    <3> HIDE DEF its, it
    <3> QED BY <1>0, <1>a, <2>2, <2>3, ExceptSeq DEF RunTypes
  <2>5. \A j \in 1..Len(its) : its[j].work <= tree /\ its[j].work <= reviewed /\ its[j].work \in Nat
    <3> HIDE DEF its, it
    <3> QED BY <1>a, <2>2, <2>4
  <2>6. iterations' = its \/ iterations' = CloseChain(its)
    BY <1>1 DEF FinalReviewPasses
  <2> HIDE DEF its, it
  <2>7. iterations' \in Seq(Iteration) /\ Len(iterations') = Len(its)
        /\ \A j \in 1..Len(its) : iterations'[j].work = its[j].work
    BY <2>4, <2>6, CloseChainFacts
  <2>8. iterations' # <<>>
    BY <1>a, <2>4, <2>7, EmptySeq
  <2>9. chainPlan' \in Seq(SUBSET Items)
    BY <1>0, <1>1, EmptySeq DEF FinalReviewPasses, RunTypes
  <2>10. roadmap' \in [Items -> RoadmapStatuses]
    BY <1>0, <1>1 DEF FinalReviewPasses, MarkRoadmapDone, RunTypes, RoadmapStatuses
  <2>11. passed' = tree
    BY <1>1 DEF FinalReviewPasses
  <2>12. RunTypes'
    BY <1>0, <1>00, <1>000, <2>7, <2>9, <2>10, <2>11 DEF RunTypes
  <2>13. Working'
    BY <2>1, <2>8 DEF Working, IterationPhases, NoEscalation, SideEffectPhases
  <2>14. Versions'
    BY <1>0, <1>00, <2>1, <2>5, <2>7, <2>11 DEF Versions, In
  <2>15. Reviewed'
    BY <1>00, <2>5, <2>7, <2>11 DEF Reviewed
  <2> QED BY <2>1, <2>12, <2>13, <2>14, <2>15 DEF IInv, TypeOK, GateTypes, RunTypes
<1>2. CASE FinalReviewEscalates
  <2> DEFINE it == [Current EXCEPT !.status = "ESCALATED"]
  <2>1. /\ GateTypes' /\ Gated' /\ status' # "RUNNING" /\ phase' = "AWAITING_HUMAN"
        /\ escalation'.from = phase
    BY <1>0, <1>2, EscalateStep DEF FinalReviewEscalates
  <2>2. it \in Iteration /\ it.status = "ESCALATED" /\ it.work = Current.work
    <3> HIDE DEF Current
    <3> QED BY <1>a, UpdatedIteration
  <2>3. SetCurrent(it) /\ UNCHANGED <<roadmap, chainPlan, passed>>
    BY <1>2 DEF FinalReviewEscalates
  <2> HIDE DEF it
  <2>4. iterations' \in Seq(Iteration)
    BY <1>0, <2>2, <2>3, ReplaceCurrent DEF RunTypes
  <2>5. RunTypes'
    BY <1>0, <1>00, <1>000, <2>3, <2>4 DEF RunTypes
  <2>6. Working'
    BY <1>0, <2>1 DEF Working, SideEffectPhases
  <2>7. Current.work <= tree
    BY <1>a
  <2>8. Versions' /\ Reviewed'
    BY <1>0, <1>00, <2>1, <2>2, <2>3, <2>7, WriteStep DEF In
  <2> QED BY <2>1, <2>5, <2>6, <2>8 DEF IInv, TypeOK, GateTypes, RunTypes
<1> QED BY <1>1, <1>2

LEMMA PhaseEscalatesStep ==
  ASSUME IInv, PhaseEscalates, UNCHANGED chained
  PROVE  IInv'
<1>0. /\ TypeOK /\ Gated /\ Working /\ Versions /\ Reviewed /\ RunTypes /\ status = "RUNNING"
      /\ tree \in Nat
  BY Types DEF IInv, PhaseEscalates, TypeOK
<1>1. /\ tree' \in {tree, tree + 1} /\ packet' \in {packet, tree}
      /\ UNCHANGED <<roadmap, chainPlan, polish, backlog, reviewed, passed, edits>>
  BY DEF PhaseEscalates, MayChange
<1>2. tree' \in Nat /\ tree' >= tree
  BY <1>0, <1>1
<1>3. PICK code \in {"TIMEOUT", "OTHER"} : Escalate(code)
  BY DEF PhaseEscalates
<1>4. CASE UNCHANGED iterations
  <2>1. GateTypes' /\ Gated' /\ Working' /\ Versions' /\ Reviewed'
    BY <1>0, <1>1, <1>2, <1>3, <1>4, EscalationKeeps
  <2>2. RunTypes'
    BY <1>0, <1>1, <1>2, <1>4 DEF RunTypes
  <2> QED BY <2>1, <2>2 DEF IInv, TypeOK, GateTypes, RunTypes
<1>5. CASE ~UNCHANGED iterations
  <2>1. phase = "REPAIR" /\ iterations # <<>> /\ Current.status = "IN_PROGRESS"
        /\ Current \in Iteration /\ Current.work <= tree
    BY <1>0, <1>5, CurrentIteration
       DEF PhaseEscalates, Working, IterationPhases, RunPhases, Versions, RunTypes
  <2>2. PICK k \in {0, 1} : SetCurrent([Current EXCEPT !.attempts = @ + k])
    BY <1>5, <2>1 DEF PhaseEscalates
  <2> DEFINE it == [Current EXCEPT !.attempts = @ + k]
  <2>3. it \in Iteration /\ it.status = Current.status /\ it.work = Current.work
    <3> HIDE DEF Current
    <3> QED BY <2>1, UpdatedIteration
  <2> HIDE DEF it
  <2>4. iterations' \in Seq(Iteration) /\ iterations' # <<>> /\ Current' = it
    BY <1>0, <2>1, <2>2, <2>3, ReplaceCurrent DEF RunTypes, it
  <2>5. /\ GateTypes' /\ Gated' /\ status' # "RUNNING" /\ phase' = "AWAITING_HUMAN"
        /\ escalation'.from = phase
    BY <1>0, <1>3, EscalateStep
  <2>6. RunTypes'
    BY <1>0, <1>1, <1>2, <2>4 DEF RunTypes
  <2>7. Working'
    BY <2>1, <2>3, <2>4, <2>5 DEF Working
  <2>8. it.work <= tree' /\ SetCurrent(it)
    BY <1>0, <1>2, <2>1, <2>2, <2>3 DEF Iteration, it
  <2>9. Versions' /\ Reviewed'
    BY <1>0, <1>1, <1>2, <2>1, <2>3, <2>5, <2>8, WriteStep DEF In
  <2> QED BY <2>5, <2>6, <2>7, <2>9 DEF IInv, TypeOK, GateTypes, RunTypes
<1> QED BY <1>4, <1>5

LEMMA HumanSteps ==
  ASSUME IInv, Human \/ OutsideEdit, UNCHANGED chained
  PROVE  IInv'
<1>0. /\ TypeOK /\ Gated /\ Working /\ Versions /\ Reviewed /\ RunTypes /\ tree \in Nat
  BY Types DEF IInv, TypeOK
<1>1. CASE AdoptTimedOut
  <2> DEFINE it == [Current EXCEPT !.executed = TRUE, !.work = tree]
  <2>1. iterations # <<>> /\ Current.status = "IN_PROGRESS" /\ Current \in Iteration
    BY <1>0, <1>1, CurrentIteration DEF AdoptTimedOut, TimeoutProven, Working, RunTypes
  <2>2. it \in Iteration /\ it.status = "IN_PROGRESS" /\ it.work = tree
    <3> HIDE DEF Current
    <3>1. it \in Iteration /\ it.work = tree /\ it.status = Current.status
      BY <1>0, <2>1, WorkedIteration
    <3> QED BY <2>1, <3>1
  <2>3. /\ SetCurrent(it) /\ status' = "RUNNING" /\ phase' = "SELF_VERIFY"
        /\ escalation' = NoEscalation /\ hold' = NoHold
        /\ UNCHANGED <<roadmap, chainPlan, polish, backlog, packet, reviewed, passed, promotion,
                       integrated, tree, edits>>
    BY <1>1 DEF AdoptTimedOut
  <2> HIDE DEF it
  <2>4. iterations' \in Seq(Iteration) /\ iterations' # <<>> /\ Current' = it
    BY <1>0, <2>1, <2>2, <2>3, ReplaceCurrent DEF RunTypes
  <2>5. /\ hold' \in [reason : {"none", "ESCALATION", "ROADMAP_EXHAUSTED", "ITERATION_CAP"},
                      promotable : BOOLEAN, tree : Nat \cup {NoTree}]
        /\ escalation' \in [code : {"none", "TIMEOUT", "OTHER"}, from : RunPhases \cup {"none"}]
    BY <2>3 DEF NoHold, NoEscalation
  <2>6. GateTypes' /\ RunTypes'
    BY <1>0, <2>3, <2>4, <2>5 DEF TypeOK, GateTypes, RunTypes, RunPhases
  <2>7. Gated'
    BY <2>3 DEF Gated, RunPhases
  <2>8. Working'
    BY <2>2, <2>3, <2>4 DEF Working, NoEscalation, SideEffectPhases
  <2>9. Versions' /\ Reviewed'
    BY <1>0, <2>1, <2>2, <2>3, WriteStep DEF In
  <2> QED BY <2>6, <2>7, <2>8, <2>9 DEF IInv, TypeOK, GateTypes, RunTypes
<1>2. ASSUME NEW v \in {"HUMAN_APPROVED", "REJECTED", "PROMOTED"}, Decide(v),
             integrated' \in Seq(Nat), promotion' \in {"none", "found", "moved"}
      PROVE  IInv'
  <2>1. status' = v /\ phase' = v /\ UNCHANGED <<hold, escalation, tree, edits>> /\ UNCHANGED run
    BY <1>2 DEF Decide
  <2>2. RunTypes' /\ UNCHANGED <<iterations, reviewed, passed>>
    BY <1>0, <2>1 DEF RunTypes, run
  <2>3. GateTypes'
    BY <1>0, <1>2, <2>1 DEF TypeOK, GateTypes, GatePhases
  <2>4. Gated'
    BY <2>1 DEF Gated
  <2>5. Working'
    BY <1>0, <2>1, <2>2 DEF Working, Current
  <2>6. Versions' /\ Reviewed'
    BY <1>0, <2>1, <2>2, QuietStep DEF In
  <2> QED BY <2>2, <2>3, <2>4, <2>5, <2>6 DEF IInv, TypeOK, GateTypes, RunTypes
<1>3. integrated \in Seq(Nat) /\ Append(integrated, tree) \in Seq(Nat)
  BY <1>0, AppendProperties DEF TypeOK
<1>4. CASE Approve \/ Reject \/ PromoteRecords \/ PromoteIntegrates
  BY <1>0, <1>2, <1>3, <1>4
     DEF Approve, Reject, PromoteRecords, PromoteIntegrates, Integrate, TypeOK
<1>5. CASE PromoteChecks \/ PromoteInterrupted \/ PromoteLapses
  <2>1. /\ UNCHANGED <<phase, status, hold, escalation, tree, edits>> /\ UNCHANGED run
        /\ integrated' \in Seq(Nat) /\ promotion' \in {"none", "found", "moved"}
    BY <1>3, <1>5 DEF PromoteChecks, PromoteInterrupted, PromoteLapses, Integrate
  <2>2. RunTypes' /\ UNCHANGED <<iterations, reviewed, passed>>
    BY <1>0, <2>1 DEF RunTypes, run
  <2>3. GateTypes' /\ Gated' /\ Working'
    BY <1>0, <2>1, <2>2 DEF TypeOK, GateTypes, Gated, Working, Current
  <2>4. Versions' /\ Reviewed'
    BY <1>0, <2>1, <2>2, QuietStep DEF In
  <2> QED BY <2>2, <2>3, <2>4 DEF IInv, TypeOK, GateTypes, RunTypes
<1>6. CASE OutsideEdit
  <2>1. /\ UNCHANGED <<phase, status, hold, escalation, integrated>> /\ UNCHANGED run
        /\ tree' = tree + 1 /\ edits' \in 0..MaxEdits[chained]
        /\ promotion' \in {"none", "found", "moved"}
    BY <1>0, <1>6, BoundAssumption DEF OutsideEdit, RunTypes, TypeOK
  <2>2. RunTypes' /\ UNCHANGED <<iterations, reviewed, passed>>
    BY <1>0, <2>1 DEF RunTypes, run
  <2>3. GateTypes' /\ Gated' /\ Working'
    BY <1>0, <2>1, <2>2 DEF TypeOK, GateTypes, Gated, Working, Current
  <2>4. Versions' /\ Reviewed'
    BY <1>0, <2>1, <2>2, QuietStep DEF In
  <2> QED BY <2>2, <2>3, <2>4 DEF IInv, TypeOK, GateTypes, RunTypes
<1> QED BY <1>1, <1>4, <1>5, <1>6 DEF Human

LEMMA RoadmapSteps ==
  ASSUME IInv, StartPolish \/ RoadmapEnds \/ NextIteration \/ CloseOpenChain, UNCHANGED chained
  PROVE  IInv'
<1>0. TypeOK /\ Gated /\ Working /\ Versions /\ Reviewed /\ RunTypes /\ phase = "ROADMAP_CHECK"
      /\ status = "RUNNING"
  BY Types DEF IInv, In, StartPolish, RoadmapEnds, NextIteration, CloseOpenChain
<1>1. CASE StartPolish
  <2>1. GateTypes' /\ Gated' /\ status' = "RUNNING" /\ phase' = "PLAN" /\ escalation' = NoEscalation
    BY <1>0, <1>1, GotoStep DEF StartPolish, RunPhases
  <2>2. RunTypes'
    BY <1>0, <1>1 DEF StartPolish, RunTypes
  <2>3. Working'
    BY <2>1 DEF Working, IterationPhases, NoEscalation, SideEffectPhases
  <2>4. Versions' /\ Reviewed'
    BY <1>0, <1>1, <2>1, QuietStep DEF StartPolish, TypeOK, In
  <2> QED BY <2>1, <2>2, <2>3, <2>4 DEF IInv, TypeOK, GateTypes, RunTypes
<1>2. CASE RoadmapEnds
  <2>1. GateTypes' /\ Gated' /\ status' # "RUNNING" /\ escalation' = NoEscalation
    BY <1>0, <1>2, AwaitStep DEF RoadmapEnds
  <2>2. RunTypes'
    BY <1>0, <1>2 DEF RoadmapEnds, RunTypes, run
  <2>3. Working'
    BY <2>1 DEF Working, NoEscalation, SideEffectPhases
  <2>4. Versions' /\ Reviewed'
    BY <1>0, <1>2, <2>1, QuietStep DEF RoadmapEnds, TypeOK, In, run
  <2> QED BY <2>1, <2>2, <2>3, <2>4 DEF IInv, TypeOK, GateTypes, RunTypes
<1>3. CASE NextIteration
  <2>1. GateTypes' /\ Gated' /\ status' = "RUNNING" /\ phase' = "PLAN" /\ escalation' = NoEscalation
    BY <1>0, <1>3, GotoStep DEF NextIteration, RunPhases
  <2>2. RunTypes'
    BY <1>0, <1>3 DEF NextIteration, RunTypes, run
  <2>3. Working'
    BY <2>1 DEF Working, IterationPhases, NoEscalation, SideEffectPhases
  <2>4. Versions' /\ Reviewed'
    BY <1>0, <1>3, <2>1, QuietStep DEF NextIteration, TypeOK, In, run
  <2> QED BY <2>1, <2>2, <2>3, <2>4 DEF IInv, TypeOK, GateTypes, RunTypes
<1>4. CASE CloseOpenChain
  <2> DEFINE it == [Current EXCEPT !.status = "IN_PROGRESS", !.mode = "CHAIN_CLOSE"]
  <2>1. GateTypes' /\ Gated' /\ status' = "RUNNING" /\ phase' = "AWAITING_REVIEW"
        /\ escalation' = NoEscalation
    BY <1>0, <1>4, GotoStep DEF CloseOpenChain, RunPhases
  <2>2. iterations # <<>> /\ Current \in Iteration /\ Current.work <= tree
    BY <1>0, CurrentIteration DEF TypeOK, Working, Versions
  <2>3. it \in Iteration /\ it.status = "IN_PROGRESS" /\ it.work = Current.work
    BY <2>2, UpdatedIteration
  <2>4. SetCurrent(it) /\ UNCHANGED <<tree, reviewed, passed>>
    BY <1>4 DEF CloseOpenChain
  <2> HIDE DEF it
  <2>5. iterations' \in Seq(Iteration) /\ iterations' # <<>> /\ Current' = it
    BY <1>0, <2>2, <2>3, <2>4, ReplaceCurrent DEF TypeOK
  <2>6. RunTypes'
    BY <1>0, <1>4, <2>5 DEF CloseOpenChain, RunTypes
  <2>7. Working'
    BY <2>1, <2>3, <2>5 DEF Working, NoEscalation, SideEffectPhases
  <2>8. Versions' /\ Reviewed'
    BY <1>0, <2>1, <2>2, <2>3, <2>4, WriteStep DEF TypeOK, In
  <2> QED BY <2>1, <2>6, <2>7, <2>8 DEF IInv, TypeOK, GateTypes, RunTypes
<1> QED BY <1>1, <1>2, <1>3, <1>4

LEMMA InductiveStep ==
  ASSUME IInv, [Next]_vars
  PROVE  IInv'
<1>1. CASE Next
  <2>1. UNCHANGED chained
    BY <1>1 DEF Next
  <2> QED
  BY <1>1, <2>1, PlanSteps, WorkSteps, ReviewSteps, FinalReviewSteps, RoadmapSteps, PhaseEscalatesStep,
     HumanSteps DEF Next, Controller
<1>2. CASE UNCHANGED vars
  BY <1>2 DEF vars, run, gate, IInv, TypeOK, Gated, Working, Versions, Reviewed, In, Current
<1> QED BY <1>1, <1>2

LEMMA Invariance == Spec => []IInv
<1>1. Init => IInv
  BY InductiveInit
<1>2. IInv /\ [Next]_vars => IInv'
  BY InductiveStep
<1> QED BY <1>1, <1>2, PTL DEF Spec

\* Every step keeps the types, for every mandate and configuration.
THEOREM TypeCorrect == Spec => []TypeOK
BY Invariance, PTL DEF IInv

\* Accepted work was reviewed as it is (_do_final_review, _close_chain): for
\* every roadmap, chain length and review mode, whatever is escalated,
\* repaired, adopted after a timeout or edited from outside in between.
THEOREM AcceptedIsReviewed == Spec => []AcceptedWasReviewed
<1>1. IInv => AcceptedWasReviewed
  <2> SUFFICES ASSUME IInv, NEW i \in HasStatus("ACCEPTED")
               PROVE  iterations[i].work <= reviewed /\ iterations[i].work <= passed
    BY DEF AcceptedWasReviewed
  <2>1. DOMAIN iterations = 1..Len(iterations)
    BY LenProperties DEF IInv, TypeOK
  <2> QED BY <2>1 DEF IInv, Reviewed, HasStatus
<1> QED BY <1>1, Invariance, PTL

-----------------------------------------------------------------------------
\* The Human Gate.

\* What a controller's step can do to what the gate sees.
LEMMA ControllerAtGate ==
  ASSUME Controller, tree \in Nat
  PROVE  /\ status = "RUNNING"
         /\ tree' \in {tree, tree + 1}
         /\ \/ UNCHANGED gate
            \/ tree' = tree /\ \E r \in {"ROADMAP_EXHAUSTED", "ITERATION_CAP"} : AwaitHuman(r)
            \/ \E code \in {"TIMEOUT", "OTHER"} : Escalate(code)
<1> USE DEF In, Goto
<1>1. CASE PlanPolish \/ PolishEmpty \/ PlanStub \/ DropStubs \/ PlanIteration \/ PlanEnds
  BY <1>1 DEF PlanPolish, PolishEmpty, PlanStub, DropStubs, PlanIteration, PlanEnds,
     PlannerCalled, StartIteration
<1>2. CASE Execute \/ Repair
  BY <1>2 DEF Execute, Repair, MayChange
<1>3. CASE SelfVerifyPasses \/ SelfVerifyFails \/ PrepareReview
  BY <1>3 DEF SelfVerifyPasses, SelfVerifyFails, PrepareReview, AcceptProvisional, BeginRepair
<1>4. CASE ReviewPasses \/ ReviewRepairs \/ ReviewEscalates
  BY <1>4 DEF ReviewPasses, ReviewRepairs, ReviewEscalates, AcceptProvisional, BeginRepair
<1>5. CASE FinalReviewPasses \/ FinalReviewRepairs \/ FinalReviewEscalates
  BY <1>5 DEF FinalReviewPasses, FinalReviewRepairs, FinalReviewEscalates, BeginRepair
<1>6. CASE CloseOpenChain \/ StartPolish \/ RoadmapEnds \/ NextIteration
  BY <1>6 DEF CloseOpenChain, StartPolish, RoadmapEnds, NextIteration
<1>7. CASE PhaseEscalates
  BY <1>7 DEF PhaseEscalates, MayChange
<1> QED BY <1>1, <1>2, <1>3, <1>4, <1>5, <1>6, <1>7 DEF Controller

\* A candidate is on offer only to a human, and only when nothing escalated;
\* what is approved or promoted was on offer.  A promotion is under way only for
\* an approved candidate, which the worktree holds unless it moved since the
\* check.
OnOffer ==
  /\ hold.promotable => hold.tree \in Nat /\ status # "RUNNING" /\ escalation = NoEscalation
  /\ status \in {"HUMAN_APPROVED", "PROMOTED"} => hold.promotable
  /\ promotion # "none" => status = "HUMAN_APPROVED"
  /\ promotion = "found" => tree = hold.tree

\* Every step keeps that, and is a step of the abstract gate or none.
LEMMA GateStep ==
  ASSUME IInv, OnOffer, [Next]_vars
  PROVE  OnOffer' /\ [Gate!Next]_(Gate!vars)
<1> USE DEF Gate!Next, Gate!vars, Gate!Change, Gate!Offer, Gate!Approve, Gate!Reject,
            Gate!Check, Gate!Integrate, Gate!Lapse, Gate!Record
<1>0. /\ tree \in Nat /\ hold.promotable \in BOOLEAN /\ NoTree \notin Nat
      /\ status \in {"RUNNING", "AWAITING_HUMAN", "HUMAN_APPROVED", "PROMOTED", "REJECTED"}
      /\ status = "RUNNING" => escalation = NoEscalation
      /\ status # "RUNNING" => phase = status
  BY BoundAssumption DEF IInv, TypeOK, GatePhases, Gated
<1>1. CASE Controller
  <2>1. status = "RUNNING" /\ tree' \in {tree, tree + 1} /\ ~hold.promotable
    BY <1>0, <1>1, ControllerAtGate DEF OnOffer
  <2>2. CASE UNCHANGED gate
    BY <1>0, <2>1, <2>2 DEF gate, OnOffer
  <2>3. ASSUME tree' = tree, NEW r \in {"ROADMAP_EXHAUSTED", "ITERATION_CAP"}, AwaitHuman(r)
        PROVE  OnOffer' /\ [Gate!Next]_(Gate!vars)
    BY <1>0, <2>1, <2>3 DEF AwaitHuman, OnOffer
  <2>4. ASSUME NEW code \in {"TIMEOUT", "OTHER"}, Escalate(code)
        PROVE  OnOffer' /\ [Gate!Next]_(Gate!vars)
    BY <1>0, <2>1, <2>4 DEF Escalate, OnOffer
  <2> QED BY <1>0, <1>1, <2>2, <2>3, <2>4, ControllerAtGate
<1>2. CASE AdoptTimedOut
  <2>1. ~hold.promotable
    BY <1>2 DEF AdoptTimedOut, TimeoutProven, OnOffer, NoEscalation
  <2> QED BY <1>0, <1>2, <2>1 DEF AdoptTimedOut, TimeoutProven, AtGate, OnOffer, NoHold
<1>3. CASE Approve
  BY <1>0, <1>3 DEF Approve, AtGate, Decide, OnOffer
<1>4. CASE Reject
  BY <1>0, <1>4 DEF Reject, Decide, OnOffer
<1>5. CASE PromoteRecords
  BY <1>0, <1>5 DEF PromoteRecords, Decide, OnOffer, IInv, Gated, RunPhases
<1>6. CASE PromoteIntegrates \/ PromoteInterrupted
  BY <1>0, <1>6 DEF PromoteIntegrates, PromoteInterrupted, Integrate, Decide, OnOffer
<1>9. CASE PromoteChecks \/ PromoteLapses
  BY <1>0, <1>9 DEF PromoteChecks, PromoteLapses, OnOffer, IInv, Gated, RunPhases
<1>7. CASE OutsideEdit
  BY <1>0, <1>7 DEF OutsideEdit, OnOffer
<1>8. CASE UNCHANGED vars
  BY <1>8 DEF vars, gate, OnOffer
<1> QED BY <1>1, <1>2, <1>3, <1>4, <1>5, <1>6, <1>7, <1>8, <1>9 DEF Next, Human

\* The controller, its chains and its timeout recovery implement the Human
\* Gate (_await_human, approve_promotion, reject, promote): an integration
\* follows an approval and a check that found the approved content, and takes
\* that content unless the worktree was edited since the check.
THEOREM ImplementsPromotionGate == Spec => ImplementsGate
<1>1. Init => OnOffer /\ Gate!Init
  BY DEF Init, OnOffer, Gate!Init, NoHold
<1>2. IInv /\ OnOffer /\ [Next]_vars => OnOffer' /\ [Gate!Next]_(Gate!vars)
  BY GateStep
<1> QED BY <1>1, <1>2, Invariance, PTL DEF Spec, ImplementsGate, Gate!Spec

-----------------------------------------------------------------------------
\* The iteration budget.

\* Steps that start no iteration and write none, and do not go to PLAN.
LEMMA BudgetQuiet ==
  ASSUME Budget, UNCHANGED <<iterations, polish>>, In("PLAN")' => In("PLAN")
  PROVE  Budget'
BY DEF Budget, IterationBudget, Current, In

\* Steps that write the current iteration and keep its mode, or close it.
LEMMA BudgetWrite ==
  ASSUME Budget, TypeOK, iterations # <<>>, NEW it \in Iteration, SetCurrent(it),
         it.mode = Current.mode \/ Current.status = "PROVISIONAL",
         it.status = "PROVISIONAL" => it.mode = "LIGHT",
         UNCHANGED polish, ~In("PLAN")'
  PROVE  Budget'
<1>1. /\ Len(iterations') = Len(iterations) /\ Current' = it
      /\ \A j \in 1..Len(iterations) : iterations'[j] \in {it, iterations[j]}
  BY ReplaceCurrent DEF TypeOK
<1>2. /\ Len(iterations) \in 1..Len(iterations) /\ Current = iterations[Len(iterations)]
      /\ Current \in Iteration
  BY CurrentIteration DEF TypeOK
<1>3. \A j \in 1..Len(iterations') :
         iterations'[j].status = "PROVISIONAL" => iterations'[j].mode = "LIGHT"
  BY <1>1 DEF Budget
<1>4. Current.status = "PROVISIONAL" => ~(Len(iterations) > MaxIterations)
  <2> HIDE DEF Current
  <2>1. Current.status = "PROVISIONAL" => Current.mode = "LIGHT"
    BY <1>2 DEF Budget
  <2> QED BY <2>1 DEF Budget, IterationBudget
<1>5. Len(iterations') > MaxIterations => Current'.mode = "POLISH"
  <2> HIDE DEF Current
  <2> QED BY <1>1, <1>4 DEF Budget, IterationBudget
<1>6. IterationBudget'
  BY <1>1, <1>5 DEF Budget, IterationBudget
<1> QED BY <1>1, <1>3, <1>6 DEF Budget, In

\* Steps that start an iteration; the one beyond the budget is the polish pass.
LEMMA BudgetStart ==
  ASSUME Budget, TypeOK, NEW refs \in SUBSET Items, NEW mode \in Modes,
         StartIteration(refs, mode), status = "RUNNING", phase = "PLAN",
         \/ polish = "pending" /\ polish' = "done" /\ mode = "POLISH"
         \/ polish # "pending" /\ polish' = polish
  PROVE  Budget'
<1> DEFINE n == Len(iterations)
<1>0. MaxIterations \in Nat
  BY BoundAssumption
<1>1. /\ n \in Nat /\ Len(iterations') = n + 1 /\ iterations' # <<>>
      /\ \A j \in 1..n : iterations'[j] = iterations[j]
  BY AppendIteration DEF TypeOK
<1>2. iterations'[n + 1].status = "IN_PROGRESS" /\ iterations'[n + 1].mode = mode
  <2> DEFINE new == [status |-> "IN_PROGRESS", refs |-> refs, mode |-> mode,
                     attempts |-> 0, executed |-> FALSE, work |-> 0]
  <2>1. iterations \in Seq(Iteration)
    BY DEF TypeOK
  <2>2. iterations'[n + 1] = new
    BY <2>1, AppendIteration
  <2>3. new.status = "IN_PROGRESS" /\ new.mode = mode
    OBVIOUS
  <2> HIDE DEF new
  <2> QED BY <2>2, <2>3
<1>3. phase' = "EXECUTE"
  BY DEF StartIteration, Goto
<1>4. n <= MaxIterations /\ (polish # "pending" => n < MaxIterations)
  BY <1>0, <1>1 DEF Budget, In
<1> HIDE DEF n
<1>5. Current'.mode = mode
  BY <1>1, <1>2 DEF Current
<1>6. ASSUME NEW j \in 1..Len(iterations'), iterations'[j].status = "PROVISIONAL"
      PROVE  iterations'[j].mode = "LIGHT"
  <2>1. j \in 1..n
    BY <1>1, <1>2, <1>6
  <2> QED BY <1>1, <1>6, <2>1 DEF Budget, n
<1>7. IterationBudget'
  BY <1>0, <1>1, <1>4, <1>5 DEF IterationBudget
<1>8. Len(iterations') > MaxIterations => polish' = "done"
  BY <1>0, <1>1, <1>4
<1>9. polish' # "pending"
  OBVIOUS
<1> QED BY <1>3, <1>6, <1>7, <1>8, <1>9 DEF Budget, In

LEMMA BudgetStep ==
  ASSUME IInv, Budget, [Next]_vars
  PROVE  Budget'
<1>0. TypeOK /\ Gated /\ Working
  BY DEF IInv
<1>1. CASE PlanPolish
  BY <1>0, <1>1, BudgetStart DEF PlanPolish, In, Modes
<1>2. CASE PlanStub
  <2>1. Head(chainPlan) \in SUBSET Items
    <3>1. chainPlan # <<>> /\ chainPlan \in Seq(SUBSET Items)
      BY <1>0, <1>2 DEF PlanStub, StubDue, TypeOK
    <3> QED BY <3>1, HeadTailProperties
  <2>2. ChainMode \in Modes
    BY DEF ChainMode, ReviewModeFor, Modes
  <2> QED BY <1>0, <1>2, <2>1, <2>2, BudgetStart DEF PlanStub, StubDue, In
<1>3. CASE PlanIteration
  <2>1. PICK refs \in SUBSET Items : StartIteration(refs, ChainMode)
    BY <1>3 DEF PlanIteration
  <2>2. ChainMode \in Modes
    BY DEF ChainMode, ReviewModeFor, Modes
  <2> QED BY <1>0, <1>3, <2>1, <2>2, BudgetStart DEF PlanIteration, PlannerCalled, In
<1>4. CASE PolishEmpty
  <2>1. UNCHANGED iterations /\ polish' = "done" /\ status' = "AWAITING_HUMAN"
    BY <1>4 DEF PolishEmpty, AwaitHuman
  <2> QED BY <2>1 DEF Budget, IterationBudget, Current, In
<1>5. CASE DropStubs \/ PlanEnds
  BY <1>5, BudgetQuiet DEF DropStubs, PlanEnds, AwaitHuman, In, gate
<1>6. CASE StartPolish
  <2>1. UNCHANGED iterations /\ polish' = "pending" /\ polish # "done"
    BY <1>6 DEF StartPolish, PolishDue
  <2>2. MaxIterations \in Nat /\ Len(iterations) \in Nat
    BY <1>0, BoundAssumption, CurrentIteration DEF TypeOK
  <2>3. Len(iterations) <= MaxIterations
    BY <2>1, <2>2 DEF Budget
  <2> QED BY <2>1, <2>2, <2>3 DEF Budget, IterationBudget, Current, In
<1>7. CASE NextIteration
  <2>1. UNCHANGED <<iterations, polish>> /\ ~(Len(iterations) >= MaxIterations)
    BY <1>7 DEF NextIteration, WorkEnds, BudgetUsed, run
  <2>2. MaxIterations \in Nat /\ Len(iterations) \in Nat
    BY <1>0, BoundAssumption, CurrentIteration DEF TypeOK
  <2> QED BY <2>1, <2>2 DEF Budget, IterationBudget, Current, In
<1>8. CASE RoadmapEnds
  BY <1>8, BudgetQuiet DEF RoadmapEnds, AwaitHuman, In, run
<1>a. ASSUME status = "RUNNING", phase \notin {"PLAN"}
      PROVE  /\ iterations # <<>> /\ Current \in Iteration
             /\ Current.status = "PROVISIONAL" => Current.mode = "LIGHT"
  BY <1>0, <1>a, CurrentIteration DEF Working, TypeOK, Budget
<1>9. CASE CloseOpenChain
  <2> DEFINE it == [Current EXCEPT !.status = "IN_PROGRESS", !.mode = "CHAIN_CLOSE"]
  <2>1. iterations # <<>> /\ Current \in Iteration /\ Current.status = "PROVISIONAL"
    BY <1>9, <1>a DEF CloseOpenChain, In, ChainToClose
  <2>2. it \in Iteration /\ it.status = "IN_PROGRESS"
    <3> HIDE DEF Current
    <3> QED BY <2>1, UpdatedIteration
  <2>3. SetCurrent(it) /\ UNCHANGED polish /\ phase' = "AWAITING_REVIEW"
    BY <1>9 DEF CloseOpenChain, Goto
  <2> HIDE DEF it
  <2> QED BY <1>0, <2>1, <2>2, <2>3, BudgetWrite DEF In
<1>10. CASE Execute
  <2> DEFINE it == [Current EXCEPT !.executed = TRUE, !.work = tree']
  <2>1. iterations # <<>> /\ Current \in Iteration /\ Current.status = "IN_PROGRESS" /\ tree' \in Nat
    BY <1>0, <1>10, <1>a DEF Execute, In, Working, IterationPhases, RunPhases, MayChange, TypeOK
  <2>2. it \in Iteration /\ it.status = "IN_PROGRESS" /\ it.mode = Current.mode
    <3> HIDE DEF Current
    <3> QED BY <2>1, WorkedIteration
  <2>3. SetCurrent(it) /\ UNCHANGED polish /\ phase' = "SELF_VERIFY"
    BY <1>10 DEF Execute, Goto
  <2> HIDE DEF it
  <2> QED BY <1>0, <2>1, <2>2, <2>3, BudgetWrite DEF In
<1>11. CASE Repair
  <2> DEFINE it == [Current EXCEPT !.attempts = @ + 1, !.work = tree']
  <2>1. iterations # <<>> /\ Current \in Iteration /\ Current.status = "IN_PROGRESS" /\ tree' \in Nat
    BY <1>0, <1>11, <1>a DEF Repair, In, Working, IterationPhases, RunPhases, MayChange, TypeOK
  <2>2. it \in Iteration /\ it.status = "IN_PROGRESS" /\ it.mode = Current.mode
    <3> HIDE DEF Current
    <3> QED BY <2>1, WorkedIteration
  <2>3. SetCurrent(it) /\ UNCHANGED polish /\ phase' = "SELF_VERIFY"
    BY <1>11 DEF Repair, Goto
  <2> HIDE DEF it
  <2> QED BY <1>0, <2>1, <2>2, <2>3, BudgetWrite DEF In
<1>b. ASSUME AcceptProvisional, UNCHANGED polish, status = "RUNNING", phase \notin {"PLAN"},
             Current.mode = "LIGHT"
      PROVE  Budget'
  <2> DEFINE it == [Current EXCEPT !.status = "PROVISIONAL"]
  <2>1. iterations # <<>> /\ Current \in Iteration
    BY <1>a, <1>b
  <2>2. it \in Iteration /\ it.mode = Current.mode
    <3> HIDE DEF Current
    <3> QED BY <2>1, UpdatedIteration
  <2>3. SetCurrent(it) /\ phase' = "ROADMAP_CHECK"
    BY <1>b DEF AcceptProvisional, Goto
  <2> HIDE DEF it
  <2> QED BY <1>0, <1>b, <2>1, <2>2, <2>3, BudgetWrite DEF In
<1>12. CASE SelfVerifyPasses
  <2>1. CASE VerifiedOnly
    BY <1>12, <1>b, <2>1 DEF SelfVerifyPasses, VerifiedOnly, In
  <2>2. CASE ~VerifiedOnly
    BY <1>12, <2>2, BudgetQuiet DEF SelfVerifyPasses, In, Goto
  <2> QED BY <2>1, <2>2
<1>13. CASE ReviewPasses
  <2>1. CASE Current.mode = "LIGHT"
    BY <1>13, <1>b, <2>1 DEF ReviewPasses, In
  <2>2. CASE Current.mode # "LIGHT"
    BY <1>13, <2>2, BudgetQuiet DEF ReviewPasses, In, Goto
  <2> QED BY <2>1, <2>2
<1>14. CASE SelfVerifyFails \/ PrepareReview \/ ReviewRepairs \/ ReviewEscalates \/ FinalReviewRepairs
  <2>1. UNCHANGED <<iterations, polish>> /\ phase' # "PLAN"
    BY <1>14 DEF SelfVerifyFails, PrepareReview, ReviewRepairs, ReviewEscalates, FinalReviewRepairs,
       BeginRepair, Goto, Escalate, run
  <2> QED BY <2>1, BudgetQuiet DEF In
<1>15. CASE FinalReviewEscalates
  <2> DEFINE it == [Current EXCEPT !.status = "ESCALATED"]
  <2>1. iterations # <<>> /\ Current \in Iteration
    BY <1>15, <1>a DEF FinalReviewEscalates, In
  <2>2. it \in Iteration /\ it.status = "ESCALATED" /\ it.mode = Current.mode
    <3> HIDE DEF Current
    <3> QED BY <2>1, UpdatedIteration
  <2>3. SetCurrent(it) /\ UNCHANGED polish /\ phase' = "AWAITING_HUMAN"
    BY <1>15 DEF FinalReviewEscalates, Escalate
  <2> HIDE DEF it
  <2> QED BY <1>0, <2>1, <2>2, <2>3, BudgetWrite DEF In
<1>16. CASE FinalReviewPasses
  <2> DEFINE its == [iterations EXCEPT ![Len(iterations)].status = "ACCEPTED"]
             it  == [Current EXCEPT !.status = "ACCEPTED"]
             n   == Len(iterations)
  <2>1. iterations # <<>> /\ Current \in Iteration /\ n \in 1..n /\ Current = iterations[n]
    BY <1>0, <1>16, <1>a, CurrentIteration DEF FinalReviewPasses, In, TypeOK
  <2>2. it \in Iteration /\ it.status = "ACCEPTED" /\ it.mode = Current.mode
    <3> HIDE DEF Current
    <3> QED BY <2>1, UpdatedIteration
  <2>3. its = [iterations EXCEPT ![n] = it]
    BY DEF Current
  <2>4. /\ its \in Seq(Iteration) /\ Len(its) = n /\ its[n] = it
        /\ \A j \in 1..n : j # n => its[j] = iterations[j]
    <3> HIDE DEF its, it
    <3> QED BY <1>0, <2>1, <2>2, <2>3, ExceptSeq DEF TypeOK
  <2>5. iterations' = its \/ iterations' = CloseChain(its)
    BY <1>16 DEF FinalReviewPasses
  <2>6. UNCHANGED polish /\ phase' = "ROADMAP_CHECK"
    BY <1>16 DEF FinalReviewPasses, Goto
  <2> HIDE DEF its, it, n
  <2>7. /\ Len(iterations') = n
        /\ \A j \in 1..n : /\ iterations'[j].mode = its[j].mode
                           /\ iterations'[j].status = "PROVISIONAL" => its[j].status = "PROVISIONAL"
    BY <2>4, <2>5, CloseChainFacts
  <2>8. \A j \in 1..n : its[j].status = "PROVISIONAL" => its[j].mode = "LIGHT"
    BY <2>2, <2>4 DEF Budget, n
  <2>9. \A j \in 1..Len(iterations') :
           iterations'[j].status = "PROVISIONAL" => iterations'[j].mode = "LIGHT"
    BY <2>7, <2>8
  <2>10. Current'.mode = Current.mode
    <3>1. Current' = iterations'[n]
      BY <2>7 DEF Current
    <3> QED BY <2>1, <2>2, <2>4, <2>7, <3>1
  <2>11. IterationBudget'
    BY <2>7, <2>10 DEF Budget, IterationBudget, n
  <2> QED BY <2>6, <2>7, <2>9, <2>11 DEF Budget, In, n
<1>17. CASE PhaseEscalates
  <2>1. UNCHANGED polish /\ phase' = "AWAITING_HUMAN" /\ status = "RUNNING"
    BY <1>17 DEF PhaseEscalates, Escalate
  <2>2. CASE UNCHANGED iterations
    BY <2>1, <2>2, BudgetQuiet DEF In
  <2>3. CASE ~UNCHANGED iterations
    <3>1. PICK k \in {0, 1} : SetCurrent([Current EXCEPT !.attempts = @ + k])
      BY <1>17, <2>3 DEF PhaseEscalates
    <3>2. /\ iterations # <<>> /\ Current \in Iteration
          /\ Current.status = "PROVISIONAL" => Current.mode = "LIGHT"
      BY <1>17, <1>a, <2>1, <2>3 DEF PhaseEscalates
    <3> DEFINE it == [Current EXCEPT !.attempts = @ + k]
    <3>3. it \in Iteration /\ it.status = Current.status /\ it.mode = Current.mode
      <4> HIDE DEF Current
      <4> QED BY <3>2, UpdatedIteration
    <3>4. SetCurrent(it)
      BY <3>1
    <3> HIDE DEF it
    <3> QED BY <1>0, <2>1, <3>2, <3>3, <3>4, BudgetWrite DEF In
  <2> QED BY <2>2, <2>3
<1>18. CASE AdoptTimedOut
  <2> DEFINE it == [Current EXCEPT !.executed = TRUE, !.work = tree]
  <2>1. iterations # <<>> /\ Current.status = "IN_PROGRESS" /\ Current \in Iteration /\ tree \in Nat
    BY <1>0, <1>18, CurrentIteration DEF AdoptTimedOut, TimeoutProven, Working, TypeOK
  <2>2. it \in Iteration /\ it.status = "IN_PROGRESS" /\ it.mode = Current.mode
    <3> HIDE DEF Current
    <3> QED BY <2>1, WorkedIteration
  <2>3. SetCurrent(it) /\ UNCHANGED polish /\ phase' = "SELF_VERIFY"
    BY <1>18 DEF AdoptTimedOut
  <2> HIDE DEF it
  <2> QED BY <1>0, <2>1, <2>2, <2>3, BudgetWrite DEF In
<1>19. CASE Approve \/ Reject \/ PromoteRecords \/ PromoteIntegrates
  <2>1. UNCHANGED <<iterations, polish>> /\ phase' # "PLAN"
    BY <1>19 DEF Approve, Reject, PromoteRecords, PromoteIntegrates, Decide, run
  <2> QED BY <2>1, BudgetQuiet DEF In
<1>20. CASE PromoteChecks \/ PromoteInterrupted \/ PromoteLapses \/ OutsideEdit \/ UNCHANGED vars
  <2>1. UNCHANGED <<iterations, polish, phase, status>>
    BY <1>20 DEF PromoteChecks, PromoteInterrupted, PromoteLapses, OutsideEdit, vars, run, gate
  <2> QED BY <2>1, BudgetQuiet DEF In
<1> QED BY <1>1, <1>2, <1>3, <1>4, <1>5, <1>6, <1>7, <1>8, <1>9, <1>10, <1>11, <1>12, <1>13, <1>14,
           <1>15, <1>16, <1>17, <1>18, <1>19, <1>20 DEF Next, Controller, Human

LEMMA BudgetInit == Init => Budget
<1>1. ASSUME Init PROVE iterations = <<>> /\ Len(iterations) = 0 /\ polish = "no"
  BY <1>1, EmptySeq DEF Init
<1> QED BY <1>1, BoundAssumption DEF Budget, IterationBudget, Init

\* The mandate's budget (max_iterations) binds every run, up to one polish
\* pass (_do_roadmap_check, _chain_plan_for).
THEOREM BudgetIsKept == Spec => []IterationBudget
<1>1. IInv /\ Budget /\ [Next]_vars => Budget'
  BY BudgetStep
<1>2. Budget => IterationBudget
  BY DEF Budget
<1> QED BY <1>1, <1>2, BudgetInit, Invariance, PTL DEF Spec

-----------------------------------------------------------------------------
(* Chains and the roadmap: what a step can do to the iterations.            *)

\* Between iterations the current one is settled.
AtRest == In("PLAN") \/ In("ROADMAP_CHECK")

\* A step that writes no iteration, ...
Rests ==
  /\ UNCHANGED iterations
  /\ AtRest' => AtRest
  /\ In("FINAL_REVIEW")' => In("FINAL_REVIEW") \/ Current.mode # "LIGHT"

\* ... starts one, ...
Starts(refs, mode) ==
  /\ In("PLAN") /\ StartIteration(refs, mode)
  /\ mode \in {"POLISH", ChainMode}
  /\ refs = {} \/ \E skips \in SUBSET Remaining : Accepted(refs, skips)

\* ... works on the current one, ...
Works(it) ==
  /\ iterations # <<>> /\ SetCurrent(it)
  /\ Current.status = "IN_PROGRESS" /\ it.status \in {"IN_PROGRESS", "ESCALATED"}
  /\ it.mode = Current.mode /\ it.refs = Current.refs
  /\ ~AtRest' /\ ~In("FINAL_REVIEW")'

\* ... reopens it to close the chain, ...
Closes(it) ==
  /\ iterations # <<>> /\ SetCurrent(it)
  /\ chained
  /\ it.status = "IN_PROGRESS" /\ it.mode = "CHAIN_CLOSE" /\ it.refs = Current.refs
  /\ ~AtRest' /\ ~In("FINAL_REVIEW")'

\* ... or accepts it provisionally.
AcceptsLightly ==
  /\ iterations # <<>> /\ status = "RUNNING"
  /\ Current.status = "IN_PROGRESS" /\ Current.mode = "LIGHT"
  /\ AcceptProvisional

\* No item is done that was not, and none is undone.
DoneStays == \A i \in Items : roadmap'[i] = "DONE" <=> roadmap[i] = "DONE"

LEMMA IterationStep ==
  ASSUME IInv, [Next]_vars
  PROVE  \/ Rests /\ DoneStays
         \/ \E refs \in SUBSET Items, mode \in Modes : Starts(refs, mode) /\ DoneStays
         \/ \E it \in Iteration : (Works(it) \/ Closes(it)) /\ UNCHANGED roadmap
         \/ AcceptsLightly
         \/ FinalReviewPasses
<1>0. TypeOK /\ Gated /\ Working
  BY DEF IInv
<1>a. ASSUME UNCHANGED roadmap PROVE DoneStays
  BY <1>a DEF DoneStays
<1>b. ASSUME status = "RUNNING", phase \in IterationPhases
      PROVE  iterations # <<>> /\ Current \in Iteration /\ Current.status = "IN_PROGRESS"
  BY <1>0, <1>b, CurrentIteration DEF Working, IterationPhases, TypeOK
<1>c. ChainMode \in Modes
  BY DEF ChainMode, ReviewModeFor, Modes
<1>1. CASE PlanPolish
  <2>1. Starts({}, "POLISH") /\ UNCHANGED roadmap
    BY <1>1 DEF PlanPolish, Starts
  <2> QED BY <1>a, <2>1 DEF Modes
<1>2. CASE PlanStub
  <2>1. Head(chainPlan) \in SUBSET Items
    <3>1. chainPlan # <<>> /\ chainPlan \in Seq(SUBSET Items)
      BY <1>0, <1>2 DEF PlanStub, StubDue, TypeOK
    <3> QED BY <3>1, HeadTailProperties
  <2>2. Starts(Head(chainPlan), ChainMode) /\ UNCHANGED roadmap
    BY <1>2 DEF PlanStub, Starts
  <2> QED BY <1>a, <1>c, <2>1, <2>2
<1>3. CASE PlanIteration
  <2>1. PICK refs \in SUBSET Items, skips \in Skips :
          /\ Accepted(refs, skips)
          /\ roadmap' = [i \in Items |-> IF i \in skips THEN "SKIPPED" ELSE roadmap[i]]
          /\ StartIteration(refs, ChainMode)
    BY <1>3 DEF PlanIteration
  <2>2. skips \in SUBSET Remaining
    BY <2>1 DEF Accepted
  <2>3. Starts(refs, ChainMode)
    BY <1>3, <2>1, <2>2 DEF PlanIteration, PlannerCalled, Starts
  <2>4. DoneStays
    BY <2>1, <2>2 DEF DoneStays, Remaining
  <2> QED BY <1>c, <2>3, <2>4
<1>4. CASE PolishEmpty \/ DropStubs
  BY <1>4, <1>a DEF PolishEmpty, DropStubs, AwaitHuman, Rests, AtRest, In, gate
<1>5. CASE PlanEnds
  <2>1. DoneStays
    BY <1>5 DEF PlanEnds, DoneStays, Remaining
  <2> QED BY <1>5, <2>1 DEF PlanEnds, AwaitHuman, Rests, AtRest, In
<1>6. CASE SelfVerifyFails \/ PrepareReview \/ ReviewRepairs \/ ReviewEscalates \/ FinalReviewRepairs
  <2>1. UNCHANGED <<roadmap, iterations>> /\ phase' \in {"REPAIR", "REVIEW", "AWAITING_HUMAN"}
    BY <1>6 DEF SelfVerifyFails, PrepareReview, ReviewRepairs, ReviewEscalates, FinalReviewRepairs,
       BeginRepair, Goto, Escalate, run
  <2> QED BY <1>a, <2>1 DEF Rests, AtRest, In
<1>7. CASE StartPolish \/ NextIteration \/ RoadmapEnds
  BY <1>7, <1>a DEF StartPolish, NextIteration, RoadmapEnds, Goto, AwaitHuman, Rests, AtRest, In, run
<1>8. CASE Execute
  <2> DEFINE it == [Current EXCEPT !.executed = TRUE, !.work = tree']
  <2>1. iterations # <<>> /\ Current \in Iteration /\ Current.status = "IN_PROGRESS" /\ tree' \in Nat
    BY <1>0, <1>8, <1>b DEF Execute, In, IterationPhases, RunPhases, MayChange, TypeOK
  <2>2. it \in Iteration /\ it.status = Current.status /\ it.mode = Current.mode /\ it.refs = Current.refs
    <3> HIDE DEF Current
    <3> QED BY <2>1, WorkedIteration
  <2>3. SetCurrent(it) /\ UNCHANGED roadmap /\ phase' = "SELF_VERIFY"
    BY <1>8 DEF Execute, Goto
  <2> HIDE DEF it
  <2> QED BY <2>1, <2>2, <2>3 DEF Works, AtRest, In
<1>9. CASE Repair
  <2> DEFINE it == [Current EXCEPT !.attempts = @ + 1, !.work = tree']
  <2>1. iterations # <<>> /\ Current \in Iteration /\ Current.status = "IN_PROGRESS" /\ tree' \in Nat
    BY <1>0, <1>9, <1>b DEF Repair, In, IterationPhases, RunPhases, MayChange, TypeOK
  <2>2. it \in Iteration /\ it.status = Current.status /\ it.mode = Current.mode /\ it.refs = Current.refs
    <3> HIDE DEF Current
    <3> QED BY <2>1, WorkedIteration
  <2>3. SetCurrent(it) /\ UNCHANGED roadmap /\ phase' = "SELF_VERIFY"
    BY <1>9 DEF Repair, Goto
  <2> HIDE DEF it
  <2> QED BY <2>1, <2>2, <2>3 DEF Works, AtRest, In
<1>10. CASE FinalReviewEscalates
  <2> DEFINE it == [Current EXCEPT !.status = "ESCALATED"]
  <2>1. iterations # <<>> /\ Current \in Iteration /\ Current.status = "IN_PROGRESS"
    BY <1>10, <1>b DEF FinalReviewEscalates, In, IterationPhases, RunPhases
  <2>2. it \in Iteration /\ it.status = "ESCALATED" /\ it.mode = Current.mode /\ it.refs = Current.refs
    <3> HIDE DEF Current
    <3> QED BY <2>1, UpdatedIteration
  <2>3. SetCurrent(it) /\ UNCHANGED roadmap /\ phase' = "AWAITING_HUMAN"
    BY <1>10 DEF FinalReviewEscalates, Escalate
  <2> HIDE DEF it
  <2> QED BY <2>1, <2>2, <2>3 DEF Works, AtRest, In
<1>11. CASE AdoptTimedOut
  <2> DEFINE it == [Current EXCEPT !.executed = TRUE, !.work = tree]
  <2>1. iterations # <<>> /\ Current.status = "IN_PROGRESS" /\ Current \in Iteration /\ tree \in Nat
    BY <1>0, <1>11, CurrentIteration DEF AdoptTimedOut, TimeoutProven, Working, TypeOK
  <2>2. it \in Iteration /\ it.status = Current.status /\ it.mode = Current.mode /\ it.refs = Current.refs
    <3> HIDE DEF Current
    <3> QED BY <2>1, WorkedIteration
  <2>3. SetCurrent(it) /\ UNCHANGED roadmap /\ phase' = "SELF_VERIFY"
    BY <1>11 DEF AdoptTimedOut
  <2> HIDE DEF it
  <2> QED BY <2>1, <2>2, <2>3 DEF Works, AtRest, In
<1>12. CASE CloseOpenChain
  <2> DEFINE it == [Current EXCEPT !.status = "IN_PROGRESS", !.mode = "CHAIN_CLOSE"]
  <2>1. iterations # <<>> /\ Current \in Iteration
    BY <1>0, <1>12, CurrentIteration DEF CloseOpenChain, In, Working, TypeOK
  <2>2. /\ it \in Iteration /\ it.status = "IN_PROGRESS" /\ it.mode = "CHAIN_CLOSE"
        /\ it.refs = Current.refs
    <3> HIDE DEF Current
    <3> QED BY <2>1, UpdatedIteration
  <2>3. SetCurrent(it) /\ UNCHANGED roadmap /\ phase' = "AWAITING_REVIEW" /\ chained
    BY <1>12 DEF CloseOpenChain, ChainToClose, Goto
  <2> HIDE DEF it
  <2> QED BY <2>1, <2>2, <2>3 DEF Closes, AtRest, In
<1>13. CASE PhaseEscalates
  <2>1. UNCHANGED roadmap /\ phase' = "AWAITING_HUMAN" /\ status = "RUNNING"
    BY <1>13 DEF PhaseEscalates, Escalate
  <2>2. CASE UNCHANGED iterations
    BY <1>a, <2>1, <2>2 DEF Rests, AtRest, In
  <2>3. CASE ~UNCHANGED iterations
    <3>1. PICK k \in {0, 1} : SetCurrent([Current EXCEPT !.attempts = @ + k])
      BY <1>13, <2>3 DEF PhaseEscalates
    <3>2. iterations # <<>> /\ Current \in Iteration /\ Current.status = "IN_PROGRESS"
      BY <1>13, <1>b, <2>1, <2>3 DEF PhaseEscalates, IterationPhases, RunPhases
    <3> DEFINE it == [Current EXCEPT !.attempts = @ + k]
    <3>3. /\ it \in Iteration /\ it.status = Current.status /\ it.mode = Current.mode
          /\ it.refs = Current.refs
      <4> HIDE DEF Current
      <4> QED BY <3>2, UpdatedIteration
    <3>4. SetCurrent(it)
      BY <3>1
    <3> HIDE DEF it
    <3> QED BY <2>1, <3>2, <3>3, <3>4 DEF Works, AtRest, In
  <2> QED BY <2>2, <2>3
<1>14. CASE SelfVerifyPasses
  <2>1. status = "RUNNING" /\ iterations # <<>> /\ Current.status = "IN_PROGRESS"
    BY <1>14, <1>b DEF SelfVerifyPasses, In, IterationPhases, RunPhases
  <2>2. CASE VerifiedOnly
    BY <1>14, <2>1, <2>2 DEF SelfVerifyPasses, VerifiedOnly, AcceptsLightly
  <2>3. CASE ~VerifiedOnly
    <3>1. UNCHANGED <<roadmap, iterations>> /\ phase' = "AWAITING_REVIEW"
      BY <1>14, <2>3 DEF SelfVerifyPasses, Goto
    <3> QED BY <1>a, <3>1 DEF Rests, AtRest, In
  <2> QED BY <2>2, <2>3
<1>15. CASE ReviewPasses
  <2>1. status = "RUNNING" /\ iterations # <<>> /\ Current.status = "IN_PROGRESS"
    BY <1>15, <1>b DEF ReviewPasses, In, IterationPhases, RunPhases
  <2>2. CASE Current.mode = "LIGHT"
    BY <1>15, <2>1, <2>2 DEF ReviewPasses, AcceptsLightly
  <2>3. CASE Current.mode # "LIGHT"
    <3>1. UNCHANGED <<roadmap, iterations>> /\ phase' = "FINAL_REVIEW"
      BY <1>15, <2>3 DEF ReviewPasses, Goto
    <3> QED BY <1>a, <2>3, <3>1 DEF Rests, AtRest, In
  <2> QED BY <2>2, <2>3
<1>16. CASE Approve \/ Reject \/ PromoteRecords \/ PromoteIntegrates
  <2>1. UNCHANGED <<roadmap, iterations>> /\ phase' \in {"HUMAN_APPROVED", "REJECTED", "PROMOTED"}
    BY <1>16 DEF Approve, Reject, PromoteRecords, PromoteIntegrates, Decide, run
  <2> QED BY <1>a, <2>1 DEF Rests, AtRest, In
<1>17. CASE PromoteChecks \/ PromoteInterrupted \/ PromoteLapses \/ OutsideEdit \/ UNCHANGED vars
  <2>1. UNCHANGED <<roadmap, iterations, phase, status>>
    BY <1>17 DEF PromoteChecks, PromoteInterrupted, PromoteLapses, OutsideEdit, vars, run, gate
  <2> QED BY <1>a, <2>1 DEF Rests, AtRest, In
<1> QED BY <1>1, <1>2, <1>3, <1>4, <1>5, <1>6, <1>7, <1>8, <1>9, <1>10, <1>11, <1>12, <1>13, <1>14,
           <1>15, <1>16, <1>17 DEF Next, Controller, Human

\* Behind the current iteration everything is accepted, for the chain or for
\* good, and so is the current one once its phases are over.
Behind ==
  /\ \A i \in 1..Len(iterations) :
       i < Len(iterations) => iterations[i].status \in {"PROVISIONAL", "ACCEPTED"}
  /\ AtRest /\ iterations # <<>> => Current.status \in {"PROVISIONAL", "ACCEPTED"}

\* The open chain comes last and leaves room for its closing iteration.
Tailing ==
  /\ \A i, j \in 1..Len(iterations) :
       i < j /\ iterations[i].status = "PROVISIONAL" => iterations[j].status # "ACCEPTED"
  /\ Cardinality(HasStatus("PROVISIONAL")) < ChainLength
  /\ iterations # <<>> /\ Current.status = "IN_PROGRESS" /\ Current.mode = "LIGHT"
       => Position < ChainLength

\* Only chains have light iterations, and these get no final review.
Light ==
  /\ \A i \in 1..Len(iterations) :
       /\ iterations[i].mode = "NONE" => ~chained
       /\ iterations[i].mode = "LIGHT" => chained
  /\ In("FINAL_REVIEW") => Current.mode # "LIGHT"

Chain == Behind /\ Tailing /\ Light

LEMMA Members ==
  ASSUME iterations \in Seq(Iteration), NEW s
  PROVE  /\ HasStatus(s) = {i \in 1..Len(iterations) : iterations[i].status = s}
         /\ IsFiniteSet(HasStatus(s)) /\ Cardinality(HasStatus(s)) \in Nat
<1>1. DOMAIN iterations = 1..Len(iterations) /\ Len(iterations) \in Nat
  BY LenProperties
<1>2. HasStatus(s) = {i \in 1..Len(iterations) : iterations[i].status = s}
  BY <1>1 DEF HasStatus
<1>3. IsFiniteSet(1..Len(iterations))
  BY <1>1, FS_Interval
<1>4. IsFiniteSet(HasStatus(s))
  BY <1>2, <1>3, FS_Subset
<1> QED BY <1>2, <1>4, FS_CardinalityType

LEMMA ChainQuiet ==
  ASSUME Chain, Rests, UNCHANGED chained
  PROVE  Chain'
<1>1. /\ iterations' = iterations /\ Current' = Current /\ Position' = Position
      /\ HasStatus("PROVISIONAL")' = HasStatus("PROVISIONAL")
  BY DEF Rests, Current, Position, HasStatus
<1>2. Behind'
  BY <1>1 DEF Chain, Behind, Rests
<1>3. Tailing'
  BY <1>1 DEF Chain, Tailing
<1>4. Light'
  BY <1>1 DEF Chain, Light, Rests
<1> QED BY <1>2, <1>3, <1>4 DEF Chain

LEMMA ChainStart ==
  ASSUME TypeOK, Chain, NEW refs \in SUBSET Items, NEW mode \in Modes, Starts(refs, mode),
         UNCHANGED chained
  PROVE  Chain'
<1> DEFINE n == Len(iterations)
<1>0. iterations \in Seq(Iteration) /\ StartIteration(refs, mode) /\ phase' = "EXECUTE"
  BY DEF TypeOK, Starts, StartIteration, Goto
<1>1. /\ iterations' \in Seq(Iteration) /\ iterations' # <<>>
      /\ n \in Nat /\ Len(iterations') = n + 1
      /\ \A j \in 1..n : iterations'[j] = iterations[j]
  BY <1>0, AppendIteration
<1>2. iterations'[n + 1].status = "IN_PROGRESS" /\ iterations'[n + 1].mode = mode
  <2> DEFINE new == [status |-> "IN_PROGRESS", refs |-> refs, mode |-> mode,
                     attempts |-> 0, executed |-> FALSE, work |-> 0]
  <2>1. iterations'[n + 1] = new
    BY <1>0, AppendIteration
  <2>2. new.status = "IN_PROGRESS" /\ new.mode = mode
    OBVIOUS
  <2> HIDE DEF new
  <2> QED BY <2>1, <2>2
<1>3. n # 0 => iterations # <<>> /\ Current = iterations[n]
  BY <1>0, EmptySeq DEF Current
<1>4. HasStatus("PROVISIONAL")' = HasStatus("PROVISIONAL")
  <2>1. HasStatus("PROVISIONAL") = {i \in 1..n : iterations[i].status = "PROVISIONAL"}
    BY <1>0, Members
  <2>2. HasStatus("PROVISIONAL")' = {i \in 1..(n + 1) : iterations'[i].status = "PROVISIONAL"}
    <3>1. DOMAIN iterations' = 1..(n + 1)
      BY <1>1, LenProperties
    <3> QED BY <3>1 DEF HasStatus
  <2> HIDE DEF n
  <2>3. ASSUME NEW i \in 1..(n + 1), i \notin 1..n PROVE i = n + 1
    BY <1>1, <2>3
  <2>4. ASSUME NEW i \in 1..n PROVE i \in 1..(n + 1)
    BY <1>1
  <2>5. ASSUME NEW i \in 1..(n + 1), iterations'[i].status = "PROVISIONAL"
        PROVE  i \in 1..n /\ iterations[i].status = "PROVISIONAL"
    BY <1>1, <1>2, <2>3, <2>5
  <2>6. ASSUME NEW i \in 1..n, iterations[i].status = "PROVISIONAL"
        PROVE  i \in 1..(n + 1) /\ iterations'[i].status = "PROVISIONAL"
    BY <1>1, <2>4, <2>6
  <2> QED BY <2>1, <2>2, <2>5, <2>6
<1>5. Current' = iterations'[n + 1]
  BY <1>1 DEF Current
<1>6. Behind'
  <2>1. ASSUME NEW i \in 1..Len(iterations'), i < Len(iterations')
        PROVE  iterations'[i].status \in {"PROVISIONAL", "ACCEPTED"}
    <3>1. i \in 1..n
      BY <1>1, <2>1
    <3>2. iterations[i].status \in {"PROVISIONAL", "ACCEPTED"}
      <4>1. CASE i < n
        BY <3>1, <4>1 DEF Chain, Behind
      <4>2. CASE i = n
        BY <1>1, <1>3, <3>1, <4>2 DEF Chain, Behind, AtRest, Starts
      <4> QED BY <1>1, <3>1, <4>1, <4>2
    <3> QED BY <1>1, <3>1, <3>2
  <2>2. ~AtRest'
    BY <1>0 DEF AtRest, In
  <2> QED BY <2>1, <2>2 DEF Behind
<1>7. Position' = Position
  BY <1>4 DEF Position
<1>8. Tailing'
  <2>1. ASSUME NEW i \in 1..Len(iterations'), NEW j \in 1..Len(iterations'),
               i < j, iterations'[i].status = "PROVISIONAL"
        PROVE  iterations'[j].status # "ACCEPTED"
    <3>1. i \in 1..n /\ (j \in 1..n \/ j = n + 1)
      BY <1>1, <2>1
    <3>2. CASE j \in 1..n
      BY <1>1, <2>1, <3>1, <3>2 DEF Chain, Tailing
    <3> QED BY <1>2, <3>1, <3>2
  <2>2. mode = "LIGHT" => Position < ChainLength
    <3>1. ChainLength \in Nat /\ Position \in Nat
      BY <1>0, ChainAssumption, Members DEF Position
    <3> QED BY <3>1 DEF Starts, ChainMode, ReviewModeFor
  <2>3. Current'.mode = mode
    BY <1>2, <1>5
  <2> QED BY <1>4, <1>7, <2>1, <2>2, <2>3 DEF Chain, Tailing
<1>9. Light'
  <2>1. (mode = "NONE" => ~chained) /\ (mode = "LIGHT" => chained)
    BY DEF Starts, ChainMode, ReviewModeFor
  <2>2. ASSUME NEW i \in 1..Len(iterations')
        PROVE  /\ iterations'[i].mode = "NONE" => ~chained
               /\ iterations'[i].mode = "LIGHT" => chained
    <3>1. CASE i \in 1..n
      BY <1>1, <3>1 DEF Chain, Light
    <3>2. CASE i \notin 1..n
      <4>1. i = n + 1
        BY <1>1, <3>2
      <4> QED BY <1>2, <2>1, <4>1
    <3> QED BY <3>1, <3>2
  <2> QED BY <1>0, <2>2 DEF Light, In
<1> QED BY <1>6, <1>8, <1>9 DEF Chain

LEMMA ChainWrite ==
  ASSUME TypeOK, Chain, NEW it \in Iteration, Works(it) \/ Closes(it), UNCHANGED chained
  PROVE  Chain'
<1> DEFINE n == Len(iterations)
<1>0. /\ iterations \in Seq(Iteration) /\ iterations # <<>> /\ SetCurrent(it)
      /\ it.status \in {"IN_PROGRESS", "ESCALATED"} /\ ~AtRest' /\ ~In("FINAL_REVIEW")'
  BY DEF TypeOK, Works, Closes
<1>1. /\ iterations' \in Seq(Iteration) /\ n \in Nat \ {0} /\ Len(iterations') = n
      /\ Current' = it
      /\ \A j \in 1..n : iterations'[j] \in {it, iterations[j]}
      /\ \A j \in 1..n : j # n => iterations'[j] = iterations[j]
  BY <1>0, ReplaceCurrent
<1>2. n \in 1..n /\ Current = iterations[n]
  BY <1>1 DEF Current
<1>4. /\ Cardinality(HasStatus("PROVISIONAL")') <= Cardinality(HasStatus("PROVISIONAL"))
      /\ Cardinality(HasStatus("PROVISIONAL")) \in Nat
      /\ Cardinality(HasStatus("PROVISIONAL")') \in Nat
  <2>1. /\ HasStatus("PROVISIONAL") = {i \in 1..n : iterations[i].status = "PROVISIONAL"}
        /\ IsFiniteSet(HasStatus("PROVISIONAL")) /\ Cardinality(HasStatus("PROVISIONAL")) \in Nat
    BY <1>0, Members
  <2>2. HasStatus("PROVISIONAL")' = {i \in 1..n : iterations'[i].status = "PROVISIONAL"}
    <3>1. DOMAIN iterations' = 1..n
      BY <1>1, LenProperties
    <3> QED BY <3>1 DEF HasStatus
  <2>3. HasStatus("PROVISIONAL")' \subseteq HasStatus("PROVISIONAL")
    BY <1>0, <1>1, <2>1, <2>2
  <2> HIDE DEF n
  <2> QED BY <2>1, <2>3, FS_Subset, FS_CardinalityType
<1>5. Behind'
  BY <1>0, <1>1 DEF Chain, Behind
<1>6. ChainLength \in Nat
  BY ChainAssumption
<1>7. Position' <= Position /\ Position \in Nat /\ Position' \in Nat
  BY <1>4 DEF Position
<1>8. it.status = "IN_PROGRESS" /\ it.mode = "LIGHT"
        => Current.status = "IN_PROGRESS" /\ Current.mode = "LIGHT"
  BY DEF Works, Closes
<1>9. Tailing'
  <2>1. ASSUME NEW i \in 1..n, NEW j \in 1..n, i < j, iterations'[i].status = "PROVISIONAL"
        PROVE  iterations'[j].status # "ACCEPTED"
    <3>1. iterations'[i] = iterations[i]
      BY <1>0, <1>1, <2>1
    <3>2. CASE iterations'[j] = it
      BY <1>0, <3>2
    <3>3. CASE iterations'[j] = iterations[j]
      BY <2>1, <3>1, <3>3 DEF Chain, Tailing
    <3> QED BY <1>1, <3>2, <3>3
  <2>2. Cardinality(HasStatus("PROVISIONAL")') < ChainLength
    BY <1>4, <1>6 DEF Chain, Tailing
  <2>3. it.status = "IN_PROGRESS" /\ it.mode = "LIGHT" => Position' < ChainLength
    <3> HIDE DEF Current
    <3>1. it.status = "IN_PROGRESS" /\ it.mode = "LIGHT" => Position < ChainLength
      BY <1>0, <1>8 DEF Chain, Tailing
    <3> QED BY <1>6, <1>7, <3>1
  <2> QED BY <1>1, <2>1, <2>2, <2>3 DEF Tailing
<1>10. Light'
  <2>1. (it.mode = "NONE" => ~chained) /\ (it.mode = "LIGHT" => chained)
    <3>1. CASE it.mode = Current.mode
      BY <1>2, <3>1 DEF Chain, Light
    <3>2. CASE it.mode = "CHAIN_CLOSE"
      BY <3>2
    <3> QED BY <3>1, <3>2 DEF Works, Closes
  <2>2. ASSUME NEW i \in 1..n
        PROVE  /\ iterations'[i].mode = "NONE" => ~chained
               /\ iterations'[i].mode = "LIGHT" => chained
    <3>1. CASE iterations'[i] = it
      BY <2>1, <3>1
    <3>2. CASE iterations'[i] = iterations[i]
      BY <3>2 DEF Chain, Light
    <3> QED BY <1>1, <3>1, <3>2
  <2> QED BY <1>0, <1>1, <2>2 DEF Light
<1> QED BY <1>5, <1>9, <1>10 DEF Chain

LEMMA ChainProvisional ==
  ASSUME TypeOK, Chain, AcceptsLightly, UNCHANGED chained
  PROVE  Chain'
<1> DEFINE n == Len(iterations)
           it == [Current EXCEPT !.status = "PROVISIONAL"]
<1>0. iterations \in Seq(Iteration) /\ iterations # <<>> /\ phase' = "ROADMAP_CHECK"
  BY DEF TypeOK, AcceptsLightly, AcceptProvisional, Goto
<1>1. n \in 1..n /\ Current = iterations[n] /\ Current \in Iteration /\ n \in Nat
  BY <1>0, CurrentIteration
<1>2. it \in Iteration /\ it.status = "PROVISIONAL" /\ it.mode = Current.mode
  <2> HIDE DEF Current
  <2> QED BY <1>1, UpdatedIteration
<1>3. SetCurrent(it)
  BY DEF AcceptsLightly, AcceptProvisional
<1> HIDE DEF it
<1>4. /\ iterations' \in Seq(Iteration) /\ Len(iterations') = n /\ iterations' # <<>>
      /\ Current' = it /\ iterations'[n] = it
      /\ \A j \in 1..n : j # n => iterations'[j] = iterations[j]
  BY <1>0, <1>2, <1>3, ReplaceCurrent
<1>5. Cardinality(HasStatus("PROVISIONAL")') < ChainLength
  <2>1. /\ HasStatus("PROVISIONAL") = {i \in 1..n : iterations[i].status = "PROVISIONAL"}
        /\ IsFiniteSet(HasStatus("PROVISIONAL")) /\ Cardinality(HasStatus("PROVISIONAL")) \in Nat
    BY <1>0, Members
  <2>2. HasStatus("PROVISIONAL")' = {i \in 1..n : iterations'[i].status = "PROVISIONAL"}
    <3>1. DOMAIN iterations' = 1..n
      BY <1>4, LenProperties
    <3> QED BY <3>1 DEF HasStatus
  <2> HIDE DEF n
  <2>3. n \notin HasStatus("PROVISIONAL")
    BY <1>1, <2>1 DEF AcceptsLightly
  <2>4. HasStatus("PROVISIONAL")' = HasStatus("PROVISIONAL") \cup {n}
    BY <1>1, <1>2, <1>4, <2>1, <2>2
  <2>5. Cardinality(HasStatus("PROVISIONAL")') = Cardinality(HasStatus("PROVISIONAL")) + 1
    BY <2>1, <2>3, <2>4, FS_AddElement
  <2>6. Position < ChainLength
    BY <1>0 DEF AcceptsLightly, Chain, Tailing
  <2> QED BY <2>5, <2>6 DEF Position
<1>6. Behind'
  BY <1>2, <1>4 DEF Chain, Behind
<1>7. Tailing'
  <2>1. ASSUME NEW i \in 1..n, NEW j \in 1..n, i < j, iterations'[i].status = "PROVISIONAL"
        PROVE  iterations'[j].status # "ACCEPTED"
    <3>1. i # n
      BY <1>1, <2>1
    <3>2. CASE j = n
      BY <1>2, <1>4, <3>2
    <3>3. CASE j # n
      <4>1. iterations'[i] = iterations[i] /\ iterations'[j] = iterations[j]
        BY <1>4, <3>1, <3>3
      <4> QED BY <2>1, <4>1 DEF Chain, Tailing
    <3> QED BY <3>2, <3>3
  <2> QED BY <1>2, <1>4, <1>5, <2>1 DEF Tailing
<1>8. Light'
  <2>1. ASSUME NEW i \in 1..n
        PROVE  /\ iterations'[i].mode = "NONE" => ~chained
               /\ iterations'[i].mode = "LIGHT" => chained
    <3>1. iterations'[i].mode = iterations[i].mode
      BY <1>1, <1>2, <1>4
    <3> QED BY <3>1 DEF Chain, Light
  <2> QED BY <1>0, <1>4, <2>1 DEF Light, In
<1> QED BY <1>6, <1>7, <1>8 DEF Chain

\* A passed final review accepts the current iteration, and the chain it closes.
LEMMA FinalAcceptance ==
  ASSUME IInv, FinalReviewPasses
  PROVE  /\ iterations \in Seq(Iteration) /\ iterations # <<>>
         /\ Len(iterations) \in 1..Len(iterations) /\ Len(iterations) \in Nat
         /\ Current = iterations[Len(iterations)]
         /\ iterations' \in Seq(Iteration) /\ Len(iterations') = Len(iterations)
         /\ iterations'[Len(iterations)].status = "ACCEPTED"
         /\ \A j \in 1..Len(iterations) :
              /\ iterations'[j].mode = iterations[j].mode
              /\ iterations'[j].refs = iterations[j].refs
              /\ j # Len(iterations) =>
                   iterations'[j].status =
                     IF Current.mode \in {"CHAIN_CLOSE", "POLISH"} /\ iterations[j].status = "PROVISIONAL"
                     THEN "ACCEPTED" ELSE iterations[j].status
<1> DEFINE its == [iterations EXCEPT ![Len(iterations)].status = "ACCEPTED"]
           it  == [Current EXCEPT !.status = "ACCEPTED"]
           n   == Len(iterations)
<1>1. iterations \in Seq(Iteration) /\ iterations # <<>>
  BY DEF IInv, TypeOK, Working, FinalReviewPasses, In
<1>2. n \in 1..n /\ n \in Nat /\ Current = iterations[n] /\ Current \in Iteration
  BY <1>1, CurrentIteration
<1>3. it \in Iteration /\ it.status = "ACCEPTED" /\ it.mode = Current.mode /\ it.refs = Current.refs
  <2> HIDE DEF Current
  <2> QED BY <1>2, UpdatedIteration
<1>4. its = [iterations EXCEPT ![n] = it]
  BY DEF Current
<1>5. iterations' = IF Current.mode \in {"CHAIN_CLOSE", "POLISH"} THEN CloseChain(its) ELSE its
  BY DEF FinalReviewPasses
<1>6. /\ its \in Seq(Iteration) /\ Len(its) = n /\ its[n] = it
      /\ \A j \in 1..n : j # n => its[j] = iterations[j]
  <2> HIDE DEF its, it
  <2> QED BY <1>1, <1>2, <1>3, <1>4, ExceptSeq
<1> HIDE DEF its, it
<1>7. /\ iterations' \in Seq(Iteration) /\ Len(iterations') = n
      /\ \A j \in 1..n :
           /\ iterations'[j].mode = its[j].mode /\ iterations'[j].refs = its[j].refs
           /\ iterations'[j].status =
                IF Current.mode \in {"CHAIN_CLOSE", "POLISH"} /\ its[j].status = "PROVISIONAL"
                THEN "ACCEPTED" ELSE its[j].status
  <2>1. CASE Current.mode \in {"CHAIN_CLOSE", "POLISH"}
    <3>1. iterations' = CloseChain(its)
      BY <1>5, <2>1
    <3> HIDE DEF Current, n
    <3> QED BY <1>6, <2>1, <3>1, CloseChainFacts
  <2>2. CASE Current.mode \notin {"CHAIN_CLOSE", "POLISH"}
    <3>1. iterations' = its
      BY <1>5, <2>2
    <3> HIDE DEF Current, n
    <3> QED BY <1>6, <2>2, <3>1
  <2> QED BY <2>1, <2>2
<1>8. iterations'[n].status = "ACCEPTED"
  BY <1>2, <1>3, <1>6, <1>7
<1>9. ASSUME NEW j \in 1..n
      PROVE  /\ iterations'[j].mode = iterations[j].mode
             /\ iterations'[j].refs = iterations[j].refs
             /\ j # n =>
                  iterations'[j].status =
                    IF Current.mode \in {"CHAIN_CLOSE", "POLISH"} /\ iterations[j].status = "PROVISIONAL"
                    THEN "ACCEPTED" ELSE iterations[j].status
  <2>1. its[j].mode = iterations[j].mode /\ its[j].refs = iterations[j].refs
    BY <1>2, <1>3, <1>6
  <2>2. j # n => its[j] = iterations[j]
    BY <1>6
  <2> QED BY <1>7, <2>1, <2>2
<1> QED BY <1>1, <1>2, <1>7, <1>8, <1>9

LEMMA ChainAccept ==
  ASSUME IInv, Budget, Chain, FinalReviewPasses, UNCHANGED chained
  PROVE  Chain' /\ HasStatus("PROVISIONAL")' = {} /\ Current'.status = "ACCEPTED"
<1> DEFINE n == Len(iterations)
<1>1. /\ n \in 1..n /\ n \in Nat /\ Current = iterations[n] /\ Len(iterations') = n
      /\ iterations' \in Seq(Iteration)
      /\ iterations'[n].status = "ACCEPTED"
      /\ \A j \in 1..n : iterations'[j].mode = iterations[j].mode
  BY FinalAcceptance
<1>2. Current' = iterations'[n]
  BY <1>1 DEF Current
<1>3. ASSUME NEW j \in 1..n
      PROVE  /\ iterations'[j].status # "PROVISIONAL"
             /\ j < n => iterations'[j].status = "ACCEPTED"
  <2>1. j < n => iterations[j].status \in {"PROVISIONAL", "ACCEPTED"}
    BY DEF Chain, Behind
  <2>2. j # n => j < n
    BY <1>1
  <2>3. CASE Current.mode \in {"CHAIN_CLOSE", "POLISH"}
    <3>1. j # n => iterations'[j].status = IF iterations[j].status = "PROVISIONAL"
                                           THEN "ACCEPTED" ELSE iterations[j].status
      BY <2>3, FinalAcceptance
    <3> QED BY <1>1, <2>1, <2>2, <3>1
  <2>4. CASE Current.mode \notin {"CHAIN_CLOSE", "POLISH"}
    <3>1. Current.mode = "NONE"
      <4>1. Current.mode \in Modes
        BY <1>1, CurrentIteration DEF IInv, TypeOK, Iteration
      <4>2. Current.mode # "LIGHT"
        BY DEF FinalReviewPasses, Chain, Light
      <4> HIDE DEF Current
      <4> QED BY <2>4, <4>1, <4>2 DEF Modes
    <3>2. ~chained
      BY <1>1, <3>1 DEF Chain, Light
    <3>3. iterations[j].status # "PROVISIONAL"
      BY <3>2 DEF Chain, Light, Budget
    <3>4. j # n => iterations'[j].status = iterations[j].status
      BY <2>4, FinalAcceptance
    <3> QED BY <1>1, <2>1, <2>2, <3>3, <3>4
  <2> QED BY <2>3, <2>4
<1>4. HasStatus("PROVISIONAL")' = {}
  <2>1. DOMAIN iterations' = 1..n
    BY <1>1, LenProperties
  <2> HIDE DEF n
  <2> QED BY <1>3, <2>1 DEF HasStatus
<1>5. phase' = "ROADMAP_CHECK"
  BY DEF FinalReviewPasses, Goto
<1>6. Behind'
  BY <1>1, <1>2, <1>3 DEF Behind
<1>7. Tailing'
  <2>1. Cardinality(HasStatus("PROVISIONAL")') = 0 /\ 0 < ChainLength
    <3>1. Cardinality(HasStatus("PROVISIONAL")') = 0
      BY <1>4, FS_EmptySet
    <3>2. 0 < ChainLength
      BY ChainAssumption
    <3> QED BY <3>1, <3>2
  <2>2. Current'.status # "IN_PROGRESS"
    BY <1>1, <1>2
  <2> QED BY <1>1, <1>3, <2>1, <2>2 DEF Tailing
<1>8. Light'
  <2>1. ASSUME NEW i \in 1..Len(iterations')
        PROVE  /\ iterations'[i].mode = "NONE" => ~chained
               /\ iterations'[i].mode = "LIGHT" => chained
    <3>1. iterations'[i].mode = iterations[i].mode /\ i \in 1..n
      BY <1>1
    <3> QED BY <3>1 DEF Chain, Light
  <2> QED BY <1>5, <2>1 DEF Light, In
<1> QED BY <1>1, <1>2, <1>4, <1>6, <1>7, <1>8 DEF Chain

LEMMA ChainInit == Init => Chain
<1> SUFFICES ASSUME Init PROVE Chain
  OBVIOUS
<1>1. iterations = <<>> /\ Len(iterations) = 0 /\ HasStatus("PROVISIONAL") = {} /\ ~In("FINAL_REVIEW")
  BY EmptySeq DEF Init, HasStatus, In
<1>2. Cardinality(HasStatus("PROVISIONAL")) = 0 /\ 0 < ChainLength
  BY <1>1, FS_EmptySet, ChainAssumption
<1> QED BY <1>1, <1>2 DEF Chain, Behind, Tailing, Light

LEMMA ChainStep ==
  ASSUME IInv, Budget, Chain, [Next]_vars
  PROVE  Chain'
<1>1. TypeOK
  BY DEF IInv
<1>2. UNCHANGED chained
  BY DEF Next, vars
<1> QED BY <1>1, <1>2, IterationStep, ChainQuiet, ChainStart, ChainWrite, ChainProvisional, ChainAccept

LEMMA ChainInvariance == Spec => [](IInv /\ Budget /\ Chain)
<1>1. IInv /\ Budget /\ Chain /\ [Next]_vars => Chain'
  BY ChainStep
<1>2. IInv /\ Budget /\ [Next]_vars => Budget'
  BY BudgetStep
<1> QED BY <1>1, <1>2, BudgetInit, ChainInit, Invariance, PTL DEF Spec

\* The provisional iterations are the open chain (_accept_provisional,
\* _close_chain): fewer than its length, behind everything accepted, whatever
\* is repaired, escalated or adopted in between.
THEOREM OpenChainHolds == Spec => []OpenChain
<1>1. IInv /\ Budget /\ Chain => OpenChain
  <2> SUFFICES ASSUME IInv, Chain PROVE OpenChain
    OBVIOUS
  <2>1. iterations \in Seq(Iteration)
    BY DEF IInv, TypeOK
  <2>2. DOMAIN iterations = 1..Len(iterations) /\ Len(iterations) \in Nat
    BY <2>1, LenProperties
  <2>3. ASSUME NEW i \in HasStatus("PROVISIONAL"), NEW j \in DOMAIN iterations, j > i
        PROVE  \/ j \in HasStatus("PROVISIONAL")
               \/ j = Len(iterations) /\ iterations[j].status # "ACCEPTED"
    <3>1. i \in 1..Len(iterations) /\ iterations[i].status = "PROVISIONAL" /\ i < j
      BY <2>2, <2>3 DEF HasStatus
    <3>2. iterations[j].status # "ACCEPTED"
      BY <2>2, <3>1 DEF Chain, Tailing
    <3>3. j # Len(iterations) => iterations[j].status \in {"PROVISIONAL", "ACCEPTED"}
      BY <2>2 DEF Chain, Behind
    <3> QED BY <2>2, <3>2, <3>3 DEF HasStatus
  <2> QED BY <2>3 DEF OpenChain, Chain, Tailing
<1> QED BY <1>1, ChainInvariance, PTL

-----------------------------------------------------------------------------
\* The roadmap: what an iteration works on stands on what is done, or on what
\* the same iteration does; and what is done is backed by an iteration.
Grounded(i) ==
  \A r \in iterations[i].refs : \A d \in DependsOn[r] : roadmap[d] = "DONE" \/ d \in iterations[i].refs
Backs(i, item) ==
  /\ item \in iterations[i].refs
  /\ iterations[i].status \in {"PROVISIONAL", "ACCEPTED"} \/ iterations[i].mode = "CHAIN_CLOSE"
Backed ==
  /\ \A i \in 1..Len(iterations) : Grounded(i)
  /\ \A item \in Items : roadmap[item] = "DONE" =>
       /\ \E i \in 1..Len(iterations) : Backs(i, item)
       /\ \A d \in DependsOn[item] \ Recurring : roadmap[d] = "DONE"

\* Iterations keep their items, and these their dependencies, within the roadmap.
LEMMA Dependencies ==
  ASSUME iterations \in Seq(Iteration)
  PROVE  /\ \A i \in 1..Len(iterations) : iterations[i].refs \subseteq Items
         /\ \A item \in Items : DependsOn[item] \subseteq Items
BY CurrentIteration, RoadmapAssumption DEF Iteration

LEMMA BackedQuiet ==
  ASSUME TypeOK, Backed, UNCHANGED iterations, DoneStays
  PROVE  Backed'
<1>1. /\ \A i \in 1..Len(iterations) : iterations[i].refs \subseteq Items
      /\ \A item \in Items : DependsOn[item] \subseteq Items
  BY Dependencies DEF TypeOK
<1>2. ASSUME NEW i \in 1..Len(iterations') PROVE Grounded(i)'
  <2>1. Grounded(i) /\ iterations[i].refs \subseteq Items
    BY <1>1 DEF Backed
  <2> QED BY <1>1, <2>1 DEF Grounded, DoneStays
<1>3. ASSUME NEW item \in Items, roadmap'[item] = "DONE"
      PROVE  /\ \E i \in 1..Len(iterations') : Backs(i, item)'
             /\ \A d \in DependsOn[item] \ Recurring : roadmap'[d] = "DONE"
  <2>1. roadmap[item] = "DONE"
    BY <1>3 DEF DoneStays
  <2>2. PICK i \in 1..Len(iterations) : Backs(i, item)
    BY <2>1 DEF Backed
  <2>3. Backs(i, item)'
    BY <2>2 DEF Backs
  <2>4. \A d \in DependsOn[item] \ Recurring : roadmap'[d] = "DONE"
    BY <1>1, <2>1 DEF Backed, DoneStays
  <2> QED BY <2>3, <2>4
<1> QED BY <1>2, <1>3 DEF Backed

\* An iteration starts from an accepted plan.
LEMMA BackedStart ==
  ASSUME TypeOK, Backed, NEW refs \in SUBSET Items, NEW mode \in Modes, Starts(refs, mode), DoneStays
  PROVE  Backed'
<1> DEFINE n == Len(iterations)
<1>0. iterations \in Seq(Iteration) /\ StartIteration(refs, mode)
  BY DEF TypeOK, Starts
<1>1. /\ n \in Nat /\ Len(iterations') = n + 1
      /\ \A j \in 1..n : iterations'[j] = iterations[j]
  BY <1>0, AppendIteration
<1>2. iterations'[n + 1].refs = refs
  <2> DEFINE new == [status |-> "IN_PROGRESS", refs |-> refs, mode |-> mode,
                     attempts |-> 0, executed |-> FALSE, work |-> 0]
  <2>1. iterations'[n + 1] = new
    BY <1>0, AppendIteration
  <2>2. new.refs = refs
    OBVIOUS
  <2> HIDE DEF new
  <2> QED BY <2>1, <2>2
<1>3. /\ \A i \in 1..n : iterations[i].refs \subseteq Items
      /\ \A item \in Items : DependsOn[item] \subseteq Items
  BY <1>0, Dependencies
<1>4. ASSUME NEW i \in 1..Len(iterations') PROVE Grounded(i)'
  <2>1. CASE i \in 1..n
    <3>1. Grounded(i) /\ iterations'[i] = iterations[i] /\ iterations[i].refs \subseteq Items
      BY <1>1, <1>3, <2>1 DEF Backed
    <3> QED BY <1>3, <3>1 DEF Grounded, DoneStays
  <2>2. CASE i \notin 1..n
    <3>1. i = n + 1 /\ iterations'[i].refs = refs
      BY <1>1, <1>2, <2>2
    <3>2. ASSUME NEW r \in refs, NEW d \in DependsOn[r]
          PROVE  roadmap'[d] = "DONE" \/ d \in refs
      <4>1. r \in Items /\ d \in Items
        BY <1>3, <3>2
      <4>2. roadmap[d] \in RoadmapStatuses
        BY <4>1 DEF TypeOK
      <4>3. roadmap[d] \notin {"HUMAN_REQUIRED", "SKIPPED"} /\ (roadmap[d] = "PENDING" => d \in refs)
        BY <3>2 DEF Starts, Accepted
      <4> QED BY <4>1, <4>2, <4>3 DEF RoadmapStatuses, DoneStays
    <3> QED BY <3>1, <3>2 DEF Grounded
  <2> QED BY <2>1, <2>2
<1>5. ASSUME NEW item \in Items, roadmap'[item] = "DONE"
      PROVE  /\ \E i \in 1..Len(iterations') : Backs(i, item)'
             /\ \A d \in DependsOn[item] \ Recurring : roadmap'[d] = "DONE"
  <2>1. roadmap[item] = "DONE"
    BY <1>5 DEF DoneStays
  <2>2. PICK i \in 1..n : Backs(i, item)
    BY <2>1 DEF Backed
  <2>3. iterations'[i] = iterations[i] /\ i \in 1..(n + 1)
    BY <1>1
  <2>4. Backs(i, item)'
    BY <2>2, <2>3 DEF Backs
  <2>5. \A d \in DependsOn[item] \ Recurring : roadmap'[d] = "DONE"
    BY <1>3, <2>1 DEF Backed, DoneStays
  <2> QED BY <1>1, <2>3, <2>4, <2>5
<1> QED BY <1>4, <1>5 DEF Backed

\* Writing iterations takes no backing away; accepting one marks its items.
LEMMA BackedWrite ==
  ASSUME TypeOK, Backed, iterations # <<>>, Len(iterations') = Len(iterations),
         \A j \in 1..Len(iterations) : iterations'[j].refs = iterations[j].refs,
         \A j \in 1..Len(iterations) : \A item \in Items : Backs(j, item) => Backs(j, item)',
         \/ UNCHANGED roadmap
         \/ /\ MarkRoadmapDone(Current.refs)
            /\ \A item \in Current.refs : Backs(Len(iterations), item)'
  PROVE  Backed'
<1> DEFINE n == Len(iterations)
<1>1. /\ iterations \in Seq(Iteration) /\ n \in 1..n /\ Current = iterations[n]
      /\ \A i \in 1..n : iterations[i].refs \subseteq Items
      /\ \A item \in Items : DependsOn[item] \subseteq Items
  BY CurrentIteration, Dependencies DEF TypeOK
<1>2. \A d \in Items : roadmap[d] = "DONE" => roadmap'[d] = "DONE"
  BY DEF MarkRoadmapDone
<1>3. ASSUME NEW i \in 1..n PROVE Grounded(i)'
  <2>1. Grounded(i)
    BY DEF Backed
  <2> QED BY <1>1, <1>2, <2>1 DEF Grounded
<1>4. ASSUME NEW item \in Items, roadmap[item] = "DONE"
      PROVE  /\ \E i \in 1..n : Backs(i, item)'
             /\ \A d \in DependsOn[item] \ Recurring : roadmap'[d] = "DONE"
  <2>1. \E i \in 1..n : Backs(i, item)
    BY <1>4 DEF Backed
  <2>2. \A d \in DependsOn[item] \ Recurring : roadmap[d] = "DONE"
    BY <1>4 DEF Backed
  <2> QED BY <1>1, <1>2, <2>1, <2>2
<1>5. ASSUME NEW item \in Items, roadmap[item] # "DONE", roadmap'[item] = "DONE"
      PROVE  /\ \E i \in 1..n : Backs(i, item)'
             /\ \A d \in DependsOn[item] \ Recurring : roadmap'[d] = "DONE"
  <2>1. /\ MarkRoadmapDone(Current.refs) /\ item \in Current.refs \ Recurring
        /\ \A t \in Current.refs : Backs(n, t)'
    BY <1>5 DEF MarkRoadmapDone
  <2>2. Grounded(n)
    BY <1>1 DEF Backed
  <2>3. ASSUME NEW d \in DependsOn[item] \ Recurring PROVE roadmap'[d] = "DONE"
    <3>1. d \in Items /\ (roadmap[d] = "DONE" \/ d \in Current.refs)
      BY <1>1, <2>1, <2>2 DEF Grounded
    <3> QED BY <1>2, <2>1, <3>1 DEF MarkRoadmapDone
  <2> QED BY <1>1, <2>1, <2>3
<1> QED BY <1>3, <1>4, <1>5 DEF Backed

LEMMA BackedStep ==
  ASSUME IInv, Backed, [Next]_vars
  PROVE  Backed'
<1> DEFINE n == Len(iterations)
<1>0. TypeOK /\ iterations \in Seq(Iteration)
  BY DEF IInv, TypeOK
<1>a. ASSUME NEW it \in Iteration, iterations # <<>>, SetCurrent(it)
      PROVE  /\ Len(iterations') = n /\ n \in 1..n /\ Current = iterations[n]
             /\ iterations'[n] = it
             /\ \A j \in 1..n : j # n => iterations'[j] = iterations[j]
  BY <1>0, <1>a, CurrentIteration, ReplaceCurrent
<1>1. ASSUME NEW it \in Iteration, Works(it) \/ Closes(it), UNCHANGED roadmap
      PROVE  Backed'
  <2>1. /\ iterations # <<>> /\ SetCurrent(it) /\ it.refs = Current.refs
        /\ \/ it.mode = "CHAIN_CLOSE"
           \/ it.mode = Current.mode /\ Current.status = "IN_PROGRESS"
    BY <1>1 DEF Works, Closes
  <2>2. \A j \in 1..n : iterations'[j].refs = iterations[j].refs
    BY <1>a, <2>1
  <2>3. ASSUME NEW j \in 1..n, NEW item \in Items, Backs(j, item) PROVE Backs(j, item)'
    <3>1. CASE j # n
      BY <1>a, <2>1, <2>3, <3>1 DEF Backs
    <3>2. CASE j = n
      BY <1>a, <2>1, <2>3, <3>2 DEF Backs
    <3> QED BY <3>1, <3>2
  <2> QED BY <1>0, <1>1, <1>a, <2>1, <2>2, <2>3, BackedWrite
<1>2. CASE AcceptsLightly
  <2> DEFINE it == [Current EXCEPT !.status = "PROVISIONAL"]
  <2>1. iterations # <<>> /\ SetCurrent(it) /\ MarkRoadmapDone(Current.refs)
    BY <1>2 DEF AcceptsLightly, AcceptProvisional
  <2>2. /\ it \in Iteration /\ it.status = "PROVISIONAL" /\ it.mode = Current.mode
        /\ it.refs = Current.refs
    <3>1. Current \in Iteration
      BY <1>0, <2>1, CurrentIteration
    <3> HIDE DEF Current
    <3> QED BY <3>1, UpdatedIteration
  <2> HIDE DEF it
  <2>3. \A j \in 1..n : iterations'[j].refs = iterations[j].refs
    BY <1>a, <2>1, <2>2
  <2>4. ASSUME NEW j \in 1..n, NEW item \in Items, Backs(j, item) PROVE Backs(j, item)'
    <3>1. CASE j # n
      BY <1>a, <2>1, <2>2, <2>4, <3>1 DEF Backs
    <3>2. CASE j = n
      BY <1>a, <2>1, <2>2, <2>4, <3>2 DEF Backs
    <3> QED BY <3>1, <3>2
  <2>5. \A item \in Current.refs : Backs(n, item)'
    BY <1>a, <2>1, <2>2 DEF Backs
  <2> QED BY <1>0, <1>a, <2>1, <2>2, <2>3, <2>4, <2>5, BackedWrite
<1>3. CASE FinalReviewPasses
  <2>1. /\ iterations # <<>> /\ Len(iterations') = n /\ n \in 1..n /\ Current = iterations[n]
        /\ iterations'[n].status = "ACCEPTED"
        /\ \A j \in 1..n : /\ iterations'[j].mode = iterations[j].mode
                           /\ iterations'[j].refs = iterations[j].refs
                           /\ j # n => iterations'[j].status \in {"ACCEPTED", iterations[j].status}
    BY <1>3, FinalAcceptance
  <2>2. MarkRoadmapDone(Current.refs)
    BY <1>3 DEF FinalReviewPasses
  <2>3. ASSUME NEW j \in 1..n, NEW item \in Items, Backs(j, item) PROVE Backs(j, item)'
    BY <2>1, <2>3 DEF Backs
  <2>4. \A item \in Current.refs : Backs(n, item)'
    BY <2>1 DEF Backs
  <2> QED BY <1>0, <2>1, <2>2, <2>3, <2>4, BackedWrite
<1>4. ASSUME Rests, DoneStays PROVE Backed'
  BY <1>0, <1>4, BackedQuiet DEF Rests
<1> QED BY <1>0, <1>1, <1>2, <1>3, <1>4, IterationStep, BackedStart

\* Progress is backed by work (check_plan, _mark_roadmap_done, _close_chain):
\* an item is DONE only while an iteration that names it is accepted, for the
\* chain or for good, or closes its chain, and only with its dependencies.
THEOREM DoneIsBackedHolds == Spec => []DoneIsBacked
<1>1. Init => Backed
  <2> SUFFICES ASSUME Init PROVE Backed
    OBVIOUS
  <2>1. iterations = <<>> /\ Len(iterations) = 0
    BY EmptySeq DEF Init
  <2>2. \A item \in Items : roadmap[item] # "DONE"
    BY DEF Init
  <2> QED BY <2>1, <2>2 DEF Backed
<1>2. IInv /\ Backed /\ [Next]_vars => Backed'
  BY BackedStep
<1>3. IInv /\ Backed => DoneIsBacked
  <2> SUFFICES ASSUME IInv, Backed, NEW item \in Items, roadmap[item] = "DONE"
               PROVE  /\ \E i \in DOMAIN iterations :
                           /\ item \in iterations[i].refs
                           /\ \/ iterations[i].status \in {"PROVISIONAL", "ACCEPTED"}
                              \/ iterations[i].mode = "CHAIN_CLOSE"
                      /\ \A d \in DependsOn[item] \ Recurring : roadmap[d] = "DONE"
    BY DEF DoneIsBacked
  <2>1. DOMAIN iterations = 1..Len(iterations)
    BY LenProperties DEF IInv, TypeOK
  <2>2. PICK i \in 1..Len(iterations) : Backs(i, item)
    BY DEF Backed
  <2> QED BY <2>1, <2>2 DEF Backed, Backs
<1> QED BY <1>1, <1>2, <1>3, Invariance, PTL DEF Spec

-----------------------------------------------------------------------------
\* The candidate: between iterations, and with nobody's uninvited edit, what
\* the last final review saw is the worktree; and a pending polish pass finds
\* no open chain.
Candidate ==
  /\ AtRest /\ iterations # <<>> /\ Current.status = "ACCEPTED" /\ edits = 0 => tree = passed
  /\ polish = "pending" =>
       /\ status = "RUNNING" => phase = "PLAN"
       /\ HasStatus("PROVISIONAL") = {} /\ escalation.from \notin SideEffectPhases
  /\ CandidateReviewed

\* With no open chain, the work on offer is the accepted one.
LEMMA OfferIsPassed ==
  ASSUME IInv, Chain, Candidate, AtRest, edits = 0, HasStatus("ACCEPTED") # {},
         HasStatus("PROVISIONAL") = {} \/ Current.status # "PROVISIONAL"
  PROVE  tree = passed
<1> DEFINE n == Len(iterations)
<1>1. iterations \in Seq(Iteration)
  BY DEF IInv, TypeOK
<1>2. /\ HasStatus("ACCEPTED") = {i \in 1..n : iterations[i].status = "ACCEPTED"}
      /\ HasStatus("PROVISIONAL") = {i \in 1..n : iterations[i].status = "PROVISIONAL"}
  BY <1>1, Members
<1>3. iterations # <<>>
  <2>1. n # 0
    BY <1>2
  <2> QED BY <2>1, EmptySeq
<1>4. n \in 1..n /\ Current = iterations[n]
  BY <1>1, <1>3, CurrentIteration
<1>5. Current.status # "PROVISIONAL"
  BY <1>2, <1>4
<1>6. Current.status = "ACCEPTED"
  BY <1>3, <1>5 DEF Chain, Behind
<1> QED BY <1>3, <1>6 DEF Candidate

\* A step at which nothing is offered.
LEMMA NoOffer ==
  ASSUME Candidate, ~hold'.promotable, UNCHANGED polish,
         AtRest' => AtRest /\ UNCHANGED <<iterations, tree, passed, edits>>,
         polish = "pending" => /\ status' = "RUNNING" => phase' = "PLAN"
                               /\ UNCHANGED iterations
                               /\ escalation'.from \notin SideEffectPhases
  PROVE  Candidate'
BY DEF Candidate, CandidateReviewed, Current, HasStatus

LEMMA CandidateStep ==
  ASSUME EndsOpenChain = FALSE, IInv, Budget, Chain, OnOffer, Candidate, [Next]_vars
  PROVE  Candidate'
<1>0. /\ TypeOK /\ Gated /\ Working /\ tree \in Nat
      /\ hold.promotable \in BOOLEAN
      /\ status = "RUNNING" => ~hold.promotable /\ escalation = NoEscalation
      /\ "none" \notin SideEffectPhases /\ "PLAN" \notin SideEffectPhases
  BY DEF IInv, TypeOK, OnOffer, Gated, SideEffectPhases
<1>a. ASSUME AtRest, NEW r, AwaitHuman(r), UNCHANGED <<iterations, passed, tree, edits>>,
             HasStatus("PROVISIONAL") = {} \/ Current.status # "PROVISIONAL",
             polish' # "pending"
      PROVE  Candidate'
  <2>1. hold'.promotable = (HasStatus("ACCEPTED") # {}) /\ hold'.tree = tree /\ status' # "RUNNING"
    BY <1>a DEF AwaitHuman
  <2>2. hold'.promotable /\ edits' = 0 => hold'.tree = passed'
    BY <1>a, <2>1, OfferIsPassed
  <2>3. ~AtRest'
    BY <2>1 DEF AtRest, In
  <2> QED BY <1>a, <2>2, <2>3 DEF Candidate, CandidateReviewed
<1>b. status = "RUNNING" /\ phase # "PLAN" => polish # "pending"
  BY DEF Candidate
<1>c. ASSUME NEW p \in RunPhases, status = "RUNNING", Goto(p)
      PROVE  /\ ~hold'.promotable /\ phase' = p /\ status' = "RUNNING"
             /\ escalation' = NoEscalation
  BY <1>0, <1>c DEF Goto, gate
<1>d. ASSUME NEW code, status = "RUNNING", Escalate(code)
      PROVE  /\ ~hold'.promotable /\ status' # "RUNNING" /\ escalation'.from = phase /\ ~AtRest'
  BY <1>d DEF Escalate, AtRest, In
<1>1. CASE PlanPolish
  <2>1. ~hold'.promotable /\ phase' = "EXECUTE" /\ polish' = "done"
    BY <1>1, <1>c DEF PlanPolish, StartIteration, In, RunPhases
  <2> QED BY <2>1 DEF Candidate, CandidateReviewed, AtRest, In
<1>2. CASE PlanStub
  <2>1. ~hold'.promotable /\ phase' = "EXECUTE" /\ polish' # "pending"
    BY <1>2, <1>c DEF PlanStub, StubDue, StartIteration, In, RunPhases
  <2> QED BY <2>1 DEF Candidate, CandidateReviewed, AtRest, In
<1>3. CASE PlanIteration
  <2>1. /\ In("PLAN") /\ polish # "pending" /\ UNCHANGED polish
        /\ \E refs \in SUBSET Items : StartIteration(refs, ChainMode)
    BY <1>3 DEF PlanIteration, PlannerCalled
  <2>2. ~hold'.promotable /\ phase' = "EXECUTE" /\ polish' # "pending"
    BY <2>1, <1>c DEF StartIteration, In, RunPhases
  <2> QED BY <2>2 DEF Candidate, CandidateReviewed, AtRest, In
<1>4. CASE PolishEmpty
  <2>1. HasStatus("PROVISIONAL") = {}
    BY <1>4 DEF PolishEmpty, Candidate
  <2> QED BY <1>4, <1>a, <2>1 DEF PolishEmpty, AtRest
<1>5. CASE DropStubs
  BY <1>0, <1>5 DEF DropStubs, gate, Candidate, CandidateReviewed, AtRest, In, Current, HasStatus
<1>6. CASE PlanEnds
  <2>1. HasStatus("PROVISIONAL") = {} /\ polish' # "pending" /\ AtRest
    BY <1>6 DEF PlanEnds, PlannerCalled, AtRest
  <2> QED BY <1>6, <1>a, <2>1 DEF PlanEnds
<1>7. CASE RoadmapEnds
  <2>1. AtRest /\ polish' # "pending" /\ UNCHANGED <<iterations, passed, tree, edits>>
    BY <1>7, <1>b DEF RoadmapEnds, AtRest, In, run
  <2>2. HasStatus("PROVISIONAL") = {} \/ Current.status # "PROVISIONAL"
    <3>1. CASE chained
      BY <1>7, <3>1 DEF RoadmapEnds, ChainToClose
    <3>2. CASE ~chained
      BY <1>0, <3>2, Members DEF Chain, Light, Budget, TypeOK
    <3> QED BY <3>1, <3>2
  <2> QED BY <1>7, <1>a, <2>1, <2>2 DEF RoadmapEnds
<1>8. CASE StartPolish
  <2>1. /\ AtRest /\ UNCHANGED <<iterations, passed, tree, edits>> /\ polish' = "pending"
        /\ status = "RUNNING" /\ phase = "ROADMAP_CHECK"
    BY <1>8 DEF StartPolish, AtRest, In
  <2>2. ~hold'.promotable /\ phase' = "PLAN" /\ escalation' = NoEscalation
    BY <1>8, <2>1, <1>c DEF StartPolish, RunPhases
  <2>3. Current.status # "PROVISIONAL" /\ iterations # <<>>
    BY <1>0, <1>8, <2>1 DEF StartPolish, PolishDue, ChainToClose, WorkEnds, Working
  <2>4. Current.status = "ACCEPTED"
    BY <2>1, <2>3 DEF Chain, Behind
  <2>5. HasStatus("PROVISIONAL") = {}
    <3>1. /\ HasStatus("PROVISIONAL") = {i \in 1..Len(iterations) : iterations[i].status = "PROVISIONAL"}
          /\ Len(iterations) \in 1..Len(iterations) /\ Current = iterations[Len(iterations)]
      BY <1>0, <2>3, Members, CurrentIteration DEF TypeOK
    <3>2. ASSUME NEW i \in 1..Len(iterations), iterations[i].status = "PROVISIONAL" PROVE FALSE
      <4>1. i < Len(iterations)
        BY <2>4, <3>1, <3>2
      <4> QED BY <2>4, <3>1, <3>2, <4>1 DEF Chain, Tailing
    <3> QED BY <3>1, <3>2
  <2>6. HasStatus("PROVISIONAL")' = {} /\ Current' = Current
    BY <2>1, <2>5 DEF HasStatus, Current
  <2>7. escalation'.from \notin SideEffectPhases
    BY <1>0, <2>2 DEF NoEscalation
  <2> QED BY <2>1, <2>2, <2>6, <2>7 DEF Candidate, CandidateReviewed
<1>9. CASE NextIteration
  <2>1. /\ AtRest /\ UNCHANGED <<iterations, passed, tree, edits, polish>>
        /\ status = "RUNNING" /\ polish # "pending"
    BY <1>9, <1>b DEF NextIteration, AtRest, In, run
  <2>2. ~hold'.promotable
    BY <1>9, <2>1, <1>c DEF NextIteration, RunPhases
  <2> QED BY <2>1, <2>2, NoOffer
<1>10. CASE Execute \/ Repair \/ CloseOpenChain \/ PrepareReview
  <2>1. /\ status = "RUNNING" /\ polish # "pending" /\ UNCHANGED polish
        /\ \E p \in {"SELF_VERIFY", "AWAITING_REVIEW", "REVIEW"} : Goto(p)
    BY <1>10, <1>b DEF Execute, Repair, CloseOpenChain, PrepareReview, In
  <2>2. ~hold'.promotable /\ ~AtRest'
    BY <2>1, <1>c DEF RunPhases, AtRest, In
  <2> QED BY <2>1, <2>2, NoOffer
<1>11. CASE SelfVerifyFails \/ ReviewRepairs \/ FinalReviewRepairs \/ ReviewEscalates
            \/ FinalReviewEscalates
  <2>1. /\ status = "RUNNING" /\ polish # "pending" /\ UNCHANGED polish
        /\ Goto("REPAIR") \/ Escalate("OTHER")
    BY <1>11, <1>b DEF SelfVerifyFails, ReviewRepairs, FinalReviewRepairs, ReviewEscalates,
       FinalReviewEscalates, BeginRepair, In, run
  <2>2. ~hold'.promotable /\ ~AtRest'
    BY <2>1, <1>c, <1>d DEF RunPhases, AtRest, In
  <2> QED BY <2>1, <2>2, NoOffer
<1>e. ASSUME status = "RUNNING", iterations # <<>>, AcceptProvisional, polish # "pending",
             UNCHANGED polish
      PROVE  Candidate'
  <2>1. ~hold'.promotable
    BY <1>e, <1>c DEF AcceptProvisional, RunPhases
  <2>2. Current'.status = "PROVISIONAL"
    <3> DEFINE it == [Current EXCEPT !.status = "PROVISIONAL"]
    <3>1. Current \in Iteration
      BY <1>0, <1>e, CurrentIteration DEF TypeOK
    <3>2. it \in Iteration /\ it.status = "PROVISIONAL"
      <4> HIDE DEF Current
      <4> QED BY <3>1, UpdatedIteration
    <3>3. SetCurrent(it)
      BY <1>e DEF AcceptProvisional
    <3> HIDE DEF it
    <3> QED BY <1>0, <1>e, <3>2, <3>3, ReplaceCurrent DEF TypeOK
  <2> QED BY <1>e, <2>1, <2>2 DEF Candidate, CandidateReviewed
<1>12. CASE SelfVerifyPasses
  <2>1. status = "RUNNING" /\ iterations # <<>> /\ polish # "pending" /\ UNCHANGED polish
    BY <1>0, <1>12, <1>b DEF SelfVerifyPasses, In, Working
  <2>2. CASE VerifiedOnly
    BY <1>12, <1>e, <2>1, <2>2 DEF SelfVerifyPasses
  <2>3. CASE ~VerifiedOnly
    <3>1. ~hold'.promotable /\ phase' = "AWAITING_REVIEW"
      BY <1>12, <1>c, <2>1, <2>3 DEF SelfVerifyPasses, RunPhases
    <3> QED BY <2>1, <3>1, NoOffer DEF AtRest, In
  <2> QED BY <2>2, <2>3
<1>13. CASE ReviewPasses
  <2>1. status = "RUNNING" /\ iterations # <<>> /\ polish # "pending" /\ UNCHANGED polish
    BY <1>0, <1>13, <1>b DEF ReviewPasses, In, Working
  <2>2. CASE Current.mode = "LIGHT"
    BY <1>13, <1>e, <2>1, <2>2 DEF ReviewPasses
  <2>3. CASE Current.mode # "LIGHT"
    <3>1. ~hold'.promotable /\ phase' = "FINAL_REVIEW"
      BY <1>13, <1>c, <2>1, <2>3 DEF ReviewPasses, RunPhases
    <3> QED BY <2>1, <3>1, NoOffer DEF AtRest, In
  <2> QED BY <2>2, <2>3
<1>14. CASE FinalReviewPasses
  <2>1. /\ status = "RUNNING" /\ polish' # "pending" /\ tree' = tree /\ passed' = tree
        /\ Goto("ROADMAP_CHECK")
    BY <1>14, <1>b DEF FinalReviewPasses, In
  <2>2. ~hold'.promotable
    BY <2>1, <1>c DEF RunPhases
  <2> QED BY <2>1, <2>2 DEF Candidate, CandidateReviewed
<1>15. CASE PhaseEscalates
  <2>1. /\ status = "RUNNING" /\ UNCHANGED polish /\ \E code : Escalate(code)
        /\ phase # "REPAIR" => UNCHANGED iterations
    BY <1>15 DEF PhaseEscalates
  <2>2. ~hold'.promotable /\ status' # "RUNNING" /\ escalation'.from = phase /\ ~AtRest'
    BY <2>1, <1>d
  <2>3. polish = "pending" => phase = "PLAN"
    BY <1>b, <2>1
  <2> QED BY <1>0, <2>1, <2>2, <2>3, NoOffer
<1>16. CASE AdoptTimedOut
  <2>1. /\ polish # "pending" /\ UNCHANGED polish /\ phase' = "SELF_VERIFY" /\ hold' = NoHold
    BY <1>16 DEF AdoptTimedOut, TimeoutProven, Candidate
  <2> QED BY <2>1 DEF Candidate, CandidateReviewed, NoHold, AtRest, In
<1>17. CASE Approve \/ Reject \/ PromoteRecords \/ PromoteIntegrates
  <2>1. /\ UNCHANGED <<iterations, polish, hold, escalation, tree, passed, edits>>
        /\ status' \in {"HUMAN_APPROVED", "REJECTED", "PROMOTED"}
    BY <1>17 DEF Approve, Reject, PromoteRecords, PromoteIntegrates, Decide, run
  <2> QED BY <2>1 DEF Candidate, CandidateReviewed, AtRest, In, HasStatus
<1>18. CASE PromoteChecks \/ PromoteInterrupted \/ PromoteLapses \/ UNCHANGED vars
  <2>1. UNCHANGED <<phase, status, iterations, polish, hold, escalation, tree, passed, edits>>
    BY <1>18 DEF PromoteChecks, PromoteInterrupted, PromoteLapses, vars, run, gate
  <2> QED BY <2>1 DEF Candidate, CandidateReviewed, AtRest, In, HasStatus, Current
<1>19. CASE OutsideEdit
  <2>1. /\ UNCHANGED <<phase, status, iterations, polish, hold, escalation, passed>>
        /\ edits' # 0
    BY <1>0, <1>19, BoundAssumption DEF OutsideEdit, run, gate, TypeOK
  <2> QED BY <2>1 DEF Candidate, CandidateReviewed, HasStatus
<1> QED BY <1>1, <1>2, <1>3, <1>4, <1>5, <1>6, <1>7, <1>8, <1>9, <1>10, <1>11, <1>12, <1>13, <1>14,
           <1>15, <1>16, <1>17, <1>18, <1>19 DEF Next, Controller, Human

\* The candidate a human may approve is what the last final review saw
\* (_await_human, _do_final_review), unless somebody edited the worktree
\* uninvited: for every mandate, as long as the planner does not end the run
\* in the middle of a chain.
THEOREM CandidateReviewedHolds ==
  ASSUME EndsOpenChain = FALSE
  PROVE  Spec => []CandidateReviewed
<1>1. Init => OnOffer /\ Candidate
  <2>1. ASSUME Init PROVE OnOffer /\ Candidate
    BY <2>1 DEF Init, OnOffer, Candidate, CandidateReviewed, NoHold
  <2> QED BY <2>1
<1>2. IInv /\ Budget /\ Chain /\ OnOffer /\ Candidate /\ [Next]_vars => OnOffer' /\ Candidate'
  BY CandidateStep, GateStep
<1>3. Candidate => CandidateReviewed
  BY DEF Candidate
<1> QED BY <1>1, <1>2, <1>3, ChainInvariance, PTL DEF Spec
=============================================================================
