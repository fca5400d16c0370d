---------------------------- MODULE RepairLadder -----------------------------
(***************************************************************************)
(* repair_escalation.py: the bounded ladder a finding climbs that survives *)
(* a repair, and what counts as progress.                                  *)
(***************************************************************************)
EXTENDS Naturals, Sequences

CONSTANT
  RepairEscalation  \* AUTONOMY_ROLES.json "repair_escalation"

Stages         == RepairEscalation.stages
MaxEffortSteps == RepairEscalation.max_effort_steps
MaxAttempts    == RepairEscalation.max_attempts_per_stage
EffortLadder   == RepairEscalation.effort_ladder
DifficultImplementer == RepairEscalation.difficult_implementer
Planner        == RepairEscalation.planner

StageNames == {"CURRENT", "EFFORT_UP", "DIFFICULT_IMPLEMENTER", "PLANNER_DIAGNOSIS"}
NoOne == "none"

\* normalize_config
ASSUME LadderAssumption ==
  /\ Stages \in Seq(StageNames) /\ Stages # <<>> /\ Head(Stages) = "CURRENT"
  /\ \A i, j \in DOMAIN Stages : Stages[i] = Stages[j] => i = j
  /\ MaxEffortSteps \in 0..6 /\ MaxAttempts \in 1..6

Place(stage) == CHOOSE i \in DOMAIN Stages : Stages[i] = stage

\* A step names the profile that repairs and the one that diagnoses first.
StepOf(stage, profile, diagnoses) ==
  [stage |-> stage, profile |-> profile, diagnoses |-> diagnoses]
NewLadder == [stage |-> NoOne, attempts |-> 0, effort |-> 0, last |-> NoOne,
              step |-> StepOf("CURRENT", NoOne, NoOne)]

\* _next_effort_profile: at the top, or off the ladder, nobody is higher.
HigherEffort(profile) ==
  {EffortLadder[i + 1] : i \in {j \in 1..(Len(EffortLadder) - 1) :
                                  /\ EffortLadder[j] = profile
                                  /\ \A k \in 1..(j - 1) : EffortLadder[k] # profile}}

\* _try_stage, as the set of at most one step.
TryStage(ladder, stage) ==
  CASE stage = "EFFORT_UP" ->
         IF ladder.effort >= MaxEffortSteps THEN {}
         ELSE IF EffortLadder = <<>> THEN {StepOf(stage, ladder.last, NoOne)}
         ELSE {StepOf(stage, p, NoOne) : p \in HigherEffort(ladder.last)}
    [] stage = "DIFFICULT_IMPLEMENTER" ->
         {StepOf(stage, p, p) : p \in {DifficultImplementer} \ {NoOne}}
    [] stage = "PLANNER_DIAGNOSIS" ->
         {StepOf(stage, IF DifficultImplementer = NoOne THEN ladder.last ELSE DifficultImplementer, p) :
            p \in {Planner} \ {NoOne}}
    [] OTHER -> {}

\* The stages above the present one that have a step; EFFORT_UP may repeat.
OpenPlaces(ladder) ==
  LET first == Place(ladder.stage) + (IF ladder.stage = "EFFORT_UP" THEN 0 ELSE 1)
  IN  {i \in first..Len(Stages) : TryStage(ladder, Stages[i]) # {}}

Attempt(ladder) == [action |-> "STEP", ladder |-> ladder, retry |-> FALSE]

\* next_step: progress earns another try on the stage, up to MaxAttempts;
\* otherwise the ladder is climbed to the next stage that has a step.
NextStep(old, progressed, last) ==
  LET ladder == [old EXCEPT !.last = IF last = NoOne THEN @ ELSE last]
      open   == OpenPlaces(ladder)
      place  == CHOOSE i \in open : \A j \in open : i <= j
  IN  CASE ladder.stage = NoOne -> Attempt([ladder EXCEPT !.stage = "CURRENT", !.attempts = 1])
        [] ladder.stage # NoOne /\ progressed /\ ladder.attempts < MaxAttempts ->
             [Attempt([ladder EXCEPT !.attempts = @ + 1]) EXCEPT !.retry = TRUE]
        [] ladder.stage # NoOne /\ ~(progressed /\ ladder.attempts < MaxAttempts) /\ open # {} ->
             Attempt([ladder EXCEPT !.stage = Stages[place], !.attempts = 1,
                        !.effort = IF Stages[place] = "EFFORT_UP" THEN @ + 1 ELSE @,
                        !.step = CHOOSE s \in TryStage(ladder, Stages[place]) : TRUE])
        [] OTHER -> [Attempt(ladder) EXCEPT !.action = "EXHAUSTED"]

\* assess_progress: keys before and after a repair, and whether the repair
\* itself brought evidence.
Progressed(before, after, signals) == signals \/ before \ after # {}
FullyNew(before, after) == /\ after # {} /\ before \cap after = {}
                           /\ before \ after # {} \/ before = {}
=============================================================================
