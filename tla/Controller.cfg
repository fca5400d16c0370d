\* The roadmap of a product run with a second point, a point only a human can
\* do and the standing item CONTINUE.  With chains of two iterations, whose
\* first is accepted on self-verification alone, batched planning and a polish
\* pass; and without chains, where the worktree is edited once from outside.
SPECIFICATION FairSpec
CONSTANTS
  Items = {"STEP_1", "STEP_2", "SIGN", "CONTINUE"}
  DependsOn <- MCProduct
  HumanRequired = {"SIGN"}
  Recurring = {"CONTINUE"}
  MaxIterations = 3
  RepairCap = 1
  Chaining = {TRUE, FALSE}
  ChainLength = 2
  MidChainReview = "NONE"
  PlanBatching = TRUE
  PolishEnabled = TRUE
  EndsOpenChain = FALSE
  Skips = {{}, {"STEP_1"}}
  Stubs = {{"STEP_2"}}
  NoTree = NoTree
  MaxEdits <- MCMaxEdits
  MaxIntegrations = 2
INVARIANTS AcceptedWasReviewed DoneIsBacked OpenChain CandidateReviewed
PROPERTIES ImplementsGate RunSettles
CHECK_DEADLOCK FALSE
