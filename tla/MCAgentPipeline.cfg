CONSTANTS
  HardMaxAttempts = 2
  MaxConsecutiveFailures = 3
  MaxManagerInvocations = 1
  MaxTransitions = 20
  MaxAttempts = 1
  HumanBudget = 1
  Faults = {"worker_lost", "ci_lost", "handback_lost", "orchestrator_dies", "dispatch_fails"}
SPECIFICATION Spec
INVARIANTS CodeRunsCounted LostIsReported
PROPERTIES LateRunsDecideNothing ControlStands
CHECK_DEADLOCK FALSE
