CONSTANTS
  HardMaxAttempts = 1
  MaxConsecutiveFailures = 3
  MaxManagerInvocations = 1
  MaxTransitions = 18
  MaxAttempts = 1
  HumanBudget = 1
  Faults = {}
SPECIFICATION Spec
PROPERTY Settles
CHECK_DEADLOCK FALSE
