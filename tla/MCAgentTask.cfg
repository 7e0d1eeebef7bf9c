CONSTANTS
  HardMaxAttempts = 3
  MaxConsecutiveFailures = 3
  MaxManagerInvocations = 2
  MaxTransitions = 1
  Extras <- MCExtras
  LeastBudget = 0
SPECIFICATION TaskSpec
INVARIANTS Budgets Story
CHECK_DEADLOCK FALSE
