CONSTANTS
  Lambdas = {l1, l2}
  Shells = {s1}
  NoOne = none
  MaxKinds = 2
SPECIFICATION Spec
INVARIANTS
  SchemaMatchesRevision
  UpgradeGoesThrough
CHECK_DEADLOCK FALSE
