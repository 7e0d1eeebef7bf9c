CONSTANTS
  Lambdas = {l1, l2}
  Clis = {c1}
  Ids = {1, 2}
  Seasons = {2021, 2022}
  SeasonOf <- MCSeasonOf
  Results = {1, 2}
  Details = {1, 2}
  Boxes = {0, 1}
  Datasets <- MCDatasets
  Bad <- MCBad
  LocksDie = TRUE
  NoOne = none
  MaxLoads = 2
SPECIFICATION Spec
CHECK_DEADLOCK FALSE
INVARIANTS TotalsAreCurrent
PROPERTIES KeepsThePromise EveryLoadEnds
