CONSTANTS
  alice = alice
  bob = bob
  r1 = r1
  r2 = r2
  Users = {alice, bob}
  Media = {m1}
  Sessions = {r1, r2}
  MaxPosts = 3
  MaxRequests = 4
  Ops = {"publish", "click", "undo", "like", "unlike", "report", "delete", "remove"}
SYMMETRY Alike
SPECIFICATION Spec
CHECK_DEADLOCK FALSE
INVARIANTS ClickedOnce SweepFindsEveryDependant RemovedLeavesNoTrace
PROPERTY OnlyPlainRepostsVanish
