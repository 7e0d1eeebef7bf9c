CONSTANTS
  Subs = {"alice", "bob"}
  Faces = {"picture"}
  Sessions = {1, 2}
  MaxUsers = 2
  MaxRequests = 3
  MaxFailures = 1
SPECIFICATION Spec
CHECK_DEADLOCK FALSE
INVARIANTS RemovalFindsNoFollow NothingIsStranded
PROPERTY WantedRemovalHappens
