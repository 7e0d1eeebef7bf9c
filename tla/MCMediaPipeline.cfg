CONSTANTS
  Media = {m1}
  MaxUploads = 2
  MaxReceive = 3
  MaxRemovals = 2
SPECIFICATION Spec
INVARIANTS PublishedWasScannedClean UploadsAreAccountedFor RemovalLeavesNothingServed
PROPERTIES DecidedOnce UploadsEnd
CHECK_DEADLOCK FALSE
