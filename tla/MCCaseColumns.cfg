SPECIFICATION CaseStoreSpec
CONSTANTS
  DrawnIds = {"x", "y"}
  MaxEvents = 3
INVARIANT CompletedCaseIsListed
CHECK_DEADLOCK FALSE
