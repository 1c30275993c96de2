SPECIFICATION Spec
CONSTANTS
  Items = 2
  CaseOf <- MCCaseOf
  Role <- MCRole
  MaxCallbacks = 2
INVARIANT StrictFailureBlocks
CHECK_DEADLOCK FALSE
