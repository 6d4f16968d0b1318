CONSTANTS
  Requests <- WellFormedRequests
  MaxRequests = 1
SPECIFICATION Spec
INVARIANT BadRequestOnlyForMalformed
CHECK_DEADLOCK FALSE
