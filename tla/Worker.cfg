CONSTANTS
  Sizes = {1, 2}
  RingBytes = 11
  MaxRequests = 3
  MaxStateWork = 2
  MaxResponses = 1
SPECIFICATION Spec
INVARIANTS TypeOK WorkExcluded SemCountsRequests Discipline StopsInOrder ResponsesInOrder
PROPERTIES QueueSpec RequestsServed ResponsesDelivered ExitReturns
