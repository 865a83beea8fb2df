\* One row, two batches and two administrators: every interleaving.
CONSTANTS
  Events = {e1}
  Workers = {w1, w2}
  Operators = {o1, o2}
  MaxRetries = 3
  BatchLimit = 2
  Handles <- AllRows
SPECIFICATION FairSpec
INVARIANTS
  ExclusiveClaim
  DuplicateOnlyAfterLostAck
PROPERTIES
  KeepsContract
  EventuallySettled
CHECK_DEADLOCK FALSE
