\* Two batches of two rows each, any of them interrupted between claims and handlers,
\* and an administrator who may replay a row.
CONSTANTS
  Events = {e1, e2}
  Workers = {w1, w2}
  Operators = {o1}
  MaxRetries = 3
  BatchLimit = 2
  Handles <- AllRows
SPECIFICATION QuietSpec
INVARIANTS
  OrphanOnlyIfAbandoned
PROPERTY EventuallySettled
CHECK_DEADLOCK FALSE
