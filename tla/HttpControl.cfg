SPECIFICATION Spec
CONSTANTS
  ACK_PENDING_MAX = 1
  EXEC_RING_MAX = 2
  REJ_MAX = 1
  RESP_FIT = 2
  Limit = 1
  MaxIds = 4
  MaxOdd = 2
  MaxLate = 1
  MaxExpired = 1
  MaxRestarts = 1
  MaxServerRestarts = 1
  MaxRolls = 1
INVARIANT HttpSound
PROPERTY QueueDrains
CHECK_DEADLOCK FALSE
