SPECIFICATION MCSpec

CONSTANTS
  o1 = o1
  o2 = o2
  Owners <- MCOwners
  Nobody = Nobody
  PAGE_N = 1
  MAX_PAGES = 3
  MAX_PER_SWEEP = 1
  MAX_RESWEEPS = 1
  SLOTS = 1
  QUEUE_LEN = 1
  SEQ_BYTES = 2
  Top = 4
  Backlogs <- MCBacklogs
  MaxChain = 2
  MaxBinds = 2
  MaxFaults = 1
  MQTT_COMMAND_CAPACITY = 2
  Epochs = {0, 1}
  TopEnvelope = 2
  MaxConnects = 2
  MaxStoreFails = 1

INVARIANT CommandsSound
PROPERTIES ImplementsService EnvelopesRunOnce CommandsReached

CHECK_DEADLOCK FALSE
