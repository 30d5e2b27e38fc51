SPECIFICATION MCSpec

CONSTANTS
  QUEUE_LEN = 2
  RETRIES = 3
  MaxJobs = 3
  MaxTelemetry = 1
  LateTasks = {"tlm"}
  Slots = {"power"}
  BALANCE_PERIOD = 2
  DEVPUB_PERIOD = 2
  SealTasks = {"rx", "tlm"}
  SEQ_RESERVE_WINDOW = 2
  SEQ_MAX_48 = 6
  MaxBinds = 2
  MaxRestarts = 1
  MaxPersistFails = 1
  MaxReadFails = 1
  Messages = {1, 2, 3}
  Qos0 = {1, 2}
  NETWORK_TIMEOUT = 5
  HALF_KEEPALIVE = 2
  RETRANSMIT = 1
  EXPIRED = 1
  GRACE = 3
  GRACE_PACKETS = 2
  RX_PACKETS = 1
  NORMAL_TX_FRAMES = 2
  MaxInbound = 2
  MaxUnsent = 2
  MaxConnects = 2
  MaxFailures = 3
  RejectsMax = 2
  Failing = {"client", "error_handle", "api_lock", "outbox", "status_bits", "config", "buffer",
             "in_buffer", "username", "password", "client_id", "uri", "will_topic",
             "will_message", "scheme", "host", "event_loop", "handler", "task",
             "transport_list", "ssl", "connect"}

INVARIANTS UplinkSound SetupSound
PROPERTIES PingRespSeen UplinkReturns

CHECK_DEADLOCK FALSE
