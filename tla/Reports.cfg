SPECIFICATION ReportSpec

CONSTANTS
  ScreenCount = 2
  Levels = 2
  MaxFrames = 1
  Wallets = {"alice", "bob"}
  Nobody = "none"
  TRUST_CONFIRM = 2
  RELEASE_GRACE = 1
  CONFIRM_TIMEOUT = 3
  DISPLAY_TTL = 2
  TRUST_WAIT = 4
  MaxNonce = 2
  MaxTroubles = 1
  Cap = 2
  MaxSessions = 2
  MaxLosses = 2
  MaxPresses = 3
  MaxPrompts = 2
  StaleTtl = 2
  Cooldown = 4
  InfoTtl = 1
  MaxLost = 1
  StaleAfter = 1
  Grace = 2
  ReinitAfter = 2
  ReinitRetry = 4
  RebootAfter = 4
  BadPasses = 2
  UplinkEvery = 2
  Reminder = 3
  Horizon = 5
  Idle = 4
  RebootCycle = 4
  MaxTransfers = 2
  MaxBoots = 3
  MaxErrors = 3

INVARIANTS ReportsTrue DisplayInStep
PROPERTIES DestroyedDeliberately RestartIsLastResort 

CHECK_DEADLOCK FALSE
