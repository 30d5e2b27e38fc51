SPECIFICATION MCSpec

CONSTANTS
  Base = 4
  Sync1 = 2
  Sync2 = 1
  Guard = 0
  HeaderFields = 1
  MaxPayload = 2
  Guarded = TRUE
  HasIdleReset = TRUE
  MaxFaults = 2
  MaxFrames = 2
  WordBits = 2
  Words = 3
  C0 = 1
  Order = 53
  P_ = 499
  N_ = 457
  NBits = 9
  B = 11
  Gx = 3
  Gy = 176
  LenBits = 4
  Seconds = 256

INVARIANTS FramesSound HubSound CodecSound
PROPERTIES CryptoRight ScreensRight TransactionsRight

CHECK_DEADLOCK FALSE
