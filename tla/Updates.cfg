SPECIFICATION MCSpec

CONSTANTS
  Mqtt = TRUE
  Chunks = 2
  MaxRequests = 4
  MaxRestarts = 3
  MaxFaults = 2
  ImageLen = 5
  Header = 1
  ResumeMin = 1
  MaxAttempts = 4
  TimeCap = 6
  StallLimit = 2
  Buffer = 3
  MaxHops = 2
  Images = {"v1", "v2", "v3"}
  Factory = "v1"
  Sane = {"v1", "v2"}
  Update = "v2"
  Frames = 3
  Block = 2
  MaxBoots = 1
  MaxBegins = 3
  MaxCuts = 3
  MaxWears = 2
  MaxRelays = 1
  MaxWire = 1
  RelayBegins = 2
  RelayUpsets = 1

INVARIANTS SlotSound ImageSafe DownloadSound
PROPERTIES ConfirmedStays UpdatesEnd

CHECK_DEADLOCK FALSE
