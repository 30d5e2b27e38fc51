SPECIFICATION MCSpec

CONSTANTS
  Rates = {115200, 230400, 921600}
  Valid = 230400
  Cautious = 115200
  CardApn = "iot.1nce.net"
  MaxFaults = 2

INVARIANT ModemSound
PROPERTIES WatchdogJustified UplinkRestored

CHECK_DEADLOCK FALSE
