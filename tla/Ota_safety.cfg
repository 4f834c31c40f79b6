CONSTANTS
  MaxTask = 2
  Versions = {"v1", "v2"}
  Factory = "v1"
  NoVersion = "none"
  FailMax = 1
  Retries = 1
  Callers = {api1, api2}
  Receivers = {rx}
  Scanner = scan
  api1 = api1
  api2 = api2
  rx = rx
  MaxLink = 2
SPECIFICATION MCSpec
CHECK_DEADLOCK FALSE
INVARIANTS SuccessIsEvidenced NoRepeatedFlash
PROPERTIES VerdictStays
