CONSTANTS
  Areas = {"kitchen", "hall"}
  Devices = {"hub", "socket"}
  Targets = {"lamp", "fan"}
  Gates = {"calendar", "holiday"}
  TargetNames = {"light.1", "fan.1", "light.2"}
  GateNames = {"binary_sensor.1", "binary_sensor.2", "binary_sensor.3"}
  Unregistered = {"binary_sensor.3"}
  Home <- House
  Stored <- StoredRules
  Durations = {0, 1500, 3000}
  DefaultDelay = 2000
  DefaultRetry = 1000
  MaxDelay = 2000
  MaxChanges = 2
  MaxFlows = 1
SPECIFICATION Spec
CHECK_DEADLOCK FALSE
INVARIANT TypeOK
INVARIANT OnlyPickedIsCallable
INVARIANT ClocksKeepIdentity
INVARIANT DefaultsKeepRule
PROPERTY NoStrangersOffered
INVARIANT AreaIsNearest
PROPERTY LoadsKeepClocks
