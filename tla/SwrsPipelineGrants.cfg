SPECIFICATION Spec
CONSTANTS
  Archive = {a1}
  EcccRun = {d1}
  LoadRun = {l1}
  Deployed = {l1}
  Part <- LoadTask
  MaxFaults = 0
INVARIANT UsersMayRead
CHECK_DEADLOCK FALSE
