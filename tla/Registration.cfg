\* One device, whose button is tapped twice.
SPECIFICATION Spec
CONSTANTS
  Devices = {d1}
  MaxTaps = 2
INVARIANTS
  OneUserPerNumber
CHECK_DEADLOCK FALSE
