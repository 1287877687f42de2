SPECIFICATION ClientSpec
CONSTANTS
  Docs = {"d1"}
  LastCall = 2
  MaxVersion = 0
  MaxFaults = 0
PROPERTIES
  OnlineStateSettles
CHECK_DEADLOCK FALSE
