SPECIFICATION RelaySpec
CONSTANTS
  MaxFrames = 3
  Room = 2
PROPERTIES GoodbyeDelivers
CHECK_DEADLOCK FALSE
