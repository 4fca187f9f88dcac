SPECIFICATION Spec
CONSTANTS
  Order <- MCOrder
  Scenes <- MCScenes
  MaxChecks = 1
  MaxBoxes = 2
  MaxReads = 1
  MaxRequests = 1
INVARIANTS Durable ConfirmedOnce
PROPERTY SeenIsHandled
CHECK_DEADLOCK FALSE
