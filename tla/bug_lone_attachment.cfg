SPECIFICATION Spec
CONSTANTS
  Mails <- MCLone
  Protections <- MCProtections
  Kinds <- MCKinds
  ReadSizes = {2, 3}
  WriteSizes = {1, 3}
  MaxOpens = 1
INVARIANT LoneFileArrives
CHECK_DEADLOCK FALSE
