SPECIFICATION Spec
CONSTANTS
  Mails <- MCMails
  Protections <- MCProtections
  Kinds <- MCKinds
  ReadSizes = {2, 3}
  WriteSizes = {1, 3}
  MaxOpens = 2
INVARIANTS
  ReadBack
  SameProtection
  OnlyOriginalsVisible
  HtmlNeedsSignature
CHECK_DEADLOCK FALSE
