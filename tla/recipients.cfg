SPECIFICATION Spec
CONSTANTS
  Entries <- MCEntries
  Sources <- MCSources
  Groups <- MCGroups
  Members <- MCMembers
  EncKeys <- MCEncKeys
  SigKeys <- MCSigKeys
  Settings <- MCSettings
  Composed <- MCComposed
  CurrentUser = "me"
  MaxCopies = 4
  MaxCancels = 1
INVARIANTS ReadableByRecipients NobodyForgotten OneProtocol
PROPERTY Settles
CHECK_DEADLOCK FALSE
