SPECIFICATION Spec
CONSTANTS
  KeyInfo <- MCKeys
  Addrs <- MCAddrs
  Sender <- MCSender
  Net <- MCNet
  Contacts <- MCContacts
  Configurable <- MCConfigurable
  Opts <- MCOpts
  Scenes <- MCScenes
  MaxLocates = 2
  MaxImports = 2
  MaxUpdates = 2
  MaxToggles = 1
  MaxEdits = 1
INVARIANTS CountMatches NoResultUnseen DoneMeansCached
PROPERTY SecretKept
CHECK_DEADLOCK FALSE
