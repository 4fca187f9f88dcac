SPECIFICATION Spec
CONSTANTS
  DeVsMode = TRUE
  Addresses = {"alice", "bob", "carol", "mallory"}
  Mails <- TwoMails
  Stores = {"inbox", "other"}
  Contents <- MCContents
  Leftovers <- Stale
  Changes = FALSE
  MaxSaves = 1
  MaxReads = 2
  MaxPrints = 1
  MaxRestarts = 1
INVARIANTS ListedWhileShown ShowsVerdict LevelEarned Explained
PROPERTY SavedClean
CHECK_DEADLOCK FALSE
