CONSTANTS
  Threads = {t1, t2}
  Options = {"inline_pgp", "splitBCCMails"}
  SyncModes = {TRUE, FALSE}
  Bodies = {"empty", "text"}
  Env = {"autosave", "base", "conflict"}
SPECIFICATION FairSpec
INVARIANTS
  TypeOK
  PinnedWhileCrypting
  WindowFollowsCrypto
  SendsLatestText
  HonoursChoice
  Restartable
  KeepsText
PROPERTIES
  KeepsPromise
