CONSTANTS
  Threads = {t1, t2}
  Options = {"splitBCCMails"}
  SyncModes = {TRUE, FALSE}
  Bodies = {"empty", "text"}
  Env = {"autosave", "senderr", "submit", "mapi", "body"}
SPECIFICATION Spec
SYMMETRY Symmetry
INVARIANTS
  ProtectedSend
  NoCrash
  LeavesOnce
