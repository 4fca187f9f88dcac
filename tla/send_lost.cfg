CONSTANTS
  Threads = {t1, t2}
  Options = {"draft_key", "inline_pgp"}
  SyncModes = {TRUE, FALSE}
  Bodies = {"empty", "text"}
  Env = {"conflict", "class", "base", "message"}
SPECIFICATION FairSpec
INVARIANTS
  SentOnRequest
PROPERTIES
  WindowComesBack
