CONSTANTS
  Mails = {m1, m2, m3}
  Parsers = {p1, p2}
  Smime = {m2}
  Inline = {}
  Attach = {m1}
  Confirmations = {m3}
  Options = {}
  Env = {"shutdown", "closeerr", "finalize", "nothread", "nobody", "wipeerr"}
SPECIFICATION FairSpec
INVARIANTS
  CleaningKnows
  ShutdownTells
PROPERTIES
  MailIsShown
  ParserLockFreed
CHECK_DEADLOCK FALSE
