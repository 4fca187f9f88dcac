CONSTANTS
  Mails = {m1}
  Parsers = {p1}
  Smime = {}
  Inline = {}
  Attach = {m1}
  Confirmations = {}
  Options = {}
  Env = {"forward", "second"}
SPECIFICATION Spec
INVARIANT NoPlaintextStored
CHECK_DEADLOCK FALSE
