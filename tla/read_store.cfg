CONSTANTS
  Mails = {m1}
  Parsers = {p1, p2, p3}
  Smime = {}
  Inline = {m1}
  Attach = {m1}
  Confirmations = {}
  Options = {}
  Env = {"forward", "draft", "sendagain", "permanent", "nostream", "nobody", "finalize", "window", "print"}
SPECIFICATION Spec
SYMMETRY Symmetry
INVARIANTS
  NoPlaintextStored
  ShowsFinishedParse
  PermanentKeepsText
CHECK_DEADLOCK FALSE
