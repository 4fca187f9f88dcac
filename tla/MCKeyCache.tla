----------------------------- MODULE MCKeyCache -----------------------------
(* A sender with a secret key, and a newer one that cannot sign, a recipient *)
(* with an OpenPGP key in the net or a certificate in the net, and a contact *)
(* that may hold the key.                                                    *)
EXTENDS KeyCache

MCKeys == [
  own  |-> [proto |-> "pgp", addr |-> "s", secret |-> TRUE,  sign |-> TRUE,  good |-> TRUE, validity |-> "marginal", created |-> 1],
  old  |-> [proto |-> "pgp", addr |-> "s", secret |-> TRUE,  sign |-> FALSE, good |-> TRUE, validity |-> "marginal", created |-> 2],
  card |-> [proto |-> "cms", addr |-> "s", secret |-> TRUE,  sign |-> TRUE,  good |-> TRUE, validity |-> "marginal", created |-> 1],
  away |-> [proto |-> "pgp", addr |-> "b", secret |-> FALSE, sign |-> TRUE,  good |-> TRUE,  validity |-> "marginal", created |-> 1],
  cert |-> [proto |-> "cms", addr |-> "b", secret |-> FALSE, sign |-> TRUE,  good |-> TRUE,  validity |-> "marginal", created |-> 1]]
MCAddrs  == {"s", "b"}
MCSender == "s"
MCNet    == {"away", "cert"}
MCContacts == {"b"}
MCConfigurable == {"away", "garbage", "empty"}
MCOpts == [smime |-> TRUE, preferSmime |-> FALSE, servers |-> TRUE, untrusted |-> FALSE]
Scene(c, n, l, t, e, p, v) ==
  [book |-> c, known |-> n, locates |-> l, toggles |-> t, edits |-> e, populate |-> p, verify |-> v]
MCScenes ==
  { Scene("away", FALSE, 1, 1, 0, FALSE, "null"),     \* the user chooses meanwhile
    Scene("empty", FALSE, 2, 0, 0, FALSE, "null"),    \* the recipients change
    Scene("away", TRUE, 2, 0, 1, FALSE, "null"),      \* the contact is edited, two imports
    Scene("garbage", FALSE, 1, 0, 0, FALSE, "null"),
    Scene("away", TRUE, 1, 0, 0, FALSE, "away"),      \* signatures of the contact's key
    Scene("empty", FALSE, 0, 1, 0, FALSE, "own"),     \* own signatures, own keys are searched
    Scene("empty", FALSE, 0, 0, 0, TRUE, "own") }     \* the start of the add-in
=============================================================================
