-------------------------- MODULE MCWebKeyService ---------------------------
(* Two addresses of the user; the first one comes first in s_states.        *)
EXTENDS WebKeyService

MCOrder == <<"a", "b">>
Scene(a, b, w, r, f) ==
  [directory |-> [a |-> a, b |-> b], weeks |-> w, restarts |-> r, fails |-> f, checks |-> 1]
\* Both wait for their turn; a restart with a failing save, or with a week that
\* passes, where the check that the restart asks for comes late
MCScenes == { Scene("offered", "offered", 0, 0, 0), Scene("none", "offered", 0, 1, 1),
              Scene("none", "offered", 1, 1, 0) }
=============================================================================
