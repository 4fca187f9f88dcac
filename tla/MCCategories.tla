---------------------------- MODULE MCCategories ----------------------------
(* A mail with every kind of signature; or two that are alike, in one store  *)
(* or in two. No junk mail has an S/MIME attachment to save.                *)
EXTENDS Categories

Uid(addr, validity) == [NoUid EXCEPT !.addr = addr, !.validity = validity]
MCUids ==
  { Uid("alice", "ultimate"), Uid("alice", "full"), [Uid("alice", "full") EXCEPT !.own = TRUE],
    Uid("alice", "marginal"),
    [Uid("alice", "marginal") EXCEPT !.tofu = "little", !.first = TRUE],
    [Uid("alice", "marginal") EXCEPT !.tofu = "little"], [Uid("alice", "marginal") EXCEPT !.tofu = "basic"],
    [Uid("alice", "unknown") EXCEPT !.tofu = "conflict"],
    [Uid("alice", "unknown") EXCEPT !.wkd = TRUE],
    Uid("alice", "never"), [Uid("alice", "never") EXCEPT !.revoked = TRUE], Uid("bob", "full") }

\* A key with one user id and one with two; the signature is as valid as the best
Sig(uids, validity) == [NoSig EXCEPT !.uids = uids, !.validity = validity]
Good == { [Sig(<<u>>, u.validity) EXCEPT !.deVs = d, !.smime = u.validity = "full"] :
            u \in {Uid("alice", "full"), [Uid("alice", "full") EXCEPT !.own = TRUE]}, d \in BOOLEAN }
          \cup { [Sig(<<u, Uid("bob", "unknown")>>, u.validity) EXCEPT !.deVs = TRUE] : u \in MCUids }
Bad(status, summary, uids) == [Sig(uids, "unknown") EXCEPT !.status = status, !.summary = {summary}]
Wrong == { Bad("bad signature", "Red", <<Uid("alice", "full")>>),
           Bad("no key", "KeyMissing", <<>>),
           Bad("general", "SysError", <<Uid("alice", "full")>>),
           Bad("sig expired", "SigExpired", <<Uid("alice", "unknown")>>),
           Bad("key expired", "KeyExpired", <<[Uid("alice", "unknown") EXCEPT !.wkd = TRUE]>>) }

Mail1 == [store |-> "inbox", from |-> [sender |-> "alice", behalf |-> Null], junk |-> FALSE,
          smime |-> FALSE, draft |-> FALSE, dec |-> TRUE, sigs |-> <<>>, verify |-> "done"]
Few  == { Sig(<<Uid("alice", "full")>>, "full"), Sig(<<Uid("alice", "marginal")>>, "marginal"),
          Bad("no key", "KeyMissing", <<>>) }
Froms == {[sender |-> "alice", behalf |-> Null], [sender |-> "carol", behalf |-> "bob"],
          [sender |-> Null, behalf |-> Null]}
AnyMail == { [Mail1 EXCEPT !.sigs = <<s>>, !.smime = s.smime] : s \in Good \cup Wrong }
          \cup { [Mail1 EXCEPT !.sigs = <<s, t>>, !.dec = FALSE, !.from = f] :
                   s \in Few, t \in Few \cup {Sig(<<Uid("bob", "full")>>, "full")}, f \in Froms }
          \cup { [Mail1 EXCEPT !.verify = Null, !.draft = TRUE], [Mail1 EXCEPT !.verify = "error"],
                 [Mail1 EXCEPT !.junk = TRUE], Mail1 }
Full == [Mail1 EXCEPT !.sigs = <<Sig(<<Uid("alice", "full")>>, "full")>>]
Like == { Full, [Full EXCEPT !.smime = TRUE], [Full EXCEPT !.store = "other"], [Full EXCEPT !.draft = TRUE],
          [Full EXCEPT !.junk = TRUE] }

TwoMails == {1, 2}
\* Any mail beside one that is not parsed; two that are alike
Alone == { <<c, [Mail1 EXCEPT !.junk = TRUE]>> : c \in AnyMail }
Pairs == { <<[Full EXCEPT !.smime = s, !.draft = ~s], c>> : s \in BOOLEAN, c \in Like }
MCContents == Alone \cup Pairs

Stale == {{}, {User, LevelOf(4, "mallory"), Enc}}
=============================================================================
