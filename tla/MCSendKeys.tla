----------------------------- MODULE MCSendKeys -----------------------------
(* Addresses, one of them unknown, and a list in a list; "me" sends.        *)
EXTENDS SendKeys

MCEntries == {"me", "b", "d", "old", "x"}
MCSources == [me |-> <<"me">>, b |-> <<"b", "b">>, d |-> <<"", "", "d">>, old |-> <<"", "old">>,
              x |-> <<"", "", "">>]
MCGroups  == {"team", "all"}
MCMembers == [team |-> <<"d">>, all |-> <<"b", "team">>]
MCEncKeys == {<<"me", "pgp">>, <<"me", "cms">>, <<"b", "pgp">>, <<"b", "cms">>, <<"d", "cms">>,
              <<"old", "pgp">>, <<"old", "cms">>}
MCSigKeys == {<<"me", "pgp">>, <<"me", "cms">>, <<"old", "pgp">>}

To(a)  == [addr |-> a, type |-> "to"]
Cc(a)  == [addr |-> a, type |-> "cc"]
Bcc(a) == [addr |-> a, type |-> "bcc"]
MCLists == {<<To("b")>>, <<To("d"), Bcc("b")>>, <<To("b"), Bcc("d"), Bcc("me")>>,
            <<Bcc("all"), To("d")>>, <<To("me"), Bcc("b"), Bcc("d")>>, <<Bcc("b"), Bcc("d")>>,
            <<To("b"), Bcc("b")>>, <<To("all"), Bcc("team")>>, <<To("b"), Bcc("x")>>,
            <<Cc("b"), Bcc("d"), Bcc("me")>>, <<Bcc("b"), Cc("team"), To("me")>>}
MCSigned == {<<To("b"), Bcc("d"), Bcc("me")>>, <<Bcc("all"), To("d")>>}
MCComposed ==
  [oom : MCLists, encrypt : {TRUE}, sign : BOOLEAN,
   account : {"old"}, identity : {<<"", "", "">>, <<"", "me", "old">>}]
    \cup [oom : MCSigned, encrypt : {FALSE}, sign : {TRUE}, account : {"", Unresolved}, identity : {<<"me">>}]
MCSettings ==
  { s \in [smime : BOOLEAN, preferSmime : BOOLEAN, auto : BOOLEAN, split : BOOLEAN] :
      s.preferSmime => s.smime }
=============================================================================
