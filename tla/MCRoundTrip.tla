---------------------------- MODULE MCRoundTrip ----------------------------
(* Instances of RoundTrip.                                                 *)
EXTENDS RoundTrip

File(name, suffix, cid, data) ==
  [type |-> "unknown", method |-> "value", cid |-> cid, name |-> name,
   suffix |-> suffix, kind |-> "file", data |-> data]

Plain(body, atts) == [body |-> body, html |-> <<>>, alt |-> FALSE, atts |-> atts]
Html(body, atts)  == [body |-> body, html |-> <<"text", "nl", "hi", "nl">>, alt |-> TRUE, atts |-> atts]

Short  == <<"text", "nl">>
Long   == <<"text", "more", "nl", "nl", "hi", "nl", "dash", "nl", "text">>
Notes  == File("notes.txt", "txt", "", <<"text", "nl", "hi", "nl">>)
Scan   == File("uml", "pdf", "", <<"bin", "nl", "bin">>)
Logo   == File("logo", "", "cid1", <<"bin", "text">>)
Item   == [Logo EXCEPT !.method = "ole", !.cid = "", !.name = "meeting"]

MCMails == { Plain(Short, <<>>), Plain(Long, <<Notes, Scan>>), Plain(<<>>, <<Scan, Logo>>),
             Html(Long, <<>>), Html(Short, <<Logo, Notes>>), Html(Short, <<Logo, Item>>),
             Plain(<<>>, <<>>) }

\* PGP/Inline is for OpenPGP, the newer Exchange matters for S/MIME
MCProtections ==
  { c \in [sign : BOOLEAN, encrypt : BOOLEAN, proto : {"pgp", "cms"}, inline : BOOLEAN,
           ex15 : BOOLEAN] :
      (c.sign \/ c.encrypt) /\ (c.inline => c.proto = "pgp") /\ (c.ex15 => c.proto = "cms") }

\* A scan that is sent without a word
MCLone == { Plain(<<>>, <<Scan>>) }

MCKinds == {"sent", "mime", "moved", "nobody", "tnef"}
=============================================================================
