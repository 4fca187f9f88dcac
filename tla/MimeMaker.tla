----------------------------- MODULE MimeMaker -----------------------------
(***************************************************************************)
(* The MIME structure GpgOL writes: mimemaker.cpp and the functions of     *)
(* cryptcontroller.cpp that wrap what GnuPG returned. The results are      *)
(* sequences of lines.                                                     *)
(*                                                                         *)
(* A text or a file is a sequence of pieces; "nl" is the end of a line and *)
(* every other piece fills one line of the size mails allow, so that two   *)
(* of them in a row are a line that is too long to be sent as it is.       *)
(***************************************************************************)
EXTENDS Naturals, Sequences, SequencesExt

Pieces == { "nl", "text", "more",
            "hi",     \* text with a few 8 bit characters
            "bin",    \* mostly 8 bit
            "dash",   \* a line that starts like one of our boundaries
            "huge",   \* more than a read buffer holds
            "pgp",    \* the armor line of a PGP message
            "clear",  \* the one of a clear-signed message
            "cipher", "sig" }  \* what GnuPG made of the data

\* A header block is one line. main/sub: the media type, enc: the transfer
\* encoding, disp: Content-Disposition, ph: the protected-headers version
Header(main, sub) ==
  [ k |-> "hdr", main |-> main, sub |-> sub, enc |-> "7bit", name |-> "",
    disp |-> "none", cid |-> "", proto |-> "", bnd |-> "", ph |-> 0,
    smt |-> "", mime |-> FALSE ]

Data(p, e, soft) == [k |-> "data", p |-> p, e |-> e, soft |-> soft]
Blank            == Data(<<>>, "7bit", FALSE)
Boundary(b)      == [k |-> "bound", b |-> b, last |-> FALSE]
LastBoundary(b)  == [k |-> "bound", b |-> b, last |-> TRUE]

\* One more piece of a content: the lines that have ended, and the current one
AddPiece(acc, x) == IF x = "nl" THEN [done |-> Append(acc.done, acc.cur), cur |-> <<>>]
                                ELSE [acc EXCEPT !.cur = Append(@, x)]

Split(c) ==
  LET split[i \in 0..Len(c)] == IF i = 0 THEN [done |-> <<>>, cur |-> <<>>]
                                ELSE AddPiece(split[i - 1], c[i])
  IN split[Len(c)]

\* The lines of a content, the last one perhaps without its "nl"
SplitLines(c) == IF Split(c).cur = <<>> THEN Split(c).done
                                        ELSE Append(Split(c).done, Split(c).cur)

\* What is at the places in I, in its order
Only(s, I) == FlattenSeq([i \in DOMAIN s |-> IF i \in I THEN <<s[i]>> ELSE <<>>])

\* utf8_to_rfc2047b, and rfc2047_parse that undoes it
Rfc2047(name)     == IF name = "uml" THEN "=?utf-8?B?uml?=" ELSE name
FromRfc2047(name) == IF name = "=?utf-8?B?uml?=" THEN "uml" ELSE name
-----------------------------------------------------------------------------
(* Parts.                                                                  *)

\* Plain, quoted printable or base64: infer_content_encoding
ContentEncoding(c) ==
  IF "bin" \in ToSet(c) THEN "b64"
  ELSE IF \/ "hi" \in ToSet(c)
          \/ \E l \in ToSet(SplitLines(c)) : Len(l) > 1 \/ "dash" \in ToSet(l)
       THEN "qp" ELSE "7bit"

WritePlain(c) == LET ls == SplitLines(c)
                 IN [i \in DOMAIN ls |-> Data(ls[i], "7bit", FALSE)]

\* A long line gets soft line breaks
QpLine(l) == IF l = <<>> THEN <<Data(<<>>, "qp", FALSE)>>
             ELSE [i \in DOMAIN l |-> Data(<<l[i]>>, "qp", i < Len(l))]
WriteQp(c) == FlattenSeq([i \in DOMAIN SplitLines(c) |-> QpLine(SplitLines(c)[i])])

WriteB64(c) ==
  [i \in 1..((Len(c) + 1) \div 2) |->
     Data(SubSeq(c, 2 * i - 1, IF 2 * i > Len(c) THEN Len(c) ELSE 2 * i), "b64", FALSE)]

WriteContent(c, enc) == CASE enc = "b64" -> WriteB64(c)
                          [] enc = "qp" -> WriteQp(c)
                          [] OTHER -> WritePlain(c)

\* The line end before a boundary belongs to the boundary
WriteBoundary(b) == IF b = "" THEN <<>> ELSE <<Blank, Boundary(b)>>
CloseBoundary(b) == IF b = "" THEN <<>> ELSE <<Blank, LastBoundary(b)>>

\* The media type: from the suffix of the file, else from the origin
ContentType(part) ==
  CASE part.suffix = "txt" -> <<"text", "plain">>
    [] part.suffix = "pdf" -> <<"application", "pdf">>
    [] part.kind = "plain" -> <<"text", "plain">>
    [] part.kind = "html"  -> <<"text", "html">>
    [] OTHER -> <<"application", "octet-stream">>

\* Suffixes that force base64
ForceB64(part) == part.suffix = "pdf"

WritePart(part, b) ==
  LET ct   == ContentType(part)
      enc  == IF ForceB64(part) THEN "b64" ELSE ContentEncoding(part.data)
      name == Rfc2047(part.name)
  IN WriteBoundary(b)
     \o << [Header(ct[1], ct[2]) EXCEPT
              !.enc = enc, !.name = name, !.cid = part.cid,
              !.disp = IF part.cid = "" /\ name # "" THEN "attachment" ELSE "none"],
           Blank >>
     \o WriteContent(part.data, enc)

BodyPart(kind, c) == [kind |-> kind, name |-> "", suffix |-> "", cid |-> "", data |-> c]
-----------------------------------------------------------------------------
(* Attachments of the message: method "value" is a file, "ole" an Outlook  *)
(* item. type is the GpgOL attach type, "unknown" for those of the user.   *)

Usable(a) == a.type = "unknown" /\ a.method \in {"value", "ole", "embedded"}
UsableAttachments(atts) == Only(atts, { i \in DOMAIN atts : Usable(atts[i]) })

\* 0: none is related or the mail is not HTML; mixed and related count one
IsRelated(m) ==
  IF ~m.alt THEN 0
  ELSE (IF \E i \in DOMAIN m.atts : m.atts[i].cid # "" THEN 1 ELSE 0)
     + (IF \E i \in DOMAIN m.atts : m.atts[i].cid = "" THEN 1 ELSE 0)

\* which = 1: the related ones, 0: the others, 2: all
Selected(a, which) == /\ a.type = "unknown" /\ a.method = "value"
                      /\ ~(which = 1 /\ a.cid = "")
                      /\ ~(which = 0 /\ a.cid # "")

WriteAttachments(atts, b, which) ==
  LET sel == Only(atts, { i \in DOMAIN atts : Selected(atts[i], which) })
  IN FlattenSeq([i \in DOMAIN sel |-> WritePart(sel[i], b)])

\* The user is asked about the first Outlook item, but not in plain mails
AsksAboutOle(atts, which) ==
  /\ which = 0
  /\ \E i \in DOMAIN atts : atts[i].type = "unknown" /\ atts[i].method \in {"ole", "embedded"}

AddBody(m, b) ==
  IF m.body = <<>> THEN <<>>
  ELSE IF ~m.alt THEN WritePart(BodyPart("plain", m.body), b)
  ELSE WriteBoundary(b)
       \o <<[Header("multipart", "alternative") EXCEPT !.bnd = "alt"], Blank>>
       \o WritePart(BodyPart("plain", m.body), "alt")
       \o WritePart(BodyPart("html", m.html), "alt")
       \o CloseBoundary("alt")

AddBodyAndAttachments(m) ==
  LET n       == Len(UsableAttachments(m.atts))
      related == IsRelated(m)
      outer   == IF (m.body # <<>> /\ n > 0) \/ n > 1 THEN "outer" ELSE ""
      inner   == IF outer # "" /\ related = 2 THEN "inner" ELSE ""
      within  == IF inner # "" THEN inner ELSE outer
  IN (IF outer = "" THEN <<>>
      ELSE <<[Header("multipart", IF related = 1 THEN "related" ELSE "mixed")
                EXCEPT !.bnd = outer], Blank>>)
     \o (IF inner = "" THEN <<>>
         ELSE WriteBoundary(outer)
              \o <<[Header("multipart", "related") EXCEPT !.bnd = inner], Blank>>)
     \o AddBody(m, within)
     \o (IF n = 0 \/ related = 0 THEN <<>>
         ELSE WriteAttachments(m.atts, within, 1) \o CloseBoundary(inner))
     \o (IF n = 0 THEN <<>>
         ELSE WriteAttachments(m.atts, outer, IF related = 0 THEN 2 ELSE 0))
     \o CloseBoundary(outer)

\* collect_data gives up: nothing to protect, or the user's answer
NothingToSend(m) == m.body = <<>> /\ UsableAttachments(m.atts) = <<>>
RefusedOle(m, yes) ==
  ~yes /\ UsableAttachments(m.atts) # <<>>
       /\ AsksAboutOle(m.atts, IF IsRelated(m) = 0 THEN 2 ELSE 0)
-----------------------------------------------------------------------------
(* What GnuPG returned is wrapped: proto is "pgp" or "cms".                *)

SigningHeader(proto) ==
  <<[Header("multipart", "signed") EXCEPT
       !.mime = TRUE, !.bnd = "sign",
       !.proto = IF proto = "pgp" THEN "application/pgp-signature"
                                  ELSE "application/pkcs7-signature"], Blank>>

CreateSignAttach(proto, signature, signed) ==
  SigningHeader(proto)
  \o WriteBoundary("sign") \o signed
  \o WriteBoundary("sign")
  \o (IF proto = "pgp"
      THEN <<[Header("application", "pgp-signature") EXCEPT !.name = "sigfile"], Blank>>
           \o WritePlain(signature)
      ELSE <<[Header("application", "pkcs7-signature") EXCEPT
                !.enc = "b64", !.disp = "inline", !.name = "sigfile"], Blank>>
           \o WriteB64(signature))
  \o <<Blank>> \o CloseBoundary("sign")

\* ex15: the mail goes out over a newer Exchange
EncryptionHeader(proto, ex15) ==
  IF proto = "cms"
  THEN IF ex15 THEN <<>>
       ELSE <<[Header("application", "pkcs7-mime") EXCEPT
                 !.smt = "enveloped-data", !.name = "smime.p7m",
                 !.disp = "attachment", !.enc = "b64"], Blank>>
  ELSE <<[Header("multipart", "encrypted") EXCEPT
            !.mime = TRUE, !.proto = "application/pgp-encrypted", !.bnd = "enc"]>>
       \o WriteBoundary("enc")
       \o <<Header("application", "pgp-encrypted"), Blank, Data(<<"text">>, "7bit", FALSE)>>
       \o WriteBoundary("enc")
       \o <<[Header("application", "octet-stream") EXCEPT
               !.disp = "inline", !.name = "encfile"], Blank>>

CreateEncryptAttach(proto, encrypted, ex15) ==
  EncryptionHeader(proto, ex15)
  \o (IF proto = "pgp" \/ ex15 THEN WritePlain(encrypted) ELSE WriteB64(encrypted))
  \o CloseBoundary(IF proto = "pgp" THEN "enc" ELSE "")
=============================================================================
