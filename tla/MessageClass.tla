---------------------------- MODULE MessageClass ----------------------------
(***************************************************************************)
(* How GpgOL tells from a MAPI message what it is and where its protected  *)
(* data are: the message class, the GpgOL properties and the marks on the  *)
(* attachments. Everything here is in mapihelp.cpp.                        *)
(*                                                                         *)
(* A message is a record                                                   *)
(*   cls       PR_MESSAGE_CLASS                                            *)
(*   override  the GpgOL Msg Class property, "" when it is not set         *)
(*   old       the GpgOL Old Msg Class property                            *)
(*   hdr       the transport headers: a Header or NoHeader                 *)
(*   wks       the headers say Wks-Phase: confirm                          *)
(*   hasBody   whether there is a body property, body: its lines           *)
(*   atts      the attachments, each                                       *)
(*               [type, name, tag, method, cid, hidden, data]              *)
(*             type: GpgOL Attach Type, tag: the MIME tag                  *)
(***************************************************************************)
EXTENDS MimeReader, FiniteSetsExt

Att(type, name, tag, data) ==
  [type |-> type, name |-> name, tag |-> tag, method |-> "value", cid |-> "",
   hidden |-> FALSE, data |-> data]

Encrypted == <<"application", "pgp-encrypted">>
Octets    == <<"application", "octet-stream">>
Signed    == <<"multipart", "signed">>
Pkcs7     == <<"application", "pkcs7-mime">>
PgpSig    == "application/pgp-signature"
CmsSig    == "application/pkcs7-signature"
-----------------------------------------------------------------------------
(* What the message says about itself.                                     *)

\* Content-Type of the message: main = "wks" for a confirmation mail
NoType == [main |-> "", sub |-> "", proto |-> "", smt |-> ""]
TypeIn(h) == IF h.k # "hdr" THEN NoType
             ELSE [main |-> h.main, sub |-> h.sub, proto |-> h.proto, smt |-> h.smt]

\* The header block a stream of data begins with
HeaderIn(data) == IF data # <<>> /\ data[1].k = "hdr" THEN data[1] ELSE NoHeader
FirstAttachData(m) == IF m.atts = <<>> THEN <<>> ELSE m.atts[1].data

FirstAttachTag(m) ==
  IF m.atts = <<>> \/ m.atts[1].method # "value" THEN <<>> ELSE m.atts[1].tag

ContentTypeOf(m) ==
  LET ct    == TypeIn(IF m.hdr.k = "hdr" THEN m.hdr ELSE HeaderIn(FirstAttachData(m)))
      inner == TypeIn(HeaderIn(FirstAttachData(m)))
  IN IF m.wks THEN [NoType EXCEPT !.main = "wks"]
     ELSE IF ct.sub = "ms-tnef" /\ FirstAttachTag(m) = Signed /\ inner # NoType
     THEN inner ELSE ct

\* The first line of the body that is not empty decides
PgpLines(m) ==
  LET filled == Filled(m.body)
  IN IF ~m.hasBody \/ filled = <<>> THEN ""
     ELSE IF filled[1].p = <<"clear">> THEN "IPM.Note.GpgOL.ClearSigned"
     ELSE IF filled[1].p = <<"pgp">> THEN "IPM.Note.GpgOL.PGPMessage"
     ELSE ""

\* The object identifier in the only attachment, when it is a smime.p7m
CmsContent(m) ==
  IF /\ Len(m.atts) = 1 /\ m.atts[1].name = "smime.p7m" /\ m.atts[1].method = "value"
     /\ m.atts[1].data # <<>> /\ m.atts[1].data[1].k = "data"
  THEN CASE m.atts[1].data[1].p = <<"cipher">> -> "IPM.Note.GpgOL.OpaqueEncrypted"
         [] m.atts[1].data[1].p = <<"sig">>    -> "IPM.Note.GpgOL.OpaqueSigned"
         [] OTHER -> ""
  ELSE ""

FromFirstAttachment(m) ==
  CASE FirstAttachTag(m) = Encrypted -> "IPM.Note.GpgOL.MultipartEncrypted"
    [] FirstAttachTag(m) = <<"application", "pgp-signature">> -> "IPM.Note.GpgOL.MultipartSigned"
    [] OTHER -> ""

OrElse(a, b) == IF a # "" THEN a ELSE b
-----------------------------------------------------------------------------
(* The class GpgOL wants for a message of each class of Outlook; "": none. *)

MaybeInline == { <<"", "">>, <<"text", "plain">>, <<"text", "html">>, <<"multipart", "mixed">>,
                 <<"multipart", "alternative">>, <<"multipart", "related">> }

ClassOfNote(m) ==
  LET ct == ContentTypeOf(m)
      mt == <<ct.main, ct.sub>>
  IN CASE ct.main = "wks" -> "IPM.Note.GpgOL.WKSConfirmation"
       [] ct.main # "" /\ ct.proto # "" ->
            IF ct.proto = "application/pgp-encrypted" /\ ct.main = "multipart"
               /\ ct.sub \in {"encrypted", "mixed"}
            THEN "IPM.Note.GpgOL.MultipartEncrypted"
            ELSE IF mt = Signed /\ ct.proto = PgpSig
            THEN "IPM.Note.GpgOL.MultipartSigned" ELSE ""
       [] ct.sub = "ms-tnef" -> OrElse(PgpLines(m), FromFirstAttachment(m))
       [] mt \in MaybeInline /\ ~(ct.main # "" /\ ct.proto # "") ->
            OrElse(PgpLines(m),
                   IF ~m.hasBody /\ ct.sub = "mixed" THEN FromFirstAttachment(m) ELSE "")
       [] OTHER -> ""

ByCmsType(ct) ==
  IF <<ct.main, ct.sub>> # Pkcs7 THEN ""
  ELSE CASE ct.smt = "signed-data"    -> "IPM.Note.GpgOL.OpaqueSigned"
         [] ct.smt = "enveloped-data" -> "IPM.Note.GpgOL.OpaqueEncrypted"
         [] OTHER -> ""

ClassOfSmime(m, smime) ==
  LET ct == ContentTypeOf(m)
      mt == <<ct.main, ct.sub>>
      found == CASE ct = NoType -> CmsContent(m)
                 [] mt = Signed /\ ct.proto = PgpSig -> "IPM.Note.GpgOL.MultipartSigned"
                 [] ct # NoType /\ smime /\ ct.smt # "" -> ByCmsType(ct)
                 [] smime /\ mt = Signed /\ ct.proto = CmsSig -> "IPM.Note.GpgOL.SM.MultipartSigned"
                 [] smime /\ ct # NoType /\ ct.smt = "" -> CmsContent(m)
                 [] OTHER -> ""
  IN OrElse(found, IF smime THEN "IPM.Note.GpgOL.OpaqueEncrypted" ELSE "")

ClassOfSmimeSigned(m) ==
  LET ct == ContentTypeOf(m)
  IN CASE <<ct.main, ct.sub>> = Signed /\ ct.proto = PgpSig -> "IPM.Note.GpgOL.MultipartSigned"
       [] ct.main = "wks" -> "IPM.Note.GpgOL.WKSConfirmation"
       [] OTHER -> ""

\* Messages of CryptoEx: enc for its class of encrypted ones
ClassOfCex(m, enc) ==
  LET ct == ContentTypeOf(m)
      signed == IF <<ct.main, ct.sub>> # Signed THEN ""
                ELSE CASE ct.proto = CmsSig -> "IPM.Note.GpgOL.SM.MultipartSigned"
                       [] ct.proto = PgpSig -> "IPM.Note.GpgOL.MultipartSigned"
                       [] OTHER -> ""
      inline == IF <<ct.main, ct.sub>> \in { <<"text", "plain">>, <<"multipart", "mixed">>,
                                             <<"multipart", "alternative">> }
                THEN PgpLines(m) ELSE ""
      found == IF ct # NoType
               THEN OrElse(ByCmsType(ct), OrElse(signed, OrElse(inline, CmsContent(m))))
               ELSE OrElse(IF enc THEN CmsContent(m)
                           ELSE IF FirstAttachTag(m) = Signed
                           THEN "IPM.Note.GpgOL.MultipartSigned" ELSE "", PgpLines(m))
  IN OrElse(found, "IPM.Note.GpgOL.OpaqueEncrypted")

GpgOLClasses == [ c \in {"IPM.Note.GpgOL.MultipartSigned", "IPM.Note.GpgOL.SM.MultipartSigned",
                         "IPM.Note.GpgOL.MultipartEncrypted", "IPM.Note.GpgOL.OpaqueSigned",
                         "IPM.Note.GpgOL.OpaqueEncrypted", "IPM.Note.GpgOL.ClearSigned",
                         "IPM.Note.GpgOL.PGPMessage", "IPM.Note.GpgOL.WKSConfirmation",
                         "IPM.Note.GpgOL"} |->
  CASE c \in {"IPM.Note.GpgOL.MultipartSigned", "IPM.Note.GpgOL.SM.MultipartSigned"} -> "multipart_signed"
    [] c = "IPM.Note.GpgOL.MultipartEncrypted" -> "multipart_encrypted"
    [] c = "IPM.Note.GpgOL.OpaqueSigned"       -> "opaque_signed"
    [] c = "IPM.Note.GpgOL.OpaqueEncrypted"    -> "opaque_encrypted"
    [] c = "IPM.Note.GpgOL.ClearSigned"        -> "clear_signed"
    [] c = "IPM.Note.GpgOL.PGPMessage"         -> "pgp_message"
    [] c = "IPM.Note.GpgOL.WKSConfirmation"    -> "wks"
    [] OTHER -> "gpgol" ]

SmimeClasses == {"IPM.Note.SMIME", "IPM.Note.SMIME.MultipartSigned"}

StringToType(s) == CASE s \in DOMAIN GpgOLClasses -> GpgOLClasses[s]
                     [] s \in SmimeClasses -> "smime"
                     [] OTHER -> "unknown"

\* The override counts more than the class of the message
ClassSeen(m) == IF m.override # "" THEN m.override ELSE m.cls
MessageType(m) == StringToType(ClassSeen(m))

\* sync: a GpgOL class that is only in the override goes into the message
NewClass(m, smime, sync) ==
  LET s == ClassSeen(m)
  IN CASE s = "IPM.Note" -> ClassOfNote(m)
       [] smime /\ s \in {"IPM.Note.SMIME", "IPM.Note.GpgOL"} -> ClassOfSmime(m, smime)
       [] smime /\ s = "IPM.Note.SMIME.MultipartSigned" ->
            IF ClassOfSmimeSigned(m) = "IPM.Note.GpgOL.WKSConfirmation"
            THEN "IPM.Note.GpgOL.WKSConfirmation" ELSE "IPM.Note.GpgOL.SM.MultipartSigned"
       [] ~smime /\ s = "IPM.Note.SMIME.MultipartSigned" -> ClassOfSmimeSigned(m)
       [] sync /\ m.override # "" /\ s \in DOMAIN GpgOLClasses /\ s # "IPM.Note.GpgOL" ->
            IF m.cls = s THEN "" ELSE s
       [] smime /\ s \in {"IPM.Note.Secure.CexSig", "IPM.Note.Secure.CexEnc"} ->
            ClassOfCex(m, s = "IPM.Note.Secure.CexEnc")
       [] OTHER -> ""

\* mapi_change_message_class: the class it had is remembered once
ChangeClass(m, smime, sync) ==
  LET new == NewClass(m, smime, sync)
  IN IF new = "" THEN [msg |-> m, type |-> MessageType(m)]
     ELSE [msg  |-> [m EXCEPT !.cls = new, !.old = IF @ = "" THEN ClassSeen(m) ELSE @],
           type |-> StringToType(new)]
-----------------------------------------------------------------------------
(* The attachment that holds the protected data.                           *)

MossTypes == {"moss", "mosstempl", "pgpbody"}

Hide(atts, i)     == [atts EXCEPT ![i].hidden = TRUE]
HideAll(atts)     == [i \in DOMAIN atts |-> [atts[i] EXCEPT !.hidden = TRUE]]
MarkMoss(atts, i) == [atts EXCEPT ![i].hidden = TRUE, ![i].type = "moss"]

Marked(atts)    == { i \in DOMAIN atts : atts[i].type \in MossTypes }
FirstMark(atts) == Min(Marked(atts))
OtherMark(atts) == LET others == Marked(atts) \ {FirstMark(atts)}
                   IN IF others = {} \/ atts[FirstMark(atts)].type = "mosstempl" THEN 0
                      ELSE Min(others)

\* Of two marked ones the second, unless the first has the ciphertext
MarkedPosition(atts) ==
  IF Marked(atts) = {} THEN 0
  ELSE IF OtherMark(atts) = 0 \/ atts[FirstMark(atts)].tag = Octets THEN FirstMark(atts)
  ELSE OtherMark(atts)

HasTemplate(atts) ==
  /\ Marked(atts) # {}
  /\ \/ atts[FirstMark(atts)].type = "mosstempl"
     \/ OtherMark(atts) # 0 /\ atts[OtherMark(atts)].type = "mosstempl"

\* mapi_body_to_attachment: a blank line stands for the headers
BodyAttachment(m) == [Att("pgpbody", "GpgOL_original_OpenPGP_message.txt", <<>>, <<Blank>> \o m.body)
                        EXCEPT !.hidden = TRUE]

SmimePart(atts) == { i \in DOMAIN atts : atts[i].tag = Pkcs7 /\ atts[i].name = "smime.p7m" }

\* Attachments that are not marked yet
MarkByKind(atts) ==
  CASE SmimePart(atts) # {} -> [atts |-> MarkMoss(atts, Min(SmimePart(atts))),
                                pos  |-> Min(SmimePart(atts))]
    [] /\ SmimePart(atts) = {} /\ Len(atts) >= 2
       /\ atts[1].tag = Encrypted /\ atts[2].tag = Octets ->
         [atts |-> MarkMoss(MarkMoss(atts, 1), 2), pos |-> 2]
    [] SmimePart(atts) = {} /\ Len(atts) = 1 -> [atts |-> MarkMoss(atts, 1), pos |-> 1]
    [] OTHER -> [atts |-> atts, pos |-> 0]

MarkOne(m, type) ==
  CASE type \in {"unknown", "gpgol"} -> [atts |-> m.atts, pos |-> 0]
    [] type \notin {"unknown", "gpgol"} /\ Marked(m.atts) # {} ->
         [atts |-> Hide(m.atts, MarkedPosition(m.atts)), pos |-> MarkedPosition(m.atts)]
    [] type \in {"clear_signed", "pgp_message"} /\ Marked(m.atts) = {} ->
         IF m.hasBody THEN [atts |-> Append(m.atts, BodyAttachment(m)), pos |-> Len(m.atts) + 1]
         ELSE [atts |-> m.atts, pos |-> 0]
    [] OTHER -> MarkByKind(m.atts)

\* base: the message in the store, parsed: what Outlook made of it.
\* A message we wrote is read from our own attachment, the rest is hidden
MarkOrCreate(base, parsed, type) ==
  LET hidden == [parsed EXCEPT !.atts = HideAll(@)]
      inner  == MarkOne(hidden, type)
      outer  == MarkOne(base, type)
  IN IF type \notin {"unknown", "gpgol"} /\ HasTemplate(base.atts) /\ parsed.atts # <<>>
     THEN IF inner.pos # 0
          THEN [base |-> base.atts, parsed |-> inner.atts, pos |-> inner.pos]
          ELSE [base |-> outer.atts, parsed |-> hidden.atts, pos |-> outer.pos]
     ELSE [base |-> outer.atts, parsed |-> parsed.atts, pos |-> outer.pos]
-----------------------------------------------------------------------------
(* The last step of sending: the message is replaced by what was made.     *)

SendClass(proto, encrypt, ex15) ==
  CASE proto = "cms" -> IF encrypt /\ ex15 THEN "IPM.Note.SMIME"
                                           ELSE "IPM.Note.SMIME.MultipartSigned"
    [] encrypt /\ proto # "cms" -> "IPM.Note.InfoPathForm.GpgOL.SMIME.MultipartSigned"
    [] OTHER   -> "IPM.Note.InfoPathForm.GpgOLS.SMIME.MultipartSigned"

OverrideClass(proto, encrypt) ==
  CASE ~encrypt                  -> "IPM.Note.GpgOL.MultipartSigned"
    [] encrypt /\ proto = "cms"  -> "IPM.Note.GpgOL.OpaqueEncrypted"
    [] OTHER                     -> "IPM.Note.GpgOL.MultipartEncrypted"

IsOurTemplate(a) == a.type = "mosstempl" /\ a.name = "GpgOL_MIME_structure.txt"

\* Mutant: an attachment that cannot be deleted is skipped
DeleteSomeAttachments(table, deletable) ==
  [ok |-> TRUE, left |-> SubSeq(table, deletable + 1, Len(table))]

\* table lists what was there before our attachment was made; only the first
\* `deletable` can be deleted. update_mail_mapi deletes old templates and only
\* logs when it cannot, delete_all_attachments the rest, and gives up
DeleteAllAttachments(table, deletable) ==
  [ok |-> \A i \in DOMAIN table : ~IsOurTemplate(table[i]) => i <= deletable,
   left |-> SubSeq(table, deletable + 1, Len(table))]

\* update_mail_mapi: lines is what create_sign_attach or create_encrypt_attach wrote
UpdateMailMapi(m, lines, proto, encrypt, ex15, deletable) ==
  LET tag   == IF proto = "cms" /\ encrypt /\ ex15 THEN Pkcs7 ELSE Signed
      ours  == Att("mosstempl", "GpgOL_MIME_structure.txt", tag, lines)
      done  == DeleteAllAttachments(m.atts, deletable)
  IN [ok  |-> done.ok,
      msg |-> [m EXCEPT !.cls = SendClass(proto, encrypt, ex15),
                        !.override = OverrideClass(proto, encrypt),
                        !.hasBody = FALSE, !.body = <<>>,
                        !.atts = Append(done.left, ours)]]
=============================================================================
