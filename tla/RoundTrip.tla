----------------------------- MODULE RoundTrip -----------------------------
(***************************************************************************)
(* A mail from the moment it is collected for GnuPG until it is shown to   *)
(* somebody who received it, or to its author in the folder of sent mails. *)
(* MimeMaker writes the structure, MessageClass recognises it in the store *)
(* of the reader, MimeReader takes it apart; this module is the code that  *)
(* calls them: CryptController, the part of Mail that prepares a message   *)
(* that is read, ParseController and the update of the mail.               *)
(*                                                                         *)
(* External: GnuPG (`output` is what it returned, `sealed` what it         *)
(* encrypted and `signedOver` what it signed), the transport and Outlook.  *)
(***************************************************************************)
EXTENDS MessageClass

CONSTANTS
  Mails,       \* the mails that are written
  Protections,     \* [sign, encrypt, proto, inline, ex15]: how they are protected
  Kinds,       \* the ways a message reaches the reader
  ReadSizes,   \* half lines a read of the ciphertext may return
  WriteSizes,  \* half lines GnuPG may return at a time
  MaxOpens     \* how often the message is opened

\* What people write: text and files, not what GnuPG makes of them
Composed == Pieces \ {"pgp", "clear", "cipher", "sig"}

\* A mail has a text, perhaps an HTML text as well, and files, Outlook items
\* and messages that its author attached
ASSUME MailsAssumption ==
  Mails \subseteq
    [body : Seq(Composed), html : Seq(Composed), alt : BOOLEAN,
     atts : Seq([type : {"unknown"}, method : {"value", "ole", "embedded"}, cid : STRING,
                 name : STRING, suffix : STRING, kind : {"file"}, data : Seq(Composed)])]

\* Mails that are neither signed nor encrypted do not get here; PGP/Inline is
\* for OpenPGP
ASSUME ProtectionsAssumption ==
  /\ Protections \subseteq [sign : BOOLEAN, encrypt : BOOLEAN, proto : {"pgp", "cms"},
                            inline : BOOLEAN, ex15 : BOOLEAN]
  /\ \A c \in Protections : (c.sign \/ c.encrypt) /\ (c.inline => c.proto = "pgp")

ASSUME KindsAssumption == Kinds \subseteq {"sent", "mime", "moved", "nobody", "tnef"}

\* A read of the ciphertext reaches the end of a line: a longer line is lost,
\* collect_data stops at a read that completes none
ASSUME SizesAssumption == ReadSizes \subseteq Nat \ {0, 1} /\ WriteSizes \subseteq Nat \ {0}

VARIABLES
  pc,          \* what happens next
  mail, choice, prefs,                \* prefs: [smime, html, online]
  output, sealed, signedOver,
  delivered, base, parsed, type, moss,
  stream, ended, got,                 \* what flows, and how much of it arrived
  inp, outp, decrypt, verify, errors, decrypted, verdict, second, blockHtml,
  shown, opens

written == <<mail, choice, prefs, output, sealed, signedOver>>
stored  == <<delivered, base, parsed, type, moss, opens>>
flow    == <<stream, ended, got>>
parser  == <<inp, outp, decrypt, verify, errors, decrypted, verdict, second, blockHtml>>
vars    == <<pc, written, stored, flow, parser, shown>>

NoMessage == [cls |-> "IPM.Note", override |-> "", old |-> "", hdr |-> NoHeader,
              wks |-> FALSE, hasBody |-> FALSE, body |-> <<>>, atts |-> <<>>]
NoMail    == [body |-> <<>>, html |-> <<>>, asHtml |-> FALSE, atts |-> <<>>]

\* PGP/Inline is given up when there are attachments
Inline == choice.inline /\ UsableAttachments(mail.atts) = <<>>

Init ==
  /\ pc = "collect"
  /\ mail \in Mails /\ choice \in Protections
  /\ prefs \in [smime : BOOLEAN, html : BOOLEAN, online : BOOLEAN]
  /\ choice.proto = "cms" => prefs.smime
  /\ output = <<>> /\ sealed = <<>> /\ signedOver = <<>>
  /\ delivered = NoMessage /\ base = NoMessage /\ parsed = NoMessage
  /\ type = "unknown" /\ moss = 0 /\ opens = 0
  /\ stream = <<>> /\ ended = TRUE /\ got = 0
  /\ inp = Provider(FALSE) /\ outp = Provider(FALSE)
  /\ decrypt = FALSE /\ verify = FALSE /\ errors = FALSE
  /\ decrypted = FALSE /\ verdict = "none" /\ second = FALSE /\ blockHtml = FALSE
  /\ shown = NoMail
-----------------------------------------------------------------------------
(* Sending.                                                                *)

\* What GnuPG makes of the data: armored for OpenPGP
Ciphertext == IF choice.proto = "pgp" THEN <<"pgp", "nl", "cipher", "nl">> ELSE <<"cipher">>
Signature  == IF choice.proto = "pgp" THEN <<"sig", "nl">> ELSE <<"sig">>
ClearSigned(c) == <<"clear", "nl">> \o c \o <<"nl", "sig", "nl">>

\* CryptController::collect_data; yes: the answer to the question about
\* Outlook items
CollectData(yes) ==
  /\ pc = "collect"
  /\ IF NothingToSend(mail) \/ RefusedOle(mail, yes) THEN pc' = "refused" ELSE pc' = "protect"
  /\ stream' = IF Inline THEN WritePlain(mail.body) ELSE AddBodyAndAttachments(mail)
  /\ UNCHANGED <<written, stored, ended, got, parser, shown>>

\* CryptController::do_crypto, once the keys are there
DoCrypto ==
  /\ pc = "protect"
  /\ pc' = "update"
  /\ signedOver' = IF choice.sign THEN stream ELSE <<>>
  /\ sealed' = CASE ~choice.encrypt -> <<>>
                 [] choice.encrypt /\ choice.sign /\ ~Inline ->
                      CreateSignAttach(choice.proto, Signature, stream)
                 [] OTHER -> stream
  /\ output' = CASE choice.encrypt -> Ciphertext
                 [] ~choice.encrypt /\ Inline -> ClearSigned(mail.body)
                 [] OTHER -> Signature
  /\ UNCHANGED <<mail, choice, prefs, stored, flow, parser, shown>>

Structure == IF choice.encrypt
             THEN CreateEncryptAttach(choice.proto, output, choice.ex15 /\ choice.proto = "cms")
             ELSE CreateSignAttach(choice.proto, output, signedOver)

\* The message Outlook holds while the mail is written
ComposedMessage ==
  [NoMessage EXCEPT !.hasBody = TRUE, !.body = WritePlain(mail.body),
     !.atts = [i \in DOMAIN mail.atts |->
                 [Att(mail.atts[i].type, mail.atts[i].name, Octets, WriteB64(mail.atts[i].data))
                    EXCEPT !.method = mail.atts[i].method]]]

\* update_mail_mapi; an inline mail gets the output as its body. deletable: how
\* many attachments Outlook lets us delete
Update(deletable) ==
  /\ pc = "update"
  /\ LET r == UpdateMailMapi(ComposedMessage, Structure, choice.proto, choice.encrypt,
                             choice.ex15, deletable)
     IN IF Inline
        THEN /\ pc' = "transport"
             /\ delivered' = [ComposedMessage EXCEPT !.body = WritePlain(output)]
        ELSE /\ pc' = IF r.ok THEN "transport" ELSE "failed"
             /\ delivered' = r.msg
  /\ base' = delivered' /\ parsed' = delivered'
  /\ UNCHANGED <<written, type, moss, opens, flow, parser, shown>>
-----------------------------------------------------------------------------
(* The transport, and what Outlook makes of the message at its end.        *)

EncryptedParts ==
  << Att("unknown", "ATT00001", Encrypted, <<Data(<<"text">>, "7bit", FALSE)>>),
     Att("unknown", "encfile", Octets, WritePlain(output)) >>

Received(cls, hdr, atts) == [NoMessage EXCEPT !.cls = cls, !.hdr = hdr, !.atts = atts]

IsPgpEncrypted == choice.encrypt /\ choice.proto = "pgp"

\* The message as its headers say
AsMime ==
  CASE Inline -> [delivered EXCEPT !.hdr = Header("text", "plain")]
    [] ~Inline /\ IsPgpEncrypted ->
         Received("IPM.Note", HeaderIn(Structure), EncryptedParts)
    [] ~Inline /\ choice.encrypt /\ choice.proto = "cms" ->
         Received("IPM.Note.SMIME",
                  [Header("application", "pkcs7-mime") EXCEPT !.smt = "enveloped-data"],
                  <<Att("unknown", "smime.p7m", Pkcs7, <<Data(<<"cipher">>, "7bit", FALSE)>>)>>)
    [] OTHER ->
         Received("IPM.Note.SMIME.MultipartSigned", HeaderIn(Structure),
                  <<Att("unknown", "smime.p7m", Signed, Structure)>>)

Arrives(kind) ==
  CASE kind = "sent" -> delivered
    [] kind = "mime" -> AsMime
    \* a filter rule of Outlook moved the mail
    [] kind = "moved" ->
         Received("IPM.Note", [Header("multipart", "mixed") EXCEPT
                                 !.proto = "application/pgp-encrypted"], EncryptedParts)
    [] kind = "nobody" -> Received("IPM.Note", Header("multipart", "mixed"), EncryptedParts)
    [] kind = "tnef" ->
         Received("IPM.Note", Header("application", "ms-tnef"),
                  IF choice.encrypt THEN EncryptedParts
                  ELSE <<Att("unknown", "smime.p7m", Signed, Structure)>>)

\* Sent mails may have been parsed by the server as well
Reparsed(m, kind, extra) ==
  IF kind = "sent" /\ extra THEN [m EXCEPT !.atts = EncryptedParts \o @] ELSE m

Possible(kind, extra) ==
  /\ kind \in {"moved", "nobody"} => IsPgpEncrypted /\ ~Inline
  /\ kind = "tnef" => choice.proto = "pgp" /\ ~Inline
  /\ extra => kind = "sent" /\ IsPgpEncrypted /\ ~Inline

Transport(kind, extra) ==
  /\ pc = "transport"
  /\ Possible(kind, extra)
  /\ delivered' = Arrives(kind)
  /\ base' = delivered'
  /\ parsed' = Reparsed(delivered', kind, extra)
  /\ pc' = "open"
  /\ UNCHANGED <<written, type, moss, opens, flow, parser, shown>>
-----------------------------------------------------------------------------
(* Opening: Mail::preProcessMessage_m in BeforeRead, then the stream of    *)
(* the attachment it found.                                                *)

Preprocess ==
  /\ pc = "open"
  /\ opens' = opens + 1
  /\ \E c \in {ChangeClass(base, prefs.smime, TRUE)} :
     \E p \in {[parsed EXCEPT !.cls = c.msg.cls, !.old = c.msg.old]} :
     \E r \in {MarkOrCreate(c.msg, p, c.type)} :
        /\ base' = [c.msg EXCEPT !.atts = r.base]
        \* Outlook reads the message into the model after the marks were made
        /\ parsed' = [p EXCEPT !.atts = IF HasTemplate(c.msg.atts) THEN r.parsed ELSE r.base]
        /\ moss' = r.pos
        /\ type' = IF c.type = "unknown" \/ r.pos = 0 THEN "unknown" ELSE c.type
  /\ pc' = IF type' \in {"unknown", "gpgol", "smime"} THEN "shown" ELSE "read"
  /\ shown' = [NoMail EXCEPT !.body = IF base.hasBody THEN <<"text">> ELSE <<>>]
  /\ inp' = Provider(type' # "multipart_signed")
  /\ outp' = Provider(type' \in {"pgp_message", "clear_signed"})
  /\ stream' = IF pc' = "read" THEN parsed'.atts[moss'].data ELSE <<>>
  /\ ended' = TRUE /\ got' = 0
  /\ decrypt' = FALSE /\ verify' = FALSE /\ errors' = FALSE
  /\ decrypted' = FALSE /\ verdict' = "none" /\ second' = FALSE /\ blockHtml' = FALSE
  /\ UNCHANGED <<written, delivered>>
-----------------------------------------------------------------------------
(* Data that flows in pieces.                                              *)

Total       == 2 * Len(stream) - (IF ended THEN 0 ELSE 1)
Arrived     == got = Total
Lines(from, to) == SubSeq(stream, (from \div 2) + 1, to \div 2)
Least(a, b) == IF a < b THEN a ELSE b
Rest        == IF ended \/ stream = <<>> THEN <<>> ELSE <<stream[Len(stream)]>>

\* MimeDataProvider::collect_data
ReadInput(n) ==
  /\ pc = "read" /\ ~Arrived
  /\ got' = Least(got + n, Total)
  /\ LET r == IF got = 0 THEN FirstRead(inp, stream[1]) ELSE inp
         lines == Lines(got, got')
     IN inp' = IF r.everything THEN CopyInput(r, r.data \o lines) ELSE Feed(r, lines)
  /\ UNCHANGED <<pc, written, stored, stream, ended, outp, decrypt, verify, errors, decrypted,
                 verdict, second, blockHtml, shown>>

\* Empty lines around an armored message are dropped
FixUp(r) == IF r.everything /\ \E i \in DOMAIN r.data : r.data[i].k = "data" /\ r.data[i].p = <<"pgp">>
            THEN [r EXCEPT !.data = Filled(@)] ELSE r

InputRead ==
  /\ pc = "read" /\ Arrived
  /\ inp' = FixUp(inp)
  /\ pc' = "parse"
  /\ UNCHANGED <<written, stored, flow, outp, decrypt, verify, errors, decrypted, verdict,
                 second, blockHtml, shown>>
-----------------------------------------------------------------------------
(* ParseController::parse.                                                 *)

AllPieces(lines) == FlattenSeq([i \in DOMAIN lines |-> PiecesOf(lines[i])])
InputPieces    == AllPieces(Filled(DataLines(inp)))

\* What GpgME takes the data for
InputType ==
  CASE InputPieces = <<"pgp", "cipher">> -> "pgp_encrypted"
    [] InputPieces = <<"cipher">> -> "cms_encrypted"
    [] InputPieces # <<>> /\ InputPieces[1] = "clear" -> "pgp_signed"
    [] OTHER -> "other"

IsCms == choice.proto = "cms" /\ (inp.sig # <<>> \/ InputType = "cms_encrypted")

OperationForType(t) == IF t \in {"multipart_encrypted", "pgp_message", "opaque_encrypted"}
                       THEN "decrypt" ELSE "verify"

Operation ==
  IF InputType = "pgp_signed" THEN "verify"
  ELSE IF second /\ InputType \notin {"pgp_encrypted", "cms_encrypted"} THEN "verify"
  ELSE IF second /\ IsCms THEN "verify"
  ELSE OperationForType(type)

\* GnuPG decrypts. A combined message has the signature inside
StartParse ==
  /\ pc = "parse"
  /\ decrypt' = (Operation = "decrypt") /\ verify' = (Operation = "verify")
  /\ outp' = IF second THEN Provider(type \in {"pgp_message", "clear_signed"}) ELSE outp
  /\ IF decrypt'
     THEN /\ decrypted' = (InputType \in {"pgp_encrypted", "cms_encrypted"})
          /\ errors' = ~decrypted'
          /\ verdict' = IF decrypted' /\ Inline /\ choice.sign THEN "good" ELSE verdict
          /\ stream' = IF decrypted' THEN sealed ELSE <<>>
          /\ ended' = TRUE /\ got' = 0
          /\ pc' = "write"
     ELSE /\ pc' = "verify"
          /\ UNCHANGED <<flow, decrypted, errors, verdict>>
  /\ UNCHANGED <<written, stored, inp, second, blockHtml, shown>>

\* MimeDataProvider::write
WriteOutput(n) ==
  /\ pc \in {"write", "copy"} /\ ~Arrived
  /\ got' = Least(got + n, Total)
  /\ outp' = IF outp.everything
             THEN CopyOutput(outp, SubSeq(stream, 1, got' \div 2))
             ELSE Feed(outp, Lines(got, got'))
  /\ UNCHANGED <<pc, written, stored, stream, ended, inp, decrypt, verify, errors, decrypted,
                 verdict, second, blockHtml, shown>>

\* A signature in the plaintext is verified as an extra step
Decrypted ==
  /\ pc = "write" /\ Arrived
  /\ verify' = (~errors /\ verdict = "none" /\ outp.sig # <<>>)
  /\ IF verify' THEN inp' = outp /\ outp' = Provider(FALSE) /\ pc' = "verify"
                ELSE pc' = "finish" /\ UNCHANGED <<inp, outp>>
  /\ UNCHANGED <<written, stored, flow, decrypt, errors, decrypted, verdict, second, blockHtml,
                 shown>>

\* The bytes that are verified are the bytes that were signed
SignatureHolds == /\ Only(inp.sig, { i \in DOMAIN inp.sig : inp.sig[i] # "nl" }) = <<"sig">>
                  /\ DataLines(inp) = signedOver /\ DataEnded(inp)

\* The text between the armor lines
LineAt(lines, piece) == Min({ i \in DOMAIN lines : PiecesOf(lines[i]) = <<piece>> })
ClearText(lines) == SubSeq(lines, LineAt(lines, "clear") + 1, LineAt(lines, "sig") - 1)

Verify ==
  /\ pc = "verify"
  /\ IF inp.sig # <<>>
     THEN /\ verdict' = IF SignatureHolds THEN "good" ELSE "bad"
          /\ stream' = DataLines(inp) /\ ended' = DataEnded(inp)
          /\ outp' = Provider(FALSE)
     ELSE /\ verdict' = IF InputType = "pgp_signed" THEN "good" ELSE verdict
          /\ stream' = IF InputType = "pgp_signed" THEN ClearText(DataLines(inp)) ELSE <<>>
          /\ ended' = TRUE
          /\ UNCHANGED outp
  /\ got' = 0
  /\ pc' = "copy"
  /\ UNCHANGED <<written, stored, inp, decrypt, verify, errors, decrypted, second, blockHtml,
                 shown>>

Copied ==
  /\ pc = "copy" /\ Arrived
  /\ pc' = "finish"
  /\ UNCHANGED <<written, stored, flow, parser, shown>>

\* Mutant: only a bad signature blocks the HTML
BlockedWhenBad(green) ==
  blockHtml \/ (IsCms /\ decrypt /\ ~errors /\ verdict = "bad")

\* green: the signature counts as a checksum of the ciphertext. HTML of
\* encrypted S/MIME that has none is blocked, for good
HtmlBlocked(green) ==
  blockHtml \/ (IsCms /\ decrypt /\ ~errors /\ ~(verdict = "good" /\ green))

Finish(green) ==
  /\ pc = "finish"
  /\ second' = TRUE
  /\ blockHtml' = HtmlBlocked(green)
  /\ outp' = Finalize(outp, Rest)
  \* do_parsing: a second pass when something signed might need the net
  /\ pc' = IF prefs.online /\ ~second /\ verdict # "none" THEN "parse" ELSE "update_mail"
  /\ UNCHANGED <<written, stored, flow, inp, decrypt, verify, errors, decrypted, verdict, shown>>
-----------------------------------------------------------------------------
(* Mail::updateBody_o and Mail::add_attachments_o.                         *)

\* add_attachments_o: those without a name are left out. That Outlook refuses
\* one is not modelled: the user is told
AddAttachments(atts) == Only(atts, { i \in DOMAIN atts : atts[i].name # "" })

UpdateMail ==
  /\ pc = "update_mail"
  /\ LET asHtml == prefs.html /\ outp.html # <<>> /\ ~blockHtml
         text   == IF outp.body = <<>> /\ blockHtml THEN outp.html ELSE outp.body
     IN shown' = [asHtml |-> asHtml, html |-> IF asHtml THEN outp.html ELSE <<>>,
                  body |-> IF asHtml THEN <<>> ELSE text,
                  atts |-> AddAttachments(outp.atts)]
  /\ pc' = "shown"
  /\ UNCHANGED <<written, stored, flow, parser>>

\* The message is closed; Outlook may have stored what we changed in it
Reopen(saved) ==
  /\ pc = "shown" /\ opens < MaxOpens
  /\ IF saved THEN UNCHANGED <<base, parsed>>
     ELSE /\ base' = delivered
          /\ parsed' = IF Len(parsed.atts) > Len(base.atts) THEN Reparsed(delivered, "sent", TRUE)
                       ELSE delivered
  /\ pc' = "open"
  /\ shown' = NoMail
  /\ UNCHANGED <<written, delivered, type, moss, opens, flow, parser>>
-----------------------------------------------------------------------------
Next ==
  \/ \E yes \in BOOLEAN : CollectData(yes)
  \/ DoCrypto
  \/ \E n \in {0, Len(mail.atts)} : Update(n)
  \/ \E kind \in Kinds, extra \in BOOLEAN : Transport(kind, extra)
  \/ Preprocess
  \/ \E n \in ReadSizes : ReadInput(n)
  \/ InputRead
  \/ StartParse
  \/ \E n \in WriteSizes : WriteOutput(n)
  \/ Decrypted
  \/ Verify
  \/ Copied
  \/ \E green \in BOOLEAN : Finish(green)
  \/ UpdateMail
  \/ \E saved \in BOOLEAN : Reopen(saved)

Spec == Init /\ [][Next]_vars
-----------------------------------------------------------------------------
(* Properties.                                                             *)

Shown == pc = "shown"

\* A text without the line ends at its end
Trim(c) == LET filled == { i \in DOMAIN c : c[i] # "nl" }
           IN IF filled = {} THEN <<>> ELSE SubSeq(c, 1, Max(filled))

ShownBody ==
  LET asHtml == prefs.html /\ mail.alt /\ ~Inline /\ ~blockHtml
  IN /\ shown.asHtml = asHtml
     /\ Trim(shown.html) = IF asHtml THEN Trim(mail.html) ELSE <<>>
     /\ Trim(shown.body) = IF asHtml THEN <<>> ELSE Trim(mail.body)

\* Outlook items are left out when the user agrees
Files == LET usable == UsableAttachments(mail.atts)
         IN Only(usable, { i \in DOMAIN usable : usable[i].method = "value" })
ShownFiles ==
  /\ Len(shown.atts) = Len(Files)
  /\ \A f \in ToSet(Files) : \E a \in ToSet(shown.atts) :
       a.name = f.name /\ Trim(a.data) = Trim(f.data)

\* What was written is what is read: the text, the HTML and every file, with
\* their names, however the mail was protected, travelled and was cut.
ReadBack == Shown => ShownBody /\ ShownFiles

\* The reader is told what was done to the mail: it was decrypted exactly if
\* it was encrypted, and its signature is found and holds exactly if it was
\* signed (message class, operation, second pass, bytes that were hashed).
SameProtection ==
  Shown => /\ decrypted = choice.encrypt
           /\ verdict = IF choice.sign THEN "good" ELSE "none"

\* The parts that carry the ciphertext or the signed structure are never seen
\* as attachments of an open mail, and in a mail that is sent there is nothing else.
OnlyOriginalsVisible ==
  /\ Shown => \A i \in DOMAIN parsed.atts : parsed.atts[i].hidden
  /\ pc = "transport" /\ ~Inline => Len(base.atts) = 1 /\ ~base.hasBody

\* HTML of a mail that was only encrypted with S/MIME is never shown: anybody
\* could have changed the ciphertext.
HtmlNeedsSignature ==
  Shown /\ shown.asHtml /\ choice.proto = "cms" /\ choice.encrypt => choice.sign

\* A mail without a text and with one file: the file arrives
LoneFileArrives == Shown => ShownFiles
=============================================================================
