-------------------------- MODULE RoundTrip_proofs --------------------------
(***************************************************************************)
(* Theorems about RoundTrip: every mail that is opened is recognised as    *)
(* what it is, and gets through the parser as its author protected it.     *)
(***************************************************************************)
EXTENDS Mime_proofs

-----------------------------------------------------------------------------
(* Messages and attachments.                                               *)

IsMessage(m) == DOMAIN m = { "cls", "override", "old", "hdr", "wks", "hasBody", "body", "atts" }

\* Attachments with data that are in D
Attachments(D) ==
  [ type : {"unknown", "mosstempl", "moss", "pgpbody"},
    name : {"GpgOL_MIME_structure.txt", "GpgOL_original_OpenPGP_message.txt", "ATT00001",
            "encfile", "smime.p7m"},
    tag : {<<>>, Signed, Pkcs7, Encrypted, Octets}, method : {"value"}, cid : {""},
    hidden : BOOLEAN, data : D ]

AllHidden(p) == \A i \in DOMAIN p : p[i].hidden

\* What hiding and marking leaves as it is
LEMMA Hidden ==
  ASSUME NEW D, NEW p \in Seq(Attachments(D))
  PROVE  /\ HideAll(p) \in Seq(Attachments(D)) /\ Len(HideAll(p)) = Len(p)
         /\ AllHidden(HideAll(p))
         /\ \A i \in 1..Len(p) : /\ HideAll(p)[i].type = p[i].type
                                 /\ HideAll(p)[i].data = p[i].data
                                 /\ HideAll(p)[i].tag = p[i].tag
<1> DEFINE A == Attachments(D)
           e(i) == [p[i] EXCEPT !.hidden = TRUE]
<1>1. \A i \in 1..Len(p) : /\ e(i) \in A /\ e(i).hidden = TRUE /\ e(i).type = p[i].type
                           /\ e(i).data = p[i].data /\ e(i).tag = p[i].tag
  <2> SUFFICES ASSUME NEW i \in 1..Len(p)
               PROVE  /\ e(i) \in A /\ e(i).hidden = TRUE /\ e(i).type = p[i].type
                      /\ e(i).data = p[i].data /\ e(i).tag = p[i].tag
    OBVIOUS
  <2>1. p[i] \in A
    OBVIOUS
  <2> QED
    BY <2>1 DEF Attachments
<1>2. HideAll(p) = [i \in 1..Len(p) |-> e(i)]
  BY DEF HideAll
<1> HIDE DEF e, A
<1>3. HideAll(p) \in Seq(A) /\ Len(HideAll(p)) = Len(p) /\ DOMAIN HideAll(p) = 1..Len(p)
  BY <1>1, <1>2
<1> QED
  BY <1>1, <1>2, <1>3 DEF AllHidden, A

LEMMA HiddenOne ==
  ASSUME NEW D, NEW p \in Seq(Attachments(D)), NEW i \in 1..Len(p)
  PROVE  LET q == Hide(p, i)
         IN /\ q \in Seq(Attachments(D)) /\ Len(q) = Len(p) /\ q[i].hidden
            /\ AllHidden(p) => AllHidden(q)
            /\ \A j \in 1..Len(p) : q[j].type = p[j].type /\ q[j].data = p[j].data
                                    /\ q[j].tag = p[j].tag
<1> DEFINE A == Attachments(D)
           e == [p[i] EXCEPT !.hidden = TRUE]
           q == [p EXCEPT ![i] = e]
<1>1. /\ e \in A /\ e.hidden = TRUE /\ e.type = p[i].type /\ e.data = p[i].data
      /\ e.tag = p[i].tag
  <2>1. p[i] \in A
    OBVIOUS
  <2> QED
    BY <2>1 DEF Attachments
<1>2. Hide(p, i) = q
  BY DEF Hide
<1> HIDE DEF e, A
<1>3. /\ q \in Seq(A) /\ Len(q) = Len(p) /\ DOMAIN q = 1..Len(p) /\ q[i] = e
      /\ \A j \in 1..Len(p) : j # i => q[j] = p[j]
  BY <1>1 DEF A
<1> HIDE DEF q
<1>4. AllHidden(p) => AllHidden(q)
  <2> SUFFICES ASSUME AllHidden(p), NEW j \in 1..Len(p) PROVE q[j].hidden
    BY <1>3 DEF AllHidden
  <2>1. CASE j = i
    BY <1>1, <1>3, <2>1
  <2>2. CASE j # i
    BY <1>3, <2>2 DEF AllHidden
  <2> QED
    BY <2>1, <2>2
<1>5. \A j \in 1..Len(p) : q[j].type = p[j].type /\ q[j].data = p[j].data /\ q[j].tag = p[j].tag
  BY <1>1, <1>3
<1> QED
  BY <1>1, <1>2, <1>3, <1>4, <1>5 DEF A
-----------------------------------------------------------------------------
(* The attachment with the data: marks.                                    *)

\* Our attachment is the last one, the others are not marked
Copy(p, D, d) ==
  /\ p \in Seq(Attachments(D)) /\ Len(p) > 0
  /\ p[Len(p)].type = "mosstempl" /\ p[Len(p)].data = d
  /\ \A i \in 1..(Len(p) - 1) : p[i].type = "unknown"

\* What a message of somebody else holds after it was opened
Kept(p, D, d) ==
  /\ p \in Seq(Attachments(D)) /\ AllHidden(p)
  /\ \/ Len(p) = 1 /\ p[1].type \in {"moss", "pgpbody"} /\ p[1].data = d
     \/ Len(p) = 2 /\ p[1].type = "moss" /\ p[2].type = "moss" /\ p[1].tag # Octets
        /\ p[2].data = d

LEMMA MinOne == ASSUME NEW x \in Nat PROVE Min({x}) = x
BY DEF Min

LEMMA MinTwo == Min({1, 2}) = 1
BY DEF Min

LEMMA CopyMarks ==
  ASSUME NEW D, NEW d, NEW p, Copy(p, D, d)
  PROVE  /\ Marked(p) = {Len(p)} /\ MarkedPosition(p) = Len(p) /\ HasTemplate(p)
         /\ Len(p) \in Nat \ {0}
<1>1. Len(p) \in Nat \ {0} /\ DOMAIN p = 1..Len(p)
  BY DEF Copy
<1>2. ASSUME NEW i \in 1..Len(p), i # Len(p) PROVE i \notin Marked(p)
  <2>1. i \in 1..(Len(p) - 1)
    BY <1>1, <1>2, NotLast
  <2>2. p[i].type = "unknown"
    BY <2>1 DEF Copy
  <2> QED
    BY <2>2 DEF Marked, MossTypes
<1>3. Len(p) \in Marked(p)
  BY <1>1 DEF Copy, Marked, MossTypes
<1>4. Marked(p) = {Len(p)}
  BY <1>1, <1>2, <1>3 DEF Marked
<1>5. FirstMark(p) = Len(p)
  BY <1>1, <1>4, MinOne DEF FirstMark
<1>6. OtherMark(p) = 0
  BY <1>4, <1>5 DEF OtherMark
<1> QED
  BY <1>1, <1>4, <1>5, <1>6 DEF MarkedPosition, HasTemplate, Copy

\* The mark of a kept message is found again
LEMMA KeptMarks ==
  ASSUME NEW D, NEW d, NEW p, Kept(p, D, d)
  PROVE  /\ Marked(p) # {} /\ ~HasTemplate(p)
         /\ MarkedPosition(p) \in 1..Len(p) /\ p[MarkedPosition(p)].data = d
<1>0. DOMAIN p = 1..Len(p)
  BY DEF Kept
<1>1. CASE Len(p) = 1 /\ p[1].type \in {"moss", "pgpbody"} /\ p[1].data = d
  <2>1. Marked(p) = {1}
    BY <1>0, <1>1 DEF Marked, MossTypes
  <2>2. FirstMark(p) = 1
    BY <2>1, MinOne DEF FirstMark
  <2>3. OtherMark(p) = 0
    BY <2>1, <2>2 DEF OtherMark
  <2> QED
    BY <1>1, <2>1, <2>2, <2>3 DEF MarkedPosition, HasTemplate
<1>2. CASE Len(p) = 2 /\ p[1].type = "moss" /\ p[2].type = "moss" /\ p[1].tag # Octets
           /\ p[2].data = d
  <2>1. Marked(p) = {1, 2}
    BY <1>0, <1>2 DEF Marked, MossTypes
  <2>2. FirstMark(p) = 1
    BY <2>1, MinTwo DEF FirstMark
  <2>3. OtherMark(p) = 2
    <3>1. Marked(p) \ {FirstMark(p)} = {2}
      BY <2>1, <2>2
    <3> QED
      BY <1>2, <2>2, <3>1, MinOne DEF OtherMark
  <2> QED
    BY <1>2, <2>1, <2>2, <2>3 DEF MarkedPosition, HasTemplate
<1> QED
  BY <1>1, <1>2 DEF Kept

FoundOurs(r, b, p, D, d) ==
  /\ r.base = b.atts
  /\ Copy(r.parsed, D, d) /\ AllHidden(r.parsed) /\ Len(r.parsed) = Len(p.atts)
  /\ r.pos \in 1..Len(r.parsed) /\ r.parsed[r.pos].data = d

\* A message we wrote is read from our attachment, and nothing else is seen
LEMMA TemplateFound ==
  ASSUME NEW D, NEW d, NEW b, NEW p, NEW ty, ty \notin {"unknown", "gpgol"},
         Copy(b.atts, D, d), IsMessage(p), Copy(p.atts, D, d)
  PROVE  FoundOurs(MarkOrCreate(b, p, ty), b, p, D, d)
<1> DEFINE a == p.atts
           h == [p EXCEPT !.atts = HideAll(@)]
           n == Len(a)
           q == Hide(h.atts, n)
<1>1. h.atts = HideAll(a)
  BY DEF IsMessage
<1>2. a \in Seq(Attachments(D)) /\ n \in Nat \ {0}
  BY DEF Copy
<1> HIDE DEF a, h
<1>3. /\ h.atts \in Seq(Attachments(D)) /\ Len(h.atts) = n /\ AllHidden(h.atts)
      /\ \A i \in 1..n : h.atts[i].type = a[i].type /\ h.atts[i].data = a[i].data
  BY <1>1, <1>2, Hidden
<1>4. Copy(h.atts, D, d)
  BY <1>2, <1>3 DEF Copy, a
<1>5. MarkOne(h, ty) = [atts |-> q, pos |-> n]
  BY <1>3, <1>4, CopyMarks DEF MarkOne
<1>6. /\ q \in Seq(Attachments(D)) /\ Len(q) = n /\ AllHidden(q)
      /\ \A i \in 1..n : q[i].type = h.atts[i].type /\ q[i].data = h.atts[i].data
  <2>1. n \in 1..Len(h.atts)
    BY <1>2, <1>3
  <2> QED
    BY <1>3, <2>1, HiddenOne
<1> HIDE DEF q
<1>7. Copy(q, D, d)
  <2>1. n \in 1..n /\ 1..(n - 1) \subseteq 1..n
    BY <1>2
  <2>2. h.atts[n].type = "mosstempl" /\ h.atts[n].data = d
    BY <1>3, <1>4 DEF Copy
  <2>3. \A i \in 1..(n - 1) : h.atts[i].type = "unknown"
    BY <1>3, <1>4 DEF Copy
  <2>4. q[n].type = "mosstempl" /\ q[n].data = d
    BY <1>6, <2>1, <2>2
  <2>5. \A i \in 1..(n - 1) : q[i].type = "unknown"
    BY <1>6, <2>1, <2>3
  <2> QED
    BY <1>2, <1>6, <2>4, <2>5 DEF Copy
<1>8. HasTemplate(b.atts) /\ a # <<>>
  BY <1>2, CopyMarks
<1>9. MarkOrCreate(b, p, ty) = [base |-> b.atts, parsed |-> q, pos |-> n]
  <2>1. MarkOne([p EXCEPT !.atts = HideAll(@)], ty) = [atts |-> q, pos |-> n]
    BY <1>5 DEF h
  <2>2. n # 0 /\ p.atts # <<>>
    BY <1>2, <1>8 DEF a
  <2> QED
    BY <1>8, <2>1, <2>2 DEF MarkOrCreate
<1> QED
  BY <1>2, <1>6, <1>7, <1>9 DEF Copy, a, FoundOurs
-----------------------------------------------------------------------------
(* The class of a message.                                                 *)

OurClasses == { "IPM.Note.GpgOL.MultipartSigned", "IPM.Note.GpgOL.SM.MultipartSigned",
                "IPM.Note.GpgOL.MultipartEncrypted", "IPM.Note.GpgOL.OpaqueSigned",
                "IPM.Note.GpgOL.OpaqueEncrypted", "IPM.Note.GpgOL.ClearSigned",
                "IPM.Note.GpgOL.PGPMessage", "IPM.Note.GpgOL.WKSConfirmation" }

LEMMA ClassTypes ==
  /\ OurClasses \subseteq DOMAIN GpgOLClasses
  /\ \A c \in OurClasses :
       c \notin { "", "IPM.Note", "IPM.Note.SMIME", "IPM.Note.SMIME.MultipartSigned",
                  "IPM.Note.GpgOL", "IPM.Note.Secure.CexSig", "IPM.Note.Secure.CexEnc" }
  /\ GpgOLClasses["IPM.Note.GpgOL.MultipartSigned"] = "multipart_signed"
  /\ GpgOLClasses["IPM.Note.GpgOL.SM.MultipartSigned"] = "multipart_signed"
  /\ GpgOLClasses["IPM.Note.GpgOL.MultipartEncrypted"] = "multipart_encrypted"
  /\ GpgOLClasses["IPM.Note.GpgOL.OpaqueEncrypted"] = "opaque_encrypted"
  /\ GpgOLClasses["IPM.Note.GpgOL.ClearSigned"] = "clear_signed"
  /\ GpgOLClasses["IPM.Note.GpgOL.PGPMessage"] = "pgp_message"
BY DEF OurClasses, GpgOLClasses


\* What changing the class leaves alone
SameButClass(q, m) ==
  /\ IsMessage(q) /\ q.override = m.override /\ q.hasBody = m.hasBody
  /\ q.atts = m.atts /\ q.body = m.body

\* The class that GpgOL finds when it may write to the message
Found(m, smime)   == NewClass(m, smime, TRUE)
Changed(m, smime) == ChangeClass(m, smime, TRUE)

LEMMA ChangedIs ==
  ASSUME NEW m, NEW smime
  PROVE  Changed(m, smime) =
           IF Found(m, smime) = "" THEN [msg |-> m, type |-> MessageType(m)]
           ELSE [msg  |-> [m EXCEPT !.cls = Found(m, smime),
                                    !.old = IF @ = "" THEN ClassSeen(m) ELSE @],
                 type |-> StringToType(Found(m, smime))]
BY DEF Changed, Found, ChangeClass

LEMMA ClassChanged ==
  ASSUME NEW m, IsMessage(m), NEW c \in OurClasses, NEW smime, Found(m, smime) = c
  PROVE  LET q == Changed(m, smime)
         IN q.type = GpgOLClasses[c] /\ SameButClass(q.msg, m) /\ q.msg.cls = c
<1>1. c # ""
  BY ClassTypes
<1> DEFINE o == IF m.old = "" THEN ClassSeen(m) ELSE m.old
           w == [m EXCEPT !.cls = c, !.old = o]
<1>2. w = [m EXCEPT !.cls = c, !.old = IF @ = "" THEN ClassSeen(m) ELSE @]
  BY DEF IsMessage
<1>3. Changed(m, smime) = [msg |-> w, type |-> StringToType(c)]
  BY <1>1, <1>2, ChangedIs
<1>4. StringToType(c) = GpgOLClasses[c]
  BY ClassTypes DEF StringToType, SmimeClasses
<1> HIDE DEF o
<1>5. SameButClass(w, m) /\ w.cls = c
  BY DEF SameButClass, IsMessage
<1> HIDE DEF w
<1> QED
  BY <1>3, <1>4, <1>5

\* A message that has its class already
LEMMA ClassKept ==
  ASSUME NEW m, IsMessage(m), m.cls \in OurClasses, NEW smime,
         m.override = "" \/ m.override = m.cls
  PROVE  Changed(m, smime) = [msg |-> m, type |-> GpgOLClasses[m.cls]]
<1>1. ClassSeen(m) = m.cls
  BY DEF ClassSeen
<1>2. Found(m, smime) = ""
  BY <1>1, ClassTypes DEF Found, NewClass
<1>3. MessageType(m) = GpgOLClasses[m.cls]
  BY <1>1, ClassTypes DEF MessageType, StringToType, SmimeClasses
<1> QED
  BY <1>2, <1>3, ChangedIs

\* The class of a message we wrote is in its override
LEMMA ClassOfSent ==
  ASSUME NEW m, IsMessage(m), m.override \in OurClasses, NEW smime
  PROVE  LET q == Changed(m, smime)
         IN q.type = GpgOLClasses[m.override] /\ SameButClass(q.msg, m)
<1> DEFINE o == m.override
<1>1. o \in OurClasses /\ o # "" /\ ClassSeen(m) = o
  BY ClassTypes DEF ClassSeen
<1>2. Found(m, smime) = IF m.cls = o THEN "" ELSE o
  BY <1>1, ClassTypes DEF Found, NewClass
<1>3. CASE m.cls = o
  <2>1. m.cls \in OurClasses
    BY <1>1, <1>3
  <2>2. Changed(m, smime) = [msg |-> m, type |-> GpgOLClasses[m.cls]]
    BY <1>3, <2>1, ClassKept
  <2>3. SameButClass(m, m)
    BY DEF SameButClass
  <2> QED
    BY <1>3, <2>2, <2>3
<1>4. CASE m.cls # o
  <2>1. Found(m, smime) = o
    BY <1>2, <1>4
  <2>2. o \in OurClasses
    OBVIOUS
  <2> HIDE DEF o
  <2>3. LET q == Changed(m, smime)
        IN q.type = GpgOLClasses[o] /\ SameButClass(q.msg, m) /\ q.msg.cls = o
    BY <2>1, <2>2, ClassChanged
  <2> QED
    BY <2>3 DEF o
<1> QED
  BY <1>3, <1>4
-----------------------------------------------------------------------------
(* The classes of the messages that arrive.                                *)

\* What others wrote has no property of ours
Plainest(m) == IsMessage(m) /\ m.override = "" /\ m.wks = FALSE

MediaHeader(m, main, sub, proto, smt) ==
  m.hdr.k = "hdr" /\ m.hdr.main = main /\ m.hdr.sub = sub /\ m.hdr.proto = proto /\ m.hdr.smt = smt

LEMMA TypeOfHeader ==
  ASSUME NEW m, NEW main, NEW sub, NEW proto, NEW smt, MediaHeader(m, main, sub, proto, smt),
         m.wks = FALSE, sub # "ms-tnef"
  PROVE  LET ct == ContentTypeOf(m)
         IN ct.main = main /\ ct.sub = sub /\ ct.proto = proto /\ ct.smt = smt
BY DEF ContentTypeOf, TypeIn, MediaHeader

LEMMA FoundEncrypted ==
  ASSUME NEW m, Plainest(m), m.cls = "IPM.Note", NEW smime,
         NEW sub, sub = "encrypted" \/ sub = "mixed",
         MediaHeader(m, "multipart", sub, "application/pgp-encrypted", "")
  PROVE  Found(m, smime) = "IPM.Note.GpgOL.MultipartEncrypted"
<1> DEFINE ct == ContentTypeOf(m)
<1>1. ct.main = "multipart" /\ ct.sub = sub /\ ct.proto = "application/pgp-encrypted"
  <2>1. sub # "ms-tnef"
    OBVIOUS
  <2> QED
    BY <2>1, TypeOfHeader DEF Plainest
<1>2. ClassOfNote(m) = "IPM.Note.GpgOL.MultipartEncrypted"
  <2>1. ct.sub \in {"encrypted", "mixed"} /\ ct.main # "" /\ ct.proto # "" /\ ct.main # "wks"
    BY <1>1
  <2> HIDE DEF ct
  <2> QED
    BY <1>1, <2>1 DEF ClassOfNote, ct
<1> QED
  BY <1>2 DEF Found, NewClass, ClassSeen, Plainest

\* A mail of others whose first attachment is the one that says "encrypted"
LEMMA FromEncrypted ==
  ASSUME NEW m, m.atts # <<>>, m.atts[1].method = "value", m.atts[1].tag = Encrypted
  PROVE  FromFirstAttachment(m) = "IPM.Note.GpgOL.MultipartEncrypted"
         /\ FirstAttachTag(m) = Encrypted /\ Encrypted # Signed
<1>1. FirstAttachTag(m) = Encrypted
  BY DEF FirstAttachTag
<1>2. Encrypted # Signed
  <2>1. Encrypted[1] = "application" /\ Signed[1] = "multipart"
    BY DEF Encrypted, Signed
  <2> QED
    BY <2>1
<1>3. Encrypted # <<"application", "pgp-signature">>
  <2> DEFINE t == <<"application", "pgp-signature">>
  <2>1. Encrypted[2] = "pgp-encrypted" /\ t[2] = "pgp-signature"
    BY DEF Encrypted
  <2> QED
    BY <2>1
<1>4. FromFirstAttachment(m) = "IPM.Note.GpgOL.MultipartEncrypted"
  BY <1>1, <1>3 DEF FromFirstAttachment
<1> QED
  BY <1>1, <1>2, <1>4

LEMMA FoundMixed ==
  ASSUME NEW m, Plainest(m), m.cls = "IPM.Note", NEW smime, m.hasBody = FALSE,
         MediaHeader(m, "multipart", "mixed", "", ""),
         m.atts # <<>>, m.atts[1].method = "value", m.atts[1].tag = Encrypted
  PROVE  Found(m, smime) = "IPM.Note.GpgOL.MultipartEncrypted"
<1> DEFINE ct == ContentTypeOf(m)
<1>1. ct.main = "multipart" /\ ct.sub = "mixed" /\ ct.proto = ""
  <2> DEFINE sub == "mixed"
             mm  == "multipart"
             e   == ""
  <2>1. sub # "ms-tnef" /\ MediaHeader(m, mm, sub, e, e) /\ m.wks = FALSE
    BY DEF Plainest
  <2> HIDE DEF sub, mm, e
  <2>2. ct.main = mm /\ ct.sub = sub /\ ct.proto = e
    BY <2>1, TypeOfHeader
  <2> QED
    BY <2>2 DEF sub, mm, e
<1>2. FromFirstAttachment(m) = "IPM.Note.GpgOL.MultipartEncrypted"
  BY FromEncrypted
<1>3. PgpLines(m) = ""
  BY DEF PgpLines
<1>4. ClassOfNote(m) = "IPM.Note.GpgOL.MultipartEncrypted"
  <2> DEFINE mt == <<ct.main, ct.sub>>
  <2>1. mt \in MaybeInline
    BY <1>1 DEF MaybeInline
  <2>2. ct.main # "wks" /\ ~(ct.main # "" /\ ct.proto # "") /\ ct.sub # "ms-tnef"
    BY <1>1
  <2> HIDE DEF ct
  <2> QED
    BY <1>1, <1>2, <1>3, <2>1, <2>2 DEF ClassOfNote, ct, OrElse
<1> QED
  BY <1>4 DEF Found, NewClass, ClassSeen, Plainest

LEMMA FoundTnef ==
  ASSUME NEW m, Plainest(m), m.cls = "IPM.Note", NEW smime, m.hasBody = FALSE,
         MediaHeader(m, "application", "ms-tnef", "", ""),
         m.atts # <<>>, m.atts[1].method = "value", m.atts[1].tag = Encrypted
  PROVE  Found(m, smime) = "IPM.Note.GpgOL.MultipartEncrypted"
<1> DEFINE ct == ContentTypeOf(m)
<1>2. FromFirstAttachment(m) = "IPM.Note.GpgOL.MultipartEncrypted" /\ FirstAttachTag(m) # Signed
  BY FromEncrypted
<1>1. ct.main = "application" /\ ct.sub = "ms-tnef" /\ ct.proto = ""
  BY <1>2 DEF ContentTypeOf, TypeIn, MediaHeader, Plainest
<1>3. PgpLines(m) = ""
  BY DEF PgpLines
<1>4. ClassOfNote(m) = "IPM.Note.GpgOL.MultipartEncrypted"
  <2>2. ct.main # "wks" /\ ~(ct.main # "" /\ ct.proto # "") /\ ct.sub = "ms-tnef"
    BY <1>1
  <2> HIDE DEF ct
  <2>3. <<ct.main, ct.sub>> \notin MaybeInline
    BY <1>1 DEF MaybeInline
  <2> QED
    BY <1>1, <1>2, <1>3, <2>2, <2>3 DEF ClassOfNote, ct, OrElse
<1> QED
  BY <1>4 DEF Found, NewClass, ClassSeen, Plainest

\* A signed one, whose type is that of the structure in the attachment
LEMMA FoundTnefSigned ==
  ASSUME NEW m, Plainest(m), m.cls = "IPM.Note", NEW smime, m.hasBody = FALSE,
         MediaHeader(m, "application", "ms-tnef", "", ""),
         m.atts # <<>>, m.atts[1].method = "value", m.atts[1].tag = Signed,
         Begins(m.atts[1].data, SignHead("pgp"))
  PROVE  Found(m, smime) = "IPM.Note.GpgOL.MultipartSigned"
<1> DEFINE ct == ContentTypeOf(m)
           d == m.atts[1].data
<1>1. HeaderIn(d) = SignHead("pgp")
  <2>1. SignHead("pgp").k = "hdr"
    BY DEF SignHead, SigningHeader, Header
  <2> QED
    BY <2>1 DEF HeaderIn, Begins
<1>2. /\ TypeIn(HeaderIn(d)).main = "multipart" /\ TypeIn(HeaderIn(d)).sub = "signed"
      /\ TypeIn(HeaderIn(d)).proto = PgpSig
  <2> DEFINE h == SignHead("pgp")
  <2>1. h.k = "hdr" /\ h.main = "multipart" /\ h.sub = "signed" /\ h.proto = PgpSig
    BY DEF SignHead, SigningHeader, Header, PgpSig
  <2> HIDE DEF h
  <2> QED
    BY <1>1, <2>1 DEF TypeIn, h
<1>3. FirstAttachData(m) = d /\ FirstAttachTag(m) = Signed
  BY DEF FirstAttachData, FirstAttachTag
<1>4. TypeIn(HeaderIn(d)) # NoType
  <2>0. NoType.main = ""
    BY DEF NoType
  <2>1. TypeIn(HeaderIn(d)).main # NoType.main
    BY <1>2, <2>0
  <2> QED
    BY <2>1
<1> HIDE DEF d
<1>5. ct = TypeIn(HeaderIn(d))
  <2>1. TypeIn(m.hdr).sub = "ms-tnef"
    BY DEF MediaHeader, TypeIn
  <2> QED
    BY <1>3, <1>4, <2>1 DEF ContentTypeOf, Plainest, MediaHeader
<1>6. ct.main = "multipart" /\ ct.sub = "signed" /\ ct.proto = PgpSig
  BY <1>2, <1>5
<1>7. ClassOfNote(m) = "IPM.Note.GpgOL.MultipartSigned"
  <2> HIDE DEF ct
  <2>1. ct.main # "" /\ ct.proto # "" /\ ct.main # "wks" /\ ct.proto # "application/pgp-encrypted"
    BY <1>6 DEF PgpSig
  <2>2. <<ct.main, ct.sub>> = Signed
    BY <1>6 DEF Signed
  <2> QED
    BY <1>6, <2>1, <2>2 DEF ClassOfNote, ct
<1> QED
  BY <1>7 DEF Found, NewClass, ClassSeen, Plainest

LEMMA FoundCms ==
  ASSUME NEW m, Plainest(m), m.cls = "IPM.Note.SMIME", NEW smime, smime = TRUE,
         MediaHeader(m, "application", "pkcs7-mime", "", "enveloped-data")
  PROVE  Found(m, smime) = "IPM.Note.GpgOL.OpaqueEncrypted"
<1> DEFINE ct == ContentTypeOf(m)
<1>1. ct.main = "application" /\ ct.sub = "pkcs7-mime" /\ ct.proto = "" /\ ct.smt = "enveloped-data"
  BY TypeOfHeader DEF Plainest
<1>2. ct # NoType
  <2>1. ct.main # NoType.main
    BY <1>1 DEF NoType
  <2> QED
    BY <2>1
<1>3. <<ct.main, ct.sub>> = Pkcs7 /\ <<ct.main, ct.sub>> # Signed
  <2>1. <<ct.main, ct.sub>> = Pkcs7
    BY <1>1 DEF Pkcs7
  <2>2. Pkcs7[1] = "application" /\ Signed[1] = "multipart"
    BY DEF Signed, Pkcs7
  <2> QED
    BY <2>1, <2>2
<1> HIDE DEF ct
<1>4. ByCmsType(ct) = "IPM.Note.GpgOL.OpaqueEncrypted"
  BY <1>1, <1>3 DEF ByCmsType
<1>5. ClassOfSmime(m, smime) = "IPM.Note.GpgOL.OpaqueEncrypted"
  BY <1>1, <1>2, <1>3, <1>4 DEF ClassOfSmime, OrElse, ct
<1> QED
  BY <1>5 DEF Found, NewClass, ClassSeen, Plainest

LEMMA FoundSigned ==
  ASSUME NEW m, Plainest(m), m.cls = "IPM.Note.SMIME.MultipartSigned", NEW smime \in BOOLEAN,
         NEW proto, MediaHeader(m, "multipart", "signed", proto, ""), smime \/ proto = PgpSig
  PROVE  Found(m, smime) = IF smime THEN "IPM.Note.GpgOL.SM.MultipartSigned"
                                    ELSE "IPM.Note.GpgOL.MultipartSigned"
<1> DEFINE ct == ContentTypeOf(m)
<1>1. ct.main = "multipart" /\ ct.sub = "signed" /\ ct.proto = proto
  <2> DEFINE sub == "signed"
  <2>1. sub # "ms-tnef" /\ MediaHeader(m, "multipart", sub, proto, "")
    OBVIOUS
  <2> HIDE DEF sub
  <2>2. ct.main = "multipart" /\ ct.sub = sub /\ ct.proto = proto
    BY <2>1, TypeOfHeader DEF Plainest
  <2> QED
    BY <2>2 DEF sub
<1>2. <<ct.main, ct.sub>> = Signed /\ ct.main # "wks"
  BY <1>1 DEF Signed
<1> HIDE DEF ct
<1>3. ClassOfSmimeSigned(m) # "IPM.Note.GpgOL.WKSConfirmation"
  BY <1>2 DEF ClassOfSmimeSigned, ct
<1>4. proto = PgpSig => ClassOfSmimeSigned(m) = "IPM.Note.GpgOL.MultipartSigned"
  BY <1>1, <1>2 DEF ClassOfSmimeSigned, ct
<1>5. ClassSeen(m) = "IPM.Note.SMIME.MultipartSigned"
  BY DEF ClassSeen, Plainest
<1>6. CASE smime = TRUE
  <2>1. Found(m, smime) = IF ClassOfSmimeSigned(m) = "IPM.Note.GpgOL.WKSConfirmation"
                          THEN "IPM.Note.GpgOL.WKSConfirmation"
                          ELSE "IPM.Note.GpgOL.SM.MultipartSigned"
    BY <1>5, <1>6 DEF Found, NewClass, Plainest
  <2> QED
    BY <1>3, <1>6, <2>1
<1>7. CASE smime = FALSE
  <2>1. ClassOfSmimeSigned(m) = "IPM.Note.GpgOL.MultipartSigned"
    BY <1>4, <1>7
  <2>2. Found(m, smime) = ClassOfSmimeSigned(m)
    BY <1>5, <1>7 DEF Found, NewClass, Plainest
  <2> QED
    BY <1>7, <2>1, <2>2
<1> QED
  BY <1>6, <1>7
-----------------------------------------------------------------------------
(* PGP/Inline: the first line decides.                                     *)

LEMMA FilledFirst ==
  ASSUME NEW S, NEW ls \in Seq(S), ls # <<>>, ~IsBlank(ls[1])
  PROVE  Filled(ls) # <<>> /\ Filled(ls)[1] = ls[1]
<1> DEFINE P == { x \in S : ~IsBlank(x) }
           T == { s \in Seq(S) : s # <<>> /\ ~IsBlank(s[1])
                                   => Keep(s, P) # <<>> /\ Keep(s, P)[1] = s[1] }
<1>1. <<>> \in T
  OBVIOUS
<1>2. ASSUME NEW s \in Seq(S), NEW x \in S, s \in T PROVE Append(s, x) \in T
  <2> DEFINE t == Append(s, x)
             k == Keep(s, P)
  <2>1. t \in Seq(S) /\ (s # <<>> => t[1] = s[1]) /\ (s = <<>> => t[1] = x)
    OBVIOUS
  <2>2. Keep(t, P) = IF x \in P THEN Append(k, x) ELSE k
    BY KeepAppend
  <2>3. k \in Seq(S)
    BY KeepType
  <2>4. s = <<>> => k = <<>>
    BY KeepNone
  <2>5. s # <<>> /\ ~IsBlank(s[1]) => k # <<>> /\ k[1] = s[1]
    BY <1>2
  <2>6. x \in P <=> ~IsBlank(x)
    OBVIOUS
  <2> HIDE DEF t, k, P
  <2>7. ASSUME t # <<>>, ~IsBlank(t[1]) PROVE Keep(t, P) # <<>> /\ Keep(t, P)[1] = t[1]
    <3>1. CASE s = <<>>
      <4>1. x \in P /\ k = <<>> /\ t[1] = x
        BY <2>1, <2>4, <2>6, <2>7, <3>1
      <4>2. Append(<<>>, x) = <<x>> /\ <<x>>[1] = x /\ <<x>> # <<>>
        OBVIOUS
      <4> QED
        BY <2>2, <4>1, <4>2
    <3>2. CASE s # <<>>
      <4>1. k # <<>> /\ k[1] = s[1] /\ t[1] = s[1]
        BY <2>1, <2>5, <2>7, <3>2
      <4>2. Append(k, x) # <<>> /\ Append(k, x)[1] = k[1]
        BY <2>3, <4>1
      <4> QED
        BY <2>2, <4>1, <4>2
    <3> QED
      BY <3>1, <3>2
  <2> QED
    BY <2>1, <2>7 DEF t
<1> HIDE DEF T
<1>3. Seq(S) \subseteq T
  BY <1>1, <1>2, SeqInduct
<1>4. Keep(ls, P) # <<>> /\ Keep(ls, P)[1] = ls[1]
  BY <1>3 DEF T
<1>5. Filled(ls) = Keep(ls, P)
  <2>1. { i \in DOMAIN ls : ~IsBlank(ls[i]) } = { i \in DOMAIN ls : ls[i] \in P }
    OBVIOUS
  <2> HIDE DEF P
  <2> QED
    BY <2>1 DEF Filled, Keep
<1> QED
  BY <1>4, <1>5

LEMMA AppendFirst ==
  ASSUME NEW S, NEW s \in Seq(S), Len(s) > 0, NEW x \in S
  PROVE  Append(s, x) \in Seq(S) /\ Len(Append(s, x)) > 0 /\ Append(s, x)[1] = s[1]
OBVIOUS

\* The first line of a content that begins with one
LEMMA SplitFirst ==
  ASSUME NEW x \in Within(Pieces), NEW c \in Seq(Pieces)
  PROVE  /\ Split(<<x, "nl">> \o c).done \in Seq(Seq(Within(Pieces)))
         /\ Len(Split(<<x, "nl">> \o c).done) > 0 /\ Split(<<x, "nl">> \o c).done[1] = <<x>>
<1> DEFINE a == <<x, "nl">>
           S == Seq(Within(Pieces))
           D(s) == Split(a \o s).done
           T == { s \in Seq(Pieces) : D(s) \in Seq(S) /\ Len(D(s)) > 0 /\ D(s)[1] = <<x>> }
<1>1. a \in Seq(Pieces)
  <2> DEFINE n == "nl"
  <2>1. n \in Pieces /\ x \in Pieces
    BY DEF Within, Pieces
  <2> HIDE DEF n
  <2>2. <<x, n>> \in Seq(Pieces)
    BY <2>1, Short2
  <2> QED
    BY <2>2 DEF n
<1>2. Split(a) = [done |-> << <<x>> >>, cur |-> <<>>]
  BY SplitTwo
<1> HIDE DEF a
<1>3. <<>> \in T
  <2>0. a \o <<>> = a
    BY <1>1, ConcatNone
  <2>1. D(<<>>) = << <<x>> >>
    BY <1>2, <2>0
  <2>2. << <<x>> >> \in Seq(S) /\ Len(<< <<x>> >>) = 1 /\ << <<x>> >>[1] = <<x>>
    OBVIOUS
  <2>3. <<>> \in Seq(Pieces)
    BY NoneType
  <2> DEFINE e == D(<<>>)
             f == << <<x>> >>
  <2>4. e = f /\ f \in Seq(S) /\ Len(f) = 1 /\ f[1] = <<x>>
    BY <2>1, <2>2
  <2> HIDE DEF D, S, e, f
  <2>5. e \in Seq(S) /\ Len(e) > 0 /\ e[1] = <<x>>
    BY <2>4
  <2> QED
    BY <2>3, <2>5 DEF e
<1>4. ASSUME NEW s \in Seq(Pieces), NEW y \in Pieces, s \in T PROVE Append(s, y) \in T
  <2> DEFINE q == Split(a \o s)
             p == Split(a \o Append(s, y))
  <2>1. a \o s \in Seq(Pieces) /\ Append(s, y) \in Seq(Pieces)
        /\ a \o Append(s, y) = Append(a \o s, y)
    BY <1>1, ConcatType, ConcatAppend
  <2>2. p = AddPiece(q, y)
    BY <2>1, SplitAppend
  <2>3. SplitOk(a \o s, Pieces)
    BY <2>1, SplitRight
  <2>4. q = [done |-> q.done, cur |-> q.cur] /\ q.cur \in S /\ q.done \in Seq(S)
    BY <2>3 DEF SplitOk
  <2>5. q.done \in Seq(S) /\ Len(q.done) > 0 /\ q.done[1] = <<x>>
    BY <1>4
  <2> HIDE DEF q, p, S
  <2>6. p.done = q.done \/ p.done = Append(q.done, q.cur)
    BY <2>2, <2>4 DEF AddPiece
  <2>7. p.done \in Seq(S) /\ Len(p.done) > 0 /\ p.done[1] = <<x>>
    <3> DEFINE u == q.done
    <3>1. u \in Seq(S) /\ Len(u) > 0 /\ u[1] = <<x>> /\ q.cur \in S
      BY <2>4, <2>5
    <3> HIDE DEF u
    <3>2. Append(u, q.cur) \in Seq(S) /\ Len(Append(u, q.cur)) > 0 /\ Append(u, q.cur)[1] = u[1]
      BY <3>1, AppendFirst
    <3> QED
      BY <2>6, <3>1, <3>2 DEF u
  <2> QED
    BY <2>1, <2>7 DEF p
<1> HIDE DEF T
<1>5. Seq(Pieces) \subseteq T
  BY <1>3, <1>4, SeqInduct
<1> QED
  BY <1>5 DEF T, a

InlineMail(m) ==
  /\ Plainest(m) /\ m.cls = "IPM.Note" /\ m.hasBody = TRUE /\ m.atts = <<>>
  /\ m.hdr = NoHeader \/ MediaHeader(m, "text", "plain", "", "")

LEMMA TypeOfInline ==
  ASSUME NEW m, InlineMail(m)
  PROVE  LET ct == ContentTypeOf(m)
         IN ct.proto = "" /\ <<ct.main, ct.sub>> \in MaybeInline /\ ct.main # "wks"
            /\ ct.sub # "ms-tnef"
<1>1. CASE m.hdr = NoHeader
  <2>1. FirstAttachData(m) = <<>>
    BY DEF InlineMail, FirstAttachData
  <2>2. HeaderIn(FirstAttachData(m)) = NoHeader
    BY <2>1 DEF HeaderIn
  <2>3. NoHeader.k = "none"
    BY DEF NoHeader, Header
  <2>4. TypeIn(NoHeader) = NoType
    BY <2>3 DEF TypeIn
  <2>5. ContentTypeOf(m) = NoType
    <3>1. NoType.sub # "ms-tnef"
      BY DEF NoType
    <3> QED
      BY <1>1, <2>2, <2>3, <2>4, <3>1 DEF ContentTypeOf, InlineMail, Plainest
  <2>6. NoType.main = "" /\ NoType.sub = "" /\ NoType.proto = ""
    BY DEF NoType
  <2> QED
    BY <2>5, <2>6 DEF MaybeInline
<1>2. CASE MediaHeader(m, "text", "plain", "", "")
  <2> DEFINE mm == "text"
             sub == "plain"
             e == ""
  <2>1. sub # "ms-tnef" /\ MediaHeader(m, mm, sub, e, e) /\ m.wks = FALSE
    BY <1>2 DEF InlineMail, Plainest
  <2> HIDE DEF mm, sub, e
  <2>2. LET ct == ContentTypeOf(m) IN ct.main = mm /\ ct.sub = sub /\ ct.proto = e
    BY <2>1, TypeOfHeader
  <2> QED
    BY <2>2 DEF mm, sub, e, MaybeInline
<1> QED
  BY <1>1, <1>2 DEF InlineMail

LEMMA FoundInline ==
  ASSUME NEW m, InlineMail(m), NEW smime, NEW S, m.body \in Seq(S), m.body # <<>>,
         m.body[1] = Only1("pgp") \/ m.body[1] = Only1("clear")
  PROVE  Found(m, smime) = IF m.body[1] = Only1("pgp") THEN "IPM.Note.GpgOL.PGPMessage"
                                                       ELSE "IPM.Note.GpgOL.ClearSigned"
<1> DEFINE ct == ContentTypeOf(m)
           f  == m.body[1]
           P  == <<"pgp">>
           C  == <<"clear">>
<1>1. Only1("pgp").p = P /\ Only1("clear").p = C /\ P # C /\ Only1("pgp").k = "data"
      /\ Only1("clear").k = "data" /\ P # <<>> /\ C # <<>>
  <2>1. P[1] = "pgp" /\ C[1] = "clear"
    OBVIOUS
  <2>2. P # C
    BY <2>1
  <2> QED
    BY <2>2 DEF Only1, Data
<1> HIDE DEF P, C
<1>2. ~IsBlank(f)
  BY <1>1 DEF IsBlank
<1>3. Filled(m.body) # <<>> /\ Filled(m.body)[1] = f
  BY <1>2, FilledFirst
<1>4. PgpLines(m) = IF f = Only1("pgp") THEN "IPM.Note.GpgOL.PGPMessage"
                                       ELSE "IPM.Note.GpgOL.ClearSigned"
  <2>1. f.p = C <=> f # Only1("pgp")
    BY <1>1
  <2>2. f.p = P \/ f.p = C
    BY <1>1
  <2>3. PgpLines(m) = IF f.p = C THEN "IPM.Note.GpgOL.ClearSigned"
                      ELSE IF f.p = P THEN "IPM.Note.GpgOL.PGPMessage" ELSE ""
    BY <1>3 DEF PgpLines, P, C, InlineMail
  <2> QED
    BY <1>1, <2>1, <2>2, <2>3
<1> HIDE DEF f
<1>5. ClassOfNote(m) = PgpLines(m)
  <2>1. /\ ct.proto = "" /\ <<ct.main, ct.sub>> \in MaybeInline /\ ct.main # "wks"
        /\ ct.sub # "ms-tnef"
    BY TypeOfInline
  <2>2. PgpLines(m) # ""
    BY <1>4
  <2> HIDE DEF ct
  <2> QED
    BY <2>1, <2>2 DEF ClassOfNote, OrElse, ct
<1>6. Found(m, smime) = ClassOfNote(m)
  BY DEF Found, NewClass, ClassSeen, InlineMail, Plainest
<1> QED
  BY <1>4, <1>5, <1>6 DEF f
-----------------------------------------------------------------------------
(* Marks on the attachments of others.                                     *)

LEMMA MossOne ==
  ASSUME NEW D, NEW p \in Seq(Attachments(D)), NEW i \in 1..Len(p)
  PROVE  LET q == MarkMoss(p, i)
         IN /\ q \in Seq(Attachments(D)) /\ Len(q) = Len(p) /\ q[i].hidden
            /\ q[i].type = "moss" /\ q[i].data = p[i].data /\ q[i].tag = p[i].tag
            /\ \A j \in 1..Len(p) : j # i => q[j] = p[j]
<1> DEFINE A == Attachments(D)
           e == [[p[i] EXCEPT !.hidden = TRUE] EXCEPT !.type = "moss"]
           q == [p EXCEPT ![i] = e]
<1>1. /\ e \in A /\ e.hidden = TRUE /\ e.type = "moss" /\ e.data = p[i].data
      /\ e.tag = p[i].tag
  <2>1. p[i] \in A
    OBVIOUS
  <2> QED
    BY <2>1 DEF Attachments
<1>2. MarkMoss(p, i) = q
  <2>1. DOMAIN p = 1..Len(p)
    OBVIOUS
  <2> DEFINE h == [p[i] EXCEPT !.hidden = TRUE]
             t == [p EXCEPT ![i] = h]
  <2>2. t[i] = h
    BY <2>1
  <2>3. MarkMoss(p, i) = [t EXCEPT ![i].type = "moss"]
    BY DEF MarkMoss
  <2>4. [t EXCEPT ![i].type = "moss"] = [t EXCEPT ![i] = e]
    BY <2>2
  <2> HIDE DEF h, e
  <2>5. [t EXCEPT ![i] = e] = q
    BY <2>1
  <2> QED
    BY <2>3, <2>4, <2>5
<1> HIDE DEF e, A
<1>3. /\ q \in Seq(A) /\ Len(q) = Len(p) /\ DOMAIN q = 1..Len(p) /\ q[i] = e
      /\ \A j \in 1..Len(p) : j # i => q[j] = p[j]
  BY <1>1 DEF A
<1> HIDE DEF q
<1> QED
  BY <1>1, <1>2, <1>3 DEF A

\* What marking finds in a message of somebody else
Marking(r, D, d) ==
  Kept(r.atts, D, d) /\ r.pos \in 1..Len(r.atts) /\ r.atts[r.pos].data = d

LEMMA NoMarks ==
  ASSUME NEW p, \A i \in DOMAIN p : p[i].type = "unknown"
  PROVE  Marked(p) = {} /\ ~HasTemplate(p)
BY DEF Marked, MossTypes, HasTemplate

LEMMA TagsDiffer == Encrypted # Octets /\ Signed # Pkcs7 /\ Encrypted # Pkcs7 /\ Octets # Pkcs7
<1>1. /\ Encrypted[2] = "pgp-encrypted" /\ Octets[2] = "octet-stream" /\ Signed[2] = "signed"
      /\ Pkcs7[2] = "pkcs7-mime"
  BY DEF Encrypted, Octets, Signed, Pkcs7
<1> QED
  BY <1>1

OurTypes == {"multipart_signed", "multipart_encrypted", "opaque_encrypted"}

\* One attachment, with the structure or the ciphertext
LEMMA MarkSingle ==
  ASSUME NEW D, NEW d, NEW m, NEW ty \in OurTypes, m.atts \in Seq(Attachments(D)), Len(m.atts) = 1,
         m.atts[1].type = "unknown", m.atts[1].data = d, m.atts[1].name = "smime.p7m"
  PROVE  Marking(MarkOne(m, ty), D, d) /\ ~HasTemplate(m.atts)
<1> DEFINE p == m.atts
           q == MarkMoss(p, 1)
<1>1. p \in Seq(Attachments(D)) /\ Len(p) = 1 /\ DOMAIN p = {1} /\ 1 \in 1..Len(p)
  OBVIOUS
<1>2. Marked(p) = {} /\ ~HasTemplate(p)
  BY <1>1, NoMarks
<1>3. /\ q \in Seq(Attachments(D)) /\ Len(q) = 1 /\ q[1].hidden /\ q[1].type = "moss"
      /\ q[1].data = d
  BY <1>1, MossOne
<1>4. SmimePart(p) = {1} \/ SmimePart(p) = {}
  BY <1>1 DEF SmimePart
<1>5. MarkByKind(p) = [atts |-> q, pos |-> 1]
  <2>1. CASE SmimePart(p) = {1}
    <3>1. Min(SmimePart(p)) = 1
      BY <2>1, MinOne
    <3>2. SmimePart(p) # {}
      BY <2>1
    <3> QED
      BY <3>1, <3>2 DEF MarkByKind
  <2>2. CASE SmimePart(p) = {}
    BY <1>1, <2>2 DEF MarkByKind
  <2> QED
    BY <1>4, <2>1, <2>2
<1>6. MarkOne(m, ty) = [atts |-> q, pos |-> 1]
  BY <1>2, <1>5 DEF MarkOne, OurTypes
<1> HIDE DEF q
<1>7. AllHidden(q)
  <2>1. DOMAIN q = {1}
    BY <1>3
  <2> QED
    BY <1>3, <2>1 DEF AllHidden
<1>8. Kept(q, D, d)
  BY <1>3, <1>7 DEF Kept
<1> QED
  BY <1>2, <1>3, <1>6, <1>8 DEF Marking

\* The two attachments of an OpenPGP message
LEMMA MarkBoth ==
  ASSUME NEW D, NEW d, NEW m, NEW ty \in OurTypes, m.atts \in Seq(Attachments(D)), Len(m.atts) = 2,
         m.atts[1].type = "unknown", m.atts[2].type = "unknown",
         m.atts[1].tag = Encrypted, m.atts[2].tag = Octets, m.atts[2].data = d
  PROVE  Marking(MarkOne(m, ty), D, d) /\ ~HasTemplate(m.atts)
<1> DEFINE p == m.atts
           t == MarkMoss(p, 1)
           q == MarkMoss(t, 2)
<1>1. p \in Seq(Attachments(D)) /\ Len(p) = 2 /\ DOMAIN p = {1, 2} /\ 1 \in 1..Len(p)
  OBVIOUS
<1>2. Marked(p) = {} /\ ~HasTemplate(p)
  BY <1>1, NoMarks
<1>3. /\ t \in Seq(Attachments(D)) /\ Len(t) = 2 /\ t[1].hidden /\ t[1].type = "moss"
      /\ t[1].tag = Encrypted /\ t[2] = p[2]
  <2>1. 2 \in 1..Len(p) /\ 2 # 1 /\ p[1].tag = Encrypted
    BY <1>1
  <2> HIDE DEF p
  <2> HIDE DEF t
  <2>2. /\ t \in Seq(Attachments(D)) /\ Len(t) = Len(p) /\ t[1].hidden
        /\ t[1].type = "moss" /\ t[1].data = p[1].data /\ t[1].tag = p[1].tag
    BY <1>1, MossOne DEF t
  <2>3. \A j \in 1..Len(p) : j # 1 => t[j] = p[j]
    BY <1>1, MossOne DEF t
  <2> QED
    BY <1>1, <2>1, <2>2, <2>3
<1> HIDE DEF t
<1>4. /\ q \in Seq(Attachments(D)) /\ Len(q) = 2 /\ q[2].hidden /\ q[2].type = "moss"
      /\ q[2].data = d /\ q[1] = t[1]
  <2>1. 2 \in 1..Len(t)
    BY <1>3
  <2> QED
    BY <1>3, <2>1, MossOne
<1>5. SmimePart(p) = {}
  BY <1>1, TagsDiffer DEF SmimePart
<1>6. MarkByKind(p) = [atts |-> q, pos |-> 2]
  BY <1>1, <1>5 DEF MarkByKind, t
<1>7. MarkOne(m, ty) = [atts |-> q, pos |-> 2]
  BY <1>2, <1>6 DEF MarkOne, OurTypes
<1> HIDE DEF q
<1>8. AllHidden(q)
  <2>1. DOMAIN q = {1, 2}
    BY <1>4
  <2> QED
    BY <1>3, <1>4, <2>1 DEF AllHidden
<1>9. Kept(q, D, d)
  BY <1>3, <1>4, <1>8, TagsDiffer DEF Kept
<1> QED
  BY <1>2, <1>4, <1>7, <1>9 DEF Marking

\* The body becomes an attachment
LEMMA MarkBody ==
  ASSUME NEW D, NEW m, NEW ty \in {"pgp_message", "clear_signed"}, IsMessage(m), m.hasBody = TRUE,
         m.atts = <<>>, <<Blank>> \o m.body \in D
  PROVE  Marking(MarkOne(m, ty), D, <<Blank>> \o m.body) /\ ~HasTemplate(m.atts)
<1> DEFINE d == <<Blank>> \o m.body
           a == BodyAttachment(m)
           q == <<a>>
<1>1. /\ a \in Attachments(D) /\ a.hidden = TRUE /\ a.type = "pgpbody" /\ a.data = d
  BY DEF BodyAttachment, Att, Attachments
<1>2. Marked(m.atts) = {} /\ ~HasTemplate(m.atts)
  BY NoMarks
<1>3. Append(m.atts, a) = q /\ Len(m.atts) + 1 = 1
  OBVIOUS
<1> HIDE DEF a
<1>4. MarkOne(m, ty) = [atts |-> q, pos |-> 1]
  BY <1>2, <1>3 DEF MarkOne, a
<1>5. q \in Seq(Attachments(D)) /\ Len(q) = 1 /\ q[1] = a /\ DOMAIN q = {1}
  BY <1>1
<1> HIDE DEF q, d
<1>6. AllHidden(q)
  BY <1>1, <1>5 DEF AllHidden
<1>7. Kept(q, D, d)
  BY <1>1, <1>5, <1>6 DEF Kept
<1>8. q[1].data = d /\ 1 \in 1..Len(q)
  BY <1>1, <1>5
<1>9. MarkOne(m, ty).atts = q /\ MarkOne(m, ty).pos = 1
  BY <1>4
<1>10. Marking(MarkOne(m, ty), D, d)
  BY <1>7, <1>8, <1>9 DEF Marking
<1> QED
  BY <1>2, <1>10 DEF d

\* A message that was marked before
LEMMA MarkAgain ==
  ASSUME NEW D, NEW d, NEW m, NEW ty, ty \notin {"unknown", "gpgol"}, Kept(m.atts, D, d)
  PROVE  Marking(MarkOne(m, ty), D, d) /\ ~HasTemplate(m.atts)
<1> DEFINE p == m.atts
           n == MarkedPosition(p)
           q == Hide(p, n)
<1>1. Marked(p) # {} /\ ~HasTemplate(p) /\ n \in 1..Len(p) /\ p[n].data = d
  BY KeptMarks
<1>2. MarkOne(m, ty) = [atts |-> q, pos |-> n]
  BY <1>1 DEF MarkOne
<1>3. p \in Seq(Attachments(D)) /\ AllHidden(p)
  BY DEF Kept
<1> HIDE DEF n
<1>4. /\ q \in Seq(Attachments(D)) /\ Len(q) = Len(p) /\ AllHidden(q)
      /\ \A j \in 1..Len(p) : q[j].type = p[j].type /\ q[j].data = p[j].data
                              /\ q[j].tag = p[j].tag
  BY <1>1, <1>3, HiddenOne
<1> HIDE DEF q
<1>5. Kept(q, D, d)
  <2>1. CASE Len(p) = 1 /\ p[1].type \in {"moss", "pgpbody"} /\ p[1].data = d
    <3>1. 1 \in 1..Len(p)
      BY <2>1
    <3> QED
      BY <1>4, <2>1, <3>1 DEF Kept
  <2>2. CASE Len(p) = 2 /\ p[1].type = "moss" /\ p[2].type = "moss" /\ p[1].tag # Octets
             /\ p[2].data = d
    <3>1. 1 \in 1..Len(p) /\ 2 \in 1..Len(p)
      BY <2>2
    <3> QED
      BY <1>4, <2>2, <3>1 DEF Kept
  <2> QED
    BY <2>1, <2>2 DEF Kept
<1> QED
  BY <1>1, <1>2, <1>4, <1>5 DEF Marking

\* What is found in the store is what Outlook shows
LEMMA MarkedOther ==
  ASSUME NEW m, NEW p, NEW ty, ~HasTemplate(m.atts)
  PROVE  LET r == MarkOrCreate(m, p, ty)
         IN r.base = MarkOne(m, ty).atts /\ r.pos = MarkOne(m, ty).pos
BY DEF MarkOrCreate
-----------------------------------------------------------------------------
(* A protected mail on its way: what was chosen and what was made.         *)

Wire == [choice |-> choice, inline |-> Inline, smime |-> prefs.smime,
         lines |-> WritePlain(output), struct |-> Structure]

Wanted(w) ==
  IF w.inline THEN IF w.choice.encrypt THEN "pgp_message" ELSE "clear_signed"
  ELSE IF ~w.choice.encrypt THEN "multipart_signed"
  ELSE IF w.choice.proto = "cms" THEN "opaque_encrypted" ELSE "multipart_encrypted"

\* The data in our attachments, and those that hold all that was protected
OurData(w)  == { w.struct, w.lines, <<Blank>> \o w.lines, <<Only1("text")>> }
Carriers(w) == IF w.inline THEN { <<Blank>> \o w.lines }
               ELSE IF w.choice.encrypt THEN { w.struct, w.lines } ELSE { w.struct }

WellMade(w) ==
  /\ w.choice.proto \in {"pgp", "cms"} /\ w.choice.encrypt \in BOOLEAN /\ w.inline \in BOOLEAN
  /\ w.smime \in BOOLEAN /\ (w.choice.proto = "cms" => w.smime = TRUE /\ w.inline = FALSE)
  /\ w.inline => /\ w.lines \in Seq(DataLine) /\ w.lines # <<>>
                 /\ w.lines[1] = Only1(IF w.choice.encrypt THEN "pgp" ELSE "clear")
  /\ ~w.inline /\ ~w.choice.encrypt => Begins(w.struct, SignHead(w.choice.proto))
  /\ ~w.inline /\ w.choice.encrypt /\ w.choice.proto = "pgp" => Begins(w.struct, EncHead)
  /\ ~w.inline /\ w.choice.encrypt /\ w.choice.proto = "cms" => w.lines = <<Only1("cipher")>>

\* A message we wrote
Template(m, w) ==
  /\ IsMessage(m) /\ w.inline = FALSE
  /\ m.override = OverrideClass(w.choice.proto, w.choice.encrypt)
  /\ Copy(m.atts, OurData(w), w.struct)

\* Another message: its class and the attachment with the data are found
Understood(m, w) ==
  LET q == Changed(m, w.smime)
  IN /\ q.type = Wanted(w) /\ SameButClass(q.msg, m)
     /\ m.override = "" /\ ~HasTemplate(m.atts) /\ m.atts \in Seq(Attachments(OurData(w)))
     /\ q.msg.cls \in OurClasses /\ GpgOLClasses[q.msg.cls] = Wanted(w)
     /\ \E d \in Carriers(w) : Marking(MarkOne(q.msg, Wanted(w)), OurData(w), d)

LEMMA WantedIs ==
  ASSUME NEW w
  PROVE  /\ Wanted(w) \notin {"unknown", "gpgol", "smime"}
         /\ w.inline => Wanted(w) \in {"pgp_message", "clear_signed"}
         /\ ~w.inline => Wanted(w) \in OurTypes
BY DEF Wanted, OurTypes

LEMMA NoneMarked == ASSUME NEW p, p = <<>> PROVE ~HasTemplate(p)
<1>1. DOMAIN p = {}
  OBVIOUS
<1> QED
  BY <1>1, NoMarks

LEMMA ClassFound ==
  ASSUME NEW m, IsMessage(m), NEW c \in OurClasses, NEW w, Found(m, w.smime) = c
  PROVE  LET q == Changed(m, w.smime)
         IN q.type = GpgOLClasses[c] /\ SameButClass(q.msg, m) /\ q.msg.cls = c
<1> DEFINE s == w.smime
<1>1. Found(m, s) = c
  OBVIOUS
<1> HIDE DEF s
<1>2. LET u == Changed(m, s)
      IN u.type = GpgOLClasses[c] /\ SameButClass(u.msg, m) /\ u.msg.cls = c
  BY <1>1, ClassChanged
<1> QED
  BY <1>2 DEF s

LEMMA UnderstoodWhen ==
  ASSUME NEW w, NEW m, IsMessage(m), m.override = "", ~HasTemplate(m.atts),
         m.atts \in Seq(Attachments(OurData(w))), NEW c \in OurClasses, Found(m, w.smime) = c, GpgOLClasses[c] = Wanted(w),
         NEW d \in Carriers(w),
         \A q : SameButClass(q, m) => Marking(MarkOne(q, Wanted(w)), OurData(w), d)
  PROVE  Understood(m, w)
<1> DEFINE q == Changed(m, w.smime)
<1>1. q.type = GpgOLClasses[c] /\ SameButClass(q.msg, m) /\ q.msg.cls = c
  <2>1. IsMessage(m) /\ c \in OurClasses /\ Found(m, w.smime) = c
    OBVIOUS
  <2> HIDE DEF q
  <2>2. LET u == Changed(m, w.smime)
        IN u.type = GpgOLClasses[c] /\ SameButClass(u.msg, m) /\ u.msg.cls = c
    BY ONLY <2>1, ClassFound
  <2> QED
    BY <2>2 DEF q
<1> HIDE DEF q
<1>2. Marking(MarkOne(q.msg, Wanted(w)), OurData(w), d)
  BY <1>1
<1> QED
  BY <1>1, <1>2 DEF Understood, q

\* A message that was opened before
LEMMA UnderstoodKept ==
  ASSUME NEW w, NEW m, IsMessage(m), m.override = "", m.cls \in OurClasses,
         GpgOLClasses[m.cls] = Wanted(w), NEW d \in Carriers(w), Kept(m.atts, OurData(w), d)
  PROVE  Understood(m, w)
<1>1. Changed(m, w.smime) = [msg |-> m, type |-> GpgOLClasses[m.cls]]
  BY ClassKept
<1>2. Marking(MarkOne(m, Wanted(w)), OurData(w), d) /\ ~HasTemplate(m.atts)
  BY WantedIs, MarkAgain
<1>3. SameButClass(m, m)
  BY DEF SameButClass
<1> DEFINE q == Changed(m, w.smime)
<1>5. m.atts \in Seq(Attachments(OurData(w)))
  BY DEF Kept
<1>4. q.msg = m /\ q.type = Wanted(w)
  <2>1. q = [msg |-> m, type |-> GpgOLClasses[m.cls]]
    BY <1>1
  <2> HIDE DEF q
  <2>2. q.msg = m /\ q.type = GpgOLClasses[m.cls]
    BY <2>1
  <2> QED
    BY <2>2
<1> HIDE DEF q
<1> QED
  BY <1>2, <1>3, <1>4, <1>5 DEF Understood, q

LEMMA DataOurs ==
  ASSUME NEW w
  PROVE  /\ w.struct \in OurData(w) /\ w.lines \in OurData(w)
         /\ <<Blank>> \o w.lines \in OurData(w) /\ <<Only1("text")>> \in OurData(w)
         /\ Carriers(w) \subseteq OurData(w)
BY DEF OurData, Carriers

\* PGP/Inline
LEMMA UnderstoodInline ==
  ASSUME NEW w, WellMade(w), w.inline, NEW m, InlineMail(m), m.body = w.lines
  PROVE  Understood(m, w)
<1> DEFINE x == IF w.choice.encrypt THEN "pgp" ELSE "clear"
           c == IF w.choice.encrypt THEN "IPM.Note.GpgOL.PGPMessage"
                                    ELSE "IPM.Note.GpgOL.ClearSigned"
           d == <<Blank>> \o w.lines
<1>1. m.body \in Seq(DataLine) /\ m.body # <<>> /\ m.body[1] = Only1(x)
  BY DEF WellMade
<1>2. Only1("pgp") # Only1("clear")
  <2>1. Only1("pgp").p[1] = "pgp" /\ Only1("clear").p[1] = "clear"
    BY DEF Only1, Data
  <2> QED
    BY <2>1
<1>3. Found(m, w.smime) = c
  <2>1. Found(m, w.smime) = IF m.body[1] = Only1("pgp") THEN "IPM.Note.GpgOL.PGPMessage"
                                                       ELSE "IPM.Note.GpgOL.ClearSigned"
    BY <1>1, FoundInline
  <2> QED
    BY <1>1, <1>2, <2>1
<1>4. c \in OurClasses /\ GpgOLClasses[c] = Wanted(w)
  BY ClassTypes DEF OurClasses, Wanted
<1>5. IsMessage(m) /\ m.override = "" /\ m.hasBody = TRUE /\ m.atts = <<>>
  BY DEF InlineMail, Plainest
<1>6. ~HasTemplate(m.atts)
  BY <1>5, NoneMarked
<1>7. d \in Carriers(w) /\ d \in OurData(w)
  BY DEF Carriers, OurData
<1>9. m.atts \in Seq(Attachments(OurData(w)))
  BY <1>5, NoneType
<1> HIDE DEF c
<1>8. ASSUME NEW q, SameButClass(q, m) PROVE Marking(MarkOne(q, Wanted(w)), OurData(w), d)
  <2>1. IsMessage(q) /\ q.hasBody = TRUE /\ q.atts = <<>> /\ q.body = w.lines
    BY <1>5, <1>8 DEF SameButClass
  <2>2. Wanted(w) \in {"pgp_message", "clear_signed"}
    BY WantedIs
  <2> HIDE DEF d
  <2>3. <<Blank>> \o q.body \in OurData(w) /\ <<Blank>> \o q.body = d
    BY <1>7, <2>1 DEF d
  <2> QED
    BY <2>1, <2>2, <2>3, MarkBody
<1> HIDE DEF d
<1> QED
  BY <1>3, <1>4, <1>5, <1>6, <1>7, <1>8, <1>9, UnderstoodWhen

\* The attachments of those who wrote an OpenPGP message with another program
LEMMA UnderstoodPgp ==
  ASSUME NEW w, WellMade(w), ~w.inline, w.choice.encrypt, w.choice.proto = "pgp",
         NEW m, Plainest(m), Found(m, w.smime) = "IPM.Note.GpgOL.MultipartEncrypted",
         m.atts = <<Att("unknown", "ATT00001", Encrypted, <<Only1("text")>>),
                    Att("unknown", "encfile", Octets, w.lines)>>
  PROVE  Understood(m, w)
<1> DEFINE c == "IPM.Note.GpgOL.MultipartEncrypted"
           D == OurData(w)
           a == Att("unknown", "ATT00001", Encrypted, <<Only1("text")>>)
           b == Att("unknown", "encfile", Octets, w.lines)
<1>1. c \in OurClasses /\ GpgOLClasses[c] = Wanted(w) /\ Found(m, w.smime) = c
  BY ClassTypes DEF OurClasses, Wanted
<1>2. w.lines \in Carriers(w) /\ w.lines \in D /\ <<Only1("text")>> \in D
  BY DEF Carriers, OurData
<1>3. /\ a.type = "unknown" /\ a.tag = Encrypted /\ b.type = "unknown" /\ b.tag = Octets
      /\ b.data = w.lines
  BY DEF Att
<1>4. a \in Attachments(D) /\ b \in Attachments(D)
  <2> DEFINE e == <<Only1("text")>>
  <2> HIDE DEF e, D
  <2>1. e \in D /\ w.lines \in D
    BY <1>2 DEF e
  <2>2. Att("unknown", "ATT00001", Encrypted, e) \in Attachments(D)
    BY <2>1 DEF Att, Attachments
  <2>3. b \in Attachments(D)
    BY <2>1 DEF Att, Attachments
  <2> QED
    BY <2>2, <2>3 DEF e
<1> HIDE DEF a, b, D, c
<1>5. /\ m.atts \in Seq(Attachments(D)) /\ Len(m.atts) = 2 /\ m.atts[1] = a /\ m.atts[2] = b
      /\ DOMAIN m.atts = {1, 2}
  <2>1. m.atts = <<a, b>>
    BY DEF a, b
  <2>2. <<a, b>> \in Seq(Attachments(D)) /\ Len(<<a, b>>) = 2
    BY <1>4, Short2
  <2> QED
    BY <2>1, <2>2
<1>6. IsMessage(m) /\ m.override = ""
  BY DEF Plainest
<1>7. ~HasTemplate(m.atts)
  BY <1>3, <1>5, NoMarks
<1>8. ASSUME NEW q, SameButClass(q, m) PROVE Marking(MarkOne(q, Wanted(w)), OurData(w), w.lines)
  <2>1. q.atts = m.atts
    BY <1>8 DEF SameButClass
  <2>2. Wanted(w) \in OurTypes
    BY WantedIs
  <2>3. /\ q.atts \in Seq(Attachments(D)) /\ Len(q.atts) = 2
        /\ q.atts[1].type = "unknown" /\ q.atts[2].type = "unknown"
        /\ q.atts[1].tag = Encrypted /\ q.atts[2].tag = Octets /\ q.atts[2].data = w.lines
    BY <1>3, <1>5, <2>1
  <2> QED
    BY <2>2, <2>3, MarkBoth DEF D
<1> QED
  BY <1>1, <1>2, <1>5, <1>6, <1>7, <1>8, UnderstoodWhen DEF D

\* One attachment that Outlook calls smime.p7m
LEMMA UnderstoodOne ==
  ASSUME NEW w, ~w.inline, NEW m, Plainest(m), NEW c \in OurClasses,
         Found(m, w.smime) = c, GpgOLClasses[c] = Wanted(w), NEW d \in Carriers(w),
         NEW tag \in {Signed, Pkcs7}, m.atts = <<Att("unknown", "smime.p7m", tag, d)>>
  PROVE  Understood(m, w)
<1> DEFINE D == OurData(w)
           a == Att("unknown", "smime.p7m", tag, d)
<1>1. d \in D
  BY DataOurs
<1>2. a.type = "unknown" /\ a.data = d /\ a.name = "smime.p7m"
  BY DEF Att
<1>3. a \in Attachments(D)
  <2> HIDE DEF D
  <2> QED
    BY <1>1 DEF Att, Attachments
<1> HIDE DEF a, D
<1>4. /\ m.atts \in Seq(Attachments(D)) /\ Len(m.atts) = 1 /\ m.atts[1] = a
      /\ DOMAIN m.atts = {1}
  <2>1. m.atts = <<a>>
    BY DEF a
  <2>2. <<a>> \in Seq(Attachments(D)) /\ Len(<<a>>) = 1
    BY <1>3, OneType
  <2> QED
    BY <2>1, <2>2
<1>5. IsMessage(m) /\ m.override = ""
  BY DEF Plainest
<1>6. ~HasTemplate(m.atts)
  BY <1>2, <1>4, NoMarks
<1>7. ASSUME NEW q, SameButClass(q, m) PROVE Marking(MarkOne(q, Wanted(w)), OurData(w), d)
  <2>1. q.atts = m.atts
    BY <1>7 DEF SameButClass
  <2>2. Wanted(w) \in OurTypes
    BY WantedIs
  <2>3. /\ q.atts \in Seq(Attachments(D)) /\ Len(q.atts) = 1
        /\ q.atts[1].type = "unknown" /\ q.atts[1].data = d /\ q.atts[1].name = "smime.p7m"
    BY <1>2, <1>4, <2>1
  <2> QED
    BY <2>2, <2>3, MarkSingle DEF D
<1> QED
  BY <1>4, <1>5, <1>6, <1>7, UnderstoodWhen DEF D
-----------------------------------------------------------------------------
(* What GnuPG made of the mail.                                            *)

Ready ==
  /\ mail \in Mails /\ choice \in Protections
  /\ prefs \in [smime : BOOLEAN, html : BOOLEAN, online : BOOLEAN]
  /\ choice.proto = "cms" => prefs.smime

Source == IF Inline THEN WritePlain(mail.body) ELSE AddBodyAndAttachments(mail)

Made ==
  /\ signedOver = IF choice.sign THEN Source ELSE <<>>
  /\ sealed = CASE ~choice.encrypt -> <<>>
                [] choice.encrypt /\ choice.sign /\ ~Inline ->
                     CreateSignAttach(choice.proto, Signature, Source)
                [] OTHER -> Source
  /\ output = CASE choice.encrypt -> Ciphertext
                [] ~choice.encrypt /\ Inline -> ClearSigned(mail.body)
                [] OTHER -> Signature

LEMMA ReadyTypes ==
  ASSUME Ready
  PROVE  /\ IsMail(mail) /\ choice.sign \in BOOLEAN /\ choice.encrypt \in BOOLEAN
         /\ choice.proto \in {"pgp", "cms"} /\ choice.inline \in BOOLEAN /\ choice.ex15 \in BOOLEAN
         /\ (choice.sign \/ choice.encrypt) /\ (Inline => choice.proto = "pgp" /\ choice.inline)
         /\ prefs.smime \in BOOLEAN /\ prefs.html \in BOOLEAN /\ prefs.online \in BOOLEAN
         /\ (choice.proto = "cms" => prefs.smime = TRUE /\ Inline = FALSE) /\ Inline \in BOOLEAN
         /\ mail.body \in Seq(Composed)
<1>1. IsMail(mail)
  BY MailIs DEF Ready
<1>2. /\ choice.sign \in BOOLEAN /\ choice.encrypt \in BOOLEAN
      /\ choice.proto \in {"pgp", "cms"} /\ choice.inline \in BOOLEAN /\ choice.ex15 \in BOOLEAN
      /\ (choice.sign \/ choice.encrypt) /\ (choice.inline => choice.proto = "pgp")
  BY ProtectionsAssumption DEF Ready
<1>3. prefs.smime \in BOOLEAN /\ prefs.html \in BOOLEAN /\ prefs.online \in BOOLEAN
  BY DEF Ready
<1>4. Inline => choice.inline
  BY DEF Inline
<1>5. mail.body \in Seq(Composed)
  BY <1>1 DEF IsMail
<1>6. Inline \in BOOLEAN
  BY <1>2 DEF Inline
<1>7. choice.proto = "cms" => prefs.smime = TRUE
  BY <1>3 DEF Ready
<1>8. choice.proto = "cms" => Inline = FALSE
  BY <1>2, <1>4, <1>6
<1> QED
  BY <1>1, <1>2, <1>3, <1>4, <1>5, <1>6, <1>7, <1>8

LEMMA PieceNames ==
  /\ \A x \in {"pgp", "clear", "cipher", "sig", "text"} : x \in Within(Pieces) /\ x # "dash"
  /\ Within(Composed) \subseteq Within(Pieces)
BY DEF Within, Pieces, Composed

\* The lines of what GnuPG gave
LEMMA OutputLines ==
  /\ WritePlain(<<"pgp", "nl", "cipher", "nl">>) = <<Only1("pgp"), Only1("cipher")>>
  /\ WritePlain(<<"cipher">>) = <<Only1("cipher")>>
  /\ WriteB64(<<"cipher">>) = <<Data(<<"cipher">>, "b64", FALSE)>>
  /\ SigLines("pgp", <<"sig", "nl">>) = <<Only1("sig")>>
  /\ SigLines("cms", <<"sig">>) = <<Data(<<"sig">>, "b64", FALSE)>>
<1> DEFINE p == "pgp"
           c == "cipher"
           s == "sig"
<1>1. p \in Within(Pieces) /\ c \in Within(Pieces) /\ s \in Within(Pieces)
  BY PieceNames
<1> HIDE DEF p, c, s
<1>2. WritePlain(<<p, "nl", c, "nl">>) = <<Only1(p), Only1(c)>>
  BY <1>1, ShortPlain
<1>3. WritePlain(<<c>>) = <<Only1(c)>> /\ WritePlain(<<s, "nl">>) = <<Only1(s)>>
  BY <1>1, ShortPlain
<1>4. WriteB64(<<c>>) = <<Data(<<c>>, "b64", FALSE)>> /\ WriteB64(<<s>>) = <<Data(<<s>>, "b64", FALSE)>>
  BY <1>1, ShortB64
<1>5. WritePlain(<<"pgp", "nl", "cipher", "nl">>) = <<Only1("pgp"), Only1("cipher")>>
  BY <1>2 DEF p, c
<1>6. WritePlain(<<"cipher">>) = <<Only1("cipher")>> /\ WritePlain(<<"sig", "nl">>) = <<Only1("sig")>>
  BY <1>3 DEF c, s
<1>7. WriteB64(<<"cipher">>) = <<Data(<<"cipher">>, "b64", FALSE)>>
      /\ WriteB64(<<"sig">>) = <<Data(<<"sig">>, "b64", FALSE)>>
  BY <1>4 DEF c, s
<1>8. SigLines("pgp", <<"sig", "nl">>) = WritePlain(<<"sig", "nl">>)
      /\ SigLines("cms", <<"sig">>) = WriteB64(<<"sig">>)
  BY DEF SigLines
<1> QED
  BY <1>5, <1>6, <1>7, <1>8

LEMMA LineTypes ==
  /\ \A x \in {"pgp", "clear", "cipher", "sig", "text"} :
       Only1(x) \in WireLines /\ Data(<<x>>, "b64", FALSE) \in WireLines
<1> SUFFICES ASSUME NEW x \in {"pgp", "clear", "cipher", "sig", "text"}
             PROVE  Only1(x) \in WireLines /\ Data(<<x>>, "b64", FALSE) \in WireLines
  OBVIOUS
<1>1. x \in Within(Pieces) /\ x # "dash"
  BY PieceNames
<1>2. Only1(x) \in Calm(Pieces) /\ Data(<<x>>, "b64", FALSE) \in Calm(Pieces)
  BY <1>1, Only1Is
<1> QED
  BY <1>2, WireKinds

LEMMA SigLinesType ==
  ASSUME Ready
  PROVE  SigLines(choice.proto, Signature) \in Seq(WireLines)
<1>1. Only1("sig") \in WireLines /\ Data(<<"sig">>, "b64", FALSE) \in WireLines
  BY LineTypes
<1>2. CASE choice.proto = "pgp"
  <2>1. SigLines(choice.proto, Signature) = <<Only1("sig")>>
    BY <1>2, OutputLines DEF Signature
  <2> QED
    BY <1>1, <2>1, OneType
<1>3. CASE choice.proto = "cms"
  <2>1. SigLines(choice.proto, Signature) = <<Data(<<"sig">>, "b64", FALSE)>>
    BY <1>3, OutputLines DEF Signature
  <2> QED
    BY <1>1, <2>1, OneType
<1> QED
  BY <1>2, <1>3, ReadyTypes

LEMMA PlainFirst ==
  ASSUME NEW S, NEW ls \in Seq(S), Len(ls) > 0
  PROVE  Plainly(ls)[1] = PlainLine(ls[1]) /\ Len(Plainly(ls)) = Len(ls)
BY DEF Plainly

\* A clear-signed text begins with its armor line
LEMMA ClearBegins ==
  ASSUME NEW b \in Seq(Composed)
  PROVE  /\ WritePlain(ClearSigned(b)) \in Seq(DataLine) /\ WritePlain(ClearSigned(b)) # <<>>
         /\ WritePlain(ClearSigned(b))[1] = Only1("clear")
<1> DEFINE a == <<"clear", "nl">>
           z == <<"nl", "sig", "nl">>
           c == ClearSigned(b)
           y == b \o z
           ls == SplitLines(c)
<1>1. a \in Seq(Pieces) /\ z \in Seq(Pieces) /\ b \in Seq(Pieces)
  <2>1. "clear" \in Pieces /\ "nl" \in Pieces /\ "sig" \in Pieces
    BY DEF Pieces
  <2> DEFINE cl == "clear"
             n  == "nl"
             si == "sig"
  <2>2. cl \in Pieces /\ n \in Pieces /\ si \in Pieces
    BY <2>1
  <2> HIDE DEF cl, n, si
  <2>3. <<cl, n>> \in Seq(Pieces) /\ <<n, si, n>> \in Seq(Pieces)
    BY <2>2, Short2, Short3
  <2>4. b \in Seq(Pieces)
    BY ComposedPieces, Seqs
  <2> QED
    BY <2>3, <2>4 DEF cl, n, si
<1>2. c = a \o b \o z
  BY DEF ClearSigned
<1> HIDE DEF a, z, c
<1>3. c = a \o y /\ y \in Seq(Pieces) /\ c \in Seq(Pieces)
  <2>1. (a \o b) \o z = a \o (b \o z)
    BY <1>1, ConcatThree
  <2>2. b \o z \in Seq(Pieces)
    BY <1>1, ConcatType
  <2>3. a \o (b \o z) \in Seq(Pieces)
    BY <1>1, <2>2, ConcatType
  <2> QED
    BY <1>2, <2>1, <2>2, <2>3
<1> HIDE DEF y
<1>4. Split(c).done \in Seq(Seq(Within(Pieces))) /\ Len(Split(c).done) > 0
      /\ Split(c).done[1] = <<"clear">>
  <2> DEFINE x == "clear"
  <2>1. x \in Within(Pieces)
    BY PieceNames
  <2>2. a = <<x, "nl">>
    BY DEF a
  <2> HIDE DEF x
  <2>3. LET s == Split(<<x, "nl">> \o y)
        IN s.done \in Seq(Seq(Within(Pieces))) /\ Len(s.done) > 0 /\ s.done[1] = <<x>>
    BY <1>3, <2>1, SplitFirst
  <2> QED
    BY <1>3, <2>2, <2>3 DEF x
<1>5. SplitOk(c, Pieces)
  BY <1>3, SplitRight
<1>6. ls \in Seq(Seq(Within(Pieces))) /\ Len(ls) > 0 /\ ls[1] = <<"clear">>
  <2> DEFINE dn == Split(c).done
             cu == Split(c).cur
  <2>1. cu \in Seq(Within(Pieces))
    BY <1>5 DEF SplitOk
  <2>2. ls = IF cu = <<>> THEN dn ELSE Append(dn, cu)
    BY DEF SplitLines
  <2>3. dn \in Seq(Seq(Within(Pieces))) /\ Len(dn) > 0 /\ dn[1] = <<"clear">>
    BY <1>4
  <2> HIDE DEF dn, cu, ls
  <2>4. Append(dn, cu) \in Seq(Seq(Within(Pieces))) /\ Len(Append(dn, cu)) > 0
        /\ Append(dn, cu)[1] = dn[1]
    BY <2>1, <2>3, AppendFirst
  <2> QED
    BY <2>2, <2>3, <2>4
<1>7. WritePlain(c) = Plainly(ls)
  BY WritePlainIs
<1> HIDE DEF ls
<1>8. ls \in Seq(Seq(Pieces))
  BY <1>3, LinesJoin DEF ls
<1>9. Plainly(ls) \in Seq(DataLine)
  <2> DEFINE f == FALSE
  <2>1. f \in BOOLEAN
    OBVIOUS
  <2> HIDE DEF f
  <2> QED
    BY <1>8, <2>1, PlainRead
<1>10. Plainly(ls)[1] = PlainLine(ls[1]) /\ Len(Plainly(ls)) = Len(ls)
  BY <1>6, PlainFirst
<1>11. PlainLine(ls[1]) = Only1("clear")
  BY <1>6 DEF PlainLine, Only1
<1> QED
  BY <1>6, <1>7, <1>9, <1>10, <1>11 DEF c

LEMMA WireIs ==
  /\ Wire.choice = choice /\ Wire.inline = Inline /\ Wire.smime = prefs.smime
  /\ Wire.lines = WritePlain(output) /\ Wire.struct = Structure
BY DEF Wire

\* What GnuPG returned, by the kind of protection
LEMMA Outputs ==
  ASSUME Ready, Made
  PROVE  /\ choice.encrypt /\ choice.proto = "pgp" =>
              WritePlain(output) = <<Only1("pgp"), Only1("cipher")>>
         /\ choice.encrypt /\ choice.proto = "cms" =>
              /\ WritePlain(output) = <<Only1("cipher")>>
              /\ WriteB64(output) = <<Data(<<"cipher">>, "b64", FALSE)>>
         /\ ~choice.encrypt /\ Inline => output = ClearSigned(mail.body)
         /\ ~choice.encrypt /\ ~Inline => output = Signature
<1>1. choice.encrypt /\ choice.proto = "pgp" => output = <<"pgp", "nl", "cipher", "nl">>
  BY DEF Made, Ciphertext
<1>2. choice.encrypt /\ choice.proto = "cms" => output = <<"cipher">>
  BY DEF Made, Ciphertext
<1>3. /\ ~choice.encrypt /\ Inline => output = ClearSigned(mail.body)
      /\ ~choice.encrypt /\ ~Inline => output = Signature
  BY DEF Made
<1> QED
  BY <1>1, <1>2, <1>3, OutputLines

LEMMA MadeWell ==
  ASSUME Ready, Made
  PROVE  WellMade(Wire)
<1> DEFINE w == Wire
           S == Structure
<1>1. /\ w.choice = choice /\ w.inline = Inline /\ w.smime = prefs.smime
      /\ w.lines = WritePlain(output) /\ w.struct = S
  BY WireIs
<1>2. /\ choice.proto \in {"pgp", "cms"} /\ choice.encrypt \in BOOLEAN /\ Inline \in BOOLEAN
      /\ prefs.smime \in BOOLEAN /\ (choice.proto = "cms" => prefs.smime = TRUE /\ Inline = FALSE)
      /\ (Inline => choice.proto = "pgp") /\ (choice.sign \/ choice.encrypt)
  BY ReadyTypes
<1> HIDE DEF w
<1>3. Inline => /\ w.lines \in Seq(DataLine) /\ w.lines # <<>>
                /\ w.lines[1] = Only1(IF choice.encrypt THEN "pgp" ELSE "clear")
  <2>1. CASE choice.encrypt /\ choice.proto = "pgp"
    <3>1. w.lines = <<Only1("pgp"), Only1("cipher")>>
      BY <1>1, <2>1, Outputs
    <3>2. Only1("pgp") \in DataLine /\ Only1("cipher") \in DataLine
      <4>1. Only1("pgp") \in Calm(Pieces) /\ Only1("cipher") \in Calm(Pieces)
        BY PieceNames, Only1Is
      <4> QED
        BY <4>1, CalmType
    <3> DEFINE x == Only1("pgp")
               y == Only1("cipher")
    <3> HIDE DEF x, y
    <3>3. <<x, y>> \in Seq(DataLine) /\ <<x, y>> # <<>> /\ <<x, y>>[1] = x
      <4>1. <<x, y>> \in Seq(DataLine) /\ Len(<<x, y>>) = 2 /\ <<x, y>>[1] = x
        BY <3>2, Short2 DEF x, y
      <4> QED
        BY <4>1
    <3> QED
      BY <2>1, <3>1, <3>3 DEF x, y
  <2>2. CASE ~choice.encrypt /\ Inline
    <3>1. w.lines = WritePlain(ClearSigned(mail.body))
      BY <1>1, <2>2, Outputs
    <3>2. mail.body \in Seq(Composed)
      BY ReadyTypes
    <3> QED
      BY <2>2, <3>1, <3>2, ClearBegins
  <2> QED
    BY <1>2, <2>1, <2>2
<1>4. ~Inline /\ ~choice.encrypt => Begins(S, SignHead(choice.proto))
  <2>1. ASSUME ~Inline, ~choice.encrypt PROVE Begins(S, SignHead(choice.proto))
    <3>1. signedOver = AddBodyAndAttachments(mail) /\ output = Signature
      BY <1>2, <2>1, Outputs DEF Made, Source
    <3>2. signedOver \in Seq(WireLines)
      BY <3>1, ReadyTypes, WholeLines, MailWire
    <3>3. S = CreateSignAttach(choice.proto, Signature, signedOver)
      BY <2>1, <3>1 DEF Structure
    <3> QED
      BY <1>2, <3>2, <3>3, SigLinesType, SignBegins
  <2> QED
    BY <2>1
<1>5. ~Inline /\ choice.encrypt /\ choice.proto = "pgp" => Begins(S, EncHead)
  <2>1. ASSUME choice.encrypt, choice.proto = "pgp" PROVE Begins(S, EncHead)
    <3>1. S = CreateEncryptAttach("pgp", output, choice.ex15 /\ choice.proto = "cms")
      BY <2>1 DEF Structure
    <3>2. Only1("pgp") \in WireLines /\ Only1("cipher") \in WireLines
      BY LineTypes
    <3>3. WritePlain(output) \in Seq(WireLines)
      BY <2>1, <3>2, Outputs, TwoType
    <3> DEFINE e == choice.ex15 /\ choice.proto = "cms"
    <3> HIDE DEF e
    <3>4. Begins(CreateEncryptAttach("pgp", output, e), EncHead)
      BY <3>3, PgpBegins
    <3> QED
      BY <3>1, <3>4 DEF e
  <2> QED
    BY <2>1
<1>6. ~Inline /\ choice.encrypt /\ choice.proto = "cms" => w.lines = <<Only1("cipher")>>
  BY <1>1, Outputs
<1> HIDE DEF S
<1> QED
  BY <1>1, <1>2, <1>3, <1>4, <1>5, <1>6 DEF WellMade, w
-----------------------------------------------------------------------------
(* What arrives.                                                           *)

LooksLike(m, cls, hdr, atts) ==
  Plainest(m) /\ m.cls = cls /\ m.hdr = hdr /\ m.atts = atts /\ m.hasBody = FALSE

LEMMA PlainestReceived ==
  ASSUME NEW cls, NEW hdr, NEW atts, NEW m, m = Received(cls, hdr, atts)
  PROVE  LooksLike(m, cls, hdr, atts)
BY DEF Received, NoMessage, Plainest, IsMessage, LooksLike

\* The headers
MediaIs(h, main, sub, proto, smt) ==
  h.k = "hdr" /\ h.main = main /\ h.sub = sub /\ h.proto = proto /\ h.smt = smt

LEMMA MediaHeaderIs ==
  ASSUME NEW m, NEW h, NEW main, NEW sub, NEW proto, NEW smt, MediaIs(h, main, sub, proto, smt),
         m.hdr = h
  PROVE  MediaHeader(m, main, sub, proto, smt)
BY DEF MediaIs, MediaHeader

MixedHead == [Header("multipart", "mixed") EXCEPT !.proto = "application/pgp-encrypted"]
SmimeHead == [Header("application", "pkcs7-mime") EXCEPT !.smt = "enveloped-data"]

LEMMA KnownHeaders ==
  /\ MediaIs(EncHead, "multipart", "encrypted", "application/pgp-encrypted", "")
  /\ MediaIs(MixedHead, "multipart", "mixed", "application/pgp-encrypted", "")
  /\ MediaIs(SmimeHead, "application", "pkcs7-mime", "", "enveloped-data")
  /\ MediaIs(Header("multipart", "mixed"), "multipart", "mixed", "", "")
  /\ MediaIs(Header("application", "ms-tnef"), "application", "ms-tnef", "", "")
  /\ MediaIs(Header("text", "plain"), "text", "plain", "", "")
BY DEF MediaIs, EncHead, MixedHead, SmimeHead, Header

EncryptedTwo(w) == <<Att("unknown", "ATT00001", Encrypted, <<Only1("text")>>),
                     Att("unknown", "encfile", Octets, w.lines)>>

LEMMA EncryptedTwoFirst ==
  ASSUME NEW w
  PROVE  /\ EncryptedTwo(w) # <<>> /\ EncryptedTwo(w)[1].method = "value"
         /\ EncryptedTwo(w)[1].tag = Encrypted
<1> DEFINE a == Att("unknown", "ATT00001", Encrypted, <<Only1("text")>>)
           b == Att("unknown", "encfile", Octets, w.lines)
<1>1. a.method = "value" /\ a.tag = Encrypted
  BY DEF Att
<1> HIDE DEF a, b
<1>2. <<a, b>> # <<>> /\ <<a, b>>[1] = a
  <2>1. Len(<<a, b>>) = 2
    OBVIOUS
  <2> QED
    BY <2>1
<1> QED
  BY <1>1, <1>2 DEF EncryptedTwo, a, b

\* An OpenPGP message that keeps its headers, one that was moved, one that
\* lost its protocol, and one in TNEF
LEMMA ArrivesPgp ==
  ASSUME NEW w, WellMade(w), ~w.inline, w.choice.encrypt, w.choice.proto = "pgp",
         NEW m, NEW hdr, m = Received("IPM.Note", hdr, EncryptedTwo(w)),
         \/ hdr = EncHead
         \/ hdr = MixedHead
         \/ hdr = Header("multipart", "mixed")
         \/ hdr = Header("application", "ms-tnef")
  PROVE  Understood(m, w)
<1>1. Plainest(m) /\ m.cls = "IPM.Note" /\ m.hdr = hdr /\ m.atts = EncryptedTwo(w) /\ m.hasBody = FALSE
  <2> DEFINE cl == "IPM.Note"
  <2>1. m = Received(cl, hdr, EncryptedTwo(w))
    OBVIOUS
  <2> HIDE DEF cl
  <2>2. LooksLike(m, cl, hdr, EncryptedTwo(w))
    BY <2>1, PlainestReceived
  <2> QED
    BY <2>2 DEF cl, LooksLike
<1>2. m.atts # <<>> /\ m.atts[1].method = "value" /\ m.atts[1].tag = Encrypted
  BY <1>1, EncryptedTwoFirst
<1> DEFINE s == w.smime
<1>3. Found(m, s) = "IPM.Note.GpgOL.MultipartEncrypted"
  <2> HIDE DEF s
  <2>1. CASE hdr = EncHead \/ hdr = MixedHead
    <3> DEFINE sub == hdr.sub
    <3>1. sub = "encrypted" \/ sub = "mixed"
      BY <2>1, KnownHeaders DEF MediaIs
    <3>2. MediaHeader(m, "multipart", sub, "application/pgp-encrypted", "")
      <4>1. hdr.k = "hdr" /\ hdr.main = "multipart" /\ hdr.proto = "application/pgp-encrypted" /\ hdr.smt = ""
        <5>1. CASE hdr = EncHead
          BY <5>1, KnownHeaders DEF MediaIs
        <5>2. CASE hdr = MixedHead
          BY <5>2, KnownHeaders DEF MediaIs
        <5> QED
          BY <2>1, <5>1, <5>2
      <4>2. m.hdr = hdr
        BY <1>1
      <4> QED
        BY <4>1, <4>2 DEF MediaHeader
    <3> HIDE DEF sub
    <3> QED
      BY <1>1, <3>1, <3>2, FoundEncrypted
  <2>2. CASE hdr = Header("multipart", "mixed")
    <3>1. MediaHeader(m, "multipart", "mixed", "", "")
      BY <1>1, <2>2, KnownHeaders, MediaHeaderIs
    <3> QED
      BY <1>1, <1>2, <3>1, FoundMixed
  <2>3. CASE hdr = Header("application", "ms-tnef")
    <3>1. MediaHeader(m, "application", "ms-tnef", "", "")
      BY <1>1, <2>3, KnownHeaders, MediaHeaderIs
    <3> QED
      BY <1>1, <1>2, <3>1, FoundTnef
  <2> QED
    BY <2>1, <2>2, <2>3
<1> QED
  BY <1>1, <1>3, UnderstoodPgp DEF EncryptedTwo

LEMMA ArrivesCms ==
  ASSUME NEW w, WellMade(w), ~w.inline, w.choice.encrypt, w.choice.proto = "cms",
         NEW m, m = Received("IPM.Note.SMIME", SmimeHead,
                             <<Att("unknown", "smime.p7m", Pkcs7, <<Only1("cipher")>>)>>)
  PROVE  Understood(m, w)
<1> DEFINE hdr == SmimeHead
           c == "IPM.Note.GpgOL.OpaqueEncrypted"
           s == w.smime
           d == w.lines
<1>1. Plainest(m) /\ m.cls = "IPM.Note.SMIME" /\ m.hdr = hdr
      /\ m.atts = <<Att("unknown", "smime.p7m", Pkcs7, <<Only1("cipher")>>)>>
  <2> DEFINE cl == "IPM.Note.SMIME"
             at == <<Att("unknown", "smime.p7m", Pkcs7, <<Only1("cipher")>>)>>
  <2>1. m = Received(cl, hdr, at)
    OBVIOUS
  <2> HIDE DEF cl, at, hdr
  <2>2. LooksLike(m, cl, hdr, at)
    BY <2>1, PlainestReceived
  <2> QED
    BY <2>2 DEF cl, at, LooksLike
<1>2. MediaHeader(m, "application", "pkcs7-mime", "", "enveloped-data")
  BY <1>1, KnownHeaders, MediaHeaderIs
<1>3. s = TRUE /\ d = <<Only1("cipher")>>
  BY DEF WellMade
<1>4. c \in OurClasses /\ GpgOLClasses[c] = Wanted(w)
  BY ClassTypes DEF OurClasses, Wanted
<1>5. d \in Carriers(w)
  BY DEF Carriers
<1> HIDE DEF s, hdr
<1>6. Found(m, s) = "IPM.Note.GpgOL.OpaqueEncrypted"
  BY <1>1, <1>2, <1>3, FoundCms
<1> DEFINE tag == Pkcs7
<1>7. tag \in {Signed, Pkcs7} /\ m.atts = <<Att("unknown", "smime.p7m", tag, d)>>
  BY <1>1, <1>3
<1>8. Found(m, w.smime) = c
  BY <1>6 DEF s
<1> HIDE DEF c, d, tag
<1> QED
  BY <1>1, <1>4, <1>5, <1>7, <1>8, UnderstoodOne

\* A signed message, with its headers or in TNEF
LEMMA ArrivesSigned ==
  ASSUME NEW w, WellMade(w), ~w.inline, ~w.choice.encrypt,
         NEW m, NEW cls, NEW hdr,
         m = Received(cls, hdr, <<Att("unknown", "smime.p7m", Signed, w.struct)>>),
         \/ cls = "IPM.Note.SMIME.MultipartSigned" /\ hdr = HeaderIn(w.struct)
         \/ cls = "IPM.Note" /\ hdr = Header("application", "ms-tnef") /\ w.choice.proto = "pgp"
  PROVE  Understood(m, w)
<1> DEFINE a == Att("unknown", "smime.p7m", Signed, w.struct)
           p == w.choice.proto
           s == w.smime
           d == w.struct
           h == SignHead(p)
<1>1. Plainest(m) /\ m.cls = cls /\ m.hdr = hdr /\ m.atts = <<a>> /\ m.hasBody = FALSE
  <2> DEFINE at == <<a>>
  <2>1. m = Received(cls, hdr, at)
    OBVIOUS
  <2> HIDE DEF at
  <2>2. LooksLike(m, cls, hdr, at)
    BY <2>1, PlainestReceived
  <2> QED
    BY <2>2 DEF at, LooksLike
<1>2. p \in {"pgp", "cms"} /\ Begins(d, h) /\ s \in BOOLEAN /\ (p = "cms" => s = TRUE)
  BY DEF WellMade
<1>3. a.method = "value" /\ a.tag = Signed /\ a.data = d
  BY DEF Att
<1>4. d \in Carriers(w)
  BY DEF Carriers
<1>5. h.k = "hdr" /\ h.main = "multipart" /\ h.sub = "signed" /\ h.smt = ""
      /\ h.proto = IF p = "pgp" THEN PgpSig ELSE "application/pkcs7-signature"
  BY DEF SignHead, SigningHeader, Header, PgpSig
<1>6. \E c \in {"IPM.Note.GpgOL.SM.MultipartSigned", "IPM.Note.GpgOL.MultipartSigned"} :
        Found(m, s) = c
  <2>1. CASE cls = "IPM.Note.SMIME.MultipartSigned" /\ hdr = HeaderIn(w.struct)
    <3>1. hdr = h
      <4> HIDE DEF h
      <4> QED
        BY <1>2, <1>5, <2>1 DEF HeaderIn, Begins
    <3> DEFINE o == h.proto
    <3>2. MediaHeader(m, "multipart", "signed", o, "")
      <4> HIDE DEF h
      <4> QED
        BY <1>1, <1>5, <3>1 DEF MediaHeader
    <3>3. s \/ o = PgpSig
      <4> HIDE DEF h
      <4> QED
        BY <1>2, <1>5
    <3> HIDE DEF o, s
    <3>4. Found(m, s) = IF s THEN "IPM.Note.GpgOL.SM.MultipartSigned"
                             ELSE "IPM.Note.GpgOL.MultipartSigned"
      BY <1>1, <1>2, <2>1, <3>2, <3>3, FoundSigned
    <3> QED
      BY <1>2, <3>4
  <2>2. CASE cls = "IPM.Note" /\ hdr = Header("application", "ms-tnef") /\ w.choice.proto = "pgp"
    <3>1. MediaHeader(m, "application", "ms-tnef", "", "")
      BY <1>1, <2>2, KnownHeaders, MediaHeaderIs
    <3>2. m.atts # <<>> /\ m.atts[1] = a
      <4> HIDE DEF a
      <4>1. Len(<<a>>) = 1 /\ <<a>>[1] = a
        OBVIOUS
      <4> QED
        BY <1>1, <4>1
    <3>3. m.atts[1].method = "value" /\ m.atts[1].tag = Signed
          /\ Begins(m.atts[1].data, SignHead("pgp"))
      BY <1>2, <1>3, <2>2, <3>2
    <3> HIDE DEF s
    <3>4. Found(m, s) = "IPM.Note.GpgOL.MultipartSigned"
      BY <1>1, <2>2, <3>1, <3>2, <3>3, FoundTnefSigned
    <3> QED
      BY <3>4
  <2> QED
    BY <2>1, <2>2
<1>7. PICK c \in {"IPM.Note.GpgOL.SM.MultipartSigned", "IPM.Note.GpgOL.MultipartSigned"} :
        Found(m, w.smime) = c
  BY <1>6
<1>8. c \in OurClasses /\ GpgOLClasses[c] = Wanted(w)
  BY ClassTypes DEF OurClasses, Wanted
<1> DEFINE tag == Signed
<1>9. tag \in {Signed, Pkcs7} /\ m.atts = <<Att("unknown", "smime.p7m", tag, d)>>
  BY <1>1
<1> HIDE DEF d, tag
<1> QED
  BY <1>1, <1>4, <1>7, <1>8, <1>9, UnderstoodOne
-----------------------------------------------------------------------------
(* A message is opened.                                                    *)

InModel(q, p)  == [p EXCEPT !.cls = q.cls, !.old = q.old]
Marks(q, p, w) == MarkOrCreate(q, InModel(q, p), Wanted(w))

LEMMA InModelIs ==
  ASSUME NEW q, NEW p, IsMessage(p)
  PROVE  /\ IsMessage(InModel(q, p)) /\ InModel(q, p).override = p.override
         /\ InModel(q, p).atts = p.atts
BY DEF InModel, IsMessage

LEMMA WithAtts ==
  ASSUME NEW p, IsMessage(p), NEW a
  PROVE  LET q == [p EXCEPT !.atts = a]
         IN IsMessage(q) /\ q.override = p.override /\ q.atts = a /\ q.cls = p.cls
BY DEF IsMessage

LEMMA TemplateWhen ==
  ASSUME NEW m, NEW w, IsMessage(m), w.inline = FALSE,
         m.override = OverrideClass(w.choice.proto, w.choice.encrypt),
         Copy(m.atts, OurData(w), w.struct)
  PROVE  Template(m, w)
BY DEF Template

LEMMA OverrideIs ==
  ASSUME NEW w, WellMade(w), w.inline = FALSE
  PROVE  LET o == OverrideClass(w.choice.proto, w.choice.encrypt)
         IN o \in OurClasses /\ GpgOLClasses[o] = Wanted(w)
<1> DEFINE o == OverrideClass(w.choice.proto, w.choice.encrypt)
<1>1. w.choice.proto \in {"pgp", "cms"} /\ w.choice.encrypt \in BOOLEAN
  BY DEF WellMade
<1>2. CASE w.choice.encrypt = FALSE
  <2>1. o = "IPM.Note.GpgOL.MultipartSigned"
    BY <1>2 DEF OverrideClass
  <2>2. Wanted(w) = "multipart_signed"
    BY <1>2 DEF Wanted
  <2> QED
    BY <2>1, <2>2, ClassTypes DEF OurClasses
<1>3. CASE w.choice.encrypt = TRUE /\ w.choice.proto = "cms"
  <2>1. o = "IPM.Note.GpgOL.OpaqueEncrypted"
    BY <1>3 DEF OverrideClass
  <2>2. Wanted(w) = "opaque_encrypted"
    BY <1>3 DEF Wanted
  <2> QED
    BY <2>1, <2>2, ClassTypes DEF OurClasses
<1>4. CASE w.choice.encrypt = TRUE /\ w.choice.proto = "pgp"
  <2>1. o = "IPM.Note.GpgOL.MultipartEncrypted"
    BY <1>4 DEF OverrideClass
  <2>2. Wanted(w) = "multipart_encrypted"
    BY <1>4 DEF Wanted
  <2> QED
    BY <2>1, <2>2, ClassTypes DEF OurClasses
<1> QED
  BY <1>1, <1>2, <1>3, <1>4

\* One that we wrote: it is read from our attachment
LEMMA OpenedTemplate ==
  ASSUME NEW w, WellMade(w), NEW b, NEW p, Template(b, w), Template(p, w)
  PROVE  LET c == Changed(b, w.smime)
             r == Marks(c.msg, p, w)
         IN /\ c.type = Wanted(w) /\ HasTemplate(c.msg.atts)
            /\ Template([c.msg EXCEPT !.atts = r.base], w)
            /\ Template([InModel(c.msg, p) EXCEPT !.atts = r.parsed], w)
            /\ AllHidden(r.parsed) /\ r.pos \in 1..Len(r.parsed)
            /\ r.parsed[r.pos].data \in Carriers(w)
<1> DEFINE c == Changed(b, w.smime)
           q == c.msg
           x == InModel(q, p)
           r == Marks(q, p, w)
           D == OurData(w)
           d == w.struct
           s == w.smime
           o == OverrideClass(w.choice.proto, w.choice.encrypt)
<1>1. /\ IsMessage(b) /\ b.override = o /\ Copy(b.atts, D, d) /\ w.inline = FALSE
      /\ IsMessage(p) /\ p.override = o /\ Copy(p.atts, D, d)
  BY DEF Template
<1>2. o \in OurClasses /\ GpgOLClasses[o] = Wanted(w)
  BY <1>1, OverrideIs
<1> HIDE DEF o, s
<1>3. c.type = Wanted(w) /\ SameButClass(q, b)
  <2>1. b.override \in OurClasses /\ GpgOLClasses[b.override] = Wanted(w)
    BY <1>1, <1>2
  <2>2. LET u == Changed(b, s)
        IN u.type = GpgOLClasses[b.override] /\ SameButClass(u.msg, b)
    BY <1>1, <2>1, ClassOfSent
  <2> QED
    BY <2>1, <2>2 DEF s
<1> HIDE DEF c, q
<1>4. IsMessage(q) /\ q.override = o /\ Copy(q.atts, D, d)
  BY <1>1, <1>3 DEF SameButClass
<1>5. IsMessage(x) /\ x.override = o /\ Copy(x.atts, D, d)
  BY <1>1, InModelIs
<1> HIDE DEF x, D, d
<1>6. /\ r.base = q.atts
      /\ Copy(r.parsed, D, d) /\ AllHidden(r.parsed) /\ Len(r.parsed) = Len(x.atts)
      /\ r.pos \in 1..Len(r.parsed) /\ r.parsed[r.pos].data = d
  <2>1. r = MarkOrCreate(q, x, Wanted(w))
    BY DEF Marks, x
  <2>2. Wanted(w) \notin {"unknown", "gpgol"}
    BY WantedIs
  <2> HIDE DEF r
  <2> DEFINE ty == Wanted(w)
  <2> HIDE DEF ty
  <2>3. ty \notin {"unknown", "gpgol"} /\ r = MarkOrCreate(q, x, ty)
    BY <2>1, <2>2 DEF ty
  <2>4. Copy(q.atts, D, d) /\ IsMessage(x) /\ Copy(x.atts, D, d)
    BY <1>4, <1>5
  <2>5. ty \notin {"unknown", "gpgol"}
    BY <2>3
  <2>6. FoundOurs(MarkOrCreate(q, x, ty), q, x, D, d)
    BY ONLY <2>4, <2>5, TemplateFound
  <2> QED
    BY <2>3, <2>6 DEF FoundOurs
<1>7. HasTemplate(q.atts)
  BY <1>4, CopyMarks
<1> HIDE DEF r
<1>8. Template([q EXCEPT !.atts = r.base], w)
  <2> DEFINE u == [q EXCEPT !.atts = r.base]
  <2>1. IsMessage(u) /\ u.override = q.override /\ u.atts = r.base
    BY <1>4, WithAtts
  <2> HIDE DEF u
  <2>2. IsMessage(u) /\ w.inline = FALSE /\ u.override = o /\ Copy(u.atts, D, d)
    BY <1>1, <1>4, <1>6, <2>1
  <2>3. Template(u, w)
    BY <2>2, TemplateWhen DEF o, D, d
  <2> QED
    BY <2>3 DEF u
<1>9. Template([x EXCEPT !.atts = r.parsed], w)
  <2> DEFINE u == [x EXCEPT !.atts = r.parsed]
  <2>1. IsMessage(u) /\ u.override = x.override /\ u.atts = r.parsed
    BY <1>5, WithAtts
  <2> HIDE DEF u
  <2>2. IsMessage(u) /\ w.inline = FALSE /\ u.override = o /\ Copy(u.atts, D, d)
    BY <1>1, <1>5, <1>6, <2>1
  <2>3. Template(u, w)
    BY <2>2, TemplateWhen DEF o, D, d
  <2> QED
    BY <2>3 DEF u
<1>10. d \in Carriers(w)
  BY <1>1 DEF Carriers, d
<1> QED
  BY <1>3, <1>6, <1>7, <1>8, <1>9, <1>10 DEF c, q, x, r

\* Another one: what carries the data is marked
LEMMA OpenedOther ==
  ASSUME NEW w, WellMade(w), NEW b, NEW p, Understood(b, w), IsMessage(p)
  PROVE  LET c == Changed(b, w.smime)
             r == Marks(c.msg, p, w)
         IN /\ c.type = Wanted(w) /\ ~HasTemplate(c.msg.atts)
            /\ Understood([c.msg EXCEPT !.atts = r.base], w)
            /\ AllHidden(r.base) /\ r.pos \in 1..Len(r.base)
            /\ r.base[r.pos].data \in Carriers(w)
<1> DEFINE c == Changed(b, w.smime)
           q == c.msg
           x == InModel(q, p)
           r == Marks(q, p, w)
           D == OurData(w)
           ty == Wanted(w)
<1>1. /\ c.type = ty /\ SameButClass(q, b) /\ b.override = "" /\ ~HasTemplate(b.atts)
      /\ q.cls \in OurClasses /\ GpgOLClasses[q.cls] = ty
      /\ \E d \in Carriers(w) : Marking(MarkOne(q, ty), D, d)
  BY DEF Understood
<1> HIDE DEF c, q, D, ty
<1>2. PICK d \in Carriers(w) : Marking(MarkOne(q, ty), D, d)
  BY <1>1
<1>3. IsMessage(q) /\ q.override = "" /\ ~HasTemplate(q.atts)
  BY <1>1 DEF SameButClass
<1> HIDE DEF x
<1>4. r = MarkOrCreate(q, x, ty)
  BY DEF Marks, x, ty
<1> HIDE DEF r
<1>5. r.base = MarkOne(q, ty).atts /\ r.pos = MarkOne(q, ty).pos
  BY <1>3, <1>4, MarkedOther
<1>6. Kept(r.base, D, d) /\ r.pos \in 1..Len(r.base) /\ r.base[r.pos].data = d
  BY <1>2, <1>5 DEF Marking
<1> DEFINE u == [q EXCEPT !.atts = r.base]
<1>7. IsMessage(u) /\ u.override = q.override /\ u.atts = r.base /\ u.cls = q.cls
  BY <1>3, WithAtts
<1> HIDE DEF u
<1>8. /\ IsMessage(u) /\ u.override = "" /\ u.cls \in OurClasses /\ GpgOLClasses[u.cls] = Wanted(w)
      /\ Kept(u.atts, OurData(w), d)
  BY <1>1, <1>3, <1>6, <1>7 DEF ty, D
<1>9. Understood(u, w)
  BY <1>8, UnderstoodKept
<1>10. AllHidden(r.base)
  BY <1>6 DEF Kept
<1> QED
  BY <1>1, <1>2, <1>3, <1>6, <1>9, <1>10 DEF c, q, r, u, ty
-----------------------------------------------------------------------------
(* A mail is sent and arrives.                                             *)

Sent(m, w) ==
  IF w.inline THEN InlineMail(m) /\ m.body = w.lines
  ELSE Template(m, w) /\ Len(m.atts) = 1 /\ m.hasBody = FALSE

\* base: what is in the store, parsed: what Outlook shows, delivered: what came
Openable(b, p, d, w) ==
  \/ Template(b, w) /\ Template(p, w) /\ Template(d, w)
  \/ /\ Understood(b, w) /\ Understood(d, w) /\ IsMessage(p) /\ IsMessage(d)
     /\ p.atts = b.atts

\* The message that is sent holds what was made of the mail, and nothing else
Replaced(u, lines, proto, encrypt, ex15) ==
  LET tag == IF proto = "cms" /\ encrypt /\ ex15 THEN Pkcs7 ELSE Signed
  IN /\ IsMessage(u) /\ u.override = OverrideClass(proto, encrypt) /\ u.hasBody = FALSE
     /\ u.atts = <<Att("mosstempl", "GpgOL_MIME_structure.txt", tag, lines)>>

LEMMA UpdateLeaves ==
  ASSUME NEW S, NEW m, IsMessage(m), m.atts \in Seq(S), NEW lines, NEW proto, NEW encrypt,
         NEW ex15, NEW deletable \in Nat,
         \A i \in DOMAIN m.atts : m.atts[i].type # "mosstempl",
         UpdateMailMapi(m, lines, proto, encrypt, ex15, deletable).ok
  PROVE  Replaced(UpdateMailMapi(m, lines, proto, encrypt, ex15, deletable).msg, lines, proto,
                  encrypt, ex15)
<1> DEFINE r     == UpdateMailMapi(m, lines, proto, encrypt, ex15, deletable)
           table == m.atts
           tag   == IF proto = "cms" /\ encrypt /\ ex15 THEN Pkcs7 ELSE Signed
           ours  == Att("mosstempl", "GpgOL_MIME_structure.txt", tag, lines)
           done  == DeleteAllAttachments(table, deletable)
           u     == [m EXCEPT !.cls = SendClass(proto, encrypt, ex15),
                              !.override = OverrideClass(proto, encrypt),
                              !.hasBody = FALSE, !.body = <<>>, !.atts = Append(done.left, ours)]
<1>1. r = [ok |-> done.ok, msg |-> u]
  BY DEF UpdateMailMapi
<1>2. r.ok
  OBVIOUS
<1> HIDE DEF r
<1>3. r.msg = u /\ done.ok
  <2> HIDE DEF u, done
  <2> QED
    BY <1>1, <1>2
<1>4. done.left = <<>>
  <2> DEFINE k == SubSeq(table, deletable + 1, Len(table))
             o == \A i \in DOMAIN table : ~IsOurTemplate(table[i]) => i <= deletable
  <2>1. done = [ok |-> o, left |-> k]
    BY DEF DeleteAllAttachments
  <2>2. o /\ done.left = k
    <3> HIDE DEF k, o
    <3> HIDE DEF done
    <3> QED
      BY <1>3, <2>1
  <2>3. \A i \in DOMAIN table : i <= deletable
    BY <2>2 DEF IsOurTemplate
  <2>4. Len(table) \in Nat /\ DOMAIN table = 1..Len(table)
    OBVIOUS
  <2>5. Len(table) < deletable + 1
    BY <2>3, <2>4
  <2>6. k = <<>>
    BY <2>4, <2>5
  <2> QED
    BY <2>2, <2>6
<1> HIDE DEF done, ours
<1>5. IsMessage(u) /\ u.override = OverrideClass(proto, encrypt) /\ u.hasBody = FALSE
      /\ u.atts = Append(done.left, ours)
  BY DEF IsMessage
<1>6. Append(<<>>, ours) = <<ours>>
  OBVIOUS
<1> HIDE DEF u
<1>7. u.atts = <<ours>>
  BY <1>4, <1>5, <1>6
<1> QED
  BY <1>3, <1>5, <1>7 DEF r, ours, Replaced

LEMMA ComposedIs ==
  LET m == ComposedMessage
  IN /\ Plainest(m) /\ m.cls = "IPM.Note" /\ m.hasBody = TRUE /\ m.hdr = NoHeader
     /\ m.atts = [i \in DOMAIN mail.atts |->
                   [Att(mail.atts[i].type, mail.atts[i].name, Octets, WriteB64(mail.atts[i].data))
                      EXCEPT !.method = mail.atts[i].method]]
BY DEF ComposedMessage, NoMessage, Plainest, IsMessage

\* A single attachment of ours
LEMMA CopyOne ==
  ASSUME NEW D, NEW d \in D, NEW tag \in {Signed, Pkcs7}
  PROVE  Copy(<<Att("mosstempl", "GpgOL_MIME_structure.txt", tag, d)>>, D, d)
<1> DEFINE a == Att("mosstempl", "GpgOL_MIME_structure.txt", tag, d)
<1>1. a \in Attachments(D) /\ a.type = "mosstempl" /\ a.data = d
  BY DEF Att, Attachments
<1> HIDE DEF a
<1>2. <<a>> \in Seq(Attachments(D)) /\ Len(<<a>>) = 1 /\ <<a>>[1] = a
  BY <1>1
<1> QED
  BY <1>1, <1>2 DEF Copy, a

LEMMA SomeSeq ==
  ASSUME NEW n \in Nat, NEW a, a = [i \in 1..n |-> a[i]]
  PROVE  a \in Seq({ a[i] : i \in 1..n })
<1> DEFINE T == { a[i] : i \in 1..n }
<1>1. \A i \in 1..n : a[i] \in T
  OBVIOUS
<1> HIDE DEF T
<1>2. a \in [1..n -> T]
  BY <1>1
<1> QED
  BY <1>2 DEF T

LEMMA UpdateSent ==
  ASSUME Ready, NEW n \in Nat,
         LET r == UpdateMailMapi(ComposedMessage, Structure, choice.proto, choice.encrypt,
                                 choice.ex15, n)
         IN IF Inline THEN delivered' = [ComposedMessage EXCEPT !.body = WritePlain(output)]
            ELSE r.ok /\ delivered' = r.msg
  PROVE  Sent(delivered', Wire)
<1> DEFINE m == ComposedMessage
           w == Wire
           r == UpdateMailMapi(m, Structure, choice.proto, choice.encrypt, choice.ex15, n)
           tag == IF choice.proto = "cms" /\ choice.encrypt /\ choice.ex15 THEN Pkcs7 ELSE Signed
<1>1. w.inline = Inline /\ w.lines = WritePlain(output) /\ w.struct = Structure /\ w.choice = choice
  BY WireIs
<1>2. Inline \in BOOLEAN /\ IsMail(mail)
  BY ReadyTypes
<1>3. CASE Inline = TRUE
  <2>1. delivered' = [m EXCEPT !.body = WritePlain(output)]
    BY <1>3
  <2>2. mail.atts = <<>>
    BY <1>2, <1>3, AllUsable DEF Inline
  <2>3. /\ Plainest(m) /\ m.cls = "IPM.Note" /\ m.hasBody = TRUE /\ m.hdr = NoHeader /\ m.atts = <<>>
    <3>1. DOMAIN mail.atts = {}
      BY <2>2
    <3>2. [i \in DOMAIN mail.atts |->
             [Att(mail.atts[i].type, mail.atts[i].name, Octets, WriteB64(mail.atts[i].data))
                EXCEPT !.method = mail.atts[i].method]] = <<>>
      BY <3>1
    <3> HIDE DEF m
    <3> QED
      BY <3>2, ComposedIs DEF m
  <2> HIDE DEF m
  <2> DEFINE l == WritePlain(output)
             d == [m EXCEPT !.body = l]
  <2>4. d.body = l /\ InlineMail(d)
    <3> HIDE DEF l
    <3> QED
      BY <2>3 DEF InlineMail, Plainest, IsMessage
  <2> HIDE DEF d, w
  <2>5. InlineMail(delivered') /\ (delivered').body = w.lines
    BY <1>1, <2>1, <2>4 DEF d
  <2> QED
    BY <1>1, <1>3, <2>5 DEF Sent, w
<1>4. CASE Inline = FALSE
  <2> DEFINE s == Structure
             p == choice.proto
             e == choice.encrypt
             x == choice.ex15
  <2>1. r.ok /\ delivered' = r.msg
    BY <1>4
  <2>2. IsMessage(m)
    BY ComposedIs DEF Plainest
  <2> HIDE DEF m, s, p, e, x
  <2>0. (\E S : m.atts \in Seq(S)) /\ \A i \in DOMAIN m.atts : m.atts[i].type # "mosstempl"
    <3> DEFINE a == [i \in DOMAIN mail.atts |->
                      [Att(mail.atts[i].type, mail.atts[i].name, Octets, WriteB64(mail.atts[i].data))
                         EXCEPT !.method = mail.atts[i].method]]
    <3>0. \A i \in DOMAIN a : a[i].type # "mosstempl"
      <4>1. mail.atts \in Seq(UserAtts)
        BY <1>2, AllUsable
      <4>2. \A i \in DOMAIN mail.atts : mail.atts[i].type = "unknown"
        <5> SUFFICES ASSUME NEW i \in DOMAIN mail.atts PROVE mail.atts[i].type = "unknown"
          OBVIOUS
        <5>1. mail.atts[i] \in UserAtts
          BY <4>1
        <5> QED
          BY <5>1 DEF UserAtts
      <4> QED
        BY <4>2 DEF Att
    <3>1. mail.atts \in Seq(UserAtts) /\ m.atts = a
      BY <1>2, AllUsable, ComposedIs DEF m
    <3>2. a = [i \in 1..Len(mail.atts) |-> a[i]] /\ Len(mail.atts) \in Nat
      BY <3>1
    <3> HIDE DEF a
    <3>3. a \in Seq({ a[i] : i \in 1..Len(mail.atts) })
      BY <3>2, SomeSeq
    <3> QED
      BY <3>0, <3>1, <3>3
  <2>3. Replaced(UpdateMailMapi(m, s, p, e, x, n).msg, s, p, e, x)
    <3>1. UpdateMailMapi(m, s, p, e, x, n).ok
      BY <2>1 DEF s, p, e, x
    <3> QED
      BY ONLY n \in Nat, <2>0, <2>2, <3>1, UpdateLeaves
  <2> HIDE DEF r
  <2> DEFINE d == r.msg
             t == IF p = "cms" /\ e /\ x THEN Pkcs7 ELSE Signed
  <2>4. /\ IsMessage(d) /\ d.override = OverrideClass(p, e) /\ d.hasBody = FALSE
        /\ d.atts = <<Att("mosstempl", "GpgOL_MIME_structure.txt", t, s)>>
    BY <2>3 DEF r, s, p, e, x, Replaced
  <2>5. t \in {Signed, Pkcs7}
    OBVIOUS
  <2> HIDE DEF d, t, w
  <2>6. s \in OurData(w) /\ s = w.struct /\ w.inline = FALSE /\ p = w.choice.proto /\ e = w.choice.encrypt
    BY <1>1, <1>4, DataOurs DEF s, p, e
  <2>7. Copy(d.atts, OurData(w), w.struct)
    <3> DEFINE D == OurData(w)
    <3> HIDE DEF D
    <3>1. Copy(<<Att("mosstempl", "GpgOL_MIME_structure.txt", t, s)>>, D, s)
      BY <2>5, <2>6, CopyOne DEF D
    <3> QED
      BY <2>4, <2>6, <3>1 DEF D
  <2>8. Template(d, w)
    BY <2>4, <2>6, <2>7, TemplateWhen
  <2>9. Len(d.atts) = 1
    BY <2>4
  <2> QED
    BY <2>1, <2>4, <2>6, <2>8, <2>9 DEF Sent, w, d
<1> QED
  BY <1>2, <1>3, <1>4

\* The attachments of an OpenPGP message in front of ours
LEMMA CopyMore ==
  ASSUME NEW w, NEW p, Copy(p, OurData(w), w.struct)
  PROVE  Copy(EncryptedTwo(w) \o p, OurData(w), w.struct)
<1> DEFINE D == OurData(w)
           a == Att("unknown", "ATT00001", Encrypted, <<Only1("text")>>)
           b == Att("unknown", "encfile", Octets, w.lines)
           e == EncryptedTwo(w)
           q == e \o p
<1>1. a \in Attachments(D) /\ b \in Attachments(D) /\ a.type = "unknown" /\ b.type = "unknown"
  <2> DEFINE t == <<Only1("text")>>
  <2>1. t \in D /\ w.lines \in D
    BY DataOurs
  <2> HIDE DEF t, D
  <2>2. Att("unknown", "ATT00001", Encrypted, t) \in Attachments(D)
    BY <2>1 DEF Att, Attachments
  <2>3. b \in Attachments(D)
    BY <2>1 DEF Att, Attachments
  <2>4. a.type = "unknown" /\ b.type = "unknown"
    BY DEF Att
  <2> QED
    BY <2>2, <2>3, <2>4 DEF t
<1>2. e = <<a, b>>
  BY DEF EncryptedTwo
<1> HIDE DEF a, b, e, D
<1>3. e \in Seq(Attachments(D)) /\ Len(e) = 2 /\ e[1].type = "unknown" /\ e[2].type = "unknown"
  BY <1>1, <1>2, Short2
<1>4. /\ p \in Seq(Attachments(D)) /\ Len(p) \in Nat /\ Len(p) > 0
      /\ p[Len(p)].type = "mosstempl" /\ p[Len(p)].data = w.struct
      /\ \A i \in 1..(Len(p) - 1) : p[i].type = "unknown"
  BY DEF Copy, D
<1>5. q \in Seq(Attachments(D)) /\ Len(q) = Len(p) + 2
      /\ \A i \in 1..Len(q) : q[i] = IF i \in 1..2 THEN e[i] ELSE p[i - 2]
  <2>1. /\ e \o p \in Seq(Attachments(D)) /\ Len(e \o p) = Len(e) + Len(p)
        /\ \A i \in 1..Len(e \o p) : (e \o p)[i] = IF i <= Len(e) THEN e[i] ELSE p[i - Len(e)]
    BY <1>3, <1>4, ConcatAt
  <2> HIDE DEF q
  <2>2. /\ q \in Seq(Attachments(D)) /\ Len(q) = 2 + Len(p)
        /\ \A i \in 1..Len(q) : q[i] = IF i <= 2 THEN e[i] ELSE p[i - 2]
    BY <1>3, <2>1 DEF q
  <2>3. Len(q) = Len(p) + 2 /\ \A i \in 1..Len(q) : i \in 1..2 <=> i <= 2
    BY <1>4, <2>2
  <2> QED
    BY <2>2, <2>3
<1> HIDE DEF q
<1>6. q[Len(q)] = p[Len(p)] /\ Len(q) > 0
  <2>1. Len(q) \in 1..Len(q) /\ ~(Len(q) \in 1..2) /\ Len(q) - 2 = Len(p)
    BY <1>4, <1>5
  <2> QED
    BY <1>5, <2>1
<1>7. ASSUME NEW i \in 1..(Len(q) - 1) PROVE q[i].type = "unknown"
  <2>1. CASE i \in 1..2
    BY <1>3, <1>5, <2>1
  <2>2. CASE ~(i \in 1..2)
    <3>1. i - 2 \in 1..(Len(p) - 1) /\ i \in 1..Len(q)
      BY <1>4, <1>5, <2>2
    <3> QED
      BY <1>4, <1>5, <2>2, <3>1
  <2> QED
    BY <2>1, <2>2
<1> QED
  BY <1>4, <1>5, <1>6, <1>7 DEF Copy, q, e, D

LEMMA MoreTemplate ==
  ASSUME NEW w, NEW m, Template(m, w)
  PROVE  Template([m EXCEPT !.atts = EncryptedTwo(w) \o @], w)
<1> DEFINE e == EncryptedTwo(w) \o m.atts
           u == [m EXCEPT !.atts = e]
<1>1. IsMessage(m) /\ w.inline = FALSE /\ m.override = OverrideClass(w.choice.proto, w.choice.encrypt)
      /\ Copy(m.atts, OurData(w), w.struct)
  BY DEF Template
<1>2. Copy(e, OurData(w), w.struct)
  BY <1>1, CopyMore
<1> HIDE DEF e
<1>3. IsMessage(u) /\ u.override = m.override /\ u.atts = e
  BY <1>1, WithAtts
<1> HIDE DEF u
<1>4. Template(u, w)
  BY <1>1, <1>2, <1>3, TemplateWhen
<1>5. u = [m EXCEPT !.atts = EncryptedTwo(w) \o @]
  BY DEF u, e
<1> QED
  BY <1>4, <1>5

LEMMA PartsAre ==
  EncryptedParts = EncryptedTwo(Wire)
BY WireIs DEF EncryptedParts, EncryptedTwo, Only1

LEMMA OneMessage ==
  ASSUME NEW w, NEW m, Understood(m, w), IsMessage(m)
  PROVE  Openable(m, m, m, w)
BY DEF Openable

LEMMA ReceivedIsMessage ==
  ASSUME NEW m, NEW cls, NEW hdr, NEW atts, m = Received(cls, hdr, atts)
  PROVE  IsMessage(m)
BY DEF Received, NoMessage, IsMessage

\* Inline mails, as they are or with the header of a text
LEMMA InlineArrives ==
  ASSUME NEW w, WellMade(w), w.inline = TRUE, NEW m, InlineMail(m), m.body = w.lines
  PROVE  Openable(m, m, m, w)
<1>1. Understood(m, w)
  BY UnderstoodInline
<1>2. IsMessage(m)
  BY DEF InlineMail, Plainest
<1> QED
  BY <1>1, <1>2, OneMessage

LEMMA WithHeader ==
  ASSUME NEW m, InlineMail(m)
  PROVE  LET u == [m EXCEPT !.hdr = Header("text", "plain")]
         IN InlineMail(u) /\ u.body = m.body
<1> DEFINE h == Header("text", "plain")
           u == [m EXCEPT !.hdr = h]
<1>1. MediaIs(h, "text", "plain", "", "")
  BY KnownHeaders
<1> HIDE DEF h
<1>2. u.hdr = h /\ u.body = m.body /\ Plainest(u) /\ u.cls = "IPM.Note" /\ u.hasBody = TRUE
      /\ u.atts = <<>>
  BY DEF InlineMail, Plainest, IsMessage
<1> HIDE DEF u
<1>3. MediaHeader(u, "text", "plain", "", "")
  BY <1>1, <1>2, MediaHeaderIs
<1>4. InlineMail(u)
  BY <1>2, <1>3 DEF InlineMail
<1> QED
  BY <1>2, <1>4 DEF u, h

LEMMA HeadOf ==
  ASSUME NEW s, NEW h, Begins(s, h), h.k = "hdr"
  PROVE  HeaderIn(s) = h
BY DEF HeaderIn, Begins

\* What arrives when the mail travels in MIME
LEMMA MimeOpens ==
  ASSUME Ready, Made, Sent(delivered, Wire)
  PROVE  Openable(AsMime, AsMime, AsMime, Wire)
<1> DEFINE w == Wire
           a == AsMime
<1>1. w.inline = Inline /\ w.struct = Structure /\ w.choice = choice /\ WellMade(w)
  BY WireIs, MadeWell
<1>2. Inline \in BOOLEAN /\ choice.encrypt \in BOOLEAN /\ choice.proto \in {"pgp", "cms"}
  BY ReadyTypes
<1>3. CASE Inline
  <2>1. a = [delivered EXCEPT !.hdr = Header("text", "plain")]
    BY <1>3 DEF AsMime
  <2>2. InlineMail(delivered) /\ delivered.body = w.lines
    BY <1>1, <1>3 DEF Sent
  <2> HIDE DEF a, w
  <2>3. InlineMail(a) /\ a.body = w.lines
    BY <2>1, <2>2, WithHeader
  <2> QED
    BY <1>1, <1>2, <1>3, <2>3, InlineArrives DEF a, w
<1>4. CASE ~Inline /\ choice.encrypt /\ choice.proto = "pgp"
  <2>1. a = Received("IPM.Note", HeaderIn(Structure), EncryptedTwo(w))
    BY <1>4, PartsAre DEF AsMime, IsPgpEncrypted
  <2>2. HeaderIn(Structure) = EncHead
    <3>1. Begins(Structure, EncHead)
      BY <1>1, <1>4 DEF WellMade
    <3>2. EncHead.k = "hdr"
      BY KnownHeaders DEF MediaIs
    <3> QED
      BY <3>1, <3>2, HeadOf
  <2> DEFINE hd == EncHead
  <2> HIDE DEF a, w, hd
  <2>3. a = Received("IPM.Note", hd, EncryptedTwo(w)) /\ hd = EncHead
    BY <2>1, <2>2 DEF hd
  <2>4. ~w.inline /\ w.choice.encrypt /\ w.choice.proto = "pgp"
    BY <1>1, <1>4
  <2>5. Understood(a, w)
    BY <1>1, <2>3, <2>4, ArrivesPgp
  <2>6. IsMessage(a)
    BY <2>3, ReceivedIsMessage
  <2> QED
    BY <2>5, <2>6, OneMessage DEF a, w
<1>5. CASE ~Inline /\ choice.encrypt /\ choice.proto = "cms"
  <2>1. a = Received("IPM.Note.SMIME", SmimeHead,
                     <<Att("unknown", "smime.p7m", Pkcs7, <<Only1("cipher")>>)>>)
    BY <1>5 DEF AsMime, IsPgpEncrypted, SmimeHead, Only1
  <2> HIDE DEF a, w
  <2>4. ~w.inline /\ w.choice.encrypt /\ w.choice.proto = "cms"
    BY <1>1, <1>5
  <2>5. Understood(a, w)
    BY <1>1, <2>1, <2>4, ArrivesCms
  <2>6. IsMessage(a)
    BY <2>1, ReceivedIsMessage
  <2> QED
    BY <2>5, <2>6, OneMessage DEF a, w
<1>6. CASE ~Inline /\ ~choice.encrypt
  <2> DEFINE cl == "IPM.Note.SMIME.MultipartSigned"
  <2>1. a = Received(cl, HeaderIn(Structure), <<Att("unknown", "smime.p7m", Signed, Structure)>>)
    BY <1>6 DEF AsMime, IsPgpEncrypted
  <2> HIDE DEF a, w
  <2> DEFINE hd == HeaderIn(w.struct)
  <2>2. a = Received(cl, hd, <<Att("unknown", "smime.p7m", Signed, w.struct)>>)
    BY <1>1, <2>1
  <2>3. cl = "IPM.Note.SMIME.MultipartSigned" /\ hd = HeaderIn(w.struct)
    OBVIOUS
  <2>4. ~w.inline /\ ~w.choice.encrypt
    BY <1>1, <1>6
  <2> HIDE DEF cl, hd
  <2>5. Understood(a, w)
    BY <1>1, <2>2, <2>3, <2>4, ArrivesSigned
  <2>6. IsMessage(a)
    BY <2>2, ReceivedIsMessage
  <2> QED
    BY <2>5, <2>6, OneMessage DEF a, w
<1> QED
  BY <1>2, <1>3, <1>4, <1>5, <1>6

\* What arrives as an OpenPGP message with another header
LEMMA OtherOpens ==
  ASSUME NEW w, WellMade(w), ~w.inline, w.choice.encrypt, w.choice.proto = "pgp", NEW hd,
         hd = MixedHead \/ hd = Header("multipart", "mixed") \/ hd = Header("application", "ms-tnef"),
         NEW a, a = Received("IPM.Note", hd, EncryptedTwo(w))
  PROVE  Openable(a, a, a, w)
<1>1. Understood(a, w)
  BY ArrivesPgp
<1>2. IsMessage(a)
  <2> DEFINE cl == "IPM.Note"
  <2>1. a = Received(cl, hd, EncryptedTwo(w))
    OBVIOUS
  <2> HIDE DEF cl
  <2> QED
    BY <2>1, ReceivedIsMessage
<1> QED
  BY <1>1, <1>2, OneMessage

\* However the mail travels, it can be opened
LEMMA TransportOpens ==
  ASSUME Ready, Made, Sent(delivered, Wire), NEW kind \in Kinds, NEW extra \in BOOLEAN,
         Possible(kind, extra)
  PROVE  Openable(Arrives(kind), Reparsed(Arrives(kind), kind, extra), Arrives(kind), Wire)
<1> DEFINE w == Wire
           a == Arrives(kind)
<1>1. w.inline = Inline /\ w.struct = Structure /\ w.choice = choice /\ WellMade(w)
  BY WireIs, MadeWell
<1>2. Inline \in BOOLEAN /\ choice.encrypt \in BOOLEAN /\ choice.proto \in {"pgp", "cms"}
  BY ReadyTypes
<1>3. kind \in {"sent", "mime", "moved", "nobody", "tnef"}
  BY KindsAssumption
<1>4. CASE kind = "sent"
  <2>1. a = delivered
    BY <1>4 DEF Arrives
  <2>2. CASE Inline
    <3>1. ~extra
      BY <2>2 DEF Possible
    <3>2. Reparsed(a, kind, extra) = a
      BY <3>1 DEF Reparsed
    <3>3. InlineMail(delivered) /\ delivered.body = w.lines
      BY <1>1, <2>2 DEF Sent
    <3> HIDE DEF a, w
    <3>4. Openable(a, a, a, w)
      BY <1>1, <1>2, <2>1, <2>2, <3>3, InlineArrives
    <3> QED
      BY <3>2, <3>4 DEF a, w
  <2>3. CASE ~Inline
    <3>1. Template(a, w)
      BY <1>1, <2>1, <2>3 DEF Sent
    <3>2. Reparsed(a, kind, extra) = IF extra THEN [a EXCEPT !.atts = EncryptedTwo(w) \o @] ELSE a
      BY <1>4, PartsAre DEF Reparsed
    <3> HIDE DEF a, w
    <3>3. Template([a EXCEPT !.atts = EncryptedTwo(w) \o @], w)
      BY <3>1, MoreTemplate
    <3>4. Template(Reparsed(a, kind, extra), w)
      BY <3>1, <3>2, <3>3
    <3> QED
      BY <3>1, <3>4 DEF Openable, a, w
  <2> QED
    BY <2>2, <2>3
<1>5. ASSUME kind # "sent" PROVE Reparsed(a, kind, extra) = a
  BY <1>5 DEF Reparsed
<1>6. CASE kind = "mime"
  <2>1. a = AsMime
    BY <1>6 DEF Arrives
  <2>2. Openable(AsMime, AsMime, AsMime, w)
    BY MimeOpens
  <2> HIDE DEF a, w
  <2> QED
    BY <1>5, <1>6, <2>1, <2>2 DEF a, w
<1>7. CASE kind \in {"moved", "nobody"} \/ (kind = "tnef" /\ choice.encrypt)
  <2>1. ~w.inline /\ w.choice.encrypt /\ w.choice.proto = "pgp"
    <3>1. ~Inline /\ choice.encrypt /\ choice.proto = "pgp"
      BY <1>7 DEF Possible, IsPgpEncrypted
    <3> QED
      BY <1>1, <3>1
  <2>2. PICK hd \in {MixedHead, Header("multipart", "mixed"), Header("application", "ms-tnef")} :
          a = Received("IPM.Note", hd, EncryptedTwo(w))
    <3>1. CASE kind = "moved"
      BY <3>1, PartsAre DEF Arrives, MixedHead
    <3>2. CASE kind = "nobody"
      BY <3>2, PartsAre DEF Arrives
    <3>3. CASE kind = "tnef" /\ choice.encrypt
      BY <3>3, PartsAre DEF Arrives
    <3> QED
      BY <1>7, <3>1, <3>2, <3>3
  <2> HIDE DEF a, w
  <2>3. Openable(a, a, a, w)
    BY <1>1, <2>1, <2>2, OtherOpens
  <2> QED
    BY <1>5, <1>7, <2>3 DEF a, w
<1>8. CASE kind = "tnef" /\ ~choice.encrypt
  <2> DEFINE cl == "IPM.Note"
             hd == Header("application", "ms-tnef")
  <2>1. a = Received(cl, hd, <<Att("unknown", "smime.p7m", Signed, w.struct)>>)
    BY <1>1, <1>8 DEF Arrives
  <2>2. ~w.inline /\ ~w.choice.encrypt /\ w.choice.proto = "pgp"
    <3>1. ~Inline /\ choice.proto = "pgp"
      BY <1>8 DEF Possible
    <3> QED
      BY <1>1, <1>8, <3>1
  <2>3. cl = "IPM.Note" /\ hd = Header("application", "ms-tnef")
    OBVIOUS
  <2> HIDE DEF a, w, cl, hd
  <2>4. Understood(a, w)
    BY <1>1, <2>1, <2>2, <2>3, ArrivesSigned
  <2>5. IsMessage(a)
    BY <2>1, ReceivedIsMessage
  <2>6. Openable(a, a, a, w)
    BY <2>4, <2>5, OneMessage
  <2> QED
    BY <1>5, <1>8, <2>6 DEF a, w
<1> QED
  BY <1>2, <1>3, <1>4, <1>6, <1>7, <1>8
-----------------------------------------------------------------------------
(* Every mail that is opened is one that was made as above.                *)

Late      == {"read", "parse", "write", "verify", "copy", "finish", "update_mail", "shown"}
Protected == {"update", "transport", "open"} \cup Late

MadeRight == pc \in Protected => Made

Opened ==
  /\ Openable(base, parsed, delivered, Wire)
  /\ type = Wanted(Wire) /\ moss \in 1..Len(parsed.atts) /\ AllHidden(parsed.atts)
  /\ parsed.atts[moss].data \in Carriers(Wire)

Handled ==
  /\ Ready
  /\ pc = "protect" => stream = Source
  /\ MadeRight
  /\ pc = "transport" => Sent(delivered, Wire) /\ base = delivered
  /\ pc = "open" => Openable(base, parsed, delivered, Wire)
  /\ pc \in Late => Opened

LEMMA WireKept ==
  ASSUME UNCHANGED <<mail, choice, prefs, output, signedOver>>
  PROVE  Wire' = Wire
BY DEF Wire, Inline, Structure

LEMMA ReadyKept ==
  ASSUME Ready, UNCHANGED <<mail, choice, prefs>>
  PROVE  Ready'
BY DEF Ready

LEMMA MadeKept ==
  ASSUME Made, UNCHANGED written
  PROVE  Made'
BY DEF Made, written, Source, Inline, Signature, Ciphertext

LEMMA OpenedKept ==
  ASSUME Opened, UNCHANGED <<written, stored>>
  PROVE  Opened'
<1>1. Wire' = Wire
  BY WireKept DEF written
<1>2. UNCHANGED <<base, parsed, delivered, type, moss>>
  BY DEF stored
<1> QED
  BY <1>1, <1>2 DEF Opened

\* Reading, decrypting, verifying and showing leave the messages alone
LEMMA LateStep ==
  ASSUME Handled, pc \in Late, pc' \in Late, UNCHANGED <<written, stored>>
  PROVE  Handled'
<1>1. pc' \notin {"protect", "transport", "open"} /\ pc \in Protected
  BY DEF Late, Protected
<1>2. Ready' /\ Made' /\ Opened'
  BY <1>1, ReadyKept, MadeKept, OpenedKept DEF Handled, MadeRight, written
<1> QED
  BY <1>1, <1>2 DEF Handled, MadeRight

LEMMA PreprocessOpens ==
  ASSUME Handled, Preprocess
  PROVE  Handled' /\ pc' = "read" /\ stream' = (parsed').atts[moss'].data
<1> DEFINE w == Wire
           c == Changed(base, w.smime)
           r == Marks(c.msg, parsed, w)
           x == InModel(c.msg, parsed)
<1>1. pc = "open" /\ Ready /\ Made /\ UNCHANGED <<written, delivered>>
      /\ Openable(base, parsed, delivered, w)
  BY DEF Handled, Preprocess, MadeRight, Protected
<1>2. w' = w /\ w.smime = prefs.smime /\ WellMade(w)
  BY <1>1, WireKept, WireIs, MadeWell DEF written
<1>3. c.type = Wanted(w)
  <2> HIDE DEF w, c
  <2>1. CASE Template(base, w) /\ Template(parsed, w) /\ Template(delivered, w)
    BY <1>2, <2>1, OpenedTemplate DEF c
  <2>2. CASE Understood(base, w) /\ Understood(delivered, w) /\ IsMessage(parsed)
    BY <1>2, <2>2, OpenedOther DEF c
  <2> QED
    BY <1>1, <2>1, <2>2 DEF Openable
<1>4. /\ base' = [c.msg EXCEPT !.atts = r.base]
      /\ parsed' = [x EXCEPT !.atts = IF HasTemplate(c.msg.atts) THEN r.parsed ELSE r.base]
      /\ moss' = r.pos
      /\ type' = IF c.type = "unknown" \/ r.pos = 0 THEN "unknown" ELSE c.type
  <2>1. c = ChangeClass(base, prefs.smime, TRUE)
    BY <1>2 DEF Changed
  <2>2. x = [parsed EXCEPT !.cls = c.msg.cls, !.old = c.msg.old]
    BY DEF InModel
  <2>3. r = MarkOrCreate(c.msg, x, c.type)
    BY <1>3 DEF Marks
  <2> HIDE DEF c, x, r, w
  <2> QED
    BY <2>1, <2>2, <2>3 DEF Preprocess
<1>5. /\ pc' = IF type' \in {"unknown", "gpgol", "smime"} THEN "shown" ELSE "read"
      /\ stream' = IF pc' = "read" THEN (parsed').atts[moss'].data ELSE <<>>
  BY DEF Preprocess
<1>6. Openable(base', parsed', delivered', w) /\ moss' \in 1..Len((parsed').atts)
      /\ AllHidden((parsed').atts) /\ (parsed').atts[moss'].data \in Carriers(w)
  <2> DEFINE a == IF HasTemplate(c.msg.atts) THEN r.parsed ELSE r.base
             y == [x EXCEPT !.atts = a]
             z == [c.msg EXCEPT !.atts = r.base]
  <2>1. delivered' = delivered /\ parsed' = y /\ base' = z /\ moss' = r.pos
    BY <1>1, <1>4
  <2>2. CASE Template(base, w) /\ Template(parsed, w) /\ Template(delivered, w)
    <3> HIDE DEF w
    <3>1. /\ HasTemplate(c.msg.atts) /\ Template(z, w) /\ Template([x EXCEPT !.atts = r.parsed], w)
          /\ AllHidden(r.parsed) /\ r.pos \in 1..Len(r.parsed)
          /\ r.parsed[r.pos].data \in Carriers(w)
      BY <1>2, <2>2, OpenedTemplate
    <3> HIDE DEF c, r, z
    <3>2. a = r.parsed
      BY <3>1
    <3>3. y.atts = r.parsed /\ Template(y, w)
      <4>1. IsMessage(x)
        BY <2>2, InModelIs DEF Template
      <4> HIDE DEF x
      <4> QED
        BY <3>1, <3>2, <4>1, WithAtts
    <3> HIDE DEF x, a, y
    <3> QED
      BY <2>1, <2>2, <3>1, <3>3 DEF Openable
  <2>3. CASE Understood(base, w) /\ Understood(delivered, w) /\ IsMessage(parsed)
             /\ IsMessage(delivered)
    <3> HIDE DEF w
    <3>1. /\ ~HasTemplate(c.msg.atts) /\ Understood(z, w) /\ AllHidden(r.base)
          /\ r.pos \in 1..Len(r.base) /\ r.base[r.pos].data \in Carriers(w)
      BY <1>2, <2>3, OpenedOther
    <3>2. IsMessage(c.msg)
      BY <2>3 DEF Understood, SameButClass
    <3>3. IsMessage(x)
      BY <2>3, InModelIs
    <3> HIDE DEF c, r, x
    <3>4. a = r.base
      BY <3>1
    <3>5. y.atts = r.base /\ IsMessage(y) /\ z.atts = r.base
      BY <3>2, <3>3, <3>4, WithAtts
    <3> HIDE DEF a, y, z
    <3> QED
      BY <2>1, <2>3, <3>1, <3>5 DEF Openable
  <2> HIDE DEF c, r, x, w
  <2> QED
    BY <1>1, <2>2, <2>3 DEF Openable
<1>7. type' = Wanted(w)
  <2>1. r.pos # 0
    <3> HIDE DEF w, c, r
    <3> QED
      BY <1>4, <1>6
  <2> HIDE DEF w, c, r
  <2> QED
    BY <1>3, <1>4, <2>1, WantedIs
<1>8. pc' = "read"
  BY <1>5, <1>7, WantedIs
<1>9. Ready' /\ Made'
  BY <1>1, ReadyKept, MadeKept DEF written
<1> HIDE DEF w
<1>10. Opened'
  <2>1. (Wire)' = w
    BY <1>2 DEF w
  <2> QED
    BY <1>6, <1>7, <2>1 DEF Opened
<1>11. Handled'
  BY <1>8, <1>9, <1>10 DEF Handled, MadeRight, Late
<1> QED
  BY <1>5, <1>8, <1>11

LEMMA UnderstoodAtts ==
  ASSUME NEW m, NEW w, Understood(m, w)
  PROVE  Len(m.atts) \in Nat
<1>1. m.atts \in Seq(Attachments(OurData(w)))
  BY DEF Understood
<1> QED
  BY <1>1

LEMMA HandledInit == ASSUME Init PROVE Handled
<1>1. Ready
  <2>1. mail \in Mails /\ choice \in Protections
    BY DEF Init
  <2>2. prefs \in [smime : BOOLEAN, html : BOOLEAN, online : BOOLEAN]
    BY DEF Init
  <2>3. choice.proto = "cms" => prefs.smime
    BY DEF Init
  <2> QED
    BY <2>1, <2>2, <2>3 DEF Ready
<1>2. pc = "collect"
  BY DEF Init
<1> QED
  BY <1>1, <1>2 DEF Handled, MadeRight, Protected, Late

LEMMA HandledStep == ASSUME Handled, [Next]_vars PROVE Handled'
<1>0. Ready
  BY DEF Handled
<1>1. ASSUME NEW yes \in BOOLEAN, CollectData(yes) PROVE Handled'
  <2>1. UNCHANGED written /\ (pc' = "refused" \/ pc' = "protect")
        /\ stream' = IF Inline THEN WritePlain(mail.body) ELSE AddBodyAndAttachments(mail)
    BY <1>1 DEF CollectData
  <2>2. UNCHANGED <<mail, choice, prefs>>
    BY <2>1 DEF written
  <2>3. stream' = Source'
    BY <2>1, <2>2 DEF Source, Inline
  <2>4. Ready'
    BY <1>0, <2>2, ReadyKept
  <2> QED
    BY <2>1, <2>3, <2>4 DEF Handled, MadeRight, Protected, Late
<1>2. CASE DoCrypto
  <2>1. pc = "protect" /\ pc' = "update" /\ UNCHANGED <<mail, choice, prefs>>
    BY <1>2 DEF DoCrypto
  <2>2. stream = Source
    BY <2>1 DEF Handled
  <2>3. /\ signedOver' = IF choice.sign THEN Source ELSE <<>>
        /\ sealed' = CASE ~choice.encrypt -> <<>>
                       [] choice.encrypt /\ choice.sign /\ ~Inline ->
                            CreateSignAttach(choice.proto, Signature, Source)
                       [] OTHER -> Source
        /\ output' = CASE choice.encrypt -> Ciphertext
                       [] ~choice.encrypt /\ Inline -> ClearSigned(mail.body)
                       [] OTHER -> Signature
    BY <1>2, <2>2 DEF DoCrypto
  <2>4. Source' = Source /\ Inline' = Inline /\ Signature' = Signature /\ Ciphertext' = Ciphertext
    BY <2>1 DEF Source, Inline, Signature, Ciphertext
  <2>5. Made'
    BY <2>1, <2>3, <2>4 DEF Made
  <2>6. Ready'
    BY <1>0, <2>1, ReadyKept
  <2> QED
    BY <2>1, <2>5, <2>6 DEF Handled, MadeRight, Late
<1>3. ASSUME NEW n \in {0, Len(mail.atts)}, Update(n) PROVE Handled'
  <2> DEFINE r == UpdateMailMapi(ComposedMessage, Structure, choice.proto, choice.encrypt,
                                 choice.ex15, n)
  <2>1. pc = "update" /\ UNCHANGED written /\ base' = delivered'
        /\ pc' \in {"transport", "failed"}
    BY <1>3 DEF Update
  <2>2. Ready' /\ Made'
    BY <1>0, <2>1, ReadyKept, MadeKept DEF Handled, MadeRight, Protected, written
  <2>3. ASSUME pc' = "transport" PROVE Sent(delivered', Wire)
    <3>1. n \in Nat
      BY <1>0, ReadyTypes, AllUsable
    <3>2. IF Inline THEN delivered' = [ComposedMessage EXCEPT !.body = WritePlain(output)]
          ELSE r.ok /\ delivered' = r.msg
      <4>1. IF Inline THEN delivered' = [ComposedMessage EXCEPT !.body = WritePlain(output)]
            ELSE pc' = (IF r.ok THEN "transport" ELSE "failed") /\ delivered' = r.msg
        BY <1>3 DEF Update
      <4> HIDE DEF r
      <4> QED
        BY <2>3, <4>1
    <3> QED
      BY <1>0, <3>1, <3>2, UpdateSent
  <2>4. Wire' = Wire
    BY <2>1, WireKept DEF written
  <2> QED
    BY <2>1, <2>2, <2>3, <2>4 DEF Handled, MadeRight, Late
<1>4. ASSUME NEW kind \in Kinds, NEW extra \in BOOLEAN, Transport(kind, extra) PROVE Handled'
  <2>1. /\ pc = "transport" /\ pc' = "open" /\ Possible(kind, extra) /\ UNCHANGED written
        /\ delivered' = Arrives(kind) /\ base' = delivered'
        /\ parsed' = Reparsed(delivered', kind, extra)
    BY <1>4 DEF Transport
  <2>2. Made /\ Sent(delivered, Wire)
    BY <2>1 DEF Handled, MadeRight, Protected
  <2>3. Openable(Arrives(kind), Reparsed(Arrives(kind), kind, extra), Arrives(kind), Wire)
    BY <1>0, <2>1, <2>2, TransportOpens
  <2>4. Wire' = Wire
    BY <2>1, WireKept DEF written
  <2>5. parsed' = Reparsed(Arrives(kind), kind, extra)
    <3>1. EncryptedParts' = EncryptedParts
      BY <2>1 DEF EncryptedParts, written
    <3> QED
      BY <2>1
  <2>6. Openable(base', parsed', delivered', Wire')
    BY <2>1, <2>3, <2>4, <2>5
  <2>7. Ready' /\ Made'
    BY <1>0, <2>1, <2>2, ReadyKept, MadeKept DEF written
  <2> QED
    BY <2>1, <2>6, <2>7 DEF Handled, MadeRight, Late
<1>5. CASE Preprocess
  BY <1>5, PreprocessOpens
<1>6. ASSUME NEW n \in ReadSizes, ReadInput(n) PROVE Handled'
  <2>1. pc \in Late /\ pc' \in Late /\ UNCHANGED <<written, stored>>
    BY <1>6 DEF ReadInput, Late
  <2> QED
    BY <2>1, LateStep
<1>7. CASE InputRead
  <2>1. pc \in Late /\ pc' \in Late /\ UNCHANGED <<written, stored>>
    BY <1>7 DEF InputRead, Late
  <2> QED
    BY <2>1, LateStep
<1>8. CASE StartParse
  <2>1. pc \in Late /\ pc' \in Late /\ UNCHANGED <<written, stored>>
    <3>1. pc = "parse" /\ UNCHANGED <<written, stored>>
      BY <1>8 DEF StartParse
    <3>2. pc' = "write" \/ pc' = "verify"
      BY <1>8 DEF StartParse
    <3> QED
      BY <3>1, <3>2 DEF Late
  <2> QED
    BY <2>1, LateStep
<1>9. ASSUME NEW n \in WriteSizes, WriteOutput(n) PROVE Handled'
  <2>1. pc \in Late /\ pc' \in Late /\ UNCHANGED <<written, stored>>
    BY <1>9 DEF WriteOutput, Late
  <2> QED
    BY <2>1, LateStep
<1>10. CASE Decrypted
  <2>1. pc \in Late /\ pc' \in Late /\ UNCHANGED <<written, stored>>
    <3>1. pc = "write" /\ UNCHANGED <<written, stored>>
      BY <1>10 DEF Decrypted
    <3>2. pc' = "verify" \/ pc' = "finish"
      BY <1>10 DEF Decrypted
    <3> QED
      BY <3>1, <3>2 DEF Late
  <2> QED
    BY <2>1, LateStep
<1>11. CASE Verify
  <2>1. pc \in Late /\ pc' \in Late /\ UNCHANGED <<written, stored>>
    BY <1>11 DEF Verify, Late
  <2> QED
    BY <2>1, LateStep
<1>12. CASE Copied
  <2>1. pc \in Late /\ pc' \in Late /\ UNCHANGED <<written, stored>>
    BY <1>12 DEF Copied, Late
  <2> QED
    BY <2>1, LateStep
<1>13. ASSUME NEW green \in BOOLEAN, Finish(green) PROVE Handled'
  <2>1. pc \in Late /\ pc' \in Late /\ UNCHANGED <<written, stored>>
    <3>1. pc = "finish" /\ UNCHANGED <<written, stored>>
      BY <1>13 DEF Finish
    <3>2. pc' = "parse" \/ pc' = "update_mail"
      BY <1>13 DEF Finish
    <3> QED
      BY <3>1, <3>2 DEF Late
  <2> QED
    BY <2>1, LateStep
<1>14. CASE UpdateMail
  <2>1. pc \in Late /\ pc' \in Late /\ UNCHANGED <<written, stored>>
    BY <1>14 DEF UpdateMail, Late
  <2> QED
    BY <2>1, LateStep
<1>15. ASSUME NEW saved \in BOOLEAN, Reopen(saved) PROVE Handled'
  <2> DEFINE w == Wire
  <2>1. pc = "shown" /\ pc' = "open" /\ UNCHANGED <<written, delivered>>
    BY <1>15 DEF Reopen
  <2>2. Openable(base, parsed, delivered, w) /\ Made
    BY <2>1 DEF Handled, MadeRight, Protected, Late, Opened
  <2>3. Wire' = w
    BY <2>1, WireKept DEF written
  <2>4. Openable(base', parsed', delivered, w)
    <3>1. CASE saved
      BY <1>15, <2>2, <3>1 DEF Reopen
    <3>2. CASE ~saved
      <4>1. /\ base' = delivered
            /\ parsed' = IF Len(parsed.atts) > Len(base.atts) THEN Reparsed(delivered, "sent", TRUE)
                         ELSE delivered
        BY <1>15, <3>2 DEF Reopen
      <4>2. Reparsed(delivered, "sent", TRUE) = [delivered EXCEPT !.atts = EncryptedTwo(w) \o @]
        BY PartsAre DEF Reparsed
      <4> HIDE DEF w
      <4>3. CASE Template(delivered, w)
        <5>1. Template(Reparsed(delivered, "sent", TRUE), w)
          BY <4>2, <4>3, MoreTemplate
        <5>2. Template(parsed', w) /\ Template(base', w)
          BY <4>1, <4>3, <5>1
        <5> QED
          BY <4>3, <5>2 DEF Openable
      <4>4. CASE Understood(delivered, w) /\ IsMessage(delivered) /\ parsed.atts = base.atts
                 /\ Understood(base, w)
        <5>1. Len(base.atts) \in Nat
          BY <4>4, UnderstoodAtts
        <5>2. parsed' = delivered
          <6>1. ~(Len(parsed.atts) > Len(base.atts))
            <7>1. parsed.atts = base.atts
              BY <4>4
            <7> DEFINE a == base.atts
            <7> HIDE DEF a
            <7>2. ~(Len(a) > Len(a))
              BY <5>1 DEF a
            <7> QED
              BY <7>1, <7>2 DEF a
          <6> QED
            BY <4>1, <6>1
        <5> QED
          BY <4>1, <4>4, <5>2, OneMessage
      <4> QED
        BY <2>2, <4>3, <4>4 DEF Openable
    <3> QED
      BY <3>1, <3>2
  <2>5. Ready' /\ Made'
    BY <1>0, <2>1, <2>2, ReadyKept, MadeKept DEF written
  <2> HIDE DEF w
  <2> QED
    BY <2>1, <2>3, <2>4, <2>5 DEF Handled, MadeRight, Late
<1>16. CASE UNCHANGED vars
  <2>1. UNCHANGED <<pc, written, stored, stream>>
    BY <1>16 DEF vars, flow
  <2>2. UNCHANGED <<mail, choice, prefs, output, signedOver>> /\ UNCHANGED <<base, parsed, delivered>>
    BY <2>1 DEF written, stored
  <2>3. Ready' /\ Wire' = Wire /\ (Made => Made') /\ (Opened => Opened')
    BY <1>0, <2>1, <2>2, ReadyKept, WireKept, MadeKept, OpenedKept
  <2>4. Source' = Source
    BY <2>2 DEF Source, Inline
  <2> QED
    BY <2>1, <2>2, <2>3, <2>4 DEF Handled, MadeRight
<1> QED
  BY <1>1, <1>2, <1>3, <1>4, <1>5, <1>6, <1>7, <1>8, <1>9, <1>10, <1>11, <1>12, <1>13, <1>14,
     <1>15, <1>16 DEF Next

\* Every mail is made as it was asked for, found by its class and read from an
\* attachment that carries all of it.
LEMMA AlwaysHandled == Spec => []Handled
<1>1. Init => Handled
  BY HandledInit
<1>2. Handled /\ [Next]_vars => Handled'
  BY HandledStep
<1> QED
  BY <1>1, <1>2, PTL DEF Spec

\* The attachments of an open mail that carry the protected data are hidden,
\* however the mail came and however often it was opened.
THEOREM OnlyOriginals == Spec => []OnlyOriginalsVisible
<1>1. Handled => OnlyOriginalsVisible
  <2> SUFFICES ASSUME Handled PROVE OnlyOriginalsVisible
    OBVIOUS
  <2>1. ASSUME pc = "shown" PROVE \A i \in DOMAIN parsed.atts : parsed.atts[i].hidden
    BY <2>1 DEF Handled, Opened, Late, AllHidden
  <2>2. ASSUME pc = "transport", ~Inline PROVE Len(base.atts) = 1 /\ ~base.hasBody
    <3>1. Sent(delivered, Wire) /\ base = delivered /\ ~Wire.inline
      BY <2>2, WireIs DEF Handled
    <3>2. Len(delivered.atts) = 1 /\ delivered.hasBody = FALSE
      BY <3>1 DEF Sent
    <3> QED
      BY <3>1, <3>2
  <2> QED
    BY <2>1, <2>2 DEF OnlyOriginalsVisible, Shown
<1> QED
  BY <1>1, AlwaysHandled, PTL
-----------------------------------------------------------------------------
(* What a line never does to a provider.                                   *)

\* What the line parser leaves to those who collect the lines
Collected == {"everything", "sig", "data", "open", "body", "html", "checked"}
Parsed    == Fields \ Collected


LEMMA ByTypeParsed ==
  ASSUME NEW r, IsProvider(r), NEW h
  PROVE  Same(ByType(r, h), r, Parsed)
<1>1. Same(Multipart(r, h), r, Parsed)
  BY DEF Multipart, Same, IsProvider, Parsed, Collected, Fields
<1>2. Same(r, r, Parsed) /\ Same([r EXCEPT !.phVersion = h.ph], r, Parsed)
      /\ Same([r EXCEPT !.csig = 1], r, Parsed) /\ Same([r EXCEPT !.crypto = TRUE], r, Parsed)
  BY DEF Same, IsProvider, Parsed, Collected, Fields
<1> QED
  BY <1>1, <1>2 DEF ByType

LEMMA CreateParsed ==
  ASSUME NEW r, IsProvider(r)
  PROVE  Same(CreateAttachment(r), r, Parsed)
BY DEF CreateAttachment, Same, IsProvider, Parsed, Collected, Fields

LEMMA StartsParsed ==
  ASSUME NEW r, IsProvider(r)
  PROVE  Same(StartsBody(r), r, Parsed)
<1>1. Same(CreateAttachment(r), r, Parsed) /\ Same(r, r, Parsed)
  BY CreateParsed, SameRefl
<1>2. /\ Same([r EXCEPT !.bodySeen = TRUE, !.chtml = 1, !.cbody = 0], r, Parsed)
      /\ Same([r EXCEPT !.bodySeen = TRUE, !.cbody = 1, !.chtml = 0], r, Parsed)
  BY DEF Same, IsProvider, Parsed, Collected, Fields
<1> QED
  BY <1>1, <1>2 DEF StartsBody

LEMMA T2Parsed ==
  ASSUME NEW r, IsProvider(r)
  PROVE  Same(T2Body(r), r, Parsed)
<1> DEFINE h  == Field(r)
           r1 == [Encodings(r) EXCEPT !.struct = Append(@, MediaType(h))]
           r2 == ByType(r1, h)
           r3 == [r2 EXCEPT !.inData = TRUE, !.inPh = (MediaType(h)[1] = "text" /\ h.ph # 0)]
<1>1. Same(r1, r, Parsed)
  BY DEF Encodings, Same, IsProvider, Parsed, Collected, Fields
<1>2. Same(r2, r1, Parsed)
  BY <1>1, ByTypeParsed DEF Same
<1>3. Same(r3, r2, Parsed)
  <2> HIDE DEF r2, h
  <2> QED
    BY <1>2 DEF Same, IsProvider, Parsed, Collected, Fields
<1>4. Same(StartsBody(r3), r3, Parsed)
  <2> HIDE DEF r3
  <2> QED
    BY <1>3, StartsParsed DEF Same
<1>5. T2Body(r) = StartsBody(r3)
  BY DEF T2Body
<1> HIDE DEF r1, r2, r3
<1> QED
  BY <1>1, <1>2, <1>3, <1>4, <1>5 DEF Same

LEMMA HashingParsed ==
  ASSUME NEW r, IsProvider(r)
  PROVE  Same(StartHashing(r), r, Parsed)
BY DEF StartHashing, Same, IsProvider, Parsed, Collected, Fields

LEMMA BodyParsed ==
  ASSUME NEW r, IsProvider(r)
  PROVE  Same(TransitionToBody(r), r, Parsed)
<1> DEFINE a  == [r EXCEPT !.inBody = TRUE]
           b  == StartHashing(a)
           r1 == T2Body(b)
           h  == Field(r1)
           n  == Len(r1.path)
           q  == [r1 EXCEPT !.path = Append([@ EXCEPT ![n].bnd = h.bnd], NewPart),
                            !.bnd = h.bnd, !.nest = @ + 1, !.preamble = TRUE]
<1>1. Same(a, r, Parsed)
  BY DEF Same, IsProvider, Parsed, Collected, Fields
<1>2. Same(b, a, Parsed)
  BY <1>1, HashingParsed DEF Same
<1>3. Same(r1, b, Parsed)
  <2> HIDE DEF b
  <2> QED
    BY <1>2, T2Parsed DEF Same
<1>4. Same(q, r1, Parsed)
  <2> HIDE DEF r1, h, n
  <2> QED
    BY <1>3 DEF Same, IsProvider, Parsed, Collected, Fields
<1>5. TransitionToBody(r) = q \/ TransitionToBody(r) = r1
  BY DEF TransitionToBody
<1> HIDE DEF a, b, r1, q
<1> QED
  BY <1>1, <1>2, <1>3, <1>4, <1>5 DEF Same


LEMMA ParentParsed ==
  ASSUME NEW b, NEW r, Same(b, r, Parsed)
  PROVE  Same(ToParent(b), r, Parsed)
<1> DEFINE n == Len(b.path)
           s == SubSeq(b.path, 1, n - 1)
           t == IF n > 2 THEN b.path[n - 2].bnd ELSE ""
<1>1. \/ ToParent(b) = [b EXCEPT !.bnd = ""]
      \/ ToParent(b) = [b EXCEPT !.path = s, !.bnd = t]
  BY DEF ToParent
<1> HIDE DEF n, s, t
<1>2. Same([b EXCEPT !.path = s, !.bnd = t], r, Parsed) /\ Same([b EXCEPT !.bnd = ""], r, Parsed)
  BY DEF Same, IsProvider, Parsed, Collected, Fields
<1> QED
  BY <1>1, <1>2

LEMMA HeaderParsed ==
  ASSUME NEW b, NEW r, Same(b, r, Parsed)
  PROVE  Same(TransitionToHeader(b), r, Parsed)
<1> DEFINE n == Len(b.path)
           s == [b.path EXCEPT ![n] = NewPart]
<1>1. \/ TransitionToHeader(b) = [b EXCEPT !.preamble = FALSE]
      \/ TransitionToHeader(b) = [b EXCEPT !.path = s]
  BY DEF TransitionToHeader
<1> HIDE DEF n, s
<1>2. Same([b EXCEPT !.path = s], r, Parsed) /\ Same([b EXCEPT !.preamble = FALSE], r, Parsed)
  BY DEF Same, IsProvider, Parsed, Collected, Fields
<1> QED
  BY <1>1, <1>2

LEMMA InsertParsed ==
  ASSUME NEW r, IsProvider(r), NEW ln
  PROVE  Same(Insert(r, ln), r, Parsed)
<1>1. Same(InsertHeader(r, ln), r, Parsed)
  <2> DEFINE r1 == IF Field(r) = NoHeader THEN StartHashing(r) ELSE r
             q  == [r1 EXCEPT !.path[Len(r1.path)].h = IF ln.k = "hdr" THEN ln ELSE Header("", "")]
  <2>1. Same(r1, r, Parsed)
    BY HashingParsed, SameRefl
  <2>2. Same(q, r1, Parsed)
    <3> HIDE DEF r1
    <3> QED
      BY <2>1 DEF Same, IsProvider, Parsed, Collected, Fields
  <2>3. InsertHeader(r, ln) = IF IsBlank(ln) THEN TransitionToBody(r) ELSE q
    BY DEF InsertHeader
  <2>4. Same(TransitionToBody(r), r, Parsed)
    BY BodyParsed
  <2> HIDE DEF r1, q
  <2> QED
    BY <2>1, <2>2, <2>3, <2>4 DEF Same
<1>2. Same(AtBoundary(r), r, Parsed)
  BY DEF AtBoundary, Same, IsProvider, Parsed, Collected, Fields
<1>3. Same(InsertBody(r, ln), r, Parsed)
  <2> DEFINE b == AtBoundary(r)
             x == [b EXCEPT !.inBody = FALSE]
             p == ToParent(b)
  <2>1. Same(x, r, Parsed)
    <3>1. Same(b, r, Parsed)
      BY <1>2
    <3> HIDE DEF b
    <3> QED
      BY <3>1 DEF Same, IsProvider, Parsed, Collected, Fields
  <2>2. Same(p, r, Parsed)
    BY <1>2, ParentParsed
  <2>5. Same(TransitionToHeader(x), r, Parsed)
    <3> HIDE DEF x
    <3> QED
      BY <2>1, HeaderParsed
  <2>3. Same(LevelUp(p), r, Parsed)
    <3> HIDE DEF p
    <3> QED
      BY <2>2 DEF LevelUp, Same, IsProvider, Parsed, Collected, Fields
  <2>4. InsertBody(r, ln) = TransitionToHeader(x) \/ InsertBody(r, ln) = LevelUp(p)
        \/ InsertBody(r, ln) = r
    BY DEF InsertBody
  <2> HIDE DEF b, x, p
  <2> QED
    BY <2>5, <2>3, <2>4, SameRefl
<1> QED
  BY <1>1, <1>3 DEF Insert

\* Lines that are not the armor line of a message
Unarmored == { x \in WireLines : ~(x.k = "data" /\ x.p = <<"pgp">>) }

LEMMA CollectKeeps ==
  ASSUME NEW r, IsProvider(r), NEW ln
  PROVE  IsProvider(Collect(r, ln)) /\ Collect(r, ln).everything = r.everything
<1> DEFINE h == IF r.crypto /\ r.hash # 0 THEN HashLine(r, ln) ELSE r
<1>1. IsProvider(h) /\ h.everything = r.everything
  BY DEF HashLine, IsProvider, Fields
<1>2. IsProvider(CollectPart(h, ln)) /\ CollectPart(h, ln).everything = h.everything
  <2> HIDE DEF h
  <2>1. IsProvider(CollectBody(h, ln)) /\ CollectBody(h, ln).everything = h.everything
    BY <1>1 DEF CollectBody, IsProvider, Fields
  <2>2. IsProvider(CollectHtml(h, ln)) /\ CollectHtml(h, ln).everything = h.everything
    BY <1>1 DEF CollectHtml, IsProvider, Fields
  <2>3. IsProvider(CollectAttachment(h, ln)) /\ CollectAttachment(h, ln).everything = h.everything
    BY <1>1 DEF CollectAttachment, IsProvider, Fields
  <2> QED
    BY <1>1, <2>1, <2>2, <2>3 DEF CollectPart
<1>3. IsProvider(CollectSignature(h, ln)) /\ CollectSignature(h, ln).everything = h.everything
  <2> HIDE DEF h
  <2> QED
    BY <1>1 DEF CollectSignature, IsProvider, Fields
<1>4. IsProvider(CollectCipher(h, ln)) /\ CollectCipher(h, ln).everything = h.everything
  <2> HIDE DEF h
  <2> QED
    BY <1>1 DEF CollectCipher, IsProvider, Fields
<1>5. \/ Collect(r, ln) = h \/ Collect(r, ln) = CollectPart(h, ln)
      \/ Collect(r, ln) = CollectSignature(h, ln) \/ Collect(r, ln) = CollectCipher(h, ln)
  BY DEF Collect
<1> HIDE DEF h
<1> QED
  BY <1>1, <1>2, <1>3, <1>4, <1>5

\* A line that is not the armor line, or that is not looked at, is read as MIME
LEMMA TakeQuiet ==
  ASSUME NEW r, IsProvider(r), r.everything = FALSE, NEW ln,
         ~(ln.k = "data" /\ ln.p = <<"pgp">>) \/ Insert(r, ln).cbody # 2
  PROVE  IsProvider(TakeLine(r, ln)) /\ TakeLine(r, ln).everything = FALSE
<1> DEFINE i == Insert(r, ln)
           c == CheckMarker(i, ln)
<1>1. IsProvider(i) /\ i.everything = FALSE
  <2>1. Same(i, r, Parsed) /\ "everything" \in Fields \ Parsed
    BY InsertParsed DEF Parsed, Collected, Fields
  <2> HIDE DEF i
  <2> QED
    BY <2>1 DEF Same
<1>2. c = i \/ c = [i EXCEPT !.checked = TRUE]
  BY DEF CheckMarker
<1>3. IsProvider(c) /\ c.everything = FALSE
  <2> HIDE DEF i, c
  <2> QED
    BY <1>1, <1>2 DEF IsProvider, Fields
<1>4. TakeLine(r, ln) = Collect(c, ln)
  BY DEF TakeLine
<1> HIDE DEF c
<1> QED
  BY <1>3, <1>4, CollectKeeps

LEMMA FeedQuiet ==
  ASSUME NEW r, IsProvider(r), r.everything = FALSE
  PROVE  \A s \in Seq(Unarmored) : IsProvider(Feed(r, s)) /\ Feed(r, s).everything = FALSE
<1> DEFINE T == { s \in Seq(Unarmored) : IsProvider(Feed(r, s)) /\ Feed(r, s).everything = FALSE }
<1>1. <<>> \in T
  BY FeedNone
<1>2. \A s \in Seq(Unarmored), x \in Unarmored : s \in T => Append(s, x) \in T
  <2> SUFFICES ASSUME NEW s \in Seq(Unarmored), NEW x \in Unarmored, s \in T
               PROVE  Append(s, x) \in T
    OBVIOUS
  <2> DEFINE q == Feed(r, s)
  <2>1. Feed(r, Append(s, x)) = TakeLine(q, x)
    BY FeedAppend
  <2>2. IsProvider(q) /\ q.everything = FALSE /\ ~(x.k = "data" /\ x.p = <<"pgp">>)
    BY DEF Unarmored
  <2> HIDE DEF q
  <2>3. IsProvider(TakeLine(q, x)) /\ TakeLine(q, x).everything = FALSE
    BY <2>2, TakeQuiet
  <2> QED
    BY <2>1, <2>3, AppendType
<1> HIDE DEF T
<1>3. Seq(Unarmored) \subseteq T
  BY <1>1, <1>2, SeqInduct
<1> QED
  BY <1>3 DEF T
-----------------------------------------------------------------------------
(* Data in pieces: however it is cut, it is taken as if it came at once.   *)

\* What a provider has after the first n lines
ReadPart(r, s, n)    == IF r.everything THEN CopyInput(r, SubSeq(s, 1, n))
                                        ELSE Feed(r, SubSeq(s, 1, n))
WrittenPart(r, s, n) == IF r.everything THEN CopyOutput(r, SubSeq(s, 1, n))
                                        ELSE Feed(r, SubSeq(s, 1, n))

\* No line makes it give up MIME
Quiet(r, s) ==
  /\ IsProvider(r) /\ r.data = <<>>
  /\ \/ r.everything = TRUE
     \/ \A n \in 0..Len(s) : Feed(r, SubSeq(s, 1, n)).everything = FALSE

LEMMA FeedMore ==
  ASSUME NEW S, NEW s \in Seq(S), NEW r, NEW a \in 0..Len(s), NEW b \in a..Len(s)
  PROVE  Feed(Feed(r, SubSeq(s, 1, a)), SubSeq(s, a + 1, b)) = Feed(r, SubSeq(s, 1, b))
<1> DEFINE x == SubSeq(s, 1, a)
           y == SubSeq(s, a + 1, b)
           z == SubSeq(s, 1, b)
<1>1. x \in Seq(S) /\ y \in Seq(S)
  BY Prefix, Between
<1>2. x \o y = z
  BY PrefixJoin
<1> HIDE DEF x, y, z
<1>3. Feed(r, x \o y) = Feed(Feed(r, x), y)
  BY <1>1, FeedConcat
<1> QED
  BY <1>2, <1>3 DEF x, y, z

LEMMA CopyTwice ==
  ASSUME NEW r, IsProvider(r), NEW x, NEW y
  PROVE  /\ CopyInput(CopyInput(r, x), y) = CopyInput(r, y)
         /\ CopyInput(r, x).data = x /\ CopyInput(r, x).everything = r.everything
         /\ CopyOutput(CopyOutput(r, x), y) = CopyOutput(r, y)
         /\ CopyOutput(r, x).everything = r.everything
<1>1. CopyInput(CopyInput(r, x), y) = CopyInput(r, y)
  BY DEF CopyInput, IsProvider, Fields
<1>2. CopyInput(r, x).data = x /\ CopyInput(r, x).everything = r.everything
  BY DEF CopyInput, IsProvider, Fields
<1>3. CopyOutput(CopyOutput(r, x), y) = CopyOutput(r, y) /\ CopyOutput(r, x).everything = r.everything
  <2> DEFINE f(lines) == FlattenSeq([i \in DOMAIN lines |-> PiecesOf(lines[i]) \o <<"nl">>])
  <2>1. \A p, l : CopyOutput(p, l) = [p EXCEPT !.body = f(l)]
    BY DEF CopyOutput
  <2> HIDE DEF f
  <2> QED
    BY <2>1 DEF IsProvider, Fields
<1> QED
  BY <1>1, <1>2, <1>3

LEMMA MoreRead ==
  ASSUME NEW S, NEW s \in Seq(S), NEW r, Quiet(r, s), NEW a \in 0..Len(s), NEW b \in a..Len(s),
         NEW q, q = ReadPart(r, s, a)
  PROVE  (IF q.everything THEN CopyInput(q, q.data \o SubSeq(s, a + 1, b))
          ELSE Feed(q, SubSeq(s, a + 1, b))) = ReadPart(r, s, b)
<1>1. CASE r.everything = TRUE
  <2> DEFINE x == SubSeq(s, 1, a)
             y == SubSeq(s, a + 1, b)
  <2>1. x \o y = SubSeq(s, 1, b)
    BY PrefixJoin
  <2>2. q = CopyInput(r, x)
    BY <1>1 DEF ReadPart
  <2> HIDE DEF x, y
  <2>3. q.data = x /\ q.everything = TRUE /\ CopyInput(q, x \o y) = CopyInput(r, x \o y)
    BY <2>2, <1>1, CopyTwice DEF Quiet
  <2> QED
    BY <2>1, <2>3, <1>1 DEF ReadPart, y
<1>2. CASE r.everything # TRUE
  <2>1. q = Feed(r, SubSeq(s, 1, a)) /\ q.everything = FALSE
    <3>1. Feed(r, SubSeq(s, 1, 0)).everything = FALSE
      <4>1. 0 \in 0..Len(s)
        OBVIOUS
      <4> QED
        BY <4>1, <1>2 DEF Quiet
    <3>2. SubSeq(s, 1, 0) = <<>> /\ Feed(r, <<>>) = r
      BY FeedNone
    <3>3. r.everything = FALSE
      BY <3>1, <3>2
    <3>4. Feed(r, SubSeq(s, 1, a)).everything = FALSE
      BY <1>2 DEF Quiet
    <3> QED
      BY <3>3, <3>4 DEF ReadPart
  <2>2. Feed(q, SubSeq(s, a + 1, b)) = Feed(r, SubSeq(s, 1, b))
    BY <2>1, FeedMore
  <2>3. ~r.everything
    <3>1. SubSeq(s, 1, 0) = <<>> /\ Feed(r, <<>>) = r
      BY FeedNone
    <3> QED
      BY <1>2, <3>1 DEF Quiet
  <2> QED
    BY <2>1, <2>2, <2>3 DEF ReadPart
<1> QED
  BY <1>1, <1>2

LEMMA MoreWritten ==
  ASSUME NEW S, NEW s \in Seq(S), NEW r, Quiet(r, s), NEW a \in 0..Len(s), NEW b \in a..Len(s),
         NEW q, q = WrittenPart(r, s, a)
  PROVE  (IF q.everything THEN CopyOutput(q, SubSeq(s, 1, b))
          ELSE Feed(q, SubSeq(s, a + 1, b))) = WrittenPart(r, s, b)
<1>1. CASE r.everything = TRUE
  <2>2. q = CopyOutput(r, SubSeq(s, 1, a))
    BY <1>1 DEF WrittenPart
  <2>3. q.everything = TRUE /\ CopyOutput(q, SubSeq(s, 1, b)) = CopyOutput(r, SubSeq(s, 1, b))
    BY <2>2, <1>1, CopyTwice DEF Quiet
  <2> QED
    BY <2>3, <1>1 DEF WrittenPart
<1>2. CASE r.everything # TRUE
  <2>3. r.everything = FALSE
    <3>1. SubSeq(s, 1, 0) = <<>> /\ Feed(r, <<>>) = r /\ 0 \in 0..Len(s)
      BY FeedNone
    <3>2. Feed(r, SubSeq(s, 1, 0)).everything = FALSE
      BY <3>1, <1>2 DEF Quiet
    <3> QED
      BY <3>1, <3>2
  <2>1. q = Feed(r, SubSeq(s, 1, a)) /\ q.everything = FALSE
    BY <1>2, <2>3 DEF Quiet, WrittenPart
  <2>2. Feed(q, SubSeq(s, a + 1, b)) = Feed(r, SubSeq(s, 1, b))
    BY <2>1, FeedMore
  <2> QED
    BY <2>1, <2>2, <2>3 DEF WrittenPart
<1> QED
  BY <1>1, <1>2

\* Half lines
LEMMA Pieces2 ==
  ASSUME NEW len \in Nat, NEW g \in 0..(2 * len), NEW n \in Nat
  PROVE  /\ Least(g + n, 2 * len) \in g..(2 * len)
         /\ g \div 2 \in 0..len /\ Least(g + n, 2 * len) \div 2 \in (g \div 2)..len
         /\ (2 * len) \div 2 = len /\ 0 \div 2 = 0
BY DEF Least

LEMMA PartNone ==
  ASSUME NEW S, NEW s \in Seq(S), NEW e \in BOOLEAN
  PROVE  WrittenPart(Provider(e), s, 0) = Provider(e)
<1>1. SubSeq(s, 1, 0) = <<>>
  OBVIOUS
<1>2. CopyOutput(Provider(TRUE), <<>>) = Provider(TRUE)
  <2>1. [i \in DOMAIN <<>> |-> PiecesOf(<<>>[i]) \o <<"nl">>] = <<>>
    OBVIOUS
  <2>2. CopyOutput(Provider(TRUE), <<>>) = [Provider(TRUE) EXCEPT !.body = <<>>]
    BY <2>1, FlatNone DEF CopyOutput
  <2>3. Provider(TRUE).body = <<>>
    BY DEF Provider
  <2> DEFINE r == Provider(TRUE)
  <2>4. r = [x \in Fields |-> r[x]]
    BY DEF Provider, Fields
  <2> HIDE DEF r
  <2> QED
    BY <2>2, <2>3, <2>4 DEF r
<1>3. Provider(e).everything = e
  BY DEF Provider
<1>4. CASE e = TRUE
  BY <1>1, <1>2, <1>3, <1>4 DEF WrittenPart
<1>5. CASE e = FALSE
  <2>1. Feed(Provider(FALSE), <<>>) = Provider(FALSE)
    BY FeedNone
  <2> QED
    BY <1>1, <2>1, <1>3, <1>5 DEF WrittenPart
<1> QED
  BY <1>4, <1>5

LEMMA QuietUnarmored ==
  ASSUME NEW r, IsProvider(r), r.data = <<>>, NEW s \in Seq(Unarmored),
         r.everything = FALSE
  PROVE  Quiet(r, s)
<1> SUFFICES ASSUME NEW n \in 0..Len(s) PROVE Feed(r, SubSeq(s, 1, n)).everything = FALSE
  BY DEF Quiet
<1>1. SubSeq(s, 1, n) \in Seq(Unarmored)
  BY Prefix
<1> QED
  BY <1>1, FeedQuiet
-----------------------------------------------------------------------------
(* The signed data of every mail is hashed as a whole.                     *)

LEMMA LonePart ==
  ASSUME NEW a \in UserAtts, NEW which
  PROVE  WriteAttachments(<<a>>, "", which) = IF Selected(a, which) THEN WritePart(a, "") ELSE <<>>
<1> DEFINE F == PartsIn("")
           s == <<a>>
           k == Keep(s, Chosen(which))
<1>0. "" \in MailBounds
  BY DEF MailBounds
<1>1. F \in [UserAtts -> Seq(MailLines)] /\ F[a] = WritePart(a, "")
  BY <1>0, PartsInType DEF PartsIn
<1>2. s \in Seq(UserAtts) /\ s = Append(<<>>, a)
  OBVIOUS
<1>3. k = IF Selected(a, which) THEN <<a>> ELSE <<>>
  <2> DEFINE n == <<>>
             P == Chosen(which)
  <2>1. n \in Seq(UserAtts) /\ Keep(n, P) = <<>> /\ s = Append(n, a)
    BY <1>2, KeepNone, NoneType
  <2> HIDE DEF n, P, s
  <2>2. Keep(Append(n, a), P) = IF a \in P THEN Append(Keep(n, P), a) ELSE Keep(n, P)
    <3> DEFINE S == UserAtts
    <3>1. n \in Seq(S) /\ a \in S
      BY <2>1
    <3> HIDE DEF S
    <3> QED
      BY <3>1, KeepAppend
  <2>3. k = IF a \in P THEN Append(<<>>, a) ELSE <<>>
    BY <2>1, <2>2 DEF P
  <2> QED
    BY <1>2, <2>3 DEF Chosen, P, s
<1>4. WriteAttachments(s, "", which) = Spread(k, F)
  BY <1>2, AttachmentsAre
<1>5. Spread(<<a>>, F) = F[a] /\ Spread(<<>>, F) = <<>>
  <2> HIDE DEF F
  <2> QED
    BY <1>1, SpreadOne, SpreadNone
<1> HIDE DEF F, k
<1> QED
  BY <1>1, <1>3, <1>4, <1>5

\* Without an outer structure there is one part, or none
LEMMA NoOuter ==
  ASSUME NEW m, IsMail(m), OuterOf(m) = ""
  PROVE  AddBodyAndAttachments(m) = AddBody(m, "") \o RelatedFiles(m) \o OtherFiles(m)
         /\ InnerOf(m) = "" /\ WithinOf(m) = ""
<1>1. InnerOf(m) = "" /\ WithinOf(m) = ""
  BY DEF InnerOf, WithinOf
<1>2. OuterHead(m) = <<>> /\ InnerHead(m) = <<>> /\ CloseBoundary(OuterOf(m)) = <<>>
  BY <1>1 DEF OuterHead, InnerHead, CloseBoundary
<1> DEFINE x == AddBody(m, "")
           y == RelatedFiles(m)
           z == OtherFiles(m)
           e == <<>>
<1>3. x \in Seq(MailLines) /\ y \in Seq(MailLines) /\ z \in Seq(MailLines)
  BY <1>1, WholeLines
<1>4. AddBodyAndAttachments(m) = e \o e \o x \o y \o z \o e
  BY <1>1, <1>2, WholeIs
<1>5. e \in Seq(MailLines)
  BY NoneType
<1>6. e \o e = e
  BY <1>5, ConcatNone
<1>7. e \o x = x
  BY <1>3, ConcatNone
<1> HIDE DEF x, y, z
<1>8. x \o y \o z \in Seq(MailLines)
  BY <1>3, ConcatType
<1>9. (x \o y \o z) \o e = x \o y \o z
  <2> DEFINE w == x \o y \o z
  <2>1. w \in Seq(MailLines)
    BY <1>8
  <2> HIDE DEF w
  <2>2. w \o <<>> = w
    BY <2>1, ConcatNone
  <2> QED
    BY <2>2 DEF w
<1>10. e \o e \o x \o y \o z \o e = (x \o y \o z) \o e
  BY <1>6, <1>7
<1> QED
  BY <1>1, <1>4, <1>9, <1>10 DEF x, y, z

LEMMA OnlyOne ==
  ASSUME NEW m, IsMail(m), Len(m.atts) = 1
  PROVE  m.atts[1] \in UserAtts /\ m.atts = <<m.atts[1]>>
<1> DEFINE s == m.atts
           e == <<>>
           y == s[1]
<1>1. s \in Seq(UserAtts) /\ Len(s) = 1
  BY AllUsable
<1>2. y \in UserAtts
  BY <1>1
<1>3. e \in Seq(UserAtts) /\ Len(e) = 0 /\ Append(e, y) = <<y>>
  BY <1>2, Short1, NoneType
<1> DEFINE S == UserAtts
<1>5. s \in Seq(S) /\ e \in Seq(S) /\ y \in S
  BY <1>1, <1>2, <1>3
<1> HIDE DEF s, e, y, S
<1>4. Len(s) = Len(e) + 1 /\ s[Len(s)] = s[1] /\ \A i \in 1..Len(e) : s[i] = e[i]
  BY <1>1, <1>3
<1>6. s[Len(s)] = y
  BY <1>4 DEF y
<1>7. Append(e, y) = s
  BY <1>4, <1>5, <1>6, AppendIs
<1> QED
  BY <1>2, <1>3, <1>7 DEF s, y

LEMMA SourceIs ==
  ASSUME NEW m, IsMail(m), OuterOf(m) = ""
  PROVE  \/ AddBodyAndAttachments(m) = <<>>
         \/ m.body # <<>> /\ AddBodyAndAttachments(m) = AddBody(m, "")
         \/ \E a \in UserAtts : AddBodyAndAttachments(m) = WritePart(a, "")
<1> DEFINE n == Len(m.atts)
<1>1. n \in Nat /\ Usables(m) = n
  BY AllUsable
<1>2. n = 0 \/ (n = 1 /\ m.body = <<>>)
  <2>1. ~((m.body # <<>> /\ Usables(m) > 0) \/ Usables(m) > 1)
    BY DEF OuterOf
  <2> HIDE DEF n
  <2>2. ~((m.body # <<>> /\ n > 0) \/ n > 1)
    BY <1>1, <2>1
  <2>3. n > 0 \/ n = 0
    BY ONLY <1>1
  <2>4. n > 1 \/ n = 1 \/ n = 0
    BY ONLY <1>1
  <2> QED
    BY <2>2, <2>3, <2>4
<1>3. AddBodyAndAttachments(m) = AddBody(m, "") \o RelatedFiles(m) \o OtherFiles(m)
      /\ InnerOf(m) = "" /\ WithinOf(m) = ""
  BY NoOuter
<1>4. AddBody(m, "") \in Seq(MailLines) /\ RelatedFiles(m) \in Seq(MailLines) /\ OtherFiles(m) \in Seq(MailLines)
  BY <1>3, WholeLines
<1>5. CASE n = 0
  <2>1. RelatedFiles(m) = <<>> /\ OtherFiles(m) = <<>>
    BY <1>1, <1>5 DEF RelatedFiles, OtherFiles
  <2> DEFINE x == AddBody(m, "")
  <2>2. x \in Seq(MailLines)
    BY <1>4
  <2>3. m.body = <<>> => x = <<>>
    BY AddBodyIs
  <2> HIDE DEF x
  <2>4. x \o <<>> \o <<>> = x
    BY <2>2, ConcatNone
  <2> QED
    BY <1>3, <2>1, <2>3, <2>4 DEF x
<1>6. CASE n = 1 /\ m.body = <<>>
  <2> DEFINE a == m.atts[1]
  <2>1. a \in UserAtts /\ m.atts = <<a>>
    BY <1>6, OnlyOne
  <2>2. AddBody(m, "") = <<>>
    BY <1>6, AddBodyIs
  <2>3. CloseBoundary("") = <<>>
    BY DEF CloseBoundary
  <2> HIDE DEF a
  <2> DEFINE w(k) == WriteAttachments(<<a>>, "", k)
             p == WritePart(a, "")
  <2>4. /\ w(0) = IF Selected(a, 0) THEN p ELSE <<>>
        /\ w(1) = IF Selected(a, 1) THEN p ELSE <<>>
        /\ w(2) = IF Selected(a, 2) THEN p ELSE <<>>
    BY <2>1, LonePart
  <2>5. p \in Seq(MailLines)
    BY <2>1, PartLines DEF Parts, MailBounds
  <2>6. ~(Selected(a, 0) /\ Selected(a, 1))
    BY DEF Selected
  <2> HIDE DEF w, p
  <2> DEFINE e == <<>>
  <2>7. e \in Seq(MailLines) /\ e \o e = e /\ e \o p = p /\ p \o e = p
    BY <2>5, NoneType, ConcatNone
  <2>11. Usables(m) # 0
    <3> HIDE DEF n
    <3>1. Usables(m) = n /\ n = 1
      BY <1>1, <1>6
    <3> QED
      BY ONLY <3>1
  <2>12. w(1) = WriteAttachments(m.atts, "", 1) /\ w(0) = WriteAttachments(m.atts, "", 0)
         /\ w(2) = WriteAttachments(m.atts, "", 2)
    BY <2>1 DEF w
  <2>8. RelatedFiles(m) = IF IsRelated(m) = 0 THEN e ELSE w(1) \o e
    BY <1>3, <2>3, <2>11, <2>12 DEF RelatedFiles
  <2>9. OtherFiles(m) = IF IsRelated(m) = 0 THEN w(2) ELSE w(0)
    <3>1. OuterOf(m) = ""
      OBVIOUS
    <3> QED
      BY <2>11, <2>12, <3>1 DEF OtherFiles
  <2>10. e \o RelatedFiles(m) \o OtherFiles(m) \in {e, p}
    <3> HIDE DEF e
    <3>1. CASE IsRelated(m) = 0
      <4>1. RelatedFiles(m) = e /\ OtherFiles(m) \in {e, p}
        BY <2>4, <2>8, <2>9, <3>1 DEF e
      <4> QED
        BY <2>7, <4>1
    <3>2. CASE IsRelated(m) # 0
      <4>1. RelatedFiles(m) = w(1) \o e /\ OtherFiles(m) = w(0)
        BY <2>8, <2>9, <3>2
      <4>2. w(1) \in {e, p} /\ w(0) \in {e, p} /\ (w(1) = e \/ w(0) = e)
        BY <2>4, <2>6 DEF e
      <4>3. w(1) \o e = w(1)
        BY <2>7, <4>2
      <4> QED
        BY <2>7, <4>1, <4>2, <4>3
    <3> QED
      BY <3>1, <3>2
  <2> QED
    BY <1>3, <2>1, <2>2, <2>10 DEF p
<1> QED
  BY <1>2, <1>5, <1>6

\* Lines that begin with a header
Leads(s) == s \in Seq(MailLines) /\ s # <<>> /\ s[1].k = "hdr"

LEMMA LeadsConcat ==
  ASSUME NEW s, Leads(s), NEW t \in Seq(MailLines)
  PROVE  Leads(s \o t)
<1> DEFINE S == MailLines
<1>1. s \in Seq(S) /\ t \in Seq(S) /\ s # <<>>
  BY DEF Leads
<1>2. Len(s) \in Nat \ {0}
  BY <1>1
<1> HIDE DEF S
<1>3. s \o t \in Seq(S) /\ Len(s \o t) = Len(s) + Len(t) /\ Len(t) \in Nat
      /\ \A i \in 1..Len(s \o t) : (s \o t)[i] = IF i <= Len(s) THEN s[i] ELSE t[i - Len(s)]
  BY <1>1, ConcatAt
<1>4. 1 \in 1..Len(s \o t) /\ 1 <= Len(s)
  BY ONLY <1>2, <1>3
<1>5. (s \o t)[1] = s[1] /\ s \o t # <<>>
  BY <1>3, <1>4
<1> QED
  BY <1>3, <1>5 DEF Leads, S

LEMMA LeadsTwo ==
  ASSUME NEW h \in MailLines, h.k = "hdr"
  PROVE  Leads(<<h, Blank>>)
<1>1. Blank \in MailLines
  BY LineKinds
<1>2. <<h, Blank>> \in Seq(MailLines)
  BY <1>1, TwoType
<1> QED
  BY <1>2 DEF Leads

LEMMA LeadsPart ==
  ASSUME NEW p \in Parts
  PROVE  Leads(WritePart(p, ""))
<1> DEFINE x == <<PartHeader(p), Blank>>
           y == WriteContent(p.data, PartEnc(p))
           e == <<>>
<1>1. PartHeader(p) \in MailLines /\ PartHeader(p).k = "hdr"
  BY LineKinds, PartOrdinary DEF Headers, PartHeaders
<1>2. Leads(x)
  BY <1>1, LeadsTwo
<1>3. y \in Seq(MailLines) /\ "" \in MailBounds
  BY PartLines DEF MailBounds
<1>4. WritePart(p, "") = e \o x \o y
  BY WritePartIs DEF WriteBoundary
<1> HIDE DEF x, y
<1>5. e \o x = x
  BY <1>2, ConcatNone DEF Leads
<1> HIDE DEF e
<1> QED
  BY <1>2, <1>3, <1>4, <1>5, LeadsConcat

LEMMA LeadsBody ==
  ASSUME NEW m, IsMail(m), m.body # <<>>
  PROVE  Leads(AddBody(m, ""))
<1> DEFINE x == WritePart(BodyPart("plain", m.body), "alt")
           y == WritePart(BodyPart("html", m.html), "alt")
           z == CloseBoundary("alt")
           h == MultiHeader("alternative", "alt")
           e == <<>>
<1>1. x \in Seq(MailLines) /\ y \in Seq(MailLines) /\ z \in Seq(MailLines)
  BY AltLines
<1>2. h \in MailLines /\ h.k = "hdr"
  <2>1. "alternative" \in {"mixed", "related", "alternative"} /\ "alt" \in InnerBounds
    BY DEF InnerBounds
  <2>2. h \in Headers /\ h.k = "hdr"
    BY <2>1, MultiOrdinary
  <2> QED
    BY <2>2, LineKinds
<1> HIDE DEF h
<1>3. Leads(<<h, Blank>>)
  BY <1>2, LeadsTwo
<1>4. AltHead = <<h, Blank>>
  BY DEF AltHead, h
<1>5. AltTexts(m, <<>>) = e \o AltHead \o x \o y \o z
  BY DEF AltTexts
<1>6. e \o AltHead = AltHead
  BY <1>3, <1>4, ConcatNone DEF Leads
<1> HIDE DEF x, y, z, e
<1>7. Leads(AltHead \o x)
  BY <1>1, <1>3, <1>4, LeadsConcat
<1>8. Leads(AltHead \o x \o y)
  BY <1>1, <1>7, LeadsConcat
<1>9. Leads(AltTexts(m, <<>>))
  BY <1>1, <1>5, <1>6, <1>8, LeadsConcat
<1>10. WriteBoundary("") = <<>>
  BY DEF WriteBoundary
<1>11. Leads(WritePart(BodyPart("plain", m.body), ""))
  BY BodyParts, LeadsPart
<1> QED
  BY <1>9, <1>10, <1>11, AddBodyIs

LEMMA LeadsOuter ==
  ASSUME NEW m, IsMail(m), OuterOf(m) # ""
  PROVE  Leads(AddBodyAndAttachments(m))
<1> DEFINE x1 == OuterHead(m)
           x2 == InnerHead(m)
           x3 == AddBody(m, WithinOf(m))
           x4 == RelatedFiles(m)
           x5 == OtherFiles(m)
           x6 == CloseBoundary(OuterOf(m))
           k == IF IsRelated(m) = 1 THEN "related" ELSE "mixed"
           h == MultiHeader(k, OuterOf(m))
<1>1. /\ x1 \in Seq(MailLines) /\ x2 \in Seq(MailLines) /\ x3 \in Seq(MailLines)
      /\ x4 \in Seq(MailLines) /\ x5 \in Seq(MailLines) /\ x6 \in Seq(MailLines)
      /\ AddBodyAndAttachments(m) = x1 \o x2 \o x3 \o x4 \o x5 \o x6
  BY WholeLines, WholeIs
<1>2. h \in MailLines /\ h.k = "hdr"
  <2>1. k \in {"mixed", "related", "alternative"} /\ OuterOf(m) \in InnerBounds
    BY BoundsOf DEF InnerBounds
  <2> HIDE DEF k
  <2> DEFINE b == OuterOf(m)
  <2>3. b \in InnerBounds
    BY <2>1
  <2> HIDE DEF b
  <2>4. MultiHeader(k, b) \in Headers /\ MultiHeader(k, b).k = "hdr"
    <3>1. k \in {"mixed", "related", "alternative"}
      BY <2>1
    <3> HIDE DEF h
    <3> QED
      BY ONLY <2>3, <3>1, MultiOrdinary
  <2>2. h \in Headers /\ h.k = "hdr"
    BY <2>4 DEF b
  <2> HIDE DEF h
  <2> QED
    BY <2>2, LineKinds
<1>3. x1 = <<h, Blank>>
  BY DEF OuterHead
<1> HIDE DEF x1, x2, x3, x4, x5, x6, h
<1>4. Leads(x1)
  BY <1>2, <1>3, LeadsTwo
<1>5. Leads(x1 \o x2)
  BY <1>1, <1>4, LeadsConcat
<1>6. Leads(x1 \o x2 \o x3)
  BY <1>1, <1>5, LeadsConcat
<1>7. Leads(x1 \o x2 \o x3 \o x4)
  BY <1>1, <1>6, LeadsConcat
<1>8. Leads(x1 \o x2 \o x3 \o x4 \o x5)
  BY <1>1, <1>7, LeadsConcat
<1> QED
  BY <1>1, <1>8, LeadsConcat

\* What is hashed of a mail: its lines and the end of the last one
LEMMA SourceHashes ==
  ASSUME NEW m, IsMail(m), NEW proto
  PROVE  LET s == AddBodyAndAttachments(m)
         IN \/ s = <<>>
            \/ Leads(s) /\ Hashes(s, proto, <<"sign">>, FALSE, <<"sign">>, TRUE)
<1> DEFINE s == AddBodyAndAttachments(m)
           st == <<"sign">>
<1>1. st \in Seq(Bounds) /\ Len(st) # 0
  BY SignStack
<1> HIDE DEF st
<1>2. CASE OuterOf(m) # ""
  BY <1>2, LeadsOuter, HashesOuter
<1>3. CASE OuterOf(m) = ""
  <2>1. CASE s = <<>>
    BY <2>1
  <2>2. CASE m.body # <<>> /\ s = AddBody(m, "")
    <3>1. Leads(AddBody(m, "")) /\ Hashes(AddBody(m, ""), proto, st, FALSE, st, TRUE)
      BY <1>1, <2>2, LeadsBody, HashesBareBody
    <3> QED
      BY <2>2, <3>1 DEF st
  <2>3. CASE \E a \in UserAtts : s = WritePart(a, "")
    <3> HIDE DEF s
    <3>1. PICK a \in UserAtts : s = WritePart(a, "")
      BY <2>3
    <3>2. a \in Parts
      BY DEF Parts
    <3>3. Leads(WritePart(a, "")) /\ Hashes(WritePart(a, ""), proto, st, FALSE, st, TRUE)
      BY <1>1, <3>2, LeadsPart, HashesBare
    <3> QED
      BY <3>1, <3>3 DEF st, s
  <2> QED
    BY <1>3, <2>1, <2>2, <2>3, SourceIs
<1> QED
  BY <1>2, <1>3

LEMMA HashesWhole ==
  ASSUME NEW m, IsMail(m), NEW proto, NEW r, Awaiting(r, proto),
         NEW t, t = AddBodyAndAttachments(m) \o <<Blank>>
  PROVE  Hashing(Feed(r, t), AllHeads, <<"sign">>, t, proto, TRUE) /\ t \in Seq(MailLines)
<1> DEFINE s == AddBodyAndAttachments(m)
           q == StartHashing(r)
           st == <<"sign">>
           e == <<>>
           y == <<Blank>>
<1>1. Hashing(q, AllHeads, st, e, proto, FALSE) /\ Field(q) = NoHeader
  BY AwaitingHashes
<1>2. Blank \in MailLines /\ y \in Seq(MailLines) /\ e \in Seq(MailLines) /\ s \in Seq(MailLines)
  BY LineKinds, WholeLines, OneType, NoneType
<1>3. s = <<>> \/ (Leads(s) /\ Hashes(s, proto, st, FALSE, st, TRUE))
  BY SourceHashes
<1>4. t = s \o y
  OBVIOUS
<1>10. t \in Seq(MailLines)
  <2> HIDE DEF s, y
  <2> QED
    BY <1>2, <1>4, ConcatType
<1> HIDE DEF s, q
<1>5. CASE s = <<>>
  <2>1. t = y
    BY <1>2, <1>4, <1>5, ConcatNone
  <2>2. Ordinary(NoHeader) /\ NoHeader.main # "multipart"
    BY DEF Ordinary, NoHeader, Header
  <2>3. NoHeader \in AllHeads /\ st \in Seq(Bounds)
    BY HeadsAll, SignStack
  <2> HIDE DEF st, e
  <2>4. Hashing(TakeLine(q, Blank), AllHeads,
                IF Field(q).main = "multipart" THEN Append(st, Field(q).bnd) ELSE st,
                Append(e, Blank), proto, TRUE)
    <3> DEFINE H == AllHeads
    <3>1. NoHeader \in H /\ Hashing(q, H, st, e, proto, FALSE)
      BY <1>1, <2>3
    <3>2. Ordinary(Field(q)) /\ (Field(q).main = "multipart" => IsBound(Field(q).bnd))
      BY <1>1, <2>2
    <3> HIDE DEF H
    <3>3. Hashing(TakeLine(q, Blank), H,
                IF Field(q).main = "multipart" THEN Append(st, Field(q).bnd) ELSE st,
                Append(e, Blank), proto, TRUE)
      BY <2>3, <3>1, <3>2, HashBlank
    <3> QED
      BY <3>3 DEF H
  <2>5. Append(e, Blank) = y
    BY <1>2, Short1 DEF e
  <2>6. Hashing(TakeLine(q, Blank), AllHeads, st, t, proto, TRUE)
    BY <1>1, <2>1, <2>2, <2>4, <2>5
  <2>7. TakeLine(r, Blank) = TakeLine(q, Blank)
    BY StartSame DEF q
  <2>8. Feed(r, y) = TakeLine(r, Blank)
    BY FeedOne
  <2> QED
    BY <1>10, <2>1, <2>6, <2>7, <2>8 DEF st
<1>6. CASE Leads(s) /\ Hashes(s, proto, st, FALSE, st, TRUE)
  <2>1. Hashes(y, proto, st, TRUE, st, TRUE)
    BY HashesBlank
  <2>2. Hashes(s \o y, proto, st, FALSE, st, TRUE)
    <3> HIDE DEF y, st
    <3> QED
      BY <1>2, <1>6, <2>1, HashesConcat
  <2>3. Leads(t)
    <3> HIDE DEF y
    <3> QED
      BY <1>2, <1>4, <1>6, LeadsConcat
  <2>4. Feed(r, t) = Feed(q, t)
    <3>1. t \in Seq(MailLines) /\ t # <<>> /\ t[1].k = "hdr"
      BY <2>3 DEF Leads
    <3> QED
      BY <3>1, StartFeed DEF q
  <2>5. Hashing(Feed(q, t), AllHeads, st, e \o t, proto, TRUE)
    <3> HIDE DEF e, st, y
    <3> QED
      BY <1>1, <1>2, <1>4, <2>2 DEF Hashes
  <2>6. e \o t = t
    BY <1>10, ConcatNone
  <2> QED
    BY <1>10, <2>4, <2>5, <2>6 DEF st
<1> QED
  BY <1>3, <1>5, <1>6
-----------------------------------------------------------------------------
(* A signed structure is read: the data that were signed, the signature.   *)

LEMMA HeadKinds == \A h \in AllHeads : h.k # "data"
<1>1. \A p \in Parts : PartHeader(p).k = "hdr"
  BY PartOrdinary
<1>2. \A h \in MultiHeaders : h.k = "hdr"
  BY MultiOrdinary DEF MultiHeaders
<1>3. \A h \in WrapHeads : h.k \in {"hdr", "none"}
  <2>1. NoHeader.k = "none" /\ EncHead.k = "hdr" /\ CipherHead.k = "hdr" /\ CmsHead.k = "hdr"
        /\ Header("application", "pgp-encrypted").k = "hdr"
    BY DEF NoHeader, EncHead, CipherHead, CmsHead, Header
  <2>2. /\ SignHead("pgp").k = "hdr" /\ SignHead("cms").k = "hdr"
        /\ SigHead("pgp").k = "hdr" /\ SigHead("cms").k = "hdr"
    BY SignHeadIs, SigHeadIs
  <2> HIDE DEF NoHeader, SignHead, SigHead, EncHead, CipherHead, CmsHead
  <2> QED
    BY <2>1, <2>2 DEF WrapHeads
<1> QED
  BY <1>1, <1>2, <1>3 DEF AllHeads, Headers, PartHeaders

LEMMA UnarmoredKinds ==
  /\ MailLines \subseteq Unarmored /\ Blank \in Unarmored /\ Unarmored \subseteq WireLines
  /\ \A h \in AllHeads : h \in Unarmored
  /\ \A b \in Bounds : Boundary(b) \in Unarmored /\ LastBoundary(b) \in Unarmored
  /\ \A ln \in Calm(Pieces) : ln.p # <<"pgp">> => ln \in Unarmored
<1>1. Unarmored \subseteq WireLines
  BY DEF Unarmored
<1>2. \A h \in AllHeads : h.k # "data"
  BY HeadKinds
<1>3. \A b \in Bounds : Boundary(b).k = "bound" /\ LastBoundary(b).k = "bound"
  BY DEF Boundary, LastBoundary
<1>4. \A h \in AllHeads : h \in Unarmored
  <2> SUFFICES ASSUME NEW h \in AllHeads PROVE h \in Unarmored
    OBVIOUS
  <2>1. h \in WireLines /\ h.k # "data"
    BY <1>2, WireKinds
  <2> QED
    BY ONLY <2>1 DEF Unarmored
<1>5. \A b \in Bounds : Boundary(b) \in Unarmored /\ LastBoundary(b) \in Unarmored
  <2> SUFFICES ASSUME NEW b \in Bounds
               PROVE  Boundary(b) \in Unarmored /\ LastBoundary(b) \in Unarmored
    OBVIOUS
  <2>1. Boundary(b) \in WireLines /\ LastBoundary(b) \in WireLines
        /\ Boundary(b).k = "bound" /\ LastBoundary(b).k = "bound"
    BY <1>3, WireKinds
  <2> HIDE DEF Boundary, LastBoundary
  <2> QED
    BY ONLY <2>1 DEF Unarmored
<1>6. \A ln \in Calm(Pieces) : ln.p # <<"pgp">> => ln \in Unarmored
  BY WireKinds DEF Unarmored
<1>7. \A ln \in Calm(Composed) : ln \in Unarmored
  <2> SUFFICES ASSUME NEW ln \in Calm(Composed) PROVE ln \in Unarmored
    OBVIOUS
  <2>1. ln \in MailLines /\ ln \in WireLines
    BY LineKinds, MailWire
  <2>2. ln.p \in Seq(Composed)
    BY DEF Calm
  <2>3. ln.p # <<"pgp">>
    <3> SUFFICES ASSUME ln.p = <<"pgp">> PROVE FALSE
      OBVIOUS
    <3>1. Len(ln.p) = 1 /\ ln.p[1] = "pgp"
      OBVIOUS
    <3>2. ln.p[1] \in Composed
      BY <2>2, <3>1
    <3> QED
      BY <3>1, <3>2 DEF Composed
  <2> QED
    BY <2>1, <2>3 DEF Unarmored
<1>8. MailLines \subseteq Unarmored
  <2>1. InnerBounds \subseteq Bounds
    BY DEF InnerBounds, Bounds
  <2>2. Headers \subseteq AllHeads
    BY HeadsAll
  <2> QED
    BY <1>4, <1>5, <1>7, <2>1, <2>2 DEF MailLines
<1>9. Blank \in Unarmored
  BY <1>7, LineKinds
<1> QED
  BY <1>1, <1>4, <1>5, <1>6, <1>8, <1>9

\* The one line of a signature
SigOnly(proto, sig, ln) == SigLines(proto, sig) = <<ln>> /\ ln \in Calm(Pieces) /\ ln.p = <<"sig">>

LEMMA KeepSig == Keep(<<"sig">>, NotNl) = <<"sig">> /\ <<>> \o <<"sig">> = <<"sig">>
                 /\ <<"sig">> \o <<>> = <<"sig">>
<1> DEFINE S == Pieces
           x == "sig"
           P == NotNl
           s == <<x>>
<1>1. x \in S /\ x \in P /\ s \in Seq(S)
  BY OneType DEF Pieces, NotNl
<1>2. \A i \in DOMAIN s : s[i] \in P
  BY <1>1
<1> HIDE DEF S, x, P, s
<1>3. Keep(s, P) = s
  BY <1>1, <1>2, KeepAll
<1>4. <<>> \o s = s /\ s \o <<>> = s
  BY <1>1, ConcatNone
<1> QED
  BY <1>3, <1>4 DEF s, x, P

\* After the signed data: the signature and the end
LEMMA SigRead ==
  ASSUME NEW proto \in {"pgp", "cms"}, NEW t, NEW r, Past(r, t, proto), Heard(r, 0, FALSE),
         r.sig = <<>>, NEW sig, NEW ln, SigOnly(proto, sig, ln)
  PROVE  LET q == Feed(Feed(Feed(r, SigPart(proto, sig)), <<Blank>>), CloseBoundary("sign"))
         IN q.data = t /\ q.open = TRUE /\ q.everything = FALSE /\ SigSeen(q, <<"sig">>)
<1> DEFINE r1 == TakeLine(r, SigHead(proto))
           r2 == TakeLine(r1, Blank)
           r3 == TakeLine(r2, ln)
           r4 == TakeLine(r3, Blank)
           r5 == TakeLine(r4, Blank)
           L  == LastBoundary("sign")
           r6 == TakeLine(r5, L)
<1>0. Blank \in Calm(Pieces) /\ Blank.p = <<>> /\ Blank \in WireLines /\ ln \in WireLines
      /\ SigHead(proto) \in WireLines /\ L \in WireLines
  <2>1. Blank \in Calm(Pieces)
    <3>1. Blank \in DataLine /\ Blank.p \in Seq(Pieces) /\ Blank.p = <<>>
      BY NoneType, LineKinds, BlankIs DEF Calm
    <3>2. Blank.p # <<"dash">>
      BY <3>1
    <3> QED
      BY <3>1, <3>2 DEF Calm
  <2> QED
    BY <2>1, BlankIs, WireKinds, SigHeadIs DEF SigOnly, Bounds
<1>1. Past(r1, t, proto) /\ Heard(r1, 0, FALSE) /\ r1.sig = <<>> /\ Field(r1) = SigHead(proto)
  BY EndHead
<1> HIDE DEF r1
<1>2. Past(r2, t, proto) /\ Heard(r2, 2, TRUE) /\ r2.sig = <<>>
  BY <1>1, EndBlank
<1>3. SigSeen(r2, <<>>)
  BY <1>2, KeepNl, NoneType DEF SigSeen
<1> HIDE DEF r2
<1> DEFINE e == <<>>
           k == <<"sig">>
<1>4. ln \in Calm(Pieces) /\ Keep(ln.p, NotNl) = k /\ e \o k = k /\ k \o e = k
      /\ Keep(Blank.p, NotNl) = e /\ SigSeen(r2, e)
  BY <1>0, <1>3, KeepSig, KeepNl DEF SigOnly
<1> HIDE DEF e, k
<1>5. Past(r3, t, proto) /\ Heard(r3, 2, TRUE) /\ SigSeen(r3, k)
  <2>1. Past(r3, t, proto) /\ Heard(r3, 2, TRUE) /\ SigSeen(r3, e \o Keep(ln.p, NotNl))
    BY <1>2, <1>4, SigLine
  <2> QED
    BY <1>4, <2>1
<1> HIDE DEF r3
<1>6. \A p : Past(p, t, proto) /\ Heard(p, 2, TRUE) /\ SigSeen(p, k)
             => LET q == TakeLine(p, Blank)
                IN Past(q, t, proto) /\ Heard(q, 2, TRUE) /\ SigSeen(q, k)
  <2> SUFFICES ASSUME NEW p, Past(p, t, proto), Heard(p, 2, TRUE), SigSeen(p, k)
               PROVE  LET q == TakeLine(p, Blank)
                      IN Past(q, t, proto) /\ Heard(q, 2, TRUE) /\ SigSeen(q, k)
    OBVIOUS
  <2>1. LET q == TakeLine(p, Blank)
        IN Past(q, t, proto) /\ Heard(q, 2, TRUE) /\ SigSeen(q, k \o Keep(Blank.p, NotNl))
    BY <1>0, SigLine
  <2> QED
    BY <1>4, <2>1
<1>7. Past(r4, t, proto) /\ Heard(r4, 2, TRUE) /\ SigSeen(r4, k)
  BY <1>5, <1>6
<1> HIDE DEF r4
<1>8. Past(r5, t, proto) /\ Heard(r5, 2, TRUE) /\ SigSeen(r5, k)
  BY <1>6, <1>7
<1> HIDE DEF r5
<1>9. r6.data = t /\ r6.open = TRUE /\ r6.everything = FALSE /\ SigSeen(r6, k)
  BY <1>8, EndLast
<1> HIDE DEF r6
<1>10. Feed(r, SigPart(proto, sig)) = r3
  <2> DEFINE a == <<SigHead(proto), Blank>>
             b == <<ln>>
  <2>1. a \in Seq(WireLines) /\ b \in Seq(WireLines)
    BY <1>0, TwoType, OneType
  <2>2. SigPart(proto, sig) = a \o b
    BY DEF SigPart, SigOnly
  <2>3. Feed(r, a) = r2
    BY <1>0, FeedTwo DEF r1, r2
  <2>4. Feed(r2, b) = r3
    BY FeedOne DEF r3
  <2> HIDE DEF a, b
  <2>5. Feed(r, a \o b) = Feed(Feed(r, a), b)
    BY <2>1, FeedConcat
  <2> QED
    BY <2>2, <2>3, <2>4, <2>5
<1>11. Feed(r3, <<Blank>>) = r4
  BY FeedOne DEF r4
<1>12. Feed(r4, CloseBoundary("sign")) = r6
  <2>1. CloseBoundary("sign") = <<Blank, L>>
    BY DEF CloseBoundary
  <2>2. Feed(r4, <<Blank, L>>) = TakeLine(TakeLine(r4, Blank), L)
    BY <1>0, FeedTwo
  <2> QED
    BY <2>1, <2>2 DEF r5, r6
<1> QED
  BY <1>9, <1>10, <1>11, <1>12 DEF k

LEMMA SignedRead ==
  ASSUME NEW m, IsMail(m), NEW proto \in {"pgp", "cms"}, NEW sig, NEW ln,
         SigOnly(proto, sig, ln)
  PROVE  LET s == AddBodyAndAttachments(m)
             q == Feed(Provider(FALSE), CreateSignAttach(proto, sig, s))
         IN /\ q.data = s \o <<Blank>> /\ q.open = TRUE /\ q.everything = FALSE
            /\ SigSeen(q, <<"sig">>)
<1> DEFINE s  == AddBodyAndAttachments(m)
           t  == s \o <<Blank>>
           a  == SignStart(proto)
           b  == WriteBoundary("sign")
           d  == SigPart(proto, sig)
           e  == <<Blank>>
           f  == CloseBoundary("sign")
           S  == WireLines
           p  == Provider(FALSE)
<1>1. /\ a \in Seq(S) /\ s \in Seq(S) /\ b \in Seq(S) /\ d \in Seq(S) /\ e \in Seq(S) /\ f \in Seq(S)
      /\ s \in Seq(MailLines) /\ Blank \in S /\ Boundary("sign") \in S
  <2>1. s \in Seq(MailLines)
    BY WholeLines
  <2>2. b \in Seq(S) /\ f \in Seq(S) /\ <<SignHead(proto), Blank>> \in Seq(S) /\ e \in Seq(S)
        /\ <<SigHead(proto), Blank>> \in Seq(S)
    BY WrapLines
  <2>3. Blank \in S /\ Boundary("sign") \in S /\ ln \in S
    BY WireKinds DEF Bounds, SigOnly
  <2>4. <<ln>> \in Seq(S)
    BY <2>3, OneType
  <2>5. d \in Seq(S)
    BY <2>2, <2>4, ConcatType DEF SigPart, SigOnly
  <2>6. a \in Seq(S)
    BY <2>2, ConcatType DEF SignStart
  <2> QED
    BY <2>1, <2>2, <2>3, <2>5, <2>6, MailWire
<1>2. CreateSignAttach(proto, sig, s) = ((((a \o s) \o b) \o d) \o e) \o f
  BY SignIs DEF SignStart
<1>3. b = <<Blank, Boundary("sign")>> /\ e = <<Blank>> /\ t = s \o e
  BY DEF WriteBoundary
<1>4. Awaiting(Feed(p, a), proto)
  BY SignedStarts
<1> DEFINE r0 == Feed(p, a)
<1>5. Hashing(Feed(r0, t), AllHeads, <<"sign">>, t, proto, TRUE) /\ t \in Seq(MailLines)
  <2> HIDE DEF r0
  <2> QED
    BY <1>4, HashesWhole DEF r0
<1> HIDE DEF a, b, d, f, S, p, s
<1>6. Feed(r0, t) = TakeLine(Feed(r0, s), Blank)
  <2>1. Append(s, Blank) = t
    BY <1>1, <1>3, AppendOne DEF e
  <2>2. Feed(r0, Append(s, Blank)) = TakeLine(Feed(r0, s), Blank)
    BY <1>1, FeedAppend
  <2> QED
    BY <2>1, <2>2
<1>61. t # <<>>
  BY <1>1 DEF e
<1> HIDE DEF e, t
<1> DEFINE r1 == TakeLine(Feed(r0, t), Boundary("sign"))
<1>7. Past(r1, t, proto) /\ Heard(r1, 0, FALSE) /\ r1.sig = <<>>
  BY <1>5, <1>61, EndMark
<1>8. Feed(p, (a \o s) \o b) = r1
  <2>1. Feed(p, a \o s) = Feed(r0, s)
    BY <1>1, FeedConcat
  <2>2. a \o s \in Seq(S)
    BY <1>1, ConcatType
  <2>3. Feed(p, (a \o s) \o b) = Feed(Feed(p, a \o s), b)
    <3> DEFINE x == a \o s
    <3>1. x \in Seq(S) /\ b \in Seq(S)
      BY <1>1, <2>2
    <3> HIDE DEF x
    <3>2. Feed(p, x \o b) = Feed(Feed(p, x), b)
      BY ONLY <3>1, FeedConcat
    <3> QED
      BY <3>2 DEF x
  <2>4. \A z : Feed(z, b) = TakeLine(TakeLine(z, Blank), Boundary("sign"))
    BY <1>1, <1>3, FeedTwo
  <2> QED
    BY <1>6, <2>1, <2>3, <2>4
<1>9. Feed(p, ((((a \o s) \o b) \o d) \o e) \o f) = Feed(Feed(Feed(r1, d), e), f)
  <2> DEFINE x == (a \o s) \o b
  <2>1. a \o s \in Seq(S)
    BY <1>1, ConcatType
  <2>2. x \in Seq(S)
    BY <1>1, <2>1, ConcatType
  <2> HIDE DEF x, r1
  <2>3. x \o d \in Seq(S)
    BY <1>1, <2>2, ConcatType
  <2>4. (x \o d) \o e \in Seq(S)
    BY <1>1, <2>3, ConcatType
  <2>5. Feed(p, x \o d) = Feed(Feed(p, x), d)
    BY <1>1, <2>2, FeedConcat
  <2> DEFINE y == x \o d
             z == y \o e
  <2>6. Feed(p, (x \o d) \o e) = Feed(Feed(p, x \o d), e)
    <3>1. y \in Seq(S) /\ e \in Seq(S)
      BY <1>1, <2>3
    <3> HIDE DEF y
    <3>2. Feed(p, y \o e) = Feed(Feed(p, y), e)
      BY ONLY <3>1, FeedConcat
    <3> QED
      BY <3>2 DEF y
  <2>7. Feed(p, ((x \o d) \o e) \o f) = Feed(Feed(p, (x \o d) \o e), f)
    <3>1. z \in Seq(S) /\ f \in Seq(S)
      BY <1>1, <2>4
    <3> HIDE DEF y, z
    <3>2. Feed(p, z \o f) = Feed(Feed(p, z), f)
      BY ONLY <3>1, FeedConcat
    <3> QED
      BY <3>2 DEF y, z
  <2>8. Feed(p, x) = r1
    BY <1>8 DEF x
  <2> QED
    BY <2>5, <2>6, <2>7, <2>8 DEF x
<1> HIDE DEF r1
<1> DEFINE q == Feed(Feed(Feed(r1, d), e), f)
<1>10. q.data = t /\ q.open = TRUE /\ q.everything = FALSE /\ SigSeen(q, <<"sig">>)
  BY <1>7, SigRead DEF d, e, f
<1> HIDE DEF q
<1>11. Feed(p, CreateSignAttach(proto, sig, s)) = q
  BY <1>2, <1>9 DEF q
<1> QED
  BY <1>10, <1>11 DEF t, e, s, p

\* Nothing in it looks like a PGP message
LEMMA SignedUnarmored ==
  ASSUME NEW m, IsMail(m), NEW proto \in {"pgp", "cms"}, NEW sig, NEW ln,
         SigOnly(proto, sig, ln)
  PROVE  CreateSignAttach(proto, sig, AddBodyAndAttachments(m)) \in Seq(Unarmored)
<1> DEFINE s == AddBodyAndAttachments(m)
           U == Unarmored
           h == <<SignHead(proto), Blank>>
           b == WriteBoundary("sign")
           g == <<SigHead(proto), Blank>>
           l == <<ln>>
           e == <<Blank>>
           f == CloseBoundary("sign")
<1>1. CreateSignAttach(proto, sig, s) = ((((((h \o b) \o s) \o b) \o (g \o l))) \o e) \o f
  BY SignIs DEF SigPart, SigOnly
<1>2. Blank \in U /\ SignHead(proto) \in U /\ SigHead(proto) \in U /\ Boundary("sign") \in U
      /\ LastBoundary("sign") \in U /\ ln \in U
  <2>1. ln.p # <<"pgp">>
    BY DEF SigOnly
  <2> QED
    BY <2>1, UnarmoredKinds, SigHeadIs, SignHeadIs DEF Bounds, SigOnly
<1>3. s \in Seq(U)
  <2>1. s \in Seq(MailLines)
    BY WholeLines
  <2> QED
    BY <2>1, UnarmoredKinds, Seqs
<1>4. b = <<Blank, Boundary("sign")>> /\ f = <<Blank, LastBoundary("sign")>>
  BY DEF WriteBoundary, CloseBoundary
<1> HIDE DEF U, s
<1>5. h \in Seq(U) /\ b \in Seq(U) /\ g \in Seq(U) /\ l \in Seq(U) /\ e \in Seq(U) /\ f \in Seq(U)
  BY <1>2, <1>4, TwoType, OneType
<1> HIDE DEF h, b, g, l, e, f
<1>6. h \o b \in Seq(U) /\ g \o l \in Seq(U)
  BY <1>5, ConcatType
<1>7. (h \o b) \o s \in Seq(U)
  BY <1>3, <1>6, ConcatType
<1>8. ((h \o b) \o s) \o b \in Seq(U)
  BY <1>5, <1>7, ConcatType
<1>9. (((h \o b) \o s) \o b) \o (g \o l) \in Seq(U)
  BY <1>6, <1>8, ConcatType
<1>10. ((((h \o b) \o s) \o b) \o (g \o l)) \o e \in Seq(U)
  BY <1>5, <1>9, ConcatType
<1>11. (((((h \o b) \o s) \o b) \o (g \o l)) \o e) \o f \in Seq(U)
  BY <1>5, <1>10, ConcatType
<1> QED
  BY <1>1, <1>11 DEF U, s
-----------------------------------------------------------------------------
(* What data look like to GnuPG: the pieces in them.                       *)

Gist(lines) == AllPieces(Filled(lines))
PiecesIn(S) == [x \in S |-> PiecesOf(x)]
NotBlank(S) == { x \in S : ~IsBlank(x) }

LEMMA PiecesType ==
  /\ PiecesIn(WireLines) \in [WireLines -> Seq(Pieces)]
  /\ PiecesIn(MailLines) \in [MailLines -> Seq(Composed)]
<1>1. <<"text">> \in Seq(Pieces) /\ <<"text">> \in Seq(Composed)
  BY OneType DEF Pieces, Composed
<1>2. \A x \in WireLines : PiecesOf(x) \in Seq(Pieces)
  <2> SUFFICES ASSUME NEW x \in WireLines PROVE PiecesOf(x) \in Seq(Pieces)
    OBVIOUS
  <2>1. CASE x \in Calm(Pieces)
    <3>1. x.k = "data" /\ x.p \in Seq(Pieces)
      BY <2>1 DEF Calm, DataLine
    <3> QED
      BY <3>1 DEF PiecesOf
  <2>2. CASE x \notin Calm(Pieces)
    <3>1. x \in AllHeads \/ (\E b \in Bounds : x = Boundary(b) \/ x = LastBoundary(b))
      BY <2>2 DEF WireLines
    <3>2. x \in AllHeads => x \in Unarmored
      BY UnarmoredKinds
    <3>3. x.k # "data"
      <4>1. \A b \in Bounds : Boundary(b).k = "bound" /\ LastBoundary(b).k = "bound"
        BY DEF Boundary, LastBoundary
      <4>2. \A h \in AllHeads : h.k # "data"
        BY HeadKinds
      <4> QED
        BY <3>1, <4>1, <4>2
    <3> QED
      BY <1>1, <3>3 DEF PiecesOf
  <2> QED
    BY <2>1, <2>2
<1>3. \A x \in MailLines : PiecesOf(x) \in Seq(Composed)
  <2> SUFFICES ASSUME NEW x \in MailLines PROVE PiecesOf(x) \in Seq(Composed)
    OBVIOUS
  <2>1. CASE x \in Calm(Composed)
    <3>1. x.k = "data" /\ x.p \in Seq(Composed)
      BY <2>1 DEF Calm, DataLine
    <3> QED
      BY <3>1 DEF PiecesOf
  <2>2. CASE x \notin Calm(Composed)
    <3>1. \/ x \in AllHeads
          \/ \E b \in InnerBounds : x = Boundary(b) \/ x = LastBoundary(b)
      BY <2>2, HeadsAll DEF MailLines
    <3>2. x.k # "data"
      <4>1. \A b \in InnerBounds : Boundary(b).k = "bound" /\ LastBoundary(b).k = "bound"
        BY DEF Boundary, LastBoundary
      <4>2. \A h \in AllHeads : h.k # "data"
        BY HeadKinds
      <4> QED
        BY <3>1, <4>1, <4>2
    <3> QED
      BY <1>1, <3>2 DEF PiecesOf
  <2> QED
    BY <2>1, <2>2
<1> QED
  BY <1>2, <1>3 DEF PiecesIn

LEMMA FilledIs ==
  ASSUME NEW S, NEW s \in Seq(S)
  PROVE  Filled(s) = Keep(s, NotBlank(S)) /\ Filled(s) \in Seq(S)
<1>1. { i \in DOMAIN s : ~IsBlank(s[i]) } = { i \in DOMAIN s : s[i] \in NotBlank(S) }
  BY DEF NotBlank
<1>2. Filled(s) = Keep(s, NotBlank(S))
  BY <1>1 DEF Filled, Keep
<1> QED
  BY <1>2, KeepType

LEMMA AllPiecesIs ==
  ASSUME NEW S, NEW s \in Seq(S)
  PROVE  AllPieces(s) = Spread(s, PiecesIn(S))
<1>1. [i \in DOMAIN s |-> PiecesOf(s[i])] = [i \in DOMAIN s |-> PiecesIn(S)[s[i]]]
  BY DEF PiecesIn
<1> QED
  BY <1>1 DEF AllPieces, Spread

LEMMA GistIs ==
  ASSUME NEW S, NEW s \in Seq(S)
  PROVE  Gist(s) = Spread(Keep(s, NotBlank(S)), PiecesIn(S))
<1>1. Filled(s) = Keep(s, NotBlank(S)) /\ Filled(s) \in Seq(S)
  BY FilledIs
<1>2. AllPieces(Filled(s)) = Spread(Filled(s), PiecesIn(S))
  BY <1>1, AllPiecesIs
<1> QED
  BY <1>1, <1>2 DEF Gist

\* Lines that are a sequence of pieces to GnuPG
Legible(S) == PiecesIn(S) \in [S -> Seq(Pieces)]

LEMMA GistJoin ==
  ASSUME NEW S, Legible(S), NEW a \in Seq(S), NEW b \in Seq(S)
  PROVE  Gist(a \o b) = Gist(a) \o Gist(b) /\ Gist(a) \in Seq(Pieces)
<1> DEFINE V == Pieces
           P == NotBlank(S)
           F == PiecesIn(S)
           x == Keep(a, P)
           y == Keep(b, P)
           c == a \o b
<1>1. F \in [S -> Seq(V)]
  BY DEF Legible
<1>2. a \in Seq(S) /\ b \in Seq(S) /\ c \in Seq(S)
  BY ConcatType
<1> HIDE DEF V
<1>3. Gist(a) = Spread(x, F) /\ Gist(b) = Spread(y, F)
  BY <1>2, GistIs
<1>4. Gist(c) = Spread(Keep(c, P), F)
  <2> HIDE DEF c
  <2> QED
    BY <1>2, GistIs
<1> HIDE DEF P, F
<1>5. Keep(a \o b, P) = x \o y
  BY <1>2, KeepConcat
<1>6. x \in Seq(S) /\ y \in Seq(S)
  BY <1>2, KeepType
<1> HIDE DEF x, y
<1>7. Spread(x \o y, F) = Spread(x, F) \o Spread(y, F)
  BY <1>1, <1>6, SpreadConcat
<1>8. Spread(x, F) \in Seq(V)
  BY <1>1, <1>6, SpreadType
<1> QED
  BY <1>3, <1>4, <1>5, <1>7, <1>8 DEF V

LEMMA GistConcat ==
  ASSUME NEW a \in Seq(WireLines), NEW b \in Seq(WireLines)
  PROVE  Gist(a \o b) = Gist(a) \o Gist(b) /\ Gist(a) \in Seq(Pieces)
<1>1. Legible(WireLines)
  BY PiecesType DEF Legible
<1> QED
  BY <1>1, GistJoin

LEMMA GistOne ==
  ASSUME NEW x \in WireLines, x.k = "data"
  PROVE  Gist(<<x>>) = x.p
<1> DEFINE S == WireLines
           V == Pieces
           P == NotBlank(S)
           F == PiecesIn(S)
           e == <<>>
           s == <<x>>
<1>1. F \in [S -> Seq(V)]
  BY PiecesType
<1>2. x \in S /\ e \in Seq(S) /\ Append(e, x) = s /\ s \in Seq(S)
  BY NoneType, Short1
<1>3. F[x] = x.p
  BY <1>2 DEF PiecesIn, PiecesOf
<1>4. x \in P <=> x.p # <<>>
  BY DEF NotBlank, IsBlank
<1> HIDE DEF S, V, P, F, e, s
<1>5. Gist(s) = Spread(Keep(s, NotBlank(S)), PiecesIn(S))
  BY <1>2, GistIs
<1>6. Keep(Append(e, x), P) = IF x \in P THEN Append(Keep(e, P), x) ELSE Keep(e, P)
  <2>1. x \in S /\ e \in Seq(S)
    BY <1>2
  <2> QED
    BY ONLY <2>1, KeepAppend
<1>7. Keep(e, P) = e
  BY KeepNone DEF e
<1>8. CASE x \in P
  <2>1. Keep(s, P) = s
    BY <1>2, <1>6, <1>7, <1>8
  <2>2. Spread(s, F) = F[x]
    BY <1>1, <1>2, SpreadOne DEF s
  <2> QED
    BY <1>3, <1>5, <2>1, <2>2 DEF P, F, s
<1>9. CASE x \notin P
  <2>1. Keep(s, P) = e
    BY <1>2, <1>6, <1>7, <1>9
  <2>2. Spread(e, F) = e
    BY SpreadNone DEF e
  <2>3. x.p = e
    BY <1>4, <1>9 DEF e
  <2> QED
    BY <1>5, <2>1, <2>2, <2>3 DEF P, F, s
<1> QED
  BY <1>8, <1>9

\* Leaving out the empty lines changes nothing
LEMMA GistFilled ==
  ASSUME NEW S, NEW a \in Seq(S)
  PROVE  Gist(Filled(a)) = Gist(a)
<1> DEFINE P == NotBlank(S)
           f == Keep(a, P)
<1>1. a \in Seq(S)
  OBVIOUS
<1>2. Filled(a) = f /\ f \in Seq(S)
  BY <1>1, FilledIs
<1>3. Keep(f, P) = Keep(a, P \cap P)
  BY <1>1, KeepKeep
<1>4. P \cap P = P
  OBVIOUS
<1>5. Gist(a) = Spread(f, PiecesIn(S))
  BY <1>1, GistIs
<1> HIDE DEF f
<1>6. Gist(f) = Spread(Keep(f, NotBlank(S)), PiecesIn(S))
  BY <1>2, GistIs
<1>7. Keep(f, P) = f
  BY <1>3, <1>4 DEF f
<1> QED
  BY <1>2, <1>5, <1>6, <1>7 DEF P

\* Mails contain nothing that GnuPG wrote
LEMMA GistMail ==
  ASSUME NEW s \in Seq(MailLines)
  PROVE  Gist(s) \in Seq(Composed)
<1> DEFINE S == MailLines
           V == Composed
           P == NotBlank(S)
           F == PiecesIn(S)
           x == Keep(s, P)
<1>1. F \in [S -> Seq(V)] /\ s \in Seq(S)
  BY PiecesType
<1> HIDE DEF S, V
<1>2. Gist(s) = Spread(x, F)
  BY <1>1, GistIs
<1>3. x \in Seq(S)
  BY <1>1, KeepType
<1> HIDE DEF P, F, x
<1>4. Spread(x, F) \in Seq(V)
  BY <1>1, <1>3, SpreadType
<1> QED
  BY <1>2, <1>4 DEF V

-----------------------------------------------------------------------------
(* Data with one armor line, which is not the first line of a text.        *)

LEMMA SubConcat ==
  ASSUME NEW S, NEW a \in Seq(S), NEW b \in Seq(S), NEW n \in 0..Len(a \o b)
  PROVE  /\ n <= Len(a) => n \in 0..Len(a) /\ SubSeq(a \o b, 1, n) = SubSeq(a, 1, n)
         /\ n > Len(a) => /\ n - Len(a) \in 0..Len(b)
                          /\ SubSeq(a \o b, 1, n) = a \o SubSeq(b, 1, n - Len(a))
<1>1. Len(a \o b) = Len(a) + Len(b) /\ Len(a) \in Nat /\ Len(b) \in Nat /\ a \o b \in Seq(S)
  BY ConcatAt
<1>2. CASE n <= Len(a)
  <2>1. n \in 0..Len(a)
    BY <1>2
  <2>2. SubSeq(a \o b, 1, n) = SubSeq(a, 1, n)
    BY <1>1, <2>1
  <2> QED
    BY <2>1, <2>2
<1>3. CASE n > Len(a)
  <2>1. n - Len(a) \in 0..Len(b)
    BY <1>1, <1>3
  <2>2. SubSeq(a \o b, 1, n) = a \o SubSeq(b, 1, n - Len(a))
    BY <1>1, <1>3, <2>1
  <2> QED
    BY <2>1, <2>2
<1> QED
  BY <1>1, <1>2, <1>3

LEMMA QuietOnce ==
  ASSUME NEW r, IsProvider(r), r.data = <<>>, r.everything = FALSE,
         NEW x \in Seq(Unarmored), NEW z \in WireLines, NEW y \in Seq(Unarmored),
         Insert(Feed(r, x), z).cbody # 2
  PROVE  Quiet(r, (x \o <<z>>) \o y)
<1> DEFINE S == WireLines
           a == x \o <<z>>
           s == a \o y
           q == Feed(r, x)
           u == TakeLine(q, z)
<1>1. x \in Seq(S) /\ y \in Seq(S) /\ <<z>> \in Seq(S)
  BY UnarmoredKinds, Seqs, OneType
<1>2. a \in Seq(S) /\ a = Append(x, z)
  BY <1>1, ConcatType, AppendOne
<1>3. IsProvider(q) /\ q.everything = FALSE
  BY FeedQuiet
<1>4. Insert(q, z).cbody # 2
  OBVIOUS
<1> HIDE DEF q
<1>5. IsProvider(u) /\ u.everything = FALSE
  BY <1>3, <1>4, TakeQuiet
<1>6. Feed(r, a) = u
  <2> HIDE DEF a
  <2>1. Feed(r, Append(x, z)) = TakeLine(Feed(r, x), z)
    BY <1>1, FeedAppend
  <2> QED
    BY <1>2, <2>1 DEF q
<1> HIDE DEF u
<1>7. ASSUME NEW n \in 0..Len(s) PROVE Feed(r, SubSeq(s, 1, n)).everything = FALSE
  <2>1. CASE n > Len(a)
    <3> DEFINE k == n - Len(a)
               t == SubSeq(y, 1, k)
    <3>1. k \in 0..Len(y) /\ SubSeq(s, 1, n) = a \o t
      <4>1. n \in 0..Len(a \o y) /\ a \in Seq(S) /\ y \in Seq(S)
        BY <1>1, <1>2, <1>7
      <4> HIDE DEF a, S
      <4> QED
        BY ONLY <4>1, <2>1, SubConcat
    <3> HIDE DEF k, a
    <3>2. t \in Seq(Unarmored)
      BY <3>1, Prefix
    <3> HIDE DEF t
    <3>3. t \in Seq(S)
      BY <3>2, UnarmoredKinds, Seqs
    <3>4. Feed(r, a \o t) = Feed(u, t)
      <4>1. a \in Seq(S) /\ t \in Seq(S)
        BY <1>2, <3>3
      <4> HIDE DEF S
      <4>2. Feed(r, a \o t) = Feed(Feed(r, a), t)
        BY ONLY <4>1, FeedConcat
      <4> QED
        BY <1>6, <4>2
    <3>5. Feed(u, t).everything = FALSE
      BY <1>5, <3>2, FeedQuiet
    <3> QED
      BY <3>1, <3>4, <3>5
  <2>2. CASE n <= Len(a)
    <3>1. n \in 0..Len(a) /\ SubSeq(s, 1, n) = SubSeq(a, 1, n)
      <4>1. n \in 0..Len(a \o y) /\ a \in Seq(S) /\ y \in Seq(S)
        BY <1>1, <1>2, <1>7
      <4> HIDE DEF a, S
      <4> QED
        BY ONLY <4>1, <2>2, SubConcat
    <3> DEFINE e == <<z>>
    <3>2. Len(e) = 1 /\ e \in Seq(S)
      BY <1>1
    <3>3. n \in 0..Len(x \o e)
      BY <3>1
    <3> HIDE DEF e, S
    <3>4. CASE n <= Len(x)
      <4>1. n \in 0..Len(x) /\ SubSeq(x \o e, 1, n) = SubSeq(x, 1, n)
        BY <1>1, <3>2, <3>3, <3>4, SubConcat
      <4>2. SubSeq(x, 1, n) \in Seq(Unarmored)
        BY <4>1, Prefix
      <4>3. Feed(r, SubSeq(x, 1, n)).everything = FALSE
        BY <4>2, FeedQuiet
      <4> QED
        BY <3>1, <4>1, <4>3 DEF e
    <3>5. CASE n > Len(x)
      <4>0. x \in Seq(S) /\ e \in Seq(S)
        BY <1>1, <3>2
      <4>1. Len(x \o e) = Len(x) + 1 /\ Len(x) \in Nat /\ x \o e \in Seq(S)
        <5>1. Len(x \o e) = Len(x) + Len(e) /\ x \o e \in Seq(S)
          BY ONLY <4>0, ConcatAt
        <5>2. Len(x) \in Nat
          BY ONLY <4>0
        <5> QED
          BY <5>1, <5>2, <3>2
      <4>2. n = Len(x \o e)
        BY <3>3, <3>5, <4>1
      <4>3. SubSeq(x \o e, 1, n) = x \o e
        BY <4>1, <4>2
      <4> QED
        BY <1>5, <1>6, <3>1, <4>3 DEF e
    <3>6. n \in Nat /\ Len(x) \in Nat
      BY <1>1, <1>7
    <3>7. n <= Len(x) \/ n > Len(x)
      BY ONLY <3>6
    <3> QED
      BY <3>4, <3>5, <3>7
  <2>3. n \in Nat /\ Len(a) \in Nat
    <3> HIDE DEF a
    <3> QED
      BY <1>2, <1>7
  <2>4. n <= Len(a) \/ n > Len(a)
    <3> HIDE DEF a
    <3> QED
      BY ONLY <2>3
  <2> QED
    BY <2>1, <2>2, <2>4
<1> QED
  BY <1>7 DEF Quiet
-----------------------------------------------------------------------------
(* The whole structures.                                                   *)

\* Up to the header of the ciphertext
EncStart  == <<EncHead>> \o WriteBoundary("enc")
EncMiddle == TypePart \o WriteBoundary("enc")

LEMMA FeedThree ==
  ASSUME NEW S, NEW x \in S, NEW y \in S, NEW z \in S, NEW r
  PROVE  Feed(r, <<x, y, z>>) = TakeLine(TakeLine(TakeLine(r, x), y), z)
<1> DEFINE a == <<x, y>>
<1>1. <<x, y, z>> = Append(a, z) /\ a \in Seq(S)
  BY Short2, Short3
<1>2. Feed(r, a) = TakeLine(TakeLine(r, x), y)
  BY FeedTwo
<1> HIDE DEF a
<1>3. Feed(r, Append(a, z)) = TakeLine(Feed(r, a), z)
  BY <1>1, FeedAppend
<1> QED
  BY <1>1, <1>2, <1>3

LEMMA EncStarts ==
  LET q == Feed(Provider(FALSE), EncStart)
  IN Opening(q, FALSE) /\ q.inData = FALSE
<1> DEFINE p == Provider(FALSE)
           h == EncHead
           a == TakeLine(p, h)
           b == TakeLine(a, Blank)
           d == TakeLine(b, Boundary("enc"))
           L == WireLines
           u == <<h>>
           v == <<Blank, Boundary("enc")>>
<1>0. h \in L /\ Blank \in L /\ Boundary("enc") \in L /\ h \in AllHeads /\ h.k = "hdr"
  BY EncHeadsAre, WireKinds, EncStackIs DEF IsBound
<1>1. u \in Seq(L) /\ v \in Seq(L) /\ EncStart = u \o v
  BY <1>0, OneType, TwoType DEF EncStart, WriteBoundary
<1>2. Feed(p, u) = a
  BY FeedOne
<1>3. Feed(a, v) = d
  <2> HIDE DEF a, L
  <2> QED
    BY <1>0, FeedTwo
<1> HIDE DEF u, v, L, p, a, b, d
<1>4. Feed(p, EncStart) = d
  <2>1. Feed(p, u \o v) = Feed(Feed(p, u), v)
    BY <1>1, FeedConcat
  <2> QED
    BY <1>1, <1>2, <1>3, <2>1
<1> DEFINE st == <<>>
           z  == 0
           no == "none"
<1>5. st \in Seq(Bounds) /\ Frame(p, AllHeads, st) /\ z # 1 /\ Early(p, z, no)
      /\ p.inBody = FALSE /\ p.inData = FALSE
  <2>1. st \in Seq(Bounds) /\ z # 1
    BY NoneType
  <2>2. Frame(p, AllHeads, st) /\ Early(p, z, no) /\ p.inBody = FALSE /\ p.inData = FALSE
    BY FreshProvider DEF Fresh, p
  <2> QED
    BY <2>1, <2>2
<1>6. st = <<>> /\ z = 0 /\ no = "none"
  OBVIOUS
<1> HIDE DEF st, z, no, h
<1>7. Frame(a, AllHeads, st) /\ Early(a, z, no) /\ a.inBody = FALSE /\ Field(a) = h
  BY <1>0, <1>5, EarlyHead DEF a
<1>8. Opening(b, TRUE)
  BY <1>6, <1>7, EncBlank DEF h, b
<1>9. Opening(d, FALSE) /\ d.inData = FALSE
  BY <1>8, EncMark DEF d
<1> QED
  BY <1>4, <1>9 DEF p

LEMMA EncGoes ==
  ASSUME NEW r, Opening(r, FALSE), r.inData = FALSE
  PROVE  LET q == Feed(r, EncMiddle)
         IN Opening(q, FALSE) /\ q.inData = FALSE
<1> DEFINE h == TypeHead
           x == Only1("text")
           a == TakeLine(r, h)
           b == TakeLine(a, Blank)
           c == TakeLine(b, x)
           d == TakeLine(c, Blank)
           f == TakeLine(d, Boundary("enc"))
           L == WireLines
           u == <<h, Blank, x>>
           v == <<Blank, Boundary("enc")>>
<1>0. h \in L /\ Blank \in L /\ Boundary("enc") \in L /\ h \in AllHeads /\ h.k = "hdr"
      /\ x \in L /\ x.k = "data" /\ ~(x.p = <<"dash">> /\ x.e = "7bit")
  <2>1. x \in L
    BY LineTypes
  <2>2. x \in Calm(Pieces)
    BY Only1Is, PieceNames
  <2>3. x.k = "data" /\ ~(x.p = <<"dash">> /\ x.e = "7bit")
    BY <2>2, CalmIs
  <2> QED
    BY <2>1, <2>3, EncHeadsAre, WireKinds, EncStackIs DEF IsBound
<1>1. v \in Seq(L)
  BY <1>0, TwoType
<1>2. u \in Seq(L)
  BY <1>0, Short3
<1>3. EncMiddle = u \o v
  BY DEF EncMiddle, TypePart, WriteBoundary, TypeHead
<1>4. Feed(r, u) = c
  <2> HIDE DEF h, x, L
  <2> QED
    BY <1>0, FeedThree
<1>5. Feed(c, v) = f
  <2> HIDE DEF c, L
  <2> QED
    BY <1>0, FeedTwo
<1> HIDE DEF u, v, L, a, b, c, d, f, h, x
<1>6. Feed(r, EncMiddle) = f
  <2>1. Feed(r, u \o v) = Feed(Feed(r, u), v)
    BY <1>1, <1>2, FeedConcat
  <2> QED
    BY <1>3, <1>4, <1>5, <2>1
<1>7. Opening(a, FALSE) /\ Field(a) = h
  BY <1>0, EncHeadLine DEF a
<1>8. Opening(b, TRUE)
  BY <1>7, TypeBlank DEF b, h
<1>9. Opening(c, TRUE)
  BY <1>0, <1>8, EncCalm DEF c
<1>10. Opening(d, TRUE)
  BY <1>9, BlankIs, EncCalm DEF d
<1>11. Opening(f, FALSE) /\ f.inData = FALSE
  BY <1>10, EncMark DEF f
<1> QED
  BY <1>6, <1>11

LEMMA GistAppend ==
  ASSUME NEW a \in Seq(WireLines), NEW x \in WireLines, x.k = "data"
  PROVE  Gist(Append(a, x)) = Gist(a) \o x.p /\ Append(a, x) \in Seq(WireLines)
<1> DEFINE e == <<x>>
<1>1. Append(a, x) = a \o e /\ e \in Seq(WireLines) /\ Append(a, x) \in Seq(WireLines)
  BY AppendOne, OneType, AppendType
<1>2. Gist(e) = x.p
  BY GistOne
<1> HIDE DEF e
<1>3. Gist(a \o e) = Gist(a) \o Gist(e)
  BY <1>1, GistConcat
<1> QED
  BY <1>1, <1>2, <1>3

\* A provider that took the data g of a stream and was not confused by it
Took(q, g) == Gist(DataLines(q)) = g
Takes(r, s, g) ==
  /\ s \in Seq(WireLines) /\ s # <<>> /\ Quiet(r, s)
  /\ Took(ReadPart(r, s, Len(s)), g)

LEMMA ArmorLines ==
  /\ \A x \in {"pgp", "cipher", "text"} :
       /\ Only1(x) \in WireLines /\ Only1(x).k = "data" /\ Only1(x).p = <<x>>
       /\ ~(Only1(x).p = <<"dash">> /\ Only1(x).e = "7bit")
       /\ Data(Only1(x).p, "7bit", FALSE) = Only1(x)
       /\ x # "pgp" => Only1(x) \in Unarmored
  /\ Data(Blank.p, "7bit", FALSE) = Blank
<1>1. ASSUME NEW x \in {"pgp", "cipher", "text"}
      PROVE  /\ Only1(x) \in WireLines /\ Only1(x).k = "data" /\ Only1(x).p = <<x>>
             /\ ~(Only1(x).p = <<"dash">> /\ Only1(x).e = "7bit")
             /\ Data(Only1(x).p, "7bit", FALSE) = Only1(x)
             /\ x # "pgp" => Only1(x) \in Unarmored
  <2>1. x \in Within(Pieces) /\ x # "dash" /\ Only1(x) \in WireLines
    BY <1>1, PieceNames, LineTypes
  <2>2. Only1(x) \in Calm(Pieces) /\ Only1(x).k = "data" /\ Only1(x).p = <<x>>
    BY <2>1, Only1Is
  <2>3. ~(Only1(x).p = <<"dash">> /\ Only1(x).e = "7bit")
    BY <2>2, CalmIs
  <2>4. Data(Only1(x).p, "7bit", FALSE) = Only1(x)
    BY <2>2 DEF Only1
  <2>5. x # "pgp" => Only1(x).p # <<"pgp">>
    BY <2>2
  <2> QED
    BY <2>1, <2>2, <2>3, <2>4, <2>5, UnarmoredKinds
<1>2. Data(Blank.p, "7bit", FALSE) = Blank
  BY DEF Blank, Data
<1> QED
  BY <1>1, <1>2

\* What the three lines of the ciphertext become
LEMMA CipherData ==
  LET a == Append(<<Blank>>, Only1("pgp"))
      b == Append(a, Only1("cipher"))
      c == Append(b, Blank)
      d == Append(<<Blank>>, Only1("cipher"))
  IN Gist(c) = <<"pgp", "cipher">> /\ Gist(d) = <<"cipher">>
<1> DEFINE z == <<Blank>>
           x == Only1("pgp")
           y == Only1("cipher")
           a == Append(z, x)
           b == Append(a, y)
           c == Append(b, Blank)
           d == Append(z, y)
<1>1. x \in WireLines /\ x.k = "data" /\ x.p = <<"pgp">>
  BY ArmorLines
<1>2. y \in WireLines /\ y.k = "data" /\ y.p = <<"cipher">>
  BY ArmorLines
<1>3. Blank \in WireLines /\ Blank.k = "data" /\ Blank.p = <<>>
  BY WireKinds, BlankIs
<1>4. z \in Seq(WireLines) /\ Gist(z) = <<>>
  BY <1>3, OneType, GistOne
<1> HIDE DEF x, y, z
<1>5. a \in Seq(WireLines) /\ Gist(a) = Gist(z) \o x.p
  BY <1>1, <1>4, GistAppend
<1> HIDE DEF a
<1>6. b \in Seq(WireLines) /\ Gist(b) = Gist(a) \o y.p
  BY <1>2, <1>5, GistAppend
<1> HIDE DEF b
<1>7. Gist(c) = Gist(b) \o Blank.p
  BY <1>3, <1>6, GistAppend
<1>8. Gist(d) = Gist(z) \o y.p
  BY <1>2, <1>4, GistAppend
<1> HIDE DEF c, d
<1>9. Gist(d) = <<"cipher">> /\ Gist(a) = <<"pgp">>
  BY <1>1, <1>2, <1>4, <1>5, <1>8
<1>10. Gist(b) = <<"pgp", "cipher">>
  <2>1. "pgp" \in {"pgp", "cipher"} /\ "cipher" \in {"pgp", "cipher"}
    OBVIOUS
  <2>2. Append(<<"pgp">>, "cipher") = <<"pgp", "cipher">> /\ <<"pgp">> \in Seq({"pgp", "cipher"})
    BY <2>1, Short2, OneType
  <2> DEFINE u == <<"pgp">>
             v == "cipher"
  <2>3. u \in Seq({"pgp", "cipher"}) /\ v \in {"pgp", "cipher"}
    BY <2>1, <2>2
  <2>4. Gist(b) = u \o <<v>>
    BY <1>2, <1>6, <1>9
  <2> HIDE DEF u, v
  <2>5. Append(u, v) = u \o <<v>>
    BY <2>3, AppendOne
  <2> QED
    BY <2>2, <2>4, <2>5 DEF u, v
<1>11. Gist(c) = <<"pgp", "cipher">>
  BY <1>3, <1>7, <1>10
<1> QED
  BY <1>9, <1>11 DEF a, b, c, d, x, y, z

Armored == <<Only1("pgp"), Only1("cipher")>>

LEMMA PgpWhole ==
  ASSUME NEW e, NEW o, WritePlain(o) = Armored
  PROVE  CreateEncryptAttach("pgp", o, e)
           = ((((EncStart \o EncMiddle) \o <<CipherHead, Blank>>) \o <<Only1("pgp")>>)
                \o (<<Only1("cipher")>> \o CloseBoundary("enc")))
<1> DEFINE S == WireLines
           h == <<EncHead>>
           w == WriteBoundary("enc")
           t == TypePart
           k == <<CipherHead, Blank>>
           x == <<Only1("pgp")>>
           y == <<Only1("cipher")>>
           z == CloseBoundary("enc")
<1>1. CreateEncryptAttach("pgp", o, e) = (h \o w \o t \o w \o k) \o WritePlain(o) \o z
  BY PgpIs
<1>2. h \in Seq(S) /\ w \in Seq(S) /\ t \in Seq(S) /\ k \in Seq(S) /\ z \in Seq(S)
  BY WrapLines
<1>3. x \in Seq(S) /\ y \in Seq(S) /\ Armored = x \o y
  <2>1. Only1("pgp") \in S /\ Only1("cipher") \in S
    BY ArmorLines
  <2>2. x \in Seq(S) /\ y \in Seq(S)
    BY <2>1, OneType
  <2>3. Append(x, Only1("cipher")) = Armored
    BY <2>1, Short2 DEF Armored
  <2>4. Append(x, Only1("cipher")) = x \o y
    <3> DEFINE v == Only1("cipher")
    <3>1. v \in S
      BY <2>1
    <3> HIDE DEF v, x
    <3>2. Append(x, v) = x \o <<v>>
      BY <2>2, <3>1, AppendOne
    <3> QED
      BY <3>2 DEF v
  <2> QED
    BY <2>2, <2>3, <2>4
<1> HIDE DEF S, h, w, t, k, x, y, z
<1> DEFINE g == h \o w
           m == t \o w
           n == g \o m
           p == n \o k
           q == p \o x
<1>4. EncStart = g /\ EncMiddle = m
  BY DEF EncStart, EncMiddle, g, m, h, w, t
<1>5. g \in Seq(S) /\ m \in Seq(S)
  BY <1>2, ConcatType
<1>6. (g \o t) \o w = n
  <2>1. g \in Seq(S) /\ t \in Seq(S) /\ w \in Seq(S)
    BY <1>2, <1>5
  <2> HIDE DEF g
  <2> QED
    BY ONLY <2>1, ConcatThree
<1> HIDE DEF g, m
<1>7. n \in Seq(S)
  BY <1>5, ConcatType
<1> HIDE DEF n
<1>8. p \in Seq(S)
  BY <1>2, <1>7, ConcatType
<1> HIDE DEF p
<1>9. p \o (x \o y) = q \o y /\ q \in Seq(S)
  BY <1>3, <1>8, ConcatThree, ConcatType
<1> HIDE DEF q
<1>10. (q \o y) \o z = q \o (y \o z)
  <2>1. q \in Seq(S) /\ y \in Seq(S) /\ z \in Seq(S)
    BY <1>2, <1>3, <1>9
  <2> QED
    BY ONLY <2>1, ConcatThree
<1>11. h \o w \o t \o w \o k = p
  BY <1>6 DEF p, g
<1>12. CreateEncryptAttach("pgp", o, e) = (p \o (x \o y)) \o z
  BY <1>1, <1>3, <1>11
<1>13. CreateEncryptAttach("pgp", o, e) = q \o (y \o z)
  BY <1>9, <1>10, <1>12
<1>14. q = ((EncStart \o EncMiddle) \o k) \o x
  BY <1>4 DEF q, p, n
<1> QED
  BY <1>13, <1>14 DEF k, x, y, z

LEMMA FreshStart ==
  LET p == Provider(FALSE)
  IN IsProvider(p) /\ p.data = <<>> /\ p.everything = FALSE /\ Frame(p, AllHeads, <<>>)
     /\ Early(p, 0, "none") /\ p.inBody = FALSE /\ p.inData = FALSE
BY FreshProvider, ProviderIs DEF Fresh, Early

LEMMA UnarmoredParts ==
  /\ EncStart \in Seq(Unarmored) /\ EncMiddle \in Seq(Unarmored)
  /\ <<CipherHead, Blank>> \in Seq(Unarmored) /\ <<CmsHead, Blank>> \in Seq(Unarmored)
  /\ CloseBoundary("enc") \in Seq(Unarmored) /\ Seq(Unarmored) \subseteq Seq(WireLines)
<1> DEFINE U == Unarmored
           h == <<EncHead>>
           w == WriteBoundary("enc")
           t == TypePart
<1>1. EncHead \in U /\ CipherHead \in U /\ CmsHead \in U /\ TypeHead \in U /\ Blank \in U
      /\ Only1("text") \in U /\ Boundary("enc") \in U /\ LastBoundary("enc") \in U
  <2>1. EncHead \in U /\ CipherHead \in U /\ CmsHead \in U /\ TypeHead \in U
    BY EncHeadsAre, UnarmoredKinds
  <2>2. Blank \in U /\ Boundary("enc") \in U /\ LastBoundary("enc") \in U
    BY EncStackIs, UnarmoredKinds DEF IsBound
  <2>3. Only1("text") \in U
    BY ArmorLines
  <2> QED
    BY <2>1, <2>2, <2>3
<1> HIDE DEF U
<1>2. h \in Seq(U) /\ <<CipherHead, Blank>> \in Seq(U) /\ <<CmsHead, Blank>> \in Seq(U)
  BY <1>1, OneType, TwoType
<1>3. w \in Seq(U) /\ CloseBoundary("enc") \in Seq(U)
  BY <1>1, TwoType DEF WriteBoundary, CloseBoundary
<1>4. t \in Seq(U)
  <2>1. t = <<TypeHead, Blank, Only1("text")>>
    BY DEF TypePart, TypeHead
  <2> HIDE DEF t
  <2> QED
    BY <1>1, <2>1, Short3
<1> HIDE DEF h, w, t
<1>5. h \o w \in Seq(U) /\ t \o w \in Seq(U)
  BY <1>2, <1>3, <1>4, ConcatType
<1>6. EncStart \in Seq(U) /\ EncMiddle \in Seq(U)
  BY <1>5 DEF EncStart, EncMiddle, h, w, t
<1>7. Seq(U) \subseteq Seq(WireLines)
  BY UnarmoredKinds, Seqs DEF U
<1> QED
  BY <1>2, <1>3, <1>6, <1>7 DEF U

\* The ciphertext of an encrypted structure begins
LEMMA CipherStarts ==
  LET x == (EncStart \o EncMiddle) \o <<CipherHead, Blank>>
  IN /\ x \in Seq(Unarmored) /\ x # <<>>
     /\ Ciphering(Feed(Provider(FALSE), x), EncStack, <<Blank>>)
<1> DEFINE U == Unarmored
           p == Provider(FALSE)
           g == EncStart
           m == EncMiddle
           k == <<CipherHead, Blank>>
           n == g \o m
           x == n \o k
           a == Feed(p, g)
           b == Feed(a, m)
           c == TakeLine(b, CipherHead)
           d == TakeLine(c, Blank)
<1>1. g \in Seq(U) /\ m \in Seq(U) /\ k \in Seq(U) /\ k # <<>>
  BY UnarmoredParts
<1>2. Opening(a, FALSE) /\ a.inData = FALSE
  BY EncStarts
<1> HIDE DEF a
<1>3. Opening(b, FALSE) /\ b.inData = FALSE
  BY <1>2, EncGoes
<1> HIDE DEF b
<1>4. CipherHead \in AllHeads /\ CipherHead.k = "hdr"
  BY EncHeadsAre
<1>5. Opening(c, FALSE) /\ Field(c) = CipherHead
  BY <1>3, <1>4, EncHeadLine
<1>6. Feed(b, k) = d
  BY <1>4, WireKinds, FeedTwo
<1> HIDE DEF c, d, U, k, p
<1>7. EncStack \in Seq(Bounds) /\ Frame(c, AllHeads, EncStack) /\ c.inBody = FALSE /\ c.hash = 0
      /\ c.csig = 0 /\ c.everything = FALSE /\ c.cbody = 0 /\ c.data = <<>>
      /\ c.isEnc = TRUE /\ c.proto = "pgp"
  BY <1>5, EncStackIs DEF Opening
<1>8. c.nest = 1
  BY <1>7, EncStackIs DEF Frame
<1> DEFINE st == EncStack
<1>9. st \in Seq(Bounds) /\ Frame(c, AllHeads, st)
  BY <1>7
<1> HIDE DEF st
<1>10. Ciphering(TakeLine(c, Blank), st, <<Blank>>)
  BY <1>5, <1>7, <1>8, <1>9, CipherBlank
<1>11. Feed(p, x) = d
  <2> HIDE DEF g, m
  <2>1. Feed(p, g \o m) = Feed(a, m) /\ n \in Seq(U)
    BY <1>1, FeedConcat, ConcatType DEF a
  <2> HIDE DEF n
  <2>2. Feed(p, n \o k) = Feed(Feed(p, n), k)
    BY <1>1, <2>1, FeedConcat
  <2> QED
    BY <1>6, <2>1, <2>2 DEF b, n
<1>12. x \in Seq(U) /\ x # <<>>
  <2> HIDE DEF g, m
  <2>1. n \in Seq(U)
    BY <1>1, ConcatType
  <2> HIDE DEF n
  <2> QED
    BY <1>1, <2>1, ConcatType
<1> QED
  BY <1>10, <1>11, <1>12 DEF d, st, U, k, p

LEMMA PgpTaken ==
  ASSUME NEW o, WritePlain(o) = Armored, NEW e
  PROVE  Takes(Provider(FALSE), CreateEncryptAttach("pgp", o, e), <<"pgp", "cipher">>)
<1> DEFINE p == Provider(FALSE)
           x == (EncStart \o EncMiddle) \o <<CipherHead, Blank>>
           z == Only1("pgp")
           v == Only1("cipher")
           u == <<v>>
           k == CloseBoundary("enc")
           y == u \o k
           s == (x \o <<z>>) \o y
           a == Feed(p, x)
           b == TakeLine(a, z)
           c == TakeLine(b, v)
           d == TakeLine(c, Blank)
           q == TakeLine(d, LastBoundary("enc"))
           L == WireLines
           D1 == <<Blank>>
           D2 == Append(D1, z)
           D3 == Append(D2, v)
           D4 == Append(D3, Blank)
<1>1. CreateEncryptAttach("pgp", o, e) = s
  BY PgpWhole
<1>2. x \in Seq(Unarmored) /\ x # <<>> /\ Ciphering(a, EncStack, D1)
  BY CipherStarts
<1>3. z \in L /\ z.k = "data" /\ ~(z.p = <<"dash">> /\ z.e = "7bit") /\ Data(z.p, "7bit", FALSE) = z
  BY ArmorLines
<1>4. v \in L /\ v.k = "data" /\ ~(v.p = <<"dash">> /\ v.e = "7bit") /\ Data(v.p, "7bit", FALSE) = v
      /\ v \in Unarmored
  BY ArmorLines
<1>5. Blank \in L /\ Blank.k = "data" /\ ~(Blank.p = <<"dash">> /\ Blank.e = "7bit")
      /\ Data(Blank.p, "7bit", FALSE) = Blank /\ LastBoundary("enc") \in L
  BY WireKinds, BlankIs, ArmorLines, EncStackIs DEF IsBound
<1>6. p.data = <<>> /\ p.everything = FALSE /\ IsProvider(p)
  BY FreshStart
<1>7. Gist(D4) = <<"pgp", "cipher">>
  BY CipherData
<1>8. k \in Seq(Unarmored) /\ u \in Seq(Unarmored) /\ Seq(Unarmored) \subseteq Seq(L)
  BY <1>4, UnarmoredParts, OneType
<1> HIDE DEF p, x, z, v, D1, L
<1>9. Ciphering(b, EncStack, D2)
  BY <1>2, <1>3, CipherLine
<1>10. Insert(a, z) = a /\ a.cbody = 0
  BY <1>2, <1>3, InsertCalm DEF Ciphering
<1> HIDE DEF a, b, D2
<1>11. Ciphering(c, EncStack, D3)
  BY <1>4, <1>9, CipherLine
<1> HIDE DEF c, D3
<1>12. Ciphering(d, EncStack, D4)
  BY <1>5, <1>11, CipherLine
<1> HIDE DEF d, D4
<1>13. q.data = D4 /\ q.open = FALSE /\ q.everything = FALSE
  BY <1>12, CipherLast
<1>14. Feed(d, <<LastBoundary("enc")>>) = q
  BY FeedOne
<1> HIDE DEF q
<1>15. y \in Seq(Unarmored)
  <2> HIDE DEF u, k
  <2> QED
    BY <1>8, ConcatType
<1>16. Feed(b, y) = q
  <2>1. Feed(b, u) = c
    BY FeedOne DEF c
  <2>2. Feed(c, k) = q
    <3>1. k = <<Blank, LastBoundary("enc")>>
      BY DEF CloseBoundary
    <3> HIDE DEF k
    <3>2. Feed(c, <<Blank, LastBoundary("enc")>>) = TakeLine(TakeLine(c, Blank), LastBoundary("enc"))
      BY <1>5, FeedTwo
    <3> QED
      BY <3>1, <3>2 DEF d, q
  <2>3. u \in Seq(L) /\ k \in Seq(L)
    BY <1>8
  <2> HIDE DEF u, k
  <2>4. Feed(b, u \o k) = Feed(Feed(b, u), k)
    BY <2>3, FeedConcat
  <2> QED
    BY <2>1, <2>2, <2>4
<1> HIDE DEF y
<1>17. Quiet(p, s)
  <2>1. Insert(Feed(p, x), z).cbody # 2
    BY <1>10 DEF a
  <2>2. z \in WireLines
    BY <1>3 DEF L
  <2> QED
    BY <1>2, <1>6, <1>15, <2>1, <2>2, QuietOnce
<1> DEFINE w == <<z>>
           n == x \o w
<1>18. w \in Seq(L) /\ x \in Seq(L) /\ y \in Seq(L)
  BY <1>2, <1>3, <1>8, <1>15, OneType
<1>19. Feed(a, w) = b
  BY FeedOne DEF b
<1>20. s = n \o y
  OBVIOUS
<1> HIDE DEF w
<1>21. n \in Seq(L) /\ Feed(p, n) = b /\ n # <<>>
  <2>1. Feed(p, x \o w) = Feed(Feed(p, x), w) /\ x \o w \in Seq(L)
    BY <1>18, FeedConcat, ConcatType
  <2>2. x \o w # <<>>
    BY <1>2, <1>18
  <2> QED
    BY <1>19, <2>1, <2>2 DEF a
<1> HIDE DEF n, s
<1>22. s \in Seq(L) /\ Feed(p, s) = q /\ s # <<>>
  <2>1. Feed(p, n \o y) = Feed(Feed(p, n), y) /\ n \o y \in Seq(L)
    BY <1>18, <1>21, FeedConcat, ConcatType
  <2>2. n \o y # <<>>
    BY <1>18, <1>21
  <2> QED
    BY <1>16, <1>20, <1>21, <2>1, <2>2
<1>23. ReadPart(p, s, Len(s)) = q
  <2>1. SubSeq(s, 1, Len(s)) = s
    BY <1>22
  <2> QED
    BY <1>6, <1>22, <2>1 DEF ReadPart
<1>24. Took(q, <<"pgp", "cipher">>)
  BY <1>7, <1>13 DEF Took, DataLines
<1>25. Takes(p, s, <<"pgp", "cipher">>)
  BY <1>17, <1>22, <1>23, <1>24 DEF Takes, L
<1> QED
  BY <1>1, <1>25 DEF p
-----------------------------------------------------------------------------
(* What GnuPG is given when nothing looked for MIME in it.                 *)

GistOf(r) == Gist(DataLines(r))

LEMMA LegibleLines == Legible(WireLines) /\ Legible(DataLine)
<1>1. Legible(WireLines)
  BY PiecesType DEF Legible
<1>2. \A x \in DataLine : PiecesOf(x) \in Seq(Pieces)
  BY DEF DataLine, PiecesOf
<1> QED
  BY <1>1, <1>2 DEF Legible, PiecesIn

LEMMA FixUpParsed ==
  ASSUME NEW r, r.everything = FALSE
  PROVE  FixUp(r) = r
BY DEF FixUp

LEMMA CopyTaken ==
  ASSUME NEW S, NEW s \in Seq(S), NEW q, q = FixUp(CopyInput(Provider(TRUE), s))
  PROVE  GistOf(q) = Gist(s) /\ q.sig = <<>>
<1> DEFINE p == Provider(TRUE)
           r == CopyInput(p, s)
           f == Filled(s)
<1>1. IsProvider(p) /\ p.sig = <<>>
  BY ProviderIs DEF Provider
<1> HIDE DEF p
<1>2. IsProvider(r) /\ r.data = s /\ r.open = FALSE /\ r.sig = <<>>
  BY <1>1 DEF CopyInput, IsProvider, Fields
<1> HIDE DEF r
<1>3. Gist(f) = Gist(s)
  BY GistFilled
<1> HIDE DEF f
<1>4. q = r \/ q = [r EXCEPT !.data = f]
  BY <1>2 DEF FixUp, f, r, p
<1>5. CASE q = r
  BY <1>2, <1>5 DEF GistOf, DataLines
<1>6. CASE q = [r EXCEPT !.data = f]
  <2>1. q.data = f /\ q.open = FALSE /\ q.sig = <<>>
    BY <1>2, <1>6 DEF IsProvider, Fields
  <2> QED
    BY <1>3, <2>1 DEF GistOf, DataLines
<1> QED
  BY <1>4, <1>5, <1>6

LEMMA GistStarts ==
  ASSUME NEW x \in DataLine, NEW t \in Seq(DataLine)
  PROVE  /\ Gist(<<x>> \o t) = x.p \o Gist(t) /\ x.p \in Seq(Pieces) /\ Gist(t) \in Seq(Pieces)
<1> DEFINE S == DataLine
           P == NotBlank(S)
           F == PiecesIn(S)
           e == <<>>
           s == <<x>>
<1>1. Legible(S) /\ x \in S /\ e \in Seq(S) /\ Append(e, x) = s /\ s \in Seq(S) /\ t \in Seq(S)
  BY LegibleLines, NoneType, Short1
<1>2. F[x] = x.p /\ x.p \in Seq(Pieces)
  BY <1>1 DEF PiecesIn, PiecesOf, DataLine
<1>3. x \in P <=> x.p # <<>>
  BY DEF NotBlank, IsBlank, DataLine
<1>4. F \in [S -> Seq(Pieces)]
  BY <1>1 DEF Legible
<1> HIDE DEF S, P, F, e, s
<1>5. Gist(s) = Spread(Keep(s, NotBlank(S)), PiecesIn(S))
  BY <1>1, GistIs
<1>6. Keep(Append(e, x), P) = IF x \in P THEN Append(Keep(e, P), x) ELSE Keep(e, P)
  <2>1. x \in S /\ e \in Seq(S)
    BY <1>1
  <2> QED
    BY ONLY <2>1, KeepAppend
<1>7. Keep(e, P) = e
  BY KeepNone DEF e
<1>8. Gist(s) = x.p
  <2>1. CASE x \in P
    <3>1. Keep(s, P) = s
      BY <1>1, <1>6, <1>7, <2>1
    <3>2. Spread(s, F) = F[x]
      BY <1>1, <1>4, SpreadOne DEF s
    <3> QED
      BY <1>2, <1>5, <3>1, <3>2 DEF P, F
  <2>2. CASE x \notin P
    <3>1. Keep(s, P) = e
      BY <1>1, <1>6, <1>7, <2>2
    <3>2. Spread(e, F) = e
      BY SpreadNone DEF e
    <3>3. x.p = e
      BY <1>3, <2>2 DEF e
    <3> QED
      BY <1>5, <3>1, <3>2, <3>3 DEF P, F
  <2> QED
    BY <2>1, <2>2
<1>9. Gist(s \o t) = Gist(s) \o Gist(t)
  BY <1>1, GistJoin
<1>10. Gist(t) \in Seq(Pieces)
  BY <1>1, GistJoin
<1> QED
  BY <1>2, <1>8, <1>9, <1>10 DEF s

LEMMA HeadTail ==
  ASSUME NEW S, NEW s \in Seq(S), s # <<>>
  PROVE  s[1] \in S /\ Tail(s) \in Seq(S) /\ s = <<s[1]>> \o Tail(s)
OBVIOUS

\* A clear-signed body
LEMMA ClearTaken ==
  ASSUME NEW s \in Seq(DataLine), s # <<>>, s[1] = Only1("clear"),
         NEW q, q = FixUp(CopyInput(Provider(TRUE), <<Blank>> \o s))
  PROVE  /\ q.sig = <<>> /\ GistOf(q) # <<>> /\ GistOf(q)[1] = "clear"
         /\ <<Blank>> \o s \in Seq(DataLine)
<1> DEFINE x == Only1("clear")
           t == Tail(s)
           d == <<Blank>> \o s
<1>1. x \in DataLine /\ Blank \in DataLine /\ x.p = <<"clear">> /\ Blank.p = <<>>
  <2>1. "clear" \in Within(Pieces) /\ "clear" # "dash"
    BY PieceNames
  <2>2. x \in Calm(Pieces) /\ x.p = <<"clear">>
    BY <2>1, Only1Is
  <2>3. x \in DataLine
    BY <2>2 DEF Calm
  <2>4. Blank \in Calm(Composed) /\ Blank.p = <<>>
    BY LineKinds, BlankIs
  <2>5. Blank \in DataLine
    BY <2>4 DEF Calm
  <2> QED
    BY <2>2, <2>3, <2>4, <2>5
<1>2. t \in Seq(DataLine) /\ s = <<x>> \o t
  BY HeadTail
<1>3. d \in Seq(DataLine)
  BY <1>1, OneType, ConcatType
<1>4. GistOf(q) = Gist(d) /\ q.sig = <<>>
  <2> HIDE DEF d
  <2> QED
    BY <1>3, CopyTaken DEF d
<1>5. Gist(d) = Blank.p \o Gist(s) /\ Gist(s) \in Seq(Pieces)
  BY <1>1, GistStarts
<1> HIDE DEF x, t, d
<1>6. Gist(s) = x.p \o Gist(t) /\ Gist(t) \in Seq(Pieces)
  BY <1>1, <1>2, GistStarts
<1> DEFINE g == Gist(t)
<1>7. Gist(s) = <<"clear">> \o g /\ g \in Seq(Pieces) /\ Gist(d) = Gist(s)
  BY <1>1, <1>5, <1>6
<1> HIDE DEF g
<1>8. Gist(s) # <<>> /\ Gist(s)[1] = "clear"
  BY <1>7
<1> QED
  BY <1>3, <1>4, <1>7, <1>8 DEF d
-----------------------------------------------------------------------------
(* The whole of a stream, taken as its first line suggests.                *)

FirstOf(e, s) == FirstRead(Provider(e), s[1])
Whole(e, s)   == FixUp(ReadPart(FirstOf(e, s), s, Len(s)))

\* It can be cut into pieces
Flows(e, s) == /\ s \in Seq(WireLines) \/ s \in Seq(DataLine)
               /\ s # <<>> /\ Quiet(FirstOf(e, s), s)
Comes(e, s, g) == Flows(e, s) /\ GistOf(Whole(e, s)) = g

LEMMA ComesParsed ==
  ASSUME NEW e \in BOOLEAN, NEW s, NEW g, Takes(Provider(FALSE), s, g), s[1].k = "hdr"
  PROVE  Comes(e, s, g)
<1>1. s \in Seq(WireLines) /\ s # <<>> /\ Quiet(Provider(FALSE), s)
      /\ Took(ReadPart(Provider(FALSE), s, Len(s)), g)
  BY DEF Takes
<1>2. FirstOf(e, s) = Provider(FALSE)
  BY ReadFirst DEF FirstOf
<1>3. SubSeq(s, 1, Len(s)) = s
  BY <1>1
<1> DEFINE p == Provider(FALSE)
<1>4. p.everything = FALSE
  BY FreshStart
<1> DEFINE q == Feed(p, s)
<1>5. q.everything = FALSE
  <2>1. Len(s) \in 0..Len(s)
    BY <1>1
  <2>2. \A n \in 0..Len(s) : Feed(p, SubSeq(s, 1, n)).everything = FALSE
    <3>1. Quiet(p, s)
      BY <1>1
    <3> HIDE DEF p
    <3> QED
      BY <1>4, <3>1 DEF Quiet
  <2> HIDE DEF p
  <2> QED
    BY <1>3, <2>1, <2>2
<1>6. ReadPart(p, s, Len(s)) = q
  <2> HIDE DEF p
  <2> QED
    BY <1>3, <1>4 DEF ReadPart
<1> HIDE DEF q
<1>7. FixUp(q) = q
  BY <1>5, FixUpParsed
<1>8. Whole(e, s) = q
  BY <1>2, <1>6, <1>7 DEF Whole, p
<1>9. GistOf(q) = g
  BY <1>1, <1>6 DEF Took, GistOf, p
<1> QED
  BY <1>1, <1>2, <1>8, <1>9 DEF Comes, Flows

LEMMA CopyWhole ==
  ASSUME NEW S, NEW s \in Seq(S), s # <<>>, s[1].k # "hdr"
  PROVE  Quiet(FirstOf(TRUE, s), s) /\ Whole(TRUE, s) = FixUp(CopyInput(Provider(TRUE), s))
<1> DEFINE p == Provider(TRUE)
<1>1. IsProvider(p) /\ p.data = <<>> /\ p.everything = TRUE
  BY ProviderIs DEF Provider
<1>2. FirstOf(TRUE, s) = p
  BY ReadFirst DEF FirstOf
<1>3. SubSeq(s, 1, Len(s)) = s
  OBVIOUS
<1> HIDE DEF p
<1>4. Quiet(p, s)
  BY <1>1 DEF Quiet
<1>5. ReadPart(p, s, Len(s)) = CopyInput(p, s)
  BY <1>1, <1>3 DEF ReadPart
<1> QED
  BY <1>2, <1>4, <1>5 DEF Whole, p

LEMMA ComesCopied ==
  ASSUME NEW s \in Seq(WireLines), s # <<>>, s[1].k # "hdr", NEW g, Gist(s) = g
  PROVE  Comes(TRUE, s, g)
<1> DEFINE q == Whole(TRUE, s)
<1>1. Quiet(FirstOf(TRUE, s), s) /\ q = FixUp(CopyInput(Provider(TRUE), s))
  BY CopyWhole
<1> HIDE DEF q
<1>2. GistOf(q) = Gist(s)
  BY <1>1, CopyTaken
<1> QED
  BY <1>1, <1>2 DEF Comes, Flows, q

LEMMA ArmoredComes ==
  /\ Comes(TRUE, Armored, <<"pgp", "cipher">>)
  /\ Comes(TRUE, <<Blank>> \o Armored, <<"pgp", "cipher">>)
  /\ Comes(TRUE, <<Only1("cipher")>>, <<"cipher">>)
<1> DEFINE x == Only1("pgp")
           y == Only1("cipher")
           z == <<Blank>>
           a == <<x>>
           b == Append(a, y)
           c == <<y>>
           d == z \o b
<1>1. x \in WireLines /\ x.k = "data" /\ x.p = <<"pgp">>
  BY ArmorLines
<1>2. y \in WireLines /\ y.k = "data" /\ y.p = <<"cipher">>
  BY ArmorLines
<1>3. Blank \in WireLines /\ Blank.k = "data" /\ Blank.p = <<>>
  BY WireKinds, BlankIs
<1>4. Armored = b
  BY <1>1, <1>2, Short2 DEF Armored
<1>5. a \in Seq(WireLines) /\ Gist(a) = <<"pgp">> /\ a[1] = x /\ Len(a) = 1
  BY <1>1, OneType, GistOne
<1>6. c \in Seq(WireLines) /\ Gist(c) = <<"cipher">> /\ c[1] = y /\ c # <<>>
  BY <1>2, OneType, GistOne
<1>7. z \in Seq(WireLines) /\ Gist(z) = <<>> /\ z[1] = Blank /\ Len(z) = 1
  BY <1>3, OneType, GistOne
<1> HIDE DEF x, y, a, z
<1>8. b \in Seq(WireLines) /\ Gist(b) = Gist(a) \o y.p
  BY <1>2, <1>5, GistAppend
<1>9. b[1] = x /\ b # <<>>
  <2>1. y \in WireLines /\ a \in Seq(WireLines) /\ a[1] = x /\ Len(a) = 1
    BY <1>2, <1>5
  <2>2. Len(a) > 0
    BY <2>1
  <2>3. Append(a, y) \in Seq(WireLines) /\ Len(Append(a, y)) > 0 /\ Append(a, y)[1] = a[1]
    BY <2>1, <2>2, AppendFirst
  <2> QED
    BY <2>1, <2>3
<1> HIDE DEF b, c
<1>10. Gist(b) = <<"pgp", "cipher">>
  <2>1. "pgp" \in {"pgp", "cipher"} /\ "cipher" \in {"pgp", "cipher"}
    OBVIOUS
  <2>2. Append(<<"pgp">>, "cipher") = <<"pgp", "cipher">> /\ <<"pgp">> \in Seq({"pgp", "cipher"})
    BY <2>1, Short2, OneType
  <2> DEFINE u == <<"pgp">>
             v == "cipher"
  <2>3. u \in Seq({"pgp", "cipher"}) /\ v \in {"pgp", "cipher"}
    BY <2>1, <2>2
  <2>4. Gist(b) = u \o <<v>>
    BY <1>2, <1>5, <1>8
  <2> HIDE DEF u, v
  <2>5. Append(u, v) = u \o <<v>>
    BY <2>3, AppendOne
  <2> QED
    BY <2>2, <2>4, <2>5 DEF u, v
<1>11. d \in Seq(WireLines) /\ d # <<>> /\ d[1] = Blank
  <2>1. z \in Seq(WireLines) /\ z[1] = Blank /\ Len(z) = 1 /\ b \in Seq(WireLines)
    BY <1>7, <1>8
  <2>2. z \o b \in Seq(WireLines) /\ Len(z \o b) = Len(z) + Len(b)
        /\ \A i \in 1..Len(z \o b) : (z \o b)[i] = IF i <= Len(z) THEN z[i] ELSE b[i - Len(z)]
    BY <2>1, ConcatAt
  <2> HIDE DEF b, z
  <2>3. Len(b) \in Nat
    BY <2>1
  <2>4. Len(z \o b) >= 1 /\ 1 \in 1..Len(z \o b)
    BY <2>1, <2>2, <2>3
  <2>5. (z \o b)[1] = Blank
    BY <2>1, <2>2, <2>4
  <2>6. z \o b # <<>>
    BY <2>4
  <2> QED
    BY <2>2, <2>5, <2>6 DEF d
<1>12. Gist(d) = Gist(z) \o Gist(b) /\ Gist(b) \in Seq(Pieces)
  BY <1>7, <1>8, GistConcat
<1>13. Gist(d) = <<"pgp", "cipher">>
  <2> DEFINE g == Gist(b)
  <2>1. g \in Seq(Pieces) /\ Gist(d) = <<>> \o g
    BY <1>7, <1>12
  <2> HIDE DEF g
  <2>2. Gist(d) = g
    BY <2>1, ConcatNone
  <2> QED
    BY <1>10, <2>2 DEF g
<1>14. Comes(TRUE, b, <<"pgp", "cipher">>)
  <2>1. b[1].k # "hdr"
    BY <1>1, <1>9
  <2> QED
    BY <1>8, <1>9, <1>10, <2>1, ComesCopied
<1>15. Comes(TRUE, d, <<"pgp", "cipher">>)
  <2>1. d[1].k # "hdr"
    BY <1>3, <1>11
  <2> HIDE DEF d
  <2> QED
    BY <1>11, <1>13, <2>1, ComesCopied
<1>16. Comes(TRUE, c, <<"cipher">>)
  <2>1. c[1].k # "hdr"
    BY <1>2, <1>6
  <2> QED
    BY <1>6, <2>1, ComesCopied
<1> QED
  BY <1>4, <1>14, <1>15, <1>16 DEF c, d, y, z

LEMMA PgpComes ==
  ASSUME NEW o, WritePlain(o) = Armored, NEW e
  PROVE  Comes(TRUE, CreateEncryptAttach("pgp", o, e), <<"pgp", "cipher">>)
<1> DEFINE s == CreateEncryptAttach("pgp", o, e)
           a == Armored
<1>1. Takes(Provider(FALSE), s, <<"pgp", "cipher">>)
  BY PgpTaken
<1>2. a \in Seq(WireLines)
  <2>1. Only1("pgp") \in WireLines /\ Only1("cipher") \in WireLines
    BY ArmorLines
  <2> QED
    BY <2>1, TwoType DEF Armored
<1> HIDE DEF a
<1>3. WritePlain(o) \in Seq(WireLines)
  BY <1>2 DEF a
<1>4. Begins(s, EncHead)
  BY <1>3, PgpBegins
<1> HIDE DEF s
<1>5. s[1].k = "hdr"
  BY <1>4, EncHeadsAre DEF Begins
<1> QED
  BY <1>1, <1>5, ComesParsed DEF s

Coded == Data(<<"cipher">>, "b64", FALSE)

LEMMA CodedIs ==
  /\ Coded \in WireLines /\ Coded \in Unarmored /\ Coded.k = "data" /\ Coded.p = <<"cipher">>
  /\ ~(Coded.p = <<"dash">> /\ Coded.e = "7bit") /\ Data(Coded.p, "7bit", FALSE) = Only1("cipher")
<1>1. "cipher" \in Within(Pieces) /\ "cipher" # "dash" /\ Coded \in WireLines
  BY PieceNames, LineTypes DEF Coded
<1>2. Coded \in Calm(Pieces)
  BY <1>1, Only1Is DEF Coded
<1>3. Coded.k = "data" /\ Coded.p = <<"cipher">> /\ Coded.e = "b64"
  BY DEF Coded, Data
<1>4. Coded \in Unarmored
  BY <1>2, <1>3, UnarmoredKinds
<1> QED
  BY <1>1, <1>3, <1>4 DEF Only1

LEMMA CmsComes ==
  ASSUME NEW o, WriteB64(o) = <<Coded>>
  PROVE  Comes(TRUE, CreateEncryptAttach("cms", o, FALSE), <<"cipher">>)
<1> DEFINE S == WireLines
           p == Provider(FALSE)
           h == <<CmsHead, Blank>>
           x == Coded
           w == <<x>>
           s == h \o w
           a == TakeLine(p, CmsHead)
           b == TakeLine(a, Blank)
           c == TakeLine(b, x)
           st == <<>>
           D1 == <<Blank>>
           D2 == Append(D1, Only1("cipher"))
<1>1. h \in Seq(Unarmored) /\ w \in Seq(Unarmored) /\ Seq(Unarmored) \subseteq Seq(S)
  BY UnarmoredParts, CodedIs, OneType
<1>2. CreateEncryptAttach("cms", o, FALSE) = s
  <2>1. CreateEncryptAttach("cms", o, FALSE) = h \o w \o <<>>
    BY CmsIs
  <2>2. s \in Seq(Unarmored)
    <3> HIDE DEF h, w
    <3> QED
      BY <1>1, ConcatType
  <2> HIDE DEF s
  <2>3. s \o <<>> = s
    BY <2>2, ConcatNone
  <2> QED
    BY <2>1, <2>3 DEF s
<1>3. st \in Seq(Bounds) /\ Frame(p, AllHeads, st) /\ Early(p, 0, "none") /\ p.inBody = FALSE
      /\ p.inData = FALSE /\ IsProvider(p) /\ p.data = <<>> /\ p.everything = FALSE
  BY FreshStart, NoneType
<1>4. CmsHead \in AllHeads /\ CmsHead.k = "hdr" /\ CmsHead \in S /\ Blank \in S
  BY EncHeadsAre, WireKinds
<1>5. x.k = "data" /\ ~(x.p = <<"dash">> /\ x.e = "7bit") /\ Data(x.p, "7bit", FALSE) = Only1("cipher")
  BY CodedIs
<1>6. Gist(D2) = <<"cipher">>
  BY CipherData
<1> HIDE DEF p, h, x, st, D1, S
<1>7. /\ Frame(a, AllHeads, st) /\ Early(a, 0, "none") /\ a.inBody = FALSE /\ Field(a) = CmsHead
  <2> DEFINE z == 0
             no == "none"
             k == CmsHead
  <2>1. st \in Seq(Bounds) /\ z # 1 /\ Frame(p, AllHeads, st) /\ Early(p, z, no)
        /\ p.inBody = FALSE /\ p.inData = FALSE
    BY <1>3
  <2>2. k \in AllHeads /\ k.k = "hdr" /\ a = TakeLine(p, k)
    BY <1>4
  <2> HIDE DEF z, no, k, a
  <2>3. Frame(a, AllHeads, st) /\ Early(a, z, no) /\ a.inBody = FALSE /\ Field(a) = k
    BY <2>1, <2>2, EarlyHead
  <2> QED
    BY <2>3 DEF z, no, k
<1> HIDE DEF a
<1>8. a.hash = 0 /\ a.csig = 0 /\ a.everything = FALSE /\ a.cbody = 0 /\ a.data = <<>>
  BY <1>7 DEF Early
<1>9. Ciphering(b, st, <<Blank>>)
  BY <1>3, <1>7, <1>8, CipherBlank
<1> HIDE DEF b
<1>10. Ciphering(c, st, D2)
  <2>1. Ciphering(b, st, D1)
    BY <1>9 DEF D1
  <2> QED
    BY <1>5, <2>1, CipherLine
<1> HIDE DEF D2
<1>11. c.data = D2 /\ c.open = FALSE /\ c.everything = FALSE
  BY <1>10 DEF Ciphering
<1>12. Feed(p, h) = b
  BY <1>4, FeedTwo DEF h, b, a
<1>13. Feed(b, w) = c
  BY FeedOne DEF c
<1> HIDE DEF c, w
<1>14. h \in Seq(S) /\ w \in Seq(S)
  BY <1>1
<1>15. Feed(p, s) = c /\ s \in Seq(S)
  <2>1. Feed(p, h \o w) = Feed(Feed(p, h), w) /\ h \o w \in Seq(S)
    BY <1>14, FeedConcat, ConcatType
  <2> QED
    BY <1>12, <1>13, <2>1
<1>16. Quiet(p, s)
  <2>1. s \in Seq(Unarmored)
    BY <1>1, ConcatType
  <2> HIDE DEF s
  <2> QED
    BY <1>3, <2>1, QuietUnarmored
<1>17. s # <<>> /\ s[1] = CmsHead
  <2>1. h[1] = CmsHead /\ Len(h) = 2
    BY DEF h
  <2>2. Len(h \o w) = Len(h) + Len(w)
        /\ \A i \in 1..Len(h \o w) : (h \o w)[i] = IF i <= Len(h) THEN h[i] ELSE w[i - Len(h)]
    BY <1>14, ConcatAt
  <2>3. Len(w) \in Nat
    BY <1>14
  <2>4. 1 \in 1..Len(h \o w)
    BY <2>1, <2>2, <2>3
  <2>5. (h \o w)[1] = h[1]
    BY <2>1, <2>2, <2>4
  <2>6. h \o w # <<>>
    BY <2>4
  <2> QED
    BY <2>1, <2>5, <2>6 DEF s
<1> HIDE DEF s
<1>18. ReadPart(p, s, Len(s)) = c
  <2>1. SubSeq(s, 1, Len(s)) = s
    BY <1>15
  <2> QED
    BY <1>3, <1>15, <2>1 DEF ReadPart
<1>19. Took(c, <<"cipher">>)
  BY <1>6, <1>11 DEF Took, DataLines, D2
<1>20. Takes(p, s, <<"cipher">>)
  BY <1>15, <1>16, <1>17, <1>18, <1>19 DEF Takes, S
<1>21. Comes(TRUE, s, <<"cipher">>)
  <2>1. s[1].k = "hdr"
    BY <1>4, <1>17
  <2> QED
    BY <1>20, <2>1, ComesParsed DEF p
<1> QED
  BY <1>2, <1>21
-----------------------------------------------------------------------------
(* Signed data: what was signed is what is verified.                       *)

SignedFor(q, s) == SigSeen(q, <<"sig">>) /\ q.data = s \o <<Blank>> /\ q.open = TRUE

LEMMA LastOff ==
  ASSUME NEW S, NEW s \in Seq(S), NEW x \in S
  PROVE  LET d == Append(s, x)
         IN /\ d \in Seq(S) /\ Len(d) = Len(s) + 1 /\ Len(s) \in Nat
            /\ d[Len(d)] = x /\ SubSeq(d, 1, Len(d) - 1) = s
OBVIOUS

LEMMA SignedIs ==
  ASSUME NEW q, NEW s \in Seq(MailLines), SignedFor(q, s)
  PROVE  /\ q.sig # <<>> /\ Only(q.sig, { i \in DOMAIN q.sig : q.sig[i] # "nl" }) = <<"sig">>
         /\ DataLines(q) = s /\ DataEnded(q) /\ GistOf(q) \in Seq(Composed)
<1>1. q.sig \in Seq(Pieces) /\ Keep(q.sig, NotNl) = <<"sig">> /\ q.data = s \o <<Blank>> /\ q.open = TRUE
  BY DEF SignedFor, SigSeen
<1>2. { i \in DOMAIN q.sig : q.sig[i] # "nl" } = { i \in DOMAIN q.sig : q.sig[i] \in NotNl }
  BY <1>1 DEF NotNl
<1>3. Only(q.sig, { i \in DOMAIN q.sig : q.sig[i] # "nl" }) = <<"sig">>
  BY <1>1, <1>2 DEF Keep
<1>4. q.sig # <<>>
  <2>1. Keep(<<>>, NotNl) = <<>>
    BY KeepNone
  <2>2. <<"sig">> # <<>>
    OBVIOUS
  <2> QED
    BY <1>1, <2>1, <2>2
<1> DEFINE L == MailLines
           z == <<Blank>>
           d == s \o z
<1>5. Blank \in L /\ z \in Seq(L) /\ Len(z) = 1 /\ z[1] = Blank
  BY LineKinds, OneType
<1>6. d \in Seq(L) /\ Len(d) = Len(s) + 1 /\ Len(s) \in Nat /\ d[Len(d)] = Blank
      /\ SubSeq(d, 1, Len(d) - 1) = s
  <2> DEFINE x == Blank
  <2>1. s \in Seq(L) /\ x \in L
    BY <1>5
  <2> HIDE DEF L, x
  <2>2. Append(s, x) = s \o <<x>>
    BY <2>1, AppendOne
  <2>3. /\ Append(s, x) \in Seq(L) /\ Len(Append(s, x)) = Len(s) + 1 /\ Len(s) \in Nat
        /\ Append(s, x)[Len(Append(s, x))] = x
        /\ SubSeq(Append(s, x), 1, Len(Append(s, x)) - 1) = s
    BY <2>1, LastOff
  <2> QED
    BY <2>2, <2>3 DEF x
<1>7. q.data = d /\ IsBlank(Blank)
  BY <1>1, BlankIs
<1> HIDE DEF d
<1>8. DataLines(q) = s /\ DataEnded(q)
  BY <1>1, <1>6, <1>7 DEF DataLines, DataEnded
<1>9. GistOf(q) \in Seq(Composed)
  BY <1>8, GistMail DEF GistOf
<1> QED
  BY <1>3, <1>4, <1>8, <1>9

LEMMA SignedComes ==
  ASSUME NEW m, IsMail(m), NEW proto \in {"pgp", "cms"}, NEW sig, NEW ln, SigOnly(proto, sig, ln)
  PROVE  LET s == CreateSignAttach(proto, sig, AddBodyAndAttachments(m))
         IN /\ Flows(FALSE, s) /\ SignedFor(Whole(FALSE, s), AddBodyAndAttachments(m))
            /\ s \in Seq(WireLines) /\ Quiet(Provider(FALSE), s)
            /\ SignedFor(Feed(Provider(FALSE), s), AddBodyAndAttachments(m))
<1> DEFINE a == AddBodyAndAttachments(m)
           s == CreateSignAttach(proto, sig, a)
           p == Provider(FALSE)
           q == Feed(p, s)
<1>1. s \in Seq(Unarmored) /\ s \in Seq(WireLines)
  <2>1. s \in Seq(Unarmored)
    BY SignedUnarmored
  <2> HIDE DEF s
  <2> QED
    BY <2>1, UnarmoredParts
<1>2. q.data = a \o <<Blank>> /\ q.open = TRUE /\ q.everything = FALSE /\ SigSeen(q, <<"sig">>)
  BY SignedRead
<1>3. IsProvider(p) /\ p.data = <<>> /\ p.everything = FALSE
  BY FreshStart
<1>4. FirstOf(FALSE, s) = p
  <2> HIDE DEF s
  <2> QED
    BY ReadFirst DEF FirstOf
<1>5. s # <<>>
  <2>1. CASE s = <<>>
    <3>1. q = p
      <4> HIDE DEF s, p
      <4> QED
        BY <2>1, FeedNone
    <3>2. p.open = FALSE
      BY DEF Provider
    <3> HIDE DEF q, p
    <3> QED
      BY <1>2, <3>1, <3>2
  <2> QED
    BY <2>1
<1> HIDE DEF a, p, s
<1>6. Quiet(p, s)
  BY <1>1, <1>3, QuietUnarmored
<1>7. SubSeq(s, 1, Len(s)) = s
  BY <1>1
<1>8. ReadPart(p, s, Len(s)) = q
  BY <1>3, <1>7 DEF ReadPart
<1> HIDE DEF q
<1>9. FixUp(q) = q
  BY <1>2, FixUpParsed
<1>10. Whole(FALSE, s) = q
  BY <1>4, <1>8, <1>9 DEF Whole
<1>11. SignedFor(q, a)
  BY <1>2 DEF SignedFor
<1>12. Flows(FALSE, s)
  BY <1>1, <1>4, <1>5, <1>6 DEF Flows
<1> QED
  BY <1>1, <1>6, <1>10, <1>11, <1>12 DEF q, p, s, a
-----------------------------------------------------------------------------
(* What the attachment carries is taken for what it is.                    *)

FitFor(q) ==
  IF choice.encrypt
  THEN GistOf(q) = IF choice.proto = "pgp" THEN <<"pgp", "cipher">> ELSE <<"cipher">>
  ELSE IF Inline THEN q.sig = <<>> /\ GistOf(q) # <<>> /\ GistOf(q)[1] = "clear"
  ELSE SignedFor(q, Source)

\* Only what is signed and nothing else is taken as MIME from the first line
Trusting(w) == Wanted(w) # "multipart_signed"

LEMMA OurSignature ==
  ASSUME Ready
  PROVE  \E ln : SigOnly(choice.proto, Signature, ln)
<1> DEFINE a == Only1("sig")
           b == Data(<<"sig">>, "b64", FALSE)
<1>1. "sig" \in Within(Pieces) /\ "sig" # "dash"
  BY PieceNames
<1>2. a \in Calm(Pieces) /\ a.p = <<"sig">> /\ b \in Calm(Pieces)
  BY <1>1, Only1Is
<1>3. b.p = <<"sig">>
  BY DEF Data
<1>4. SigLines("pgp", <<"sig", "nl">>) = <<a>> /\ SigLines("cms", <<"sig">>) = <<b>>
  BY OutputLines
<1> HIDE DEF a, b
<1>5. choice.proto \in {"pgp", "cms"}
  BY ReadyTypes
<1>6. CASE choice.proto = "pgp"
  <2>1. SigOnly(choice.proto, Signature, a)
    BY <1>2, <1>4, <1>6 DEF SigOnly, Signature
  <2> QED
    BY <2>1
<1>7. CASE choice.proto = "cms"
  <2>1. SigOnly(choice.proto, Signature, b)
    BY <1>2, <1>3, <1>4, <1>7 DEF SigOnly, Signature
  <2> QED
    BY <2>1
<1> QED
  BY <1>5, <1>6, <1>7

LEMMA EncryptedRead ==
  ASSUME Ready, Made, choice.encrypt, NEW s \in Carriers(Wire)
  PROVE  Comes(TRUE, s, IF choice.proto = "pgp" THEN <<"pgp", "cipher">> ELSE <<"cipher">>)
<1>1. /\ choice.proto \in {"pgp", "cms"} /\ Inline \in BOOLEAN /\ choice.ex15 \in BOOLEAN
      /\ choice.encrypt = TRUE
      /\ Inline => choice.proto = "pgp"
  BY ReadyTypes
<1>2. Wire.choice = choice /\ Wire.inline = Inline /\ Wire.lines = WritePlain(output)
      /\ Wire.struct = Structure
  BY WireIs
<1>3. Structure = CreateEncryptAttach(choice.proto, output, choice.ex15 /\ choice.proto = "cms")
  BY <1>1 DEF Structure
<1>4. choice.proto = "pgp" => WritePlain(output) = Armored
  BY <1>1, Outputs DEF Armored
<1>5. choice.proto = "cms" => WritePlain(output) = <<Only1("cipher")>> /\ WriteB64(output) = <<Coded>>
  BY <1>1, Outputs DEF Coded
<1>6. IF Inline THEN s = <<Blank>> \o WritePlain(output)
      ELSE s = Structure \/ s = WritePlain(output)
  BY <1>1, <1>2 DEF Carriers
<1>7. CASE choice.proto = "pgp"
  <2>1. CASE Inline
    <3>1. s = <<Blank>> \o Armored
      BY <1>4, <1>6, <1>7, <2>1
    <3> QED
      BY <1>7, <3>1, ArmoredComes
  <2>2. CASE ~Inline
    <3>1. CASE s = Structure
      <4> DEFINE x == (choice.ex15 /\ choice.proto = "cms")
      <4>1. s = CreateEncryptAttach("pgp", output, x)
        BY <1>3, <1>7, <3>1
      <4> HIDE DEF x
      <4>2. Comes(TRUE, CreateEncryptAttach("pgp", output, x), <<"pgp", "cipher">>)
        BY <1>4, <1>7, PgpComes
      <4> QED
        BY <1>7, <4>1, <4>2
    <3>2. CASE s = WritePlain(output)
      <4>1. s = Armored
        BY <1>4, <1>7, <3>2
      <4> QED
        BY <1>7, <4>1, ArmoredComes
    <3> QED
      BY <1>6, <2>2, <3>1, <3>2
  <2> QED
    BY <1>1, <2>1, <2>2
<1>8. CASE choice.proto = "cms"
  <2>1. Inline = FALSE
    BY <1>1, <1>8
  <2>2. Comes(TRUE, <<Only1("cipher")>>, <<"cipher">>)
    BY ArmoredComes
  <2>3. CASE s = Structure /\ choice.ex15
    <3>1. s = CreateEncryptAttach("cms", output, TRUE)
      BY <1>3, <1>8, <2>3
    <3>2. s = <<>> \o WritePlain(output) \o <<>>
      BY <3>1, CmsIs
    <3> DEFINE c == <<Only1("cipher")>>
    <3>3. c \in Seq(WireLines) /\ WritePlain(output) = c
      <4>1. Only1("cipher") \in WireLines
        BY ArmorLines
      <4> QED
        BY <1>5, <1>8, <4>1, OneType
    <3> HIDE DEF c
    <3>4. <<>> \o c = c /\ c \o <<>> = c
      BY <3>3, ConcatNone
    <3>5. s = c
      BY <3>2, <3>3, <3>4
    <3> QED
      BY <1>8, <2>2, <3>5 DEF c
  <2>4. CASE s = Structure /\ ~choice.ex15
    <3>1. s = CreateEncryptAttach("cms", output, FALSE)
      BY <1>1, <1>3, <1>8, <2>4
    <3>2. Comes(TRUE, CreateEncryptAttach("cms", output, FALSE), <<"cipher">>)
      BY <1>5, <1>8, CmsComes
    <3> QED
      BY <1>8, <3>1, <3>2
  <2>5. CASE s = WritePlain(output)
    <3>1. s = <<Only1("cipher")>>
      BY <1>5, <1>8, <2>5
    <3> QED
      BY <1>8, <2>2, <3>1
  <2> QED
    BY <1>1, <1>6, <2>1, <2>3, <2>4, <2>5
<1> QED
  BY <1>1, <1>7, <1>8

LEMMA SignedRight ==
  ASSUME Ready, Made, ~choice.encrypt, ~Inline, NEW s \in Carriers(Wire)
  PROVE  Flows(FALSE, s) /\ SignedFor(Whole(FALSE, s), Source)
<1>1. /\ choice.proto \in {"pgp", "cms"} /\ IsMail(mail) /\ choice.sign = TRUE
      /\ choice.encrypt = FALSE /\ Inline = FALSE
  BY ReadyTypes
<1>2. s = Structure
  BY <1>1, WireIs DEF Carriers
<1>3. signedOver = Source /\ output = Signature /\ Source = AddBodyAndAttachments(mail)
  BY <1>1 DEF Made, Source
<1>4. s = CreateSignAttach(choice.proto, Signature, AddBodyAndAttachments(mail))
  BY <1>1, <1>2, <1>3 DEF Structure
<1>5. PICK ln : SigOnly(choice.proto, Signature, ln)
  BY OurSignature
<1> DEFINE t == CreateSignAttach(choice.proto, Signature, AddBodyAndAttachments(mail))
<1>6. Flows(FALSE, t) /\ SignedFor(Whole(FALSE, t), AddBodyAndAttachments(mail))
  BY <1>1, <1>5, SignedComes
<1> HIDE DEF t
<1>7. s = t
  BY <1>4 DEF t
<1> QED
  BY <1>3, <1>6, <1>7

LEMMA ClearRight ==
  ASSUME Ready, Made, ~choice.encrypt, Inline, NEW s \in Carriers(Wire)
  PROVE  /\ Flows(TRUE, s)
         /\ LET q == Whole(TRUE, s)
            IN q.sig = <<>> /\ GistOf(q) # <<>> /\ GistOf(q)[1] = "clear"
<1> DEFINE b == WritePlain(ClearSigned(mail.body))
           q == Whole(TRUE, s)
<1>1. mail.body \in Seq(Composed)
  BY ReadyTypes
<1>2. b \in Seq(DataLine) /\ b # <<>> /\ b[1] = Only1("clear")
  BY <1>1, ClearBegins
<1>3. s = <<Blank>> \o b
  <2>1. output = ClearSigned(mail.body)
    BY Outputs
  <2> QED
    BY <2>1, WireIs DEF Carriers
<1> HIDE DEF b
<1>4. s \in Seq(DataLine)
  BY <1>2, <1>3, ClearTaken
<1>5. s # <<>> /\ s[1].k # "hdr"
  <2> DEFINE z == <<Blank>>
  <2>1. Blank \in DataLine /\ Blank.k = "data"
    BY LineKinds, BlankIs DEF Calm
  <2>2. z \in Seq(DataLine) /\ Len(z) = 1 /\ z[1] = Blank
    BY <2>1, OneType
  <2> HIDE DEF z
  <2>3. Len(z \o b) = Len(z) + Len(b) /\ z \o b \in Seq(DataLine)
        /\ \A i \in 1..Len(z \o b) : (z \o b)[i] = IF i <= Len(z) THEN z[i] ELSE b[i - Len(z)]
    BY <1>2, <2>2, ConcatAt
  <2>4. Len(b) \in Nat
    BY <1>2
  <2>5. 1 \in 1..Len(z \o b)
    BY <2>2, <2>3, <2>4
  <2>6. (z \o b)[1] = z[1]
    BY <2>2, <2>3, <2>5
  <2>7. z \o b # <<>>
    BY <2>5
  <2> QED
    BY <1>3, <2>1, <2>2, <2>6, <2>7 DEF z
<1>6. Quiet(FirstOf(TRUE, s), s) /\ q = FixUp(CopyInput(Provider(TRUE), s))
  BY <1>4, <1>5, CopyWhole
<1> HIDE DEF q
<1>7. q = FixUp(CopyInput(Provider(TRUE), <<Blank>> \o b))
  BY <1>3, <1>6
<1>8. q.sig = <<>> /\ GistOf(q) # <<>> /\ GistOf(q)[1] = "clear"
  BY <1>2, <1>7, ClearTaken
<1> QED
  BY <1>4, <1>5, <1>6, <1>8 DEF Flows, q

LEMMA CarrierRead ==
  ASSUME Ready, Made, NEW s \in Carriers(Wire), NEW e, e = Trusting(Wire)
  PROVE  Flows(e, s) /\ FitFor(Whole(e, s))
<1>1. Wire.choice = choice /\ Wire.inline = Inline
  BY WireIs
<1>2. choice.encrypt \in BOOLEAN /\ Inline \in BOOLEAN
  BY ReadyTypes
<1>3. CASE choice.encrypt
  <2>1. e = TRUE
    BY <1>1, <1>3 DEF Trusting, Wanted
  <2>2. Comes(TRUE, s, IF choice.proto = "pgp" THEN <<"pgp", "cipher">> ELSE <<"cipher">>)
    BY <1>3, EncryptedRead
  <2> QED
    BY <1>3, <2>1, <2>2 DEF Comes, FitFor
<1>4. CASE ~choice.encrypt /\ ~Inline
  <2>1. e = FALSE
    BY <1>1, <1>4 DEF Trusting, Wanted
  <2>2. Flows(FALSE, s) /\ SignedFor(Whole(FALSE, s), Source)
    BY <1>4, SignedRight
  <2> QED
    BY <1>4, <2>1, <2>2 DEF FitFor
<1>5. CASE ~choice.encrypt /\ Inline
  <2>1. e = TRUE
    BY <1>1, <1>5 DEF Trusting, Wanted
  <2> DEFINE q == Whole(TRUE, s)
  <2>2. Flows(TRUE, s) /\ q.sig = <<>> /\ GistOf(q) # <<>> /\ GistOf(q)[1] = "clear"
    BY <1>5, ClearRight
  <2> HIDE DEF q
  <2>3. FitFor(q)
    BY <1>5, <2>2 DEF FitFor
  <2> QED
    BY <2>1, <2>2, <2>3 DEF q
<1> QED
  BY <1>2, <1>3, <1>4, <1>5
-----------------------------------------------------------------------------
(* What was encrypted is taken for what it is.                             *)

OutFor(q) == IF Inline \/ ~choice.sign THEN q.sig = <<>> ELSE SignedFor(q, Source)

LEMMA CopiedOut ==
  ASSUME NEW s
  PROVE  LET p == Provider(TRUE)
         IN Quiet(p, s) /\ WrittenPart(p, s, Len(s)).sig = <<>>
<1> DEFINE p == Provider(TRUE)
           q == CopyOutput(p, SubSeq(s, 1, Len(s)))
<1>1. IsProvider(p) /\ p.data = <<>> /\ p.everything = TRUE /\ p.sig = <<>>
  BY ProviderIs DEF Provider
<1> HIDE DEF p
<1>2. q.sig = <<>>
  BY <1>1 DEF CopyOutput, IsProvider, Fields
<1> HIDE DEF q
<1>3. WrittenPart(p, s, Len(s)) = q
  BY <1>1 DEF WrittenPart, q
<1>4. Quiet(p, s)
  BY <1>1 DEF Quiet
<1> QED
  BY <1>2, <1>3, <1>4 DEF p

LEMMA FedOut ==
  ASSUME NEW S, NEW s \in Seq(S)
  PROVE  WrittenPart(Provider(FALSE), s, Len(s)) = Feed(Provider(FALSE), s)
<1> DEFINE p == Provider(FALSE)
<1>1. p.everything = FALSE
  BY FreshStart
<1>2. SubSeq(s, 1, Len(s)) = s
  OBVIOUS
<1> HIDE DEF p
<1> QED
  BY <1>1, <1>2 DEF WrittenPart, p

LEMMA SealedRead ==
  ASSUME Ready, Made, choice.encrypt
  PROVE  /\ sealed \in Seq(WireLines) \/ sealed \in Seq(DataLine)
         /\ Quiet(Provider(Inline), sealed)
         /\ OutFor(WrittenPart(Provider(Inline), sealed, Len(sealed)))
<1>1. /\ choice.proto \in {"pgp", "cms"} /\ IsMail(mail) /\ choice.sign \in BOOLEAN
      /\ choice.encrypt = TRUE /\ Inline \in BOOLEAN /\ mail.body \in Seq(Composed)
  BY ReadyTypes
<1>2. sealed = IF choice.sign /\ ~Inline THEN CreateSignAttach(choice.proto, Signature, Source)
               ELSE Source
  BY <1>1 DEF Made
<1>3. Source = IF Inline THEN WritePlain(mail.body) ELSE AddBodyAndAttachments(mail)
  BY DEF Source
<1>4. CASE Inline
  <2> DEFINE s == WritePlain(mail.body)
  <2>1. sealed = s
    BY <1>2, <1>3, <1>4
  <2>2. s \in Seq(DataLine)
    <3> DEFINE ls == SplitLines(mail.body)
               no == FALSE
    <3>1. ls \in Seq(Seq(Pieces)) /\ no \in BOOLEAN
      BY <1>1, ComposedPieces, LinesJoin
    <3>2. s = Plainly(ls)
      BY WritePlainIs
    <3> HIDE DEF ls, no, s
    <3>3. Plainly(ls) \in Seq(DataLine)
      BY <3>1, PlainRead
    <3> QED
      BY <3>2, <3>3
  <2> HIDE DEF s
  <2> DEFINE p == Provider(TRUE)
             q == WrittenPart(p, s, Len(s))
  <2>3. Quiet(p, s) /\ q.sig = <<>>
    BY CopiedOut
  <2>4. p = Provider(Inline)
    BY <1>1, <1>4
  <2> HIDE DEF p
  <2>5. q = WrittenPart(Provider(Inline), sealed, Len(sealed))
    BY <2>1, <2>4
  <2> HIDE DEF q
  <2>6. OutFor(q)
    BY <1>4, <2>3 DEF OutFor
  <2> QED
    BY <2>1, <2>2, <2>3, <2>4, <2>5, <2>6
<1>5. CASE ~Inline /\ choice.sign
  <2> DEFINE a == AddBodyAndAttachments(mail)
             s == CreateSignAttach(choice.proto, Signature, a)
             p == Provider(FALSE)
             q == WrittenPart(p, s, Len(s))
  <2>1. sealed = s /\ Source = a
    BY <1>2, <1>3, <1>5
  <2>2. PICK ln : SigOnly(choice.proto, Signature, ln)
    BY OurSignature
  <2>3. s \in Seq(WireLines) /\ Quiet(p, s) /\ SignedFor(Feed(p, s), a)
    BY <1>1, <2>2, SignedComes
  <2> HIDE DEF s, a
  <2>4. q = Feed(p, s)
    BY <2>3, FedOut
  <2>5. p = Provider(Inline)
    BY <1>1, <1>5
  <2> HIDE DEF p
  <2>6. q = WrittenPart(Provider(Inline), sealed, Len(sealed))
    BY <2>1, <2>5
  <2> HIDE DEF q
  <2>7. OutFor(q)
    BY <1>1, <1>5, <2>1, <2>3, <2>4 DEF OutFor
  <2> QED
    BY <2>1, <2>3, <2>5, <2>6, <2>7
<1>6. CASE ~Inline /\ ~choice.sign
  <2> DEFINE s == AddBodyAndAttachments(mail)
             p == Provider(FALSE)
             q == WrittenPart(p, s, Len(s))
  <2>1. sealed = s
    BY <1>2, <1>3, <1>6
  <2>2. s \in Seq(MailLines)
    BY <1>1, WholeLines
  <2>3. p.everything = FALSE /\ p.data = <<>> /\ IsProvider(p)
    BY FreshStart
  <2> HIDE DEF s
  <2>4. s \in Seq(Unarmored) /\ s \in Seq(WireLines)
    <3>1. s \in Seq(Unarmored)
      BY <2>2, UnarmoredKinds, Seqs
    <3> QED
      BY <3>1, UnarmoredParts
  <2>5. q = Feed(p, s) /\ Feed(p, s).sig = <<>>
    BY <2>2, FedOut, TameFeed
  <2>6. p = Provider(Inline)
    BY <1>1, <1>6
  <2> HIDE DEF p
  <2>7. Quiet(p, s)
    BY <2>3, <2>4, QuietUnarmored
  <2>8. q = WrittenPart(Provider(Inline), sealed, Len(sealed))
    BY <2>1, <2>6
  <2> HIDE DEF q
  <2>9. OutFor(q)
    BY <1>6, <2>5 DEF OutFor
  <2> QED
    BY <2>1, <2>4, <2>6, <2>7, <2>8, <2>9
<1> QED
  BY <1>1, <1>4, <1>5, <1>6
-----------------------------------------------------------------------------
(* What GpgME takes the input for, and what is done with it.               *)

CipherType == IF choice.proto = "pgp" THEN "pgp_encrypted" ELSE "cms_encrypted"

LEMMA InputIs == InputPieces = GistOf(inp)
BY DEF InputPieces, GistOf, Gist

LEMMA TypeOfCipher ==
  ASSUME Ready, choice.encrypt, FitFor(inp)
  PROVE  InputType = CipherType
<1> DEFINE g == InputPieces
<1>1. g = IF choice.proto = "pgp" THEN <<"pgp", "cipher">> ELSE <<"cipher">>
  BY InputIs DEF FitFor
<1>2. InputType = CASE g = <<"pgp", "cipher">> -> "pgp_encrypted"
                    [] g = <<"cipher">> -> "cms_encrypted"
                    [] g # <<>> /\ g[1] = "clear" -> "pgp_signed"
                    [] OTHER -> "other"
  BY DEF InputType
<1> HIDE DEF g
<1>3. CASE g = <<"pgp", "cipher">>
  BY <1>1, <1>2, <1>3 DEF CipherType
<1>4. CASE g = <<"cipher">>
  BY <1>1, <1>2, <1>4 DEF CipherType
<1> QED
  BY <1>1, <1>3, <1>4

LEMMA TypeOfClear ==
  ASSUME GistOf(inp) # <<>>, GistOf(inp)[1] = "clear"
  PROVE  InputType = "pgp_signed"
<1> DEFINE g == InputPieces
<1>1. g # <<>> /\ g[1] = "clear"
  BY InputIs
<1>2. InputType = CASE g = <<"pgp", "cipher">> -> "pgp_encrypted"
                    [] g = <<"cipher">> -> "cms_encrypted"
                    [] g # <<>> /\ g[1] = "clear" -> "pgp_signed"
                    [] OTHER -> "other"
  BY DEF InputType
<1> HIDE DEF g
<1>3. g # <<"pgp", "cipher">> /\ g # <<"cipher">>
  BY <1>1
<1> QED
  BY <1>1, <1>2, <1>3

LEMMA TypeOfMail ==
  ASSUME GistOf(inp) \in Seq(Composed)
  PROVE  InputType = "other"
<1> DEFINE g == InputPieces
<1>1. g \in Seq(Composed)
  BY InputIs
<1>2. InputType = CASE g = <<"pgp", "cipher">> -> "pgp_encrypted"
                    [] g = <<"cipher">> -> "cms_encrypted"
                    [] g # <<>> /\ g[1] = "clear" -> "pgp_signed"
                    [] OTHER -> "other"
  BY DEF InputType
<1> HIDE DEF g
<1>3. g # <<>> => g[1] \in Composed
  BY <1>1
<1>4. "pgp" \notin Composed /\ "cipher" \notin Composed /\ "clear" \notin Composed
  BY DEF Composed
<1>5. g # <<"pgp", "cipher">> /\ g # <<"cipher">> /\ ~(g # <<>> /\ g[1] = "clear")
  BY <1>3, <1>4
<1> QED
  BY <1>2, <1>5

\* A provider that has read nothing
LEMMA ReadNone ==
  ASSUME NEW S, NEW s \in Seq(S), NEW e \in BOOLEAN
  PROVE  /\ ReadPart(FirstOf(e, s), s, 0) = FirstOf(e, s)
         /\ FirstOf(e, s) \in {Provider(TRUE), Provider(FALSE)}
<1> DEFINE t == SubSeq(s, 1, 0)
<1>1. t = <<>>
  OBVIOUS
<1>2. FirstOf(e, s) \in {Provider(TRUE), Provider(FALSE)}
  BY ReadFirst DEF FirstOf
<1>3. ReadPart(Provider(FALSE), s, 0) = Provider(FALSE)
  <2> DEFINE p == Provider(FALSE)
  <2>1. p.everything = FALSE
    BY FreshStart
  <2> HIDE DEF p
  <2>2. Feed(p, t) = p
    BY <1>1, FeedNone
  <2> QED
    BY <2>1, <2>2 DEF ReadPart, p
<1>4. ReadPart(Provider(TRUE), s, 0) = Provider(TRUE)
  <2> DEFINE p == Provider(TRUE)
             q == CopyInput(p, <<>>)
  <2>1. p.everything = TRUE
    BY DEF Provider
  <2>2. q = p
    <3>1. p.data = <<>> /\ p.open = FALSE
      BY DEF Provider
    <3>2. p = [x \in Fields |-> p[x]]
      BY DEF Provider, Fields
    <3> HIDE DEF p
    <3> QED
      BY <3>1, <3>2 DEF CopyInput
  <2> HIDE DEF p
  <2>3. ReadPart(p, s, 0) = CopyInput(p, t)
    BY <2>1 DEF ReadPart
  <2> QED
    BY <1>1, <2>2, <2>3 DEF p
<1> QED
  BY <1>2, <1>3, <1>4
-----------------------------------------------------------------------------
(* How a mail that is opened gets through the parser.                      *)

\* What is verified: the data that were read, or what was found in them
Again == IF choice.encrypt /\ ~Inline THEN SignedFor(inp, Source) ELSE FitFor(inp)

Due    == IF choice.sign THEN "good" ELSE "none"
Told   == decrypted = choice.encrypt /\ verdict = Due
Untold == decrypted = FALSE /\ verdict = "none" /\ outp = Provider(Inline)

\* A ciphertext that anybody could have changed
Weak == choice.proto = "cms" /\ choice.encrypt /\ ~choice.sign

InAt(e, s, g) == IF g = 0 THEN Provider(e) ELSE ReadPart(FirstOf(e, s), s, g \div 2)

PassRead ==
  /\ Untold /\ second = FALSE /\ ended = TRUE
  /\ stream \in Carriers(Wire) /\ got \in 0..(2 * Len(stream))
  /\ inp = InAt(Trusting(Wire), stream, got)

PassParse ==
  IF second THEN choice.sign /\ Told /\ Again ELSE second = FALSE /\ Untold /\ FitFor(inp)

PassWrite ==
  /\ choice.encrypt /\ decrypt = TRUE /\ errors = FALSE /\ decrypted = TRUE
  /\ verdict = IF Inline THEN Due ELSE "none"
  /\ FitFor(inp) /\ stream = sealed /\ ended = TRUE /\ got \in 0..(2 * Len(stream))
  /\ outp = WrittenPart(Provider(Inline), stream, got \div 2)

Checked == choice.sign /\ decrypted = choice.encrypt /\ Again /\ (Inline => ~choice.encrypt)

PassFinish ==
  /\ Told /\ (choice.sign => Again)
  /\ choice.encrypt /\ ~choice.sign => FitFor(inp) /\ decrypt = TRUE /\ errors = FALSE

Passing ==
  /\ pc = "read" => PassRead
  /\ pc = "parse" => PassParse
  /\ pc = "write" => PassWrite
  /\ pc \in {"verify", "copy"} => Checked
  /\ pc = "copy" => verdict = "good"
  /\ pc = "finish" => PassFinish
  /\ pc = "update_mail" => Told /\ (Weak => blockHtml = TRUE)
  /\ pc = "shown" => Told /\ (Weak => shown.asHtml = FALSE)

LEMMA FitKept ==
  ASSUME UNCHANGED written, FitFor(inp')
  PROVE  FitFor(inp)'
BY DEF FitFor, written, Inline, Source

LEMMA SignedKept ==
  ASSUME UNCHANGED written, SignedFor(inp', Source)
  PROVE  SignedFor(inp, Source)'
<1>1. Source' = Source
  BY DEF written, Source, Inline
<1> QED
  BY <1>1

\* What the parser was given stays as it is
LEMMA InputKept ==
  ASSUME UNCHANGED written, inp' = inp
  PROVE  (FitFor(inp) => FitFor(inp)') /\ (Again => Again') /\ Inline' = Inline /\ Due' = Due
         /\ (SignedFor(inp, Source) => SignedFor(inp, Source)')
<1>1. Source' = Source /\ Inline' = Inline /\ UNCHANGED choice
  BY DEF written, Source, Inline
<1>2. FitFor(inp) => FitFor(inp)'
  BY FitKept
<1>3. SignedFor(inp, Source) => SignedFor(inp, Source)'
  BY SignedKept
<1> QED
  BY <1>1, <1>2, <1>3 DEF Again, Due

\* The types of what we write
LEMMA WantedTypes ==
  ASSUME Ready, NEW t, t = Wanted(Wire)
  PROVE  /\ (choice.sign \/ choice.encrypt)
         /\ choice.sign \in BOOLEAN /\ choice.encrypt \in BOOLEAN /\ Inline \in BOOLEAN
         /\ choice.proto \in {"pgp", "cms"} /\ (Inline => choice.proto = "pgp")
         /\ (t = "multipart_signed" <=> ~choice.encrypt /\ ~Inline)
         /\ (t \in {"pgp_message", "clear_signed"} <=> Inline)
         /\ OperationForType(t) = IF choice.encrypt THEN "decrypt" ELSE "verify"
         /\ Trusting(Wire) = (t # "multipart_signed")
<1>3. Wire.choice = choice /\ Wire.inline = Inline
  BY WireIs
<1>4. /\ (choice.sign \/ choice.encrypt) /\ choice.sign \in BOOLEAN /\ choice.encrypt \in BOOLEAN
      /\ Inline \in BOOLEAN /\ choice.proto \in {"pgp", "cms"} /\ (Inline => choice.proto = "pgp")
  BY ReadyTypes
<1>5. t = IF Inline THEN IF choice.encrypt THEN "pgp_message" ELSE "clear_signed"
          ELSE IF ~choice.encrypt THEN "multipart_signed"
          ELSE IF choice.proto = "cms" THEN "opaque_encrypted" ELSE "multipart_encrypted"
  BY <1>3 DEF Wanted
<1>6. t = "multipart_signed" <=> ~choice.encrypt /\ ~Inline
  BY <1>4, <1>5
<1>7. t \in {"pgp_message", "clear_signed"} <=> Inline
  BY <1>4, <1>5
<1>8. OperationForType(t) = IF choice.encrypt THEN "decrypt" ELSE "verify"
  BY <1>4, <1>5 DEF OperationForType
<1>9. Trusting(Wire) = (t # "multipart_signed")
  BY DEF Trusting
<1> QED
  BY <1>4, <1>6, <1>7, <1>8, <1>9

LEMMA LateTypes ==
  ASSUME Handled, pc \in Late
  PROVE  /\ Ready /\ Made /\ type = Wanted(Wire) /\ (choice.sign \/ choice.encrypt)
         /\ choice.sign \in BOOLEAN /\ choice.encrypt \in BOOLEAN /\ Inline \in BOOLEAN
         /\ choice.proto \in {"pgp", "cms"} /\ (Inline => choice.proto = "pgp")
         /\ (type = "multipart_signed" <=> ~choice.encrypt /\ ~Inline)
         /\ (type \in {"pgp_message", "clear_signed"} <=> Inline)
         /\ OperationForType(type) = IF choice.encrypt THEN "decrypt" ELSE "verify"
<1>1. Ready /\ Made /\ Opened
  BY DEF Handled, MadeRight, Protected
<1>2. type = Wanted(Wire)
  BY <1>1 DEF Opened
<1> QED
  BY <1>1, <1>2, WantedTypes

\* What we wrote stays as it is
LEMMA WrittenKept ==
  ASSUME UNCHANGED written
  PROVE  /\ Wire' = Wire /\ Inline' = Inline /\ Source' = Source /\ choice' = choice
         /\ prefs' = prefs /\ sealed' = sealed /\ Due' = Due /\ (Weak <=> Weak')
<1>1. UNCHANGED <<mail, choice, prefs, output, sealed, signedOver>>
  BY DEF written
<1>2. Wire' = Wire
  BY <1>1, WireKept
<1> QED
  BY <1>1, <1>2 DEF Inline, Source, Due, Weak

LEMMA PreprocessPasses ==
  ASSUME Handled, Preprocess
  PROVE  Passing'
<1>1. Handled' /\ pc' = "read" /\ stream' = (parsed').atts[moss'].data
  BY PreprocessOpens
<1>2. UNCHANGED written
  BY DEF Preprocess
<1>3. Wire' = Wire /\ Inline' = Inline
  BY <1>2, WrittenKept
<1>4. Ready /\ Made
  BY DEF Preprocess, Handled, MadeRight, Protected
<1>5. type' = Wanted(Wire) /\ stream' \in Carriers(Wire)
  <2>1. Opened'
    BY <1>1 DEF Handled, Late
  <2> QED
    BY <1>1, <1>3, <2>1 DEF Opened
<1>6. (type' \in {"pgp_message", "clear_signed"} <=> Inline) /\ Inline \in BOOLEAN
      /\ Trusting(Wire) = (type' # "multipart_signed")
  BY <1>4, <1>5, WantedTypes
<1>7. /\ inp' = Provider(type' # "multipart_signed")
      /\ outp' = Provider(type' \in {"pgp_message", "clear_signed"})
      /\ ended' = TRUE /\ got' = 0 /\ decrypted' = FALSE /\ verdict' = "none" /\ second' = FALSE
  BY DEF Preprocess
<1>8. outp' = Provider(Inline)
  BY <1>6, <1>7
<1>9. inp' = InAt(Trusting(Wire), stream', got')
  BY <1>6, <1>7 DEF InAt
<1>10. Len(stream') \in Nat
  <2>1. Flows(Trusting(Wire), stream')
    BY <1>4, <1>5, CarrierRead
  <2> QED
    BY <2>1 DEF Flows
<1>11. got' \in 0..(2 * Len(stream'))
  BY <1>7, <1>10
<1>12. PassRead'
  BY <1>3, <1>5, <1>7, <1>8, <1>9, <1>11 DEF PassRead, Untold
<1> QED
  BY <1>1, <1>12 DEF Passing
-----------------------------------------------------------------------------
(* Reading and parsing.                                                    *)

\* What the input has when a read returned some more of the stream
NextIn(q, s, g, h) ==
  LET r     == IF g = 0 THEN FirstRead(q, s[1]) ELSE q
      lines == SubSeq(s, (g \div 2) + 1, h \div 2)
  IN IF r.everything THEN CopyInput(r, r.data \o lines) ELSE Feed(r, lines)

LEMMA LeastMore ==
  ASSUME NEW len \in Nat, NEW g \in 0..(2 * len), g # 2 * len, NEW n \in Nat \ {0}
  PROVE  Least(g + n, 2 * len) \in 0..(2 * len) /\ Least(g + n, 2 * len) # 0
BY DEF Least

\* A read of n half lines after g takes us to h
Reads(e, s, g, n, h) ==
  /\ e \in BOOLEAN /\ Flows(e, s) /\ g \in 0..(2 * Len(s)) /\ g # 2 * Len(s)
  /\ n \in Nat \ {0} /\ h = Least(g + n, 2 * Len(s))

LEMMA ReadMore ==
  ASSUME NEW e, NEW s, NEW g, NEW n, NEW h, Reads(e, s, g, n, h)
  PROVE  NextIn(InAt(e, s, g), s, g, h) = InAt(e, s, h) /\ h \in 0..(2 * Len(s))
<1>0. e \in BOOLEAN /\ Flows(e, s) /\ g \in 0..(2 * Len(s)) /\ g # 2 * Len(s)
      /\ n \in Nat \ {0} /\ h = Least(g + n, 2 * Len(s))
  BY DEF Reads
<1>1. (s \in Seq(WireLines) \/ s \in Seq(DataLine)) /\ Len(s) \in Nat /\ Quiet(FirstOf(e, s), s)
  BY <1>0 DEF Flows
<1> DEFINE len == Len(s)
<1>2. len \in Nat /\ g \in 0..(2 * len) /\ g # 2 * len
  BY <1>0, <1>1
<1> HIDE DEF len
<1>3. Least(g + n, 2 * len) \in 0..(2 * len) /\ Least(g + n, 2 * len) # 0
  BY ONLY <1>0, <1>2, LeastMore
<1>4. g \div 2 \in 0..len /\ Least(g + n, 2 * len) \div 2 \in (g \div 2)..len /\ 0 \div 2 = 0
  BY ONLY <1>0, <1>2, Pieces2
<1>5. h \in 0..(2 * len) /\ h # 0 /\ h \div 2 \in (g \div 2)..len
  BY <1>0, <1>3, <1>4 DEF len
<1> DEFINE r == IF g = 0 THEN FirstRead(InAt(e, s, g), s[1]) ELSE InAt(e, s, g)
           first == FirstOf(e, s)
           a == g \div 2
           b == h \div 2
<1>6. r = ReadPart(first, s, a)
  <2>1. CASE g = 0
    <3>1. r = first
      BY <2>1 DEF InAt, FirstOf
    <3>2. ReadPart(first, s, 0) = first
      BY <1>0, <1>1, ReadNone
    <3> QED
      BY <2>1, <3>1, <3>2, <1>4
  <2>2. CASE g # 0
    BY <2>2 DEF InAt
  <2> QED
    BY <2>1, <2>2
<1>7. InAt(e, s, h) = ReadPart(first, s, b)
  BY <1>5 DEF InAt
<1>8. NextIn(InAt(e, s, g), s, g, h)
        = IF r.everything THEN CopyInput(r, r.data \o SubSeq(s, a + 1, b))
          ELSE Feed(r, SubSeq(s, a + 1, b))
  BY DEF NextIn
<1>9. a \in 0..Len(s) /\ b \in a..Len(s) /\ Quiet(first, s)
  BY <1>1, <1>4, <1>5 DEF len
<1> HIDE DEF r, first, a, b
<1>10. (IF r.everything THEN CopyInput(r, r.data \o SubSeq(s, a + 1, b))
        ELSE Feed(r, SubSeq(s, a + 1, b))) = ReadPart(first, s, b)
  BY <1>1, <1>6, <1>9, MoreRead
<1> QED
  BY <1>5, <1>7, <1>8, <1>10 DEF len

LEMMA CarrierFlows ==
  ASSUME Ready, Made, NEW s \in Carriers(Wire)
  PROVE  /\ Trusting(Wire) \in BOOLEAN /\ Flows(Trusting(Wire), s)
         /\ Len(s) \in Nat \ {0} /\ FitFor(Whole(Trusting(Wire), s))
<1>1. Flows(Trusting(Wire), s) /\ FitFor(Whole(Trusting(Wire), s))
  BY CarrierRead
<1>2. s # <<>> /\ (s \in Seq(WireLines) \/ s \in Seq(DataLine))
  BY <1>1 DEF Flows
<1>3. Len(s) \in Nat \ {0}
  BY <1>2
<1> QED
  BY <1>1, <1>3 DEF Trusting

LEMMA TotalIs ==
  ASSUME ended = TRUE, Len(stream) \in Nat
  PROVE  Total = 2 * Len(stream) /\ (Arrived <=> got = 2 * Len(stream))
BY DEF Total, Arrived

LEMMA ReadInputPasses ==
  ASSUME Handled, Passing, NEW n \in ReadSizes, ReadInput(n)
  PROVE  Passing'
<1>1. pc = "read" /\ pc' = "read" /\ ~Arrived /\ got' = Least(got + n, Total)
  BY DEF ReadInput
<1>2. UNCHANGED <<written, stream, ended, outp, decrypted, verdict, second>>
  BY DEF ReadInput
<1>3. PassRead /\ Ready /\ Made
  BY <1>1, LateTypes DEF Passing, Late
<1>4. /\ Untold /\ second = FALSE /\ ended = TRUE
      /\ stream \in Carriers(Wire) /\ got \in 0..(2 * Len(stream))
      /\ inp = InAt(Trusting(Wire), stream, got)
  BY <1>3 DEF PassRead
<1>5. Trusting(Wire) \in BOOLEAN /\ Flows(Trusting(Wire), stream) /\ Len(stream) \in Nat \ {0}
  BY <1>3, <1>4, CarrierFlows
<1>6. got' = Least(got + n, 2 * Len(stream)) /\ got # 2 * Len(stream)
  BY <1>1, <1>4, <1>5, TotalIs
<1>7. n \in Nat \ {0}
  BY SizesAssumption
<1>8. inp' = NextIn(inp, stream, got, got')
  BY DEF ReadInput, NextIn, Lines
<1> DEFINE h == got'
           e == Trusting(Wire)
<1>9. Reads(e, stream, got, n, h)
  BY <1>4, <1>5, <1>6, <1>7 DEF Reads
<1> HIDE DEF h, e
<1>10. NextIn(InAt(e, stream, got), stream, got, h) = InAt(e, stream, h)
       /\ h \in 0..(2 * Len(stream))
  BY ONLY <1>9, ReadMore
<1>11. inp' = InAt(Trusting(Wire), stream, got') /\ got' \in 0..(2 * Len(stream))
  BY <1>4, <1>8, <1>10 DEF h, e
<1>12. Wire' = Wire /\ Inline' = Inline
  BY <1>2, WrittenKept
<1>13. PassRead'
  BY <1>2, <1>4, <1>11, <1>12 DEF PassRead, Untold
<1> QED
  BY <1>1, <1>13 DEF Passing

LEMMA InputReadPasses ==
  ASSUME Handled, Passing, InputRead
  PROVE  Passing'
<1>1. pc = "read" /\ pc' = "parse" /\ Arrived /\ inp' = FixUp(inp)
  BY DEF InputRead
<1>2. UNCHANGED <<written, outp, decrypted, verdict, second>>
  BY DEF InputRead
<1>3. PassRead /\ Ready /\ Made
  BY <1>1, LateTypes DEF Passing, Late
<1>4. /\ Untold /\ second = FALSE /\ ended = TRUE
      /\ stream \in Carriers(Wire) /\ got \in 0..(2 * Len(stream))
      /\ inp = InAt(Trusting(Wire), stream, got)
  BY <1>3 DEF PassRead
<1>5. Len(stream) \in Nat \ {0} /\ FitFor(Whole(Trusting(Wire), stream))
  BY <1>3, <1>4, CarrierFlows
<1>6. got = 2 * Len(stream)
  BY <1>1, <1>4, <1>5, TotalIs
<1> DEFINE len == Len(stream)
<1>7. len \in Nat /\ len # 0
  BY <1>5
<1> HIDE DEF len
<1>8. (2 * len) \div 2 = len /\ 2 * len # 0
  BY ONLY <1>7
<1>9. inp' = Whole(Trusting(Wire), stream)
  BY <1>1, <1>4, <1>6, <1>8 DEF len, InAt, Whole
<1>10. FitFor(inp')
  BY <1>5, <1>9
<1>11. FitFor(inp)' /\ Inline' = Inline
  BY <1>2, <1>10, FitKept, WrittenKept
<1>12. PassParse'
  BY <1>2, <1>4, <1>11 DEF PassParse, Untold
<1> QED
  BY <1>1, <1>12 DEF Passing

LEMMA SignedInput ==
  ASSUME Ready, ~Inline, NEW q, SignedFor(q, Source)
  PROVE  /\ q.sig # <<>> /\ Only(q.sig, { i \in DOMAIN q.sig : q.sig[i] # "nl" }) = <<"sig">>
         /\ DataLines(q) = Source /\ DataEnded(q) /\ GistOf(q) \in Seq(Composed)
<1>1. Source \in Seq(MailLines)
  BY ReadyTypes, WholeLines DEF Source
<1> QED
  BY <1>1, SignedIs

\* Decrypted is what is encrypted, unless the plaintext was taken apart already
Encrypted2 == choice.encrypt /\ (second => Inline)

LEMMA OperationIs ==
  ASSUME Handled, Passing, pc = "parse"
  PROVE  /\ Encrypted2 => Operation = "decrypt" /\ FitFor(inp)
                          /\ InputType \in {"pgp_encrypted", "cms_encrypted"}
         /\ ~Encrypted2 => Operation = "verify"
<1>1. /\ Ready /\ choice.sign \in BOOLEAN /\ choice.encrypt \in BOOLEAN /\ Inline \in BOOLEAN
      /\ (choice.sign \/ choice.encrypt) /\ choice.proto \in {"pgp", "cms"}
      /\ (Inline => choice.proto = "pgp")
      /\ OperationForType(type) = IF choice.encrypt THEN "decrypt" ELSE "verify"
  BY LateTypes DEF Late
<1>2. IF second THEN choice.sign /\ Told /\ Again ELSE second = FALSE /\ Untold /\ FitFor(inp)
  BY DEF Passing, PassParse
<1>3. ASSUME Encrypted2 PROVE FitFor(inp)
  BY <1>1, <1>2, <1>3 DEF Again, Encrypted2
<1>4. ASSUME Encrypted2
      PROVE  InputType = IF choice.proto = "pgp" THEN "pgp_encrypted" ELSE "cms_encrypted"
  BY <1>1, <1>3, <1>4, TypeOfCipher DEF CipherType, Encrypted2
<1>5. ASSUME Encrypted2 PROVE Operation = "decrypt"
  <2>1. InputType \in {"pgp_encrypted", "cms_encrypted"} /\ InputType # "pgp_signed"
    BY <1>1, <1>4, <1>5
  <2>2. ~(second /\ IsCms)
    <3>1. second => choice.proto = "pgp"
      BY <1>1, <1>5 DEF Encrypted2
    <3> QED
      BY <3>1 DEF IsCms
  <2>3. OperationForType(type) = "decrypt"
    BY <1>1, <1>5 DEF Encrypted2
  <2> QED
    BY <2>1, <2>2, <2>3 DEF Operation
<1>6. ASSUME ~Encrypted2 PROVE InputType = "pgp_signed" \/ (InputType = "other" /\ (second \/ ~choice.encrypt))
  <2>1. CASE choice.encrypt
    <3>1. second /\ ~Inline
      BY <1>1, <1>6, <2>1 DEF Encrypted2
    <3>2. SignedFor(inp, Source)
      BY <1>2, <2>1, <3>1 DEF Again
    <3>3. GistOf(inp) \in Seq(Composed)
      BY <1>1, <3>1, <3>2, SignedInput
    <3> QED
      BY <3>1, <3>3, TypeOfMail
  <2>2. CASE ~choice.encrypt
    <3>1. FitFor(inp)
      BY <1>1, <1>2, <2>2 DEF Again
    <3>2. CASE Inline
      <4>1. GistOf(inp) # <<>> /\ GistOf(inp)[1] = "clear"
        BY <2>2, <3>1, <3>2 DEF FitFor
      <4> QED
        BY <4>1, TypeOfClear
    <3>3. CASE ~Inline
      <4>1. SignedFor(inp, Source)
        BY <2>2, <3>1, <3>3 DEF FitFor
      <4>2. GistOf(inp) \in Seq(Composed)
        BY <1>1, <3>3, <4>1, SignedInput
      <4> QED
        BY <2>2, <4>2, TypeOfMail
    <3> QED
      BY <3>2, <3>3
  <2> QED
    BY <2>1, <2>2
<1>7. ASSUME ~Encrypted2 PROVE Operation = "verify"
  <2>1. CASE InputType = "pgp_signed"
    BY <2>1 DEF Operation
  <2>2. CASE InputType = "other" /\ second
    BY <2>2 DEF Operation
  <2>3. CASE InputType = "other" /\ ~second /\ ~choice.encrypt
    <3>1. OperationForType(type) = "verify"
      BY <1>1, <2>3
    <3> QED
      BY <2>3, <3>1 DEF Operation
  <2> QED
    BY <1>6, <1>7, <2>1, <2>2, <2>3
<1> QED
  BY <1>1, <1>3, <1>4, <1>5, <1>7

LEMMA SealedLong ==
  ASSUME Ready, Made, choice.encrypt
  PROVE  /\ Len(sealed) \in Nat /\ WrittenPart(Provider(Inline), sealed, 0) = Provider(Inline)
<1>1. Inline \in BOOLEAN /\ (sealed \in Seq(WireLines) \/ sealed \in Seq(DataLine))
  BY ReadyTypes, SealedRead
<1> QED
  BY <1>1, PartNone

LEMMA StartParsePasses ==
  ASSUME Handled, Passing, StartParse
  PROVE  Passing'
<1>1. pc = "parse" /\ UNCHANGED <<written, inp, second>>
      /\ decrypt' = (Operation = "decrypt")
      /\ outp' = IF second THEN Provider(type \in {"pgp_message", "clear_signed"}) ELSE outp
  BY DEF StartParse
<1>2. /\ Ready /\ Made /\ choice.sign \in BOOLEAN /\ choice.encrypt \in BOOLEAN /\ Inline \in BOOLEAN
      /\ (choice.sign \/ choice.encrypt)
      /\ (type \in {"pgp_message", "clear_signed"} <=> Inline)
  BY <1>1, LateTypes DEF Late
<1>3. IF second THEN choice.sign /\ Told /\ Again ELSE second = FALSE /\ Untold /\ FitFor(inp)
  BY <1>1 DEF Passing, PassParse
<1>4. Inline' = Inline /\ choice' = choice /\ sealed' = sealed /\ Due' = Due
  BY <1>1, WrittenKept
<1>5. CASE Encrypted2
  <2>1. Operation = "decrypt" /\ FitFor(inp) /\ InputType \in {"pgp_encrypted", "cms_encrypted"}
    BY <1>1, <1>5, OperationIs
  <2>2. decrypt' = TRUE
    BY <1>1, <2>1
  <2>3. /\ decrypted' = TRUE /\ errors' = FALSE
        /\ verdict' = IF Inline /\ choice.sign THEN "good" ELSE verdict
        /\ stream' = sealed /\ ended' = TRUE /\ got' = 0 /\ pc' = "write"
    BY <2>1, <2>2 DEF StartParse
  <2>4. verdict' = IF Inline THEN Due ELSE "none"
    BY <1>2, <1>3, <1>5, <2>3 DEF Due, Untold, Told, Encrypted2
  <2>5. outp' = Provider(Inline)
    BY <1>1, <1>2, <1>3 DEF Untold
  <2>6. choice.encrypt
    BY <1>5 DEF Encrypted2
  <2>7. Len(sealed) \in Nat /\ outp' = WrittenPart(Provider(Inline), sealed, 0)
    BY <1>2, <2>5, <2>6, SealedLong
  <2>8. FitFor(inp)'
    BY <1>1, <2>1, InputKept
  <2>9. 0 \in 0..(2 * Len(sealed)) /\ 0 \div 2 = 0
    BY <2>7
  <2>10. PassWrite'
    BY <1>4, <2>2, <2>3, <2>4, <2>6, <2>7, <2>8, <2>9 DEF PassWrite
  <2> QED
    BY <2>3, <2>10 DEF Passing
<1>6. CASE ~Encrypted2
  <2>1. Operation = "verify"
    BY <1>1, <1>6, OperationIs
  <2>2. decrypt' = FALSE
    BY <1>1, <2>1
  <2>3. pc' = "verify" /\ decrypted' = decrypted
    BY <2>2 DEF StartParse
  <2>4. choice.sign /\ decrypted = choice.encrypt /\ Again /\ (Inline => ~choice.encrypt)
    BY <1>2, <1>3, <1>6 DEF Untold, Told, Encrypted2, Again
  <2>5. Again'
    BY <1>1, <2>4, InputKept
  <2>6. Checked'
    BY <1>4, <2>3, <2>4, <2>5 DEF Checked
  <2> QED
    BY <2>3, <2>6 DEF Passing
<1> QED
  BY <1>5, <1>6
-----------------------------------------------------------------------------
(* The plaintext, and what is verified in it.                              *)

\* What the output has when GnuPG wrote some more
LEMMA WriteMore ==
  ASSUME NEW r, NEW s, s \in Seq(WireLines) \/ s \in Seq(DataLine), Quiet(r, s),
         NEW g \in 0..(2 * Len(s)), NEW n \in Nat, NEW h, h = Least(g + n, 2 * Len(s))
  PROVE  LET q == WrittenPart(r, s, g \div 2)
         IN /\ (IF q.everything THEN CopyOutput(q, SubSeq(s, 1, h \div 2))
                ELSE Feed(q, SubSeq(s, (g \div 2) + 1, h \div 2))) = WrittenPart(r, s, h \div 2)
            /\ h \in 0..(2 * Len(s))
<1>1. Len(s) \in Nat
  OBVIOUS
<1> DEFINE len == Len(s)
<1>2. len \in Nat /\ g \in 0..(2 * len)
  BY <1>1
<1> HIDE DEF len
<1>3. /\ Least(g + n, 2 * len) \in g..(2 * len)
      /\ g \div 2 \in 0..len /\ Least(g + n, 2 * len) \div 2 \in (g \div 2)..len
  BY ONLY <1>2, n \in Nat, Pieces2
<1>4. h \in g..(2 * len) /\ h \div 2 \in (g \div 2)..len
  BY <1>3 DEF len
<1>5. h \in 0..(2 * len)
  BY ONLY <1>2, <1>4
<1> DEFINE a == g \div 2
           b == h \div 2
           q == WrittenPart(r, s, a)
<1>6. a \in 0..Len(s) /\ b \in a..Len(s) /\ q = WrittenPart(r, s, a)
  BY <1>3, <1>4 DEF len
<1> HIDE DEF a, b, q
<1>7. (IF q.everything THEN CopyOutput(q, SubSeq(s, 1, b)) ELSE Feed(q, SubSeq(s, a + 1, b)))
        = WrittenPart(r, s, b)
  BY <1>6, MoreWritten
<1> QED
  BY <1>5, <1>7 DEF a, b, q, len

LEMMA WriteOutputPasses ==
  ASSUME Handled, Passing, NEW n \in WriteSizes, WriteOutput(n)
  PROVE  Passing'
<1>1. pc \in {"write", "copy"} /\ pc' = pc /\ got' = Least(got + n, Total)
      /\ outp' = IF outp.everything THEN CopyOutput(outp, SubSeq(stream, 1, got' \div 2))
                 ELSE Feed(outp, Lines(got, got'))
  BY DEF WriteOutput
<1>2. UNCHANGED <<written, stream, ended, inp, decrypt, errors, decrypted, verdict>>
  BY DEF WriteOutput
<1>3. Inline' = Inline /\ choice' = choice /\ sealed' = sealed /\ Due' = Due
  BY <1>2, WrittenKept
<1>4. CASE pc = "copy"
  <2>1. Checked /\ verdict = "good"
    BY <1>4 DEF Passing
  <2>2. Again'
    BY <1>2, <2>1, InputKept DEF Checked
  <2>3. Checked'
    BY <1>2, <1>3, <2>1, <2>2 DEF Checked
  <2> QED
    BY <1>1, <1>2, <1>4, <2>1, <2>3 DEF Passing
<1>5. CASE pc = "write"
  <2>1. PassWrite /\ Ready /\ Made
    BY <1>5, LateTypes DEF Passing, Late
  <2>2. /\ choice.encrypt /\ FitFor(inp) /\ stream = sealed /\ ended = TRUE
        /\ got \in 0..(2 * Len(stream))
        /\ outp = WrittenPart(Provider(Inline), stream, got \div 2)
    BY <2>1 DEF PassWrite
  <2>3. (stream \in Seq(WireLines) \/ stream \in Seq(DataLine)) /\ Quiet(Provider(Inline), stream)
    BY <2>1, <2>2, SealedRead
  <2>4. Len(stream) \in Nat
    BY <2>3
  <2>5. got' = Least(got + n, 2 * Len(stream)) /\ n \in Nat
    BY <1>1, <2>2, <2>4, TotalIs, SizesAssumption
  <2> DEFINE r == Provider(Inline)
             h == got'
             q == WrittenPart(r, stream, got \div 2)
  <2>6. /\ Quiet(r, stream) /\ h = Least(got + n, 2 * Len(stream))
        /\ outp' = IF q.everything THEN CopyOutput(q, SubSeq(stream, 1, h \div 2))
                   ELSE Feed(q, SubSeq(stream, (got \div 2) + 1, h \div 2))
    BY <1>1, <2>2, <2>3, <2>5 DEF Lines
  <2> HIDE DEF r, h
  <2>7. /\ (IF q.everything THEN CopyOutput(q, SubSeq(stream, 1, h \div 2))
            ELSE Feed(q, SubSeq(stream, (got \div 2) + 1, h \div 2))) = WrittenPart(r, stream, h \div 2)
        /\ h \in 0..(2 * Len(stream))
    BY <2>2, <2>3, <2>5, <2>6, WriteMore
  <2>8. outp' = WrittenPart(Provider(Inline), stream, got' \div 2) /\ got' \in 0..(2 * Len(stream))
    BY <2>6, <2>7 DEF r, h
  <2>9. FitFor(inp)'
    BY <1>2, <2>2, InputKept
  <2>10. PassWrite'
    BY <1>2, <1>3, <2>1, <2>8, <2>9 DEF PassWrite
  <2> QED
    BY <1>1, <1>5, <2>10 DEF Passing
<1> QED
  BY <1>1, <1>4, <1>5

LEMMA DecryptedPasses ==
  ASSUME Handled, Passing, Decrypted
  PROVE  Passing'
<1>1. pc = "write" /\ Arrived /\ verify' = (~errors /\ verdict = "none" /\ outp.sig # <<>>)
      /\ IF verify' THEN inp' = outp /\ outp' = Provider(FALSE) /\ pc' = "verify"
                    ELSE pc' = "finish" /\ UNCHANGED <<inp, outp>>
  BY DEF Decrypted
<1>2. UNCHANGED <<written, decrypt, errors, decrypted, verdict>>
  BY DEF Decrypted
<1>3. Inline' = Inline /\ choice' = choice /\ Due' = Due /\ Source' = Source
  BY <1>2, WrittenKept
<1>4. PassWrite /\ Ready /\ Made /\ Inline \in BOOLEAN /\ choice.sign \in BOOLEAN
      /\ choice.encrypt \in BOOLEAN
  BY <1>1, LateTypes DEF Passing, Late
<1>5. /\ choice.encrypt /\ decrypt = TRUE /\ errors = FALSE /\ decrypted = TRUE
      /\ verdict = IF Inline THEN Due ELSE "none"
      /\ FitFor(inp) /\ stream = sealed /\ ended = TRUE
      /\ outp = WrittenPart(Provider(Inline), stream, got \div 2)
  BY <1>4 DEF PassWrite
<1>6. OutFor(outp)
  <2>1. Len(stream) \in Nat /\ OutFor(WrittenPart(Provider(Inline), stream, Len(stream)))
    BY <1>4, <1>5, SealedRead, SealedLong
  <2>2. got = 2 * Len(stream)
    BY <1>1, <1>5, <2>1, TotalIs
  <2>3. got \div 2 = Len(stream)
    BY <2>1, <2>2
  <2> QED
    BY <1>5, <2>1, <2>3
<1>7. CASE Inline \/ ~choice.sign
  <2>1. outp.sig = <<>>
    BY <1>6, <1>7 DEF OutFor
  <2>2. pc' = "finish" /\ UNCHANGED inp
    BY <1>1, <2>1
  <2>3. Told
    BY <1>4, <1>5, <1>7 DEF Told, Due
  <2>4. Told'
    BY <1>2, <1>3, <2>3 DEF Told
  <2>5. choice.sign => Again
    BY <1>5, <1>7 DEF Again
  <2>6. (choice.sign => Again') /\ FitFor(inp)'
    BY <1>2, <1>5, <2>2, <2>5, InputKept
  <2>7. PassFinish'
    BY <1>2, <1>3, <1>5, <2>4, <2>6 DEF PassFinish
  <2> QED
    BY <2>2, <2>7 DEF Passing
<1>8. CASE ~Inline /\ choice.sign
  <2>1. SignedFor(outp, Source)
    BY <1>6, <1>8 DEF OutFor
  <2>2. outp.sig # <<>>
    BY <1>4, <1>8, <2>1, SignedInput
  <2>3. pc' = "verify" /\ inp' = outp
    BY <1>1, <1>5, <1>8, <2>2
  <2>4. SignedFor(inp', Source)
    BY <2>1, <2>3
  <2>5. SignedFor(inp, Source)'
    BY <1>2, <2>4, SignedKept
  <2>6. Again'
    BY <1>3, <1>5, <1>8, <2>5 DEF Again
  <2>7. Checked'
    BY <1>2, <1>3, <1>4, <1>5, <1>8, <2>6 DEF Checked
  <2> QED
    BY <2>3, <2>7 DEF Passing
<1> QED
  BY <1>4, <1>7, <1>8

\* What was signed is what is verified
LEMMA SignatureRight ==
  ASSUME Ready, Made, choice.sign, ~Inline, SignedFor(inp, Source)
  PROVE  inp.sig # <<>> /\ SignatureHolds
<1>1. /\ inp.sig # <<>> /\ Only(inp.sig, { i \in DOMAIN inp.sig : inp.sig[i] # "nl" }) = <<"sig">>
      /\ DataLines(inp) = Source /\ DataEnded(inp)
  BY SignedInput
<1>2. signedOver = Source
  BY DEF Made
<1> QED
  BY <1>1, <1>2 DEF SignatureHolds

LEMMA VerifyPasses ==
  ASSUME Handled, Passing, Verify
  PROVE  Passing'
<1>1. pc = "verify" /\ pc' = "copy" /\ UNCHANGED <<written, inp, decrypted>>
      /\ verdict' = IF inp.sig # <<>> THEN IF SignatureHolds THEN "good" ELSE "bad"
                    ELSE IF InputType = "pgp_signed" THEN "good" ELSE verdict
  BY DEF Verify
<1>2. Inline' = Inline /\ choice' = choice
  BY <1>1, WrittenKept
<1>3. Checked /\ Ready /\ Made /\ Inline \in BOOLEAN /\ choice.encrypt \in BOOLEAN
  BY <1>1, LateTypes DEF Passing, Late
<1>4. choice.sign /\ decrypted = choice.encrypt /\ Again /\ (Inline => ~choice.encrypt)
  BY <1>3 DEF Checked
<1>5. verdict' = "good"
  <2>1. CASE Inline
    <3>1. FitFor(inp) /\ ~choice.encrypt
      BY <1>3, <1>4, <2>1 DEF Again
    <3>2. inp.sig = <<>> /\ GistOf(inp) # <<>> /\ GistOf(inp)[1] = "clear"
      BY <2>1, <3>1 DEF FitFor
    <3>3. InputType = "pgp_signed"
      BY <3>2, TypeOfClear
    <3> QED
      BY <1>1, <3>2, <3>3
  <2>2. CASE ~Inline
    <3>1. SignedFor(inp, Source)
      BY <1>3, <1>4, <2>2 DEF Again, FitFor
    <3>2. inp.sig # <<>> /\ SignatureHolds
      BY <1>3, <1>4, <2>2, <3>1, SignatureRight
    <3> QED
      BY <1>1, <3>2
  <2> QED
    BY <1>3, <2>1, <2>2
<1>6. Again'
  BY <1>1, <1>4, InputKept
<1>7. Checked'
  BY <1>1, <1>2, <1>4, <1>6 DEF Checked
<1> QED
  BY <1>1, <1>5, <1>7 DEF Passing

LEMMA CopiedPasses ==
  ASSUME Handled, Passing, Copied
  PROVE  Passing'
<1>1. pc = "copy" /\ pc' = "finish" /\ UNCHANGED <<written, inp, decrypted, verdict>>
  BY DEF Copied, parser
<1>2. choice' = choice /\ Due' = Due
  BY <1>1, WrittenKept
<1>3. Checked /\ verdict = "good"
  BY <1>1 DEF Passing
<1>4. Told /\ Again /\ choice.sign
  BY <1>3 DEF Checked, Told, Due
<1>5. Again' /\ Told'
  BY <1>1, <1>2, <1>4, InputKept DEF Told
<1>6. PassFinish'
  BY <1>2, <1>4, <1>5 DEF PassFinish
<1> QED
  BY <1>1, <1>6 DEF Passing

LEMMA FinishPasses ==
  ASSUME Handled, Passing, NEW green, Finish(green)
  PROVE  Passing'
<1>1. pc = "finish" /\ UNCHANGED <<written, inp, decrypted, verdict>> /\ second' = TRUE
      /\ blockHtml' = HtmlBlocked(green)
      /\ pc' = IF prefs.online /\ ~second /\ verdict # "none" THEN "parse" ELSE "update_mail"
  BY DEF Finish
<1>2. choice' = choice /\ Due' = Due /\ (Weak <=> Weak') /\ Inline' = Inline
  BY <1>1, WrittenKept
<1>3. PassFinish /\ Ready
  BY <1>1, LateTypes DEF Passing, Late
<1>4. /\ Told /\ (choice.sign => Again)
      /\ choice.encrypt /\ ~choice.sign => FitFor(inp) /\ decrypt = TRUE /\ errors = FALSE
  BY <1>3 DEF PassFinish
<1>5. Told'
  BY <1>1, <1>2, <1>4 DEF Told
<1>6. CASE pc' = "parse"
  <2>1. choice.sign
    BY <1>1, <1>4, <1>6 DEF Told, Due
  <2>2. Again'
    BY <1>1, <1>4, <2>1, InputKept
  <2>3. PassParse'
    BY <1>1, <1>2, <1>5, <2>1, <2>2 DEF PassParse
  <2> QED
    BY <1>6, <2>3 DEF Passing
<1>7. CASE pc' = "update_mail"
  <2>1. ASSUME Weak PROVE blockHtml' = TRUE
    <3>1. choice.proto = "cms" /\ choice.encrypt /\ ~choice.sign
      BY <2>1 DEF Weak
    <3>2. FitFor(inp) /\ decrypt = TRUE /\ errors = FALSE /\ verdict = "none"
      BY <1>4, <3>1 DEF Told, Due
    <3>3. InputType = "cms_encrypted"
      BY <1>3, <3>1, <3>2, TypeOfCipher DEF CipherType
    <3>4. IsCms
      BY <3>1, <3>3 DEF IsCms
    <3> QED
      BY <1>1, <3>2, <3>4 DEF HtmlBlocked
  <2>2. Weak' => blockHtml' = TRUE
    BY <1>2, <2>1
  <2> QED
    BY <1>5, <1>7, <2>2 DEF Passing
<1> QED
  BY <1>1, <1>6, <1>7

LEMMA UpdateMailPasses ==
  ASSUME Handled, Passing, UpdateMail
  PROVE  Passing'
<1>1. pc = "update_mail" /\ pc' = "shown" /\ UNCHANGED <<written, decrypted, verdict>>
      /\ shown'.asHtml = (prefs.html /\ outp.html # <<>> /\ ~blockHtml)
  BY DEF UpdateMail, parser
<1>2. choice' = choice /\ Due' = Due /\ (Weak <=> Weak')
  BY <1>1, WrittenKept
<1>3. Told /\ (Weak => blockHtml = TRUE)
  BY <1>1 DEF Passing
<1>4. Told'
  BY <1>1, <1>2, <1>3 DEF Told
<1>5. Weak' => shown'.asHtml = FALSE
  BY <1>1, <1>2, <1>3
<1> QED
  BY <1>1, <1>4, <1>5 DEF Passing

\* Before it is opened, and when nothing happens
LEMMA EarlyPasses ==
  ASSUME pc' \notin Late
  PROVE  Passing'
BY DEF Passing, Late

LEMMA StutterPasses ==
  ASSUME Passing, UNCHANGED vars
  PROVE  Passing'
<1>1. UNCHANGED <<written, pc, inp, outp, stream, ended, got, decrypt, errors, decrypted, verdict,
                  second, blockHtml, shown>>
  BY DEF vars, flow, parser
<1>2. /\ Wire' = Wire /\ Inline' = Inline /\ choice' = choice /\ sealed' = sealed /\ Due' = Due
      /\ (Weak <=> Weak')
  BY <1>1, WrittenKept
<1>3. (FitFor(inp) => FitFor(inp)') /\ (Again => Again')
  BY <1>1, InputKept
<1>4. PassRead => PassRead'
  BY <1>1, <1>2 DEF PassRead, Untold
<1>5. PassParse => PassParse'
  BY <1>1, <1>2, <1>3 DEF PassParse, Untold, Told
<1>6. PassWrite => PassWrite'
  BY <1>1, <1>2, <1>3 DEF PassWrite
<1>7. Checked => Checked'
  BY <1>1, <1>2, <1>3 DEF Checked
<1>8. PassFinish => PassFinish'
  BY <1>1, <1>2, <1>3 DEF PassFinish, Told
<1>9. Told => Told'
  BY <1>1, <1>2 DEF Told
<1> QED
  BY <1>1, <1>2, <1>4, <1>5, <1>6, <1>7, <1>8, <1>9 DEF Passing

LEMMA PassingInit == ASSUME Init PROVE Passing
BY DEF Init, Passing

LEMMA PassingStep == ASSUME Handled, Passing, [Next]_vars PROVE Passing'
<1>1. ASSUME NEW yes \in BOOLEAN, CollectData(yes) PROVE Passing'
  <2>1. pc' \notin Late
    BY <1>1 DEF CollectData, Late
  <2> QED
    BY <2>1, EarlyPasses
<1>2. ASSUME DoCrypto PROVE Passing'
  <2>1. pc' \notin Late
    BY <1>2 DEF DoCrypto, Late
  <2> QED
    BY <2>1, EarlyPasses
<1>3. ASSUME NEW n \in {0, Len(mail.atts)}, Update(n) PROVE Passing'
  <2>1. pc' \notin Late
    BY <1>3 DEF Update, Late
  <2> QED
    BY <2>1, EarlyPasses
<1>4. ASSUME NEW kind \in Kinds, NEW extra \in BOOLEAN, Transport(kind, extra) PROVE Passing'
  <2>1. pc' \notin Late
    BY <1>4 DEF Transport, Late
  <2> QED
    BY <2>1, EarlyPasses
<1>5. ASSUME NEW saved \in BOOLEAN, Reopen(saved) PROVE Passing'
  <2>1. pc' \notin Late
    BY <1>5 DEF Reopen, Late
  <2> QED
    BY <2>1, EarlyPasses
<1>6. ASSUME Preprocess PROVE Passing'
  BY <1>6, PreprocessPasses
<1>7. ASSUME NEW n \in ReadSizes, ReadInput(n) PROVE Passing'
  BY <1>7, ReadInputPasses
<1>8. ASSUME InputRead PROVE Passing'
  BY <1>8, InputReadPasses
<1>9. ASSUME StartParse PROVE Passing'
  BY <1>9, StartParsePasses
<1>10. ASSUME NEW n \in WriteSizes, WriteOutput(n) PROVE Passing'
  BY <1>10, WriteOutputPasses
<1>11. ASSUME Decrypted PROVE Passing'
  BY <1>11, DecryptedPasses
<1>12. ASSUME Verify PROVE Passing'
  BY <1>12, VerifyPasses
<1>13. ASSUME Copied PROVE Passing'
  BY <1>13, CopiedPasses
<1>14. ASSUME NEW green \in BOOLEAN, Finish(green) PROVE Passing'
  BY <1>14, FinishPasses
<1>15. ASSUME UpdateMail PROVE Passing'
  BY <1>15, UpdateMailPasses
<1>16. ASSUME UNCHANGED vars PROVE Passing'
  BY <1>16, StutterPasses
<1> QED
  BY <1>1, <1>2, <1>3, <1>4, <1>5, <1>6, <1>7, <1>8, <1>9, <1>10, <1>11, <1>12, <1>13, <1>14,
     <1>15, <1>16 DEF Next

LEMMA AlwaysPassing == Spec => [](Handled /\ Passing)
<1>1. Init => Handled /\ Passing
  BY HandledInit, PassingInit
<1>2. (Handled /\ Passing) /\ [Next]_vars => (Handled /\ Passing)'
  BY HandledStep, PassingStep
<1> QED
  BY <1>1, <1>2, PTL DEF Spec

\* The reader is told what was done to the mail, whatever it holds, however it
\* was protected, came and was cut, and whether it is parsed once or twice: it
\* was decrypted exactly if it was encrypted, and the bytes that were signed
\* are found and verified exactly if it was signed.
THEOREM ProtectionTold == Spec => []SameProtection
<1>1. Handled /\ Passing => SameProtection
  BY DEF Passing, Told, Due, SameProtection, Shown
<1> QED
  BY <1>1, AlwaysPassing, PTL

\* The HTML of a mail that was encrypted with S/MIME is shown only if the mail
\* was signed as well, also when it is opened again.
THEOREM UnsignedHtmlBlocked == Spec => []HtmlNeedsSignature
<1>1. Handled /\ Passing => HtmlNeedsSignature
  BY DEF Passing, Weak, HtmlNeedsSignature, Shown
<1> QED
  BY <1>1, AlwaysPassing, PTL
=============================================================================
