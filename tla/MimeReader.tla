----------------------------- MODULE MimeReader -----------------------------
(***************************************************************************)
(* The MIME parser: the line parser of rfc822parse.c and the              *)
(* MimeDataProvider of mimedataprovider.cpp that sorts what it finds into  *)
(* body, HTML body, attachments, ciphertext or signed data, and signature. *)
(*                                                                         *)
(* A provider is a record; every operator gives the provider after the     *)
(* call. The tree of parts is the path from the root to the current part:  *)
(* the parser never goes back to a part it left.                           *)
(***************************************************************************)
EXTENDS MimeMaker

NoHeader == [Header("", "") EXCEPT !.k = "none"]
NewPart  == [h |-> NoHeader, bnd |-> ""]

Provider(everything) ==
  [ inBody |-> FALSE, preamble |-> FALSE, path |-> <<NewPart>>, bnd |-> "",
    nest |-> 0, inData |-> FALSE, bodySeen |-> FALSE,
    cbody |-> 0, chtml |-> 0,      \* 1: the first line is skipped
    att |-> 0,                     \* the current attachment, 0: none
    crypto |-> FALSE, csig |-> 0, isEnc |-> FALSE,
    hash |-> 0, hashLevel |-> 0, checked |-> FALSE,
    qp |-> FALSE, b64 |-> FALSE, inPh |-> FALSE, proto |-> "none",
    struct |-> <<>>, body |-> <<>>, html |-> <<>>, phBuf |-> <<>>,
    phVersion |-> 0, atts |-> <<>>,
    data |-> <<>>, open |-> FALSE, \* m_crypto_data, its last line is open
    sig |-> <<>>, everything |-> everything, failed |-> FALSE ]

Current(r)  == r.path[Len(r.path)]
IsBlank(ln) == ln.k = "data" /\ ln.p = <<>>
Filled(lines) == Only(lines, { i \in DOMAIN lines : ~IsBlank(lines[i]) })

\* What a line looks like to those who do not look for MIME in it
PiecesOf(ln) == CASE ln.k = "data" -> ln.p [] OTHER -> <<"text">>
-----------------------------------------------------------------------------
(* Header fields of the current part: the last one of each name.           *)

Field(r)     == Current(r).h
MediaType(h) == IF h.main = "" THEN <<"text", "plain">> ELSE <<h.main, h.sub>>
-----------------------------------------------------------------------------
(* t2body: the empty line after the headers.                               *)

Encodings(r) == [r EXCEPT !.qp = (Field(r).enc = "qp"), !.b64 = (Field(r).enc = "b64")]

\* A text part with a disposition is an attachment once there is a body
TextAttachment(r) == Field(r).disp # "none" /\ r.bodySeen

CidOf(h) == IF h.disp = "attachment" THEN "" ELSE h.cid

CreateAttachment(r) ==
  LET h == Field(r)
      name == FromRfc2047(h.name)
  IN [r EXCEPT !.atts = Append(@, [name |-> IF name = "smime.p7m" THEN "x-smime.p7m" ELSE name,
                                   cid |-> CidOf(h), ct |-> MediaType(h), data |-> <<>>]),
               !.att = Len(r.atts) + 1, !.cbody = 0, !.chtml = 0]

Multipart(r, h) ==
  IF r.sig = <<>> /\ h.sub = "signed" /\ h.proto # ""
  THEN [r EXCEPT !.hash = 1,
                 !.proto = CASE h.proto = "application/pgp-signature" -> "pgp"
                             [] h.proto = "application/pkcs7-signature" -> "cms"
                             [] OTHER -> "unknown"]
  ELSE IF h.sub = "encrypted" /\ h.proto # ""
  THEN [r EXCEPT !.isEnc = TRUE,
                 !.proto = IF h.proto = "application/pgp-encrypted" THEN "pgp" ELSE @]
  ELSE r

IsSignaturePart(r, h) ==
  /\ r.nest = 1 /\ r.sig = <<>> /\ h.main = "application"
  /\ \/ r.proto = "pgp" /\ h.sub = "pgp-signature"
     \/ r.proto = "cms" /\ h.sub = "pkcs7-signature"

IsCipherPart(r, h) ==
  /\ h.main = "application"
  /\ \/ r.nest = 1 /\ r.isEnc /\ r.proto = "pgp" /\ h.sub = "octet-stream"
     \/ h.sub = "pkcs7-mime"

ByType(r, h) ==
  CASE h.main = "multipart" -> Multipart(r, h)
    [] MediaType(h)[1] = "text" -> IF h.ph # 0 THEN [r EXCEPT !.phVersion = h.ph] ELSE r
    [] IsSignaturePart(r, h) -> [r EXCEPT !.csig = 1]
    [] IsCipherPart(r, h) -> [r EXCEPT !.crypto = TRUE]
    [] OTHER -> r

StartsBody(r) ==
  LET h == Field(r) IN
  IF MediaType(h)[1] = "text" /\ ~TextAttachment(r)
  THEN IF h.sub = "html"
       THEN [r EXCEPT !.bodySeen = TRUE, !.chtml = 1, !.cbody = 0]
       ELSE [r EXCEPT !.bodySeen = TRUE, !.cbody = 1, !.chtml = 0]
  ELSE IF ~r.crypto /\ r.nest > 0 THEN CreateAttachment(r)
  ELSE r

T2Body(r) ==
  LET h  == Field(r)
      r1 == [Encodings(r) EXCEPT !.struct = Append(@, MediaType(h))]
      r2 == ByType(r1, h)
  IN StartsBody([r2 EXCEPT !.inData = TRUE,
                           !.inPh = (MediaType(h)[1] = "text" /\ h.ph # 0)])
-----------------------------------------------------------------------------
(* Events of the line parser: message_cb.                                  *)

\* Signed data starts with the first part, which may have no headers
StartHashing(r) == IF r.hash = 1
                   THEN [r EXCEPT !.hash = 2, !.hashLevel = r.nest, !.crypto = TRUE]
                   ELSE r

AtBoundary(r) ==
  LET r1 == [r EXCEPT !.inData = FALSE, !.cbody = 0]
  IN IF r.hash = 2 /\ r.hashLevel = r.nest
     THEN [r1 EXCEPT !.hash = 3, !.crypto = FALSE] ELSE r1

LevelUp(r) == IF r.nest > 0 THEN [r EXCEPT !.nest = @ - 1] ELSE [r EXCEPT !.failed = TRUE]

TransitionToBody(r) ==
  LET r1 == T2Body(StartHashing([r EXCEPT !.inBody = TRUE]))
      h  == Field(r1)
      n  == Len(r1.path)
  IN IF h.main = "multipart" /\ h.bnd # ""
     THEN [r1 EXCEPT !.path = Append([@ EXCEPT ![n].bnd = h.bnd], NewPart),
                     !.bnd = h.bnd, !.nest = @ + 1, !.preamble = TRUE]
     ELSE r1

InsertHeader(r, ln) ==
  IF IsBlank(ln) THEN TransitionToBody(r)
  ELSE LET r1 == IF Field(r) = NoHeader THEN StartHashing(r) ELSE r
       IN [r1 EXCEPT !.path[Len(r1.path)].h =
                        IF ln.k = "hdr" THEN ln ELSE Header("", "")]

\* The raw line is the delimiter; text that quotes it is not told apart
IsBoundary(r, ln) == /\ r.bnd # ""
                     /\ \/ ln.k = "bound" /\ ln.b = r.bnd /\ ~ln.last
                        \/ ln.k = "data" /\ ln.p = <<"dash">> /\ ln.e = "7bit"
IsLast(r, ln)     == r.bnd # "" /\ ln.k = "bound" /\ ln.b = r.bnd /\ ln.last

TransitionToHeader(r) ==
  IF r.preamble THEN [r EXCEPT !.preamble = FALSE]
  ELSE [r EXCEPT !.path[Len(r.path)] = NewPart]

\* Mutant: the boundary of the outer part is not restored
ToParentUnbound(r) ==
  IF Len(r.path) = 1 THEN [r EXCEPT !.bnd = ""]
  ELSE [r EXCEPT !.path = SubSeq(@, 1, Len(r.path) - 1), !.bnd = ""]

ToParent(r) ==
  LET n == Len(r.path)
  IN IF n = 1 THEN [r EXCEPT !.bnd = ""]
     ELSE [r EXCEPT !.path = SubSeq(@, 1, n - 1),
                    !.bnd = IF n > 2 THEN r.path[n - 2].bnd ELSE ""]

InsertBody(r, ln) ==
  IF IsBoundary(r, ln) THEN TransitionToHeader([AtBoundary(r) EXCEPT !.inBody = FALSE])
  ELSE IF IsLast(r, ln) THEN LevelUp(ToParent(AtBoundary(r)))
  ELSE r

Insert(r, ln) == IF r.inBody THEN InsertBody(r, ln) ELSE InsertHeader(r, ln)
-----------------------------------------------------------------------------
(* collect_input_lines, for one line.                                      *)

\* A PGP message as the first line of a body is taken as ciphertext
CheckMarker(r, ln) ==
  IF r.checked \/ r.cbody # 2 THEN r
  ELSE IF ln.k = "data" /\ ln.p = <<"pgp">>
  THEN [r EXCEPT !.checked = TRUE, !.cbody = 0, !.crypto = TRUE, !.hash = 1,
                 !.everything = TRUE]
  ELSE [r EXCEPT !.checked = TRUE]

\* The line as decoded text
Text(r, ln) ==
  LET soft == r.qp /\ ln.k = "data" /\ ln.soft
  IN PiecesOf(ln) \o (IF r.b64 \/ soft THEN <<>> ELSE <<"nl">>)

HashLine(r, ln) == [r EXCEPT !.data = Append(@, ln), !.open = TRUE]

CollectBody(r, ln) ==
  IF r.cbody = 1 THEN [r EXCEPT !.cbody = 2]
  ELSE IF r.inPh THEN [r EXCEPT !.phBuf = @ \o Text(r, ln)]
  ELSE [r EXCEPT !.body = @ \o Text(r, ln)]

CollectHtml(r, ln) ==
  IF r.chtml = 1 THEN [r EXCEPT !.chtml = 2]
  ELSE [r EXCEPT !.html = @ \o Text(r, ln)]

CollectAttachment(r, ln) ==
  IF PiecesOf(ln) = <<>> THEN r
  ELSE [r EXCEPT !.atts[r.att].data = @ \o Text(r, ln)]

CollectPart(r, ln) == CASE r.cbody > 0 -> CollectBody(r, ln)
                        [] r.chtml > 0 -> CollectHtml(r, ln)
                        [] r.att > 0   -> CollectAttachment(r, ln)
                        [] OTHER       -> r

CollectSignature(r, ln) ==
  IF r.csig = 1 THEN [r EXCEPT !.csig = 2] ELSE [r EXCEPT !.sig = @ \o Text(r, ln)]

CollectCipher(r, ln) ==
  [r EXCEPT !.data = Append(@, Data(PiecesOf(ln), "7bit", FALSE)), !.open = FALSE]

Collect(r, ln) ==
  LET h == IF r.crypto /\ r.hash # 0 THEN HashLine(r, ln) ELSE r
  IN IF ~r.inData THEN h
     ELSE IF r.csig = 0 /\ ~r.crypto THEN CollectPart(h, ln)
     ELSE IF r.csig # 0 THEN CollectSignature(h, ln)
     ELSE IF r.hash = 0 THEN CollectCipher(h, ln)
     ELSE h

TakeLine(r, ln) == LET i == Insert(r, ln)
                       c == CheckMarker(i, ln)
                   IN Collect(c, ln)

Feed(r, lines) ==
  LET fed[i \in 0..Len(lines)] == IF i = 0 THEN r ELSE TakeLine(fed[i - 1], lines[i])
  IN fed[Len(lines)]
-----------------------------------------------------------------------------
(* Reading and finishing.                                                  *)

\* MIME data is recognised by its first line, whatever the type suggests
ExpectsHeaders(ln) == ln.k = "hdr"
FirstRead(r, ln)   == IF ExpectsHeaders(ln) THEN [r EXCEPT !.everything = FALSE] ELSE r

\* Data that is not parsed: the input as it is, the output as the body
CopyInput(r, lines)  == [r EXCEPT !.data = lines, !.open = FALSE]
CopyOutput(r, lines) ==
  [r EXCEPT !.body = FlattenSeq([i \in DOMAIN lines |-> PiecesOf(lines[i]) \o <<"nl">>])]

HidesLegacyPart(r) ==
  /\ r.phVersion = 1 /\ r.phBuf # <<>>
  /\ Len(r.struct) > 1 /\ r.struct[1] = <<"multipart", "mixed">>
  /\ r.struct[2] = <<"text", "plain">>

ProtectedFirst(r) == IF HidesLegacyPart(r) THEN r ELSE [r EXCEPT !.body = r.phBuf \o @]

\* rest: what was received of a last line that was not ended
Finalize(r, rest) ==
  LET r1 == ProtectedFirst(r)
  IN IF rest = <<>> THEN r1 ELSE TakeLine(r1, rest[1])

\* Mutant: the line end before the boundary is part of the data
AllDataLines(r) == r.data

\* The bytes of m_crypto_data: a last line that is open and blank is no line
DataLines(r) == IF r.open /\ IsBlank(r.data[Len(r.data)])
                THEN SubSeq(r.data, 1, Len(r.data) - 1) ELSE r.data
DataEnded(r) == ~r.open \/ IsBlank(r.data[Len(r.data)])
=============================================================================
