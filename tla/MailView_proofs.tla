-------------------------- MODULE MailView_proofs --------------------------
(***************************************************************************)
(* Theorems about MailView, for every choice of its constants.             *)
(***************************************************************************)
EXTENDS MailView, TLAPS

\* What the handlers make of a Mail object mm and of a content c
Unwiped(mm)      == [mm EXCEPT !.wipe = FALSE]
Unprocessed(mm)  == [mm EXCEPT !.processed = FALSE, !.wipe = FALSE]
Passed(mm)       == [mm EXCEPT !.pass = FALSE]
Written(mm)      == [mm EXCEPT !.save = FALSE]
Closed(m, mm, d) == [mm EXCEPT !.pass = @ \/ ~Visible(m, d)]
Emptied(c)       == [c EXCEPT !.body = "empty"]
Bare(c)          == [c EXCEPT !.body = "empty", !.atts = FALSE]
Cleaned(c)       == [c EXCEPT !.body = "clean", !.atts = FALSE]

Results == [mail : MailObjects, item : Contents, ok : BOOLEAN]
Done(mm, c)    == [mail |-> mm, item |-> c, ok |-> TRUE]
Failed(mm, c)  == [mail |-> mm, item |-> c, ok |-> FALSE]
Stored(mm, c)  == [mail |-> mm, item |-> c, ok |-> TRUE, post |-> FALSE]
Refused(mm, c) == [mail |-> mm, item |-> c, ok |-> FALSE, post |-> FALSE]
Asked(mm, c)   == [mail |-> mm, item |-> c, ok |-> last, post |-> last]

\* The outcomes of wipe_o, revert_o, the Write event and close, one by one.
LEMMA WipeCases ==
  ASSUME NEW mm \in MailObjects, NEW c \in Contents, NEW r \in Wipe(mm, c)
  PROVE  \/ mm.wipe /\ r = Done(Unwiped(mm), Emptied(c))
         \/ mm.wipe /\ "wipeerr" \in Env /\ r = Failed(mm, c)
         \/ ~mm.wipe /\ r = Done(mm, c)
<1>1. CASE mm.wipe
  <2>1. CASE "wipeerr" \in Env
    BY <1>1, <2>1 DEF Wipe, Done, Failed, Unwiped, Emptied
  <2>2. CASE "wipeerr" \notin Env
    BY <1>1, <2>2 DEF Wipe, Done, Failed, Unwiped, Emptied
  <2> QED BY <2>1, <2>2
<1>2. CASE ~mm.wipe
  BY <1>2 DEF Wipe, Done
<1> QED BY <1>1, <1>2

LEMMA RevertCases ==
  ASSUME NEW m, NEW mm \in MailObjects, NEW c \in Contents,
         NEW r \in Revert(m, mm, c)
  PROVE  \/ ~mm.processed /\ r = Done(mm, c)
         \/ /\ mm.processed /\ m \notin Smime
            /\ r = Done(Unprocessed(mm), Cleaned(c))
         \/ mm.processed /\ \E d \in RevertErrors(m, c) : r \in Wipe(mm, d)
BY DEF Revert, Reverted, Done, Unprocessed, Cleaned

\* What a revert that fails leaves: of an S/MIME mail, everything
LEMMA RevertErrorsCases ==
  ASSUME NEW m, NEW c \in Contents, NEW d \in RevertErrors(m, c)
  PROVE  \/ d = c /\ (m \in Smime \/ "reverterr" \in Env)
         \/ m \notin Smime /\ "reverterr" \in Env /\ d = Emptied(c)
         \/ m \notin Smime /\ "finalize" \in Env /\ d = Bare(c)
<1>1. CASE m \in Smime
  BY <1>1 DEF RevertErrors
<1>2. CASE m \notin Smime
  <2>1. d \in (IF "reverterr" \in Env THEN {c, Emptied(c)} ELSE {})
             \cup (IF "finalize" \in Env
                   THEN {Bare(c)} ELSE {})
    BY <1>2 DEF RevertErrors, Emptied, Bare
  <2> QED BY <1>2, <2>1
<1> QED BY <1>1, <1>2

LEMMA WriteCases ==
  ASSUME NEW m, NEW mm \in MailObjects, NEW c \in Contents,
         NEW r \in Write(m, mm, c)
  PROVE  \/ mm.pass /\ r = Stored(Passed(mm), c)
         \/ ~mm.pass /\ mm.crypto /\ ~mm.save /\ r = Asked(mm, c)
         \/ /\ ~mm.pass /\ mm.crypto /\ mm.save
            /\ \E s \in Revert(m, mm, c) :
                 \/ s.ok /\ r = Stored(Written(s.mail), s.item)
                 \/ ~s.ok /\ r = Refused(s.mail, s.item)
         \/ ~mm.pass /\ ~mm.crypto /\ r = Stored(Written(mm), c)
<1>1. CASE mm.pass
  BY <1>1 DEF Write, Stored, Refused, Asked, Passed
<1>2. CASE ~mm.pass /\ mm.crypto /\ ~mm.save
  BY <1>2 DEF Write, Stored, Refused, Asked
<1>3. CASE ~mm.pass /\ mm.crypto /\ mm.save
  BY <1>3 DEF Write, Stored, Refused, Asked, Written
<1>4. CASE ~mm.pass /\ ~mm.crypto
  BY <1>4 DEF Write, Stored, Refused, Asked, Written
<1> QED BY <1>1, <1>2, <1>3, <1>4

LEMMA CloseCases ==
  ASSUME NEW m, NEW mm \in MailObjects, NEW c \in Contents,
         NEW r \in Close(m, mm, c)
  PROVE  \/ r = Done(Closed(m, mm, store[m]), store[m])
         \/ "window" \in Env /\ r = Done(Closed(m, mm, c), c)
         \/ "closeerr" \in Env /\ r = Failed(mm, c)
<1>1. CASE "closeerr" \in Env /\ r = [mail |-> mm, item |-> c, ok |-> FALSE]
  BY <1>1 DEF Failed
<1>2. CASE ~("closeerr" \in Env /\ r = [mail |-> mm, item |-> c, ok |-> FALSE])
  <2>1. PICK d \in {store[m]} \cup (IF "window" \in Env THEN {c} ELSE {}) :
          r = Done(Closed(m, mm, d), d)
    BY <1>2 DEF Close, Done, Closed
  <2> QED BY <2>1
<1> QED BY <1>1, <1>2

LEMMA CloseOneCases ==
  ASSUME NEW m, NEW r \in CloseOne(m)
  PROVE  \/ /\ ~(mail[m].alive /\ mail[m].crypto)
            /\ r = Done(mail[m], item[m])
         \/ /\ mail[m].alive /\ mail[m].crypto
            /\ \E x \in Close(m, mail[m], item[m]) :
                 (r = x /\ x.ok) \/ r \in Revert(m, x.mail, x.item)
BY DEF CloseOne, Done
-----------------------------------------------------------------------------
(***************************************************************************)
(* Types. The pieces of the handlers give a Mail object and a content.     *)
(***************************************************************************)
LEMMA ResultFields ==
  ASSUME NEW mm, NEW c
  PROVE  /\ Done(mm, c).mail = mm    /\ Done(mm, c).item = c    /\ Done(mm, c).ok
         /\ Failed(mm, c).mail = mm  /\ Failed(mm, c).item = c  /\ ~Failed(mm, c).ok
         /\ Stored(mm, c).mail = mm  /\ Stored(mm, c).item = c  /\ Stored(mm, c).ok
         /\ Refused(mm, c).mail = mm /\ Refused(mm, c).item = c /\ ~Refused(mm, c).ok
         /\ Asked(mm, c).mail = mm   /\ Asked(mm, c).item = c
         /\ Asked(mm, c).ok = last   /\ Asked(mm, c).post = last
         /\ ~Stored(mm, c).post      /\ ~Refused(mm, c).post
BY DEF Done, Failed, Stored, Refused, Asked

LEMMA ResultType ==
  ASSUME NEW mm \in MailObjects, NEW c \in Contents
  PROVE  Done(mm, c) \in Results /\ Failed(mm, c) \in Results
BY DEF Done, Failed, Results

LEMMA MailFormsType ==
  ASSUME NEW mm \in MailObjects
  PROVE  /\ Unwiped(mm) \in MailObjects
         /\ Unprocessed(mm) \in MailObjects
         /\ Passed(mm) \in MailObjects
         /\ Written(mm) \in MailObjects
BY DEF MailObjects, Unwiped, Unprocessed, Passed, Written

LEMMA ClosedType ==
  ASSUME NEW m, NEW mm \in MailObjects, NEW d
  PROVE  Closed(m, mm, d) \in MailObjects
<1>1. (mm.pass \/ ~Visible(m, d)) \in BOOLEAN
  OBVIOUS
<1> QED BY <1>1 DEF Closed, MailObjects

LEMMA ContentFormsType ==
  ASSUME NEW c \in Contents
  PROVE  /\ Emptied(c) \in Contents
         /\ Cleaned(c) \in Contents
         /\ Bare(c) \in Contents
BY DEF Contents, Bodies, Emptied, Cleaned, Bare

LEMMA WipeType ==
  ASSUME NEW mm \in MailObjects, NEW c \in Contents, NEW r \in Wipe(mm, c)
  PROVE  r \in Results
BY WipeCases, ResultType, MailFormsType, ContentFormsType

LEMMA RevertErrorsType ==
  ASSUME NEW m, NEW c \in Contents, NEW d \in RevertErrors(m, c)
  PROVE  d \in Contents
BY RevertErrorsCases, ContentFormsType

LEMMA RevertType ==
  ASSUME NEW m, NEW mm \in MailObjects, NEW c \in Contents, NEW r \in Revert(m, mm, c)
  PROVE  r \in Results
<1>1. \A d \in RevertErrors(m, c) : d \in Contents
  BY RevertErrorsType
<1>2. \A d \in RevertErrors(m, c) : Wipe(mm, d) \subseteq Results
  BY <1>1, WipeType
<1>3. Unprocessed(mm) \in MailObjects /\ Cleaned(c) \in Contents
  BY MailFormsType, ContentFormsType
<1>4. Done(mm, c) \in Results /\ Done(Unprocessed(mm), Cleaned(c)) \in Results
  BY <1>3, ResultType
<1> QED BY <1>2, <1>4, RevertCases

LEMMA WriteType ==
  ASSUME NEW m, NEW mm \in MailObjects, NEW c \in Contents, NEW r \in Write(m, mm, c)
  PROVE  r.mail \in MailObjects /\ r.item \in Contents
<1>1. ASSUME NEW s \in Revert(m, mm, c),
             (s.ok /\ r = Stored(Written(s.mail), s.item)) \/ r = Refused(s.mail, s.item)
      PROVE  r.mail \in MailObjects /\ r.item \in Contents
  <2>1. s.mail \in MailObjects /\ s.item \in Contents
    BY RevertType DEF Results
  <2> QED BY <1>1, <2>1, ResultFields, MailFormsType
<1> QED BY <1>1, WriteCases, ResultFields, MailFormsType

LEMMA CloseType ==
  ASSUME NEW m \in Mails, NEW mm \in MailObjects, NEW c \in Contents,
         store \in [Mails -> Contents], NEW r \in Close(m, mm, c)
  PROVE  r \in Results
<1>1. store[m] \in Contents
  OBVIOUS
<1>2. /\ Closed(m, mm, store[m]) \in MailObjects
      /\ Closed(m, mm, c) \in MailObjects
  BY ClosedType
<1> QED BY <1>1, <1>2, CloseCases, ResultType

LEMMA CloseOneType ==
  ASSUME NEW m \in Mails, TypeOK, NEW r \in CloseOne(m)
  PROVE  r \in Results
<1>1. mail[m] \in MailObjects /\ item[m] \in Contents
  BY DEF TypeOK
<1>2. \A x \in Close(m, mail[m], item[m]) : x \in Results
  BY <1>1, CloseType DEF TypeOK
<1>3. \A x \in Close(m, mail[m], item[m]) :
        Revert(m, x.mail, x.item) \subseteq Results
  BY <1>2, RevertType DEF Results
<1> QED BY <1>1, <1>2, <1>3, CloseOneCases, ResultType

LEMMA ShownType ==
  ASSUME NEW c \in Contents, NEW found \in {"none", "ok", "error"}, NEW preview \in BOOLEAN
  PROVE  Shown(c, found, preview) \in Contents
<1> DEFINE body == CASE found = "error" -> "error"
                     [] found = "none"  -> "void"
                     [] found = "ok"    -> IF preview THEN "preview" ELSE "plain"
<1>1. body \in Bodies
  BY DEF Bodies
<1> QED BY <1>1 DEF Shown, Contents

LEMMA ShowParsedType ==
  ASSUME TypeOK, NEW m \in Mails, NEW found \in {"none", "ok", "error"},
         NEW preview \in BOOLEAN, ShowParsed(m, found, preview)
  PROVE  mail' \in [Mails -> MailObjects] /\ item' \in [Mails -> Contents]
<1>1. mail[m] \in MailObjects /\ item[m] \in Contents
  BY DEF TypeOK
<1>2. ParsedMail(mail[m], found) \in MailObjects
  <2>1. /\ (~mail[m].sendAgain) \in BOOLEAN
        /\ (found = "error") \in BOOLEAN
        /\ (mail[m].crypto /\ ~mail[m].sendAgain) \in BOOLEAN
    OBVIOUS
  <2>2. \A w, f, k \in BOOLEAN :
          [mail[m] EXCEPT !.wipe = w, !.added = TRUE, !.failed = f, !.crypto = k]
            \in MailObjects
    BY <1>1 DEF MailObjects
  <2> QED BY <2>1, <2>2 DEF ParsedMail
<1>3. Shown(item[m], found, preview) \in Contents
  BY <1>1, ShownType
<1>4. ParsedItem(m, item[m], found, preview) \in Contents
  <2> DEFINE atts == IF mail[m].added THEN Shown(item[m], found, preview).atts
                     ELSE \/ Shown(item[m], found, preview).atts /\ ~mail[m].print
                          \/ found = "ok" /\ m \in Attach
  <2>1. atts \in BOOLEAN
    BY <1>3 DEF Contents
  <2>2. ParsedItem(m, item[m], found, preview)
          = [Shown(item[m], found, preview) EXCEPT !.atts = atts]
    BY DEF ParsedItem
  <2> QED BY <1>3, <2>1, <2>2 DEF Contents
<1> QED BY <1>2, <1>4 DEF ShowParsed, TypeOK

LEMMA ShowIfThereType ==
  ASSUME TypeOK, NEW m \in Mails, NEW preview \in BOOLEAN, ShowIfThere(m, preview)
  PROVE  mail' \in [Mails -> MailObjects] /\ item' \in [Mails -> Contents]
<1>1. CASE mail[m].alive /\ mail[m].parser # NoParser
  <2>1. result[mail[m].parser] \in {"none", "ok", "error"}
    BY <1>1 DEF TypeOK, MailObjects
  <2> QED BY <1>1, <2>1, ShowParsedType DEF ShowIfThere
<1>2. CASE ~(mail[m].alive /\ mail[m].parser # NoParser)
  BY <1>2 DEF ShowIfThere, TypeOK
<1> QED BY <1>1, <1>2

\* decryptVerify_o, by what it makes of the Mail object and the threads
Handled(a, b) == /\ a.alive = b.alive /\ a.save = b.save /\ a.sendAgain = b.sendAgain
                 /\ a.wipe = b.wipe /\ a.failed = b.failed /\ ~a.again
Opened(a, b)  == /\ a.crypto = b.crypto /\ a.processed /\ ~a.pass
Begins(m, p, t) ==
  /\ p \in Parsers /\ p # NoParser /\ thr[p].pc = "new"
  /\ t \in ParseThreads /\ t.m = m /\ t.uses \in {NoParser, p} /\ (t.pc = "sync" => t.uses = p)
  /\ thr' = [thr EXCEPT ![p] = t]
  /\ \/ t.pc = "sync" /\ ui' = p
     \/ /\ t.pc = "start" \/ (t.pc = "end" /\ "nothread" \in Env)
        /\ "sync_dec" \notin Options /\ ui' = ui

LEMMA StartParseBegins ==
  ASSUME NEW m \in Mails, NEW mm, NEW p \in Unused, StartParse(m, mm, p)
  PROVE  \E t : Begins(m, p, t)
<1>0. p \in Parsers /\ p # NoParser /\ thr[p].pc = "new"
  BY NamesAssumption DEF Unused, NoParser
<1> DEFINE sync    == "sync_dec" \in Options \/ mm.print
           synced  == [pc |-> "sync", m |-> m, uses |-> p]
           started == [pc |-> "start", m |-> m, uses |-> NoParser]
           failed  == [pc |-> "end", m |-> m, uses |-> NoParser]
<1>1. /\ synced \in ParseThreads /\ synced.m = m /\ synced.uses = p /\ synced.pc = "sync"
      /\ started \in ParseThreads /\ started.m = m /\ started.uses = NoParser
      /\ started.pc = "start"
      /\ failed \in ParseThreads /\ failed.m = m /\ failed.uses = NoParser
      /\ failed.pc = "end"
  BY <1>0 DEF ParseThreads
<1>2. \/ sync /\ thr' = [thr EXCEPT ![p] = synced] /\ ui' = p
      \/ ~sync /\ thr' = [thr EXCEPT ![p] = started] /\ ui' = ui
      \/ ~sync /\ thr' = [thr EXCEPT ![p] = failed] /\ "nothread" \in Env /\ ui' = ui
  BY DEF StartParse
<1>3. sync \/ "sync_dec" \notin Options
  OBVIOUS
<1> HIDE DEF sync, synced, started, failed
<1>4. CASE thr' = [thr EXCEPT ![p] = synced] /\ ui' = p
  BY <1>0, <1>1, <1>4 DEF Begins
<1>5. CASE ~sync /\ thr' = [thr EXCEPT ![p] = started] /\ ui' = ui
  BY <1>0, <1>1, <1>3, <1>5 DEF Begins
<1>6. CASE ~sync /\ thr' = [thr EXCEPT ![p] = failed] /\ "nothread" \in Env /\ ui' = ui
  BY <1>0, <1>1, <1>3, <1>6 DEF Begins
<1> QED BY <1>2, <1>4, <1>5, <1>6

LEMMA DecryptVerifyThreads ==
  ASSUME NEW m \in Mails, NEW mm, DecryptVerify(m, mm)
  PROVE  UNCHANGED <<thr, ui>> \/ \E p \in Unused : \E t : Begins(m, p, t)
<1>1. UNCHANGED <<thr, ui>> \/ \E p \in Unused : StartParse(m, Begun(mm), p)
  BY DEF DecryptVerify
<1> QED BY <1>1, StartParseBegins

LEMMA BegunForm ==
  ASSUME NEW mm \in MailObjects
  PROVE  /\ Begun(mm) \in MailObjects /\ Handled(Begun(mm), mm) /\ Opened(Begun(mm), mm)
         /\ Begun(mm).parser = mm.parser
         /\ \A p \in Parsers : /\ [Begun(mm) EXCEPT !.parser = p] \in MailObjects
                               /\ Handled([Begun(mm) EXCEPT !.parser = p], mm)
                               /\ Opened([Begun(mm) EXCEPT !.parser = p], mm)
                               /\ [Begun(mm) EXCEPT !.parser = p].parser = p
<1>1. /\ Begun(mm) \in MailObjects /\ Handled(Begun(mm), mm) /\ Opened(Begun(mm), mm)
      /\ Begun(mm).parser = mm.parser
  BY DEF Begun, MailObjects, Handled, Opened
<1>2. ASSUME NEW b \in MailObjects, NEW p \in Parsers
      PROVE  /\ [b EXCEPT !.parser = p] \in MailObjects /\ [b EXCEPT !.parser = p].parser = p
             /\ Handled(b, mm) => Handled([b EXCEPT !.parser = p], mm)
             /\ Opened(b, mm) => Opened([b EXCEPT !.parser = p], mm)
  BY DEF MailObjects, Handled, Opened
<1> QED BY <1>1, <1>2

LEMMA NotOpenedForm ==
  ASSUME NEW mm \in MailObjects, NEW junk \in BOOLEAN, NEW pass \in BOOLEAN
  PROVE  \E y \in MailObjects :
           /\ y = [mm EXCEPT !.again = FALSE, !.crypto = junk, !.pass = pass]
           /\ Handled(y, mm) /\ y.parser = mm.parser
<1> DEFINE y == [mm EXCEPT !.again = FALSE, !.crypto = junk, !.pass = pass]
<1>1. y \in MailObjects /\ Handled(y, mm) /\ y.parser = mm.parser
  BY DEF MailObjects, Handled
<1>2. y = [mm EXCEPT !.again = FALSE, !.crypto = junk, !.pass = pass]
  OBVIOUS
<1> HIDE DEF y
<1> QED BY <1>1, <1>2, Zenon

\* The four ways through decryptVerify_o
LEMMA DecryptVerifyCases ==
  ASSUME TypeOK, NEW m \in Mails, NEW mm \in MailObjects, DecryptVerify(m, mm)
  PROVE  \/ /\ ~mm.crypto /\ mail' = [mail EXCEPT ![m] = mm]
            /\ UNCHANGED <<item, store, thr, ui>>
         \/ /\ mm.crypto
            /\ store' = store \/ (store' = [store EXCEPT ![m] = item[m]] /\ m \in Smime)
            /\ \E y \in MailObjects :
                 /\ mail' = [mail EXCEPT ![m] = y] /\ Handled(y, mm)
                 /\ \/ /\ mm.parser = NoParser /\ y.parser = NoParser
                       /\ UNCHANGED <<item, thr, ui>>
                    \/ /\ Opened(y, mm) /\ y.parser = mm.parser
                       /\ item' = item \/ item' = [item EXCEPT ![m].body = "wait"]
                       /\ UNCHANGED <<thr, ui>>
                    \/ /\ Opened(y, mm) /\ item' = [item EXCEPT ![m].body = "wait"]
                       /\ \E p \in Unused : y.parser = p /\ \E t : Begins(m, p, t)
<1>1. CASE ~mm.crypto
  BY <1>1 DEF DecryptVerify
<1>2. CASE mm.crypto
  <2>1. store' = store \/ (store' = [store EXCEPT ![m] = item[m]] /\ m \in Smime)
    BY <1>2 DEF DecryptVerify
  <2>2. \/ /\ mm.parser = NoParser /\ UNCHANGED <<item, thr, ui>>
           /\ \E junk \in BOOLEAN :
                mail' = [mail EXCEPT ![m] = [mm EXCEPT !.again = FALSE, !.crypto = junk,
                                                       !.pass = @ /\ m \notin Smime]]
        \/ /\ mail' = [mail EXCEPT ![m] = Begun(mm)] /\ UNCHANGED <<thr, ui>>
           /\ item' = item \/ item' = [item EXCEPT ![m].body = "wait"]
        \/ \E p \in Unused : StartParse(m, Begun(mm), p)
    BY <1>2 DEF DecryptVerify
  <2>3. CASE /\ mm.parser = NoParser /\ UNCHANGED <<item, thr, ui>>
             /\ \E junk \in BOOLEAN :
                  mail' = [mail EXCEPT ![m] = [mm EXCEPT !.again = FALSE, !.crypto = junk,
                                                         !.pass = @ /\ m \notin Smime]]
    <3>1. PICK junk \in BOOLEAN :
            mail' = [mail EXCEPT ![m] = [mm EXCEPT !.again = FALSE, !.crypto = junk,
                                                   !.pass = @ /\ m \notin Smime]]
      BY <2>3
    <3>2. PICK pass \in BOOLEAN :
            mail' = [mail EXCEPT ![m] = [mm EXCEPT !.again = FALSE, !.crypto = junk,
                                                   !.pass = pass]]
      <4>1. (mm.pass /\ m \notin Smime) \in BOOLEAN
        OBVIOUS
      <4> WITNESS (mm.pass /\ m \notin Smime) \in BOOLEAN
      <4> QED BY <3>1, Zenon
    <3>3. PICK y \in MailObjects :
            /\ y = [mm EXCEPT !.again = FALSE, !.crypto = junk, !.pass = pass]
            /\ Handled(y, mm) /\ y.parser = mm.parser
      BY NotOpenedForm
    <3>4. mail' = [mail EXCEPT ![m] = y]
      BY <3>2, <3>3
    <3> QED BY <1>2, <2>1, <2>3, <3>3, <3>4
  <2>4. CASE /\ mail' = [mail EXCEPT ![m] = Begun(mm)] /\ UNCHANGED <<thr, ui>>
             /\ item' = item \/ item' = [item EXCEPT ![m].body = "wait"]
    BY <1>2, <2>1, <2>4, BegunForm
  <2>5. ASSUME NEW p \in Unused, StartParse(m, Begun(mm), p)
        PROVE  \E y \in MailObjects :
                 /\ mail' = [mail EXCEPT ![m] = y] /\ Handled(y, mm) /\ Opened(y, mm)
                 /\ item' = [item EXCEPT ![m].body = "wait"]
                 /\ y.parser = p /\ \E t : Begins(m, p, t)
    <3>1. \E t : Begins(m, p, t)
      BY <2>5, StartParseBegins
    <3> DEFINE y == [Begun(mm) EXCEPT !.parser = p]
    <3>2. p \in Parsers
      BY DEF Unused
    <3>3. y \in MailObjects /\ Handled(y, mm) /\ Opened(y, mm) /\ y.parser = p
      BY <3>2, BegunForm
    <3>4. mail' = [mail EXCEPT ![m] = y] /\ item' = [item EXCEPT ![m].body = "wait"]
      BY <2>5 DEF StartParse
    <3> HIDE DEF y
    <3> QED BY <3>1, <3>3, <3>4
  <2> QED BY <1>2, <2>1, <2>2, <2>3, <2>4, <2>5
<1> QED BY <1>1, <1>2

LEMMA DecryptVerifyType ==
  ASSUME TypeOK, NEW m \in Mails, NEW mm \in MailObjects, DecryptVerify(m, mm)
  PROVE  /\ mail' \in [Mails -> MailObjects] /\ item' \in [Mails -> Contents]
         /\ store' \in [Mails -> Contents]   /\ thr' \in [Parsers -> ParseThreads]
         /\ ui' \in Parsers \cup {"idle"}
<1>1. mail' \in [Mails -> MailObjects]
  BY DecryptVerifyCases DEF TypeOK
<1>2. store' \in [Mails -> Contents]
  BY DEF DecryptVerify, TypeOK
<1>3. item' \in [Mails -> Contents]
  <2>1. item' = item \/ item' = [item EXCEPT ![m].body = "wait"]
    BY DecryptVerifyCases
  <2> QED BY <2>1 DEF TypeOK, Contents, Bodies
<1>4. thr' \in [Parsers -> ParseThreads] /\ ui' \in Parsers \cup {"idle"}
  BY DecryptVerifyThreads DEF Begins, TypeOK
<1> QED BY <1>1, <1>2, <1>3, <1>4
-----------------------------------------------------------------------------
(***************************************************************************)
(* Parse threads. ParserInv relates a mail, the ParseController it shows,  *)
(* the thread made with it and parser_lock.                                *)
(***************************************************************************)
ThreadsHaveMails == \A p \in Parsers : thr[p].pc # "new" => thr[p].m \in Mails

\* The UI thread waits for the parse it does itself, of the mail that it reads.
UiWaitsForItsParse ==
  \A p \in Parsers : /\ ui = p <=> thr[p].pc = "sync"
                     /\ ui = p => mail[thr[p].m].parser = p

\* The parser of a mail will be used by its thread, or has found something.
ParserWorks(p) == \/ thr[p].pc \in {"start", "sync"}
                  \/ thr[p].pc \in {"wait", "parse"} /\ thr[p].uses = p
                  \/ thr[p].pc # "new" /\ result[p] # "none"
                  \/ thr[p].pc = "end" /\ "nothread" \in Env
ParsersWork ==
  \A m \in Mails : mail[m].parser # NoParser
                   => /\ mail[m].alive /\ thr[mail[m].parser].m = m
                      /\ ParserWorks(mail[m].parser)

\* parser_lock is held by the thread that is between its two lock calls.
Holding == {"parse", "preview", "second", "done", "leave"}
LockIsHeld == \A p \in Parsers : lock = p <=> thr[p].pc \in Holding

ParserInv == ThreadsHaveMails /\ UiWaitsForItsParse /\ ParsersWork /\ LockIsHeld

\* What the cleaning handlers leave alone.
SameMail(a, b) == a.parser = b.parser /\ a.alive = b.alive

LEMMA FormsSame ==
  ASSUME NEW mm \in MailObjects
  PROVE  /\ SameMail(mm, mm)
         /\ SameMail(Unwiped(mm), mm)
         /\ SameMail(Unprocessed(mm), mm)
         /\ SameMail(Passed(mm), mm)
         /\ SameMail(Written(mm), mm)
BY DEF SameMail, MailObjects, Unwiped, Unprocessed, Passed, Written

LEMMA ClosedSame ==
  ASSUME NEW m, NEW mm \in MailObjects, NEW d
  PROVE  SameMail(Closed(m, mm, d), mm)
BY DEF SameMail, MailObjects, Closed

LEMMA RevertSame ==
  ASSUME NEW m, NEW mm \in MailObjects, NEW c \in Contents,
         NEW r \in Revert(m, mm, c)
  PROVE  SameMail(r.mail, mm)
<1>1. \A d \in Contents : \A x \in Wipe(mm, d) : SameMail(x.mail, mm)
  BY FormsSame, WipeCases, ResultFields
<1>2. \A d \in RevertErrors(m, c) : d \in Contents
  BY RevertErrorsType
<1>3. CASE r = Done(mm, c) \/ r = Done(Unprocessed(mm), Cleaned(c))
  BY <1>3, FormsSame DEF Done
<1>4. CASE \E d \in RevertErrors(m, c) : r \in Wipe(mm, d)
  BY <1>1, <1>2, <1>4
<1> QED BY <1>3, <1>4, RevertCases

LEMMA WriteSame ==
  ASSUME NEW m, NEW mm \in MailObjects, NEW c \in Contents, NEW r \in Write(m, mm, c)
  PROVE  SameMail(r.mail, mm)
<1>1. ASSUME NEW s \in Revert(m, mm, c),
             (s.ok /\ r = Stored(Written(s.mail), s.item)) \/ r = Refused(s.mail, s.item)
      PROVE  SameMail(r.mail, mm)
  <2>1. s.mail \in MailObjects /\ SameMail(s.mail, mm)
    BY RevertType, RevertSame DEF Results
  <2>2. SameMail(Written(s.mail), s.mail)
    BY <2>1, FormsSame
  <2> QED BY <1>1, <2>1, <2>2, ResultFields DEF SameMail
<1> QED BY <1>1, FormsSame, WriteCases, ResultFields

LEMMA CloseSame ==
  ASSUME NEW m, NEW mm \in MailObjects, NEW c \in Contents,
         NEW r \in Close(m, mm, c)
  PROVE  SameMail(r.mail, mm)
<1>1. SameMail(Closed(m, mm, store[m]), mm) /\ SameMail(Closed(m, mm, c), mm)
  BY ClosedSame
<1>2. r.mail \in {mm, Closed(m, mm, store[m]), Closed(m, mm, c)}
  BY CloseCases DEF Done, Failed
<1> QED BY <1>1, <1>2, FormsSame

LEMMA CloseOneSame ==
  ASSUME NEW m \in Mails, TypeOK, NEW r \in CloseOne(m)
  PROVE  SameMail(r.mail, mail[m])
<1>1. mail[m] \in MailObjects /\ item[m] \in Contents
  BY DEF TypeOK
<1>2. ASSUME NEW x \in Close(m, mail[m], item[m])
      PROVE  x \in Results /\ SameMail(x.mail, mail[m])
  BY <1>1, CloseType, CloseSame DEF TypeOK
<1>3. ASSUME NEW x \in Close(m, mail[m], item[m]), r \in Revert(m, x.mail, x.item)
      PROVE  SameMail(r.mail, mail[m])
  BY <1>2, <1>3, RevertSame DEF Results, SameMail
<1> QED BY <1>1, <1>2, <1>3, CloseOneCases, FormsSame, ResultFields

LEMMA ShowSame ==
  ASSUME TypeOK, NEW m \in Mails, NEW found, NEW preview, ShowParsed(m, found, preview)
  PROVE  \A n \in Mails : SameMail(mail'[n], mail[n])
<1>1. mail[m] \in MailObjects
  BY DEF TypeOK
<1>2. SameMail(ParsedMail(mail[m], found), mail[m])
  BY <1>1 DEF ParsedMail, SameMail, MailObjects
<1> QED BY <1>2 DEF ShowParsed, TypeOK, SameMail

LEMMA ShowIfThereSame ==
  ASSUME TypeOK, NEW m \in Mails, NEW preview, ShowIfThere(m, preview)
  PROVE  \A n \in Mails : SameMail(mail'[n], mail[n])
<1>1. CASE mail[m].alive /\ mail[m].parser # NoParser
  BY <1>1, ShowSame DEF ShowIfThere
<1>2. CASE ~(mail[m].alive /\ mail[m].parser # NoParser)
  BY <1>2 DEF ShowIfThere, SameMail
<1> QED BY <1>1, <1>2

\* The handlers that start or end no parse: each mail keeps its parser, or
\* its Mail object is new or gone.
LEMMA ParserKept ==
  ASSUME ParserInv, Idle, UNCHANGED <<thr, result, lock, ui>>,
         \A m \in Mails : SameMail(mail'[m], mail[m]) \/ mail'[m].parser = NoParser
  PROVE  ParserInv'
<1>1. \A p \in Parsers : ui # p
  BY NamesAssumption DEF Idle
<1>2. ParsersWork'
  BY DEF ParserInv, ParsersWork, ParserWorks, SameMail
<1> QED BY <1>1, <1>2
        DEF ParserInv, ThreadsHaveMails, UiWaitsForItsParse, LockIsHeld

LEMMA DecryptVerifyParser ==
  ASSUME TypeOK, ParserInv, Idle, NEW m \in Mails, NEW mm \in MailObjects,
         mm.alive, SameMail(mm, mail[m]), DecryptVerify(m, mm), UNCHANGED <<result, lock>>
  PROVE  ParserInv'
<1>1. ASSUME UNCHANGED <<thr, ui>>, NEW y, mail' = [mail EXCEPT ![m] = y], SameMail(y, mm)
      PROVE  ParserInv'
  <2>1. \A n \in Mails : SameMail(mail'[n], mail[n])
    BY <1>1 DEF SameMail, TypeOK
  <2> QED BY <1>1, <2>1, ParserKept
<1>2. ASSUME NEW p \in Unused, NEW y, mail' = [mail EXCEPT ![m] = y], y.alive, y.parser = p,
             NEW t, Begins(m, p, t)
      PROVE  ParserInv'
  <2>1. p \in Parsers /\ thr[p].pc = "new" /\ p # NoParser
    BY <1>2 DEF Begins
  <2>2. \A q \in Parsers : ui # q
    BY NamesAssumption DEF Idle
  <2>3. /\ mail'[m].parser = p /\ mail'[m].alive
        /\ \A n \in Mails \ {m} : mail'[n] = mail[n]
    BY <1>2 DEF TypeOK
  <2>4. /\ thr'[p].m = m
        /\ thr'[p].pc \in {"start", "sync"} \/ (thr'[p].pc = "end" /\ "nothread" \in Env)
        /\ thr'[p].pc = "sync" <=> ui' = p
        /\ \A q \in Parsers \ {p} : thr'[q] = thr[q] /\ ui' # q
    BY <1>2, <2>1, <2>2 DEF Begins, TypeOK
  <2>5. \A n \in Mails \ {m} : mail[n].parser # p
    BY <2>1 DEF ParserInv, ParsersWork, ParserWorks
  <2>6. \A n \in Mails : mail[n].parser \in Parsers \cup {NoParser}
    BY DEF TypeOK, MailObjects
  <2>7. ThreadsHaveMails' /\ LockIsHeld'
    BY <2>1, <2>3, <2>4 DEF ParserInv, ThreadsHaveMails, LockIsHeld, Holding
  <2>8. UiWaitsForItsParse'
    BY <2>1, <2>2, <2>3, <2>4 DEF ParserInv, UiWaitsForItsParse
  <2>9. ParsersWork'
    <3> SUFFICES ASSUME NEW n \in Mails, mail'[n].parser # NoParser
                 PROVE  /\ mail'[n].alive /\ thr'[mail'[n].parser].m = n
                        /\ ParserWorks(mail[n].parser)'
      BY DEF ParsersWork
    <3>1. CASE n = m
      BY <2>3, <2>4, <3>1 DEF ParserWorks
    <3>2. CASE n # m
      BY <2>3, <2>4, <2>5, <2>6, <3>2 DEF ParserInv, ParsersWork, ParserWorks
    <3> QED BY <3>1, <3>2
  <2> QED BY <2>7, <2>8, <2>9 DEF ParserInv
<1>3. SameMail(mm, mm) /\ \A y : Handled(y, mm) /\ y.parser = mm.parser => SameMail(y, mm)
  BY DEF SameMail, Handled
<1>4. \A y : Handled(y, mm) => y.alive
  BY DEF Handled
<1> QED BY <1>1, <1>2, <1>3, <1>4, DecryptVerifyCases

\* A step of one thread that leaves the mails' parsers and the UI thread alone.
LEMMA ThreadStepParser ==
  ASSUME TypeOK, ParserInv, NEW p \in Parsers,
         thr[p].pc \notin {"new", "sync"}, thr'[p].pc \notin {"new", "sync"},
         thr'[p].m = thr[p].m,
         \A q \in Parsers \ {p} : thr'[q] = thr[q],
         \A m \in Mails : SameMail(mail'[m], mail[m]),
         \A q \in Parsers : result[q] # "none" => result'[q] # "none",
         mail[thr[p].m].parser = p => ParserWorks(p)',
         UNCHANGED ui,
         \/ lock' = lock /\ (thr[p].pc \in Holding <=> thr'[p].pc \in Holding)
         \/ lock = Nobody /\ lock' = p /\ thr'[p].pc \in Holding
         \/ lock = p /\ lock' = Nobody /\ thr'[p].pc \notin Holding
  PROVE  ParserInv'
<1>1. \A m \in Mails : mail[m].parser \in Parsers \cup {NoParser}
  BY DEF TypeOK, MailObjects
<1>2. ThreadsHaveMails'
  BY DEF ParserInv, ThreadsHaveMails
<1>3. UiWaitsForItsParse'
  BY DEF ParserInv, UiWaitsForItsParse, ThreadsHaveMails, SameMail
<1>4. LockIsHeld'
  BY NamesAssumption DEF ParserInv, LockIsHeld, Nobody
<1>5. ParsersWork'
  <2> SUFFICES ASSUME NEW m \in Mails, mail'[m].parser # NoParser
               PROVE  /\ mail'[m].alive /\ thr'[mail'[m].parser].m = m
                      /\ ParserWorks(mail[m].parser)'
    BY DEF ParsersWork
  <2>1. mail'[m].parser = mail[m].parser /\ mail'[m].alive = mail[m].alive
    BY DEF SameMail
  <2>2. mail[m].alive /\ thr[mail[m].parser].m = m /\ ParserWorks(mail[m].parser)
    BY <2>1 DEF ParserInv, ParsersWork
  <2>3. CASE mail[m].parser = p
    BY <2>1, <2>2, <2>3
  <2>4. CASE mail[m].parser # p
    BY <1>1, <2>1, <2>2, <2>4 DEF ParserWorks
  <2> QED BY <2>3, <2>4
<1> QED BY <1>2, <1>3, <1>4, <1>5 DEF ParserInv
-----------------------------------------------------------------------------
(***************************************************************************)
(* Each step keeps the types.                                              *)
(***************************************************************************)
LEMMA TypeNext ==
  ASSUME TypeOK, ThreadsHaveMails, UiWaitsForItsParse, [Next]_vars
  PROVE  TypeOK'
<1> USE DEF TypeOK
<1>1. ASSUME NEW m \in Mails
      PROVE  mail[m] \in MailObjects /\ item[m] \in Contents /\ store[m] \in Contents
  OBVIOUS
<1>2. ASSUME NEW b \in BOOLEAN
      PROVE  NewMail(b) \in MailObjects /\ NoMail \in MailObjects
  BY DEF NewMail, NoMail, MailObjects
<1>3. ASSUME NEW p \in Parsers, NEW pc \in {"wait", "parse", "preview", "second", "done",
                                            "leave", "end"}
      PROVE  [thr EXCEPT ![p].pc = pc] \in [Parsers -> ParseThreads]
  BY DEF ParseThreads
<1>4. ASSUME NEW m \in Mails
      PROVE  <<"revert", m>> \in Messages /\ <<"decrypt", m>> \in Messages
  BY DEF Messages
<1>5. ASSUME NEW m \in Mails, Load(m)
      PROVE  TypeOK'
  BY <1>2, <1>5 DEF Load
<1>6. ASSUME NEW m \in Mails, Read(m)
      PROVE  TypeOK'
  <2> DEFINE mm == [mail[m] EXCEPT
                      !.crypto = IF down THEN @ ELSE ~item[m].open,
                      !.save   = @ \/ /\ "no_smime" \in Options
                                      /\ m \in Smime]
  <2>1. \A k, s \in BOOLEAN : [mail[m] EXCEPT !.crypto = k, !.save = s] \in MailObjects
    BY <1>1 DEF MailObjects
  <2>2. /\ (IF down THEN mail[m].crypto ELSE ~item[m].open) \in BOOLEAN
        /\ (mail[m].save \/ ("no_smime" \in Options /\ m \in Smime)) \in BOOLEAN
    BY <1>1 DEF MailObjects, Contents
  <2>3. mm \in MailObjects
    BY <2>1, <2>2
  <2>4. DecryptVerify(m, mm)
    BY <1>6 DEF Read
  <2> HIDE DEF mm
  <2> QED BY <1>4, <1>6, <2>3, <2>4, DecryptVerifyType DEF Read
<1>7. ASSUME NEW m \in Mails, WriteMail(m)
      PROVE  TypeOK'
  <2>1. \A r \in Write(m, mail[m], item[m]) : r.mail \in MailObjects /\ r.item \in Contents
    BY <1>1, WriteType
  <2> QED BY <1>4, <1>7, <2>1 DEF WriteMail
<1>8. ASSUME NEW m \in Mails, CloseMail(m)
      PROVE  TypeOK'
  <2>1. \A r \in Close(m, mail[m], item[m]) : r.mail \in MailObjects /\ r.item \in Contents
    BY <1>1, CloseType DEF Results
  <2> QED BY <1>8, <2>1 DEF CloseMail
<1>9. ASSUME NEW m \in Mails, CloseDraft(m)
      PROVE  TypeOK'
  <2>1. [mail[m] EXCEPT !.again = TRUE] \in MailObjects
    BY <1>1 DEF MailObjects
  <2> QED BY <1>1, <1>9, <2>1 DEF CloseDraft
<1>10. ASSUME NEW m \in Mails, Unload(m)
       PROVE  TypeOK'
  BY <1>1, <1>2, <1>10 DEF Unload
<1>11. ASSUME NEW m \in Mails, SendAgain(m)
       PROVE  TypeOK'
  <2>1. [mail[m] EXCEPT !.sendAgain = TRUE] \in MailObjects
    BY <1>1 DEF MailObjects
  <2>2. ghost' \in Ghosts
    BY <1>11 DEF SendAgain, Ghosts
  <2> QED BY <1>11, <2>1, <2>2 DEF SendAgain
<1>12. ASSUME NEW m \in Mails, DecryptPermanently(m)
       PROVE  TypeOK'
  <2>1. /\ [mail[m] EXCEPT !.wipe = FALSE, !.processed = FALSE, !.crypto = FALSE]
             \in MailObjects
        /\ [item[m] EXCEPT !.open = TRUE] \in Contents
    <3>1. ASSUME NEW mm \in MailObjects
          PROVE  [mm EXCEPT !.wipe = FALSE, !.processed = FALSE, !.crypto = FALSE]
                   \in MailObjects
      BY DEF MailObjects
    <3>2. ASSUME NEW it \in Contents
          PROVE  [it EXCEPT !.open = TRUE] \in Contents
      BY DEF Contents
    <3> QED BY <1>1, <3>1, <3>2
  <2>2. \A r \in Write(m, [mail[m] EXCEPT !.wipe = FALSE, !.processed = FALSE,
                                          !.crypto = FALSE],
                       [item[m] EXCEPT !.open = TRUE]) :
          r.mail \in MailObjects /\ r.item \in Contents
    BY <2>1, WriteType
  <2>3. ghost' \in Ghosts
    BY <1>12 DEF DecryptPermanently, Ghosts
  <2> QED BY <1>12, <2>2, <2>3 DEF DecryptPermanently
<1>13. ASSUME Shutdown
       PROVE  TypeOK'
  <2>1. PICK r \in [Mails -> UNION {CloseOne(m) : m \in Mails}] :
          /\ \A m \in Mails : r[m] \in CloseOne(m)
          /\ mail' = [m \in Mails |-> r[m].mail]
          /\ item' = [m \in Mails |-> r[m].item]
          /\ ghost' = [ghost EXCEPT !.told = \E m \in Mails : ~r[m].ok]
    BY <1>13 DEF Shutdown
  <2>2. \A m \in Mails : r[m].mail \in MailObjects /\ r[m].item \in Contents
    BY <2>1, CloseOneType DEF Results
  <2>3. ghost' \in Ghosts
    <3>1. (\E m \in Mails : ~r[m].ok) \in BOOLEAN
      OBVIOUS
    <3>2. \A b \in BOOLEAN : [ghost EXCEPT !.told = b] \in Ghosts
      BY DEF Ghosts
    <3> QED BY <2>1, <3>1, <3>2
  <2> QED BY <1>13, <2>1, <2>2, <2>3 DEF Shutdown
<1>14. ASSUME NEW m \in Mails, RevertMail(m)
       PROVE  TypeOK'
  <2>1. CASE mail[m].alive
    <3>1. PICK r \in Write(m, [mail[m] EXCEPT !.save = TRUE], item[m]) :
            /\ mail' = [mail EXCEPT ![m] = r.mail]
            /\ store' = IF r.ok THEN [store EXCEPT ![m] = r.item] ELSE store
            /\ item' = [item EXCEPT ![m] =
                           IF r.mail.parser = NoParser THEN r.item
                           ELSE Shown(r.item, result[r.mail.parser], FALSE)]
      BY <1>14, <2>1 DEF RevertMail
    <3>2. [mail[m] EXCEPT !.save = TRUE] \in MailObjects
      BY <1>1 DEF MailObjects
    <3>3. r.mail \in MailObjects /\ r.item \in Contents
      BY <1>1, <3>2, WriteType
    <3>4. r.mail.parser # NoParser => result[r.mail.parser] \in {"none", "ok", "error"}
      BY <3>3 DEF MailObjects
    <3>5. r.mail.parser # NoParser
            => Shown(r.item, result[r.mail.parser], FALSE) \in Contents
      BY <3>3, <3>4, ShownType
    <3> QED BY <1>14, <3>1, <3>3, <3>5 DEF RevertMail
  <2>2. CASE ~mail[m].alive
    BY <1>14, <2>2 DEF RevertMail
  <2> QED BY <2>1, <2>2
<1>15. ASSUME NEW m \in Mails, DecryptAgain(m)
       PROVE  TypeOK'
  <2>1. CASE mail[m].alive
    <3>1. (~item[m].open) \in BOOLEAN
      OBVIOUS
    <3>2. [mail[m] EXCEPT !.crypto = ~item[m].open] \in MailObjects
      BY <1>1, <3>1 DEF MailObjects
    <3> QED BY <1>15, <2>1, <3>2, DecryptVerifyType DEF DecryptAgain
  <2>2. CASE ~mail[m].alive
    BY <1>15, <2>2 DEF DecryptAgain
  <2> QED BY <2>1, <2>2
<1>16. ASSUME NEW p \in Parsers, ThreadStart(p)
       PROVE  TypeOK'
  <2>1. thr[p] \in ParseThreads /\ thr[p].m \in Mails
    BY <1>16 DEF ThreadStart, ThreadsHaveMails
  <2>2. mail[thr[p].m].parser \in Parsers \cup {NoParser}
    BY <2>1 DEF MailObjects
  <2>3. /\ [thr[p] EXCEPT !.pc = "wait", !.uses = mail[thr[p].m].parser] \in ParseThreads
        /\ [thr[p] EXCEPT !.pc = "end"] \in ParseThreads
    BY <2>1, <2>2 DEF ParseThreads
  <2> QED BY <1>16, <2>3 DEF ThreadStart
<1>17. ASSUME NEW p \in Parsers, ThreadLock(p)
       PROVE  TypeOK'
  <2>1. thr' \in [Parsers -> ParseThreads]
    <3> HIDE DEF TypeOK
    <3>1. \/ thr' = [thr EXCEPT ![p].pc = "parse"]
          \/ thr' = [thr EXCEPT ![p].pc = "end"]
      BY <1>17 DEF ThreadLock, Goto
    <3>2. /\ [thr EXCEPT ![p].pc = "parse"] \in [Parsers -> ParseThreads]
          /\ [thr EXCEPT ![p].pc = "end"] \in [Parsers -> ParseThreads]
      BY <1>3
    <3> QED BY <3>1, <3>2
  <2> QED BY <1>17, <2>1 DEF ThreadLock
<1>18. ASSUME NEW p \in Parsers, ThreadParse(p)
       PROVE  TypeOK'
  <2>1. thr' \in [Parsers -> ParseThreads]
    <3> HIDE DEF TypeOK
    <3>1. \/ thr' = [thr EXCEPT ![p].pc = "preview"]
          \/ thr' = [thr EXCEPT ![p].pc = "done"]
      BY <1>18 DEF ThreadParse, Goto
    <3>2. /\ [thr EXCEPT ![p].pc = "preview"] \in [Parsers -> ParseThreads]
          /\ [thr EXCEPT ![p].pc = "done"] \in [Parsers -> ParseThreads]
      BY <1>3
    <3> QED BY <3>1, <3>2
  <2>2. result' \in [Parsers -> {"none", "ok", "error"}]
    BY <1>18 DEF ThreadParse
  <2> QED BY <1>18, <2>1, <2>2 DEF ThreadParse
<1>19. ASSUME NEW p \in Parsers, ShowPreview(p)
       PROVE  TypeOK'
  <2>1. thr[p].m \in Mails
    BY <1>19 DEF ShowPreview, ThreadsHaveMails
  <2> QED BY <1>3, <1>19, <2>1, ShowIfThereType DEF ShowPreview, Goto
<1>20. ASSUME NEW p \in Parsers, ThreadSecond(p)
       PROVE  TypeOK'
  BY <1>3, <1>20 DEF ThreadSecond, Goto
<1>21. ASSUME NEW p \in Parsers, ParsingDone(p)
       PROVE  TypeOK'
  <2>1. thr[p].m \in Mails
    BY <1>21 DEF ParsingDone, ThreadsHaveMails
  <2> QED BY <1>3, <1>21, <2>1, ShowIfThereType DEF ParsingDone, Goto
<1>22. ASSUME NEW p \in Parsers, ThreadLeave(p)
       PROVE  TypeOK'
  BY <1>3, <1>22 DEF ThreadLeave, Goto
<1>23. ASSUME NEW p \in Parsers, SyncParse(p)
       PROVE  TypeOK'
  <2>1. thr[p].m \in Mails
    BY <1>23 DEF SyncParse, ThreadsHaveMails, UiWaitsForItsParse
  <2>2. PICK r \in {"ok", "error"} : /\ result' = [result EXCEPT ![p] = r]
                                     /\ ShowParsed(thr[p].m, r, FALSE)
    BY <1>23 DEF SyncParse
  <2>3. mail' \in [Mails -> MailObjects] /\ item' \in [Mails -> Contents]
    BY <2>1, <2>2, ShowParsedType
  <2> QED BY <1>3, <1>23, <2>2, <2>3 DEF SyncParse, Goto
<1>24. CASE LoadNew
  BY <1>24 DEF LoadNew
<1>25. CASE ClearLast
  BY <1>25 DEF ClearLast
<1>26. CASE UNCHANGED vars
  BY <1>26 DEF vars
<1> QED BY <1>5, <1>6, <1>7, <1>8, <1>9, <1>10, <1>11, <1>12, <1>13, <1>14, <1>15, <1>16,
           <1>17, <1>18, <1>19, <1>20, <1>21, <1>22, <1>23, <1>24, <1>25, <1>26
        DEF Next, Messaging, Outlook, Parse
-----------------------------------------------------------------------------
(***************************************************************************)
(* Each step keeps ParserInv.                                              *)
(***************************************************************************)
LEMMA ParserNext ==
  ASSUME TypeOK, ParserInv, [Next]_vars
  PROVE  ParserInv'
<1>1. ASSUME NEW m \in Mails
      PROVE  mail[m] \in MailObjects /\ item[m] \in Contents /\ store[m] \in Contents
  BY DEF TypeOK
<1>2. ASSUME NEW m \in Mails, NEW x, SameMail(x, mail[m]), mail' = [mail EXCEPT ![m] = x]
      PROVE  \A n \in Mails : SameMail(mail'[n], mail[n])
  BY <1>2 DEF SameMail, TypeOK
<1>3. UNCHANGED mail => \A n \in Mails : SameMail(mail'[n], mail[n])
  BY DEF SameMail
<1>4. ASSUME NEW m \in Mails, Load(m) \/ Unload(m)
      PROVE  ParserInv'
  <2>1. mail'[m].parser = NoParser /\ \A n \in Mails \ {m} : mail'[n] = mail[n]
    <3>1. NoMail.parser = NoParser /\ \A b : NewMail(b).parser = NoParser
      BY DEF NewMail, NoMail
    <3> QED BY <1>4, <3>1 DEF Load, Unload, TypeOK
  <2>2. \A n \in Mails : SameMail(mail'[n], mail[n]) \/ mail'[n].parser = NoParser
    BY <2>1 DEF SameMail
  <2> QED BY <1>4, <2>2, ParserKept DEF Load, Unload
<1>5. ASSUME NEW m \in Mails, Read(m)
      PROVE  ParserInv'
  <2> DEFINE mm == [mail[m] EXCEPT
                      !.crypto = IF down THEN @ ELSE ~item[m].open,
                      !.save   = @ \/ /\ "no_smime" \in Options
                                      /\ m \in Smime]
  <2>1. \A k, s \in BOOLEAN : [mail[m] EXCEPT !.crypto = k, !.save = s] \in MailObjects
    BY <1>1 DEF MailObjects
  <2>2. /\ (IF down THEN mail[m].crypto ELSE ~item[m].open) \in BOOLEAN
        /\ (mail[m].save \/ ("no_smime" \in Options /\ m \in Smime)) \in BOOLEAN
    BY <1>1 DEF MailObjects, Contents
  <2>3. mm \in MailObjects
    BY <2>1, <2>2
  <2>4. mm.alive /\ SameMail(mm, mail[m])
    <3>1. \A k, s \in BOOLEAN :
            /\ [mail[m] EXCEPT !.crypto = k, !.save = s].alive = mail[m].alive
            /\ [mail[m] EXCEPT !.crypto = k, !.save = s].parser = mail[m].parser
      BY <1>1 DEF MailObjects
    <3>2. mm.alive = mail[m].alive /\ mm.parser = mail[m].parser
      BY <2>2, <3>1
    <3> QED BY <1>5, <3>2 DEF Read, SameMail
  <2>5. DecryptVerify(m, mm)
    BY <1>5 DEF Read
  <2> HIDE DEF mm
  <2> QED BY <1>5, <2>3, <2>4, <2>5, DecryptVerifyParser DEF Read
<1>6. ASSUME NEW m \in Mails, WriteMail(m)
      PROVE  ParserInv'
  <2>1. \A r \in Write(m, mail[m], item[m]) : SameMail(r.mail, mail[m])
    BY <1>1, WriteSame
  <2>2. \A n \in Mails : SameMail(mail'[n], mail[n])
    BY <1>2, <1>6, <2>1 DEF WriteMail
  <2> QED BY <1>6, <2>2, ParserKept DEF WriteMail
<1>7. ASSUME NEW m \in Mails, CloseMail(m)
      PROVE  ParserInv'
  <2>1. \A r \in Close(m, mail[m], item[m]) : SameMail(r.mail, mail[m])
    BY <1>1, CloseSame
  <2>2. \A n \in Mails : SameMail(mail'[n], mail[n])
    BY <1>2, <1>7, <2>1 DEF CloseMail
  <2> QED BY <1>7, <2>2, ParserKept DEF CloseMail
<1>8. ASSUME NEW m \in Mails, CloseDraft(m) \/ SendAgain(m)
      PROVE  ParserInv'
  <2>1. \A n \in Mails : SameMail(mail'[n], mail[n])
    BY <1>1, <1>8 DEF CloseDraft, SendAgain, SameMail, MailObjects, TypeOK
  <2> QED BY <1>8, <2>1, ParserKept DEF CloseDraft, SendAgain
<1>9. ASSUME NEW m \in Mails, DecryptPermanently(m)
      PROVE  ParserInv'
  <2> DEFINE mm == [mail[m] EXCEPT !.wipe = FALSE, !.processed = FALSE, !.crypto = FALSE]
             c  == [item[m] EXCEPT !.open = TRUE]
  <2>1. mm \in MailObjects /\ c \in Contents /\ SameMail(mm, mail[m])
    BY <1>1 DEF MailObjects, Contents, SameMail
  <2>2. PICK r \in Write(m, mm, c) : mail' = [mail EXCEPT ![m] = r.mail]
    BY <1>9 DEF DecryptPermanently
  <2> HIDE DEF mm, c
  <2>3. SameMail(r.mail, mail[m])
    BY <2>1, WriteSame DEF SameMail
  <2>4. \A n \in Mails : SameMail(mail'[n], mail[n])
    BY <1>2, <2>2, <2>3
  <2> QED BY <1>9, <2>4, ParserKept DEF DecryptPermanently
<1>10. ASSUME Shutdown
       PROVE  ParserInv'
  <2>1. \A m \in Mails : SameMail(mail'[m], mail[m])
    BY <1>10, CloseOneSame DEF Shutdown
  <2> QED BY <1>10, <2>1, ParserKept DEF Shutdown
<1>11. ASSUME NEW m \in Mails, RevertMail(m)
       PROVE  ParserInv'
  <2>1. CASE mail[m].alive
    <3>1. PICK r \in Write(m, [mail[m] EXCEPT !.save = TRUE], item[m]) :
            mail' = [mail EXCEPT ![m] = r.mail]
      BY <1>11, <2>1 DEF RevertMail
    <3>2. /\ [mail[m] EXCEPT !.save = TRUE] \in MailObjects
          /\ SameMail([mail[m] EXCEPT !.save = TRUE], mail[m])
      BY <1>1 DEF MailObjects, SameMail
    <3>3. SameMail(r.mail, [mail[m] EXCEPT !.save = TRUE])
      BY <1>1, <3>2, WriteSame
    <3>4. SameMail(r.mail, mail[m])
      BY <3>2, <3>3 DEF SameMail
    <3>5. \A n \in Mails : SameMail(mail'[n], mail[n])
      BY <1>2, <3>1, <3>4
    <3> QED BY <1>11, <3>5, ParserKept DEF RevertMail
  <2>2. CASE ~mail[m].alive
    BY <1>3, <1>11, <2>2, ParserKept DEF RevertMail
  <2> QED BY <2>1, <2>2
<1>12. ASSUME NEW m \in Mails, DecryptAgain(m)
       PROVE  ParserInv'
  <2>1. CASE mail[m].alive
    <3> DEFINE mm == [mail[m] EXCEPT !.crypto = ~item[m].open]
    <3>1. (~item[m].open) \in BOOLEAN
      OBVIOUS
    <3>2. mm \in MailObjects /\ mm.alive /\ SameMail(mm, mail[m])
      BY <1>1, <2>1, <3>1 DEF MailObjects, SameMail
    <3>3. DecryptVerify(m, mm)
      BY <1>12, <2>1 DEF DecryptAgain
    <3> HIDE DEF mm
    <3> QED BY <1>12, <3>2, <3>3, DecryptVerifyParser DEF DecryptAgain
  <2>2. CASE ~mail[m].alive
    BY <1>3, <1>12, <2>2, ParserKept DEF DecryptAgain
  <2> QED BY <2>1, <2>2
<1>13. CASE LoadNew \/ ClearLast
  BY <1>3, <1>13, ParserKept DEF LoadNew, ClearLast
<1>14. CASE \E p \in Parsers : Parse(p)
  <2> SUFFICES ASSUME NEW p \in Parsers, Parse(p)
               PROVE  ParserInv'
    BY <1>14
  <2>0. thr[p].pc # "new" => thr[p].m \in Mails
    BY DEF ParserInv, ThreadsHaveMails
  <2>1. CASE ThreadStart(p)
    <3>1. mail[thr[p].m].parser = p => thr[p].m \in Mails /\ mail[thr[p].m].alive
      BY <2>0, <2>1, NamesAssumption DEF ThreadStart, ParserInv, ParsersWork, NoParser
    <3>2. /\ thr'[p].pc \in {"wait", "end"} /\ thr'[p].m = thr[p].m
          /\ \A q \in Parsers \ {p} : thr'[q] = thr[q]
          /\ mail[thr[p].m].alive
               => thr'[p].pc = "wait" /\ thr'[p].uses = mail[thr[p].m].parser
      BY <2>1 DEF ThreadStart, TypeOK, ParseThreads
    <3>3. mail[thr[p].m].parser = p => ParserWorks(p)'
      BY <3>1, <3>2 DEF ParserWorks
    <3> QED BY <1>3, <2>1, <3>2, <3>3, ThreadStepParser DEF ThreadStart, Holding
  <2>2. CASE ThreadLock(p)
    <3>1. mail[thr[p].m].parser = p
            => thr[p].m \in Mails /\ mail[thr[p].m].alive /\ ParserWorks(p)
      BY <2>0, <2>2, NamesAssumption DEF ThreadLock, ParserInv, ParsersWork, NoParser
    <3>2. /\ thr'[p].pc \in {"parse", "end"} /\ thr'[p].m = thr[p].m
          /\ thr'[p].uses = thr[p].uses
          /\ \A q \in Parsers \ {p} : thr'[q] = thr[q]
          /\ MayParse(p) <=> thr'[p].pc = "parse"
          /\ lock' = IF MayParse(p) THEN p ELSE lock
      BY <2>2 DEF ThreadLock, Goto, TypeOK, ParseThreads
    <3>3. mail[thr[p].m].parser = p => ParserWorks(p)'
      BY <2>2, <3>1, <3>2, NamesAssumption DEF ThreadLock, ParserWorks, MayParse, NoParser
    <3> QED BY <1>3, <2>2, <3>2, <3>3, ThreadStepParser DEF ThreadLock, Holding
  <2>3. CASE ThreadParse(p)
    <3>1. PICK r \in {"ok", "error"} : result' = [result EXCEPT ![thr[p].uses] = r]
      BY <2>3 DEF ThreadParse
    <3>2. /\ thr'[p].pc \in {"preview", "done"} /\ thr'[p].m = thr[p].m
          /\ \A q \in Parsers \ {p} : thr'[q] = thr[q]
          /\ \A q \in Parsers : result[q] # "none" => result'[q] # "none"
          /\ \A q \in Parsers : thr[p].uses = q => result'[q] # "none"
      BY <2>3, <3>1 DEF ThreadParse, Goto, TypeOK, ParseThreads
    <3>3. mail[thr[p].m].parser = p => ParserWorks(p)
      BY <2>0, <2>3, NamesAssumption DEF ThreadParse, ParserInv, ParsersWork, NoParser
    <3>4. mail[thr[p].m].parser = p => ParserWorks(p)'
      BY <2>3, <3>2, <3>3 DEF ThreadParse, ParserWorks
    <3> QED BY <1>3, <2>3, <3>2, <3>4, ThreadStepParser DEF ThreadParse, Holding
  <2>4. CASE ShowPreview(p) \/ ParsingDone(p)
    <3>1. \A m \in Mails : SameMail(mail'[m], mail[m])
      BY <2>0, <2>4, ShowIfThereSame DEF ShowPreview, ParsingDone
    <3>2. /\ thr'[p].pc \in {"second", "leave"} /\ thr'[p].m = thr[p].m
          /\ \A q \in Parsers \ {p} : thr'[q] = thr[q]
      <4>1. Goto(p, "second") \/ Goto(p, "leave")
        BY <2>4 DEF ShowPreview, ParsingDone
      <4>2. thr \in [Parsers -> ParseThreads]
        BY DEF TypeOK
      <4> QED BY <4>1, <4>2 DEF Goto, ParseThreads
    <3>3. mail[thr[p].m].parser = p => ParserWorks(p)
      BY <2>0, <2>4, NamesAssumption
         DEF ShowPreview, ParsingDone, ParserInv, ParsersWork, NoParser
    <3>4. mail[thr[p].m].parser = p => ParserWorks(p)'
      BY <2>4, <3>2, <3>3 DEF ShowPreview, ParsingDone, ParserWorks
    <3> QED BY <2>4, <3>1, <3>2, <3>4, ThreadStepParser
            DEF ShowPreview, ParsingDone, Holding
  <2>5. CASE ThreadSecond(p) \/ ThreadLeave(p)
    <3>1. /\ thr'[p].pc \in {"done", "leave", "end"} /\ thr'[p].m = thr[p].m
          /\ ThreadSecond(p) => thr'[p].pc \in Holding
          /\ ThreadLeave(p) => thr'[p].pc = "end"
          /\ \A q \in Parsers \ {p} : thr'[q] = thr[q]
      BY <2>5 DEF ThreadSecond, ThreadLeave, Goto, TypeOK, ParseThreads, Holding
    <3>2. mail[thr[p].m].parser = p => ParserWorks(p)
      BY <2>0, <2>5, NamesAssumption
         DEF ThreadSecond, ThreadLeave, ParserInv, ParsersWork, NoParser
    <3>3. mail[thr[p].m].parser = p => ParserWorks(p)'
      BY <2>5, <3>1, <3>2 DEF ThreadSecond, ThreadLeave, ParserWorks
    <3>4. lock = p
      BY <2>5 DEF ThreadSecond, ThreadLeave, ParserInv, LockIsHeld, Holding
    <3> QED BY <1>3, <2>5, <3>1, <3>3, <3>4, ThreadStepParser
            DEF ThreadSecond, ThreadLeave, Holding
  <2>6. CASE SyncParse(p)
    <3>1. PICK r \in {"ok", "error"} : /\ result' = [result EXCEPT ![p] = r]
                                       /\ ShowParsed(thr[p].m, r, FALSE)
      BY <2>6 DEF SyncParse
    <3>2. thr[p].pc = "sync" /\ \A q \in Parsers \ {p} : ui # q /\ thr[q].pc # "sync"
      BY <2>6 DEF SyncParse, ParserInv, UiWaitsForItsParse
    <3>3. /\ thr'[p].pc = "end" /\ thr'[p].m = thr[p].m
          /\ \A q \in Parsers \ {p} : thr'[q] = thr[q]
          /\ \A q \in Parsers : result[q] # "none" => result'[q] # "none"
          /\ result'[p] # "none"
      BY <2>6, <3>1 DEF SyncParse, Goto, TypeOK, ParseThreads
    <3>4. \A n \in Mails : SameMail(mail'[n], mail[n])
      BY <2>0, <3>1, <3>2, ShowSame
    <3>5. \A n \in Mails : mail[n].parser \in Parsers \cup {NoParser}
      BY <1>1 DEF MailObjects
    <3>6. UiWaitsForItsParse' /\ ThreadsHaveMails' /\ LockIsHeld'
      BY <2>6, <3>2, <3>3, NamesAssumption
         DEF SyncParse, ParserInv, UiWaitsForItsParse, ThreadsHaveMails, LockIsHeld, Holding
    <3>7. ParsersWork'
      <4> SUFFICES ASSUME NEW m \in Mails, mail'[m].parser # NoParser
                   PROVE  /\ mail'[m].alive /\ thr'[mail'[m].parser].m = m
                          /\ ParserWorks(mail[m].parser)'
        BY DEF ParsersWork
      <4>1. mail'[m].parser = mail[m].parser /\ mail'[m].alive = mail[m].alive
        BY <3>4 DEF SameMail
      <4>2. mail[m].alive /\ thr[mail[m].parser].m = m /\ ParserWorks(mail[m].parser)
        BY <4>1 DEF ParserInv, ParsersWork
      <4>3. CASE mail[m].parser = p
        BY <3>3, <4>1, <4>2, <4>3 DEF ParserWorks
      <4>4. CASE mail[m].parser # p
        BY <3>3, <3>5, <4>1, <4>2, <4>4 DEF ParserWorks
      <4> QED BY <4>3, <4>4
    <3> QED BY <3>6, <3>7 DEF ParserInv
  <2> QED BY <2>1, <2>2, <2>3, <2>4, <2>5, <2>6 DEF Parse
<1>15. CASE UNCHANGED vars
  BY <1>15 DEF vars, ParserInv, ThreadsHaveMails, UiWaitsForItsParse, ParsersWork,
               ParserWorks, LockIsHeld
<1> QED BY <1>4, <1>5, <1>6, <1>7, <1>8, <1>9, <1>10, <1>11, <1>12, <1>13, <1>14, <1>15
        DEF Next, Messaging, Outlook

LEMMA InitTyped ==
  ASSUME Init
  PROVE  TypeOK /\ ParserInv
<1>1. TypeOK
  BY DEF Init, TypeOK, NoMail, NewMail, MailObjects, Received, Contents, Bodies,
         ParseThreads, NoParser, Nobody, Messages, Ghosts
<1>2. ParserInv
  BY NamesAssumption
     DEF Init, ParserInv, ThreadsHaveMails, UiWaitsForItsParse, ParsersWork, LockIsHeld,
         Holding, NoMail, NewMail, NoParser, Nobody
<1> QED BY <1>1, <1>2

\* Every variable keeps its type, and so do the Mail objects, the contents and
\* the threads that the handlers build.
THEOREM TypeCorrect == Spec => []TypeOK
<1>1. Init => TypeOK /\ ParserInv
  BY InitTyped
<1>2. TypeOK /\ ParserInv /\ [Next]_vars => (TypeOK /\ ParserInv)'
  BY TypeNext, ParserNext DEF ParserInv
<1> QED BY <1>1, <1>2, PTL DEF Spec

\* A mail that has a ParseController gets its result: the thread made with the
\* controller still runs for this mail, or has found something. parser_lock is
\* held by at most one thread, and by no thread that ended: do_parsing gives it
\* back on every way out.
THEOREM ParsersAreSound == Spec => []ParserInv
<1>1. Init => TypeOK /\ ParserInv
  BY InitTyped
<1>2. TypeOK /\ ParserInv /\ [Next]_vars => (TypeOK /\ ParserInv)'
  BY TypeNext, ParserNext DEF ParserInv
<1> QED BY <1>1, <1>2, PTL DEF Spec
-----------------------------------------------------------------------------
(***************************************************************************)
(* A mail shows only finished parses. It fails when a mail is closed and   *)
(* read again while it is parsed: there may be two parses of it then.      *)
(***************************************************************************)
OneAtATime == "late" \notin Env \/ "sync_dec" \in Options

Runs(p) == thr[p].pc \notin {"new", "end"}
OneParse == \A p, q \in Parsers : Runs(p) /\ Runs(q) /\ thr[p].m = thr[q].m => p = q
SyncOnly == "sync_dec" \in Options
            => \A p \in Parsers : thr[p].pc \in {"new", "sync", "end"}
NoVoid   == \A m \in Mails : item[m].body # "void" /\ store[m].body # "void"

FinishedInv == OneParse /\ SyncOnly /\ NoVoid

\* Cleaning shows nothing that was not shown.
NoMore(d, c) == /\ d.body \in {c.body, "clean", "empty"}
                /\ d.atts => c.atts
                /\ d.open = c.open

LEMMA FormsNoMore ==
  ASSUME NEW c \in Contents
  PROVE  NoMore(c, c) /\ NoMore(Emptied(c), c) /\ NoMore(Bare(c), c) /\ NoMore(Cleaned(c), c)
BY DEF NoMore, Contents, Emptied, Bare, Cleaned

LEMMA NoMoreTrans ==
  ASSUME NEW a, NEW b, NEW c, NoMore(a, b), NoMore(b, c)
  PROVE  NoMore(a, c)
BY DEF NoMore

LEMMA WipeNoMore ==
  ASSUME NEW mm \in MailObjects, NEW c \in Contents, NEW r \in Wipe(mm, c)
  PROVE  NoMore(r.item, c)
<1>1. r.item = c \/ r.item = Emptied(c)
  BY WipeCases DEF Done, Failed
<1> QED BY <1>1, FormsNoMore

LEMMA RevertNoMore ==
  ASSUME NEW m, NEW mm \in MailObjects, NEW c \in Contents, NEW r \in Revert(m, mm, c)
  PROVE  NoMore(r.item, c)
<1>1. CASE r = Done(mm, c) \/ r = Done(Unprocessed(mm), Cleaned(c))
  BY <1>1, FormsNoMore DEF Done
<1>2. CASE \E d \in RevertErrors(m, c) : r \in Wipe(mm, d)
  <2>1. PICK d \in RevertErrors(m, c) : r \in Wipe(mm, d)
    BY <1>2
  <2>2. d \in Contents
    BY RevertErrorsType
  <2>3. d = c \/ d = Emptied(c) \/ d = Bare(c)
    BY RevertErrorsCases
  <2>4. NoMore(d, c)
    BY <2>3, FormsNoMore
  <2>5. NoMore(r.item, d)
    BY <2>1, <2>2, WipeNoMore
  <2> QED BY <2>4, <2>5, NoMoreTrans
<1> QED BY <1>1, <1>2, RevertCases

LEMMA WriteNoMore ==
  ASSUME NEW m, NEW mm \in MailObjects, NEW c \in Contents, NEW r \in Write(m, mm, c)
  PROVE  NoMore(r.item, c)
<1>1. CASE \E s \in Revert(m, mm, c) : \/ r = Stored(Written(s.mail), s.item)
                                       \/ r = Refused(s.mail, s.item)
  BY <1>1, RevertNoMore DEF Stored, Refused
<1>2. CASE r \in {Stored(Passed(mm), c), Asked(mm, c), Stored(Written(mm), c)}
  <2>1. r.item = c
    BY <1>2 DEF Stored, Asked
  <2> QED BY <2>1, FormsNoMore
<1> QED BY <1>1, <1>2, WriteCases

LEMMA CloseShows ==
  ASSUME NEW m \in Mails, NEW mm \in MailObjects, NEW c \in Contents, NEW r \in Close(m, mm, c)
  PROVE  \/ r.item = store[m]
         \/ r.item = c /\ ("window" \in Env \/ "closeerr" \in Env)
<1>1. CASE r = Done(Closed(m, mm, store[m]), store[m])
  BY <1>1 DEF Done
<1>2. CASE "window" \in Env /\ r = Done(Closed(m, mm, c), c)
  BY <1>2 DEF Done
<1>3. CASE "closeerr" \in Env /\ r = Failed(mm, c)
  BY <1>3 DEF Failed
<1> QED BY <1>1, <1>2, <1>3, CloseCases

LEMMA CloseOneNoMore ==
  ASSUME TypeOK, NEW m \in Mails, NEW r \in CloseOne(m)
  PROVE  NoMore(r.item, item[m]) \/ NoMore(r.item, store[m])
<1>1. mail[m] \in MailObjects /\ item[m] \in Contents /\ store[m] \in Contents
  BY DEF TypeOK
<1>2. ASSUME NEW x \in Close(m, mail[m], item[m])
      PROVE  x.item \in {item[m], store[m]} /\ x \in Results
  BY <1>1, CloseShows, CloseType DEF TypeOK
<1>3. CASE r = Done(mail[m], item[m])
  BY <1>1, <1>3, FormsNoMore DEF Done
<1>4. ASSUME NEW x \in Close(m, mail[m], item[m]), r = x
      PROVE  NoMore(r.item, item[m]) \/ NoMore(r.item, store[m])
  BY <1>1, <1>2, <1>4, FormsNoMore
<1>5. ASSUME NEW x \in Close(m, mail[m], item[m]), r \in Revert(m, x.mail, x.item)
      PROVE  NoMore(r.item, item[m]) \/ NoMore(r.item, store[m])
  <2>1. x.mail \in MailObjects /\ x.item \in Contents
    BY <1>2 DEF Results
  <2>2. NoMore(r.item, x.item)
    BY <1>5, <2>1, RevertNoMore
  <2> QED BY <1>2, <2>2
<1> QED BY <1>3, <1>4, <1>5, CloseOneCases

LEMMA ShownNotVoid ==
  ASSUME TypeOK, NoVoid, NEW m \in Mails, NEW found \in {"ok", "error"},
         NEW preview \in BOOLEAN, ShowParsed(m, found, preview)
  PROVE  \A n \in Mails : item'[n].body # "void"
<1>1. item[m] \in Contents
  BY DEF TypeOK
<1>2. Shown(item[m], found, preview).body \in {"error", "preview", "plain"}
  BY <1>1 DEF Shown, Contents
<1>3. Shown(item[m], found, preview) \in Contents
  BY <1>1, ShownType
<1>4. \A a : [Shown(item[m], found, preview) EXCEPT !.atts = a].body # "void"
  BY <1>2, <1>3 DEF Contents
<1>5. ParsedItem(m, item[m], found, preview).body # "void"
  BY <1>4 DEF ParsedItem
<1> QED BY <1>5 DEF ShowParsed, NoVoid, TypeOK

\* The thread that shows a mail is the only one that parses it, so that the
\* parser the mail has by then has found something.
LEMMA ParserFound ==
  ASSUME TypeOK, ParserInv, OneParse, NEW m \in Mails, mail[m].parser # NoParser,
         \A p \in Parsers : Runs(p) /\ thr[p].m = m
                            => thr[p].pc \notin {"start", "sync", "wait", "parse"},
         "nothread" \notin Env
  PROVE  result[mail[m].parser] \in {"ok", "error"}
<1>1. mail[m].parser \in Parsers
  BY DEF TypeOK, MailObjects
<1>2. thr[mail[m].parser].m = m /\ ParserWorks(mail[m].parser)
  BY DEF ParserInv, ParsersWork
<1> QED BY <1>1, <1>2 DEF ParserWorks, Runs, TypeOK

LEMMA ShowIfThereNotVoid ==
  ASSUME TypeOK, ParserInv, OneParse, NoVoid, NEW p \in Parsers, "nothread" \notin Env,
         thr[p].pc \in {"preview", "done"}, NEW preview \in BOOLEAN,
         ShowIfThere(thr[p].m, preview)
  PROVE  \A n \in Mails : item'[n].body # "void"
<1>1. thr[p].m \in Mails
  BY DEF ParserInv, ThreadsHaveMails
<1>2. CASE mail[thr[p].m].alive /\ mail[thr[p].m].parser # NoParser
  <2>1. \A q \in Parsers : Runs(q) /\ thr[q].m = thr[p].m => q = p
    BY DEF OneParse, Runs
  <2>2. result[mail[thr[p].m].parser] \in {"ok", "error"}
    BY <1>1, <1>2, <2>1, ParserFound
  <2> QED BY <1>1, <1>2, <2>2, ShownNotVoid DEF ShowIfThere
<1>3. CASE ~(mail[thr[p].m].alive /\ mail[thr[p].m].parser # NoParser)
  BY <1>3 DEF ShowIfThere, NoVoid
<1> QED BY <1>2, <1>3

LEMMA DecryptVerifyNotVoid ==
  ASSUME TypeOK, NoVoid, NEW m \in Mails, NEW mm, DecryptVerify(m, mm)
  PROVE  NoVoid'
<1>1. item' = item \/ item' = [item EXCEPT ![m].body = "wait"]
  BY DEF DecryptVerify, StartParse
<1>2. store' = store \/ store' = [store EXCEPT ![m] = item[m]]
  BY DEF DecryptVerify
<1>3. \A n \in Mails : item'[n].body # "void"
  BY <1>1 DEF NoVoid, TypeOK, Contents
<1>4. \A n \in Mails : store'[n].body # "void"
  BY <1>2 DEF NoVoid, TypeOK
<1> QED BY <1>3, <1>4 DEF NoVoid

LEMMA NotVoidNext ==
  ASSUME TypeOK, ParserInv, OneAtATime, "nothread" \notin Env, FinishedInv, [Next]_vars
  PROVE  NoVoid'
<1> USE DEF FinishedInv
<1>1. ASSUME NEW m \in Mails
      PROVE  /\ mail[m] \in MailObjects /\ item[m] \in Contents /\ store[m] \in Contents
             /\ item[m].body # "void" /\ store[m].body # "void"
  BY DEF TypeOK, NoVoid
<1>2. ASSUME NEW m \in Mails, NEW d, NoMore(d, item[m]) \/ NoMore(d, store[m])
      PROVE  d.body # "void"
  BY <1>1, <1>2 DEF NoMore
<1>3. ASSUME NEW m \in Mails, Read(m) \/ DecryptAgain(m)
      PROVE  NoVoid'
  <2>1. CASE \E mm : DecryptVerify(m, mm)
    BY <2>1, DecryptVerifyNotVoid
  <2>2. CASE UNCHANGED <<mail, item, store>>
    BY <2>2 DEF NoVoid
  <2> QED BY <1>3, <2>1, <2>2 DEF Read, DecryptAgain
<1>4. ASSUME NEW m \in Mails, WriteMail(m)
      PROVE  NoVoid'
  <2>1. PICK r \in Write(m, mail[m], item[m]) :
          /\ item' = [item EXCEPT ![m] = r.item]
          /\ store' = IF r.ok THEN [store EXCEPT ![m] = r.item] ELSE store
    BY <1>4 DEF WriteMail
  <2>2. r.item.body # "void"
    BY <1>1, <1>2, WriteNoMore
  <2> QED BY <1>1, <2>1, <2>2 DEF NoVoid, TypeOK
<1>5. ASSUME NEW m \in Mails, CloseMail(m)
      PROVE  NoVoid'
  <2>1. PICK r \in Close(m, mail[m], item[m]) : item' = [item EXCEPT ![m] = r.item]
    BY <1>5 DEF CloseMail
  <2>2. r.item.body # "void"
    BY <1>1, CloseShows
  <2> QED BY <1>1, <1>5, <2>1, <2>2 DEF CloseMail, NoVoid, TypeOK
<1>6. ASSUME NEW m \in Mails, CloseDraft(m) \/ Unload(m)
      PROVE  NoVoid'
  BY <1>1, <1>6 DEF CloseDraft, Unload, NoVoid, TypeOK
<1>7. ASSUME NEW m \in Mails, DecryptPermanently(m)
      PROVE  NoVoid'
  <2> DEFINE mm == [mail[m] EXCEPT !.wipe = FALSE, !.processed = FALSE, !.crypto = FALSE]
             c  == [item[m] EXCEPT !.open = TRUE]
  <2>1. mm \in MailObjects /\ c \in Contents /\ c.body # "void"
    BY <1>1 DEF MailObjects, Contents
  <2>2. PICK r \in Write(m, mm, c) : /\ item' = [item EXCEPT ![m] = r.item]
                                     /\ store' = [store EXCEPT ![m] = r.item]
    BY <1>7 DEF DecryptPermanently
  <2> HIDE DEF mm, c
  <2>3. r.item.body # "void"
    BY <2>1, WriteNoMore DEF NoMore
  <2> QED BY <1>1, <2>2, <2>3 DEF NoVoid, TypeOK
<1>8. ASSUME Shutdown
      PROVE  NoVoid'
  <2>1. PICK r : /\ \A m \in Mails : r[m] \in CloseOne(m)
                 /\ item' = [m \in Mails |-> r[m].item]
    BY <1>8 DEF Shutdown
  <2>2. \A m \in Mails : r[m].item.body # "void"
    BY <1>2, <2>1, CloseOneNoMore
  <2> QED BY <1>8, <2>1, <2>2 DEF Shutdown, NoVoid
<1>9. ASSUME NEW m \in Mails, RevertMail(m)
      PROVE  NoVoid'
  <2>1. CASE ~mail[m].alive
    BY <1>9, <2>1 DEF RevertMail, NoVoid
  <2>2. CASE mail[m].alive
    <3> DEFINE mm == [mail[m] EXCEPT !.save = TRUE]
    <3>1. PICK r \in Write(m, mm, item[m]) :
            /\ store' = IF r.ok THEN [store EXCEPT ![m] = r.item] ELSE store
            /\ item' = [item EXCEPT ![m] =
                           IF r.mail.parser = NoParser THEN r.item
                           ELSE Shown(r.item, result[r.mail.parser], FALSE)]
      BY <1>9, <2>2 DEF RevertMail
    <3>2. mm \in MailObjects /\ SameMail(mm, mail[m])
      BY <1>1 DEF MailObjects, SameMail
    <3> HIDE DEF mm
    <3>3. r.item.body # "void" /\ r.item \in Contents /\ r.mail.parser = mail[m].parser
      BY <1>1, <1>2, <3>2, WriteNoMore, WriteSame, WriteType DEF SameMail
    <3>4. mail[m].parser # NoParser => result[mail[m].parser] \in {"ok", "error"}
      <4>1. \A p \in Parsers : Runs(p) /\ thr[p].m = m
                               => thr[p].pc \notin {"start", "sync", "wait", "parse"}
        BY <1>9, NamesAssumption
           DEF RevertMail, OneAtATime, SyncOnly, Settled, Running, Runs, Idle,
               ParserInv, UiWaitsForItsParse
      <4> QED BY <4>1, ParserFound
    <3>5. mail[m].parser # NoParser
            => Shown(r.item, result[mail[m].parser], FALSE).body # "void"
      BY <3>3, <3>4 DEF Shown, Contents
    <3> QED BY <1>1, <3>1, <3>3, <3>5 DEF NoVoid, TypeOK
  <2> QED BY <2>1, <2>2
<1>10. ASSUME NEW p \in Parsers, ShowPreview(p) \/ ParsingDone(p)
       PROVE  NoVoid'
  <2>1. \A n \in Mails : item'[n].body # "void"
    BY <1>10, ShowIfThereNotVoid DEF ShowPreview, ParsingDone
  <2> QED BY <1>1, <1>10, <2>1 DEF ShowPreview, ParsingDone, NoVoid
<1>11. ASSUME NEW p \in Parsers, SyncParse(p)
       PROVE  NoVoid'
  <2>1. thr[p].m \in Mails
    BY <1>11 DEF SyncParse, ParserInv, ThreadsHaveMails, UiWaitsForItsParse
  <2>2. \A n \in Mails : item'[n].body # "void"
    BY <1>11, <2>1, ShownNotVoid DEF SyncParse
  <2> QED BY <1>1, <1>11, <2>2 DEF SyncParse, NoVoid
<1>12. CASE UNCHANGED <<item, store>>
  BY <1>12 DEF NoVoid
<1> QED BY <1>3, <1>4, <1>5, <1>6, <1>7, <1>8, <1>9, <1>10, <1>11, <1>12
        DEF Next, Messaging, Outlook, Parse, Load, SendAgain, LoadNew, ClearLast,
            ThreadStart, ThreadLock, ThreadParse, ThreadSecond, ThreadLeave, vars

LEMMA OneParseNext ==
  ASSUME TypeOK, ParserInv, OneAtATime, FinishedInv, [Next]_vars
  PROVE  OneParse' /\ SyncOnly'
<1> USE DEF FinishedInv
<1>1. ASSUME NEW m \in Mails, NEW mm, DecryptVerify(m, mm), Idle, Settled(m)
      PROVE  OneParse' /\ SyncOnly'
  <2>1. CASE UNCHANGED thr
    BY <2>1 DEF OneParse, SyncOnly, Runs
  <2>2. ASSUME NEW p \in Unused, NEW t, Begins(m, p, t)
        PROVE  OneParse' /\ SyncOnly'
    <3>1. p \in Parsers
      BY DEF Unused
    <3>2. /\ thr'[p].m = m
          /\ "sync_dec" \in Options => thr'[p].pc = "sync"
          /\ \A q \in Parsers \ {p} : thr'[q] = thr[q]
      BY <2>2, <3>1 DEF Begins, TypeOK
    <3>3. \A q \in Parsers \ {p} : Runs(q) => thr[q].m # m
      BY <1>1, NamesAssumption
         DEF OneAtATime, Settled, Running, Runs, SyncOnly, ParserInv, UiWaitsForItsParse, Idle
    <3>4. OneParse'
      BY <3>1, <3>2, <3>3 DEF OneParse, Runs
    <3>5. SyncOnly'
      BY <3>2 DEF SyncOnly
    <3> QED BY <3>4, <3>5
  <2> QED BY <1>1, <2>1, <2>2, DecryptVerifyThreads
<1>2. ASSUME NEW p \in Parsers, Parse(p)
      PROVE  OneParse' /\ SyncOnly'
  <2>1. /\ thr'[p].m = thr[p].m
        /\ \A q \in Parsers \ {p} : thr'[q] = thr[q]
        /\ Runs(p) \/ thr'[p].pc = "end"
        /\ thr[p].pc \in {"new", "sync", "end"} => thr'[p].pc = "end"
    <3>1. CASE ThreadStart(p)
      BY <3>1 DEF ThreadStart, Runs, TypeOK, ParseThreads
    <3>2. CASE ThreadLock(p)
      BY <3>2 DEF ThreadLock, Goto, Runs, TypeOK, ParseThreads
    <3>3. CASE ThreadParse(p)
      BY <3>3 DEF ThreadParse, Goto, Runs, TypeOK, ParseThreads
    <3>4. CASE ShowPreview(p) \/ ParsingDone(p)
      BY <3>4 DEF ShowPreview, ParsingDone, Goto, Runs, TypeOK, ParseThreads
    <3>5. CASE ThreadSecond(p) \/ ThreadLeave(p)
      BY <3>5 DEF ThreadSecond, ThreadLeave, Goto, Runs, TypeOK, ParseThreads
    <3>6. CASE SyncParse(p)
      BY <3>6 DEF SyncParse, Goto, Runs, TypeOK, ParseThreads
    <3> QED BY <1>2, <3>1, <3>2, <3>3, <3>4, <3>5, <3>6 DEF Parse
  <2>2. OneParse'
    BY <2>1 DEF OneParse, Runs
  <2>3. SyncOnly'
    BY <2>1 DEF SyncOnly
  <2> QED BY <2>2, <2>3
<1>3. CASE UNCHANGED thr
  BY <1>3 DEF OneParse, SyncOnly, Runs
<1> QED BY <1>1, <1>2, <1>3
        DEF Next, Messaging, Outlook, Load, Read, WriteMail, CloseMail, CloseDraft, Unload,
            SendAgain, DecryptPermanently, RevertMail, DecryptAgain, LoadNew, ClearLast,
            Shutdown, vars

\* A mail never shows the text of a parser that has not parsed it, unless it
\* can be closed and read again while a thread still parses it, or was given
\* a parser but no thread.
THEOREM FinishedOnly ==
  OneAtATime /\ "nothread" \notin Env => (Spec => []ShowsFinishedParse)
<1> SUFFICES ASSUME OneAtATime, "nothread" \notin Env PROVE Spec => []ShowsFinishedParse
  OBVIOUS
<1>1. Init => TypeOK /\ ParserInv /\ FinishedInv
  <2> SUFFICES ASSUME Init
               PROVE  TypeOK /\ ParserInv /\ FinishedInv
    OBVIOUS
  <2>1. FinishedInv
    BY DEF Init, FinishedInv, OneParse, SyncOnly, NoVoid, Runs, Received
  <2> QED BY <2>1, InitTyped
<1>2. TypeOK /\ ParserInv /\ FinishedInv /\ [Next]_vars
        => (TypeOK /\ ParserInv /\ FinishedInv)'
  <2>1. TypeOK /\ ParserInv /\ [Next]_vars => TypeOK' /\ ParserInv'
    BY TypeNext, ParserNext DEF ParserInv
  <2>2. TypeOK /\ ParserInv /\ FinishedInv /\ [Next]_vars => FinishedInv'
    BY OneParseNext, NotVoidNext DEF FinishedInv
  <2> QED BY <2>1, <2>2
<1>3. FinishedInv => ShowsFinishedParse
  BY DEF FinishedInv, NoVoid, ShowsFinishedParse
<1> QED BY <1>1, <1>2, <1>3, PTL DEF Spec
-----------------------------------------------------------------------------
(***************************************************************************)
(* Theorems about MailView: when the plaintext of a mail stays out of the  *)
(* store, when what shows it can still be cleaned, what a shutdown leaves, *)
(* and what a mail that is decrypted permanently holds.                    *)
(***************************************************************************)

Posted(m) == <<"revert", m>> \in posted
Again(m)  == <<"decrypt", m>> \in posted
Wanted(m) == m \in ghost.allowed
Kept(m)   == m \in ghost.kept

\* What a step may do that is not about the mail m: its parses go on or end.
Untouched(m) ==
  /\ mail'[m] = mail[m] /\ item'[m] = item[m] /\ store'[m] = store[m]
  /\ Posted(m)' = Posted(m) /\ Again(m)' = Again(m)
  /\ Wanted(m)' = Wanted(m) /\ Kept(m)' = Kept(m)
Onwards(m) == Running(m)' \subseteq Running(m)

\* What wiping and reverting leave alone
SameFlags(a, b) ==
  /\ a.alive = b.alive /\ a.crypto = b.crypto /\ a.save = b.save /\ a.pass = b.pass
  /\ a.again = b.again /\ a.sendAgain = b.sendAgain /\ a.parser = b.parser

LEMMA FormsFlags ==
  ASSUME NEW mm \in MailObjects
  PROVE  SameFlags(mm, mm) /\ SameFlags(Unwiped(mm), mm) /\ SameFlags(Unprocessed(mm), mm)
BY DEF SameFlags, MailObjects, Unwiped, Unprocessed

LEMMA RevertFlags ==
  ASSUME NEW m, NEW mm \in MailObjects, NEW c \in Contents, NEW r \in Revert(m, mm, c)
  PROVE  SameFlags(r.mail, mm)
<1>1. \A d \in Contents : \A x \in Wipe(mm, d) : SameFlags(x.mail, mm)
  BY FormsFlags, WipeCases, ResultFields
<1>2. \A d \in RevertErrors(m, c) : d \in Contents
  BY RevertErrorsType
<1>3. CASE r = Done(mm, c) \/ r = Done(Unprocessed(mm), Cleaned(c))
  BY <1>3, FormsFlags DEF Done
<1>4. CASE \E d \in RevertErrors(m, c) : r \in Wipe(mm, d)
  BY <1>1, <1>2, <1>4
<1> QED BY <1>3, <1>4, RevertCases

LEMMA NoMorePlain ==
  ASSUME NEW c, NEW d, NoMore(d, c), Plain(d)
  PROVE  Plain(c)
BY DEF NoMore, Plain

\* The steps of one mail leave the others alone.
LEMMA OthersKept ==
  ASSUME TypeOK, NEW n \in Mails, Outlook(n) \/ RevertMail(n) \/ DecryptAgain(n),
         NEW m \in Mails, m # n
  PROVE  Untouched(m) /\ Onwards(m)
<1>1. ASSUME NEW mm, DecryptVerify(n, mm)
      PROVE  /\ mail'[m] = mail[m] /\ item'[m] = item[m] /\ store'[m] = store[m]
             /\ Running(m)' \subseteq Running(m)
  <2>1. mail'[m] = mail[m] /\ item'[m] = item[m] /\ store'[m] = store[m]
    BY <1>1 DEF DecryptVerify, StartParse, TypeOK
  <2>2. thr' = thr \/ \E p \in Unused : \E x : thr' = [thr EXCEPT ![p] = x] /\ x.m = n
    BY <1>1, DecryptVerifyThreads DEF Begins
  <2>3. Running(m)' \subseteq Running(m)
    BY <2>2 DEF Running, TypeOK, Unused
  <2> QED BY <2>1, <2>3
<1>2. CASE Read(n) \/ DecryptAgain(n)
  <2>1. Posted(m)' = Posted(m) /\ Again(m)' = Again(m) /\ ghost' = ghost
    BY <1>2 DEF Read, DecryptAgain, Posted, Again
  <2>2. CASE \E mm : DecryptVerify(n, mm)
    BY <1>1, <2>1, <2>2 DEF Untouched, Onwards, Wanted, Kept
  <2>3. CASE UNCHANGED <<mail, item, store, thr>>
    BY <2>1, <2>3 DEF Untouched, Onwards, Running, Wanted, Kept
  <2> QED BY <1>2, <2>2, <2>3 DEF Read, DecryptAgain
<1>3. CASE WriteMail(n) \/ RevertMail(n)
  <2>1. mail'[m] = mail[m] /\ item'[m] = item[m] /\ store'[m] = store[m]
    BY <1>3 DEF WriteMail, RevertMail, TypeOK
  <2>2. Posted(m)' = Posted(m) /\ Again(m)' = Again(m)
    <3>1. /\ <<"revert", m>> # <<"revert", n>> /\ <<"decrypt", m>> # <<"revert", n>>
      OBVIOUS
    <3>2. posted' \in {posted, posted \cup {<<"revert", n>>}, posted \ {<<"revert", n>>}}
      BY <1>3 DEF WriteMail, RevertMail
    <3> QED BY <3>1, <3>2 DEF Posted, Again
  <2> QED BY <1>3, <2>1, <2>2 DEF WriteMail, RevertMail, Untouched, Onwards, Running,
                            Wanted, Kept
<1>4. CASE Load(n) \/ CloseMail(n) \/ CloseDraft(n) \/ Unload(n)
  BY <1>4 DEF Load, CloseMail, CloseDraft, Unload, Untouched, Onwards, Running, Posted,
              Again, Wanted, Kept, TypeOK
<1>5. CASE SendAgain(n) \/ DecryptPermanently(n)
  <2>1. Wanted(m)' = Wanted(m) /\ Kept(m)' = Kept(m)
    <3>1. CASE SendAgain(n)
      BY <3>1 DEF SendAgain, TypeOK, Ghosts, Wanted, Kept
    <3>2. CASE DecryptPermanently(n)
      <4>1. ghost' = [ghost EXCEPT !.allowed = @ \cup {n}, !.kept = @ \cup {n}]
        BY <3>2 DEF DecryptPermanently
      <4> QED BY <4>1 DEF TypeOK, Ghosts, Wanted, Kept
    <3> QED BY <1>5, <3>1, <3>2
  <2> QED BY <1>5, <2>1 DEF SendAgain, DecryptPermanently, Untouched, Onwards, Running, Posted,
                            Again, TypeOK
<1> QED BY <1>2, <1>3, <1>4, <1>5 DEF Outlook

\* A thread shows only its own mail, and starts no other parse.
LEMMA ThreadsKeep ==
  ASSUME TypeOK, ParserInv, NEW p \in Parsers, Parse(p), NEW m \in Mails
  PROVE  /\ Onwards(m) /\ Posted(m)' = Posted(m) /\ Again(m)' = Again(m)
         /\ store' = store /\ posted' = posted /\ last' = last /\ ghost' = ghost
         /\ thr'[p].m = thr[p].m /\ (\A q \in Parsers \ {p} : thr'[q] = thr[q])
         /\ \/ UNCHANGED <<mail, item>>
            \/ /\ p \in Running(thr[p].m) /\ thr[p].m \in Mails
               /\ mail[thr[p].m].alive /\ mail[thr[p].m].parser # NoParser
               /\ \E found \in {"none", "ok", "error"}, preview \in BOOLEAN :
                    ShowParsed(thr[p].m, found, preview)
<1>1. CASE ThreadStart(p) \/ ThreadLock(p) \/ ThreadParse(p) \/ ThreadSecond(p) \/ ThreadLeave(p)
  <2>1. /\ thr'[p].m = thr[p].m /\ \A q \in Parsers \ {p} : thr'[q] = thr[q]
        /\ thr[p].pc \notin {"new", "end"}
    <3>1. CASE ThreadStart(p)
      BY <3>1 DEF ThreadStart, TypeOK, ParseThreads
    <3>2. CASE ThreadLock(p) \/ ThreadParse(p) \/ ThreadSecond(p) \/ ThreadLeave(p)
      BY <3>2 DEF ThreadLock, ThreadParse, ThreadSecond, ThreadLeave, Goto, TypeOK, ParseThreads
    <3> QED BY <1>1, <3>1, <3>2
  <2>2. UNCHANGED <<mail, item, store, posted, last, ghost>>
    BY <1>1 DEF ThreadStart, ThreadLock, ThreadParse, ThreadSecond, ThreadLeave
  <2> QED BY <2>1, <2>2 DEF Onwards, Running, Posted, Again
<1>2. CASE ShowPreview(p) \/ ParsingDone(p)
  <2>1. thr[p].m \in Mails /\ p \in Running(thr[p].m)
    BY <1>2 DEF ShowPreview, ParsingDone, ParserInv, ThreadsHaveMails, Running
  <2>2. /\ Onwards(m) /\ Posted(m)' = Posted(m) /\ Again(m)' = Again(m)
        /\ store' = store /\ posted' = posted /\ last' = last /\ ghost' = ghost
        /\ thr'[p].m = thr[p].m /\ (\A q \in Parsers \ {p} : thr'[q] = thr[q])
    <3>1. /\ thr'[p].m = thr[p].m /\ (\A q \in Parsers \ {p} : thr'[q] = thr[q])
          /\ UNCHANGED <<store, posted, last, ghost>>
      BY <1>2 DEF ShowPreview, ParsingDone, Goto, TypeOK, ParseThreads
    <3> QED BY <2>1, <3>1 DEF Onwards, Running, Posted, Again
  <2>3. ShowIfThere(thr[p].m, TRUE) \/ ShowIfThere(thr[p].m, FALSE)
    BY <1>2 DEF ShowPreview, ParsingDone
  <2>4. CASE mail[thr[p].m].alive /\ mail[thr[p].m].parser # NoParser
    <3>1. result[mail[thr[p].m].parser] \in {"none", "ok", "error"}
      BY <2>1, <2>4 DEF TypeOK, MailObjects
    <3> QED BY <2>1, <2>2, <2>3, <2>4, <3>1 DEF ShowIfThere
  <2>5. CASE ~(mail[thr[p].m].alive /\ mail[thr[p].m].parser # NoParser)
    BY <2>2, <2>3, <2>5 DEF ShowIfThere
  <2> QED BY <2>4, <2>5
<1>3. CASE SyncParse(p)
  <2>1. /\ thr[p].pc = "sync" /\ thr[p].m \in Mails /\ p \in Running(thr[p].m)
        /\ mail[thr[p].m].parser = p
    BY <1>3 DEF SyncParse, ParserInv, ThreadsHaveMails, UiWaitsForItsParse, Running
  <2>2. mail[thr[p].m].parser # NoParser /\ mail[thr[p].m].alive
    BY <2>1, NamesAssumption DEF ParserInv, ParsersWork, NoParser
  <2> QED BY <1>3, <2>1, <2>2
          DEF SyncParse, Goto, Onwards, Running, Posted, Again, TypeOK, ParseThreads
<1> QED BY <1>1, <1>2, <1>3 DEF Parse
-----------------------------------------------------------------------------
(***************************************************************************)
(* Plaintext in the store. Each assumption is needed: without it TLC finds *)
(* plaintext in the store, see the README.                                 *)
(***************************************************************************)
StoreSafe ==
  /\ "late" \notin Env
  /\ "forward" \in Env => /\ Env \cap {"second", "between", "reverterr"} = {}
                          /\ "finalize" \notin Env \/ "wipeerr" \notin Env
  /\ Smime # {} => /\ "no_smime" \notin Options
                   /\ Env \cap {"forward", "draft"} = {}

\* Of every mail: item and store differ in class never, the save that
\* REVERT_MAIL asks for is over when it returns, and a mail that waits for
\* REVERT_MAIL is still there.
Keeps(m) ==
  /\ item[m].open = store[m].open
  /\ item[m].open \/ mail[m].sendAgain => Wanted(m)
  /\ ~mail[m].save
  /\ ~mail[m].alive => item[m] = store[m]
  /\ Posted(m) => mail[m].alive /\ ~mail[m].pass /\ "forward" \in Env
  /\ mail[m].again \/ Again(m) => "draft" \in Env

\* Of a mail the user did not want stored: what shows plaintext, or will
\* after a parse, is a crypto mail whose Write is not let through.
Clean(m) ==
  /\ Plain(store[m]) => Posted(m)
  /\ Posted(m) => /\ mail[m].crypto /\ Running(m) = {}
                  /\ Plain(item[m]) => mail[m].processed
  /\ mail[m].alive /\ Plain(item[m])
       => mail[m].crypto /\ ~mail[m].pass /\ mail[m].parser # NoParser
  /\ mail[m].parser # NoParser /\ Running(m) # {}
       => mail[m].crypto /\ mail[m].processed /\ ~mail[m].pass

StoreOf(m) == Keeps(m) /\ (Wanted(m) \/ Clean(m))
StoreInv   == (last => "forward" \in Env) /\ \A m \in Mails : StoreOf(m)

LEMMA UntouchedStore ==
  ASSUME NEW m \in Mails, StoreOf(m), Untouched(m), Onwards(m)
  PROVE  StoreOf(m)'
BY DEF StoreOf, Keeps, Clean, Untouched, Onwards, Wanted, Plain

\* decryptVerify_o of a mail that no thread parses and no message waits for
LEMMA DecryptVerifyStore ==
  ASSUME TypeOK, NEW m \in Mails, NEW mm \in MailObjects, DecryptVerify(m, mm), StoreOf(m),
         mm.alive, ~mm.save, mm.sendAgain = mail[m].sendAgain, mail[m].alive,
         mm.again \/ Again(m)' => "draft" \in Env,
         Running(m) = {}, ~Posted(m), Posted(m)' = Posted(m), ghost' = ghost,
         Wanted(m) \/ /\ m \in Smime => ~Plain(item[m])
                      /\ Plain(item[m]) => mm.crypto /\ mm.parser # NoParser
  PROVE  StoreOf(m)'
<1>0. item[m] \in Contents /\ store[m] \in Contents
  BY DEF TypeOK
<1>1. CASE ~mm.crypto /\ mail' = [mail EXCEPT ![m] = mm] /\ UNCHANGED <<item, store, thr, ui>>
  <2>1. mail'[m] = mm /\ Running(m)' = {}
    BY <1>1 DEF TypeOK, Running
  <2>2. Wanted(m) \/ ~Plain(item[m])
    BY <1>1
  <2> QED BY <1>1, <2>1, <2>2 DEF StoreOf, Keeps, Clean, Wanted, Plain
<1>2. ASSUME mm.crypto,
             store' = store \/ (store' = [store EXCEPT ![m] = item[m]] /\ m \in Smime),
             NEW y \in MailObjects, mail' = [mail EXCEPT ![m] = y], Handled(y, mm),
             item' = item \/ item' = [item EXCEPT ![m].body = "wait"],
             \/ mm.parser = NoParser /\ y.parser = NoParser /\ item' = item /\ thr' = thr
             \/ Opened(y, mm) /\ ((y.parser = mm.parser /\ thr' = thr) \/ y.parser # NoParser)
      PROVE  StoreOf(m)'
  <2>1. store'[m] = store[m] \/ (store'[m] = item[m] /\ m \in Smime)
    BY <1>2 DEF TypeOK
  <2>2. /\ mail'[m] = y /\ y.alive /\ ~y.save /\ y.sendAgain = mail[m].sendAgain /\ ~y.again
    BY <1>2 DEF TypeOK, Handled
  <2>3. item'[m].open = item[m].open /\ (Plain(item'[m]) => Plain(item[m]))
    BY <1>0, <1>2 DEF TypeOK, Contents, Plain
  <2>4. Keeps(m)'
    BY <2>1, <2>2, <2>3 DEF StoreOf, Keeps, Wanted
  <2>5. ASSUME ~Wanted(m)
        PROVE  /\ ~Plain(store'[m])
               /\ Plain(item'[m]) => y.crypto /\ ~y.pass /\ y.parser # NoParser
               /\ y.parser # NoParser /\ Running(m)' # {} => y.crypto /\ y.processed /\ ~y.pass
    <3>1. ~Plain(store[m]) /\ (m \in Smime => ~Plain(item[m]))
      BY <2>5 DEF StoreOf, Clean
    <3>2. Plain(item[m]) => mm.parser # NoParser
      BY <2>5
    <3>3. thr' = thr => Running(m)' = {}
      BY DEF Running
    <3> QED BY <1>2, <2>1, <2>3, <3>1, <3>2, <3>3 DEF Opened
  <2>6. Wanted(m) \/ Clean(m)'
    BY <2>2, <2>5 DEF Clean, Wanted
  <2> QED BY <2>4, <2>6 DEF StoreOf, Wanted
<1> QED BY <1>1, <1>2, DecryptVerifyCases DEF Begins

\* parsingDone_o and the preview, of a mail a thread parses
LEMMA ShownStore ==
  ASSUME TypeOK, NEW m \in Mails, NEW found \in {"none", "ok", "error"},
         NEW preview \in BOOLEAN, ShowParsed(m, found, preview), StoreOf(m),
         Running(m) # {}, Onwards(m), mail[m].parser # NoParser, mail[m].alive,
         store' = store, ghost' = ghost, Posted(m)' = Posted(m), Again(m)' = Again(m)
  PROVE  StoreOf(m)'
<1>1. mail[m] \in MailObjects /\ item[m] \in Contents
  BY DEF TypeOK
<1>2. /\ SameFlags(ParsedMail(mail[m], found),
                   [mail[m] EXCEPT !.crypto = @ /\ ~mail[m].sendAgain])
      /\ ParsedMail(mail[m], found).processed = mail[m].processed
  BY <1>1 DEF ParsedMail, SameFlags, MailObjects
<1>3. mail'[m] = ParsedMail(mail[m], found)
  BY DEF ShowParsed, TypeOK
<1>4. /\ mail'[m].alive /\ mail'[m].save = mail[m].save /\ mail'[m].pass = mail[m].pass
      /\ mail'[m].again = mail[m].again /\ mail'[m].sendAgain = mail[m].sendAgain
      /\ mail'[m].parser = mail[m].parser /\ mail'[m].processed = mail[m].processed
      /\ mail'[m].crypto = (mail[m].crypto /\ ~mail[m].sendAgain)
  BY <1>1, <1>2, <1>3 DEF SameFlags, MailObjects
<1>5. item'[m].open = item[m].open
  <2>1. Shown(item[m], found, preview) \in Contents
        /\ Shown(item[m], found, preview).open = item[m].open
    BY <1>1, ShownType DEF Shown, Contents
  <2>2. \A a : [Shown(item[m], found, preview) EXCEPT !.atts = a].open = item[m].open
    BY <2>1 DEF Contents
  <2> QED BY <1>1, <2>2 DEF ShowParsed, ParsedItem, TypeOK
<1>6. Keeps(m)'
  BY <1>4, <1>5 DEF StoreOf, Keeps, Wanted
<1>7. ASSUME ~Wanted(m)
      PROVE  Clean(m)'
  <2>1. Clean(m) /\ ~Posted(m) /\ mail'[m].crypto
    BY <1>4, <1>7 DEF StoreOf, Clean, Keeps
  <2> QED BY <1>4, <2>1 DEF Clean, Onwards, Plain
<1> QED BY <1>6, <1>7 DEF StoreOf, Wanted

\* What follows of a mail that Outlook goes on with: no thread parses it and
\* no message waits for it.
LEMMA Free ==
  ASSUME StoreSafe, NEW m \in Mails, StoreOf(m)
  PROVE  /\ Settled(m) => Running(m) = {}
         /\ ~Reverting(m) => ~Posted(m)
         /\ ~Reverting(m) /\ Plain(store[m]) => Wanted(m)
BY DEF StoreSafe, StoreOf, Keeps, Clean, Settled, Reverting, Posted

LEMMA ReadStore ==
  ASSUME TypeOK, StoreSafe, NEW m \in Mails, Read(m), StoreOf(m)
  PROVE  StoreOf(m)'
<1> DEFINE mm == [mail[m] EXCEPT !.crypto = IF down THEN @ ELSE ~item[m].open,
                                 !.save   = @ \/ /\ "no_smime" \in Options /\ m \in Smime]
<1>1. mail[m] \in MailObjects /\ ~mail[m].save
  BY DEF TypeOK, StoreOf, Keeps
<1>2. mm = [mail[m] EXCEPT !.crypto = mm.crypto] /\ mm.crypto \in BOOLEAN
  <2>1. (mail[m].save \/ ("no_smime" \in Options /\ m \in Smime)) = FALSE
    BY <1>1 DEF StoreSafe
  <2>2. (IF down THEN mail[m].crypto ELSE ~item[m].open) \in BOOLEAN
    BY <1>1 DEF MailObjects
  <2>3. \A b \in BOOLEAN : [mail[m] EXCEPT !.crypto = b, !.save = FALSE]
                             = [mail[m] EXCEPT !.crypto = b]
    BY <1>1 DEF MailObjects
  <2>4. \A b \in BOOLEAN : [mail[m] EXCEPT !.crypto = b].crypto = b
    BY <1>1 DEF MailObjects
  <2>5. mm = [mail[m] EXCEPT !.crypto = IF down THEN @ ELSE ~item[m].open, !.save = FALSE]
    BY <2>1
  <2> QED BY <2>2, <2>3, <2>4, <2>5
<1>3. DecryptVerify(m, mm)
  BY DEF Read
<1> HIDE DEF mm
<1>4. /\ mm \in MailObjects /\ mm.alive = mail[m].alive /\ ~mm.save
      /\ mm.sendAgain = mail[m].sendAgain /\ mm.again = mail[m].again
  BY <1>1, <1>2 DEF MailObjects
<1>5. /\ Idle /\ mail[m].alive /\ Running(m) = {} /\ ~Posted(m) /\ item[m] = store[m]
      /\ Wanted(m) \/ ~Plain(item[m])
  BY Free DEF Read
<1>6. Posted(m)' = Posted(m)
  BY DEF Read, Posted
<1>7. mm.again \/ Again(m)' => "draft" \in Env
  <2>1. Again(m)' => Again(m) \/ mail[m].again
    BY DEF Read, Again
  <2> QED BY <1>4, <2>1 DEF StoreOf, Keeps
<1> QED BY <1>3, <1>4, <1>5, <1>6, <1>7, DecryptVerifyStore DEF Read

LEMMA DecryptAgainStore ==
  ASSUME TypeOK, StoreSafe, NEW m \in Mails, DecryptAgain(m), StoreOf(m)
  PROVE  StoreOf(m)'
<1>1. "draft" \in Env /\ m \notin Smime
  BY DEF DecryptAgain, StoreOf, Keeps, Again, StoreSafe
<1>2. Posted(m)' = Posted(m) /\ (Again(m)' => Again(m)) /\ ghost' = ghost
  BY DEF DecryptAgain, Posted, Again
<1>3. CASE mail[m].alive
  <2> DEFINE mm == [mail[m] EXCEPT !.crypto = ~item[m].open]
  <2>1. (~item[m].open) \in BOOLEAN /\ mail[m] \in MailObjects
    BY DEF TypeOK
  <2>2. /\ mm \in MailObjects /\ mm.alive = mail[m].alive /\ mm.save = mail[m].save
        /\ mm.sendAgain = mail[m].sendAgain /\ mm.crypto = ~item[m].open
        /\ mm.parser = mail[m].parser
    BY <2>1 DEF MailObjects
  <2>3. DecryptVerify(m, mm)
    BY <1>3 DEF DecryptAgain
  <2> HIDE DEF mm
  <2>4. Wanted(m) \/ ~Plain(item[m]) \/ (mm.crypto /\ mm.parser # NoParser)
    BY <1>3, <2>2 DEF StoreOf, Keeps, Clean
  <2>5. Running(m) = {} /\ ~Posted(m)
    BY Free DEF DecryptAgain
  <2>6. ~mail[m].save
    BY DEF StoreOf, Keeps
  <2> QED BY <1>1, <1>2, <1>3, <2>2, <2>3, <2>4, <2>5, <2>6, DecryptVerifyStore
<1>4. CASE ~mail[m].alive
  <2>1. UNCHANGED <<mail, item, store, thr>>
    BY <1>4 DEF DecryptAgain
  <2> QED BY <1>2, <2>1 DEF StoreOf, Keeps, Clean, Wanted, Plain, Running
<1> QED BY <1>3, <1>4

LEMMA WriteStore ==
  ASSUME TypeOK, StoreSafe, NEW m \in Mails, WriteMail(m), StoreOf(m), last => "forward" \in Env
  PROVE  StoreOf(m)'
<1>1. mail[m] \in MailObjects /\ item[m] \in Contents /\ store[m] \in Contents
  BY DEF TypeOK
<1>2. PICK r \in Write(m, mail[m], item[m]) :
        /\ mail' = [mail EXCEPT ![m] = r.mail]
        /\ item' = [item EXCEPT ![m] = r.item]
        /\ store' = IF r.ok THEN [store EXCEPT ![m] = r.item] ELSE store
        /\ posted' = IF r.post THEN posted \cup {<<"revert", m>>} ELSE posted
  BY DEF WriteMail
<1>3. /\ mail'[m] = r.mail /\ item'[m] = r.item
      /\ store'[m] = IF r.ok THEN r.item ELSE store[m]
      /\ Again(m)' = Again(m) /\ Posted(m)' = (Posted(m) \/ r.post)
      /\ Wanted(m)' = Wanted(m) /\ Running(m)' = Running(m) /\ mail[m].alive
  BY <1>1, <1>2 DEF WriteMail, TypeOK, Again, Posted, Wanted, Running
<1>4. ~mail[m].save
  BY DEF StoreOf, Keeps
<1>5. CASE mail[m].pass /\ r = Stored(Passed(mail[m]), item[m])
  <2>1. /\ SameFlags([r.mail EXCEPT !.pass = mail[m].pass], mail[m])
        /\ ~r.mail.pass /\ r.mail.alive /\ r.mail.save = mail[m].save
        /\ r.mail.again = mail[m].again /\ r.mail.sendAgain = mail[m].sendAgain
    BY <1>1, <1>3, <1>5 DEF Stored, Passed, MailObjects, SameFlags
  <2>2. r.item = item[m] /\ r.ok /\ ~r.post
    BY <1>5 DEF Stored
  <2>3. ~Posted(m) /\ (Wanted(m) \/ ~Plain(item[m]))
    BY <1>3, <1>5 DEF StoreOf, Keeps, Clean
  <2>4. Wanted(m) \/ ~(r.mail.parser # NoParser /\ Running(m) # {})
    BY <1>1, <1>5, <2>3 DEF StoreOf, Clean, Stored, Passed, MailObjects
  <2> QED BY <1>3, <2>1, <2>2, <2>3, <2>4 DEF StoreOf, Keeps, Clean, Plain, Wanted
<1>6. CASE ~mail[m].pass /\ mail[m].crypto /\ r = Asked(mail[m], item[m])
  <2>1. r.mail = mail[m] /\ r.item = item[m] /\ r.ok = last /\ r.post = last
    BY <1>6 DEF Asked
  <2>2. CASE ~last
    BY <1>3, <2>1, <2>2 DEF StoreOf, Keeps, Clean, Plain, Wanted
  <2>3. CASE last
    <3>1. mail[m].processed /\ Running(m) = {}
      BY <1>6, <2>3 DEF WriteMail, StoreSafe, Settled
    <3> QED BY <1>3, <1>6, <2>1, <2>3, <3>1 DEF StoreOf, Keeps, Clean, Plain, Wanted
  <2> QED BY <2>2, <2>3 DEF TypeOK
<1>7. CASE ~mail[m].pass /\ ~mail[m].crypto /\ r = Stored(Written(mail[m]), item[m])
  <2>1. SameFlags(r.mail, mail[m]) /\ r.mail.processed = mail[m].processed
    BY <1>1, <1>4, <1>7 DEF Stored, Written, MailObjects, SameFlags
  <2>2. r.item = item[m] /\ r.ok /\ ~r.post
    BY <1>7 DEF Stored
  <2>3. Wanted(m) \/ ~Plain(item[m])
    BY <1>3, <1>7 DEF StoreOf, Clean
  <2> QED BY <1>3, <2>1, <2>2, <2>3 DEF StoreOf, Keeps, Clean, Plain, Wanted, SameFlags
<1> QED BY <1>1, <1>4, <1>5, <1>6, <1>7, WriteCases

LEMMA CloseStore ==
  ASSUME TypeOK, StoreSafe, NEW m \in Mails, CloseMail(m), StoreOf(m)
  PROVE  StoreOf(m)'
<1>1. mail[m] \in MailObjects /\ item[m] \in Contents /\ store[m] \in Contents
  BY DEF TypeOK
<1>2. PICK r \in Close(m, mail[m], item[m]) : /\ mail' = [mail EXCEPT ![m] = r.mail]
                                              /\ item' = [item EXCEPT ![m] = r.item]
  BY DEF CloseMail
<1>3. /\ mail'[m] = r.mail /\ item'[m] = r.item /\ store' = store /\ Again(m)' = Again(m)
      /\ Posted(m)' = Posted(m) /\ Wanted(m)' = Wanted(m) /\ Running(m)' = {}
      /\ mail[m].alive /\ ~Posted(m) /\ (Wanted(m) \/ ~Plain(store[m]))
  BY <1>1, <1>2, Free DEF CloseMail, TypeOK, Again, Posted, Wanted, Running
<1>4. ASSUME NEW d \in {item[m], store[m]}, r.item = d,
             r.mail = mail[m] \/ r.mail = Closed(m, mail[m], d)
      PROVE  StoreOf(m)'
  <2>1. /\ SameFlags(r.mail, [mail[m] EXCEPT !.pass = r.mail.pass])
        /\ Plain(d) => r.mail.pass = mail[m].pass
    <3>1. Plain(d) => Visible(m, d)
      BY DEF Plain, Visible
    <3>2. CASE r.mail = mail[m]
      BY <1>1, <3>2 DEF SameFlags, MailObjects
    <3>3. CASE r.mail = Closed(m, mail[m], d)
      <4>1. Plain(d) => (mail[m].pass \/ ~Visible(m, d)) = mail[m].pass
        BY <1>1, <3>1 DEF MailObjects
      <4>2. r.mail.pass = (mail[m].pass \/ ~Visible(m, d))
        BY <1>1, <3>3 DEF Closed, MailObjects
      <4>3. SameFlags(r.mail, [mail[m] EXCEPT !.pass = r.mail.pass])
        BY <1>1, <3>3 DEF Closed, SameFlags, MailObjects
      <4> QED BY <4>1, <4>2, <4>3
    <3> QED BY <1>4, <3>2, <3>3
  <2>2. /\ r.mail.alive /\ ~r.mail.save /\ r.mail.again = mail[m].again
        /\ r.mail.sendAgain = mail[m].sendAgain /\ r.mail.crypto = mail[m].crypto
        /\ r.mail.parser = mail[m].parser
    BY <1>1, <1>3, <2>1 DEF SameFlags, MailObjects, StoreOf, Keeps
  <2>3. Keeps(m)'
    BY <1>3, <1>4, <2>2 DEF StoreOf, Keeps
  <2>4. Wanted(m) \/ Clean(m)'
    BY <1>3, <1>4, <2>1, <2>2 DEF StoreOf, Keeps, Clean
  <2> QED BY <1>3, <2>3, <2>4 DEF StoreOf
<1> QED BY <1>1, <1>2, <1>4, CloseCases DEF Done, Failed

\* One turn of closeAllMails_o changes only what a close or a revert changes.
LEMMA CloseOneKeeps ==
  ASSUME TypeOK, NEW m \in Mails, NEW r \in CloseOne(m)
  PROVE  \/ r = Done(mail[m], item[m])
         \/ /\ mail[m].alive /\ mail[m].crypto
            /\ SameFlags(r.mail, [mail[m] EXCEPT !.pass = r.mail.pass])
            /\ \E d \in {item[m], store[m]} :
                 NoMore(r.item, d) /\ (Plain(d) => r.mail.pass = mail[m].pass)
<1>1. mail[m] \in MailObjects /\ item[m] \in Contents /\ store[m] \in Contents
  BY DEF TypeOK
<1>2. ASSUME NEW x \in Close(m, mail[m], item[m])
      PROVE  /\ x.mail \in MailObjects
             /\ SameFlags(x.mail, [mail[m] EXCEPT !.pass = x.mail.pass])
             /\ x.item \in {item[m], store[m]} /\ x.item \in Contents
             /\ Plain(x.item) => x.mail.pass = mail[m].pass
  <2>1. x.mail \in MailObjects /\ x.item \in Contents
    BY <1>1, CloseType DEF TypeOK, Results
  <2>2. PICK d \in {item[m], store[m]} :
          /\ x.item = d
          /\ x.mail = mail[m] \/ x.mail = Closed(m, mail[m], d)
    <3>1. CASE x = Done(Closed(m, mail[m], store[m]), store[m])
      BY <3>1 DEF Done
    <3>2. CASE x = Done(Closed(m, mail[m], item[m]), item[m]) \/ x = Failed(mail[m], item[m])
      BY <3>2 DEF Done, Failed
    <3> QED BY <1>1, <3>1, <3>2, CloseCases
  <2>3. Plain(d) => (mail[m].pass \/ ~Visible(m, d)) = mail[m].pass
    BY <1>1 DEF Plain, Visible, MailObjects
  <2>4. CASE x.mail = mail[m]
    BY <1>1, <2>1, <2>2, <2>4 DEF SameFlags, MailObjects
  <2>5. CASE x.mail = Closed(m, mail[m], d)
    <3>1. x.mail.pass = (mail[m].pass \/ ~Visible(m, d))
      BY <1>1, <2>5 DEF Closed, MailObjects
    <3>2. SameFlags(x.mail, [mail[m] EXCEPT !.pass = x.mail.pass])
      BY <1>1, <2>5 DEF Closed, SameFlags, MailObjects
    <3> QED BY <2>1, <2>2, <2>3, <3>1, <3>2
  <2> QED BY <2>2, <2>4, <2>5
<1>3. CASE mail[m].alive /\ mail[m].crypto
  <2>1. PICK x \in Close(m, mail[m], item[m]) : r = x \/ r \in Revert(m, x.mail, x.item)
    BY <1>3, CloseOneCases
  <2>2. CASE r = x
    BY <1>1, <1>2, <1>3, <2>2, FormsNoMore
  <2>3. CASE r \in Revert(m, x.mail, x.item)
    <3>1. SameFlags(r.mail, x.mail) /\ NoMore(r.item, x.item)
      BY <1>2, <2>3, RevertFlags, RevertNoMore
    <3>2. SameFlags(r.mail, [mail[m] EXCEPT !.pass = r.mail.pass])
      BY <1>1, <1>2, <3>1 DEF SameFlags, MailObjects
    <3>3. Plain(x.item) => r.mail.pass = mail[m].pass
      BY <1>2, <3>1 DEF SameFlags
    <3> QED BY <1>2, <1>3, <3>1, <3>2, <3>3
  <2> QED BY <2>1, <2>2, <2>3
<1> QED BY <1>3, CloseOneCases

LEMMA ShutdownStore ==
  ASSUME TypeOK, StoreSafe, Shutdown, StoreInv, NEW m \in Mails
  PROVE  StoreOf(m)'
<1>1. mail[m] \in MailObjects /\ item[m] \in Contents /\ store[m] \in Contents /\ StoreOf(m)
  BY DEF TypeOK, StoreInv
<1>2. PICK r \in CloseOne(m) : mail'[m] = r.mail /\ item'[m] = r.item
  BY DEF Shutdown
<1>3. /\ store' = store /\ Again(m)' = Again(m) /\ Posted(m)' = Posted(m)
      /\ Wanted(m)' = Wanted(m) /\ Running(m)' = Running(m)
  BY DEF Shutdown, TypeOK, Ghosts, Again, Posted, Wanted, Running
<1>4. CASE r = Done(mail[m], item[m])
  BY <1>1, <1>2, <1>3, <1>4 DEF Done, StoreOf, Keeps, Clean
<1>5. ASSUME mail[m].alive, mail[m].crypto,
             SameFlags(r.mail, [mail[m] EXCEPT !.pass = r.mail.pass]),
             NEW d \in {item[m], store[m]}, NoMore(r.item, d),
             Plain(d) => r.mail.pass = mail[m].pass
      PROVE  StoreOf(m)'
  <2>1. Running(m) = {} /\ ~Posted(m) /\ (Wanted(m) \/ ~Plain(store[m]))
    BY <1>1, <1>5, Free DEF Shutdown
  <2>2. /\ r.mail.alive /\ r.mail.crypto /\ r.mail.save = mail[m].save
        /\ r.mail.again = mail[m].again /\ r.mail.sendAgain = mail[m].sendAgain
        /\ r.mail.parser = mail[m].parser
    BY <1>1, <1>5 DEF SameFlags, MailObjects
  <2>3. r.item.open = d.open /\ (Plain(r.item) => Plain(d))
    BY <1>5, NoMorePlain DEF NoMore
  <2>4. Keeps(m)'
    BY <1>1, <1>2, <1>3, <2>1, <2>2, <2>3 DEF StoreOf, Keeps
  <2>5. Wanted(m) \/ Clean(m)'
    BY <1>1, <1>2, <1>3, <1>5, <2>1, <2>2, <2>3 DEF StoreOf, Keeps, Clean
  <2> QED BY <1>3, <2>4, <2>5 DEF StoreOf
<1> QED BY <1>4, <1>5, CloseOneKeeps

\* decryptPermanently_o: the user wants it
LEMMA PermanentStore ==
  ASSUME TypeOK, NEW m \in Mails, DecryptPermanently(m), StoreOf(m)
  PROVE  StoreOf(m)'
<1> DEFINE mm == [mail[m] EXCEPT !.wipe = FALSE, !.processed = FALSE, !.crypto = FALSE]
           c  == [item[m] EXCEPT !.open = TRUE]
<1>0. mail[m] \in MailObjects /\ item[m] \in Contents
  BY DEF TypeOK
<1>1. /\ mm \in MailObjects /\ c \in Contents /\ ~mm.crypto
      /\ mm.alive = mail[m].alive /\ mm.save = mail[m].save /\ mm.again = mail[m].again
      /\ mm.sendAgain = mail[m].sendAgain /\ mm.pass = mail[m].pass
  BY <1>0 DEF MailObjects, Contents
<1>2. PICK r \in Write(m, mm, c) :
        /\ mail' = [mail EXCEPT ![m] = r.mail]
        /\ item' = [item EXCEPT ![m] = r.item]
        /\ store' = [store EXCEPT ![m] = r.item]
  BY DEF DecryptPermanently
<1>3. mm.alive
  BY <1>1 DEF DecryptPermanently
<1> HIDE DEF mm, c
<1>4. /\ r.mail.alive /\ r.mail.again = mm.again /\ (r.mail.pass => mm.pass)
      /\ r.mail.save => mm.save
  <2>1. CASE r = Stored(Passed(mm), c)
    BY <1>1, <1>3, <2>1 DEF Stored, Passed, MailObjects
  <2>2. CASE r = Stored(Written(mm), c)
    BY <1>1, <1>3, <2>2 DEF Stored, Written, MailObjects
  <2> QED BY <1>1, <2>1, <2>2, WriteCases
<1>5. Wanted(m)'
  <2>1. ghost' = [ghost EXCEPT !.allowed = @ \cup {m}, !.kept = @ \cup {m}]
    BY DEF DecryptPermanently
  <2> QED BY <2>1 DEF TypeOK, Ghosts, Wanted
<1>6. /\ mail'[m] = r.mail /\ item'[m] = r.item /\ store'[m] = r.item
      /\ Posted(m)' = Posted(m) /\ Again(m)' = Again(m)
  BY <1>2 DEF DecryptPermanently, TypeOK, Posted, Again
<1>7. Keeps(m)'
  BY <1>1, <1>3, <1>4, <1>5, <1>6 DEF StoreOf, Keeps
<1> QED BY <1>5, <1>7 DEF StoreOf

\* REVERT_MAIL: its save reverts, so that nothing of the plaintext is stored.
LEMMA RevertMailStore ==
  ASSUME TypeOK, StoreSafe, NEW m \in Mails, RevertMail(m), StoreOf(m)
  PROVE  StoreOf(m)'
<1> DEFINE mm == [mail[m] EXCEPT !.save = TRUE]
<1>1. mail[m] \in MailObjects /\ item[m] \in Contents /\ store[m] \in Contents
  BY DEF TypeOK
<1>2. /\ mail[m].alive /\ ~mail[m].pass /\ "forward" \in Env /\ m \notin Smime
      /\ Running(m) = {} /\ <<"revert", m>> \in posted
  BY DEF RevertMail, StoreOf, Keeps, Posted, StoreSafe, Settled
<1>3. PICK r \in Write(m, mm, item[m]) :
        /\ mail' = [mail EXCEPT ![m] = r.mail]
        /\ store' = IF r.ok THEN [store EXCEPT ![m] = r.item] ELSE store
        /\ item' = [item EXCEPT ![m] = IF r.mail.parser = NoParser THEN r.item
                                       ELSE Shown(r.item, result[r.mail.parser], FALSE)]
  BY <1>2 DEF RevertMail
<1>4. /\ mm \in MailObjects /\ SameFlags(mm, [mail[m] EXCEPT !.save = TRUE])
      /\ mm.save /\ mm.pass = mail[m].pass /\ mm.alive = mail[m].alive
      /\ mm.crypto = mail[m].crypto /\ mm.again = mail[m].again
      /\ mm.sendAgain = mail[m].sendAgain /\ mm.parser = mail[m].parser
      /\ mm.processed = mail[m].processed
  BY <1>1 DEF MailObjects, SameFlags
<1> HIDE DEF mm
<1>5. ASSUME NEW s \in Revert(m, mm, item[m])
      PROVE  /\ s.mail \in MailObjects /\ s.item \in Contents /\ s.ok
             /\ SameFlags(s.mail, mm)
             /\ NoMore(s.item, item[m]) /\ (mm.processed => ~Plain(s.item))
  <2>1. /\ s.mail \in MailObjects /\ s.item \in Contents
        /\ SameFlags(s.mail, mm) /\ NoMore(s.item, item[m])
    BY <1>1, <1>4, RevertType, RevertFlags, RevertNoMore DEF Results
  <2>2. CASE ~mm.processed /\ s = Done(mm, item[m])
    BY <2>1, <2>2 DEF Done
  <2>3. CASE s = Done(Unprocessed(mm), Cleaned(item[m]))
    <3>1. ~Plain(Cleaned(item[m]))
      BY <1>1 DEF Plain, Cleaned, Contents
    <3> QED BY <2>1, <2>3, <3>1 DEF Done
  <2>4. CASE \E d \in RevertErrors(m, item[m]) : s \in Wipe(mm, d)
    <3>1. PICK d \in RevertErrors(m, item[m]) : s \in Wipe(mm, d)
      BY <2>4
    <3>2. d \in Contents
      BY <1>1, RevertErrorsType
    <3>3. d = Bare(item[m]) /\ "wipeerr" \notin Env
      BY <1>1, <1>2, RevertErrorsCases DEF StoreSafe
    <3>4. s.ok /\ (s.item = d \/ s.item = Emptied(d))
      BY <1>4, <3>1, <3>2, <3>3, WipeCases DEF Done
    <3>5. ~Plain(d) /\ ~Plain(Emptied(d))
      BY <1>1, <3>2, <3>3 DEF Plain, Bare, Emptied, Contents
    <3> QED BY <2>1, <3>4, <3>5
  <2> QED BY <1>1, <1>4, <2>2, <2>3, <2>4, RevertCases
<1>6. /\ r.ok /\ r.item \in Contents /\ r.mail.alive /\ ~r.mail.save /\ ~r.mail.pass
      /\ r.mail.again = mail[m].again /\ r.mail.sendAgain = mail[m].sendAgain
      /\ r.mail.crypto = mail[m].crypto /\ r.mail.parser = mail[m].parser
      /\ NoMore(r.item, item[m])
      /\ mail[m].crypto /\ mail[m].processed => ~Plain(r.item)
  <2>1. CASE r = Stored(Written(mm), item[m]) /\ ~mm.crypto
    <3>1. SameFlags(Written(mm), [mm EXCEPT !.save = FALSE]) /\ ~Written(mm).save
      BY <1>4 DEF Written, MailObjects, SameFlags
    <3>2. /\ Written(mm).alive = mm.alive /\ Written(mm).pass = mm.pass
          /\ Written(mm).again = mm.again /\ Written(mm).sendAgain = mm.sendAgain
          /\ Written(mm).crypto = mm.crypto /\ Written(mm).parser = mm.parser
      BY <1>4 DEF Written, MailObjects
    <3> QED BY <1>1, <1>2, <1>4, <2>1, <3>1, <3>2, FormsNoMore DEF Stored
  <2>2. ASSUME NEW s \in Revert(m, mm, item[m]), r = Stored(Written(s.mail), s.item)
        PROVE  /\ r.ok /\ r.item \in Contents /\ r.mail.alive /\ ~r.mail.save /\ ~r.mail.pass
               /\ r.mail.again = mail[m].again /\ r.mail.sendAgain = mail[m].sendAgain
               /\ r.mail.crypto = mail[m].crypto /\ r.mail.parser = mail[m].parser
               /\ NoMore(r.item, item[m])
               /\ mail[m].crypto /\ mail[m].processed => ~Plain(r.item)
    <3>1. /\ ~Written(s.mail).save
          /\ Written(s.mail).alive = s.mail.alive /\ Written(s.mail).pass = s.mail.pass
          /\ Written(s.mail).again = s.mail.again
          /\ Written(s.mail).sendAgain = s.mail.sendAgain
          /\ Written(s.mail).crypto = s.mail.crypto
          /\ Written(s.mail).parser = s.mail.parser
      BY <1>5, <2>2 DEF Written, MailObjects
    <3>2. r.mail = Written(s.mail) /\ r.item = s.item /\ r.ok
      BY <2>2 DEF Stored
    <3>3. /\ s.ok /\ s.item \in Contents
          /\ s.mail.alive = mm.alive /\ s.mail.pass = mm.pass /\ s.mail.again = mm.again
          /\ s.mail.sendAgain = mm.sendAgain /\ s.mail.crypto = mm.crypto
          /\ s.mail.parser = mm.parser
          /\ NoMore(s.item, item[m]) /\ (mm.processed => ~Plain(s.item))
      BY <1>5 DEF SameFlags
    <3> QED BY <1>2, <1>4, <3>1, <3>2, <3>3
  <2> QED BY <1>1, <1>2, <1>4, <1>5, <2>1, <2>2, WriteCases
<1>7. /\ mail'[m] = r.mail /\ store'[m] = r.item
      /\ item'[m] = IF r.mail.parser = NoParser THEN r.item
                    ELSE Shown(r.item, result[r.mail.parser], FALSE)
      /\ ~Posted(m)' /\ Again(m)' = Again(m) /\ Wanted(m)' = Wanted(m) /\ Running(m)' = {}
  BY <1>1, <1>2, <1>3, <1>6 DEF RevertMail, TypeOK, Posted, Again, Wanted, Running
<1>8. item'[m].open = store'[m].open /\ store'[m].open = item[m].open
  BY <1>6, <1>7 DEF Shown, Contents, NoMore
<1>9. Keeps(m)'
  BY <1>6, <1>7, <1>8 DEF StoreOf, Keeps
<1>10. ASSUME ~Wanted(m)
       PROVE  Clean(m)'
  <2>1. /\ mail[m].crypto /\ (Plain(item[m]) => mail[m].processed)
    BY <1>2, <1>10 DEF StoreOf, Clean, Posted
  <2>2. ~Plain(store'[m])
    BY <1>6, <1>7, <2>1, NoMorePlain
  <2> QED BY <1>6, <1>7, <2>1, <2>2 DEF Clean
<1> QED BY <1>7, <1>9, <1>10 DEF StoreOf

LEMMA StoreNext ==
  ASSUME TypeOK, ParserInv, StoreSafe, StoreInv, [Next]_vars
  PROVE  StoreInv'
<1>1. ASSUME NEW m \in Mails
      PROVE  StoreOf(m) /\ mail[m] \in MailObjects /\ item[m] \in Contents
  BY DEF TypeOK, StoreInv
<1>2. ASSUME NEW n \in Mails, Outlook(n) \/ RevertMail(n) \/ DecryptAgain(n)
      PROVE  StoreOf(n)'
  <2>1. CASE Load(n)
    <3>1. mail'[n].alive /\ ~mail'[n].save /\ ~mail'[n].sendAgain /\ ~mail'[n].again
          /\ mail'[n].parser = NoParser /\ ~mail[n].alive
          /\ UNCHANGED <<item, store, thr, posted, ghost>>
      BY <2>1 DEF Load, NewMail, TypeOK
    <3>2. ~Posted(n) /\ (Wanted(n) \/ ~Plain(store[n])) /\ item[n] = store[n]
      BY <1>1, <3>1 DEF StoreOf, Keeps, Clean
    <3> QED BY <1>1, <3>1, <3>2 DEF StoreOf, Keeps, Clean, Posted, Again, Wanted, Plain
  <2>2. CASE Read(n)
    BY <1>1, <2>2, ReadStore
  <2>3. CASE WriteMail(n)
    BY <1>1, <2>3, WriteStore DEF StoreInv
  <2>4. CASE CloseMail(n)
    BY <1>1, <2>4, CloseStore
  <2>5. CASE CloseDraft(n) \/ Unload(n)
    <3>1. ~Posted(n) /\ (Wanted(n) \/ ~Plain(store[n])) /\ item'[n] = store[n]
      BY <1>1, <2>5, Free DEF CloseDraft, Unload, TypeOK
    <3>2. CASE CloseDraft(n)
      <4>1. /\ SameFlags(mail'[n], [mail[n] EXCEPT !.again = TRUE]) /\ mail'[n].alive
            /\ mail'[n].save = mail[n].save /\ mail'[n].sendAgain = mail[n].sendAgain
            /\ Running(n)' = {} /\ "draft" \in Env
            /\ UNCHANGED <<store, posted, ghost>>
        BY <1>1, <3>2, Free DEF CloseDraft, TypeOK, MailObjects, SameFlags, Running
      <4> QED BY <1>1, <3>1, <4>1 DEF StoreOf, Keeps, Clean, Posted, Again, Wanted, Plain
    <3>3. CASE Unload(n)
      <4>1. /\ ~mail'[n].alive /\ ~mail'[n].save /\ ~mail'[n].sendAgain /\ ~mail'[n].again
            /\ mail'[n].parser = NoParser
            /\ UNCHANGED <<store, posted, ghost>>
        BY <3>3 DEF Unload, NoMail, NewMail, TypeOK
      <4> QED BY <1>1, <3>1, <4>1 DEF StoreOf, Keeps, Clean, Posted, Again, Wanted, Plain
    <3> QED BY <2>5, <3>2, <3>3
  <2>6. CASE SendAgain(n)
    <3>1. /\ mail'[n].alive /\ mail'[n].save = mail[n].save /\ mail'[n].again = mail[n].again
          /\ mail'[n].pass = mail[n].pass
          /\ UNCHANGED <<item, store, posted>>
      BY <1>1, <2>6 DEF SendAgain, TypeOK, MailObjects
    <3>2. Wanted(n)'
      BY <2>6 DEF SendAgain, TypeOK, Ghosts, Wanted
    <3> QED BY <1>1, <3>1, <3>2 DEF StoreOf, Keeps, Posted, Again
  <2>7. CASE DecryptPermanently(n)
    BY <1>1, <2>7, PermanentStore
  <2>8. CASE RevertMail(n)
    BY <1>1, <2>8, RevertMailStore
  <2>9. CASE DecryptAgain(n)
    BY <1>1, <2>9, DecryptAgainStore
  <2> QED BY <1>2, <2>1, <2>2, <2>3, <2>4, <2>5, <2>6, <2>7, <2>8, <2>9 DEF Outlook
<1>3. ASSUME NEW n \in Mails, Outlook(n) \/ RevertMail(n) \/ DecryptAgain(n)
      PROVE  StoreInv'
  <2>1. \A m \in Mails : StoreOf(m)'
    BY <1>1, <1>2, <1>3, OthersKept, UntouchedStore
  <2>2. last' => last
    BY <1>3 DEF Outlook, Load, Read, WriteMail, CloseMail, CloseDraft, Unload, SendAgain,
                DecryptPermanently, RevertMail, DecryptAgain
  <2> QED BY <2>1, <2>2 DEF StoreInv
<1>4. ASSUME NEW p \in Parsers, Parse(p)
      PROVE  StoreInv'
  <2>1. ASSUME NEW m \in Mails
        PROVE  StoreOf(m)'
    <3>1. /\ Onwards(m) /\ Posted(m)' = Posted(m) /\ Again(m)' = Again(m)
          /\ store' = store /\ ghost' = ghost
      BY <1>4, ThreadsKeep
    <3>2. CASE UNCHANGED <<mail, item>>
      BY <1>1, <3>1, <3>2, UntouchedStore DEF Untouched, Wanted, Kept
    <3>3. ASSUME p \in Running(thr[p].m), mail[thr[p].m].alive,
                 mail[thr[p].m].parser # NoParser, thr[p].m \in Mails,
                 NEW found \in {"none", "ok", "error"}, NEW preview \in BOOLEAN,
                 ShowParsed(thr[p].m, found, preview)
          PROVE  StoreOf(m)'
      <4>1. CASE m = thr[p].m
        <5>1. ShowParsed(m, found, preview) /\ Running(m) # {} /\ mail[m].alive
              /\ mail[m].parser # NoParser
          BY <3>3, <4>1
        <5> QED BY <1>1, <3>1, <5>1, ShownStore
      <4>2. CASE m # thr[p].m
        <5>1. mail'[m] = mail[m] /\ item'[m] = item[m]
          BY <3>3, <4>2 DEF ShowParsed, TypeOK
        <5> QED BY <1>1, <3>1, <5>1, UntouchedStore DEF Untouched, Wanted, Kept
      <4> QED BY <4>1, <4>2
    <3> QED BY <1>4, <3>2, <3>3, ThreadsKeep
  <2>2. last' = last
    BY <1>4, MailsAssumption, ThreadsKeep
  <2> QED BY <2>1, <2>2 DEF StoreInv
<1>5. CASE Shutdown
  <2>1. last' = last
    BY <1>5 DEF Shutdown
  <2> QED BY <1>5, <2>1, ShutdownStore DEF StoreInv
<1>6. CASE LoadNew \/ ClearLast \/ UNCHANGED vars
  <2>1. /\ last' => "forward" \in Env
        /\ UNCHANGED <<mail, item, store, thr, posted, ghost>>
    BY <1>6 DEF LoadNew, ClearLast, vars, StoreInv
  <2>2. \A m \in Mails : Untouched(m) /\ Onwards(m)
    BY <2>1 DEF Untouched, Onwards, Posted, Again, Running, Wanted, Kept
  <2> QED BY <1>1, <2>1, <2>2, UntouchedStore DEF StoreInv
<1> QED BY <1>3, <1>4, <1>5, <1>6 DEF Next, Messaging

\* Plaintext is in the store only for mails the user wants there, or until the
\* REVERT_MAIL that the Write event posted is handled: whatever the handlers
\* of mail-events.cpp, the closing, the shutdown and the parse threads do with
\* any number of mails and parses, if a parse is over before Outlook goes on
\* with its mail, and a mail is forwarded once, by a revert that succeeds.
THEOREM PlaintextNotStored == StoreSafe => (Spec => []NoPlaintextStored)
<1> SUFFICES ASSUME StoreSafe PROVE Spec => []NoPlaintextStored
  OBVIOUS
<1>1. Init => TypeOK /\ ParserInv /\ StoreInv
  <2> SUFFICES ASSUME Init PROVE TypeOK /\ ParserInv /\ StoreInv
    OBVIOUS
  <2>1. StoreInv
    BY DEF Init, StoreInv, StoreOf, Keeps, Clean, Posted, Again, Wanted, Plain, NoMail,
           NewMail, Received, NoParser
  <2> QED BY <2>1, InitTyped
<1>2. TypeOK /\ ParserInv /\ StoreInv /\ [Next]_vars => (TypeOK /\ ParserInv /\ StoreInv)'
  BY TypeNext, ParserNext, StoreNext DEF ParserInv
<1>3. StoreInv => NoPlaintextStored
  BY DEF StoreInv, StoreOf, Clean, Posted, Wanted, NoPlaintextStored
<1> QED BY <1>1, <1>2, <1>3, PTL DEF Spec
-----------------------------------------------------------------------------
(***************************************************************************)
(* The flags that wipe_o and revert_o look at. A revert that fails after   *)
(* it took the body and before it took the attachments loses m_needs_wipe: *)
(* at the shutdown the mail would still show them.                         *)
(***************************************************************************)
KnowSafe ==
  /\ StoreSafe
  /\ Env \cap {"forward", "sendagain"} = {}
  /\ "shutdown" \in Env => \/ Env \cap {"window", "closeerr"} = {}
                           \/ "reverterr" \notin Env /\ Smime \cap Attach = {}

Knows(m) ==
  /\ m \notin Attach => ~item[m].atts /\ ~store[m].atts
  /\ Wanted(m) => item[m].open
  /\ mail[m].alive /\ mail[m].crypto => ~item[m].open
  /\ ~mail[m].sendAgain
  /\ mail[m].alive /\ mail[m].crypto /\ Plain(item[m]) => mail[m].processed /\ mail[m].wipe
KnowInv == \A m \in Mails : Knows(m)

\* A crypto mail that stands still has no plaintext in the store.
LEMMA CryptoUnwanted ==
  ASSUME KnowSafe, NEW m \in Mails, StoreOf(m), Knows(m), mail[m].alive, mail[m].crypto
  PROVE  ~Wanted(m) /\ ~Posted(m) /\ ~Plain(store[m])
BY DEF KnowSafe, StoreOf, Keeps, Clean, Knows

LEMMA UntouchedKnows ==
  ASSUME NEW m \in Mails, Knows(m), Untouched(m)
  PROVE  Knows(m)'
BY DEF Knows, Untouched, Plain

LEMMA DecryptVerifyKnows ==
  ASSUME TypeOK, NEW m \in Mails, NEW mm \in MailObjects, DecryptVerify(m, mm),
         StoreOf(m), Knows(m), ghost' = ghost, ~mm.sendAgain,
         mm.crypto => /\ ~item[m].open
                      /\ Plain(item[m]) => mm.wipe /\ mm.parser # NoParser
  PROVE  Knows(m)'
<1>0. item[m] \in Contents /\ store[m] \in Contents
  BY DEF TypeOK
<1>1. CASE ~mm.crypto /\ mail' = [mail EXCEPT ![m] = mm] /\ UNCHANGED <<item, store, thr, ui>>
  <2>1. mail'[m] = mm
    BY <1>1 DEF TypeOK
  <2> QED BY <1>1, <2>1 DEF Knows, Wanted
<1>2. ASSUME mm.crypto,
             store' = store \/ (store' = [store EXCEPT ![m] = item[m]] /\ m \in Smime),
             NEW y \in MailObjects, mail' = [mail EXCEPT ![m] = y], Handled(y, mm),
             item' = item \/ item' = [item EXCEPT ![m].body = "wait"],
             (mm.parser = NoParser /\ item' = item) \/ Opened(y, mm)
      PROVE  Knows(m)'
  <2>1. store'[m] = store[m] \/ store'[m] = item[m]
    BY <1>2 DEF TypeOK
  <2>2. mail'[m] = y /\ ~y.sendAgain /\ y.wipe = mm.wipe
    BY <1>2 DEF TypeOK, Handled
  <2>3. /\ item'[m].open = item[m].open /\ item'[m].atts = item[m].atts
        /\ Plain(item'[m]) => Plain(item[m])
    BY <1>0, <1>2 DEF TypeOK, Contents, Plain
  <2>4. Plain(item'[m]) => y.processed /\ y.wipe
    BY <1>2, <2>2, <2>3 DEF Opened
  <2> QED BY <1>2, <2>1, <2>2, <2>3, <2>4 DEF Knows, Wanted
<1> QED BY <1>1, <1>2, DecryptVerifyCases

LEMMA ShownKnows ==
  ASSUME TypeOK, NEW m \in Mails, NEW found \in {"none", "ok", "error"},
         NEW preview \in BOOLEAN, ShowParsed(m, found, preview), StoreOf(m), Knows(m),
         Running(m) # {}, mail[m].parser # NoParser, mail[m].alive,
         store' = store, ghost' = ghost
  PROVE  Knows(m)'
<1>1. mail[m] \in MailObjects /\ item[m] \in Contents
  BY DEF TypeOK
<1>2. mail'[m] = ParsedMail(mail[m], found)
  BY DEF ShowParsed, TypeOK
<1>3. /\ mail'[m].wipe /\ ~mail'[m].sendAgain /\ mail'[m].processed = mail[m].processed
      /\ mail'[m].crypto => mail[m].crypto
  BY <1>1, <1>2 DEF ParsedMail, MailObjects, Knows
<1>4. /\ item'[m].open = item[m].open
      /\ m \notin Attach => ~item'[m].atts
  <2> DEFINE c == Shown(item[m], found, preview)
  <2>1. c \in Contents /\ c.open = item[m].open /\ c.atts = item[m].atts
    BY <1>1, ShownType DEF Shown, Contents
  <2> HIDE DEF c
  <2>2. \A a : [c EXCEPT !.atts = a].open = item[m].open /\ [c EXCEPT !.atts = a].atts = a
    BY <2>1 DEF Contents
  <2>3. item'[m] = [c EXCEPT !.atts = IF mail[m].added THEN c.atts
                                      ELSE \/ c.atts /\ ~mail[m].print
                                           \/ found = "ok" /\ m \in Attach]
    BY DEF ShowParsed, ParsedItem, TypeOK, c
  <2> QED BY <2>1, <2>2, <2>3 DEF Knows
<1>5. mail'[m].crypto => mail[m].processed
  BY <1>3 DEF StoreOf, Clean, Knows
<1> QED BY <1>3, <1>4, <1>5 DEF Knows, Wanted

\* At the shutdown: a revert that fails takes the attachments too, or there are none.
LEMMA CloseOneKnows ==
  ASSUME TypeOK, KnowSafe, "shutdown" \in Env, NEW m \in Mails, StoreOf(m), Knows(m),
         mail[m].alive, mail[m].crypto, NEW r \in CloseOne(m)
  PROVE  Plain(r.item) => r.mail.processed /\ r.mail.wipe
<1>1. mail[m] \in MailObjects /\ item[m] \in Contents /\ store[m] \in Contents
  BY DEF TypeOK
<1>2. ~Plain(store[m]) /\ (Plain(item[m]) => mail[m].processed /\ mail[m].wipe)
  BY CryptoUnwanted DEF Knows
<1>3. PICK x \in Close(m, mail[m], item[m]) : r = x \/ r \in Revert(m, x.mail, x.item)
  BY CloseOneCases
<1>4. x.mail \in MailObjects /\ x.item \in Contents
  BY <1>1, CloseType DEF TypeOK, Results
<1>5. \/ ~Plain(x.item)
      \/ /\ x.item = item[m] /\ Env \cap {"window", "closeerr"} # {}
         /\ x.mail.processed = mail[m].processed /\ x.mail.wipe = mail[m].wipe
  <2>1. CASE x = Done(Closed(m, mail[m], store[m]), store[m])
    BY <1>2, <2>1 DEF Done
  <2>2. CASE "window" \in Env /\ x = Done(Closed(m, mail[m], item[m]), item[m])
    BY <1>1, <2>2 DEF Done, Closed, MailObjects
  <2>3. CASE "closeerr" \in Env /\ x = Failed(mail[m], item[m])
    BY <2>3 DEF Failed
  <2> QED BY <1>1, <2>1, <2>2, <2>3, CloseCases
<1>6. CASE r = x
  BY <1>2, <1>5, <1>6
<1>7. CASE r \in Revert(m, x.mail, x.item) /\ ~Plain(x.item)
  BY <1>4, <1>7, RevertNoMore, NoMorePlain
<1>8. CASE /\ r \in Revert(m, x.mail, x.item) /\ Plain(x.item) /\ x.item = item[m]
           /\ Env \cap {"window", "closeerr"} # {} /\ x.mail.processed /\ x.mail.wipe
  <2>1. "reverterr" \notin Env /\ (m \in Smime => ~x.item.atts)
    BY <1>8 DEF KnowSafe, Knows
  <2>2. CASE r = Done(Unprocessed(x.mail), Cleaned(x.item))
    BY <1>4, <2>2 DEF Done, Cleaned, Contents, Plain
  <2>3. ASSUME NEW d \in RevertErrors(m, x.item), r \in Wipe(x.mail, d)
        PROVE  Plain(r.item) => r.mail.processed /\ r.mail.wipe
    <3>1. d \in Contents /\ (d = x.item \/ d = Bare(x.item)) /\ (m \in Smime => d = x.item)
      BY <1>4, <2>1, RevertErrorsType, RevertErrorsCases
    <3>2. ~d.atts
      <4>1. (d = x.item /\ m \in Smime) \/ d = Bare(x.item)
        BY <1>4, <2>1, RevertErrorsCases
      <4>2. ~Bare(x.item).atts
        BY <1>4 DEF Bare, Contents
      <4> QED BY <2>1, <4>1, <4>2
    <3>3. CASE r = Failed(x.mail, d)
      BY <1>8, <3>3 DEF Failed
    <3>4. CASE r = Done(Unwiped(x.mail), Emptied(d))
      BY <3>1, <3>2, <3>4 DEF Done, Emptied, Contents, Plain
    <3> QED BY <1>4, <1>8, <2>3, <3>1, <3>3, <3>4, WipeCases
  <2> QED BY <1>4, <1>8, <2>2, <2>3, RevertCases
<1> QED BY <1>2, <1>3, <1>5, <1>6, <1>7, <1>8

LEMMA KnowNext ==
  ASSUME TypeOK, ParserInv, KnowSafe, StoreInv, KnowInv, [Next]_vars
  PROVE  KnowInv'
<1>1. ASSUME NEW m \in Mails
      PROVE  /\ StoreOf(m) /\ Knows(m) /\ mail[m] \in MailObjects /\ item[m] \in Contents
             /\ store[m] \in Contents /\ ~Posted(m) /\ ~mail[m].save
  BY DEF TypeOK, StoreInv, KnowInv, StoreOf, Keeps, KnowSafe
<1>2. ~last /\ StoreSafe
  BY DEF StoreInv, KnowSafe
<1>3. ASSUME NEW n \in Mails, Read(n)
      PROVE  Knows(n)'
  <2> DEFINE mm == [mail[n] EXCEPT !.crypto = IF down THEN @ ELSE ~item[n].open,
                                   !.save   = @ \/ /\ "no_smime" \in Options /\ n \in Smime]
  <2>1. (IF down THEN mail[n].crypto ELSE ~item[n].open) \in BOOLEAN
        /\ (mail[n].save \/ ("no_smime" \in Options /\ n \in Smime)) \in BOOLEAN
    BY <1>1 DEF MailObjects
  <2>2. \A a, b \in BOOLEAN :
          /\ [mail[n] EXCEPT !.crypto = a, !.save = b] \in MailObjects
          /\ [mail[n] EXCEPT !.crypto = a, !.save = b].sendAgain = mail[n].sendAgain
          /\ [mail[n] EXCEPT !.crypto = a, !.save = b].crypto = a
    BY <1>1 DEF MailObjects
  <2>3. /\ mm \in MailObjects /\ mm.sendAgain = mail[n].sendAgain
        /\ mm.crypto = IF down THEN mail[n].crypto ELSE ~item[n].open
    BY <2>1, <2>2
  <2>4. DecryptVerify(n, mm) /\ item[n] = store[n] /\ mail[n].alive /\ ghost' = ghost
    BY <1>3 DEF Read
  <2> HIDE DEF mm
  <2>5. mm.crypto => ~item[n].open
    BY <1>1, <2>3, <2>4 DEF Knows
  <2>6. mm.crypto => ~Plain(item[n])
    BY <1>1, <2>4, <2>5 DEF StoreOf, Clean, Knows
  <2>7. ~mm.sendAgain
    BY <1>1, <2>3 DEF Knows
  <2> QED BY <1>1, <2>3, <2>4, <2>5, <2>6, <2>7, DecryptVerifyKnows
<1>4. ASSUME NEW n \in Mails, DecryptAgain(n)
      PROVE  Knows(n)'
  <2>1. CASE mail[n].alive
    <3> DEFINE mm == [mail[n] EXCEPT !.crypto = ~item[n].open]
    <3>1. (~item[n].open) \in BOOLEAN
      OBVIOUS
    <3>2. /\ mm \in MailObjects /\ mm.sendAgain = mail[n].sendAgain
          /\ mm.crypto = ~item[n].open /\ mm.wipe = mail[n].wipe
          /\ mm.parser = mail[n].parser
      BY <1>1, <3>1 DEF MailObjects
    <3>3. DecryptVerify(n, mm) /\ ghost' = ghost
      BY <1>4, <2>1 DEF DecryptAgain
    <3> HIDE DEF mm
    <3>4. ~item[n].open /\ Plain(item[n]) => mail[n].wipe /\ mail[n].parser # NoParser
      BY <1>1, <2>1 DEF StoreOf, Clean, Knows
    <3>5. ~mm.sendAgain
      BY <1>1, <3>2 DEF Knows
    <3> QED BY <1>1, <3>2, <3>3, <3>4, <3>5, DecryptVerifyKnows
  <2>2. CASE ~mail[n].alive
    <3>1. UNCHANGED <<mail, item, store, ghost>>
      BY <1>4, <2>2 DEF DecryptAgain
    <3> QED BY <1>1, <3>1 DEF Knows, Wanted, Plain
  <2> QED BY <2>1, <2>2
<1>5. ASSUME NEW n \in Mails, WriteMail(n)
      PROVE  Knows(n)'
  <2>1. PICK r \in Write(n, mail[n], item[n]) :
          /\ mail' = [mail EXCEPT ![n] = r.mail]
          /\ item' = [item EXCEPT ![n] = r.item]
          /\ store' = IF r.ok THEN [store EXCEPT ![n] = r.item] ELSE store
    BY <1>5 DEF WriteMail
  <2>2. r.item = item[n] /\ r.mail \in {Passed(mail[n]), Written(mail[n]), mail[n]}
    BY <1>1, WriteCases DEF Stored, Asked
  <2>3. /\ r.mail.alive = mail[n].alive /\ r.mail.crypto = mail[n].crypto
        /\ r.mail.sendAgain = mail[n].sendAgain /\ r.mail.wipe = mail[n].wipe
        /\ r.mail.processed = mail[n].processed
    BY <1>1, <2>2 DEF Passed, Written, MailObjects
  <2>4. /\ mail'[n] = r.mail /\ item'[n] = item[n]
        /\ store'[n] = store[n] \/ store'[n] = item[n]
        /\ Wanted(n)' = Wanted(n)
    BY <1>5, <2>1, <2>2 DEF WriteMail, TypeOK, Wanted
  <2> QED BY <1>1, <2>3, <2>4 DEF Knows
<1>6. ASSUME NEW n \in Mails, CloseMail(n)
      PROVE  Knows(n)'
  <2>1. PICK r \in Close(n, mail[n], item[n]) : /\ mail' = [mail EXCEPT ![n] = r.mail]
                                                /\ item' = [item EXCEPT ![n] = r.item]
    BY <1>6 DEF CloseMail
  <2>2. /\ mail'[n] = r.mail /\ item'[n] = r.item /\ store' = store
        /\ Wanted(n)' = Wanted(n) /\ mail[n].alive /\ mail[n].crypto
    BY <1>1, <1>6, <2>1 DEF CloseMail, TypeOK, Wanted
  <2>3. /\ r.mail.alive = mail[n].alive /\ r.mail.crypto = mail[n].crypto
        /\ r.mail.sendAgain = mail[n].sendAgain /\ r.mail.wipe = mail[n].wipe
        /\ r.mail.processed = mail[n].processed
    <3>1. r.mail \in {mail[n], Closed(n, mail[n], store[n]), Closed(n, mail[n], item[n])}
      <4>1. CASE r = Done(Closed(n, mail[n], store[n]), store[n])
        BY <4>1 DEF Done
      <4>2. CASE r \in {Done(Closed(n, mail[n], item[n]), item[n]), Failed(mail[n], item[n])}
        BY <4>2 DEF Done, Failed
      <4> QED BY <1>1, <4>1, <4>2, CloseCases
    <3> QED BY <1>1, <3>1 DEF Closed, MailObjects
  <2>4. r.item = item[n] \/ r.item = store[n]
    BY <1>1, CloseShows
  <2>5. ~Wanted(n) /\ ~Plain(store[n]) /\ store[n].open = item[n].open
    BY <1>1, <2>2, CryptoUnwanted DEF StoreOf, Keeps
  <2> QED BY <1>1, <2>2, <2>3, <2>4, <2>5 DEF Knows
<1>7. ASSUME NEW n \in Mails, CloseDraft(n)
      PROVE  Knows(n)'
  <2>1. /\ mail'[n].crypto = mail[n].crypto /\ mail'[n].sendAgain = mail[n].sendAgain
        /\ item'[n] = store[n] /\ store' = store /\ Wanted(n)' = Wanted(n)
        /\ mail[n].alive /\ mail[n].crypto
    BY <1>1, <1>7 DEF CloseDraft, TypeOK, MailObjects, Wanted
  <2>2. ~Wanted(n) /\ ~Plain(store[n]) /\ store[n].open = item[n].open
    BY <1>1, <2>1, CryptoUnwanted DEF StoreOf, Keeps
  <2> QED BY <1>1, <2>1, <2>2 DEF Knows
<1>8. ASSUME NEW n \in Mails, Unload(n) \/ Load(n)
      PROVE  Knows(n)'
  <2>1. /\ ~mail'[n].crypto /\ ~mail'[n].sendAgain /\ store' = store
        /\ item'[n] = store[n] \/ item'[n] = item[n]
        /\ Wanted(n)' = Wanted(n)
    <3>1. CASE Unload(n)
      BY <3>1 DEF Unload, NoMail, NewMail, TypeOK, Wanted
    <3>2. CASE Load(n)
      BY <3>2 DEF Load, NewMail, TypeOK, Wanted
    <3> QED BY <1>8, <3>1, <3>2
  <2>2. store[n].open = item[n].open
    BY <1>1 DEF StoreOf, Keeps
  <2> QED BY <1>1, <2>1, <2>2 DEF Knows
<1>9. ASSUME NEW n \in Mails, DecryptPermanently(n)
      PROVE  Knows(n)'
  <2> DEFINE mm == [mail[n] EXCEPT !.wipe = FALSE, !.processed = FALSE, !.crypto = FALSE]
             c  == [item[n] EXCEPT !.open = TRUE]
  <2>1. /\ mm \in MailObjects /\ c \in Contents /\ ~mm.crypto
        /\ mm.sendAgain = mail[n].sendAgain /\ c.open /\ c.atts = item[n].atts
    BY <1>1 DEF MailObjects, Contents
  <2>2. PICK r \in Write(n, mm, c) :
          /\ mail' = [mail EXCEPT ![n] = r.mail]
          /\ item' = [item EXCEPT ![n] = r.item]
          /\ store' = [store EXCEPT ![n] = r.item]
    BY <1>9 DEF DecryptPermanently
  <2> HIDE DEF mm, c
  <2>3. r.item = c /\ ~r.mail.crypto /\ r.mail.sendAgain = mm.sendAgain
    <3>1. r.item = c /\ (r.mail = Passed(mm) \/ r.mail = Written(mm))
      BY <2>1, WriteCases DEF Stored
    <3> QED BY <2>1, <3>1 DEF Passed, Written, MailObjects
  <2>4. mail'[n] = r.mail /\ item'[n] = r.item /\ store'[n] = r.item
    BY <2>2 DEF TypeOK
  <2> QED BY <1>1, <2>1, <2>3, <2>4 DEF Knows
<1>10. ASSUME NEW n \in Mails, Outlook(n) \/ RevertMail(n) \/ DecryptAgain(n)
       PROVE  KnowInv'
  <2>1. ~SendAgain(n) /\ ~RevertMail(n)
    BY <1>1 DEF SendAgain, RevertMail, Posted, KnowSafe
  <2>2. Knows(n)'
    BY <1>3, <1>4, <1>5, <1>6, <1>7, <1>8, <1>9, <1>10, <2>1 DEF Outlook
  <2> QED BY <1>1, <1>10, <2>2, OthersKept, UntouchedKnows DEF KnowInv
<1>11. ASSUME NEW p \in Parsers, Parse(p), NEW m \in Mails
       PROVE  Knows(m)'
  <2>1. /\ Posted(m)' = Posted(m) /\ Again(m)' = Again(m) /\ store' = store /\ ghost' = ghost
    BY <1>11, ThreadsKeep
  <2>2. CASE UNCHANGED <<mail, item>>
    BY <1>1, <2>1, <2>2 DEF Knows, Wanted, Plain
  <2>3. ASSUME p \in Running(thr[p].m), mail[thr[p].m].alive,
               mail[thr[p].m].parser # NoParser, thr[p].m \in Mails,
               NEW found \in {"none", "ok", "error"}, NEW preview \in BOOLEAN,
               ShowParsed(thr[p].m, found, preview)
        PROVE  Knows(m)'
    <3>1. CASE m = thr[p].m
      <4>1. ShowParsed(m, found, preview) /\ Running(m) # {} /\ mail[m].alive
            /\ mail[m].parser # NoParser
        BY <2>3, <3>1
      <4> QED BY <1>1, <2>1, <4>1, ShownKnows
    <3>2. CASE m # thr[p].m
      <4>1. mail'[m] = mail[m] /\ item'[m] = item[m]
        BY <2>3, <3>2 DEF ShowParsed, TypeOK
      <4> QED BY <1>1, <2>1, <4>1 DEF Knows, Wanted
    <3> QED BY <3>1, <3>2
  <2> QED BY <1>11, <2>2, <2>3, ThreadsKeep
<1>12. ASSUME Shutdown, NEW m \in Mails
       PROVE  Knows(m)'
  <2>1. PICK r \in CloseOne(m) : mail'[m] = r.mail /\ item'[m] = r.item
    BY <1>12 DEF Shutdown
  <2>2. store' = store /\ Wanted(m)' = Wanted(m) /\ "shutdown" \in Env
    BY <1>12 DEF Shutdown, TypeOK, Ghosts, Wanted
  <2>3. CASE r = Done(mail[m], item[m])
    BY <1>1, <2>1, <2>2, <2>3 DEF Done, Knows
  <2>4. ASSUME mail[m].alive, mail[m].crypto,
               SameFlags(r.mail, [mail[m] EXCEPT !.pass = r.mail.pass]),
               NEW d \in {item[m], store[m]}, NoMore(r.item, d)
        PROVE  Knows(m)'
    <3>1. ~Wanted(m) /\ store[m].open = item[m].open
      BY <1>1, <2>4, CryptoUnwanted DEF StoreOf, Keeps
    <3>2. r.mail.sendAgain = mail[m].sendAgain
      BY <1>1, <2>4 DEF SameFlags, MailObjects
    <3>3. Plain(r.item) => r.mail.processed /\ r.mail.wipe
      BY <1>1, <2>2, <2>4, CloseOneKnows
    <3> QED BY <1>1, <2>1, <2>2, <2>4, <3>1, <3>2, <3>3 DEF Knows, NoMore
  <2> QED BY <2>3, <2>4, CloseOneKeeps
<1>13. CASE LoadNew \/ ClearLast \/ UNCHANGED vars
  <2>1. UNCHANGED <<mail, item, store, ghost>>
    BY <1>13 DEF LoadNew, ClearLast, vars
  <2> QED BY <1>1, <2>1 DEF KnowInv, Knows, Wanted, Plain
<1> QED BY <1>10, <1>11, <1>12, <1>13 DEF Next, Messaging, KnowInv

\* Whatever shows plaintext of a crypto mail can still be reverted: the flags
\* that revert_o and wipe_o look at say so, after every sequence of reads,
\* writes, closes and parses of any number of mails. Assumed is, beside
\* StoreSafe, that no mail is forwarded or sent again, and that a close that
\* fails at the shutdown is not followed by a revert that fails half-way.
THEOREM CleaningStaysPossible == KnowSafe => (Spec => []CleaningKnows)
<1> SUFFICES ASSUME KnowSafe PROVE Spec => []CleaningKnows
  OBVIOUS
<1>1. Init => TypeOK /\ ParserInv /\ StoreInv /\ KnowInv
  <2> SUFFICES ASSUME Init PROVE TypeOK /\ ParserInv /\ StoreInv /\ KnowInv
    OBVIOUS
  <2>1. StoreInv /\ KnowInv
    BY DEF Init, StoreInv, StoreOf, Keeps, Clean, Posted, Again, Wanted, Plain, NoMail,
           NewMail, Received, NoParser, KnowInv, Knows
  <2> QED BY <2>1, InitTyped
<1>2. TypeOK /\ ParserInv /\ StoreInv /\ KnowInv /\ [Next]_vars
        => (TypeOK /\ ParserInv /\ StoreInv /\ KnowInv)'
  <2>1. KnowSafe => StoreSafe
    BY DEF KnowSafe
  <2> QED BY <2>1, TypeNext, ParserNext, StoreNext, KnowNext DEF ParserInv
<1>3. KnowInv => CleaningKnows
  BY DEF KnowInv, Knows, CleaningKnows
<1> QED BY <1>1, <1>2, <1>3, PTL DEF Spec
-----------------------------------------------------------------------------
(***************************************************************************)
(* The shutdown. closeAllMails_o runs when no parse of a mail that is      *)
(* still open runs, and nothing is shown after it.                         *)
(***************************************************************************)
TellSafe ==
  /\ Env \cap {"late", "forward", "sendagain", "draft", "window", "shutread"} = {}
  /\ Smime # {} => "no_smime" \notin Options
  /\ "closeerr" \in Env => "reverterr" \notin Env /\ Smime \cap Attach = {}

Tells(m) ==
  down => /\ Running(m) # {} => ~mail[m].alive
          /\ ~ghost.told => (mail[m].alive /\ mail[m].crypto => ~Plain(item[m]))
TellInv == \A m \in Mails : Tells(m)

LEMMA TellSafeKnows == TellSafe => KnowSafe
BY DEF TellSafe, KnowSafe, StoreSafe

\* A mail that closeAllMails_o got rid of: closed, or reverted without an error
LEMMA CloseOneTells ==
  ASSUME TypeOK, TellSafe, NEW m \in Mails, StoreOf(m), Knows(m),
         mail[m].alive, mail[m].crypto, NEW r \in CloseOne(m), r.ok
  PROVE  ~Plain(r.item)
<1>1. mail[m] \in MailObjects /\ item[m] \in Contents /\ store[m] \in Contents
  BY DEF TypeOK
<1>2. ~Plain(store[m]) /\ (Plain(item[m]) => mail[m].processed /\ mail[m].wipe)
  BY CryptoUnwanted, TellSafeKnows DEF Knows
<1>3. PICK x \in Close(m, mail[m], item[m]) :
        (r = x /\ x.ok) \/ r \in Revert(m, x.mail, x.item)
  BY CloseOneCases
<1>4. x.mail \in MailObjects /\ x.item \in Contents
  BY <1>1, CloseType DEF TypeOK, Results
<1>5. ~Plain(x.item) \/ (x = Failed(mail[m], item[m]) /\ "closeerr" \in Env)
  <2>1. CASE x = Done(Closed(m, mail[m], store[m]), store[m])
    BY <1>2, <2>1 DEF Done
  <2> QED BY <1>1, <2>1, CloseCases DEF TellSafe
<1>6. CASE r = x /\ x.ok
  BY <1>5, <1>6 DEF Failed
<1>7. CASE r \in Revert(m, x.mail, x.item) /\ ~Plain(x.item)
  BY <1>4, <1>7, RevertNoMore, NoMorePlain
<1>8. CASE r \in Revert(m, mail[m], item[m]) /\ Plain(item[m]) /\ "closeerr" \in Env
  <2>1. mail[m].processed /\ mail[m].wipe /\ "reverterr" \notin Env
        /\ (m \in Smime => ~item[m].atts)
    BY <1>2, <1>8 DEF TellSafe, Knows
  <2>2. CASE r = Done(Unprocessed(mail[m]), Cleaned(item[m]))
    BY <1>1, <2>2 DEF Done, Cleaned, Contents, Plain
  <2>3. ASSUME NEW d \in RevertErrors(m, item[m]), r \in Wipe(mail[m], d)
        PROVE  ~Plain(r.item)
    <3>1. d \in Contents
      BY <1>1, RevertErrorsType
    <3>2. ~d.atts
      <4>1. (d = item[m] /\ m \in Smime) \/ d = Bare(item[m])
        BY <1>1, <2>1, RevertErrorsCases
      <4>2. ~Bare(item[m]).atts
        BY <1>1 DEF Bare, Contents
      <4> QED BY <2>1, <4>1, <4>2
    <3>3. r = Done(Unwiped(mail[m]), Emptied(d))
      BY <1>1, <2>1, <2>3, <3>1, WipeCases DEF Failed
    <3> QED BY <3>1, <3>2, <3>3 DEF Done, Emptied, Contents, Plain
  <2> QED BY <1>1, <1>8, <2>1, <2>2, <2>3, RevertCases
<1> QED BY <1>3, <1>5, <1>6, <1>7, <1>8 DEF Failed

LEMMA TellNext ==
  ASSUME TypeOK, ParserInv, TellSafe, StoreInv, KnowInv, TellInv, [Next]_vars
  PROVE  TellInv'
<1>1. ASSUME NEW m \in Mails
      PROVE  /\ StoreOf(m) /\ Knows(m) /\ Tells(m) /\ mail[m] \in MailObjects
             /\ item[m] \in Contents /\ store[m] \in Contents
             /\ ~Posted(m) /\ ~Again(m) /\ ~mail[m].save
  BY DEF TypeOK, StoreInv, KnowInv, TellInv, StoreOf, Keeps, TellSafe
<1>2. ~last
  BY DEF StoreInv, TellSafe
<1>3. ASSUME NEW n \in Mails, Outlook(n) \/ RevertMail(n) \/ DecryptAgain(n)
      PROVE  TellInv'
  <2>1. down' = down /\ ghost'.told = ghost.told
    <3>1. CASE DecryptPermanently(n)
      <4>1. ghost' = [ghost EXCEPT !.allowed = @ \cup {n}, !.kept = @ \cup {n}]
        BY <3>1 DEF DecryptPermanently
      <4> QED BY <3>1, <4>1 DEF DecryptPermanently, TypeOK, Ghosts
    <3>2. CASE SendAgain(n)
      BY <3>2 DEF SendAgain, TypeOK, Ghosts
    <3> QED BY <1>3, <3>1, <3>2 DEF Outlook, Load, Read, WriteMail, CloseMail, CloseDraft,
                                    Unload, RevertMail, DecryptAgain
  <2>2. CASE ~down
    BY <2>1, <2>2 DEF TellInv, Tells
  <2>3. CASE down
    <3>1. WriteMail(n) \/ CloseMail(n) \/ Unload(n) \/ DecryptPermanently(n)
      BY <1>1, <1>3, <2>3
         DEF Outlook, Load, Read, CloseDraft, SendAgain, RevertMail, DecryptAgain, Posted,
             Again, TellSafe
    <3>2. Running(n)' = Running(n)
      BY <3>1 DEF WriteMail, CloseMail, Unload, DecryptPermanently, Running
    <3>3. /\ mail'[n].alive => mail[n].alive
          /\ mail'[n].alive /\ mail'[n].crypto /\ Plain(item'[n])
               => mail[n].crypto /\ Plain(item[n])
      <4>1. CASE WriteMail(n)
        <5>1. PICK r \in Write(n, mail[n], item[n]) : /\ mail' = [mail EXCEPT ![n] = r.mail]
                                                      /\ item' = [item EXCEPT ![n] = r.item]
          BY <4>1 DEF WriteMail
        <5>2. r.item = item[n] /\ r.mail \in {Passed(mail[n]), Written(mail[n]), mail[n]}
          BY <1>1, WriteCases DEF Stored, Asked
        <5>3. r.mail.alive = mail[n].alive /\ r.mail.crypto = mail[n].crypto
          BY <1>1, <5>2 DEF Passed, Written, MailObjects
        <5> QED BY <5>1, <5>2, <5>3 DEF TypeOK
      <4>2. CASE CloseMail(n)
        <5>1. PICK r \in Close(n, mail[n], item[n]) : item' = [item EXCEPT ![n] = r.item]
          BY <4>2 DEF CloseMail
        <5>2. mail[n].alive /\ mail[n].crypto /\ (r.item = item[n] \/ r.item = store[n])
          BY <1>1, <4>2, CloseShows DEF CloseMail
        <5>3. ~Plain(store[n])
          BY <1>1, <5>2, CryptoUnwanted, TellSafeKnows
        <5> QED BY <5>1, <5>2, <5>3 DEF TypeOK
      <4>3. CASE Unload(n)
        BY <4>3 DEF Unload, NoMail, NewMail, TypeOK
      <4>4. CASE DecryptPermanently(n)
        <5> DEFINE mm == [mail[n] EXCEPT !.wipe = FALSE, !.processed = FALSE, !.crypto = FALSE]
                   c  == [item[n] EXCEPT !.open = TRUE]
        <5>1. /\ mm \in MailObjects /\ c \in Contents /\ ~mm.crypto
          BY <1>1 DEF MailObjects, Contents
        <5>2. PICK r \in Write(n, mm, c) : mail' = [mail EXCEPT ![n] = r.mail]
          BY <4>4 DEF DecryptPermanently
        <5>3. mail[n].alive
          BY <4>4 DEF DecryptPermanently
        <5> HIDE DEF mm, c
        <5>4. ~r.mail.crypto
          <6>1. r.mail = Passed(mm) \/ r.mail = Written(mm)
            BY <5>1, WriteCases DEF Stored
          <6> QED BY <5>1, <6>1 DEF Passed, Written, MailObjects
        <5> QED BY <5>2, <5>3, <5>4 DEF TypeOK
      <4> QED BY <3>1, <4>1, <4>2, <4>3, <4>4
    <3>4. Tells(n)'
      BY <1>1, <2>1, <2>3, <3>2, <3>3 DEF Tells
    <3>5. ASSUME NEW m \in Mails, m # n
          PROVE  Tells(m)'
      BY <1>1, <1>3, <2>1, <3>5, OthersKept DEF Tells, Untouched, Onwards
    <3> QED BY <3>4, <3>5 DEF TellInv
  <2> QED BY <2>2, <2>3 DEF TypeOK
<1>4. ASSUME NEW p \in Parsers, Parse(p), NEW m \in Mails
      PROVE  Tells(m)'
  <2>1. Onwards(m) /\ ghost' = ghost
    BY <1>4, ThreadsKeep
  <2>2. down' = down
    BY <1>4 DEF Parse, ThreadStart, ThreadLock, ThreadParse, ShowPreview, ThreadSecond,
                ParsingDone, ThreadLeave, SyncParse
  <2>3. CASE UNCHANGED <<mail, item>>
    BY <1>1, <2>1, <2>2, <2>3 DEF Tells, Onwards
  <2>4. CASE p \in Running(thr[p].m) /\ thr[p].m \in Mails /\ mail[thr[p].m].alive
    BY <1>1, <2>2, <2>4 DEF Tells
  <2> QED BY <1>4, <2>3, <2>4, ThreadsKeep
<1>5. ASSUME Shutdown, NEW m \in Mails
      PROVE  Tells(m)'
  <2>1. PICK r : /\ \A n \in Mails : r[n] \in CloseOne(n)
                 /\ mail' = [n \in Mails |-> r[n].mail]
                 /\ item' = [n \in Mails |-> r[n].item]
                 /\ ghost' = [ghost EXCEPT !.told = \E n \in Mails : ~r[n].ok]
    BY <1>5 DEF Shutdown
  <2>2. /\ mail'[m] = r[m].mail /\ item'[m] = r[m].item /\ (~ghost'.told => r[m].ok)
        /\ Running(m)' = Running(m) /\ (mail[m].alive => Running(m) = {})
    BY <1>5, <2>1 DEF Shutdown, TypeOK, Ghosts, Running, Settled, TellSafe
  <2>3. CASE r[m] = Done(mail[m], item[m]) /\ ~(mail[m].alive /\ mail[m].crypto)
    BY <2>2, <2>3 DEF Done, Tells
  <2>4. CASE mail[m].alive /\ mail[m].crypto
    <3>1. r[m].ok => ~Plain(r[m].item)
      BY <1>1, <2>1, <2>4, CloseOneTells
    <3> QED BY <2>2, <2>4, <3>1 DEF Tells
  <2> QED BY <2>1, <2>3, <2>4, CloseOneCases
<1>6. CASE LoadNew \/ ClearLast \/ UNCHANGED vars
  <2>1. UNCHANGED <<mail, item, thr, down, ghost>>
    BY <1>6 DEF LoadNew, ClearLast, vars
  <2> QED BY <1>1, <2>1 DEF TellInv, Tells, Running
<1> QED BY <1>3, <1>4, <1>5, <1>6 DEF Next, Messaging, TellInv

\* After the shutdown no crypto mail shows plaintext that Outlook may save,
\* unless the user was told: whichever mails were open, whatever they showed,
\* and however their close, revert and wipe went. The handlers that still run
\* (Write, Close, Unload and the ribbon's) show nothing new, and no thread
\* finds a mail to show.
THEOREM ShutdownLeavesNothing == TellSafe => (Spec => []ShutdownTells)
<1> SUFFICES ASSUME TellSafe PROVE Spec => []ShutdownTells
  OBVIOUS
<1>1. Init => TypeOK /\ ParserInv /\ StoreInv /\ KnowInv /\ TellInv
  <2> SUFFICES ASSUME Init PROVE TypeOK /\ ParserInv /\ StoreInv /\ KnowInv /\ TellInv
    OBVIOUS
  <2>1. StoreInv /\ KnowInv /\ TellInv
    BY DEF Init, StoreInv, StoreOf, Keeps, Clean, Posted, Again, Wanted, Plain, NoMail,
           NewMail, Received, NoParser, KnowInv, Knows, TellInv, Tells
  <2> QED BY <2>1, InitTyped
<1>2. TypeOK /\ ParserInv /\ StoreInv /\ KnowInv /\ TellInv /\ [Next]_vars
        => (TypeOK /\ ParserInv /\ StoreInv /\ KnowInv /\ TellInv)'
  <2>1. KnowSafe /\ StoreSafe
    BY TellSafeKnows DEF KnowSafe
  <2> QED BY <2>1, TypeNext, ParserNext, StoreNext, KnowNext, TellNext DEF ParserInv
<1>3. TellInv => ShutdownTells
  BY DEF TellInv, Tells, ShutdownTells
<1> QED BY <1>1, <1>2, <1>3, PTL DEF Spec
-----------------------------------------------------------------------------
(***************************************************************************)
(* Decrypting permanently stores the text on the screen. The ribbon lets   *)
(* the user do it while m_needs_wipe is set and no error was found: that   *)
(* text is the decrypted one if it is the final one.                       *)
(***************************************************************************)
KeepSafe == Env \cap {"early", "late", "nothread"} = {}

\* A thread uses the parser made with it, and so does its mail.
Lone(p) == thr[p].pc \notin {"new", "end"}
             => /\ thr[p].uses \in {NoParser, p}
                /\ mail[thr[p].m].parser \in {NoParser, p}
                /\ mail[thr[p].m].parser = p /\ thr[p].pc # "start" => thr[p].uses = p

Told(p)  == thr[p].pc \in {"leave", "end"}   \* PARSING_DONE was handled
KeepsText(m) ==
  /\ item[m].open = store[m].open
  /\ mail[m].parser # NoParser =>
       IF Told(mail[m].parser) THEN mail[m].failed <=> result[mail[m].parser] = "error"
       ELSE item[m].body # "plain"
  /\ mail[m].wipe /\ item[m].body = "error" /\ item[m] # store[m] => mail[m].failed
  /\ Kept(m) => /\ item[m].body = "plain" /\ item[m].open /\ store[m].body = "plain"
                /\ mail[m].alive => ~mail[m].crypto
                /\ mail[m].parser # NoParser => /\ Told(mail[m].parser)
                                                /\ result[mail[m].parser] = "ok"
KeepInv == (\A p \in Parsers : Lone(p)) /\ \A m \in Mails : KeepsText(m)

\* Cleaning changes no failed, and what it leaves of a text is no text.
Tame(a, b)  == /\ a.failed = b.failed /\ a.alive = b.alive /\ a.parser = b.parser
               /\ a.wipe => b.wipe
               /\ a.crypto = b.crypto
OrNone(d, c) == (d = c \/ d.body \in {"clean", "empty"}) /\ d.open = c.open

LEMMA FormsTame ==
  ASSUME NEW mm \in MailObjects
  PROVE  /\ Tame(mm, mm) /\ Tame(Unwiped(mm), mm) /\ Tame(Unprocessed(mm), mm)
         /\ Tame(Passed(mm), mm) /\ Tame(Written(mm), mm)
BY DEF Tame, MailObjects, Unwiped, Unprocessed, Passed, Written

LEMMA FormsOrNone ==
  ASSUME NEW c \in Contents
  PROVE  /\ OrNone(c, c) /\ OrNone(Emptied(c), c) /\ OrNone(Bare(c), c)
         /\ OrNone(Cleaned(c), c)
BY DEF OrNone, Contents, Emptied, Bare, Cleaned

LEMMA RevertTame ==
  ASSUME NEW m, NEW mm \in MailObjects, NEW c \in Contents, NEW r \in Revert(m, mm, c)
  PROVE  Tame(r.mail, mm) /\ OrNone(r.item, c)
<1>1. CASE r = Done(mm, c) \/ r = Done(Unprocessed(mm), Cleaned(c))
  BY <1>1, FormsTame, FormsOrNone DEF Done
<1>2. ASSUME NEW d \in RevertErrors(m, c), r \in Wipe(mm, d)
      PROVE  Tame(r.mail, mm) /\ OrNone(r.item, c)
  <2>1. d \in Contents /\ OrNone(d, c)
    BY RevertErrorsType, RevertErrorsCases, FormsOrNone
  <2>2. r.mail = mm \/ r.mail = Unwiped(mm)
    BY <1>2, <2>1, WipeCases DEF Done, Failed
  <2>3. r.item = d \/ r.item = Emptied(d)
    BY <1>2, <2>1, WipeCases DEF Done, Failed
  <2>4. OrNone(Emptied(d), c)
    BY <2>1, FormsOrNone DEF OrNone, Emptied, Contents
  <2> QED BY <2>1, <2>2, <2>3, <2>4, FormsTame
<1> QED BY <1>1, <1>2, RevertCases

LEMMA WriteTame ==
  ASSUME NEW m, NEW mm \in MailObjects, NEW c \in Contents, NEW r \in Write(m, mm, c)
  PROVE  /\ Tame(r.mail, mm) /\ OrNone(r.item, c)
         /\ ~mm.crypto => r.item = c /\ r.ok
<1>1. CASE r \in {Stored(Passed(mm), c), Stored(Written(mm), c)}
  BY <1>1, FormsTame, FormsOrNone DEF Stored
<1>2. CASE r = Asked(mm, c) /\ mm.crypto
  BY <1>2, FormsTame, FormsOrNone DEF Asked
<1>3. ASSUME mm.crypto, NEW s \in Revert(m, mm, c),
             r = Stored(Written(s.mail), s.item) \/ r = Refused(s.mail, s.item)
      PROVE  Tame(r.mail, mm) /\ OrNone(r.item, c)
  <2>1. s.mail \in MailObjects /\ Tame(s.mail, mm) /\ OrNone(s.item, c)
    BY RevertType, RevertTame DEF Results
  <2>2. Tame(Written(s.mail), s.mail)
    BY <2>1, FormsTame
  <2>3. r.item = s.item /\ (r.mail = s.mail \/ r.mail = Written(s.mail))
    BY <1>3 DEF Stored, Refused
  <2> QED BY <2>1, <2>2, <2>3 DEF Tame
<1> QED BY <1>1, <1>2, <1>3, WriteCases

LEMMA CloseTame ==
  ASSUME TypeOK, NEW m \in Mails, NEW r \in Close(m, mail[m], item[m])
  PROVE  Tame(r.mail, mail[m]) /\ r.item \in {item[m], store[m]}
<1>1. mail[m] \in MailObjects /\ item[m] \in Contents
  BY DEF TypeOK
<1>2. Tame(Closed(m, mail[m], item[m]), mail[m]) /\ Tame(Closed(m, mail[m], store[m]), mail[m])
  BY <1>1 DEF Tame, Closed, MailObjects
<1>3. CASE r = Done(Closed(m, mail[m], store[m]), store[m])
  BY <1>2, <1>3 DEF Done
<1>4. CASE r \in {Done(Closed(m, mail[m], item[m]), item[m]), Failed(mail[m], item[m])}
  BY <1>1, <1>2, <1>4, FormsTame DEF Done, Failed
<1> QED BY <1>1, <1>3, <1>4, CloseCases

LEMMA CloseOneTame ==
  ASSUME TypeOK, NEW m \in Mails, NEW r \in CloseOne(m)
  PROVE  /\ Tame(r.mail, mail[m]) /\ (OrNone(r.item, item[m]) \/ OrNone(r.item, store[m]))
         /\ ~(mail[m].alive /\ mail[m].crypto) => r = Done(mail[m], item[m])
<1>1. mail[m] \in MailObjects /\ item[m] \in Contents /\ store[m] \in Contents
  BY DEF TypeOK
<1>2. CASE r = Done(mail[m], item[m])
  BY <1>1, <1>2, FormsTame, FormsOrNone DEF Done
<1>3. ASSUME mail[m].alive, mail[m].crypto, NEW x \in Close(m, mail[m], item[m]),
             r = x \/ r \in Revert(m, x.mail, x.item)
      PROVE  Tame(r.mail, mail[m]) /\ (OrNone(r.item, item[m]) \/ OrNone(r.item, store[m]))
  <2>1. x.mail \in MailObjects /\ x.item \in Contents
    BY <1>1, CloseType DEF TypeOK, Results
  <2>2. Tame(x.mail, mail[m]) /\ x.item \in {item[m], store[m]}
    BY CloseTame
  <2>3. CASE r = x
    BY <1>1, <2>2, <2>3, FormsOrNone
  <2>4. CASE r \in Revert(m, x.mail, x.item)
    <3>1. Tame(r.mail, x.mail) /\ OrNone(r.item, x.item)
      BY <2>1, <2>4, RevertTame
    <3> QED BY <2>2, <3>1 DEF Tame
  <2> QED BY <1>3, <2>3, <2>4
<1> QED BY <1>2, <1>3, CloseOneCases

\* A step of the UI thread that starts no parse leaves a text alone, shows the
\* store's, or takes it away.
LEMMA TameKeeps ==
  ASSUME TypeOK, NEW m \in Mails, KeepsText(m), UNCHANGED <<thr, result>>,
         \/ Tame(mail'[m], mail[m])
         \/ mail'[m].parser = NoParser /\ ~mail'[m].wipe /\ ~mail'[m].crypto,
         Kept(m)' = Kept(m),
         Kept(m) => item'[m] \in {item[m], store[m]} /\ store'[m] \in {item[m], store[m]},
         \/ store'[m] = store[m] /\ OrNone(item'[m], item[m])
         \/ store'[m] = item'[m] /\ OrNone(item'[m], item[m])
         \/ /\ store'[m] = store[m] /\ OrNone(item'[m], store[m])
            /\ mail'[m].parser = NoParser \/ Told(mail[m].parser)
  PROVE  KeepsText(m)'
<1>1. item'[m].open = store'[m].open
  BY DEF KeepsText, OrNone
<1>2. ASSUME mail'[m].parser # NoParser
      PROVE  /\ Tame(mail'[m], mail[m]) /\ (Told(mail[m].parser)' <=> Told(mail[m].parser))
             /\ Told(mail[m].parser) \/ item'[m].body # "plain"
  BY <1>2 DEF KeepsText, OrNone, Tame, Told
<1>3. mail'[m].wipe => Tame(mail'[m], mail[m])
  OBVIOUS
<1>4. mail'[m].wipe /\ item'[m].body = "error" /\ item'[m] # store'[m] => mail'[m].failed
  BY <1>3 DEF KeepsText, OrNone, Tame
<1>5. mail'[m].parser # NoParser =>
        IF Told(mail[m].parser)' THEN mail'[m].failed <=> result'[mail'[m].parser] = "error"
        ELSE item'[m].body # "plain"
  BY <1>2 DEF KeepsText, Tame, Told
<1>6. Kept(m)' => /\ item'[m].body = "plain" /\ item'[m].open /\ store'[m].body = "plain"
                  /\ mail'[m].alive => ~mail'[m].crypto
                  /\ mail'[m].parser # NoParser => /\ Told(mail[m].parser)'
                                                   /\ result'[mail'[m].parser] = "ok"
  BY <1>1, <1>2 DEF KeepsText, Tame, Told
<1> QED BY <1>1, <1>4, <1>5, <1>6 DEF KeepsText

\* A mail that no thread parses shows what its parser has found.
LEMMA ParserTold ==
  ASSUME TypeOK, ParserInv, KeepSafe, NEW m \in Mails, Running(m) = {},
         mail[m].parser # NoParser
  PROVE  Told(mail[m].parser) /\ result[mail[m].parser] # "none" /\ mail[m].parser \in Parsers
<1>1. mail[m].parser \in Parsers
  BY DEF TypeOK, MailObjects
<1>2. thr[mail[m].parser].m = m /\ ParserWorks(mail[m].parser)
  BY DEF ParserInv, ParsersWork
<1> QED BY <1>1, <1>2 DEF ParserWorks, Running, Told, KeepSafe

LEMMA DecryptVerifyKeeps ==
  ASSUME TypeOK, NEW m \in Mails, NEW mm \in MailObjects, DecryptVerify(m, mm), KeepsText(m),
         UNCHANGED <<result, ghost>>, mm.parser = mail[m].parser, mm.failed = mail[m].failed,
         mm.wipe = mail[m].wipe, Kept(m) => ~mm.crypto, KeepSafe
  PROVE  KeepsText(m)'
<1>0. item[m] \in Contents /\ store[m] \in Contents
  BY DEF TypeOK
<1>1. CASE ~mm.crypto /\ mail' = [mail EXCEPT ![m] = mm] /\ UNCHANGED <<item, store, thr, ui>>
  <2>1. mail'[m] = mm
    BY <1>1 DEF TypeOK
  <2> QED BY <1>1, <2>1 DEF KeepsText, Told, Kept
<1>2. ASSUME mm.crypto,
             store' = store \/ (store' = [store EXCEPT ![m] = item[m]] /\ m \in Smime),
             NEW y \in MailObjects, mail' = [mail EXCEPT ![m] = y], Handled(y, mm),
             item' = item \/ item' = [item EXCEPT ![m].body = "wait"],
             \/ y.parser = mm.parser /\ thr' = thr
             \/ /\ \E p \in Unused : y.parser = p /\ \E t : Begins(m, p, t)
                /\ item' = [item EXCEPT ![m].body = "wait"]
      PROVE  KeepsText(m)'
  <2>1. store'[m] = store[m] \/ store'[m] = item[m]
    BY <1>2 DEF TypeOK
  <2>2. mail'[m] = y /\ y.failed = mail[m].failed /\ y.wipe = mail[m].wipe
    BY <1>2 DEF TypeOK, Handled
  <2>3. /\ item'[m].open = item[m].open
        /\ item'[m] = item[m] \/ item'[m].body = "wait"
    BY <1>0, <1>2 DEF TypeOK, Contents
  <2>4. ~Kept(m)
    BY <1>2
  <2>5. CASE y.parser = mm.parser /\ thr' = thr
    BY <2>1, <2>2, <2>3, <2>4, <2>5 DEF KeepsText, Told, Kept
  <2>6. CASE (\E p \in Unused : y.parser = p /\ \E t : Begins(m, p, t))
             /\ item' = [item EXCEPT ![m].body = "wait"]
    <3>1. PICK p \in Unused : y.parser = p /\ \E t : Begins(m, p, t)
      BY <2>6
    <3>2. thr'[p].pc \in {"sync", "start"}
      BY <3>1 DEF Begins, KeepSafe, TypeOK
    <3>3. ~Told(y.parser)'
      BY <3>1, <3>2 DEF Told
    <3>4. item'[m].body = "wait"
      BY <1>0, <2>6 DEF TypeOK, Contents
    <3> QED BY <2>1, <2>2, <2>3, <2>4, <3>3, <3>4 DEF KeepsText, Kept
  <2> QED BY <1>2, <2>5, <2>6
<1> QED BY <1>1, <1>2, DecryptVerifyCases

LEMMA RevertMailKeeps ==
  ASSUME TypeOK, ParserInv, KeepSafe, NEW m \in Mails, RevertMail(m), KeepsText(m)
  PROVE  KeepsText(m)'
<1>1. mail[m] \in MailObjects /\ item[m] \in Contents /\ store[m] \in Contents
  BY DEF TypeOK
<1>2. Running(m) = {} /\ UNCHANGED <<thr, result>> /\ Kept(m)' = Kept(m)
  BY DEF RevertMail, Settled, KeepSafe, Kept
<1>3. CASE ~mail[m].alive
  <2>1. UNCHANGED <<mail, item, store>>
    BY <1>3 DEF RevertMail
  <2> QED BY <1>2, <2>1 DEF KeepsText, Told
<1>4. CASE mail[m].alive
  <2> DEFINE mm == [mail[m] EXCEPT !.save = TRUE]
  <2>1. PICK r \in Write(m, mm, item[m]) :
          /\ mail' = [mail EXCEPT ![m] = r.mail]
          /\ store' = IF r.ok THEN [store EXCEPT ![m] = r.item] ELSE store
          /\ item' = [item EXCEPT ![m] = IF r.mail.parser = NoParser THEN r.item
                                         ELSE Shown(r.item, result[r.mail.parser], FALSE)]
    BY <1>4 DEF RevertMail
  <2>2. mm \in MailObjects /\ Tame(mm, mail[m])
    BY <1>1 DEF MailObjects, Tame
  <2> HIDE DEF mm
  <2>3. Tame(r.mail, mail[m]) /\ OrNone(r.item, item[m]) /\ r.item \in Contents
    BY <1>1, <2>2, WriteTame, WriteType DEF Tame
  <2>4. Kept(m) => r.item = item[m] /\ r.ok
    BY <1>1, <1>4, <2>2, WriteTame DEF Tame, KeepsText
  <2>5. /\ mail'[m] = r.mail /\ store'[m] \in {r.item, store[m]}
        /\ Kept(m) => store'[m] = item[m]
    BY <2>1, <2>4 DEF TypeOK
  <2>6. CASE r.mail.parser = NoParser
    <3>1. item'[m] = r.item
      BY <2>1, <2>6 DEF TypeOK
    <3>2. mail'[m].parser = NoParser /\ mail'[m].failed = mail[m].failed
          /\ (mail'[m].wipe => mail[m].wipe) /\ mail'[m].alive = mail[m].alive
          /\ mail'[m].crypto = mail[m].crypto
      BY <2>3, <2>5, <2>6 DEF Tame
    <3> QED BY <1>2, <2>3, <2>4, <2>5, <3>1, <3>2 DEF KeepsText, OrNone
  <2>7. CASE r.mail.parser # NoParser
    <3>1. item'[m] = Shown(r.item, result[mail[m].parser], FALSE)
      BY <2>1, <2>3, <2>7 DEF TypeOK, Tame
    <3>2. Told(mail[m].parser) /\ result[mail[m].parser] \in {"ok", "error"}
      BY <1>2, <2>3, <2>7, ParserTold DEF Tame, TypeOK
    <3>3. /\ item'[m].open = item[m].open
          /\ item'[m].body = IF result[mail[m].parser] = "error" THEN "error" ELSE "plain"
      BY <2>3, <3>1, <3>2 DEF Shown, Contents, OrNone
    <3>4. /\ mail'[m].parser = mail[m].parser /\ mail'[m].failed = mail[m].failed
          /\ mail'[m].alive = mail[m].alive /\ mail'[m].crypto = mail[m].crypto
      BY <2>3, <2>5 DEF Tame
    <3>5. mail[m].failed <=> result[mail[m].parser] = "error"
      BY <2>3, <2>7, <3>2 DEF Tame, KeepsText
    <3>6. store'[m].open = item[m].open
      BY <2>3, <2>5 DEF OrNone, KeepsText
    <3>7. Told(mail[m].parser)' /\ result' = result
      BY <1>2, <3>2, <3>4 DEF Told
    <3>8. Kept(m)' => /\ item'[m].body = "plain" /\ item'[m].open /\ store'[m].body = "plain"
                      /\ mail'[m].alive => ~mail'[m].crypto
                      /\ result'[mail'[m].parser] = "ok"
      <4> SUFFICES ASSUME Kept(m)
                   PROVE  /\ item'[m].body = "plain" /\ item'[m].open
                          /\ store'[m].body = "plain"
                          /\ mail'[m].alive => ~mail'[m].crypto
                          /\ result'[mail'[m].parser] = "ok"
        BY <1>2
      <4>1. /\ item[m].open /\ item[m].body = "plain" /\ ~mail[m].crypto
            /\ result[mail[m].parser] = "ok"
        BY <1>4, <2>3, <2>7 DEF KeepsText, Tame
      <4> QED BY <2>5, <3>3, <3>4, <3>7, <4>1
    <3>9. item'[m].body = "error" => mail'[m].failed
      BY <3>2, <3>3, <3>4, <3>5
    <3>10. Told(mail[m].parser)' /\ (mail'[m].failed <=> result'[mail'[m].parser] = "error")
      BY <3>4, <3>5, <3>7
    <3> QED BY <2>7, <3>3, <3>4, <3>6, <3>8, <3>9, <3>10 DEF KeepsText
  <2> QED BY <2>6, <2>7
<1> QED BY <1>3, <1>4

LEMMA PermanentKeeps ==
  ASSUME TypeOK, ParserInv, KeepSafe, NEW m \in Mails, DecryptPermanently(m), KeepsText(m)
  PROVE  KeepsText(m)'
<1> DEFINE mm == [mail[m] EXCEPT !.wipe = FALSE, !.processed = FALSE, !.crypto = FALSE]
           c  == [item[m] EXCEPT !.open = TRUE]
<1>1. mail[m] \in MailObjects /\ item[m] \in Contents
  BY DEF TypeOK
<1>2. /\ mm \in MailObjects /\ c \in Contents /\ ~mm.crypto /\ ~mm.wipe
      /\ mm.parser = mail[m].parser /\ mm.failed = mail[m].failed
      /\ c.open /\ c.body = item[m].body
  BY <1>1 DEF MailObjects, Contents
<1>3. PICK r \in Write(m, mm, c) : /\ mail' = [mail EXCEPT ![m] = r.mail]
                                   /\ item' = [item EXCEPT ![m] = r.item]
                                   /\ store' = [store EXCEPT ![m] = r.item]
  BY DEF DecryptPermanently
<1> HIDE DEF mm, c
<1>4. Tame(r.mail, mm) /\ r.item = c
  BY <1>2, WriteTame
<1>5. mail'[m] = r.mail /\ item'[m] = c /\ store'[m] = c /\ UNCHANGED <<thr, result>>
  BY <1>3, <1>4 DEF DecryptPermanently, TypeOK
<1>6. item[m].body = "plain" /\ ~mail[m].failed
  BY DEF DecryptPermanently, KeepSafe, MayKeep, KeepsText
<1>7. mail[m].parser # NoParser => Told(mail[m].parser) /\ result[mail[m].parser] = "ok"
  <2> SUFFICES ASSUME mail[m].parser # NoParser
               PROVE  Told(mail[m].parser) /\ result[mail[m].parser] = "ok"
    OBVIOUS
  <2>1. Told(mail[m].parser) /\ result[mail[m].parser] # "error"
    BY <1>6 DEF KeepsText
  <2>2. ParserWorks(mail[m].parser) /\ mail[m].parser \in Parsers
    BY <1>1 DEF ParserInv, ParsersWork, MailObjects
  <2> QED BY <2>1, <2>2 DEF ParserWorks, Told, TypeOK, KeepSafe
<1>8. /\ mail'[m].parser = mail[m].parser /\ ~mail'[m].failed /\ ~mail'[m].wipe
      /\ ~mail'[m].crypto
  BY <1>2, <1>4, <1>5, <1>6 DEF Tame
<1>9. Told(mail[m].parser)' <=> Told(mail[m].parser)
  BY <1>5, <1>8 DEF Told
<1>10. mail'[m].parser # NoParser
         => Told(mail[m].parser)' /\ result'[mail'[m].parser] = "ok" /\ ~mail'[m].failed
  BY <1>5, <1>7, <1>8, <1>9
<1>11. item'[m].body = "plain" /\ item'[m].open /\ store'[m].body = "plain" /\ store'[m].open
  BY <1>2, <1>5, <1>6
<1>12. item'[m] = store'[m]
  BY <1>5
<1> QED BY <1>8, <1>10, <1>11, <1>12 DEF KeepsText

\* What parsingDone_o and the preview make of a mail, as far as KeepsText goes
LEMMA ShownKeeps ==
  ASSUME TypeOK, NEW m \in Mails, NEW found \in {"none", "ok", "error"},
         NEW preview \in BOOLEAN, ShowParsed(m, found, preview)
  PROVE  /\ mail'[m].failed <=> found = "error"
         /\ item'[m].body = "error" <=> found = "error"
         /\ item'[m].body = "plain" => ~preview
         /\ item'[m].open = item[m].open
         /\ \A n \in Mails \ {m} : mail'[n] = mail[n] /\ item'[n] = item[n]
<1>1. mail[m] \in MailObjects /\ item[m] \in Contents
  BY DEF TypeOK
<1>2. mail'[m].failed <=> found = "error"
  <2>1. mail'[m] = ParsedMail(mail[m], found)
    BY DEF ShowParsed, TypeOK
  <2> QED BY <1>1, <2>1 DEF ParsedMail, MailObjects
<1> DEFINE c == Shown(item[m], found, preview)
<1>3. /\ c \in Contents /\ c.open = item[m].open
      /\ c.body = "error" <=> found = "error"
      /\ c.body = "plain" => ~preview
  BY <1>1, ShownType DEF Shown, Contents
<1>4. item'[m] = [c EXCEPT !.atts = IF mail[m].added THEN c.atts
                                    ELSE \/ c.atts /\ ~mail[m].print
                                         \/ found = "ok" /\ m \in Attach]
  BY DEF ShowParsed, ParsedItem, TypeOK
<1> HIDE DEF c
<1>5. item'[m].body = c.body /\ item'[m].open = c.open
  BY <1>3, <1>4 DEF Contents
<1>6. \A n \in Mails \ {m} : mail'[n] = mail[n] /\ item'[n] = item[n]
  BY DEF ShowParsed, TypeOK
<1> QED BY <1>2, <1>3, <1>5, <1>6

LEMMA ThreadKeeps ==
  ASSUME TypeOK, ParserInv, KeepInv, NEW p \in Parsers, Parse(p), NEW m \in Mails
  PROVE  KeepsText(m)'
<1>1. mail[m] \in MailObjects /\ KeepsText(m) /\ Lone(p)
  BY DEF TypeOK, KeepInv
<1>2. /\ store' = store /\ ghost' = ghost /\ Kept(m)' = Kept(m)
      /\ \A q \in Parsers \ {p} : thr'[q] = thr[q]
  BY <1>1, ThreadsKeep DEF Kept
<1>3. \A q \in Parsers \ {p} : result'[q] = result[q]
  <2>1. CASE ThreadParse(p)
    <3>1. thr[p].uses \in {NoParser, p}
      BY <1>1, <2>1 DEF ThreadParse, Lone
    <3>2. PICK r : result' = [result EXCEPT ![thr[p].uses] = r]
      BY <2>1 DEF ThreadParse
    <3> QED BY <3>1, <3>2, NamesAssumption DEF TypeOK, NoParser
  <2>2. CASE SyncParse(p)
    BY <2>2 DEF SyncParse, TypeOK
  <2>3. CASE UNCHANGED result
    BY <2>3
  <2> QED BY <2>1, <2>2, <2>3 DEF Parse, ThreadStart, ThreadLock, ShowPreview, ThreadSecond,
                                  ParsingDone, ThreadLeave
<1>4. CASE mail[m].parser # p
  <2>1. mail'[m] = mail[m] /\ item'[m] = item[m]
    <3>1. CASE UNCHANGED <<mail, item>>
      BY <3>1
    <3>2. ASSUME p \in Running(thr[p].m), thr[p].m \in Mails, mail[thr[p].m].parser # NoParser,
                 NEW found \in {"none", "ok", "error"}, NEW preview \in BOOLEAN,
                 ShowParsed(thr[p].m, found, preview)
          PROVE  mail'[m] = mail[m] /\ item'[m] = item[m]
      <4>1. mail[thr[p].m].parser = p
        BY <1>1, <3>2 DEF Lone, Running
      <4> QED BY <1>4, <3>2, <4>1, ShownKeeps
    <3> QED BY <1>1, <3>1, <3>2, ThreadsKeep
  <2>2. mail[m].parser # NoParser => /\ thr'[mail[m].parser] = thr[mail[m].parser]
                                     /\ result'[mail[m].parser] = result[mail[m].parser]
    BY <1>1, <1>2, <1>3, <1>4 DEF MailObjects
  <2> QED BY <1>1, <1>2, <2>1, <2>2 DEF KeepsText, Told
<1>5. CASE mail[m].parser = p
  <2>0. p # NoParser
    BY NamesAssumption DEF NoParser
  <2>1. m = thr[p].m /\ mail[m].alive /\ ParserWorks(p)
    BY <1>5, <2>0 DEF ParserInv, ParsersWork
  <2>2. CASE ThreadStart(p) \/ ThreadLock(p) \/ ThreadParse(p) \/ ThreadSecond(p)
    <3>1. /\ thr[p].pc \in {"start", "wait", "parse", "second"}
          /\ thr'[p].pc \in {"wait", "parse", "preview", "done"}
      <4>1. CASE ThreadStart(p)
        BY <2>1, <4>1 DEF ThreadStart, TypeOK, ParseThreads
      <4>2. CASE ThreadLock(p)
        <5>1. thr[p].uses = p
          BY <1>1, <1>5, <2>1, <4>2 DEF ThreadLock, Lone
        <5> QED BY <2>0, <2>1, <4>2, <5>1 DEF ThreadLock, MayParse, Goto, TypeOK, ParseThreads
      <4>3. CASE ThreadParse(p)
        BY <4>3 DEF ThreadParse, Goto, TypeOK, ParseThreads
      <4>4. CASE ThreadSecond(p)
        BY <2>1, <4>4 DEF ThreadSecond, Goto, TypeOK, ParseThreads
      <4> QED BY <2>2, <4>1, <4>2, <4>3, <4>4
    <3>2. UNCHANGED <<mail, item>>
      BY <2>2 DEF ThreadStart, ThreadLock, ThreadParse, ThreadSecond
    <3>3. ~Told(p) /\ ~Told(p)'
      BY <3>1 DEF Told
    <3> QED BY <1>1, <1>2, <1>5, <2>0, <3>2, <3>3 DEF KeepsText
  <2>3. CASE ThreadLeave(p)
    <3>1. UNCHANGED <<mail, item, result>> /\ Told(p) /\ Told(p)'
      BY <2>3 DEF ThreadLeave, Goto, TypeOK, ParseThreads, Told
    <3> QED BY <1>1, <1>2, <1>5, <3>1 DEF KeepsText
  <2>4. CASE ShowPreview(p) \/ ParsingDone(p) \/ SyncParse(p)
    <3>1. ~Told(p) /\ thr[p].pc # "new"
      BY <2>4 DEF ShowPreview, ParsingDone, SyncParse, Told, ParserInv, UiWaitsForItsParse
    <3>2. ~Kept(m)
      BY <1>1, <1>5, <2>0, <3>1 DEF KeepsText
    <3>3. /\ Told(p)' <=> ~ShowPreview(p)
          /\ mail'[m].parser = p
          /\ \E preview \in BOOLEAN : /\ preview <=> ShowPreview(p)
                                     /\ ShowParsed(m, result'[p], preview)
      <4>1. CASE ShowPreview(p)
        <5>1. ShowParsed(m, result'[p], TRUE) /\ thr'[p].pc = "second"
          BY <1>5, <2>0, <2>1, <4>1 DEF ShowPreview, ShowIfThere, Goto, TypeOK, ParseThreads
        <5>2. mail'[m].parser = p
          BY <1>5, <5>1, ShowSame DEF SameMail
        <5> QED BY <4>1, <5>1, <5>2 DEF Told
      <4>2. CASE ~ShowPreview(p)
        <5>1. ShowParsed(m, result'[p], FALSE) /\ thr'[p].pc \in {"leave", "end"}
          <6>1. CASE ParsingDone(p)
            BY <1>5, <2>0, <2>1, <6>1
               DEF ParsingDone, ShowIfThere, Goto, TypeOK, ParseThreads
          <6>2. CASE SyncParse(p)
            BY <2>1, <6>2 DEF SyncParse, Goto, TypeOK, ParseThreads
          <6> QED BY <2>4, <4>2, <6>1, <6>2
        <5>2. mail'[m].parser = p
          BY <1>5, <5>1, ShowSame DEF SameMail
        <5> QED BY <4>2, <5>1, <5>2 DEF Told
      <4> QED BY <4>1, <4>2
    <3>4. result'[p] \in {"none", "ok", "error"}
      BY <2>4 DEF ShowPreview, ParsingDone, SyncParse, TypeOK
    <3>5. /\ mail'[m].failed <=> result'[p] = "error"
          /\ item'[m].body = "error" => mail'[m].failed
          /\ item'[m].body = "plain" => ~ShowPreview(p)
          /\ item'[m].open = store'[m].open
      BY <1>1, <1>2, <3>3, <3>4, ShownKeeps DEF KeepsText
    <3> QED BY <1>2, <3>2, <3>3, <3>5 DEF KeepsText
  <2> QED BY <2>2, <2>3, <2>4 DEF Parse
<1> QED BY <1>4, <1>5

\* The Mail object that a read gives to decryptVerify_o
LEMMA ReadGives ==
  ASSUME TypeOK, NEW m \in Mails, Read(m) \/ (DecryptAgain(m) /\ mail[m].alive)
  PROVE  \E mm \in MailObjects :
           /\ DecryptVerify(m, mm)
           /\ mm.parser = mail[m].parser /\ mm.failed = mail[m].failed
           /\ mm.wipe = mail[m].wipe
           /\ mm.crypto => mail[m].crypto \/ ~item[m].open
<1>1. mail[m] \in MailObjects
  BY DEF TypeOK
<1>2. ASSUME NEW a \in BOOLEAN, NEW b \in BOOLEAN
      PROVE  /\ [mail[m] EXCEPT !.crypto = a, !.save = b] \in MailObjects
             /\ [mail[m] EXCEPT !.crypto = a, !.save = b].parser = mail[m].parser
             /\ [mail[m] EXCEPT !.crypto = a, !.save = b].failed = mail[m].failed
             /\ [mail[m] EXCEPT !.crypto = a, !.save = b].wipe = mail[m].wipe
             /\ [mail[m] EXCEPT !.crypto = a, !.save = b].crypto = a
  BY <1>1 DEF MailObjects
<1>3. CASE Read(m)
  <2> DEFINE a == IF down THEN mail[m].crypto ELSE ~item[m].open
             b == mail[m].save \/ ("no_smime" \in Options /\ m \in Smime)
  <2>1. DecryptVerify(m, [mail[m] EXCEPT !.crypto = a, !.save = b])
    BY <1>3 DEF Read
  <2>2. a \in BOOLEAN /\ b \in BOOLEAN /\ (a => mail[m].crypto \/ ~item[m].open)
    BY <1>1 DEF MailObjects
  <2> HIDE DEF a, b
  <2> QED BY <1>2, <2>1, <2>2
<1>4. CASE DecryptAgain(m) /\ mail[m].alive
  <2> DEFINE mm == [mail[m] EXCEPT !.crypto = ~item[m].open]
  <2>1. DecryptVerify(m, mm)
    BY <1>4 DEF DecryptAgain
  <2>2. (~item[m].open) \in BOOLEAN
    OBVIOUS
  <2>3. /\ mm \in MailObjects /\ mm.parser = mail[m].parser /\ mm.failed = mail[m].failed
        /\ mm.wipe = mail[m].wipe /\ mm.crypto = ~item[m].open
    BY <1>1, <2>2 DEF MailObjects
  <2> HIDE DEF mm
  <2> QED BY <2>1, <2>3
<1> QED BY <1>3, <1>4

\* Each mail keeps its parser or loses it, in every step that starts no parse.
LEMMA LoneKept ==
  ASSUME ParserInv, NEW p \in Parsers, Lone(p), thr'[p] = thr[p],
         thr[p].m \in Mails => SameMail(mail'[thr[p].m], mail[thr[p].m])
                                \/ mail'[thr[p].m].parser = NoParser
  PROVE  Lone(p)'
<1>1. thr[p].pc # "new" => thr[p].m \in Mails
  BY DEF ParserInv, ThreadsHaveMails
<1> QED BY <1>1, NamesAssumption DEF Lone, NoParser, SameMail

LEMMA DecryptVerifyLone ==
  ASSUME TypeOK, ParserInv, NEW p \in Parsers, Lone(p), NEW m \in Mails,
         NEW mm \in MailObjects, DecryptVerify(m, mm), Running(m) = {},
         mm.parser = mail[m].parser
  PROVE  Lone(p)'
<1>1. ASSUME NEW q \in Unused, NEW y, mail' = [mail EXCEPT ![m] = y], y.parser = q,
             NEW t, Begins(m, q, t)
      PROVE  Lone(p)'
  <2>1. q \in Parsers
    BY DEF Unused
  <2>2. CASE p = q
    <3>1. /\ thr'[p].m = m /\ mail'[m].parser = p /\ thr'[p].uses \in {NoParser, p}
          /\ thr'[p].pc \in {"sync", "start", "end"}
          /\ thr'[p].pc = "sync" => thr'[p].uses = p
      BY <1>1, <2>1, <2>2 DEF TypeOK, Begins
    <3> QED BY <3>1 DEF Lone
  <2>3. CASE p # q
    <3>1. thr'[p] = thr[p]
      BY <1>1, <2>1, <2>3 DEF Begins, TypeOK
    <3>2. CASE thr[p].m = m
      <4>1. thr[p].pc \in {"new", "end"}
        BY <3>2 DEF Running
      <4> QED BY <3>1, <4>1 DEF Lone
    <3>3. CASE thr[p].m # m
      <4>1. thr[p].m \in Mails => mail'[thr[p].m] = mail[thr[p].m]
        BY <1>1, <3>3 DEF TypeOK
      <4> QED BY <3>1, <4>1, LoneKept DEF SameMail
    <3> QED BY <3>2, <3>3
  <2> QED BY <2>2, <2>3
<1>2. ASSUME thr' = thr, NEW y, mail' = [mail EXCEPT ![m] = y], y.parser = mm.parser
      PROVE  Lone(p)'
  <2>1. thr[p].m \in Mails => mail'[thr[p].m].parser = mail[thr[p].m].parser
    BY <1>2 DEF TypeOK
  <2>2. thr[p].pc # "new" => thr[p].m \in Mails
    BY DEF ParserInv, ThreadsHaveMails
  <2> QED BY <1>2, <2>1, <2>2 DEF Lone
<1> QED BY <1>1, <1>2, DecryptVerifyCases

LEMMA LoneNext ==
  ASSUME TypeOK, ParserInv, KeepSafe, KeepInv, [Next]_vars, NEW p \in Parsers
  PROVE  Lone(p)'
<1>1. Lone(p) /\ (thr[p].pc # "new" => thr[p].m \in Mails)
  BY DEF KeepInv, ParserInv, ThreadsHaveMails
<1>2. ASSUME NEW m \in Mails, Read(m) \/ (DecryptAgain(m) /\ mail[m].alive)
      PROVE  Lone(p)'
  <2>1. Running(m) = {}
    BY <1>2 DEF Read, DecryptAgain, Settled, KeepSafe
  <2> QED BY <1>1, <1>2, <2>1, ReadGives, DecryptVerifyLone
<1>3. ASSUME thr' = thr, \A m \in Mails : \/ SameMail(mail'[m], mail[m])
                                          \/ mail'[m].parser = NoParser
      PROVE  Lone(p)'
  BY <1>1, <1>3, LoneKept
<1>4. ASSUME NEW m \in Mails, NEW y, thr' = thr, mail' = [mail EXCEPT ![m] = y],
             SameMail(y, mail[m]) \/ y.parser = NoParser
      PROVE  Lone(p)'
  BY <1>3, <1>4 DEF TypeOK, SameMail
<1>5. ASSUME NEW m \in Mails, Outlook(m) \/ RevertMail(m), ~Read(m)
      PROVE  Lone(p)'
  <2>0. mail[m] \in MailObjects /\ item[m] \in Contents
    BY DEF TypeOK
  <2>1. CASE Load(m) \/ Unload(m)
    <3>1. \A print \in BOOLEAN : NewMail(print).parser = NoParser
      BY DEF NewMail
    <3>2. NoMail.parser = NoParser
      BY <3>1 DEF NoMail, NewMail
    <3>3. CASE Load(m)
      <4>1. PICK print \in BOOLEAN : mail' = [mail EXCEPT ![m] = NewMail(print)]
        BY <3>3 DEF Load
      <4> QED BY <1>4, <3>1, <3>3, <4>1 DEF Load
    <3>4. CASE Unload(m)
      <4>1. mail' = [mail EXCEPT ![m] = NoMail] /\ thr' = thr
        BY <3>4 DEF Unload
      <4> QED BY <1>4, <3>2, <4>1
    <3> QED BY <2>1, <3>3, <3>4
  <2>2. CASE WriteMail(m)
    BY <1>4, <2>0, <2>2, WriteSame DEF WriteMail
  <2>3. CASE CloseMail(m)
    BY <1>4, <2>0, <2>3, CloseSame DEF CloseMail
  <2>4. CASE CloseDraft(m) \/ SendAgain(m)
    <3>1. /\ SameMail([mail[m] EXCEPT !.again = TRUE], mail[m])
          /\ SameMail([mail[m] EXCEPT !.sendAgain = TRUE], mail[m])
      BY <2>0 DEF SameMail, MailObjects
    <3> QED BY <1>4, <2>4, <3>1 DEF CloseDraft, SendAgain
  <2>5. CASE DecryptPermanently(m)
    <3> DEFINE mm == [mail[m] EXCEPT !.wipe = FALSE, !.processed = FALSE, !.crypto = FALSE]
               c  == [item[m] EXCEPT !.open = TRUE]
    <3>1. mm \in MailObjects /\ c \in Contents /\ SameMail(mm, mail[m])
      BY <2>0 DEF MailObjects, Contents, SameMail
    <3>2. PICK r \in Write(m, mm, c) : mail' = [mail EXCEPT ![m] = r.mail] /\ thr' = thr
      BY <2>5 DEF DecryptPermanently
    <3> HIDE DEF mm, c
    <3>3. SameMail(r.mail, mail[m])
      BY <3>1, WriteSame DEF SameMail
    <3> QED BY <1>4, <3>2, <3>3
  <2>6. CASE RevertMail(m)
    <3>1. CASE ~mail[m].alive
      BY <1>3, <2>6, <3>1 DEF RevertMail, SameMail
    <3>2. CASE mail[m].alive
      <4> DEFINE mm == [mail[m] EXCEPT !.save = TRUE]
      <4>1. mm \in MailObjects /\ SameMail(mm, mail[m])
        BY <2>0 DEF MailObjects, SameMail
      <4>2. PICK r \in Write(m, mm, item[m]) :
              mail' = [mail EXCEPT ![m] = r.mail] /\ thr' = thr
        BY <2>6, <3>2 DEF RevertMail
      <4> HIDE DEF mm
      <4>3. SameMail(r.mail, mail[m])
        BY <2>0, <4>1, WriteSame DEF SameMail
      <4> QED BY <1>4, <4>2, <4>3
    <3> QED BY <3>1, <3>2
  <2> QED BY <1>5, <2>1, <2>2, <2>3, <2>4, <2>5, <2>6 DEF Outlook
<1>6. ASSUME NEW q \in Parsers, Parse(q)
      PROVE  Lone(p)'
  <2>1. \A m \in Mails : SameMail(mail'[m], mail[m])
    BY <1>6, ThreadsKeep, ShowSame DEF SameMail
  <2>2. CASE p # q
    <3>1. thr'[p] = thr[p]
      BY <1>6, <2>2, MailsAssumption, ThreadsKeep
    <3> QED BY <1>1, <2>1, <3>1, LoneKept
  <2>3. CASE p = q
    <3>1. CASE ThreadStart(p)
      <4>1. /\ thr'[p].m = thr[p].m /\ UNCHANGED mail
            /\ thr'[p].pc = "end" \/ thr'[p].uses = mail[thr[p].m].parser
        BY <3>1 DEF ThreadStart, TypeOK, ParseThreads
      <4> QED BY <1>1, <3>1, <4>1 DEF ThreadStart, Lone
    <3>2. CASE ~ThreadStart(p)
      <4>1. /\ thr'[p].m = thr[p].m /\ thr'[p].uses = thr[p].uses
            /\ thr[p].pc \notin {"new", "start", "end"}
        <5>1. CASE ThreadLock(p) \/ ThreadParse(p) \/ ThreadSecond(p) \/ ThreadLeave(p)
          <6>1. /\ thr[p].pc \notin {"new", "start", "end"}
                /\ \E pc : thr' = [thr EXCEPT ![p].pc = pc]
            BY <5>1 DEF ThreadLock, ThreadParse, ThreadSecond, ThreadLeave, Goto
          <6>2. thr \in [Parsers -> ParseThreads]
            BY DEF TypeOK
          <6>3. PICK pc : thr' = [thr EXCEPT ![p].pc = pc]
            BY <6>1
          <6>4. thr'[p] = [thr[p] EXCEPT !.pc = pc]
            BY <6>2, <6>3
          <6> QED BY <6>1, <6>2, <6>4 DEF ParseThreads
        <5>2. CASE ShowPreview(p) \/ ParsingDone(p)
          <6>1. /\ thr[p].pc \notin {"new", "start", "end"}
                /\ Goto(p, "second") \/ Goto(p, "leave")
            BY <5>2 DEF ShowPreview, ParsingDone
          <6>2. thr \in [Parsers -> ParseThreads]
            BY DEF TypeOK
          <6> QED BY <6>1, <6>2 DEF Goto, ParseThreads
        <5>3. CASE SyncParse(p)
          <6>1. thr[p].pc = "sync"
            BY <5>3 DEF SyncParse, ParserInv, UiWaitsForItsParse
          <6>2. Goto(p, "end")
            BY <5>3 DEF SyncParse
          <6> QED BY <6>1, <6>2 DEF Goto, TypeOK, ParseThreads
        <5> QED BY <1>6, <2>3, <3>2, <5>1, <5>2, <5>3 DEF Parse
      <4> QED BY <1>1, <2>1, <4>1 DEF Lone, SameMail
    <3> QED BY <3>1, <3>2
  <2> QED BY <2>2, <2>3
<1>7. CASE Shutdown
  <2>1. thr' = thr /\ \A m \in Mails : \E r \in CloseOne(m) : mail'[m] = r.mail
    BY <1>7 DEF Shutdown
  <2> QED BY <1>3, <2>1, CloseOneSame
<1>8. CASE LoadNew \/ ClearLast \/ UNCHANGED vars \/ \E m \in Mails : DecryptAgain(m) /\ ~mail[m].alive
  BY <1>3, <1>8 DEF LoadNew, ClearLast, vars, DecryptAgain, SameMail
<1> QED BY <1>2, <1>5, <1>6, <1>7, <1>8 DEF Next, Messaging, Outlook

LEMMA OthersKeep ==
  ASSUME TypeOK, ParserInv, NEW n \in Mails, Outlook(n) \/ RevertMail(n) \/ DecryptAgain(n),
         NEW m \in Mails, m # n, KeepsText(m)
  PROVE  KeepsText(m)'
<1>1. Untouched(m)
  BY OthersKept
<1>2. result' = result
  BY DEF Outlook, Load, Read, WriteMail, CloseMail, CloseDraft, Unload, SendAgain,
         DecryptPermanently, RevertMail, DecryptAgain
<1>3. \A p \in Parsers : thr[p].pc # "new" => thr'[p] = thr[p]
  <2>1. CASE thr' = thr
    BY <2>1
  <2>2. CASE Read(n) \/ DecryptAgain(n)
    <3>1. CASE \E p \in Unused : \E t : Begins(n, p, t)
      BY <3>1 DEF Begins, Unused, TypeOK
    <3>2. CASE \E mm : DecryptVerify(n, mm)
      BY <2>1, <3>1, <3>2, DecryptVerifyThreads
    <3> QED BY <2>1, <2>2, <3>2 DEF Read, DecryptAgain
  <2> QED BY <2>1, <2>2 DEF Outlook, Load, WriteMail, CloseMail, CloseDraft, Unload, SendAgain,
                            DecryptPermanently, RevertMail
<1>4. mail[m].parser # NoParser => thr'[mail[m].parser] = thr[mail[m].parser]
  <2>1. mail[m].parser # NoParser => /\ mail[m].parser \in Parsers
                                     /\ ParserWorks(mail[m].parser)
    BY DEF TypeOK, MailObjects, ParserInv, ParsersWork
  <2> QED BY <1>3, <2>1 DEF ParserWorks
<1> QED BY <1>1, <1>2, <1>4 DEF KeepsText, Told, Untouched

\* The handlers of one mail, by what they do to it
LEMMA HandlerKeeps ==
  ASSUME TypeOK, ParserInv, KeepSafe, NEW m \in Mails,
         Outlook(m) \/ RevertMail(m) \/ DecryptAgain(m), KeepsText(m)
  PROVE  KeepsText(m)'
<1>0. mail[m] \in MailObjects /\ item[m] \in Contents /\ store[m] \in Contents
  BY DEF TypeOK
<1>1. CASE Load(m)
  <2>1. \A print \in BOOLEAN : /\ NewMail(print).parser = NoParser
                               /\ ~NewMail(print).wipe /\ ~NewMail(print).crypto
    BY DEF NewMail
  <2>2. PICK print \in BOOLEAN : mail' = [mail EXCEPT ![m] = NewMail(print)]
    BY <1>1 DEF Load
  <2>3. mail'[m].parser = NoParser /\ ~mail'[m].wipe /\ ~mail'[m].crypto
    BY <2>1, <2>2 DEF TypeOK
  <2> QED BY <1>0, <1>1, <2>3, TameKeeps, FormsOrNone DEF Load, Kept
<1>2. CASE Unload(m)
  <2>1. NoMail.parser = NoParser /\ ~NoMail.wipe /\ ~NoMail.crypto
    BY DEF NoMail, NewMail
  <2>2. /\ mail'[m].parser = NoParser /\ ~mail'[m].wipe /\ ~mail'[m].crypto
        /\ item'[m] = store[m] /\ store'[m] = store[m] /\ UNCHANGED <<thr, result>>
        /\ Kept(m)' = Kept(m)
    BY <1>2, <2>1 DEF Unload, TypeOK, Kept
  <2> QED BY <1>0, <2>2, TameKeeps, FormsOrNone
<1>3. CASE Read(m) \/ (DecryptAgain(m) /\ mail[m].alive)
  <2>1. PICK mm \in MailObjects :
          /\ DecryptVerify(m, mm) /\ mm.parser = mail[m].parser /\ mm.failed = mail[m].failed
          /\ mm.wipe = mail[m].wipe /\ (mm.crypto => mail[m].crypto \/ ~item[m].open)
    BY <1>3, ReadGives
  <2>2. UNCHANGED <<result, ghost>> /\ mail[m].alive
    BY <1>3 DEF Read, DecryptAgain
  <2>3. Kept(m) => ~mm.crypto
    BY <2>1, <2>2 DEF KeepsText
  <2> QED BY <2>1, <2>2, <2>3, DecryptVerifyKeeps
<1>4. CASE WriteMail(m)
  <2>1. PICK r \in Write(m, mail[m], item[m]) :
          /\ mail' = [mail EXCEPT ![m] = r.mail] /\ item' = [item EXCEPT ![m] = r.item]
          /\ store' = IF r.ok THEN [store EXCEPT ![m] = r.item] ELSE store
    BY <1>4 DEF WriteMail
  <2>2. /\ mail[m].alive /\ UNCHANGED <<thr, result>> /\ Kept(m)' = Kept(m)
        /\ mail'[m] = r.mail /\ item'[m] = r.item
        /\ store'[m] = store[m] \/ store'[m] = item'[m]
        /\ r.ok \/ store'[m] = store[m]
    BY <1>4, <2>1 DEF WriteMail, Kept, TypeOK
  <2>3. /\ Tame(r.mail, mail[m]) /\ OrNone(r.item, item[m])
        /\ ~mail[m].crypto => r.item = item[m] /\ r.ok
    BY <1>0, WriteTame
  <2>4. Kept(m) => item'[m] = item[m]
    BY <2>2, <2>3 DEF KeepsText
  <2> QED BY <2>2, <2>3, <2>4, TameKeeps
<1>5. CASE CloseMail(m) \/ CloseDraft(m)
  <2>1. /\ Running(m) = {} /\ mail[m].alive /\ mail[m].crypto /\ UNCHANGED <<thr, result>>
        /\ store' = store /\ Kept(m)' = Kept(m)
    BY <1>5 DEF CloseMail, CloseDraft, Settled, KeepSafe, Kept
  <2>2. Tame(mail'[m], mail[m]) /\ item'[m] \in {item[m], store[m]}
    <3>1. CASE CloseMail(m)
      <4>1. PICK r \in Close(m, mail[m], item[m]) :
              mail' = [mail EXCEPT ![m] = r.mail] /\ item' = [item EXCEPT ![m] = r.item]
        BY <3>1 DEF CloseMail
      <4>2. mail'[m] = r.mail /\ item'[m] = r.item
        BY <4>1 DEF TypeOK
      <4> QED BY <4>2, CloseTame
    <3>2. CASE CloseDraft(m)
      <4>1. Tame([mail[m] EXCEPT !.again = TRUE], mail[m])
        BY <1>0 DEF Tame, MailObjects
      <4> QED BY <3>2, <4>1 DEF CloseDraft, TypeOK
    <3> QED BY <1>5, <3>1, <3>2
  <2>3. OrNone(item'[m], item[m]) \/ OrNone(item'[m], store[m])
    BY <1>0, <2>2, FormsOrNone
  <2>4. mail[m].parser # NoParser => Told(mail[m].parser)
    BY <2>1, ParserTold
  <2>5. ~Kept(m)
    BY <2>1 DEF KeepsText
  <2> QED BY <2>1, <2>2, <2>3, <2>4, <2>5, TameKeeps DEF Tame
<1>6. CASE SendAgain(m)
  <2>1. Tame([mail[m] EXCEPT !.sendAgain = TRUE], mail[m])
    BY <1>0 DEF Tame, MailObjects
  <2>2. Kept(m)' = Kept(m)
    BY <1>6 DEF SendAgain, TypeOK, Ghosts, Kept
  <2>3. Tame(mail'[m], mail[m]) /\ UNCHANGED <<thr, result, item, store>>
    BY <1>6, <2>1 DEF SendAgain, TypeOK
  <2> QED BY <1>0, <2>2, <2>3, TameKeeps, FormsOrNone
<1>7. CASE DecryptAgain(m) /\ ~mail[m].alive
  <2>1. UNCHANGED <<mail, item, store, thr, result, ghost>>
    BY <1>7 DEF DecryptAgain
  <2> QED BY <2>1 DEF KeepsText, Told, Kept
<1> QED BY <1>1, <1>2, <1>3, <1>4, <1>5, <1>6, <1>7, RevertMailKeeps, PermanentKeeps
        DEF Outlook

LEMMA ShutdownKeeps ==
  ASSUME TypeOK, ParserInv, KeepSafe, Shutdown, NEW m \in Mails, KeepsText(m)
  PROVE  KeepsText(m)'
<1>1. PICK r : /\ \A n \in Mails : r[n] \in CloseOne(n)
               /\ mail' = [n \in Mails |-> r[n].mail]
               /\ item' = [n \in Mails |-> r[n].item]
               /\ ghost' = [ghost EXCEPT !.told = \E n \in Mails : ~r[n].ok]
  BY DEF Shutdown
<1>2. /\ mail'[m] = r[m].mail /\ item'[m] = r[m].item /\ store' = store
      /\ UNCHANGED <<thr, result>> /\ (mail[m].alive => Running(m) = {})
      /\ r[m] \in CloseOne(m)
  BY <1>1 DEF Shutdown, Settled, KeepSafe
<1>3. Kept(m)' = Kept(m)
  BY <1>1 DEF Kept, TypeOK, Ghosts
<1>4. /\ Tame(r[m].mail, mail[m])
      /\ OrNone(r[m].item, item[m]) \/ OrNone(r[m].item, store[m])
      /\ ~(mail[m].alive /\ mail[m].crypto) => r[m] = Done(mail[m], item[m])
  BY <1>2, CloseOneTame
<1>5. mail[m].parser # NoParser => mail[m].alive
  BY DEF ParserInv, ParsersWork
<1>6. mail[m].parser # NoParser => Told(mail[m].parser)
  BY <1>2, <1>5, ParserTold
<1>7. Kept(m) => item'[m] = item[m]
  BY <1>2, <1>4 DEF KeepsText, Done
<1> QED BY <1>2, <1>3, <1>4, <1>6, <1>7, TameKeeps DEF Tame

LEMMA KeepsNext ==
  ASSUME TypeOK, ParserInv, KeepSafe, KeepInv, [Next]_vars
  PROVE  KeepInv'
<1>1. \A p \in Parsers : Lone(p)'
  BY LoneNext
<1>2. ASSUME NEW m \in Mails
      PROVE  KeepsText(m)'
  <2>1. KeepsText(m)
    BY DEF KeepInv
  <2>2. CASE \E n \in Mails : Outlook(n) \/ RevertMail(n) \/ DecryptAgain(n)
    <3>1. PICK n \in Mails : Outlook(n) \/ RevertMail(n) \/ DecryptAgain(n)
      BY <2>2
    <3>2. CASE m = n
      BY <2>1, <3>1, <3>2, HandlerKeeps
    <3>3. CASE m # n
      BY <2>1, <3>1, <3>3, OthersKeep
    <3> QED BY <3>2, <3>3
  <2>3. CASE LoadNew \/ ClearLast \/ UNCHANGED vars
    <3>1. UNCHANGED <<mail, item, store, thr, result, ghost>>
      BY <2>3 DEF LoadNew, ClearLast, vars
    <3> QED BY <2>1, <3>1 DEF KeepsText, Told, Kept
  <2> QED BY <2>1, <2>2, <2>3, ThreadKeeps, ShutdownKeeps DEF Next, Messaging
<1> QED BY <1>1, <1>2 DEF KeepInv

\* Decrypting a mail permanently replaces its ciphertext by the decrypted
\* text and by nothing else, whatever happens to the mail afterwards: it may
\* be written, forwarded, sent again, closed, unloaded, loaded and read, in
\* another window or after the shutdown. The store's text is the final one
\* because the mail has no parser but the one whose result it shows.
THEOREM PermanentKeepsDecrypted == KeepSafe => (Spec => []PermanentKeepsText)
<1> SUFFICES ASSUME KeepSafe PROVE Spec => []PermanentKeepsText
  OBVIOUS
<1>1. Init => TypeOK /\ ParserInv /\ KeepInv
  <2> SUFFICES ASSUME Init PROVE TypeOK /\ ParserInv /\ KeepInv
    OBVIOUS
  <2>1. KeepInv
    BY DEF Init, KeepInv, Lone, KeepsText, Kept, NoMail, NewMail, Received, NoParser
  <2> QED BY <2>1, InitTyped
<1>2. TypeOK /\ ParserInv /\ KeepInv /\ [Next]_vars => (TypeOK /\ ParserInv /\ KeepInv)'
  BY TypeNext, ParserNext, KeepsNext DEF ParserInv
<1>3. KeepInv /\ TypeOK => PermanentKeepsText
  BY DEF KeepInv, KeepsText, Kept, PermanentKeepsText, TypeOK, Ghosts
<1> QED BY <1>1, <1>2, <1>3, PTL DEF Spec
=============================================================================
