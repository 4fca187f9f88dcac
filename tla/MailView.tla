------------------------------ MODULE MailView ------------------------------
(***************************************************************************)
(* Mails that are read: their decryption by parse threads and the care     *)
(* that the plaintext put into Outlook's object model never reaches the    *)
(* store. mail.cpp (do_parsing, decryptVerify_o, parsingDone_o, wipe_o,    *)
(* revert_o, close, closeAllMails_o, decryptPermanently_o), the event sink *)
(* of mailitem-events.cpp (BeforeRead, Read, Write, Close, Unload), the    *)
(* PARSING_DONE, SHOW_PREVIEW, REVERT_MAIL, DECRYPT and                    *)
(* INVALIDATE_LAST_MAIL messages of windowmessages.cpp, the revert of      *)
(* revert.cpp and the shutdown of gpgoladdin.cpp.                          *)
(*                                                                         *)
(* A mail is named by the address of its Mail object. A parse thread is    *)
(* named like the ParseController made with it; both are used once. The    *)
(* composing side of the same files is MailSend: no mail here is composed, *)
(* so the crypt state is NoCryptMail and draft encryption is off.          *)
(***************************************************************************)
EXTENDS Naturals, FiniteSets

CONSTANTS
  Mails,      \* addresses of Mail objects
  Parsers,    \* ParseControllers and their threads: bounds the decryptions
  Smime,      \* the mails that are S/MIME: isSMIME_m
  Inline,     \* the mails whose ciphertext is their body (not an attachment)
  Attach,     \* the mails whose plaintext has attachments
  Confirmations,  \* the mails that ask to confirm a web key directory request
  Options,    \* opt: a subset of AllOptions
  Env         \* what the user, Outlook and MAPI may do: a subset of AllEnv

AllOptions == {"sync_dec", "no_smime"}
AllEnv == { "forward",  \* a mail may be forwarded: written beside a new item
            "second",   \* also once its plaintext was put back after a revert
            "draft",    \* a mail may be a draft, decrypted again when closed
            "sendagain",\* a sent mail may be sent again
            "permanent",\* the user may decrypt a mail permanently
            "early",    \* also while the screen does not show the final text,
                        \* or once the mail was closed
            "late",     \* a mail is closed, forwarded, reverted or decrypted
                        \* again while one of its parses runs
            "between",  \* the user or Outlook goes on with a mail before the
                        \* REVERT_MAIL posted for it is handled
            "reuse",    \* a new Mail object takes the address of a deleted
                        \* one that threads or messages still name
            "print",    \* mails may be loaded to be printed
            "nostream", \* the ciphertext cannot be opened, if it never was
            "nobody",   \* the body the placeholder replaces cannot be read
            "nothread", \* no parse thread can be created
            "shutdown", \* Outlook may quit
            "shutread", \* Outlook reads mails after the shutdown
            "closeerr", \* Outlook fails to close a mail
            "window",   \* a closed mail is still shown in another window
            "reverterr",\* the revert stops early or cannot delete attachments
            "finalize", \* the revert cannot finish the MAPI message
            "wipeerr" } \* Outlook refuses to change a body that is wiped

ASSUME MailsAssumption   == Mails # {} /\ IsFiniteSet(Mails)
ASSUME ParsersAssumption == IsFiniteSet(Parsers)
ASSUME KindsAssumption   == /\ Smime \cup Inline \cup Attach \subseteq Mails
                            /\ Confirmations \subseteq Mails \ Smime
ASSUME OptionsAssumption == Options \subseteq AllOptions
ASSUME EnvAssumption     == Env \subseteq AllEnv
ASSUME NamesAssumption   == {"idle", "nil"} \cap Parsers = {}

NoParser == "nil"
Nobody   == "nil"

VARIABLES
  mail,    \* the Mail objects
  item,    \* what Outlook's object model holds of each mail
  store,   \* what the message store holds
  thr,     \* the parse threads
  result,  \* what each ParseController has found
  lock,    \* who holds parser_lock
  ui,      \* "idle", or the parser whose parse the UI thread waits for
  posted,  \* asynchronous window messages under way
  last,    \* s_last_mail is a new item without id, subject and size
  down,    \* the add-in was shut down
  ghost    \* history the properties speak about; no action reads it

vars == <<mail, item, store, thr, result, lock, ui, posted, last, down, ghost>>

MailObjects ==
  [ alive     : BOOLEAN,     \* in s_mail_map
    crypto    : BOOLEAN,     \* isCryptoMail: m_type is one of ours
    processed : BOOLEAN,     \* m_processed
    wipe      : BOOLEAN,     \* m_needs_wipe
    save      : BOOLEAN,     \* m_needs_save
    pass      : BOOLEAN,     \* m_pass_write
    again     : BOOLEAN,     \* m_decrypt_again
    sendAgain : BOOLEAN,     \* m_is_send_again
    print     : BOOLEAN,     \* m_printing
    added     : BOOLEAN,     \* m_attachs_added
    failed    : BOOLEAN,     \* m_decrypt_result holds an error
    parser    : Parsers \cup {NoParser} ]  \* m_parser

\* clean: as received; wait: our placeholder; void: a parser's text before
\* it has parsed; empty: wiped
Bodies == {"clean", "wait", "preview", "plain", "error", "void", "empty"}

Contents == [ body : Bodies,
              atts : BOOLEAN,    \* decrypted attachments are there
              open : BOOLEAN ]   \* the message class is no longer ours

ParseThreads == [ pc   : {"new", "start", "wait", "parse", "preview", "second",
                          "done", "leave", "sync", "end"},
                  m    : Mails \cup {Nobody},
                  uses : Parsers \cup {NoParser} ]  \* its parser variable

Messages == {"revert", "decrypt"} \X Mails

Ghosts == [ allowed : SUBSET Mails,   \* the user wants the text in the store
            kept    : SUBSET Mails,   \* decrypted permanently
            told    : BOOLEAN ]       \* the user was told of plaintext left

TypeOK ==
  /\ mail \in [Mails -> MailObjects]
  /\ item \in [Mails -> Contents]
  /\ store \in [Mails -> Contents]
  /\ thr \in [Parsers -> ParseThreads]
  /\ result \in [Parsers -> {"none", "ok", "error"}]
  /\ lock \in Parsers \cup {Nobody}
  /\ ui \in Parsers \cup {"idle"}
  /\ posted \subseteq Messages
  /\ last \in BOOLEAN
  /\ down \in BOOLEAN
  /\ ghost \in Ghosts

NewMail(print) ==
  [ alive |-> TRUE, crypto |-> FALSE, processed |-> FALSE, wipe |-> FALSE,
    save |-> FALSE, pass |-> FALSE, again |-> FALSE, sendAgain |-> FALSE,
    print |-> print, added |-> FALSE, failed |-> FALSE, parser |-> NoParser ]
NoMail   == [NewMail(FALSE) EXCEPT !.alive = FALSE]
Received == [body |-> "clean", atts |-> FALSE, open |-> FALSE]

Idle       == ui = "idle"
Running(m) == {p \in Parsers : thr[p].m = m /\ thr[p].pc \notin {"new", "end"}}
Settled(m) == "late" \in Env \/ Running(m) = {}
Reverting(m) == "between" \notin Env /\ <<"revert", m>> \in posted
Unused     == {p \in Parsers : thr[p].pc = "new"}

Init ==
  /\ mail = [m \in Mails |-> NoMail]
  /\ item = [m \in Mails |-> Received]
  /\ store = [m \in Mails |-> Received]
  /\ thr = [p \in Parsers |-> [pc |-> "new", m |-> Nobody, uses |-> NoParser]]
  /\ result = [p \in Parsers |-> "none"]
  /\ lock = Nobody
  /\ ui = "idle"
  /\ posted = {}
  /\ last = FALSE
  /\ down = FALSE
  /\ ghost = [allowed |-> {}, kept |-> {}, told |-> FALSE]
-----------------------------------------------------------------------------
(* Removing plaintext: each operator gives the set of possible outcomes.   *)

\* wipe_o(): only the body, and only if the mail needs it
Wipe(mm, c) ==
  IF mm.wipe
  THEN {[mail |-> [mm EXCEPT !.wipe = FALSE],
         item |-> [c EXCEPT !.body = "empty"], ok |-> TRUE]}
         \cup (IF "wipeerr" \in Env
               THEN {[mail |-> mm, item |-> c, ok |-> FALSE]} ELSE {})
  ELSE {[mail |-> mm, item |-> c, ok |-> TRUE]}

\* What gpgol_mailitem_revert leaves when it returns -1. The class of an
\* S/MIME mail was restored when it was decrypted, and is "not our class".
RevertErrors(m, c) ==
  LET wiped == [c EXCEPT !.body = "empty"]
  IN IF m \in Smime THEN {c}
     ELSE (IF "reverterr" \in Env THEN {c, wiped} ELSE {})
            \cup (IF "finalize" \in Env
                  THEN {[wiped EXCEPT !.atts = FALSE]} ELSE {})

Reverted(m, mm, c) ==
  {[mail |-> [mm EXCEPT !.processed = FALSE, !.wipe = FALSE],
    item |-> [c EXCEPT !.body = "clean", !.atts = FALSE], ok |-> TRUE]}

\* revert_o
Revert(m, mm, c) ==
  IF ~mm.processed THEN {[mail |-> mm, item |-> c, ok |-> TRUE]}
  ELSE (IF m \in Smime THEN {} ELSE Reverted(m, mm, c))
         \cup UNION {Wipe(mm, d) : d \in RevertErrors(m, c)}

\* The Write event: ok says whether Outlook may write, post whether a
\* REVERT_MAIL was posted.
Write(m, mm, c) ==
  IF mm.pass
  THEN {[mail |-> [mm EXCEPT !.pass = FALSE], item |-> c,
         ok |-> TRUE, post |-> FALSE]}
  ELSE IF mm.crypto /\ ~mm.save
  THEN {[mail |-> mm, item |-> c, ok |-> last, post |-> last]}
  ELSE {[mail |-> IF r.ok THEN [r.mail EXCEPT !.save = FALSE] ELSE r.mail,
         item |-> r.item, ok |-> r.ok, post |-> FALSE] :
          r \in IF mm.crypto THEN Revert(m, mm, c)
                ELSE {[mail |-> mm, item |-> c, ok |-> TRUE]}}

Visible(m, c) == \/ c.atts
                 \/ c.body \in {"wait", "preview", "plain", "error"}
                 \/ c.body = "clean" /\ m \in Inline

\* close(): with discard, or not at all; a window elsewhere keeps the item
ClosePasses(m, mm, c) ==
  {[mail |-> [mm EXCEPT !.pass = TRUE], item |-> d, ok |-> TRUE] :
     d \in {store[m]} \cup (IF "window" \in Env THEN {c} ELSE {})}
Close(m, mm, c) ==
  {[mail |-> [mm EXCEPT !.pass = @ \/ ~Visible(m, d)], item |-> d, ok |-> TRUE] :
     d \in {store[m]} \cup (IF "window" \in Env THEN {c} ELSE {})}
    \cup (IF "closeerr" \in Env THEN {[mail |-> mm, item |-> c, ok |-> FALSE]}
          ELSE {})

\* One turn of closeAllMails_o; a mail without an inspector is reverted too
CloseOneUnreverted(m) ==
  IF mail[m].alive /\ mail[m].crypto
  THEN {[c EXCEPT !.ok = TRUE] : c \in Close(m, mail[m], item[m])}
  ELSE {[mail |-> mail[m], item |-> item[m], ok |-> TRUE]}
CloseOne(m) ==
  IF ~(mail[m].alive /\ mail[m].crypto)
  THEN {[mail |-> mail[m], item |-> item[m], ok |-> TRUE]}
  ELSE LET tries == Close(m, mail[m], item[m])
       IN {c \in tries : c.ok}
            \cup UNION {Revert(m, c.mail, c.item) : c \in tries}
-----------------------------------------------------------------------------
(* Showing a parser's result                                               *)

\* updateBody_o, with what m_parser has found
Shown(c, found, preview) ==
  [c EXCEPT !.body = CASE found = "error" -> "error"
                       [] found = "none"  -> "void"
                       [] found = "ok"    -> IF preview THEN "preview"
                                                        ELSE "plain"]

\* parsingDone_o: the mail and its item afterwards
ParsedMailUnmarked(mm, found) ==
  [mm EXCEPT !.added = TRUE, !.failed = found = "error",
             !.crypto = @ /\ ~mm.sendAgain]
ParsedMail(mm, found) ==
  [mm EXCEPT !.wipe = ~mm.sendAgain, !.added = TRUE,
             !.failed = found = "error", !.crypto = @ /\ ~mm.sendAgain]
ParsedItem(m, c, found, preview) ==
  [Shown(c, found, preview) EXCEPT
     !.atts = IF mail[m].added THEN @
              ELSE \/ @ /\ ~mail[m].print
                   \/ found = "ok" /\ m \in Attach]
ShowParsed(m, found, preview) ==
  /\ mail' = [mail EXCEPT ![m] = ParsedMail(@, found)]
  /\ item' = [item EXCEPT ![m] = ParsedItem(m, @, found, preview)]

\* ... of a mail that may be gone, or have no parser
ShowIfThere(m, preview) ==
  IF mail[m].alive /\ mail[m].parser # NoParser
  THEN ShowParsed(m, result[mail[m].parser], preview)
  ELSE UNCHANGED <<mail, item>>

\* The parse of decryptVerify_o, by a thread if one can be had
StartParse(m, mm, p) ==
  /\ mail' = [mail EXCEPT ![m] = [mm EXCEPT !.parser = p]]
  /\ item' = [item EXCEPT ![m].body = "wait"]
  /\ LET sync == "sync_dec" \in Options \/ mm.print
     IN \/ /\ thr' = [thr EXCEPT ![p] =
                        [pc   |-> IF sync THEN "sync" ELSE "start",
                         m    |-> m, uses |-> IF sync THEN p ELSE NoParser]]
           /\ ui' = IF sync THEN p ELSE ui
        \/ /\ "nothread" \in Env /\ ~sync
           /\ thr' = [thr EXCEPT ![p] = [pc |-> "end", m |-> m, uses |-> NoParser]]
           /\ UNCHANGED ui

\* What decryptVerify_o sets once it has the ciphertext
Begun(mm) == [mm EXCEPT !.again = FALSE, !.processed = TRUE, !.pass = FALSE]

\* decryptVerify_o of a mail whose object is mm. An S/MIME mail is saved
\* first, with its class restored. A confirmation keeps its placeholder,
\* which is its text.
DecryptVerify(m, mm) ==
  IF ~mm.crypto
  THEN /\ mail' = [mail EXCEPT ![m] = mm]
       /\ UNCHANGED <<item, store, thr, ui>>
  ELSE
    /\ store' = IF m \in Smime THEN [store EXCEPT ![m] = item[m]] ELSE store
    /\ \/ /\ "nostream" \in Env /\ mm.parser = NoParser
          /\ \E junk \in BOOLEAN :
               mail' = [mail EXCEPT ![m] =
                          [mm EXCEPT !.again = FALSE, !.crypto = junk,
                                     !.pass = @ /\ m \notin Smime]]
          /\ UNCHANGED <<item, thr, ui>>
       \/ /\ "nobody" \in Env
          /\ mail' = [mail EXCEPT ![m] = Begun(mm)]
          /\ UNCHANGED <<item, thr, ui>>
       \/ /\ m \in Confirmations
          /\ mail' = [mail EXCEPT ![m] = Begun(mm)]
          /\ item' = [item EXCEPT ![m].body = "wait"]
          /\ UNCHANGED <<thr, ui>>
       \/ m \notin Confirmations /\ \E p \in Unused : StartParse(m, Begun(mm), p)
-----------------------------------------------------------------------------
(* Events of Outlook. The UI thread runs one handler at a time.            *)

Named(m) == \/ Running(m) # {}
            \/ \E k \in {"revert", "decrypt"} : <<k, m>> \in posted

\* ItemLoad: a Mail object for an item with an id
Load(m) ==
  /\ Idle /\ ~down /\ ~mail[m].alive
  /\ "reuse" \in Env \/ ~Named(m)
  /\ \E print \in IF "print" \in Env THEN BOOLEAN ELSE {FALSE} :
       mail' = [mail EXCEPT ![m] = NewMail(print)]
  /\ last' = FALSE
  /\ UNCHANGED <<item, store, thr, result, lock, ui, posted, down, ghost>>

\* ItemLoad of a new, empty item: the one a mail may be forwarded into
LoadNew ==
  /\ "forward" \in Env
  /\ Idle /\ ~down
  /\ last' = TRUE
  /\ UNCHANGED <<mail, item, store, thr, result, lock, ui, posted, down, ghost>>

ClearLast ==
  /\ Idle /\ last
  /\ last' = FALSE
  /\ UNCHANGED <<mail, item, store, thr, result, lock, ui, posted, down, ghost>>

\* BeforeRead and Read: Outlook shows what the store holds
Read(m) ==
  /\ Idle /\ mail[m].alive
  /\ Settled(m) /\ ~Reverting(m)
  /\ item[m] = store[m]
  /\ ~down \/ "shutread" \in Env
  /\ DecryptVerify(m, [mail[m] EXCEPT
                         !.crypto = IF down THEN @ ELSE ~item[m].open,
                         !.save   = @ \/ /\ "no_smime" \in Options
                                         /\ m \in Smime])
  /\ posted' = IF mail[m].again /\ ~down THEN posted \cup {<<"decrypt", m>>}
               ELSE posted
  /\ UNCHANGED <<result, lock, last, down, ghost>>

\* Outlook writes the item
WriteMail(m) ==
  /\ Idle /\ mail[m].alive
  /\ last /\ mail[m].crypto => /\ Settled(m)
                               /\ "second" \in Env \/ mail[m].processed
  /\ \E r \in Write(m, mail[m], item[m]) :
       /\ mail' = [mail EXCEPT ![m] = r.mail]
       /\ item' = [item EXCEPT ![m] = r.item]
       /\ store' = IF r.ok THEN [store EXCEPT ![m] = r.item] ELSE store
       /\ posted' = IF r.post THEN posted \cup {<<"revert", m>>} ELSE posted
  /\ UNCHANGED <<thr, result, lock, ui, last, down, ghost>>

\* The Close event, and BeforeItemMove: we close with discard ourselves
CloseMail(m) ==
  /\ Idle /\ mail[m].alive /\ mail[m].crypto
  /\ Settled(m) /\ ~Reverting(m)
  /\ \E r \in Close(m, mail[m], item[m]) :
       /\ mail' = [mail EXCEPT ![m] = r.mail]
       /\ item' = [item EXCEPT ![m] = r.item]
  /\ UNCHANGED <<store, thr, result, lock, ui, posted, last, down, ghost>>

\* The Close event of a draft passes; the user discards the changes
CloseDraft(m) ==
  /\ "draft" \in Env
  /\ Idle /\ mail[m].alive /\ mail[m].crypto
  /\ Settled(m) /\ ~Reverting(m)
  /\ mail' = [mail EXCEPT ![m].again = TRUE]
  /\ item' = [item EXCEPT ![m] = store[m]]
  /\ UNCHANGED <<store, thr, result, lock, ui, posted, last, down, ghost>>

Unload(m) ==
  /\ Idle /\ mail[m].alive /\ ~Reverting(m)
  /\ mail' = [mail EXCEPT ![m] = NoMail]
  /\ item' = [item EXCEPT ![m] = store[m]]
  /\ UNCHANGED <<store, thr, result, lock, ui, posted, last, down, ghost>>

\* PropertyChange of SendUsingAccount on a mail that is not sent
SendAgain(m) ==
  /\ "sendagain" \in Env
  /\ Idle /\ mail[m].alive /\ mail[m].crypto
  /\ mail' = [mail EXCEPT ![m].sendAgain = TRUE]
  /\ ghost' = [ghost EXCEPT !.allowed = @ \cup {m}]
  /\ UNCHANGED <<item, store, thr, result, lock, ui, posted, last, down>>

\* decryptPermanently_o, from the ribbon
MayKeepErrors(m) == mail[m].wipe
MayKeep(m) == mail[m].wipe /\ ~mail[m].failed
DecryptPermanently(m) ==
  /\ "permanent" \in Env
  /\ Idle /\ mail[m].alive /\ ~Reverting(m)
  /\ "early" \in Env \/ /\ item[m].body \in {"plain", "error"}
                        /\ item[m] # store[m]
  /\ MayKeep(m)
  /\ \E r \in Write(m, [mail[m] EXCEPT !.wipe = FALSE, !.processed = FALSE,
                                       !.crypto = FALSE],
                    [item[m] EXCEPT !.open = TRUE]) :
       /\ mail' = [mail EXCEPT ![m] = r.mail]
       /\ item' = [item EXCEPT ![m] = r.item]
       /\ store' = [store EXCEPT ![m] = r.item]
  /\ ghost' = [ghost EXCEPT !.allowed = @ \cup {m}, !.kept = @ \cup {m}]
  /\ UNCHANGED <<thr, result, lock, ui, posted, last, down>>

\* closeAllMails_o, at the shutdown
Shutdown ==
  /\ "shutdown" \in Env
  /\ Idle /\ ~down
  /\ \A m \in Mails : mail[m].alive => Settled(m) /\ ~Reverting(m)
  /\ down' = TRUE
  /\ \E r \in [Mails -> UNION {CloseOne(m) : m \in Mails}] :
       /\ \A m \in Mails : r[m] \in CloseOne(m)
       /\ mail' = [m \in Mails |-> r[m].mail]
       /\ item' = [m \in Mails |-> r[m].item]
       /\ ghost' = [ghost EXCEPT !.told = \E m \in Mails : ~r[m].ok]
  /\ UNCHANGED <<store, thr, result, lock, ui, posted, last>>
-----------------------------------------------------------------------------
(* Asynchronous window messages                                            *)

\* REVERT_MAIL: save, which reverts, and show the plaintext again
RevertMail(m) ==
  /\ Idle /\ <<"revert", m>> \in posted
  /\ Settled(m)
  /\ posted' = posted \ {<<"revert", m>>}
  /\ IF mail[m].alive
     THEN \E r \in Write(m, [mail[m] EXCEPT !.save = TRUE], item[m]) :
            /\ mail' = [mail EXCEPT ![m] = r.mail]
            /\ store' = IF r.ok THEN [store EXCEPT ![m] = r.item] ELSE store
            /\ item' = [item EXCEPT ![m] =
                           IF r.mail.parser = NoParser THEN r.item
                           ELSE Shown(r.item, result[r.mail.parser], FALSE)]
     ELSE UNCHANGED <<mail, item, store>>
  /\ UNCHANGED <<thr, result, lock, ui, last, down, ghost>>

\* DECRYPT
DecryptAgain(m) ==
  /\ Idle /\ <<"decrypt", m>> \in posted
  /\ Settled(m) /\ ~Reverting(m)
  /\ posted' = posted \ {<<"decrypt", m>>}
  /\ IF mail[m].alive
     THEN DecryptVerify(m, [mail[m] EXCEPT !.crypto = ~item[m].open])
     ELSE UNCHANGED <<mail, item, store, thr, ui>>
  /\ UNCHANGED <<result, lock, last, down, ghost>>
-----------------------------------------------------------------------------
(* do_parsing                                                              *)

Goto(p, pc) == thr' = [thr EXCEPT ![p].pc = pc]

\* Under dtor_lock: take the parser of the mail, if the mail is still there
ThreadStart(p) ==
  /\ thr[p].pc = "start"
  /\ thr' = [thr EXCEPT ![p] =
               IF mail[thr[p].m].alive
               THEN [@ EXCEPT !.pc = "wait", !.uses = mail[thr[p].m].parser]
               ELSE [@ EXCEPT !.pc = "end"]]
  /\ UNCHANGED <<mail, item, store, result, lock, ui, posted, last, down, ghost>>

\* parser_lock; given back at once if the mail or the parser is gone
MayParse(p) == mail[thr[p].m].alive /\ thr[p].uses # NoParser
ThreadLockKept(p) ==
  /\ thr[p].pc = "wait" /\ lock = Nobody
  /\ Goto(p, IF MayParse(p) THEN "parse" ELSE "end") /\ lock' = p
  /\ UNCHANGED <<mail, item, store, result, ui, posted, last, down, ghost>>
ThreadLock(p) ==
  /\ thr[p].pc = "wait" /\ lock = Nobody
  /\ IF MayParse(p) THEN Goto(p, "parse") /\ lock' = p
     ELSE Goto(p, "end") /\ UNCHANGED lock
  /\ UNCHANGED <<mail, item, store, result, ui, posted, last, down, ghost>>

\* parse(): one pass, or an offline one that is shown first
ThreadParseLater(p) ==
  /\ thr[p].pc = "parse"
  /\ Goto(p, "preview") \/ Goto(p, "done")
  /\ UNCHANGED <<mail, item, store, result, lock, ui, posted, last, down, ghost>>
ThreadParse(p) ==
  /\ thr[p].pc = "parse"
  /\ \E r \in {"ok", "error"} : result' = [result EXCEPT ![thr[p].uses] = r]
  /\ Goto(p, "preview") \/ Goto(p, "done")
  /\ UNCHANGED <<mail, item, store, lock, ui, posted, last, down, ghost>>

\* SHOW_PREVIEW, sent by the thread, which then looks for the mail again
ShowPreview(p) ==
  /\ Idle /\ thr[p].pc = "preview"
  /\ ShowIfThere(thr[p].m, TRUE)
  /\ Goto(p, "second")
  /\ UNCHANGED <<store, result, lock, ui, posted, last, down, ghost>>

ThreadSecondLocked(p) ==
  /\ thr[p].pc = "second"
  /\ Goto(p, IF mail[thr[p].m].alive THEN "done" ELSE "end")
  /\ UNCHANGED <<mail, item, store, result, lock, ui, posted, last, down, ghost>>
ThreadSecond(p) ==
  /\ thr[p].pc = "second"
  /\ Goto(p, IF mail[thr[p].m].alive THEN "done" ELSE "leave")
  /\ UNCHANGED <<mail, item, store, result, lock, ui, posted, last, down, ghost>>

\* PARSING_DONE, sent by the thread, which waits for it
ParsingDone(p) ==
  /\ Idle /\ thr[p].pc = "done"
  /\ ShowIfThere(thr[p].m, FALSE)
  /\ Goto(p, "leave")
  /\ UNCHANGED <<store, result, lock, ui, posted, last, down, ghost>>

ThreadLeave(p) ==
  /\ thr[p].pc = "leave"
  /\ Goto(p, "end")
  /\ lock' = Nobody
  /\ UNCHANGED <<mail, item, store, result, ui, posted, last, down, ghost>>

\* do_parsing and parsingDone_o in the UI thread, which keeps Outlook waiting
SyncParse(p) ==
  /\ ui = p /\ lock = Nobody
  /\ \E r \in {"ok", "error"} : /\ result' = [result EXCEPT ![p] = r]
                               /\ ShowParsed(thr[p].m, r, FALSE)
  /\ Goto(p, "end")
  /\ ui' = "idle"
  /\ UNCHANGED <<store, lock, posted, last, down, ghost>>
-----------------------------------------------------------------------------
Messaging  == ClearLast \/ \E m \in Mails : RevertMail(m) \/ DecryptAgain(m)
Outlook(m) == \/ Load(m) \/ Read(m) \/ WriteMail(m) \/ CloseMail(m)
              \/ CloseDraft(m) \/ Unload(m) \/ SendAgain(m)
              \/ DecryptPermanently(m)
Parse(p)   == \/ ThreadStart(p) \/ ThreadLock(p) \/ ThreadParse(p)
              \/ ShowPreview(p) \/ ThreadSecond(p) \/ ParsingDone(p)
              \/ ThreadLeave(p) \/ SyncParse(p)

Next == \/ LoadNew \/ Shutdown \/ Messaging
        \/ \E m \in Mails : Outlook(m)
        \/ \E p \in Parsers : Parse(p)

Spec == Init /\ [][Next]_vars

\* Threads are scheduled and the UI thread empties its message queue. What
\* the user and Outlook do is not fair.
FairSpec == Spec /\ \A p \in Parsers : WF_vars(Parse(p))
-----------------------------------------------------------------------------
(* Properties                                                              *)

Plain(c) == c.body \in {"preview", "plain"} \/ c.atts

\* Plaintext is in the store only for mails the user wants there, or until
\* the REVERT_MAIL that Write posted is handled.
NoPlaintextStored ==
  \A m \in Mails : Plain(store[m]) => \/ m \in ghost.allowed
                                      \/ <<"revert", m>> \in posted

\* Whatever shows plaintext of a crypto mail can still be reverted: the
\* flags revert_o and wipe_o look at say so.
CleaningKnows ==
  \A m \in Mails : mail[m].alive /\ mail[m].crypto /\ Plain(item[m])
                   => mail[m].processed /\ mail[m].wipe

\* A mail never shows the text of a parser that has not parsed it.
ShowsFinishedParse == \A m \in Mails : item[m].body # "void"

\* A decrypted mail shows its attachments beside its text. m_attachs_added
\* keeps them from being added twice, and is never reset.
AttachmentsShown ==
  \A m \in Attach : mail[m].alive /\ item[m].body = "plain" => item[m].atts

\* Decrypting permanently replaces the ciphertext by the decrypted text, by
\* nothing else.
PermanentKeepsText == \A m \in ghost.kept : store[m].body = "plain"

\* After the shutdown no crypto mail shows plaintext Outlook may save,
\* unless the user was told.
ShutdownTells ==
  down /\ ~ghost.told => \A m \in Mails : mail[m].alive /\ mail[m].crypto
                                            => ~Plain(item[m])

\* While a parse of a mail is under way, its placeholder or preview does not
\* stay: the final text replaces it, or the mail is closed. Without a parse
\* (no thread could be created, or a confirmation) the placeholder stays.
MailIsShown ==
  \A m \in Mails : Running(m) # {} /\ item[m].body \in {"wait", "preview"}
                   ~> item[m].body \notin {"wait", "preview"}

\* parser_lock is always given back.
ParserLockFreed == \A p \in Parsers : lock = p ~> lock # p
=============================================================================
