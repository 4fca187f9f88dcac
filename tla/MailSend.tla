------------------------------ MODULE MailSend ------------------------------
(***************************************************************************)
(* The outgoing crypto state machine of one composed mail: mail.cpp        *)
(* (prepareCrypto_o, encryptSignStart_o, do_crypt, updateCryptMAPI_m,      *)
(* updateCryptOOM_o), the event sink of mailitem-events.cpp                *)
(* (BeforeAutoSave, Write, AfterWrite, Send, Unload), the CRYPTO_DONE,     *)
(* CLOSE and SEND_MULTIPLE_MAILS messages of windowmessages.cpp and the    *)
(* part of cryptcontroller.cpp that decides what a crypter produces.       *)
(*                                                                         *)
(* Outlook's user interface thread runs one handler at a time (ui says     *)
(* where it is); crypto threads (thr) run between any two of its steps.    *)
(* The mail is composed here: it is not a crypto mail that was read, so    *)
(* isCryptoMail, needsSave, passWrite and is_forwarded_crypto_mail are     *)
(* false throughout.                                                       *)
(***************************************************************************)
EXTENDS Naturals, FiniteSets

CONSTANTS
  Threads,    \* identities of crypto threads, and of the crypters they run
  Options,    \* opt: a subset of AllOptions
  SyncModes,  \* what checkSyncCrypto_o can find: a subset of BOOLEAN
  Bodies,     \* what the user can write: a subset of AllBodies
  Env         \* what Outlook and MAPI may do: a subset of AllEnv

AllOptions == {"draft_key", "inline_pgp", "splitBCCMails"}
AllBodies  == {"empty", "text", "begin"}  \* "begin": starts with -----BEGIN
AllEnv     == { "autosave", \* an autosave can come while crypto is running
                "typeahead",\* the user acts before our messages are handled
                "conflict", \* Outlook's own crypto is on, the user declines
                "message",  \* the item's MAPI message cannot be had
                "base",     \* nor its base message; G Suite with attachments
                "body",     \* writing the body in the object model fails
                "mapi",     \* update_mail_mapi fails before the final save
                "mapisave", \* the final save of finalize_message fails
                "class",    \* the message class is not ours after crypto
                "senderr",  \* Outlook fails a Send that we passed
                "abort",    \* Outlook reports a Send that we cancel as error
                "submit" }  \* SubmitMessage fails

ASSUME ThreadsAssumption == Threads # {} /\ IsFiniteSet(Threads)
ASSUME OptionsAssumption == Options \subseteq AllOptions
ASSUME SyncAssumption    == SyncModes \subseteq BOOLEAN /\ SyncModes # {}
ASSUME BodiesAssumption  == Bodies \subseteq AllBodies
ASSUME EnvAssumption     == Env \subseteq AllEnv
ASSUME NamesAssumption   == {"ui", "nil"} \cap Threads = {}

Jobs  == Threads \cup {"ui"}    \* who can run a crypter
NoJob == "nil"

CryptStates == { "NoCryptMail", "NeedsFirstAfterWrite", "NeedsActualCrypt",
                 "NeedsUpdateInOOM", "NeedsSecondAfterWrite",
                 "WantsSendInline", "WantsSendMIME" }

VARIABLES
  mail,    \* the Mail object
  item,    \* Outlook's item and its base message
  alive,   \* the Mail object is in s_mail_map
  thr,     \* the crypto threads
  out,     \* what each crypter's m_output holds
  ui,      \* where the UI thread is, and for whom
  posted,  \* the asynchronous window messages under way
  sent,    \* what left for the recipients
  ghost    \* history the properties speak about; no action reads it

vars == <<mail, item, alive, thr, out, ui, posted, sent, ghost>>

Mails == [ crypt   : CryptStates,         \* m_crypt_state
           draft   : BOOLEAN,             \* m_is_draft_encrypt
           sync    : BOOLEAN,             \* m_async_crypt_disabled
           crypter : Jobs \cup {NoJob},   \* m_crypter
           inline  : BOOLEAN,             \* m_do_inline
           ref     : BOOLEAN,             \* m_currentItemRef is set
           window  : BOOLEAN ]            \* the compose window is enabled

Items == [ body  : AllBodies \cup {"armor"},         \* as the user sees it
           saved : AllBodies \cup {"armor"},         \* in the base message
           mime  : {"none", "void", "draft", "mail"},\* our MOSS attachment
           flags : {"none", "sign", "encrypt"},      \* gpgol draft info
           bcc   : BOOLEAN ]     \* both a BCC and another recipient remain

Steps == { "idle", "write", "afterwrite", "crypt", "saved", "send", "gate",
           "deliver", "returned", "crashed" }

CryptThreads == [ pc  : {"off", "start", "resolve", "crypt", "split", "posted",
                         "served"},
                  c   : Jobs \cup {NoJob},     \* its crypter
                  key : {"draft", "mail"} ]    \* what it encrypts to

UIs == [ at     : Steps,
         saver  : {"none", "auto", "user", "send", "done", "draft"},
         sender : {"none", "user", "done", "split"},
         err    : BOOLEAN ]                    \* the Send failed

Outputs  == {"void", "draft", "mail"}
Contents == {"no", "open", "inline", "mime", "draft", "void", "raw"}

Ghosts == [ wanted : {"none", "sign", "encrypt"}, \* the user's choice
            asked  : BOOLEAN,     \* the user pressed Send
            wrote  : AllBodies,   \* the user's text
            stale  : BOOLEAN,     \* edited after crypto began
            multi  : BOOLEAN,     \* "Current item multi ref. Bug?" logged
            twice  : BOOLEAN ]    \* a second copy left

TypeOK ==
  /\ mail \in Mails
  /\ item \in Items
  /\ alive \in BOOLEAN
  /\ thr \in [Threads -> CryptThreads]
  /\ out \in [Jobs -> Outputs]
  /\ ui \in UIs
  /\ posted \subseteq {"close", "split"}
  /\ sent \in Contents
  /\ ghost \in Ghosts

Idle    == [at |-> "idle", saver |-> "none", sender |-> "none", err |-> FALSE]
AtIdle  == ui.at = "idle" /\ alive
Off     == [pc |-> "off", c |-> NoJob, key |-> "mail"]
Working == {t \in Threads : thr[t].pc \in {"start", "resolve", "crypt", "split"}}
Active  == {t \in Threads : thr[t].pc # "off"}

\* Identities for the next crypter and its thread. Autosaves and Sends wait
\* for one: this bounds the crypto operations under way, not the program.
Free    == {t \in Threads : /\ thr[t].pc = "off" /\ mail.crypter # t
                            /\ \A u \in Threads : thr[u].c # t}

Init ==
  /\ mail = [ crypt |-> "NoCryptMail", draft |-> FALSE, sync |-> FALSE,
              crypter |-> NoJob, inline |-> FALSE, ref |-> FALSE,
              window |-> TRUE ]
  /\ \E bcc \in IF "splitBCCMails" \in Options THEN BOOLEAN ELSE {FALSE} :
       item = [ body |-> "empty", saved |-> "empty", mime |-> "none",
                flags |-> "none", bcc |-> bcc ]
  /\ alive = TRUE
  /\ thr = [t \in Threads |-> Off]
  /\ out = [j \in Jobs |-> "void"]
  /\ ui = Idle
  /\ posted = {}
  /\ sent = "no"
  /\ ghost = [ wanted |-> "none", asked |-> FALSE, wrote |-> "empty",
               stale |-> FALSE, multi |-> FALSE, twice |-> FALSE ]
-----------------------------------------------------------------------------
(***************************************************************************)
(* Pieces of the handlers: functions from a Mail and an Item to the set of *)
(* results they can have.                                                  *)
(***************************************************************************)
Result(m, i) == [mail |-> m, item |-> i]
OneIf(cond, r) == IF cond THEN {r} ELSE {}

\* releaseCurrentItem, for a mail in asynchronous mode.
Released(m) == [m EXCEPT !.ref = IF m.sync THEN @ ELSE FALSE]

\* prepareCrypto_o when it succeeds. It chooses the mode (checkSyncCrypto_o).
PreparedUnpinned(m) ==
  {[m EXCEPT !.crypt = "NeedsFirstAfterWrite", !.sync = sync] : sync \in SyncModes}
Prepared(m) ==
  {[m EXCEPT !.crypt = "NeedsFirstAfterWrite", !.sync = sync,
             !.ref = IF sync THEN @ ELSE TRUE] : sync \in SyncModes}

\* prepareCrypto_o from a handler that ignores whether it failed.
PreparedOrNot(m) == Prepared(m) \cup OneIf("conflict" \in Env, m)

\* updateCryptMAPI_m: put what the crypter made into the base message.
\* Unless it is a draft, finalize_message drops the draft info flags.
UpdateCryptMAPIDrops(m, i, made) ==
  {Result([m EXCEPT !.crypt = "WantsSendMIME", !.crypter = NoJob],
          [i EXCEPT !.mime = made])}
UpdateCryptMAPIUnmarked(m, i, made) ==
  {Result([m EXCEPT !.crypter = NoJob], [i EXCEPT !.mime = made])}
UpdateCryptMAPI(m, i, made) ==
  LET done    == [m EXCEPT !.crypt = "WantsSendMIME",
                           !.crypter = IF m.sync THEN @ ELSE NoJob]
      failed  == [done EXCEPT !.crypt = "NoCryptMail"]
      written == [i EXCEPT !.mime = made, !.flags = IF m.draft THEN @ ELSE "none"]
  IN IF m.crypter = NoJob
     THEN {Result([m EXCEPT !.crypt = "NoCryptMail"], i)}
     ELSE {Result(done, IF m.inline THEN i ELSE written)}
          \cup OneIf("mapi" \in Env, Result(failed, i))
          \cup OneIf("mapisave" \in Env /\ ~m.inline, Result(failed, written))

\* wipe_o (true), but a draft keeps its text.
Wiped(m, i) == IF m.draft THEN i ELSE [i EXCEPT !.body = "empty"]

\* updateCryptOOM_o: show the inline result, or wipe the body.
UpdateCryptOOM(m, i, made) ==
  LET shown == IF m.inline /\ made # "void" THEN [i EXCEPT !.body = "armor"] ELSE i
      next  == [m EXCEPT !.crypter = IF m.sync THEN NoJob ELSE @]
      stop  == [next EXCEPT !.crypt = "NoCryptMail"]
  IN IF m.crypt # "NeedsUpdateInOOM"
     THEN {Result([m EXCEPT !.crypter = NoJob], i)}
     ELSE IF m.crypter = NoJob
     THEN {Result([m EXCEPT !.crypt = "NoCryptMail"], i)}
     ELSE OneIf(m.inline /\ "body" \in Env,
                Result([m EXCEPT !.crypt = "NoCryptMail"], i))
          \cup
          (IF shown.body \in {"begin", "armor"}
           THEN {Result([next EXCEPT !.crypt = "WantsSendInline"], shown)}
           ELSE {Result([next EXCEPT !.crypt = "NeedsSecondAfterWrite"],
                        Wiped(m, shown))}
                \cup OneIf(~m.draft /\ "body" \in Env, Result(stop, shown)))

\* updateCryptOOM_o dereferences m_crypter, unless it stopped before.
OOMCrashes(m) == m.crypt = "NeedsUpdateInOOM" /\ m.crypter = NoJob /\ ~m.inline

\* m_output of the mail's crypter.
OutputLost(o, m) == "void"
Output(o, m) == IF m.crypter = NoJob THEN "void" ELSE o[m.crypter]

\* do_crypt after do_crypto returned 0, in synchronous mode.
SyncDoneEarly(m, i, made) == {Result([m EXCEPT !.crypt = "NeedsUpdateInMAPI"], i)}
SyncDone(m, i, made) ==
  {IF m.draft
   THEN Result([r.mail EXCEPT !.draft = FALSE, !.crypt = "NoCryptMail"], r.item)
   ELSE IF r.mail.crypt = "WantsSendMIME"
   THEN Result([r.mail EXCEPT !.crypt = "NeedsUpdateInOOM"], r.item)
   ELSE Result([r.mail EXCEPT !.crypter = NoJob], r.item) :
   r \in UpdateCryptMAPI(m, i, made)}

\* do_crypt after do_crypto failed, was cancelled, or asked for a split.
CryptFailedLocked(m) == [m EXCEPT !.crypt = "NoCryptMail", !.draft = FALSE,
                                  !.crypter = NoJob]
CryptFailedStuck(m) == [m EXCEPT !.draft = FALSE, !.crypter = NoJob,
                                 !.window = TRUE]
CryptFailed(m) == [m EXCEPT !.crypt = "NoCryptMail", !.draft = FALSE,
                            !.crypter = NoJob, !.window = TRUE]

\* What do_crypto makes: resolve_keys takes the draft key for a draft.
Made(m) == IF m.draft /\ "draft_key" \in Options THEN "draft" ELSE "mail"

\* do_crypto leaves with -3 when the mail has to be split.
MustSplit == "splitBCCMails" \in Options /\ item.bcc

\* What the recipients get when a Send passes in a crypt state, or when the
\* base message is submitted. Outlook sends our MIME structure if it is there.
ContentWith(body) ==
  IF item.mime = "mail" THEN "mime"
  ELSE IF body = "armor" THEN "inline"
  ELSE IF item.mime # "none" THEN item.mime
  ELSE IF body = "empty" THEN "void"
  ELSE "raw"

SubmittedContent == ContentWith(item.saved)
PassedContent ==
  IF mail.crypt = "NoCryptMail" THEN "open" ELSE ContentWith(item.body)

\* Crypto is prepared (again): what is there now is what will be sent.
GhostPrepared(g) ==
  IF mail'.crypt # "NeedsFirstAfterWrite" \/ mail.crypt = "NeedsFirstAfterWrite"
  THEN g
  ELSE [g EXCEPT !.stale = FALSE, !.multi = @ \/ (mail.ref /\ ~mail'.sync)]

GhostLeft == [ghost EXCEPT !.twice = @ \/ sent # "no"]

\* needs_crypto_m: the draft info of the MAPI message, or 0 if it has none.
FlagsRead == {item.flags} \cup OneIf("message" \in Env, "none")

NeedsCryptoEncryptOnly(flags) == flags = "encrypt"
NeedsCrypto(flags) == flags # "none"
-----------------------------------------------------------------------------
(***************************************************************************)
(* The user and Outlook.                                                   *)
(***************************************************************************)
CanCompose ==
  /\ AtIdle /\ mail.window /\ sent = "no"
  /\ \/ "typeahead" \in Env
     \/ posted = {} /\ \A t \in Threads : thr[t].pc # "posted"

Edit(b) ==
  /\ CanCompose
  /\ item' = [item EXCEPT !.body = b]
  /\ ghost' = [ghost EXCEPT !.wrote = b, !.stale = mail.crypt # "NoCryptMail"]
  /\ UNCHANGED <<mail, alive, thr, out, ui, posted, sent>>

\* mark_mime_action in ribbon-callbacks.cpp: the secure toggle buttons.
Toggle(f) ==
  /\ CanCompose
  /\ item' = [item EXCEPT !.flags = f]
  /\ ghost' = [ghost EXCEPT !.wanted = f]
  /\ UNCHANGED <<mail, alive, thr, out, ui, posted, sent>>

BeforeAutoSave ==
  /\ AtIdle /\ sent = "no" /\ Free # {}
  /\ "autosave" \in Env \/ (Active = {} /\ posted = {})
  /\ \E flags \in FlagsRead :
       IF "draft_key" \in Options /\ flags = "encrypt" /\ ~mail.draft
       THEN mail' \in PreparedOrNot([mail EXCEPT !.draft = TRUE])
       ELSE UNCHANGED mail
  /\ ui' = [Idle EXCEPT !.at = "write", !.saver = "auto"]
  /\ ghost' = GhostPrepared(ghost)
  /\ UNCHANGED <<item, alive, thr, out, posted, sent>>

UserSave ==
  /\ CanCompose
  /\ ui' = [Idle EXCEPT !.at = "write", !.saver = "user"]
  /\ UNCHANGED <<mail, item, alive, thr, out, posted, sent, ghost>>

UserSend ==
  /\ CanCompose /\ Free # {}
  /\ ui' = [Idle EXCEPT !.at = "send", !.sender = "user"]
  /\ ghost' = [ghost EXCEPT !.asked = TRUE]
  /\ UNCHANGED <<mail, item, alive, thr, out, posted, sent>>

\* The mail is closed, or was sent: Outlook unloads it. A reference to the
\* current item prevents that.
Unload ==
  /\ AtIdle /\ ~mail.ref
  /\ alive' = FALSE
  /\ UNCHANGED <<mail, item, thr, out, ui, posted, sent, ghost>>
-----------------------------------------------------------------------------
(***************************************************************************)
(* A save: the Write event, Outlook's write, the AfterWrite event.         *)
(***************************************************************************)
WriteBlocked ==
  /\ mail.draft
  /\ mail.crypt \notin {"NeedsFirstAfterWrite", "NeedsSecondAfterWrite"}

WriteStartsDraft(flags) ==
  /\ "draft_key" \in Options /\ flags = "encrypt"
  /\ ~mail.draft /\ mail.crypt = "NoCryptMail"

Write ==
  /\ ui.at = "write"
  /\ IF WriteBlocked
     THEN /\ ui' = [ui EXCEPT !.at = "saved"]
          /\ UNCHANGED <<mail, item>>
     ELSE /\ ui' = [ui EXCEPT !.at = "afterwrite"]
          /\ item' = [item EXCEPT !.saved = item.body]
          /\ \E flags \in FlagsRead :
               IF WriteStartsDraft(flags)
               THEN mail' \in PreparedOrNot([mail EXCEPT !.draft = TRUE])
               ELSE UNCHANGED mail
  /\ ghost' = GhostPrepared(ghost)
  /\ UNCHANGED <<alive, thr, out, posted, sent>>

\* encryptSignStart_o finds nothing to do and reports success.
StartsNothing ==
  /\ mail' = [mail EXCEPT !.crypt = "NeedsActualCrypt"]
  /\ ui' = [ui EXCEPT !.at = "saved"]
  /\ UNCHANGED <<thr, out>>

\* encryptSignStart_o gets no further than the base message.
StartFails ==
  /\ "base" \in Env
  /\ mail' = [Released(mail) EXCEPT !.crypt = "NoCryptMail"]
  /\ ui' = [ui EXCEPT !.at = "saved"]
  /\ UNCHANGED <<thr, out>>

\* encryptSignStart_o makes a crypter whose collect_data finds nothing.
\* (A mail with attachments is not empty, and always synchronous.)
CollectFails(inline) ==
  /\ item.body = "empty"
  /\ mail' = [Released(mail) EXCEPT !.crypt = "NoCryptMail", !.crypter = "ui",
                                    !.inline = inline, !.window = TRUE]
  /\ out' = [out EXCEPT !["ui"] = "void"]
  /\ ui' = [ui EXCEPT !.at = "saved"]
  /\ UNCHANGED thr

StartsCryptUnlocked(j, inline) ==
  /\ item.body # "empty" \/ mail.sync
  /\ mail' = [mail EXCEPT !.crypt = "NeedsActualCrypt", !.crypter = j,
                          !.inline = inline]
  /\ out' = [out EXCEPT ![j] = "void"]
StartsCrypt(j, inline) ==
  /\ item.body # "empty" \/ mail.sync
  /\ mail' = [mail EXCEPT !.crypt = "NeedsActualCrypt", !.crypter = j,
                          !.inline = inline, !.window = FALSE]
  /\ out' = [out EXCEPT ![j] = "void"]

StartsThread(t, inline) ==
  /\ ~mail.sync
  /\ t \in Free
  /\ StartsCrypt(t, inline)
  /\ thr' = [thr EXCEPT ![t].pc = "start"]
  /\ ui' = [ui EXCEPT !.at = "saved"]

StartsSync(inline) ==
  /\ mail.sync
  /\ StartsCrypt("ui", inline)
  /\ ui' = [ui EXCEPT !.at = "crypt"]
  /\ UNCHANGED thr

\* m_do_inline in encryptSignStart_o; collect_data and do_crypto turn it off
\* again for attachments and for S/MIME.
DoInline == IF mail.draft \/ "inline_pgp" \notin Options THEN {FALSE} ELSE BOOLEAN

AfterWriteFirst ==
  /\ ui.at = "afterwrite" /\ mail.crypt = "NeedsFirstAfterWrite"
  /\ \E flags \in FlagsRead :
       IF ~NeedsCrypto(flags) THEN StartsNothing
       ELSE \/ StartFails
            \/ \E inline \in DoInline :
                 \/ CollectFails(inline)
                 \/ StartsSync(inline)
                 \/ \E t \in Threads : StartsThread(t, inline)
  /\ UNCHANGED <<item, alive, posted, sent, ghost>>

AfterWriteSecond ==
  /\ ui.at = "afterwrite" /\ mail.crypt = "NeedsSecondAfterWrite"
  /\ \E r \in UpdateCryptMAPI(mail, item, Output(out, mail)) :
       mail' = r.mail /\ item' = r.item
  /\ ui' = [ui EXCEPT !.at = "saved"]
  /\ UNCHANGED <<alive, thr, out, posted, sent, ghost>>

AfterWriteNothing ==
  /\ ui.at = "afterwrite"
  /\ mail.crypt \notin {"NeedsFirstAfterWrite", "NeedsSecondAfterWrite"}
  /\ ui' = [ui EXCEPT !.at = "saved"]
  /\ UNCHANGED <<mail, item, alive, thr, out, posted, sent, ghost>>
-----------------------------------------------------------------------------
(***************************************************************************)
(* do_crypt: as a call of the UI thread in synchronous mode, and as a      *)
(* thread. A thread takes dtor_lock at its start and at its end, and in    *)
(* between uses the mail without it.                                       *)
(***************************************************************************)
CryptReady == mail.crypt = "NeedsActualCrypt" /\ mail.crypter # NoJob

SyncCrypt ==
  /\ ui.at = "crypt"
  /\ IF ~CryptReady
     THEN /\ mail' = [mail EXCEPT !.window = TRUE]
          /\ UNCHANGED <<item, out, posted>>
     ELSE \/ /\ mail' = CryptFailed(mail)
             /\ UNCHANGED <<item, out, posted>>
          \/ /\ MustSplit
             /\ mail' = CryptFailed(mail)
             /\ posted' = posted \cup {"split"}
             /\ UNCHANGED <<item, out>>
          \/ /\ ~MustSplit
             /\ \E r \in SyncDone([mail EXCEPT !.window = TRUE], item, Made(mail)) :
                  mail' = r.mail /\ item' = r.item
             /\ out' = [out EXCEPT ![mail.crypter] = Made(mail)]
             /\ UNCHANGED posted
  /\ ui' = [ui EXCEPT !.at = "saved"]
  /\ UNCHANGED <<alive, thr, sent, ghost>>

ThreadStart(t) ==
  /\ thr[t].pc = "start"
  /\ IF alive /\ CryptReady
     THEN /\ thr' = [thr EXCEPT ![t].pc = "resolve", ![t].c = mail.crypter]
          /\ UNCHANGED mail
     ELSE /\ thr' = [thr EXCEPT ![t] = Off]
          /\ mail' = IF alive THEN [mail EXCEPT !.window = TRUE] ELSE mail
  /\ UNCHANGED <<item, alive, out, ui, posted, sent, ghost>>

\* do_crypto up to the crypto operation: resolve_keys, and the split test.
ThreadResolve(t) ==
  /\ thr[t].pc = "resolve"
  /\ IF MustSplit
     THEN /\ thr' = [thr EXCEPT ![t].pc = "split"]
          /\ posted' = posted \cup {"split"}
     ELSE /\ thr' = [thr EXCEPT ![t].pc = "crypt", ![t].key = Made(mail)]
          /\ UNCHANGED posted
  /\ UNCHANGED <<mail, item, alive, out, ui, sent, ghost>>

\* No key, a crypto error, the user cancels, or a split.
ThreadFail(t) ==
  /\ thr[t].pc \in {"resolve", "crypt", "split"}
  /\ thr' = [thr EXCEPT ![t] = Off]
  /\ mail' = IF alive THEN CryptFailed(mail) ELSE mail
  /\ UNCHANGED <<item, alive, out, ui, posted, sent, ghost>>

\* The last two branches of do_crypt; the synchronous one is taken if the
\* mode changed while the thread was running.
ThreadDone(t) ==
  /\ thr[t].pc = "crypt"
  /\ out' = [out EXCEPT ![thr[t].c] = thr[t].key]
  /\ IF alive /\ ~mail.sync
     THEN /\ mail' = [mail EXCEPT !.window = TRUE, !.crypt = "NeedsUpdateInOOM"]
          /\ thr' = [thr EXCEPT ![t].pc = "posted"]
          /\ UNCHANGED item
     ELSE /\ thr' = [thr EXCEPT ![t] = Off]
          /\ IF alive
             THEN \E r \in SyncDone([mail EXCEPT !.window = TRUE], item,
                                    Output(out', mail)) :
                    mail' = r.mail /\ item' = r.item
             ELSE UNCHANGED <<mail, item>>
  /\ UNCHANGED <<alive, ui, posted, sent, ghost>>
-----------------------------------------------------------------------------
(***************************************************************************)
(* The Send event.                                                         *)
(***************************************************************************)
\* The handler cancels the Send. Who invoked it may get an error for that.
Cancel ==
  \E err \in (IF "abort" \in Env THEN BOOLEAN ELSE {FALSE}) :
    ui' = [ui EXCEPT !.at = "returned", !.err = err]

SendPassesOpen ==
  /\ ui.at = "send"
  /\ mail.crypt = "NoCryptMail"
  /\ \E flags \in FlagsRead : ~NeedsCrypto(flags)
  /\ ui' = [ui EXCEPT !.at = "deliver"]
  /\ UNCHANGED <<mail, item, alive, thr, out, posted, sent, ghost>>

\* The handler asks needs_crypto_m twice: if only the second call fails, the
\* Send is cancelled as one whose crypto failed.
SendPrepares ==
  /\ ui.at = "send"
  /\ mail.crypt = "NoCryptMail"
  /\ \E flags \in FlagsRead : NeedsCrypto(flags)
  /\ \/ /\ mail' \in Prepared([mail EXCEPT !.draft = FALSE])
        /\ ui' = [ui EXCEPT !.at = "write", !.saver = "send"]
     \/ {"conflict", "message"} \cap Env # {} /\ Cancel /\ UNCHANGED mail
  /\ ghost' = GhostPrepared(ghost)
  /\ UNCHANGED <<item, alive, thr, out, posted, sent>>

\* The Save that the handler invoked has returned.
SendResumes ==
  /\ ui.at = "saved" /\ ui.saver = "send"
  /\ IF ~mail.sync \/ mail.crypt = "NoCryptMail"
     THEN Cancel /\ UNCHANGED <<mail, item>>
     ELSE IF OOMCrashes(mail)
     THEN ui' = [ui EXCEPT !.at = "crashed"] /\ UNCHANGED <<mail, item>>
     ELSE \E r \in IF mail.crypt = "NeedsUpdateInOOM"
                   THEN UpdateCryptOOM(mail, item, Output(out, mail))
                   ELSE {Result(mail, item)} :
            /\ mail' = IF r.mail.crypt = "NeedsSecondAfterWrite"
                       THEN [r.mail EXCEPT !.crypt = "WantsSendMIME"] ELSE r.mail
            /\ item' = r.item
            /\ IF mail'.inline /\ mail'.crypt # "WantsSendInline"
               THEN Cancel
               ELSE ui' = [ui EXCEPT !.at = "gate"]
  /\ UNCHANGED <<alive, thr, out, posted, sent, ghost>>

AtGate == ui.at = "gate" \/ (ui.at = "send" /\ mail.crypt # "NoCryptMail")

\* Only a mail in one of the two final states gets past this point, an inline
\* one only if its body shows our result.
SendGate ==
  /\ AtGate
  /\ IF mail.crypt = "WantsSendInline" /\ item.body = "text"
     THEN Cancel /\ mail' = [mail EXCEPT !.crypt = "NoCryptMail"]
     ELSE /\ UNCHANGED mail
          /\ IF mail.crypt \in {"WantsSendInline", "WantsSendMIME"}
             THEN ui' = [ui EXCEPT !.at = "deliver"]
             ELSE Cancel
  /\ UNCHANGED <<item, alive, thr, out, posted, sent, ghost>>

SubmitMessage(taken) ==
  IF taken
  THEN sent' = SubmittedContent /\ ghost' = GhostLeft
  ELSE "submit" \in Env /\ UNCHANGED <<sent, ghost>>

\* The base message is submitted past Outlook; whether that works is ignored.
SubmitBase ==
  \/ /\ \E taken \in BOOLEAN : SubmitMessage(taken)
     /\ posted' = posted \cup {"close"}
  \/ "base" \in Env /\ UNCHANGED <<posted, sent, ghost>>

\* The Send is cancelled in either case, and the state stays as it is.
SendWorkaroundT3656 ==
  /\ AtGate
  /\ mail.crypt = "WantsSendMIME" /\ "class" \in Env
  /\ SubmitBase
  /\ Cancel
  /\ UNCHANGED <<mail, item, alive, thr, out>>

\* Outlook goes on with a Send we passed: it writes the item (our Write
\* handler may cancel that) and moves it to the outbox.
Deliver ==
  /\ ui.at = "deliver"
  /\ \/ /\ ~WriteBlocked
        /\ sent' = PassedContent
        /\ item' = [item EXCEPT !.saved = item.body]
        /\ ghost' = GhostLeft
        /\ ui' = [ui EXCEPT !.at = "returned", !.err = FALSE]
     \/ /\ WriteBlocked \/ "senderr" \in Env
        /\ ui' = [ui EXCEPT !.at = "returned", !.err = TRUE]
        /\ UNCHANGED <<item, sent, ghost>>
  /\ UNCHANGED <<mail, alive, thr, out, posted>>
-----------------------------------------------------------------------------
(***************************************************************************)
(* The window messages.                                                    *)
(***************************************************************************)
\* do_in_ui_thread: the thread that sent CRYPTO_DONE waits until it is done.
Served == [t \in Threads |-> IF thr[t].pc = "served" THEN Off ELSE thr[t]]

\* A draft is saved. A mail is sent, but saved first if it needs that.
AfterCryptoSends(m) ==
  IF m.crypt = "NeedsSecondAfterWrite"
  THEN [Idle EXCEPT !.at = "write", !.saver = "done"]
  ELSE [Idle EXCEPT !.at = "send", !.sender = "done"]
AfterCrypto(m) ==
  IF m.draft THEN [Idle EXCEPT !.at = "write", !.saver = "draft"]
  ELSE IF m.crypt = "NeedsSecondAfterWrite"
  THEN [Idle EXCEPT !.at = "write", !.saver = "done"]
  ELSE [Idle EXCEPT !.at = "send", !.sender = "done"]

CryptoDone(t) ==
  /\ AtIdle /\ thr[t].pc = "posted"
  /\ thr' = [thr EXCEPT ![t].pc = "served"]
  /\ IF OOMCrashes(mail)
     THEN ui' = [Idle EXCEPT !.at = "crashed"] /\ UNCHANGED <<mail, item>>
     ELSE \E r \in IF mail.draft \/ mail.crypt = "NeedsUpdateInOOM"
                   THEN UpdateCryptOOM(mail, item, Output(out, mail))
                   ELSE {Result(mail, item)} :
            /\ mail' = r.mail
            /\ item' = r.item
            /\ ui' = AfterCrypto(r.mail)
  /\ UNCHANGED <<alive, out, posted, sent, ghost>>

\* The mail is gone when CRYPTO_DONE arrives.
CryptoDoneGone(t) ==
  /\ ui.at = "idle" /\ ~alive /\ thr[t].pc = "posted"
  /\ thr' = [thr EXCEPT ![t] = Off]
  /\ UNCHANGED <<mail, item, alive, out, ui, posted, sent, ghost>>

\* A save of the user or of Outlook is over.
SaveReturns ==
  /\ ui.at = "saved" /\ ui.saver \in {"auto", "user"}
  /\ ui' = Idle
  /\ UNCHANGED <<mail, item, alive, thr, out, posted, sent, ghost>>

DraftDone ==
  /\ ui.at = "saved" /\ ui.saver = "draft"
  /\ mail' = [mail EXCEPT !.draft = FALSE, !.crypt = "NoCryptMail", !.ref = FALSE]
  /\ ui' = Idle
  /\ thr' = Served
  /\ UNCHANGED <<item, alive, out, posted, sent, ghost>>

SecondSaveDone ==
  /\ ui.at = "saved" /\ ui.saver = "done"
  /\ ui' = [Idle EXCEPT !.at = "send", !.sender = "done"]
  /\ UNCHANGED <<mail, item, alive, thr, out, posted, sent, ghost>>

SendReturns ==
  /\ ui.at = "returned" /\ ui.sender \in {"user", "split"}
  /\ ui' = Idle
  /\ UNCHANGED <<mail, item, alive, thr, out, posted, sent, ghost>>

SendFailedAlways == TRUE
SendFailed == ui.err

\* CLOSE is posted only for a mail that SubmitMessage took.
CloseIf(submitted) == IF submitted THEN posted \cup {"close"} ELSE posted

\* CRYPTO_DONE after its Send: if that failed, SubmitMessage on the base.
SecondSendDone ==
  /\ ui.at = "returned" /\ ui.sender = "done"
  /\ ui' = Idle
  /\ thr' = Served
  /\ IF SendFailed
     THEN /\ \E taken \in BOOLEAN :
               SubmitMessage(taken) /\ posted' = CloseIf(taken)
          /\ UNCHANGED mail
     ELSE /\ mail' = [mail EXCEPT !.ref = FALSE]
          /\ UNCHANGED <<posted, sent, ghost>>
  /\ UNCHANGED <<item, alive, out>>

\* CLOSE: closeInspector_o and close discard the window and the item, and
\* dropping the reference lets Outlook unload it.
CloseMail ==
  /\ ui.at = "idle" /\ "close" \in posted
  /\ posted' = posted \ {"close"}
  /\ alive' = FALSE
  /\ mail' = IF alive THEN [mail EXCEPT !.ref = FALSE] ELSE mail
  /\ ghost' = [ghost EXCEPT !.multi = @ \/ (alive /\ mail.ref)]
  /\ UNCHANGED <<item, thr, out, ui, sent>>

\* SEND_MULTIPLE_MAILS: splitAndSend_o moves a BCC recipient to a copy, sends
\* the copy (a mail of its own) and then this mail, which may have another
\* BCC recipient left. It gives up if the item cannot be copied.
SplitAndSend ==
  /\ ui.at = "idle" /\ "split" \in posted
  /\ posted' = posted \ {"split"}
  /\ IF alive
     THEN \/ /\ \E more \in BOOLEAN : item' = [item EXCEPT !.bcc = more]
             /\ ui' = [Idle EXCEPT !.at = "send", !.sender = "split"]
          \/ UNCHANGED <<item, ui>>
     ELSE UNCHANGED <<item, ui>>
  /\ UNCHANGED <<mail, alive, thr, out, sent, ghost>>
-----------------------------------------------------------------------------
User ==
  \/ \E b \in Bodies : Edit(b)
  \/ \E f \in {"none", "sign", "encrypt"} : Toggle(f)
  \/ BeforeAutoSave \/ UserSave \/ UserSend \/ Unload

Thread(t) == ThreadStart(t) \/ ThreadResolve(t) \/ ThreadFail(t) \/ ThreadDone(t)

Handler ==
  \/ Write \/ AfterWriteFirst \/ AfterWriteSecond \/ AfterWriteNothing
  \/ SyncCrypt \/ SaveReturns \/ DraftDone \/ SecondSaveDone
  \/ SendPassesOpen \/ SendPrepares \/ SendResumes \/ SendGate
  \/ SendWorkaroundT3656 \/ Deliver \/ SendReturns \/ SecondSendDone

Message ==
  \/ \E t \in Threads : CryptoDone(t) \/ CryptoDoneGone(t)
  \/ CloseMail \/ SplitAndSend

\* The mail was sent or is unloaded and nothing is left to do, or Outlook
\* crashed.
Over ==
  /\ \/ ui.at = "idle" /\ posted = {} /\ Active = {} /\ (~alive \/ sent # "no")
     \/ ui.at = "crashed"
  /\ UNCHANGED vars

Next == User \/ Handler \/ Message \/ (\E t \in Threads : Thread(t)) \/ Over

Spec == Init /\ [][Next]_vars

\* Windows schedules the crypto threads and runs a handler to its end. The
\* message loop handles what was posted although the user keeps it busy, so
\* messages need strong fairness. The user may stop at any time.
FairSpec ==
  /\ Spec
  /\ WF_vars(Handler)
  /\ SF_vars(Message)
  /\ \A t \in Threads : WF_vars(Thread(t))
-----------------------------------------------------------------------------
(***************************************************************************)
(* Properties.                                                             *)
(***************************************************************************)
\* Nothing is left to happen that the program itself would do.
Quiet == AtIdle /\ Active = {} /\ posted = {}

\* A mail that leaves after our crypto leaves as the crypter made it: never
\* with a body that was wiped and nothing in its place, encrypted to the draft
\* key, or as text the user wrote (PassedContent, SubmittedContent).
ProtectedSend == sent \notin {"draft", "void", "raw"}

\* A mail leaves without crypto only if neither toggle button was pressed.
HonoursChoice == sent = "open" => ghost.wanted = "none"

\* A crypto thread, and the thread that waits for CRYPTO_DONE, use the Mail
\* and its Outlook item without a lock: the reference of prepareCrypto_o must
\* keep Outlook from unloading it under them.
PinnedWhileCrypting ==
  \A t \in Threads : thr[t].pc \in {"resolve", "crypt", "split", "served"} => alive

\* The compose window is disabled exactly as long as a crypto thread works on
\* the mail: not shorter (the user would edit what is not sent) and not longer
\* (the user could never close it).
WindowFollowsCrypto == AtIdle /\ sent = "no" => (mail.window <=> Working = {})

\* updateCryptOOM_o never runs when its crypter is gone.
NoCrash == ui.at # "crashed"

\* No sequence of Send, SubmitMessage and CLOSE sends two copies, and CLOSE,
\* which discards the item, is posted only for a mail that left.
LeavesOnce == ~ghost.twice /\ ("close" \in posted => sent # "no")

\* Saves, autosaves and draft encryption never make the mail leave.
SentOnRequest == sent # "no" => ghost.asked

\* What leaves is what the mail said when crypto was prepared for the last
\* time and still says: no edit came after the crypter took the text.
SendsLatestText == sent # "no" => ~ghost.stale

\* refCurrentItem is called only while no reference is held, so what one user of
\* it (a crypto operation, CLOSE) releases was not taken for another. The code
\* logs "Current item multi ref. Bug?" where this fails.
RefTakenOnce == ~ghost.multi

\* As long as the mail is not sent the user finds the text back in the window,
\* however crypto, draft encryption and saves ended.
KeepsText == Quiet /\ sent = "no" => item.body = ghost.wrote

\* A Write is cancelled "because draft encrypt is in progress": then it is.
BlockedWriteMeansCrypto == ui.at = "write" /\ WriteBlocked => Active # {}

\* When a Send came to nothing the next one starts from the beginning.
Restartable == Quiet /\ sent = "no" => mail.crypt = "NoCryptMail"

\* CRYPTO_DONE sends the mail only if updateCryptOOM_o did not cancel that.
SecondSendIsFinished ==
  ui.at = "send" /\ ui.sender = "done" => mail.crypt # "NoCryptMail"

\* When SEND_MULTIPLE_MAILS sends the mail again, the crypto that asked for the
\* split is over: otherwise only the copy leaves.
SplitStartsClean ==
  ui.at = "send" /\ ui.sender = "split" => mail.crypt = "NoCryptMail"

\* A compose window that was disabled for crypto is enabled again, or the mail
\* is gone: every path through do_crypt gets there.
WindowComesBack == ~mail.window ~> (mail.window \/ ~alive)

\* The invariant behind PinnedWhileCrypting and NoCrash, where nothing prepares
\* the mail while it is being encrypted and what follows the crypto succeeds:
\* the one crypto thread and the UI thread hand the mail to each other.
Handed == {"WantsSendMIME", "WantsSendInline"}

InDone == \/ ui.saver = "done"  /\ ui.at \in {"write", "afterwrite", "saved"}
          \/ ui.sender = "done" /\ ui.at \in {"send", "deliver", "returned"}

OneThread == \A t, u \in Active : t = u

ThreadHolds(t) ==
  /\ thr[t].pc \in {"start", "resolve", "crypt", "split"} =>
       /\ alive /\ mail.ref /\ ~mail.sync
       /\ mail.crypt = "NeedsActualCrypt" /\ mail.crypter # NoJob
  /\ thr[t].pc = "posted" =>
       /\ alive /\ mail.ref /\ ~mail.sync
       /\ mail.crypt = "NeedsUpdateInOOM"
  /\ thr[t].pc = "served" => alive /\ mail.ref /\ InDone

UIHolds ==
  /\ ui.at # "idle" => alive
  /\ ui.saver # "draft"
  /\ ui.saver = "done" => ui.at \in {"write", "afterwrite", "saved"}
  /\ ui.sender = "done" => ui.at \in {"send", "deliver", "returned"}
  /\ InDone => \E t \in Threads : thr[t].pc = "served"
  /\ ui.saver = "done" /\ ui.at # "saved" =>
       mail.crypt = "NeedsSecondAfterWrite" /\ mail.crypter # NoJob
  /\ InDone /\ (ui.sender = "done" \/ ui.at = "saved") => mail.crypt \in Handed
  /\ ui.at = "crypt" =>
       /\ mail.sync /\ mail.crypt = "NeedsActualCrypt" /\ mail.crypter # NoJob
       /\ Active = {}

CryptHolds ==
  /\ ~mail.draft
  /\ mail.crypt = "NeedsFirstAfterWrite" =>
       /\ Active = {} /\ (mail.sync \/ mail.ref)
       /\ ui.at \in {"write", "afterwrite"} /\ ui.saver = "send"
  /\ mail.crypt = "NeedsUpdateInOOM" => mail.crypter # NoJob
  /\ mail.crypt = "WantsSendInline" /\ ("close" \in posted \/ InDone) =>
       item.body # "text"
  /\ "close" \in posted => ~alive \/ mail.crypt \in Handed

PinInv == /\ OneThread /\ (\A t \in Threads : ThreadHolds(t))
          /\ UIHolds /\ CryptHolds /\ NoCrash

\* Sending implements the promise in SecureSend.
Promise == INSTANCE SecureSend WITH
  choice    <- ghost.wanted,
  requested <- ghost.asked,
  phase     <- IF sent # "no" \/ ~alive THEN "over"
               ELSE IF mail.crypt # "NoCryptMail" /\ ~mail.draft
               THEN "protecting" ELSE "composing",
  left      <- IF sent \in {"mime", "inline"} THEN "protected" ELSE sent

KeepsPromise == Promise!Spec
=============================================================================
