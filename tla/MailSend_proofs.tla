-------------------------- MODULE MailSend_proofs --------------------------
(***************************************************************************)
(* Theorems about MailSend, for every choice of its constants.             *)
(***************************************************************************)
EXTENDS MailSend, TLAPS

\* The pieces of the handlers give a Mail and an Item of the declared types.
Results == [mail : Mails, item : Items]

LEMMA PreparedType ==
  ASSUME NEW m \in Mails
  PROVE  /\ Prepared(m) \subseteq Mails
         /\ PreparedOrNot(m) \subseteq Mails
<1>1. ASSUME NEW sync \in SyncModes
      PROVE  [m EXCEPT !.crypt = "NeedsFirstAfterWrite", !.sync = sync,
                       !.ref = IF sync THEN @ ELSE TRUE] \in Mails
  <2>1. sync \in BOOLEAN
    BY SyncAssumption
  <2>2. m.ref \in BOOLEAN
    BY DEF Mails
  <2> QED BY <2>1, <2>2 DEF Mails, CryptStates
<1>2. Prepared(m) \subseteq Mails
  BY <1>1 DEF Prepared
<1> QED BY <1>2 DEF PreparedOrNot, OneIf

LEMMA ReleasedType ==
  ASSUME NEW m \in Mails
  PROVE  Released(m) \in Mails
BY DEF Released, Mails

LEMMA FailedType ==
  ASSUME NEW m \in Mails
  PROVE  CryptFailed(m) \in Mails
BY DEF CryptFailed, Mails, CryptStates, NoJob

LEMMA UpdateCryptMAPIType ==
  ASSUME NEW m \in Mails, NEW i \in Items, NEW made \in Outputs
  PROVE  UpdateCryptMAPI(m, i, made) \subseteq Results
<1> DEFINE done    == [m EXCEPT !.crypt = "WantsSendMIME",
                                !.crypter = IF m.sync THEN @ ELSE NoJob]
           failed  == [done EXCEPT !.crypt = "NoCryptMail"]
           written == [i EXCEPT !.mime = made,
                                !.flags = IF m.draft THEN @ ELSE "none"]
<1>1. done \in Mails
  BY DEF Mails, CryptStates, NoJob
<1>2. failed \in Mails
  BY <1>1 DEF Mails, CryptStates
<1>3. written \in Items
  BY DEF Items, Outputs
<1>4. [m EXCEPT !.crypt = "NoCryptMail"] \in Mails
  BY DEF Mails, CryptStates
<1> HIDE DEF done, failed, written
<1>5. {Result(done, i), Result(done, written), Result(failed, i),
       Result(failed, written), Result([m EXCEPT !.crypt = "NoCryptMail"], i)}
      \subseteq Results
  BY <1>1, <1>2, <1>3, <1>4 DEF Result, Results
<1>6. UpdateCryptMAPI(m, i, made) \subseteq
        {Result(done, i), Result(done, written), Result(failed, i),
         Result(failed, written), Result([m EXCEPT !.crypt = "NoCryptMail"], i)}
  BY DEF UpdateCryptMAPI, OneIf, done, failed, written
<1> QED BY <1>5, <1>6

LEMMA UpdateCryptOOMType ==
  ASSUME NEW m \in Mails, NEW i \in Items, NEW made \in Outputs
  PROVE  UpdateCryptOOM(m, i, made) \subseteq Results
<1> DEFINE shown == IF m.inline /\ made # "void" THEN [i EXCEPT !.body = "armor"] ELSE i
           next  == [m EXCEPT !.crypter = IF m.sync THEN NoJob ELSE @]
           stop  == [next EXCEPT !.crypt = "NoCryptMail"]
           M(c)  == [next EXCEPT !.crypt = c]
           none  == [m EXCEPT !.crypter = NoJob]
           reset == [m EXCEPT !.crypt = "NoCryptMail"]
<1>1. shown \in Items /\ Wiped(m, shown) \in Items
  BY DEF Items, Wiped, AllBodies
<1>2. next \in Mails
  BY DEF Mails, NoJob
<1>3. /\ stop \in Mails
      /\ M("WantsSendInline") \in Mails
      /\ M("NeedsSecondAfterWrite") \in Mails
  <2>1. ASSUME NEW c \in CryptStates
        PROVE  M(c) \in Mails
    <3> HIDE DEF next
    <3> QED BY <1>2 DEF Mails
  <2> QED BY <2>1 DEF CryptStates
<1>4. none \in Mails /\ reset \in Mails
  BY DEF Mails, CryptStates, NoJob
<1> DEFINE all == { Result(none, i), Result(reset, i), Result(stop, shown),
                    Result(M("WantsSendInline"), shown),
                    Result(M("NeedsSecondAfterWrite"), Wiped(m, shown)) }
<1> HIDE DEF shown, next, stop, M, none, reset
<1>5. all \subseteq Results
  BY <1>1, <1>3, <1>4 DEF Result, Results
<1>6. UpdateCryptOOM(m, i, made) \subseteq all
  BY DEF UpdateCryptOOM, OneIf, shown, next, stop, M, none, reset
<1> QED BY <1>5, <1>6

LEMMA OutputType ==
  ASSUME NEW m \in Mails, NEW o \in [Jobs -> Outputs]
  PROVE  Output(o, m) \in Outputs
BY DEF Output, Mails, Outputs

LEMMA MadeType ==
  ASSUME NEW m
  PROVE  Made(m) \in {"draft", "mail"}
BY DEF Made

LEMMA SyncDoneType ==
  ASSUME NEW m \in Mails, NEW i \in Items, NEW made \in Outputs
  PROVE  SyncDone(m, i, made) \subseteq Results
<1> SUFFICES ASSUME NEW d \in SyncDone(m, i, made)
             PROVE  d \in Results
  OBVIOUS
<1>1. PICK r \in UpdateCryptMAPI(m, i, made) :
        d = IF m.draft
            THEN Result([r.mail EXCEPT !.draft = FALSE, !.crypt = "NoCryptMail"], r.item)
            ELSE IF r.mail.crypt = "WantsSendMIME"
            THEN Result([r.mail EXCEPT !.crypt = "NeedsUpdateInOOM"], r.item)
            ELSE Result([r.mail EXCEPT !.crypter = NoJob], r.item)
  BY DEF SyncDone
<1>2. r.mail \in Mails /\ r.item \in Items
  BY UpdateCryptMAPIType DEF Results
<1>3. /\ [r.mail EXCEPT !.draft = FALSE, !.crypt = "NoCryptMail"] \in Mails
      /\ [r.mail EXCEPT !.crypt = "NeedsUpdateInOOM"] \in Mails
      /\ [r.mail EXCEPT !.crypter = NoJob] \in Mails
  BY <1>2 DEF Mails, CryptStates, NoJob
<1> QED BY <1>1, <1>2, <1>3 DEF Result, Results

LEMMA ContentType ==
  ASSUME item \in Items
  PROVE  PassedContent \in Contents /\ SubmittedContent \in Contents
<1>1. item.mime \in {"none", "void", "draft", "mail"}
  BY DEF Items
<1>2. PassedContent \in Contents
  BY <1>1 DEF PassedContent, ContentWith, Contents
<1>3. SubmittedContent \in Contents
  BY <1>1 DEF SubmittedContent, ContentWith, Contents
<1> QED BY <1>2, <1>3

LEMMA GhostType ==
  ASSUME ghost \in Ghosts
  PROVE  GhostPrepared(ghost) \in Ghosts /\ GhostLeft \in Ghosts
BY DEF GhostPrepared, GhostLeft, Ghosts
-----------------------------------------------------------------------------
(***************************************************************************)
(* Type correctness. TypeOK is inductive.                                  *)
(***************************************************************************)
LEMMA TypeInit == Init => TypeOK
<1> SUFFICES ASSUME Init PROVE TypeOK
  OBVIOUS
<1>1. mail \in Mails
  BY DEF Init, Mails, CryptStates, NoJob
<1>2. item \in Items
  <2>1. PICK bcc \in BOOLEAN :
          item = [ body |-> "empty", saved |-> "empty", mime |-> "none",
                   flags |-> "none", bcc |-> bcc ]
    BY DEF Init
  <2> QED BY <2>1 DEF Items, AllBodies
<1>3. thr \in [Threads -> CryptThreads]
  BY DEF Init, Off, CryptThreads, NoJob
<1>4. out \in [Jobs -> Outputs]
  BY DEF Init, Outputs
<1>5. ui \in UIs
  BY DEF Init, Idle, UIs, Steps
<1>6. ghost \in Ghosts
  BY DEF Init, Ghosts, AllBodies
<1> QED BY <1>1, <1>2, <1>3, <1>4, <1>5, <1>6 DEF Init, TypeOK, Contents

\* A Mail prepared with its draft flag changed first.
LEMMA MP1 ==
  ASSUME NEW m \in Mails, NEW d \in BOOLEAN
  PROVE  [m EXCEPT !.draft = d] \in Mails
BY DEF Mails

LEMMA AfterWriteFirstType ==
  ASSUME TypeOK, AfterWriteFirst
  PROVE  TypeOK'
<1>1. CASE StartFails
  <2>1. Released(mail) \in Mails
    BY ReleasedType DEF TypeOK
  <2>2. mail' \in Mails
    BY <1>1, <2>1 DEF StartFails, Mails, CryptStates
  <2>3. ui' \in UIs
    BY <1>1 DEF StartFails, TypeOK, UIs, Steps
  <2> QED BY <1>1, <2>2, <2>3 DEF StartFails, AfterWriteFirst, TypeOK
<1>2. ASSUME NEW inline \in BOOLEAN, CollectFails(inline)
      PROVE  TypeOK'
  <2>1. Released(mail) \in Mails
    BY ReleasedType DEF TypeOK
  <2>2. mail' \in Mails
    BY <1>2, <2>1 DEF CollectFails, Mails, CryptStates, Jobs
  <2>3. ui' \in UIs /\ out' \in [Jobs -> Outputs]
    BY <1>2 DEF CollectFails, TypeOK, UIs, Steps, Outputs
  <2> QED BY <1>2, <2>2, <2>3 DEF CollectFails, AfterWriteFirst, TypeOK
<1>3. ASSUME NEW inline \in BOOLEAN, NEW j \in Jobs, StartsCrypt(j, inline)
      PROVE  mail' \in Mails /\ out' \in [Jobs -> Outputs]
  BY <1>3 DEF StartsCrypt, TypeOK, Mails, CryptStates, Outputs
<1>4. ASSUME NEW inline \in BOOLEAN, StartsSync(inline)
      PROVE  TypeOK'
  <2>1. mail' \in Mails /\ out' \in [Jobs -> Outputs]
    BY <1>3, <1>4 DEF StartsSync, Jobs
  <2>2. ui' \in UIs
    BY <1>4 DEF StartsSync, TypeOK, UIs, Steps
  <2> QED BY <1>4, <2>1, <2>2 DEF StartsSync, AfterWriteFirst, TypeOK
<1>5. ASSUME NEW inline \in BOOLEAN, NEW t \in Threads, StartsThread(t, inline)
      PROVE  TypeOK'
  <2>1. mail' \in Mails /\ out' \in [Jobs -> Outputs]
    BY <1>3, <1>5 DEF StartsThread, Jobs
  <2>2. ui' \in UIs /\ thr' \in [Threads -> CryptThreads]
    BY <1>5 DEF StartsThread, TypeOK, UIs, Steps, CryptThreads
  <2> QED BY <1>5, <2>1, <2>2 DEF StartsThread, AfterWriteFirst, TypeOK
<1>6. DoInline \subseteq BOOLEAN
  BY DEF DoInline
<1>7. CASE StartsNothing
  <2>1. mail' \in Mails /\ ui' \in UIs
    BY <1>7 DEF StartsNothing, TypeOK, Mails, CryptStates, UIs, Steps
  <2> QED BY <1>7, <2>1 DEF StartsNothing, AfterWriteFirst, TypeOK
<1> QED BY <1>1, <1>2, <1>4, <1>5, <1>6, <1>7 DEF AfterWriteFirst

LEMMA SyncCryptType ==
  ASSUME TypeOK, SyncCrypt
  PROVE  TypeOK'
<1>1. [mail EXCEPT !.window = TRUE] \in Mails /\ CryptFailed(mail) \in Mails
  BY FailedType DEF TypeOK, Mails
<1>2. Made(mail) \in Outputs
  BY MadeType DEF Outputs
<1>3. SyncDone([mail EXCEPT !.window = TRUE], item, Made(mail)) \subseteq Results
  BY <1>1, <1>2, SyncDoneType DEF TypeOK
<1>4. mail' \in Mails /\ item' \in Items
  <2> DEFINE All == SyncDone([mail EXCEPT !.window = TRUE], item, Made(mail))
  <2>1. \/ mail' = [mail EXCEPT !.window = TRUE] /\ item' = item
        \/ mail' = CryptFailed(mail) /\ item' = item
        \/ \E r \in All : mail' = r.mail /\ item' = r.item
    BY DEF SyncCrypt
  <2> HIDE DEF All
  <2>2. All \subseteq Results
    BY <1>3 DEF All
  <2> QED BY <1>1, <2>1, <2>2 DEF TypeOK, Results
<1>5. out' \in [Jobs -> Outputs]
  BY <1>2 DEF SyncCrypt, TypeOK
<1>6. ui' \in UIs /\ posted' \subseteq {"close", "split"}
  BY DEF SyncCrypt, TypeOK, UIs, Steps
<1> QED BY <1>4, <1>5, <1>6 DEF SyncCrypt, TypeOK

LEMMA SendResumesType ==
  ASSUME TypeOK, SendResumes
  PROVE  TypeOK'
<1>1. UpdateCryptOOM(mail, item, Output(out, mail)) \subseteq Results
  BY UpdateCryptOOMType, OutputType DEF TypeOK
<1>2. Result(mail, item) \in Results
  BY DEF Result, Results, TypeOK
<1>3. ASSUME NEW r \in Results
      PROVE  r.mail \in Mails /\ [r.mail EXCEPT !.crypt = "WantsSendMIME"] \in Mails
             /\ r.item \in Items
  BY DEF Results, Mails, CryptStates
<1>4. mail' \in Mails /\ item' \in Items
  <2>1. \/ mail' = mail /\ item' = item
        \/ \E r \in Results :
             /\ mail' = IF r.mail.crypt = "NeedsSecondAfterWrite"
                        THEN [r.mail EXCEPT !.crypt = "WantsSendMIME"] ELSE r.mail
             /\ item' = r.item
    BY <1>1, <1>2 DEF SendResumes
  <2> QED BY <1>3, <2>1 DEF TypeOK
<1>5. ui' \in UIs
  <2>1. Cancel \/ ui' = [ui EXCEPT !.at = "gate"] \/ ui' = [ui EXCEPT !.at = "crashed"]
    BY DEF SendResumes
  <2> QED BY <2>1 DEF TypeOK, Cancel, UIs, Steps
<1> QED BY <1>4, <1>5 DEF SendResumes, TypeOK

LEMMA ThreadStartType ==
  ASSUME TypeOK, NEW t \in Threads, ThreadStart(t)
  PROVE  TypeOK'
<1>1. thr' \in [Threads -> CryptThreads]
  BY DEF ThreadStart, TypeOK, CryptThreads, Off, Mails, NoJob
<1>2. mail' \in Mails
  BY DEF ThreadStart, TypeOK, Mails
<1> QED BY <1>1, <1>2 DEF ThreadStart, TypeOK

LEMMA ThreadResolveType ==
  ASSUME TypeOK, NEW t \in Threads, ThreadResolve(t)
  PROVE  TypeOK'
<1>1. thr' \in [Threads -> CryptThreads]
  BY MadeType DEF ThreadResolve, TypeOK, CryptThreads
<1> QED BY <1>1 DEF ThreadResolve, TypeOK

LEMMA ThreadFailType ==
  ASSUME TypeOK, NEW t \in Threads, ThreadFail(t)
  PROVE  TypeOK'
<1>1. thr' \in [Threads -> CryptThreads]
  BY DEF ThreadFail, TypeOK, CryptThreads, Off, NoJob
<1>2. mail' \in Mails
  BY FailedType DEF ThreadFail, TypeOK
<1> QED BY <1>1, <1>2 DEF ThreadFail, TypeOK

LEMMA ThreadDoneType ==
  ASSUME TypeOK, NEW t \in Threads, ThreadDone(t)
  PROVE  TypeOK'
<1>1. thr' \in [Threads -> CryptThreads]
  BY DEF ThreadDone, TypeOK, CryptThreads, Off, NoJob
<1>2. out' \in [Jobs -> Outputs]
  BY DEF ThreadDone, TypeOK, CryptThreads, Outputs
<1>3. [mail EXCEPT !.window = TRUE] \in Mails
  BY DEF TypeOK, Mails
<1>4. SyncDone([mail EXCEPT !.window = TRUE], item, Output(out', mail)) \subseteq Results
  BY <1>2, <1>3, OutputType, SyncDoneType DEF TypeOK
<1>5. [mail EXCEPT !.window = TRUE, !.crypt = "NeedsUpdateInOOM"] \in Mails
  BY DEF TypeOK, Mails, CryptStates
<1>6. mail' \in Mails /\ item' \in Items
  BY <1>4, <1>5 DEF ThreadDone, TypeOK, Results
<1> QED BY <1>1, <1>2, <1>6 DEF ThreadDone, TypeOK

LEMMA CryptoDoneType ==
  ASSUME TypeOK, NEW t \in Threads, CryptoDone(t)
  PROVE  TypeOK'
<1>1. thr' \in [Threads -> CryptThreads]
  BY DEF CryptoDone, TypeOK, CryptThreads
<1>2. UpdateCryptOOM(mail, item, Output(out, mail)) \subseteq Results
  BY UpdateCryptOOMType, OutputType DEF TypeOK
<1>3. Result(mail, item) \in Results
  BY DEF Result, Results, TypeOK
<1>4. mail' \in Mails /\ item' \in Items
  BY <1>2, <1>3 DEF CryptoDone, TypeOK, Results
<1>5. ui' \in UIs
  BY DEF CryptoDone, AfterCrypto, Idle, UIs, Steps
<1> QED BY <1>1, <1>4, <1>5 DEF CryptoDone, TypeOK

LEMMA CryptoDoneGoneType ==
  ASSUME TypeOK, NEW t \in Threads, CryptoDoneGone(t)
  PROVE  TypeOK'
BY DEF CryptoDoneGone, TypeOK, CryptThreads, Off, NoJob

LEMMA TypeNext == TypeOK /\ [Next]_vars => TypeOK'
<1> SUFFICES ASSUME TypeOK, [Next]_vars PROVE TypeOK'
  OBVIOUS
<1>1. ASSUME NEW b \in Bodies, Edit(b) PROVE TypeOK'
  BY <1>1, BodiesAssumption DEF Edit, TypeOK, Items, Ghosts
<1>2. ASSUME NEW f \in {"none", "sign", "encrypt"}, Toggle(f) PROVE TypeOK'
  BY <1>2 DEF Toggle, TypeOK, Items, Ghosts
<1>3. CASE BeforeAutoSave
  BY <1>3, PreparedType, GhostType, MP1 DEF BeforeAutoSave, TypeOK, UIs, Steps, Idle
<1>4. CASE UserSave
  BY <1>4 DEF UserSave, TypeOK, UIs, Steps, Idle
<1>5. CASE UserSend
  BY <1>5 DEF UserSend, TypeOK, UIs, Steps, Idle, Ghosts
<1>6. CASE Unload
  BY <1>6 DEF Unload, TypeOK
<1>7. CASE Write
  <2>1. PreparedOrNot([mail EXCEPT !.draft = TRUE]) \subseteq Mails
    BY PreparedType, MP1 DEF TypeOK
  <2>2. mail' \in Mails
    BY <1>7, <2>1 DEF Write, TypeOK
  <2>3. item' \in Items /\ ui' \in UIs
    BY <1>7 DEF Write, TypeOK, UIs, Steps, Items
  <2>4. ghost' \in Ghosts
    BY <1>7, GhostType DEF Write, TypeOK
  <2> QED BY <1>7, <2>2, <2>3, <2>4 DEF Write, TypeOK
<1>8. CASE AfterWriteFirst
  BY <1>8, AfterWriteFirstType
<1>9. CASE AfterWriteSecond
  BY <1>9, UpdateCryptMAPIType, OutputType DEF AfterWriteSecond, TypeOK, UIs, Steps, Results
<1>10. CASE AfterWriteNothing
  BY <1>10 DEF AfterWriteNothing, TypeOK, UIs, Steps
<1>11. CASE SyncCrypt
  BY <1>11, SyncCryptType
<1>12. CASE SaveReturns
  BY <1>12 DEF SaveReturns, TypeOK, UIs, Steps, Idle
<1>13. CASE DraftDone
  BY <1>13 DEF DraftDone, TypeOK, UIs, Steps, Idle, Mails, CryptStates, CryptThreads, Served, Off, NoJob
<1>14. CASE SecondSaveDone
  BY <1>14 DEF SecondSaveDone, TypeOK, UIs, Steps, Idle
<1>15. CASE SendPassesOpen
  BY <1>15 DEF SendPassesOpen, TypeOK, UIs, Steps
<1>16. CASE SendPrepares
  <2>1. Prepared([mail EXCEPT !.draft = FALSE]) \subseteq Mails
    BY PreparedType, MP1 DEF TypeOK
  <2>2. mail' \in Mails
    BY <1>16, <2>1 DEF SendPrepares, TypeOK
  <2>3. ui' \in UIs
    BY <1>16 DEF SendPrepares, TypeOK, UIs, Steps, Cancel
  <2>4. ghost' \in Ghosts
    BY <1>16, GhostType DEF SendPrepares, TypeOK
  <2> QED BY <1>16, <2>2, <2>3, <2>4 DEF SendPrepares, TypeOK
<1>17. CASE SendResumes
  BY <1>17, SendResumesType
<1>18. CASE SendGate
  <2>1. Cancel => ui' \in UIs
    BY DEF Cancel, TypeOK, UIs, Steps
  <2>2. [ui EXCEPT !.at = "deliver"] \in UIs
    BY DEF TypeOK, UIs, Steps
  <2>3. [mail EXCEPT !.crypt = "NoCryptMail"] \in Mails
    BY DEF TypeOK, Mails, CryptStates
  <2> QED BY <1>18, <2>1, <2>2, <2>3 DEF SendGate, TypeOK
<1>19. CASE SendWorkaroundT3656
  BY <1>19, ContentType, GhostType DEF SendWorkaroundT3656, TypeOK, UIs, Steps, Cancel, SubmitBase,
                                       SubmitMessage
<1>20. CASE Deliver
  BY <1>20, ContentType, GhostType DEF Deliver, TypeOK, UIs, Steps, Items
<1>21. CASE SendReturns
  BY <1>21 DEF SendReturns, TypeOK, UIs, Steps, Idle
<1>22. CASE SecondSendDone
  <2>1. mail' \in Mails /\ ui' \in UIs
    BY <1>22 DEF SecondSendDone, TypeOK, UIs, Steps, Idle, Mails
  <2>2. thr' \in [Threads -> CryptThreads]
    BY <1>22 DEF SecondSendDone, TypeOK, CryptThreads, Served, Off, NoJob
  <2>3. sent' \in Contents /\ ghost' \in Ghosts /\ posted' \subseteq {"close", "split"}
    BY <1>22, ContentType, GhostType DEF SecondSendDone, TypeOK, SubmitMessage, CloseIf
  <2> QED BY <1>22, <2>1, <2>2, <2>3 DEF SecondSendDone, TypeOK
<1>23. CASE CloseMail
  BY <1>23 DEF CloseMail, TypeOK, Mails, Ghosts
<1>24. CASE SplitAndSend
  <2>1. item' \in Items
    BY <1>24 DEF SplitAndSend, TypeOK, Items
  <2>2. ui' \in UIs /\ posted' \subseteq {"close", "split"}
    BY <1>24 DEF SplitAndSend, TypeOK, UIs, Steps, Idle
  <2> QED BY <1>24, <2>1, <2>2 DEF SplitAndSend, TypeOK
<1>25. ASSUME NEW t \in Threads, ThreadStart(t) PROVE TypeOK'
  BY <1>25, ThreadStartType
<1>26. ASSUME NEW t \in Threads, ThreadResolve(t) PROVE TypeOK'
  BY <1>26, ThreadResolveType
<1>27. ASSUME NEW t \in Threads, ThreadFail(t) PROVE TypeOK'
  BY <1>27, ThreadFailType
<1>28. ASSUME NEW t \in Threads, ThreadDone(t) PROVE TypeOK'
  BY <1>28, ThreadDoneType
<1>29. ASSUME NEW t \in Threads, CryptoDone(t) PROVE TypeOK'
  BY <1>29, CryptoDoneType
<1>30. ASSUME NEW t \in Threads, CryptoDoneGone(t) PROVE TypeOK'
  BY <1>30, CryptoDoneGoneType
<1>31. CASE Over
  BY <1>31 DEF Over, TypeOK, vars
<1>32. CASE UNCHANGED vars
  BY <1>32 DEF vars, TypeOK
<1> QED BY <1>1, <1>2, <1>3, <1>4, <1>5, <1>6, <1>7, <1>8, <1>9, <1>10, <1>11, <1>12, <1>13, <1>14, <1>15, <1>16, <1>17, <1>18, <1>19, <1>20, <1>21, <1>22, <1>23, <1>24, <1>25, <1>26, <1>27, <1>28, <1>29, <1>30, <1>31, <1>32 DEF Next, User, Handler, Message, Thread

\* Every variable of MailSend keeps its type: each handler, whatever the mode,
\* the options and the failures, leaves the mail in one of the declared states.
\* (NeedsUpdateInMAPI is left before any handler returns.)
THEOREM TypeCorrect == Spec => []TypeOK
BY TypeInit, TypeNext, PTL DEF Spec
-----------------------------------------------------------------------------
(***************************************************************************)
(* Pinning.                                                                *)
(***************************************************************************)
\* What the theorem needs: no draft encryption, which can prepare a mail while
\* a thread works on it, no input between crypto and CRYPTO_DONE, and what
\* updateCryptOOM_o and updateCryptMAPI_m write can be written.
Undisturbed ==
  /\ "draft_key" \notin Options
  /\ Env \cap {"typeahead", "body", "mapi", "mapisave"} = {}

\* What the updates make of a mail that is encrypted for sending.
LEMMA MAPIUpdate ==
  ASSUME Undisturbed, NEW m \in Mails, NEW i \in Items, NEW made,
         NEW r \in UpdateCryptMAPI(m, i, made)
  PROVE  /\ r.item.body = i.body
         /\ r.mail.draft = m.draft /\ r.mail.sync = m.sync /\ r.mail.ref = m.ref
         /\ m.crypter = NoJob => r.mail.crypt = "NoCryptMail"
         /\ m.crypter # NoJob => r.mail.crypt = "WantsSendMIME"
         /\ m.sync => r.mail.crypter = m.crypter
<1>1. CASE m.crypter = NoJob
  <2>1. r = Result([m EXCEPT !.crypt = "NoCryptMail"], i)
    BY <1>1 DEF UpdateCryptMAPI
  <2> QED BY <1>1, <2>1 DEF Result, Mails
<1>2. CASE m.crypter # NoJob
  <2> DEFINE done    == [m EXCEPT !.crypt = "WantsSendMIME",
                                  !.crypter = IF m.sync THEN @ ELSE NoJob]
             written == [i EXCEPT !.mime = made,
                                  !.flags = IF m.draft THEN @ ELSE "none"]
  <2>1. r = Result(done, IF m.inline THEN i ELSE written)
    BY <1>2 DEF Undisturbed, UpdateCryptMAPI, OneIf
  <2>2. (IF m.inline THEN i ELSE written).body = i.body
    BY DEF Items
  <2> QED BY <1>2, <2>1, <2>2 DEF Result, Mails
<1> QED BY <1>1, <1>2

LEMMA OOMUpdate ==
  ASSUME Undisturbed, NEW m \in Mails, NEW i \in Items, NEW made,
         m.crypt = "NeedsUpdateInOOM", m.crypter # NoJob, ~m.draft,
         NEW r \in UpdateCryptOOM(m, i, made)
  PROVE  /\ r.mail.draft = m.draft /\ r.mail.sync = m.sync /\ r.mail.ref = m.ref
         /\ r.mail.crypt \in {"WantsSendInline", "NeedsSecondAfterWrite"}
         /\ r.mail.crypt = "WantsSendInline" => r.item.body # "text"
         /\ ~m.sync => r.mail.crypter = m.crypter
<1> DEFINE shown == IF m.inline /\ made # "void" THEN [i EXCEPT !.body = "armor"] ELSE i
           next  == [m EXCEPT !.crypter = IF m.sync THEN NoJob ELSE @]
<1>1. CASE shown.body \in {"begin", "armor"}
  <2>1. r = Result([next EXCEPT !.crypt = "WantsSendInline"], shown)
    BY <1>1 DEF Undisturbed, UpdateCryptOOM, OneIf
  <2> QED BY <1>1, <2>1 DEF Result, Mails
<1>2. CASE shown.body \notin {"begin", "armor"}
  <2>1. r = Result([next EXCEPT !.crypt = "NeedsSecondAfterWrite"], Wiped(m, shown))
    BY <1>2 DEF Undisturbed, UpdateCryptOOM, OneIf
  <2> QED BY <2>1 DEF Result, Mails
<1> QED BY <1>1, <1>2

LEMMA SyncUpdate ==
  ASSUME Undisturbed, NEW m \in Mails, NEW i \in Items, NEW made \in Outputs,
         m.sync, m.crypter # NoJob, ~m.draft,
         NEW d \in SyncDone(m, i, made)
  PROVE  /\ d.item.body = i.body
         /\ d.mail.draft = m.draft /\ d.mail.sync = m.sync /\ d.mail.ref = m.ref
         /\ d.mail.crypt = "NeedsUpdateInOOM"
         /\ d.mail.crypter = m.crypter
<1>1. PICK r \in UpdateCryptMAPI(m, i, made) :
        d = IF m.draft
            THEN Result([r.mail EXCEPT !.draft = FALSE, !.crypt = "NoCryptMail"], r.item)
            ELSE IF r.mail.crypt = "WantsSendMIME"
            THEN Result([r.mail EXCEPT !.crypt = "NeedsUpdateInOOM"], r.item)
            ELSE Result([r.mail EXCEPT !.crypter = NoJob], r.item)
  BY DEF SyncDone
<1>2. r \in UpdateCryptMAPI(m, i, made) /\ r.mail \in Mails
  BY <1>1, UpdateCryptMAPIType DEF Results
<1>6. r.mail.crypt = "WantsSendMIME"
  BY <1>2, MAPIUpdate
<1>3. d = Result([r.mail EXCEPT !.crypt = "NeedsUpdateInOOM"], r.item)
  BY <1>1, <1>6
<1>4. /\ r.mail.sync = m.sync /\ r.mail.ref = m.ref /\ r.mail.draft = m.draft
      /\ r.item.body = i.body
  BY <1>2, MAPIUpdate
<1>5. r.mail.crypter = m.crypter
  BY <1>2, MAPIUpdate
<1> QED BY <1>2, <1>3, <1>4, <1>5 DEF Result, Mails

\* Unfolds the invariant from here on.
USE DEF PinInv, OneThread, ThreadHolds, UIHolds,
        CryptHolds, NoCrash, InDone, Handed, Active

\* No thread is active while the mail is in a state no thread leaves it in,
\* unless CRYPTO_DONE is being handled.
LEMMA Alone ==
  ASSUME TypeOK, PinInv, ~InDone,
         mail.crypt \notin {"NeedsActualCrypt", "NeedsUpdateInOOM"}
  PROVE  Active = {}
BY DEF TypeOK, CryptThreads

LEMMA CancelReturns ==
  ASSUME TypeOK, Cancel
  PROVE  ui'.at = "returned" /\ ui'.saver = ui.saver /\ ui'.sender = ui.sender
<1>1. PICK err \in BOOLEAN : ui' = [ui EXCEPT !.at = "returned", !.err = err]
  BY Zenon DEF Cancel
<1> QED BY <1>1 DEF TypeOK, UIs

LEMMA PinInit == Init => PinInv
BY DEF Init, Idle, Off

LEMMA PinWrite ==
  ASSUME Undisturbed, TypeOK, PinInv, Write
  PROVE  PinInv'
<1>1. /\ mail' = mail /\ item'.body = item.body
      /\ ui' = [ui EXCEPT !.at = "afterwrite"]
      /\ UNCHANGED <<alive, thr, posted>>
  BY DEF Undisturbed, TypeOK, Items, Write, WriteBlocked, WriteStartsDraft
<1> QED BY <1>1 DEF Write, TypeOK, UIs

LEMMA PinAfterWriteFirst ==
  ASSUME TypeOK, PinInv, AfterWriteFirst
  PROVE  PinInv'
<1>1. /\ Active = {} /\ alive /\ ui.saver = "send" /\ ui.sender # "done" /\ ~mail.draft
      /\ mail.sync \/ mail.ref
      /\ ui.at = "afterwrite" /\ "close" \notin posted
  BY DEF AfterWriteFirst
<1>2. UNCHANGED <<item, alive, posted>>
  BY DEF AfterWriteFirst
<1>3. CASE StartFails
  <2>1. /\ mail'.crypt = "NoCryptMail" /\ ~mail'.draft
        /\ ui'.at = "saved" /\ ui'.saver = "send" /\ ui'.sender # "done"
        /\ thr' = thr
    BY <1>1, <1>3 DEF StartFails, Released, TypeOK, Mails, UIs
  <2> QED BY <1>1, <1>2, <2>1
<1>4. ASSUME NEW inline, CollectFails(inline)
      PROVE  PinInv'
  <2>1. /\ mail'.crypt = "NoCryptMail" /\ ~mail'.draft
        /\ ui'.at = "saved" /\ ui'.saver = "send" /\ ui'.sender # "done"
        /\ thr' = thr
    BY <1>1, <1>4 DEF CollectFails, Released, TypeOK, Mails, UIs
  <2> QED BY <1>1, <1>2, <2>1
<1>5. ASSUME NEW inline, NEW j \in Jobs, StartsCrypt(j, inline)
      PROVE  /\ mail'.crypt = "NeedsActualCrypt" /\ ~mail'.draft
             /\ mail'.crypter # NoJob
             /\ mail'.sync = mail.sync /\ mail'.ref = mail.ref
  BY <1>1, <1>5, NamesAssumption DEF StartsCrypt, TypeOK, Mails, Jobs, NoJob
<1>6. ASSUME NEW inline, StartsSync(inline)
      PROVE  PinInv'
  <2>1. /\ ui'.at = "crypt" /\ ui'.saver = "send" /\ ui'.sender # "done"
        /\ thr' = thr /\ mail.sync
    BY <1>1, <1>6 DEF StartsSync, TypeOK, UIs
  <2>2. StartsCrypt("ui", inline)
    BY <1>6 DEF StartsSync
  <2> QED BY <1>1, <1>2, <1>5, <2>1, <2>2 DEF Jobs
<1>7. ASSUME NEW inline, NEW t \in Threads, StartsThread(t, inline)
      PROVE  PinInv'
  <2>1. /\ ui'.at = "saved" /\ ui'.saver = "send" /\ ui'.sender # "done"
        /\ ~mail.sync
        /\ thr'[t].pc = "start" /\ \A u \in Threads \ {t} : thr'[u] = thr[u]
    BY <1>1, <1>7 DEF StartsThread, TypeOK, UIs, CryptThreads
  <2>2. StartsCrypt(t, inline)
    BY <1>7 DEF StartsThread
  <2> QED BY <1>1, <1>2, <1>5, <2>1, <2>2 DEF Jobs
<1>8. CASE StartsNothing
  <2>1. /\ mail'.crypt = "NeedsActualCrypt" /\ ~mail'.draft
        /\ ui'.at = "saved" /\ ui'.saver = "send" /\ ui'.sender # "done"
        /\ thr' = thr
    BY <1>1, <1>8 DEF StartsNothing, TypeOK, Mails, UIs
  <2> QED BY <1>1, <1>2, <2>1
<1> QED BY <1>3, <1>4, <1>6, <1>7, <1>8 DEF AfterWriteFirst

LEMMA PinAfterWriteSecond ==
  ASSUME Undisturbed, TypeOK, PinInv, AfterWriteSecond
  PROVE  PinInv'
<1>1. PICK r \in UpdateCryptMAPI(mail, item, Output(out, mail)) :
        mail' = r.mail /\ item' = r.item
  BY DEF AfterWriteSecond
<1>2. /\ item'.body = item.body
      /\ mail'.draft = mail.draft /\ mail'.ref = mail.ref
      /\ mail.crypter = NoJob => mail'.crypt = "NoCryptMail"
      /\ mail.crypter # NoJob => mail'.crypt = "WantsSendMIME"
  BY <1>1, MAPIUpdate DEF TypeOK
<1>3. /\ ui'.at = "saved" /\ ui'.saver = ui.saver /\ ui'.sender = ui.sender
      /\ ui.at = "afterwrite" /\ mail.crypt = "NeedsSecondAfterWrite"
      /\ UNCHANGED <<alive, thr, posted>>
  BY DEF AfterWriteSecond, TypeOK, UIs
<1>4. ~InDone => Active = {}
  BY <1>3, Alone
<1> QED BY <1>2, <1>3, <1>4 DEF TypeOK, CryptThreads

LEMMA PinSyncCrypt ==
  ASSUME Undisturbed, TypeOK, PinInv, SyncCrypt
  PROVE  PinInv'
<1>1. /\ ui.at = "crypt" /\ mail.sync /\ Active = {} /\ alive /\ ~mail.draft
      /\ ui.saver \notin {"done", "draft"} /\ ui.sender # "done"
      /\ mail.crypter # NoJob /\ mail.crypt = "NeedsActualCrypt"
      /\ "close" \notin posted
  BY DEF SyncCrypt
<1>2. /\ ui'.at = "saved" /\ ui'.saver = ui.saver /\ ui'.sender = ui.sender
      /\ UNCHANGED <<alive, thr>> /\ "close" \notin posted'
  BY <1>1 DEF SyncCrypt, TypeOK, UIs
<1>3. CASE mail' = CryptFailed(mail)
  <2>1. mail'.crypt = "NoCryptMail" /\ ~mail'.draft
    BY <1>3 DEF CryptFailed, TypeOK, Mails
  <2> QED BY <1>1, <1>2, <2>1
<1>4. ASSUME NEW d \in SyncDone([mail EXCEPT !.window = TRUE], item, Made(mail)),
             mail' = d.mail
      PROVE  PinInv'
  <2> DEFINE m == [mail EXCEPT !.window = TRUE]
  <2>1. m \in Mails /\ m.sync /\ m.crypter # NoJob /\ ~m.draft
    BY <1>1 DEF TypeOK, Mails
  <2>2. Made(mail) \in Outputs
    BY MadeType DEF Outputs
  <2> HIDE DEF m
  <2>3. d \in SyncDone(m, item, Made(mail))
    BY DEF m
  <2>4. /\ d.mail.draft = m.draft /\ d.mail.crypt = "NeedsUpdateInOOM"
        /\ d.mail.crypter = m.crypter
    BY <2>1, <2>2, <2>3, SyncUpdate DEF TypeOK
  <2>5. ~mail'.draft /\ mail'.crypt = "NeedsUpdateInOOM" /\ mail'.crypter # NoJob
    BY <1>4, <2>1, <2>4
  <2> QED BY <1>1, <1>2, <2>5
<1> QED BY <1>1, <1>3, <1>4 DEF SyncCrypt, CryptReady

LEMMA PinSendPrepares ==
  ASSUME Undisturbed, TypeOK, PinInv, SendPrepares
  PROVE  PinInv'
<1>1. /\ ui.at = "send" /\ alive /\ mail.crypt = "NoCryptMail" /\ ~mail.draft
      /\ ui.saver \notin {"done", "draft"} /\ ui.sender # "done"
      /\ "close" \notin posted
      /\ UNCHANGED <<item, alive, thr, posted>>
  BY DEF SendPrepares
<1>2. Active = {}
  BY <1>1, Alone
<1>3. CASE Cancel /\ UNCHANGED mail
  <2>1. ui'.at = "returned" /\ ui'.saver = ui.saver /\ ui'.sender = ui.sender
    BY <1>3 DEF Cancel, TypeOK, UIs
  <2> QED BY <1>1, <1>2, <1>3, <2>1
<1>4. CASE /\ mail' \in Prepared([mail EXCEPT !.draft = FALSE])
           /\ ui' = [ui EXCEPT !.at = "write", !.saver = "send"]
  <2> DEFINE m == [mail EXCEPT !.draft = FALSE]
  <2>0. m \in Mails /\ ~m.draft
    BY DEF TypeOK, Mails
  <2>1. /\ mail'.crypt = "NeedsFirstAfterWrite" /\ ~mail'.draft
        /\ mail'.sync \/ mail'.ref
    <3> HIDE DEF m
    <3>1. PICK sync \in SyncModes :
            mail' = [m EXCEPT !.crypt = "NeedsFirstAfterWrite", !.sync = sync,
                              !.ref = IF sync THEN @ ELSE TRUE]
      BY <1>4, Zenon DEF Prepared, m
    <3> QED BY <2>0, <3>1 DEF Mails
  <2>2. ui'.at = "write" /\ ui'.saver = "send" /\ ui'.sender = ui.sender
    BY <1>4 DEF TypeOK, UIs
  <2> QED BY <1>1, <1>2, <2>1, <2>2
<1> QED BY <1>3, <1>4 DEF SendPrepares

LEMMA PinSendResumes ==
  ASSUME Undisturbed, TypeOK, PinInv, SendResumes
  PROVE  PinInv'
<1>1. /\ ui.at = "saved" /\ ui.saver = "send" /\ ui.sender # "done" /\ alive
      /\ UNCHANGED <<alive, thr, posted>>
  BY DEF SendResumes
<1>2. /\ ui'.at \in {"returned", "gate"} /\ ui'.saver = ui.saver
      /\ ui'.sender = ui.sender
  <2>1. Cancel \/ ui' = [ui EXCEPT !.at = "gate"]
    BY <1>1 DEF SendResumes, OOMCrashes
  <2> QED BY <2>1, CancelReturns DEF TypeOK, UIs
<1>3. CASE UNCHANGED <<mail, item>>
  BY <1>1, <1>2, <1>3
<1>4. CASE mail.sync /\ mail.crypt # "NoCryptMail" /\ ~UNCHANGED <<mail, item>>
  <2>1. Active = {}
    BY <1>1, <1>4 DEF TypeOK, CryptThreads
  <2>2. PICK r \in IF mail.crypt = "NeedsUpdateInOOM"
                   THEN UpdateCryptOOM(mail, item, Output(out, mail))
                   ELSE {Result(mail, item)} :
          /\ mail' = IF r.mail.crypt = "NeedsSecondAfterWrite"
                     THEN [r.mail EXCEPT !.crypt = "WantsSendMIME"] ELSE r.mail
          /\ item' = r.item
    BY <1>4 DEF SendResumes
  <2>3. CASE mail.crypt = "NeedsUpdateInOOM"
    <3>1. r \in UpdateCryptOOM(mail, item, Output(out, mail))
      BY <2>2, <2>3
    <3>2. r.mail \in Mails
      BY <3>1, UpdateCryptOOMType, OutputType DEF TypeOK, Results
    <3>3. ~r.mail.draft /\ r.mail.crypt \in {"WantsSendInline", "NeedsSecondAfterWrite"}
      BY <2>3, <3>1, OOMUpdate DEF TypeOK
    <3>4. ~mail'.draft /\ mail'.crypt \in {"WantsSendInline", "WantsSendMIME"}
      BY <2>2, <3>2, <3>3 DEF Mails
    <3>5. "close" \notin posted
      BY <1>1, <2>3
    <3> QED BY <1>1, <1>2, <2>1, <3>4, <3>5
  <2>4. CASE mail.crypt # "NeedsUpdateInOOM"
    <3>1. r = Result(mail, item) /\ r.mail = mail /\ item' = item
      BY <2>2, <2>4 DEF Result
    <3>2. mail.crypt = "NeedsSecondAfterWrite" /\ mail'.crypt = "WantsSendMIME"
          /\ ~mail'.draft
      BY <1>4, <2>2, <3>1 DEF TypeOK, Mails
    <3>3. "close" \notin posted
      BY <1>1, <3>2
    <3> QED BY <1>1, <1>2, <2>1, <3>2, <3>3
  <2> QED BY <2>3, <2>4
<1> QED BY <1>3, <1>4 DEF SendResumes, OOMCrashes

LEMMA PinSendGate ==
  ASSUME TypeOK, PinInv, SendGate
  PROVE  PinInv'
<1>1. /\ ui.at \in {"gate", "send"} /\ alive /\ ui.saver \notin {"done", "draft"}
      /\ UNCHANGED <<item, alive, thr, posted>>
  BY DEF SendGate, AtGate
<1>2. /\ ui'.at \in {"deliver", "returned"} /\ ui'.saver = ui.saver
      /\ ui'.sender = ui.sender
  <2>1. Cancel \/ ui' = [ui EXCEPT !.at = "deliver"]
    BY DEF SendGate
  <2> QED BY <2>1, CancelReturns DEF TypeOK, UIs
<1>3. CASE UNCHANGED mail
  BY <1>1, <1>2, <1>3
<1>4. CASE /\ mail.crypt = "WantsSendInline" /\ item.body = "text"
           /\ mail' = [mail EXCEPT !.crypt = "NoCryptMail"]
  <2>1. ~InDone /\ "close" \notin posted /\ ui.sender # "done"
    BY <1>1, <1>4
  <2>2. Active = {}
    BY <1>4, <2>1, Alone
  <2>3. mail'.crypt = "NoCryptMail" /\ ~mail'.draft
    BY <1>4 DEF TypeOK, Mails
  <2> QED BY <1>1, <1>2, <2>1, <2>2, <2>3
<1> QED BY <1>3, <1>4 DEF SendGate

LEMMA PinSendWorkaroundT3656 ==
  ASSUME TypeOK, PinInv, SendWorkaroundT3656
  PROVE  PinInv'
<1>1. /\ ui.at \in {"gate", "send"} /\ alive /\ ui.saver \notin {"done", "draft"}
      /\ mail.crypt = "WantsSendMIME"
      /\ UNCHANGED <<mail, item, alive, thr>>
      /\ posted' \in {posted, posted \cup {"close"}}
  BY DEF SendWorkaroundT3656, SubmitBase, AtGate
<1>2. ui'.at = "returned" /\ ui'.saver = ui.saver /\ ui'.sender = ui.sender
  BY DEF SendWorkaroundT3656, Cancel, TypeOK, UIs
<1> QED BY <1>1, <1>2

LEMMA PinDeliver ==
  ASSUME TypeOK, PinInv, Deliver
  PROVE  PinInv'
<1>1. /\ ui.at = "deliver" /\ alive /\ ui.saver \notin {"done", "draft"}
      /\ UNCHANGED <<mail, alive, thr, posted>>
  BY DEF Deliver
<1>2. ui'.at = "returned" /\ ui'.saver = ui.saver /\ ui'.sender = ui.sender
  BY DEF Deliver, TypeOK, UIs
<1>3. item'.body = item.body
  BY DEF Deliver, TypeOK, Items
<1> QED BY <1>1, <1>2, <1>3

LEMMA PinSecondSendDone ==
  ASSUME TypeOK, PinInv, SecondSendDone
  PROVE  PinInv'
<1>1. /\ InDone /\ ui.sender = "done" /\ alive /\ mail.crypt \in Handed
      /\ ui'.at = "idle" /\ ui'.saver = "none" /\ ui'.sender = "none"
      /\ UNCHANGED <<item, alive>>
  BY DEF SecondSendDone, Idle
<1>2. \A t \in Threads : thr'[t].pc = "off"
  <2>1. PICK s \in Threads : thr[s].pc = "served"
    BY <1>1
  <2> QED BY <2>1 DEF SecondSendDone, Served, Off
<1>3. mail'.crypt = mail.crypt /\ mail'.draft = mail.draft
      /\ mail'.crypter = mail.crypter
  BY DEF SecondSendDone, TypeOK, Mails
<1> QED BY <1>1, <1>2, <1>3

LEMMA PinSplitAndSend ==
  ASSUME TypeOK, PinInv, SplitAndSend
  PROVE  PinInv'
<1>1. /\ ui.at = "idle" /\ ~InDone /\ posted' = posted \ {"split"}
      /\ UNCHANGED <<mail, alive, thr>>
  BY DEF SplitAndSend
<1>2. item'.body = item.body
  BY DEF SplitAndSend, TypeOK, Items
<1>3. \/ UNCHANGED ui
      \/ /\ alive /\ ui'.at = "send" /\ ui'.saver = "none" /\ ui'.sender = "split"
  BY DEF SplitAndSend, Idle
<1> QED BY <1>1, <1>2, <1>3

LEMMA PinThreadDone ==
  ASSUME TypeOK, PinInv, NEW t \in Threads, ThreadDone(t)
  PROVE  PinInv'
<1>1. /\ thr[t].pc = "crypt" /\ t \in Active /\ alive /\ mail.ref /\ ~mail.sync
      /\ mail.crypt = "NeedsActualCrypt" /\ mail.crypter # NoJob /\ ~mail.draft
      /\ UNCHANGED <<item, alive, ui, posted>>
  BY DEF ThreadDone
<1>2. /\ ~InDone /\ ui.at # "crypt" /\ "close" \notin posted
  BY <1>1
<1>3. /\ mail'.crypt = "NeedsUpdateInOOM" /\ mail'.ref /\ ~mail'.sync
      /\ mail'.crypter # NoJob /\ ~mail'.draft
  <2>1. mail' = [mail EXCEPT !.window = TRUE, !.crypt = "NeedsUpdateInOOM"]
    BY <1>1 DEF ThreadDone
  <2> QED BY <1>1, <2>1 DEF TypeOK, Mails
<1>4. /\ thr'[t].pc = "posted" /\ \A u \in Threads \ {t} : thr'[u] = thr[u]
  BY <1>1 DEF ThreadDone, TypeOK, CryptThreads
<1> QED BY <1>1, <1>2, <1>3, <1>4

LEMMA PinCryptoDone ==
  ASSUME Undisturbed, TypeOK, PinInv, NEW t \in Threads, CryptoDone(t)
  PROVE  PinInv'
<1>1. /\ thr[t].pc = "posted" /\ t \in Active /\ alive /\ mail.ref /\ ~mail.sync
      /\ mail.crypt = "NeedsUpdateInOOM" /\ mail.crypter # NoJob /\ ~mail.draft
      /\ ui.at = "idle" /\ "close" \notin posted
      /\ UNCHANGED <<alive, posted>>
  BY DEF CryptoDone, AtIdle
<1>2. PICK r \in UpdateCryptOOM(mail, item, Output(out, mail)) :
        mail' = r.mail /\ item' = r.item /\ ui' = AfterCrypto(r.mail)
  BY <1>1 DEF CryptoDone, OOMCrashes
<1>3. /\ ~mail'.draft /\ mail'.ref /\ mail'.crypter # NoJob
      /\ mail'.crypt \in {"WantsSendInline", "NeedsSecondAfterWrite"}
      /\ mail'.crypt = "WantsSendInline" => item'.body # "text"
  BY <1>1, <1>2, OOMUpdate DEF TypeOK
<1>4. IF mail'.crypt = "NeedsSecondAfterWrite"
      THEN ui'.at = "write" /\ ui'.saver = "done" /\ ui'.sender = "none"
      ELSE ui'.at = "send" /\ ui'.saver = "none" /\ ui'.sender = "done"
  BY <1>2, <1>3 DEF AfterCrypto, Idle
<1>5. /\ thr'[t].pc = "served" /\ \A u \in Threads \ {t} : thr'[u] = thr[u]
  BY DEF CryptoDone, TypeOK, CryptThreads
<1> QED BY <1>1, <1>3, <1>4, <1>5

LEMMA PinNext ==
  ASSUME Undisturbed, TypeOK, TypeOK', PinInv, [Next]_vars
  PROVE  PinInv'
<1>1. ASSUME NEW b \in Bodies, Edit(b) PROVE PinInv'
  BY <1>1 DEF Undisturbed, TypeOK, Mails, Items, UIs, Edit, CanCompose, AtIdle
<1>2. ASSUME NEW f \in {"none", "sign", "encrypt"}, Toggle(f) PROVE PinInv'
  BY <1>2 DEF Undisturbed, TypeOK, Mails, Items, UIs, Toggle, CanCompose, AtIdle
<1>3. CASE BeforeAutoSave
  BY <1>3 DEF Undisturbed, TypeOK, Mails, Items, UIs, CryptThreads, BeforeAutoSave, Idle, CanCompose, AtIdle, Cancel
<1>4. CASE UserSave
  BY <1>4 DEF Undisturbed, TypeOK, Mails, Items, UIs, CryptThreads, UserSave, Idle, CanCompose, AtIdle, Cancel
<1>5. CASE UserSend
  BY <1>5 DEF Undisturbed, TypeOK, Mails, Items, UIs, CryptThreads, UserSend, Idle, CanCompose, AtIdle, Cancel
<1>6. CASE Unload
  BY <1>6 DEF Undisturbed, TypeOK, Mails, Items, UIs, CryptThreads, Unload, Idle, CanCompose, AtIdle, Cancel
<1>7. CASE Write
  BY <1>7, PinWrite
<1>8. CASE AfterWriteFirst
  BY <1>8, PinAfterWriteFirst
<1>9. CASE AfterWriteSecond
  BY <1>9, PinAfterWriteSecond
<1>10. CASE AfterWriteNothing
  BY <1>10 DEF Undisturbed, TypeOK, Mails, Items, UIs, CryptThreads, AfterWriteNothing, Idle, CanCompose, AtIdle, Cancel
<1>11. CASE SyncCrypt
  BY <1>11, PinSyncCrypt
<1>12. CASE SaveReturns
  BY <1>12 DEF Undisturbed, TypeOK, Mails, Items, UIs, CryptThreads, SaveReturns, Idle, CanCompose, AtIdle, Cancel
<1>13. CASE DraftDone
  BY <1>13 DEF Undisturbed, TypeOK, Mails, Items, UIs, CryptThreads, DraftDone, Idle, CanCompose, AtIdle, Cancel
<1>14. CASE SecondSaveDone
  BY <1>14 DEF Undisturbed, TypeOK, Mails, Items, UIs, CryptThreads, SecondSaveDone, Idle, CanCompose, AtIdle, Cancel
<1>15. CASE SendPassesOpen
  BY <1>15 DEF Undisturbed, TypeOK, Mails, Items, UIs, CryptThreads, SendPassesOpen, Idle, CanCompose, AtIdle, Cancel
<1>16. CASE SendPrepares
  BY <1>16, PinSendPrepares
<1>17. CASE SendResumes
  BY <1>17, PinSendResumes
<1>18. CASE SendGate
  BY <1>18, PinSendGate
<1>19. CASE SendWorkaroundT3656
  BY <1>19, PinSendWorkaroundT3656
<1>20. CASE Deliver
  BY <1>20, PinDeliver
<1>21. CASE SendReturns
  BY <1>21 DEF Undisturbed, TypeOK, Mails, Items, UIs, CryptThreads, SendReturns, Idle, CanCompose, AtIdle, Cancel
<1>22. CASE SecondSendDone
  BY <1>22, PinSecondSendDone
<1>23. CASE CloseMail
  BY <1>23 DEF Undisturbed, TypeOK, Mails, Items, UIs, CryptThreads, CloseMail, Idle, CanCompose, AtIdle, Cancel
<1>24. CASE SplitAndSend
  BY <1>24, PinSplitAndSend
<1>25. ASSUME NEW t \in Threads, ThreadStart(t) PROVE PinInv'
  BY <1>25 DEF Undisturbed, TypeOK, Mails, Items, UIs, CryptThreads, ThreadStart, Idle, AtIdle, Off, CryptReady, CryptFailed
<1>26. ASSUME NEW t \in Threads, ThreadResolve(t) PROVE PinInv'
  BY <1>26 DEF Undisturbed, TypeOK, Mails, Items, UIs, CryptThreads, ThreadResolve, Idle, AtIdle, Off, CryptReady, CryptFailed
<1>27. ASSUME NEW t \in Threads, ThreadFail(t) PROVE PinInv'
  BY <1>27 DEF Undisturbed, TypeOK, Mails, Items, UIs, CryptThreads, ThreadFail, Idle, AtIdle, Off, CryptReady, CryptFailed
<1>28. ASSUME NEW t \in Threads, ThreadDone(t) PROVE PinInv'
  BY <1>28, PinThreadDone
<1>29. ASSUME NEW t \in Threads, CryptoDone(t) PROVE PinInv'
  BY <1>29, PinCryptoDone
<1>30. ASSUME NEW t \in Threads, CryptoDoneGone(t) PROVE PinInv'
  BY <1>30 DEF Undisturbed, TypeOK, Mails, Items, UIs, CryptThreads, CryptoDoneGone, Idle, AtIdle, Off, CryptReady, CryptFailed
<1>31. CASE UNCHANGED vars
  BY <1>31 DEF vars
<1> QED BY <1>1, <1>2, <1>3, <1>4, <1>5, <1>6, <1>7, <1>8, <1>9, <1>10, <1>11, <1>12, <1>13, <1>14, <1>15, <1>16, <1>17, <1>18, <1>19, <1>20, <1>21, <1>22, <1>23, <1>24, <1>25, <1>26, <1>27, <1>28, <1>29, <1>30, <1>31 DEF Next, User, Handler, Message, Thread, Over

LEMMA PinInvariant == Undisturbed => (Spec => []PinInv)
<1> SUFFICES ASSUME Undisturbed PROVE Spec => []PinInv
  OBVIOUS
<1>1. TypeOK /\ TypeOK' /\ PinInv /\ [Next]_vars => PinInv'
  BY PinNext
<1> HIDE DEF PinInv
<1> QED BY <1>1, TypeCorrect, PinInit, PTL DEF Spec

\* Where no draft is encrypted, nobody acts between crypto and CRYPTO_DONE and
\* what follows the crypto can be written, Outlook never unloads a mail under a
\* crypto thread or under the handler of its CRYPTO_DONE, however many crypto
\* operations, splits, cancelled Sends and failed Sends there are: the
\* reference prepareCrypto_o takes is released only when they are done.
THEOREM MailStaysPinned == Undisturbed => (Spec => []PinnedWhileCrypting)
<1>1. PinInv => PinnedWhileCrypting
  BY DEF PinnedWhileCrypting
<1> HIDE DEF PinInv
<1> QED BY <1>1, PinInvariant, PTL

\* Under the same conditions updateCryptOOM_o, which dereferences m_crypter
\* unchecked, always finds the crypter of the operation that is being finished.
THEOREM CrypterOutlivesUse == Undisturbed => (Spec => []NoCrash)
<1>1. PinInv => NoCrash
  OBVIOUS
<1> HIDE DEF PinInv, NoCrash
<1> QED BY <1>1, PinInvariant, PTL
-----------------------------------------------------------------------------
HIDE DEF PinInv, OneThread, ThreadHolds, UIHolds, CryptHolds, NoCrash, InDone, Handed, Active

(***************************************************************************)
(* What the pieces of the handlers keep, in every environment.             *)
(***************************************************************************)
SameBut(m, n) == /\ n \in Mails
                 /\ n.draft = m.draft /\ n.sync = m.sync /\ n.ref = m.ref
                 /\ n.inline = m.inline /\ n.window = m.window

LEMMA PreparedKeeps ==
  ASSUME NEW m \in Mails, NEW n \in Prepared(m)
  PROVE  /\ n \in Mails /\ n.crypt = "NeedsFirstAfterWrite" /\ n.crypter = m.crypter
         /\ n.draft = m.draft /\ n.inline = m.inline /\ n.window = m.window
<1>1. n \in Mails
  BY PreparedType
<1>2. PICK sync \in SyncModes :
        n = [m EXCEPT !.crypt = "NeedsFirstAfterWrite", !.sync = sync,
                      !.ref = IF sync THEN @ ELSE TRUE]
  BY DEF Prepared
<1> QED BY <1>1, <1>2 DEF Mails

LEMMA MAPIKeeps ==
  ASSUME NEW m \in Mails, NEW i \in Items, NEW made \in Outputs,
         NEW r \in UpdateCryptMAPI(m, i, made)
  PROVE  SameBut(m, r.mail) /\ r.mail.crypt \in {"WantsSendMIME", "NoCryptMail"}
<1>1. r.mail \in Mails
  BY UpdateCryptMAPIType DEF Results
<1> DEFINE done   == [m EXCEPT !.crypt = "WantsSendMIME",
                               !.crypter = IF m.sync THEN @ ELSE NoJob]
           failed == [done EXCEPT !.crypt = "NoCryptMail"]
           none   == [m EXCEPT !.crypt = "NoCryptMail"]
<1>2. r.mail \in {done, failed, none}
  <2> HIDE DEF done, failed, none
  <2> QED BY DEF UpdateCryptMAPI, OneIf, Result, done, failed, none
<1>3. ASSUME NEW n \in {done, failed, none}
      PROVE  /\ n.crypt \in {"WantsSendMIME", "NoCryptMail"}
             /\ n.draft = m.draft /\ n.sync = m.sync /\ n.ref = m.ref
             /\ n.inline = m.inline /\ n.window = m.window
  BY <1>3 DEF Mails
<1> HIDE DEF done, failed, none
<1> QED BY <1>1, <1>2, <1>3 DEF SameBut

LEMMA OOMKeeps ==
  ASSUME NEW m \in Mails, NEW i \in Items, NEW made \in Outputs,
         NEW r \in UpdateCryptOOM(m, i, made)
  PROVE  /\ SameBut(m, r.mail)
         /\ IF m.crypt = "NeedsUpdateInOOM"
            THEN r.mail.crypt \in {"NoCryptMail", "WantsSendInline", "NeedsSecondAfterWrite"}
            ELSE r.mail.crypt = m.crypt
<1>1. r.mail \in Mails
  BY UpdateCryptOOMType DEF Results
<1> DEFINE next == [m EXCEPT !.crypter = IF m.sync THEN NoJob ELSE @]
           M(c) == [next EXCEPT !.crypt = c]
           lost == [m EXCEPT !.crypter = NoJob]
           none == [m EXCEPT !.crypt = "NoCryptMail"]
<1>2. IF m.crypt = "NeedsUpdateInOOM"
      THEN r.mail \in {none, M("NoCryptMail"), M("WantsSendInline"),
                       M("NeedsSecondAfterWrite")}
      ELSE r.mail = lost
  <2> HIDE DEF next, M, lost, none
  <2> QED BY DEF UpdateCryptOOM, OneIf, Result, next, M, lost, none
<1>3. ASSUME NEW n \in {none, M("NoCryptMail"), M("WantsSendInline"),
                        M("NeedsSecondAfterWrite")}
      PROVE  /\ n.crypt \in {"NoCryptMail", "WantsSendInline", "NeedsSecondAfterWrite"}
             /\ n.draft = m.draft /\ n.sync = m.sync /\ n.ref = m.ref
             /\ n.inline = m.inline /\ n.window = m.window
  BY <1>3 DEF Mails
<1>4. /\ lost.crypt = m.crypt
      /\ lost.draft = m.draft /\ lost.sync = m.sync /\ lost.ref = m.ref
      /\ lost.inline = m.inline /\ lost.window = m.window
  BY DEF Mails
<1> HIDE DEF next, M, lost, none
<1> QED BY <1>1, <1>2, <1>3, <1>4 DEF SameBut

LEMMA SyncKeeps ==
  ASSUME NEW m \in Mails, NEW i \in Items, NEW made \in Outputs,
         NEW d \in SyncDone(m, i, made)
  PROVE  /\ d.mail \in Mails /\ ~d.mail.draft
         /\ d.mail.sync = m.sync /\ d.mail.ref = m.ref
         /\ d.mail.inline = m.inline /\ d.mail.window = m.window
         /\ d.mail.crypt \in {"NoCryptMail", "NeedsUpdateInOOM"}
         /\ m.draft => d.mail.crypt = "NoCryptMail"
<1>1. PICK r \in UpdateCryptMAPI(m, i, made) :
        d = IF m.draft
            THEN Result([r.mail EXCEPT !.draft = FALSE, !.crypt = "NoCryptMail"], r.item)
            ELSE IF r.mail.crypt = "WantsSendMIME"
            THEN Result([r.mail EXCEPT !.crypt = "NeedsUpdateInOOM"], r.item)
            ELSE Result([r.mail EXCEPT !.crypter = NoJob], r.item)
  BY DEF SyncDone
<1>2. r.mail \in Mails /\ SameBut(m, r.mail)
      /\ r.mail.crypt \in {"WantsSendMIME", "NoCryptMail"}
  BY MAPIKeeps DEF SameBut
<1>3. \/ m.draft /\ d.mail = [r.mail EXCEPT !.draft = FALSE, !.crypt = "NoCryptMail"]
      \/ /\ ~m.draft /\ r.mail.crypt = "WantsSendMIME"
         /\ d.mail = [r.mail EXCEPT !.crypt = "NeedsUpdateInOOM"]
      \/ /\ ~m.draft /\ r.mail.crypt # "WantsSendMIME"
         /\ d.mail = [r.mail EXCEPT !.crypter = NoJob]
  BY <1>1 DEF Result
<1>4. d.mail \in Mails
  BY SyncDoneType DEF Results
<1> QED BY <1>2, <1>3, <1>4 DEF SameBut, Mails

\* The first AfterWrite: it gives up, encrypts at once, starts a thread, or
\* finds nothing to do.
LEMMA FirstDoes ==
  ASSUME TypeOK, AfterWriteFirst
  PROVE  /\ mail'.draft = mail.draft /\ mail'.sync = mail.sync
         /\ mail'.inline \in DoInline \cup {mail.inline}
         /\ ui'.saver = ui.saver /\ ui'.sender = ui.sender /\ ui'.err = ui.err
         /\ \/ /\ mail'.crypt = "NoCryptMail" /\ ui'.at = "saved" /\ thr' = thr
               /\ mail'.window \in {mail.window, TRUE}
            \/ /\ mail'.crypt = "NeedsActualCrypt" /\ ui'.at = "crypt" /\ thr' = thr
               /\ mail.sync /\ ~mail'.window /\ mail'.crypter = "ui"
               /\ mail'.inline \in DoInline
            \/ /\ mail'.crypt = "NeedsActualCrypt" /\ ui'.at = "saved"
               /\ ~mail.sync /\ ~mail'.window
               /\ \E t \in Free : /\ thr' = [thr EXCEPT ![t].pc = "start"]
                                  /\ mail'.crypter = t
               /\ mail'.inline \in DoInline
            \/ /\ StartsNothing /\ \E flags \in FlagsRead : ~NeedsCrypto(flags)
               /\ mail'.crypt = "NeedsActualCrypt" /\ ui'.at = "saved" /\ thr' = thr
               /\ mail'.window = mail.window
<1>1. mail \in Mails /\ ui \in UIs
  BY DEF TypeOK
<1>2. CASE StartFails
  <2>1. mail' = [Released(mail) EXCEPT !.crypt = "NoCryptMail"]
    BY <1>2 DEF StartFails
  <2>2. Released(mail) \in Mails /\ Released(mail).draft = mail.draft
        /\ Released(mail).sync = mail.sync /\ Released(mail).window = mail.window
        /\ Released(mail).inline = mail.inline
    BY <1>1 DEF Released, Mails
  <2>3. /\ mail'.draft = mail.draft /\ mail'.sync = mail.sync
        /\ mail'.window = mail.window /\ mail'.crypt = "NoCryptMail"
        /\ mail'.inline = mail.inline
    BY <2>1, <2>2 DEF Mails
  <2>4. thr' = thr /\ ui' = [ui EXCEPT !.at = "saved"]
    BY <1>2 DEF StartFails
  <2> QED BY <1>1, <2>3, <2>4 DEF UIs
<1>3. ASSUME NEW inline \in DoInline, CollectFails(inline)
      PROVE  /\ mail'.draft = mail.draft /\ mail'.sync = mail.sync
             /\ mail'.window = TRUE /\ mail'.crypt = "NoCryptMail"
             /\ mail'.inline = inline
             /\ thr' = thr /\ ui' = [ui EXCEPT !.at = "saved"]
  <2>1. mail' = [Released(mail) EXCEPT !.crypt = "NoCryptMail", !.crypter = "ui",
                                       !.inline = inline, !.window = TRUE]
    BY <1>3 DEF CollectFails
  <2>2. Released(mail) \in Mails /\ Released(mail).draft = mail.draft
        /\ Released(mail).sync = mail.sync
    BY <1>1 DEF Released, Mails
  <2> QED BY <1>3, <2>1, <2>2 DEF CollectFails, Mails
<1>4. ASSUME NEW inline \in DoInline, NEW j, StartsCrypt(j, inline)
      PROVE  /\ mail'.draft = mail.draft /\ mail'.sync = mail.sync /\ ~mail'.window
             /\ mail'.crypt = "NeedsActualCrypt" /\ mail'.crypter = j
             /\ mail'.inline = inline
  BY <1>1, <1>4 DEF StartsCrypt, Mails
<1>5. ASSUME NEW inline \in DoInline, StartsSync(inline)
      PROVE  /\ mail.sync /\ thr' = thr /\ ui' = [ui EXCEPT !.at = "crypt"]
             /\ StartsCrypt("ui", inline)
  BY <1>5 DEF StartsSync
<1>6. ASSUME NEW inline \in DoInline, NEW t \in Threads, StartsThread(t, inline)
      PROVE  /\ ~mail.sync /\ t \in Free /\ thr' = [thr EXCEPT ![t].pc = "start"]
             /\ ui' = [ui EXCEPT !.at = "saved"]
             /\ StartsCrypt(t, inline)
  BY <1>6 DEF StartsThread
<1>7. \A at : [ui EXCEPT !.at = at].saver = ui.saver /\ [ui EXCEPT !.at = at].sender = ui.sender
              /\ [ui EXCEPT !.at = at].err = ui.err /\ [ui EXCEPT !.at = at].at = at
  BY <1>1 DEF UIs
<1>8. CASE \E inline \in DoInline : CollectFails(inline)
  <2>1. PICK inline \in DoInline : CollectFails(inline)
    BY <1>8
  <2>2. /\ mail'.draft = mail.draft /\ mail'.sync = mail.sync
        /\ mail'.window = TRUE /\ mail'.crypt = "NoCryptMail"
        /\ mail'.inline = inline
        /\ thr' = thr /\ ui' = [ui EXCEPT !.at = "saved"]
    BY <1>3, <2>1
  <2> QED BY <1>7, <2>2
<1>9. CASE \E inline \in DoInline : StartsSync(inline)
  <2>1. PICK inline \in DoInline : StartsSync(inline)
    BY <1>9
  <2>2. /\ mail.sync /\ thr' = thr /\ ui' = [ui EXCEPT !.at = "crypt"]
        /\ StartsCrypt("ui", inline)
    BY <1>5, <2>1
  <2>3. /\ mail'.draft = mail.draft /\ mail'.sync = mail.sync /\ ~mail'.window
        /\ mail'.crypt = "NeedsActualCrypt" /\ mail'.crypter = "ui"
        /\ mail'.inline = inline
    BY <1>4, <2>2
  <2> QED BY <1>7, <2>1, <2>2, <2>3
<1>10. CASE \E inline \in DoInline : \E t \in Threads : StartsThread(t, inline)
  <2>1. PICK inline \in DoInline, t \in Threads : StartsThread(t, inline)
    BY <1>10
  <2>2. /\ ~mail.sync /\ t \in Free /\ thr' = [thr EXCEPT ![t].pc = "start"]
        /\ ui' = [ui EXCEPT !.at = "saved"]
        /\ StartsCrypt(t, inline)
    BY <1>6, <2>1
  <2>3. /\ mail'.draft = mail.draft /\ mail'.sync = mail.sync /\ ~mail'.window
        /\ mail'.crypt = "NeedsActualCrypt" /\ mail'.crypter = t
        /\ mail'.inline = inline
    BY <1>4, <2>2
  <2> QED BY <1>7, <2>1, <2>2, <2>3
<1>11. CASE StartsNothing /\ \E flags \in FlagsRead : ~NeedsCrypto(flags)
  <2>1. /\ mail'.draft = mail.draft /\ mail'.sync = mail.sync
        /\ mail'.window = mail.window /\ mail'.crypt = "NeedsActualCrypt"
        /\ mail'.inline = mail.inline
    BY <1>1, <1>11 DEF StartsNothing, Mails
  <2>2. thr' = thr /\ ui' = [ui EXCEPT !.at = "saved"]
    BY <1>11 DEF StartsNothing
  <2> QED BY <1>7, <1>11, <2>1, <2>2
<1> QED BY <1>2, <1>8, <1>9, <1>10, <1>11 DEF AfterWriteFirst
-----------------------------------------------------------------------------
(***************************************************************************)
(* Nothing leaves before the user asked for it.                            *)
(***************************************************************************)
\* A mail with draft encryption is not split: the split sends it.
Unattended == ~({"draft_key", "splitBCCMails"} \subseteq Options)

\* Until the user presses Send there is no crypto but that of one draft, and
\* the draft flag, which turns the end of a crypto operation into a Save, stays
\* set until that operation is over.
UnaskedInv ==
  /\ "draft_key" \notin Options => ~mail.draft
  /\ ~ghost.asked =>
       /\ sent = "no" /\ posted = {}
       /\ ui.sender = "none" /\ ui.saver \in {"none", "auto", "user", "draft"}
       /\ ui.at \notin {"send", "gate", "deliver", "returned"}
       /\ mail.crypt # "NoCryptMail" => mail.draft
       /\ \A t \in Active : mail.draft
       /\ \A t, u \in Active : t = u
       /\ ui.at = "crypt" \/ mail.crypt = "NeedsFirstAfterWrite" => Active = {}
       /\ ui.saver = "draft" =>
            /\ mail.draft /\ ui.at # "crypt" /\ mail.crypt # "NeedsFirstAfterWrite"
            /\ \A t \in Active : thr[t].pc = "served"

\* Only the user's Send makes a mail asked for, and nothing takes it back.
LEMMA AskedStays ==
  ASSUME TypeOK, [Next]_vars
  PROVE  /\ ~ghost'.asked => ~ghost.asked /\ ~UserSend
         /\ UserSend \/ ghost'.asked = ghost.asked
<1>1. UserSend => ghost'.asked
  BY DEF UserSend, TypeOK, Ghosts
<1>2. GhostPrepared(ghost).asked = ghost.asked /\ GhostLeft.asked = ghost.asked
  BY DEF GhostPrepared, GhostLeft, TypeOK, Ghosts
<1>3. ~UserSend => ghost'.asked = ghost.asked
  BY <1>2 DEF Next, User, Handler, Message, Thread, Over, vars, TypeOK, Ghosts, Edit, Toggle,
              BeforeAutoSave, UserSave, Unload, Write, AfterWriteFirst, AfterWriteSecond,
              AfterWriteNothing, SyncCrypt, SaveReturns, DraftDone, SecondSaveDone,
              SendPassesOpen, SendPrepares, SendResumes, SendGate, SendWorkaroundT3656,
              SubmitBase, SubmitMessage, Deliver, SendReturns, SecondSendDone, CloseMail,
              SplitAndSend, ThreadStart, ThreadResolve, ThreadFail, ThreadDone, CryptoDone,
              CryptoDoneGone
<1> QED BY <1>1, <1>3

\* Without draft encryption nothing sets the draft flag.
LEMMA NoDraft ==
  ASSUME TypeOK, "draft_key" \notin Options, ~mail.draft, [Next]_vars
  PROVE  ~mail'.draft
<1>1. mail \in Mails /\ item \in Items
  BY DEF TypeOK
<1>2. \A m \in Mails : ~m.draft => ~CryptFailed(m).draft /\ ~Released(m).draft
  BY DEF CryptFailed, Released, Mails
<1>3. CASE AfterWriteFirst
  BY <1>3, FirstDoes
<1>4. CASE AfterWriteSecond
  BY <1>1, <1>4, MAPIKeeps, OutputType DEF AfterWriteSecond, SameBut, TypeOK
<1>5. ASSUME NEW made \in Outputs,
             NEW d \in SyncDone([mail EXCEPT !.window = TRUE], item, made)
      PROVE  ~d.mail.draft
  <2>1. [mail EXCEPT !.window = TRUE] \in Mails
    BY <1>1 DEF Mails
  <2> QED BY <1>1, <2>1, SyncKeeps
<1>6. CASE SyncCrypt
  <2>1. Made(mail) \in Outputs
    BY MadeType DEF Outputs
  <2>2. ~[mail EXCEPT !.window = TRUE].draft
    BY <1>1 DEF Mails
  <2> QED BY <1>1, <1>2, <1>5, <1>6, <2>1, <2>2 DEF SyncCrypt
<1>7. CASE SendPrepares
  <2>1. [mail EXCEPT !.draft = FALSE] \in Mails /\ ~[mail EXCEPT !.draft = FALSE].draft
    BY <1>1 DEF Mails
  <2> QED BY <1>7, <2>1, PreparedKeeps DEF SendPrepares
<1>8. ASSUME NEW r \in UpdateCryptOOM(mail, item, Output(out, mail)) \cup {Result(mail, item)}
      PROVE  r.mail \in Mails /\ ~r.mail.draft
  <2>1. Output(out, mail) \in Outputs
    BY OutputType DEF TypeOK
  <2> QED BY <1>1, <2>1, OOMKeeps DEF SameBut, Result
<1>9. CASE SendResumes
  <2>1. \/ UNCHANGED mail
        \/ \E r \in UpdateCryptOOM(mail, item, Output(out, mail)) \cup {Result(mail, item)} :
             mail' = IF r.mail.crypt = "NeedsSecondAfterWrite"
                     THEN [r.mail EXCEPT !.crypt = "WantsSendMIME"] ELSE r.mail
    BY <1>9 DEF SendResumes
  <2> QED BY <1>8, <2>1 DEF Mails
<1>10. ASSUME NEW t \in Threads, CryptoDone(t) PROVE ~mail'.draft
  BY <1>8, <1>10 DEF CryptoDone
<1>11. ASSUME NEW t \in Threads, ThreadDone(t) PROVE ~mail'.draft
  <2>1. out' \in [Jobs -> Outputs]
    BY <1>11, ThreadDoneType DEF TypeOK
  <2>2. Output(out', mail) \in Outputs
    BY <1>1, <2>1, OutputType
  <2> QED BY <1>1, <1>5, <1>11, <2>2 DEF ThreadDone, Mails
<1>12. ASSUME NEW t \in Threads, ThreadStart(t) \/ ThreadFail(t) PROVE ~mail'.draft
  BY <1>1, <1>2, <1>12 DEF ThreadStart, ThreadFail, Mails
<1>13. CASE SendGate \/ DraftDone \/ SecondSendDone \/ CloseMail
  BY <1>1, <1>13 DEF SendGate, DraftDone, SecondSendDone, CloseMail, Mails
<1>14. CASE BeforeAutoSave \/ Write
  BY <1>14 DEF BeforeAutoSave, Write, WriteStartsDraft
<1> QED BY <1>3, <1>4, <1>6, <1>7, <1>9, <1>10, <1>11, <1>12, <1>13, <1>14
        DEF Next, User, Handler, Message, Thread, Over, vars, Edit, Toggle,
            UserSave, UserSend, Unload, AfterWriteNothing, SaveReturns, SecondSaveDone,
            SendPassesOpen, SendWorkaroundT3656, Deliver, SendReturns, SplitAndSend,
            ThreadResolve, CryptoDoneGone

LEMMA UnaskedNext ==
  ASSUME Unattended, TypeOK, TypeOK', UnaskedInv, [Next]_vars, ~ghost'.asked
  PROVE  UnaskedInv'
<1> USE DEF Active
<1>0. ~ghost.asked /\ ~UserSend /\ ("draft_key" \notin Options => ~mail'.draft)
  BY AskedStays, NoDraft DEF UnaskedInv
<1>1. /\ mail \in Mails /\ item \in Items /\ ui \in UIs /\ thr \in [Threads -> CryptThreads]
      /\ out \in [Jobs -> Outputs] /\ mail' \in Mails
  BY DEF TypeOK
<1> DEFINE U == /\ sent = "no" /\ posted = {}
                /\ ui.sender = "none" /\ ui.saver \in {"none", "auto", "user", "draft"}
                /\ ui.at \notin {"send", "gate", "deliver", "returned"}
                /\ mail.crypt # "NoCryptMail" => mail.draft
                /\ \A t \in Active : mail.draft
                /\ \A t, u \in Active : t = u
                /\ ui.at = "crypt" \/ mail.crypt = "NeedsFirstAfterWrite" => Active = {}
                /\ ui.saver = "draft" =>
                     /\ mail.draft /\ ui.at # "crypt" /\ mail.crypt # "NeedsFirstAfterWrite"
                     /\ \A t \in Active : thr[t].pc = "served"
<1>2. U
  BY <1>0 DEF UnaskedInv
<1> SUFFICES U'
  BY <1>0 DEF UnaskedInv
<1>3. CASE UNCHANGED <<mail, thr, ui, sent, posted>>
  BY <1>2, <1>3
<1>4. CASE BeforeAutoSave
  <2>1. /\ ui'.at = "write" /\ ui'.saver = "auto" /\ ui'.sender = "none"
        /\ UNCHANGED <<thr, posted, sent>>
    BY <1>4 DEF BeforeAutoSave, Idle
  <2>2. CASE mail' = mail
    BY <1>2, <2>1, <2>2
  <2>3. CASE mail' # mail
    <3>1. ~mail.draft /\ mail' \in PreparedOrNot([mail EXCEPT !.draft = TRUE])
      BY <1>4, <2>3 DEF BeforeAutoSave
    <3>2. [mail EXCEPT !.draft = TRUE] \in Mails /\ [mail EXCEPT !.draft = TRUE].draft
      BY <1>1 DEF Mails
    <3>3. mail'.draft
      BY <3>1, <3>2, PreparedKeeps DEF PreparedOrNot, OneIf
    <3>4. Active = {}
      BY <1>2, <3>1
    <3> QED BY <1>2, <2>1, <3>3, <3>4
  <2> QED BY <2>2, <2>3
<1>5. CASE UserSave
  BY <1>2, <1>5 DEF UserSave, Idle
<1>6. CASE Write
  <2>1. /\ ui'.at \in {"saved", "afterwrite"} /\ ui'.saver = ui.saver /\ ui'.sender = ui.sender
        /\ UNCHANGED <<thr, posted, sent>>
    BY <1>1, <1>6 DEF Write, UIs
  <2>2. CASE mail' = mail
    BY <1>2, <2>1, <2>2
  <2>3. CASE mail' # mail
    <3>1. ~mail.draft /\ mail' \in PreparedOrNot([mail EXCEPT !.draft = TRUE])
      BY <1>6, <2>3 DEF Write, WriteStartsDraft
    <3>2. [mail EXCEPT !.draft = TRUE] \in Mails /\ [mail EXCEPT !.draft = TRUE].draft
      BY <1>1 DEF Mails
    <3>3. mail'.draft
      BY <3>1, <3>2, PreparedKeeps DEF PreparedOrNot, OneIf
    <3>4. Active = {}
      BY <1>2, <3>1
    <3> QED BY <1>2, <2>1, <3>1, <3>3, <3>4
  <2> QED BY <2>2, <2>3
<1>7. CASE AfterWriteFirst
  <2>1. /\ mail.draft /\ Active = {} /\ ui.saver # "draft" /\ ui.at = "afterwrite"
        /\ UNCHANGED <<posted, sent>>
    BY <1>2, <1>7 DEF AfterWriteFirst
  <2>2. /\ mail'.draft /\ mail'.crypt \in {"NoCryptMail", "NeedsActualCrypt"}
        /\ ui'.at \in {"saved", "crypt"} /\ ui'.saver = ui.saver /\ ui'.sender = ui.sender
        /\ thr' = thr \/ (ui'.at = "saved" /\ \E t \in Free : thr' = [thr EXCEPT ![t].pc = "start"])
    BY <1>7, <2>1, FirstDoes
  <2>3. CASE thr' = thr
    BY <1>2, <2>1, <2>2, <2>3
  <2>4. CASE thr' # thr
    <3>1. PICK t \in Threads : thr' = [thr EXCEPT ![t].pc = "start"]
      BY <2>2, <2>4 DEF Free
    <3>2. \A u \in Threads \ {t} : thr'[u].pc = "off"
      BY <1>1, <2>1, <3>1
    <3> QED BY <1>2, <2>1, <2>2, <2>4, <3>2
  <2> QED BY <2>3, <2>4
<1>8. CASE AfterWriteSecond
  <2>1. /\ mail'.draft = mail.draft /\ mail'.crypt \in {"WantsSendMIME", "NoCryptMail"}
    BY <1>1, <1>8, MAPIKeeps, OutputType DEF AfterWriteSecond, SameBut
  <2>2. /\ ui'.at = "saved" /\ ui'.saver = ui.saver /\ ui'.sender = ui.sender
        /\ UNCHANGED <<thr, posted, sent>> /\ mail.crypt # "NoCryptMail"
    BY <1>1, <1>8 DEF AfterWriteSecond, UIs
  <2> QED BY <1>2, <2>1, <2>2
<1>9. CASE AfterWriteNothing \/ SaveReturns
  <2>1. /\ ui'.at \in {"saved", "idle"} /\ ui'.saver \in {ui.saver, "none"} /\ ui'.sender = "none"
        /\ UNCHANGED <<mail, thr, posted, sent>>
    BY <1>1, <1>2, <1>9 DEF AfterWriteNothing, SaveReturns, UIs, Idle
  <2> QED BY <1>2, <2>1
<1>10. CASE SyncCrypt
  <2>1. /\ Active = {} /\ ui.saver # "draft"
        /\ ui'.at = "saved" /\ ui'.saver = ui.saver /\ ui'.sender = ui.sender
        /\ UNCHANGED <<thr, sent>>
    BY <1>1, <1>2, <1>10 DEF SyncCrypt, UIs
  <2>2. CASE ~CryptReady
    <3>1. mail'.draft = mail.draft /\ mail'.crypt = mail.crypt /\ posted' = posted
      BY <1>1, <1>10, <2>2 DEF SyncCrypt, Mails
    <3> QED BY <1>2, <2>1, <3>1
  <2>3. CASE CryptReady
    <3>1. mail.draft /\ "draft_key" \in Options /\ ~MustSplit
      BY <1>2, <2>3 DEF CryptReady, MustSplit, Unattended, UnaskedInv
    <3>2. Made(mail) \in Outputs
      BY MadeType DEF Outputs
    <3>3. [mail EXCEPT !.window = TRUE] \in Mails /\ [mail EXCEPT !.window = TRUE].draft
      BY <1>1, <3>1 DEF Mails
    <3>4. mail'.crypt = "NoCryptMail" /\ posted' = posted
      <4>1. CryptFailed(mail).crypt = "NoCryptMail"
        BY <1>1 DEF CryptFailed, Mails
      <4>2. \A d \in SyncDone([mail EXCEPT !.window = TRUE], item, Made(mail)) :
              d.mail.crypt = "NoCryptMail"
        BY <1>1, <3>2, <3>3, SyncKeeps
      <4> QED BY <1>10, <2>3, <3>1, <4>1, <4>2 DEF SyncCrypt
    <3> QED BY <1>2, <2>1, <3>4
  <2> QED BY <2>2, <2>3
<1>11. CASE DraftDone
  <2>1. \A t \in Threads : thr'[t].pc = "off"
    BY <1>1, <1>2, <1>11 DEF DraftDone, Served, Off
  <2>2. /\ mail'.crypt = "NoCryptMail" /\ ui' = Idle /\ UNCHANGED <<posted, sent>>
    BY <1>1, <1>11 DEF DraftDone, Mails
  <2> QED BY <1>2, <2>1, <2>2 DEF Idle
<1>12. ASSUME NEW t \in Threads, ThreadStart(t)
       PROVE  U'
  <2>1. /\ t \in Active /\ thr[t].pc # "served"
        /\ \A u \in Threads \ {t} : thr'[u] = thr[u]
        /\ UNCHANGED <<ui, posted, sent>>
    BY <1>1, <1>12 DEF ThreadStart
  <2>2. mail'.crypt = mail.crypt /\ mail'.draft = mail.draft
    BY <1>1, <1>12 DEF ThreadStart, Mails
  <2> QED BY <1>2, <2>1, <2>2
<1>13. ASSUME NEW t \in Threads, ThreadResolve(t)
       PROVE  U'
  <2>1. t \in Active /\ thr[t].pc # "served" /\ mail.draft
    BY <1>2, <1>13 DEF ThreadResolve
  <2>2. ~MustSplit
    BY <2>1 DEF MustSplit, Unattended, UnaskedInv
  <2>3. /\ \A u \in Threads \ {t} : thr'[u] = thr[u]
        /\ UNCHANGED <<mail, ui, posted, sent>>
    BY <1>1, <1>13, <2>2 DEF ThreadResolve
  <2> QED BY <1>2, <2>1, <2>3
<1>14. ASSUME NEW t \in Threads, ThreadFail(t) \/ ThreadDone(t)
       PROVE  U'
  <2>1. /\ t \in Active /\ thr[t].pc # "served"
        /\ \A u \in Threads \ {t} : thr'[u] = thr[u]
        /\ UNCHANGED <<ui, posted, sent>>
    BY <1>1, <1>14 DEF ThreadFail, ThreadDone
  <2>2. \/ thr'[t].pc = "off" /\ UNCHANGED mail
        \/ thr'[t].pc = "off" /\ mail'.crypt = "NoCryptMail"
        \/ thr'[t].pc = "posted" /\ mail'.draft /\ mail'.crypt = "NeedsUpdateInOOM"
    <3>1. CASE ThreadFail(t)
      BY <1>1, <3>1 DEF ThreadFail, CryptFailed, Off, Mails
    <3>2. CASE ThreadDone(t)
      <4>1. out' \in [Jobs -> Outputs]
        BY <3>2, ThreadDoneType DEF TypeOK
      <4>2. Output(out', mail) \in Outputs
        BY <1>1, <4>1, OutputType
      <4>3. [mail EXCEPT !.window = TRUE] \in Mails /\ [mail EXCEPT !.window = TRUE].draft
        BY <1>1, <1>2, <2>1 DEF Mails
      <4>4. CASE alive /\ ~mail.sync
        <5>1. /\ mail' = [mail EXCEPT !.window = TRUE, !.crypt = "NeedsUpdateInOOM"]
              /\ thr' = [thr EXCEPT ![t].pc = "posted"]
          BY <3>2, <4>4 DEF ThreadDone
        <5>2. thr'[t].pc = "posted"
          BY <1>1, <5>1 DEF CryptThreads
        <5>3. mail'.crypt = "NeedsUpdateInOOM" /\ mail'.draft
          BY <1>1, <1>2, <2>1, <5>1 DEF Mails
        <5> QED BY <5>2, <5>3
      <4>5. CASE alive /\ mail.sync
        <5>1. PICK d \in SyncDone([mail EXCEPT !.window = TRUE], item, Output(out', mail)) :
                mail' = d.mail
          BY <3>2, <4>5 DEF ThreadDone
        <5>2. mail'.crypt = "NoCryptMail"
          BY <1>1, <4>2, <4>3, <5>1, SyncKeeps
        <5>3. thr'[t].pc = "off"
          BY <1>1, <3>2, <4>5 DEF ThreadDone, Off
        <5> QED BY <5>2, <5>3
      <4>6. CASE ~alive
        BY <1>1, <3>2, <4>6 DEF ThreadDone, Off
      <4> QED BY <4>4, <4>5, <4>6
    <3> QED BY <1>14, <3>1, <3>2
  <2> QED BY <1>2, <2>1, <2>2
<1>15. ASSUME NEW t \in Threads, CryptoDone(t)
       PROVE  U'
  <2>1. /\ t \in Active /\ thr[t].pc = "posted" /\ mail.draft /\ ui.at = "idle"
        /\ thr'[t].pc = "served" /\ \A u \in Threads \ {t} : thr'[u] = thr[u]
        /\ UNCHANGED <<posted, sent>>
    BY <1>1, <1>2, <1>15 DEF CryptoDone, AtIdle
  <2>2. mail.crypt # "NeedsFirstAfterWrite"
    BY <1>2, <2>1
  <2>3. CASE OOMCrashes(mail)
    <3>1. ui'.at = "crashed" /\ ui'.saver = "none" /\ ui'.sender = "none" /\ mail' = mail
      BY <1>15, <2>3 DEF CryptoDone, Idle
    <3> QED BY <1>2, <2>1, <2>2, <3>1
  <2>4. CASE ~OOMCrashes(mail)
    <3>1. PICK r \in UpdateCryptOOM(mail, item, Output(out, mail)) :
            mail' = r.mail /\ ui' = AfterCrypto(r.mail)
      BY <1>15, <2>1, <2>4 DEF CryptoDone
    <3>2. mail'.draft /\ mail'.crypt # "NeedsFirstAfterWrite"
      <4>1. Output(out, mail) \in Outputs
        BY <1>1, OutputType
      <4> QED BY <1>1, <2>1, <2>2, <3>1, <4>1, OOMKeeps DEF SameBut
    <3>3. ui'.at = "write" /\ ui'.saver = "draft" /\ ui'.sender = "none"
      BY <3>1, <3>2 DEF AfterCrypto, Idle
    <3> QED BY <1>2, <2>1, <3>2, <3>3
  <2> QED BY <2>3, <2>4
<1>16. ASSUME NEW t \in Threads, CryptoDoneGone(t)
       PROVE  U'
  BY <1>1, <1>2, <1>16 DEF CryptoDoneGone, Off
<1>17. CASE UNCHANGED vars
  BY <1>3, <1>17 DEF vars
<1> QED
  <2>1. ~SendPassesOpen /\ ~SendPrepares /\ ~SendResumes /\ ~SendGate /\ ~SendWorkaroundT3656
        /\ ~Deliver /\ ~SendReturns /\ ~SecondSendDone /\ ~SecondSaveDone
        /\ ~CloseMail /\ ~SplitAndSend
    BY <1>2 DEF SendPassesOpen, SendPrepares, SendResumes, SendGate, SendWorkaroundT3656, AtGate,
                Deliver, SendReturns, SecondSendDone, SecondSaveDone, CloseMail, SplitAndSend
  <2>2. ASSUME (\E b \in Bodies : Edit(b)) \/ (\E f \in {"none", "sign", "encrypt"} : Toggle(f))
               \/ Unload \/ Over
        PROVE  U'
    BY <1>3, <2>2 DEF Edit, Toggle, Unload, Over, vars
  <2> QED BY <1>0, <1>4, <1>5, <1>6, <1>7, <1>8, <1>9, <1>10, <1>11, <1>12, <1>13, <1>14, <1>15,
             <1>16, <1>17, <2>1, <2>2 DEF Next, User, Handler, Message, Thread

LEMMA UnaskedInit == Init => UnaskedInv
BY DEF Init, Idle, Off, UnaskedInv, Active

LEMMA UnaskedInvariant == Unattended => (Spec => []UnaskedInv)
<1> SUFFICES ASSUME Unattended PROVE Spec => []UnaskedInv
  OBVIOUS
<1>1. TypeOK /\ TypeOK' /\ UnaskedInv /\ [Next]_vars => UnaskedInv'
  <2> SUFFICES ASSUME TypeOK, TypeOK', UnaskedInv, [Next]_vars PROVE UnaskedInv'
    OBVIOUS
  <2>1. CASE ~ghost'.asked
    BY <2>1, UnaskedNext
  <2>2. CASE ghost'.asked
    BY <2>2, NoDraft DEF UnaskedInv
  <2> QED BY <2>1, <2>2
<1> HIDE DEF UnaskedInv
<1> QED BY <1>1, TypeCorrect, UnaskedInit, PTL DEF Spec

\* Unless a mail that autosaves encrypt for the draft key can be split, nothing
\* but the user's Send makes a mail leave: neither autosaves and the
\* encryption of drafts, whose CRYPTO_DONE only saves, nor a message that is
\* still under way, whatever the handlers meet and however they interleave.
THEOREM SentOnRequestAlways == Unattended => (Spec => []SentOnRequest)
<1> SUFFICES ASSUME Unattended PROVE Spec => []SentOnRequest
  OBVIOUS
<1>1. UnaskedInv => SentOnRequest
  BY DEF UnaskedInv, SentOnRequest
<1> HIDE DEF UnaskedInv, SentOnRequest
<1> QED BY <1>1, UnaskedInvariant, PTL
-----------------------------------------------------------------------------
(***************************************************************************)
(* The compose window is disabled as long as a crypto thread works.        *)
(***************************************************************************)
\* Draft encryption, if it is on, begins only when no crypto is running.
SavesApart == "autosave" \notin Env \/ "draft_key" \notin Options

\* The crypto operations that have not reached the UI thread yet.
Busy == {t \in Threads : thr[t].pc \in {"start", "resolve", "crypt", "split", "posted"}}

\* One crypto operation at a time, the crypto state of the mail follows it, and
\* nothing prepares the mail again before it is over.
WindowInv ==
  /\ \A t, u \in Busy : t = u
  /\ \A t \in Working : mail.crypt = "NeedsActualCrypt" /\ ~mail.window
  /\ \A t \in Threads : thr[t].pc = "posted" =>
                          mail.crypt = "NeedsUpdateInOOM" /\ ~mail.sync
  /\ ui.at = "crypt" => mail.crypt = "NeedsActualCrypt" /\ Busy = {}
  /\ alive /\ ~mail.window => Working # {} \/ ui.at = "crypt"
  /\ "draft_key" \notin Options => ~mail.draft /\ ui.saver # "draft"
  /\ ui.saver = "draft" =>
       /\ Busy = {} /\ mail.draft
       /\ mail.crypt \notin {"NeedsFirstAfterWrite", "NeedsActualCrypt"}

LEMMA WindowInit == Init => WindowInv
BY DEF Init, Idle, Off, WindowInv, Busy, Working

\* What the invariant leaves for the end of a crypto operation to show.
LEMMA WindowEnds ==
  ASSUME TypeOK, WindowInv, NEW t \in Busy,
         thr' \in [Threads -> CryptThreads],
         \A u \in Threads \ {t} : thr'[u] = thr[u],
         t \notin Working', thr'[t].pc = "posted" =>
                             mail'.crypt = "NeedsUpdateInOOM" /\ ~mail'.sync,
         ui' = ui, alive' = alive, alive => mail'.window,
         "draft_key" \notin Options => ~mail'.draft
  PROVE  WindowInv'
<1> USE DEF Busy, Working
<1>1. \A u \in Threads : u \in Busy' => u = t
  BY DEF WindowInv
<1>2. ui.at # "crypt" /\ ui.saver # "draft"
  BY DEF WindowInv
<1>3. \A u \in Threads : u \notin Working'
  BY <1>1
<1> QED BY <1>1, <1>2, <1>3 DEF WindowInv

\* A step of the UI thread that leaves the crypto state alone.
LEMMA WindowKept ==
  ASSUME WindowInv, \A t \in Threads : thr'[t].pc = thr[t].pc \/ (t \notin Busy /\ t \notin Busy'),
         mail'.crypt = mail.crypt, mail'.draft = mail.draft, mail'.sync = mail.sync,
         mail'.window = mail.window, alive' => alive,
         ui.at # "crypt", ui'.at # "crypt", ui'.saver # "draft" \/ ui'.saver = ui.saver
  PROVE  WindowInv'
<1>1. \A t \in Threads : (t \in Busy' <=> t \in Busy) /\ (t \in Working' <=> t \in Working)
                         /\ (thr'[t].pc = "posted" <=> thr[t].pc = "posted")
  BY DEF Busy, Working
<1>2. Busy' = Busy /\ Working' = Working
  BY <1>1 DEF Busy, Working
<1>3. Busy' \subseteq Threads /\ Working' \subseteq Threads
  BY DEF Busy, Working
<1> QED BY <1>1, <1>2, <1>3 DEF WindowInv

\* A step that begins or ends crypto while none is running.
LEMMA WindowFresh ==
  ASSUME Busy' = {}, ui'.at # "crypt", alive' => mail'.window,
         "draft_key" \notin Options => ~mail'.draft /\ ui'.saver # "draft",
         ui'.saver = "draft" =>
           mail'.draft /\ mail'.crypt \notin {"NeedsFirstAfterWrite", "NeedsActualCrypt"}
  PROVE  WindowInv'
BY DEF WindowInv, Busy, Working

LEMMA WindowNext ==
  ASSUME SavesApart, TypeOK, TypeOK', WindowInv, [Next]_vars
  PROVE  WindowInv'
<1>1. /\ mail \in Mails /\ item \in Items /\ ui \in UIs /\ thr \in [Threads -> CryptThreads]
      /\ out \in [Jobs -> Outputs] /\ mail' \in Mails /\ thr' \in [Threads -> CryptThreads]
  BY DEF TypeOK
<1>2. "draft_key" \notin Options => ~mail.draft /\ ~mail'.draft /\ ui.saver # "draft"
  BY NoDraft DEF WindowInv
<1>3. ASSUME mail.crypt \notin {"NeedsActualCrypt", "NeedsUpdateInOOM"}
      PROVE  Busy = {} /\ (alive => mail.window)
  BY <1>3 DEF WindowInv, Busy, Working
<1>4. CASE UNCHANGED <<mail, alive, thr, ui>>
  <2>1. Busy' = Busy /\ Working' = Working
    BY <1>4 DEF Busy, Working
  <2> QED BY <1>4, <2>1 DEF WindowInv
<1>5. CASE BeforeAutoSave
  <2>1. /\ ui.at = "idle" /\ ui'.at = "write" /\ ui'.saver = "auto" /\ UNCHANGED <<alive, thr>>
    BY <1>5 DEF BeforeAutoSave, Idle, AtIdle
  <2>2. CASE mail' = mail
    BY <2>1, <2>2, WindowKept
  <2>3. CASE mail' # mail
    <3>1. "draft_key" \in Options /\ mail' \in PreparedOrNot([mail EXCEPT !.draft = TRUE])
      BY <1>5, <2>3 DEF BeforeAutoSave
    <3>2. Active = {}
      BY <1>5, <3>1 DEF SavesApart, BeforeAutoSave
    <3>3. Busy = {} /\ Working = {} /\ Busy' = {}
      BY <2>1, <3>2 DEF Busy, Working, Active
    <3>4. [mail EXCEPT !.draft = TRUE] \in Mails
          /\ [mail EXCEPT !.draft = TRUE].window = mail.window
      BY <1>1 DEF Mails
    <3>5. mail'.window = mail.window
      BY <3>1, <3>4, PreparedKeeps DEF PreparedOrNot, OneIf
    <3>6. alive' => mail'.window
      BY <2>1, <3>3, <3>5 DEF WindowInv
    <3> QED BY <1>2, <2>1, <3>3, <3>6, WindowFresh
  <2> QED BY <2>2, <2>3
<1>6. CASE UserSave \/ UserSend \/ Unload
  <2>1. /\ ui.at = "idle" /\ ui'.at \in {"write", "send", "idle"}
        /\ ui'.saver \in {"none", "user", ui.saver}
        /\ mail' = mail /\ thr' = thr /\ (alive' => alive)
    BY <1>6 DEF UserSave, UserSend, Unload, Idle, CanCompose, AtIdle
  <2> QED BY <2>1, WindowKept
<1>7. CASE Write
  <2>1. /\ ui.at = "write" /\ ui'.at \in {"saved", "afterwrite"} /\ ui'.saver = ui.saver
        /\ UNCHANGED <<alive, thr>>
    BY <1>1, <1>7 DEF Write, UIs
  <2>2. CASE mail' = mail
    BY <2>1, <2>2, WindowKept
  <2>3. CASE mail' # mail
    <3>1. ~mail.draft /\ mail.crypt = "NoCryptMail"
          /\ mail' \in PreparedOrNot([mail EXCEPT !.draft = TRUE])
      BY <1>7, <2>3 DEF Write, WriteStartsDraft
    <3>2. Busy = {} /\ (alive => mail.window) /\ ui.saver # "draft"
      BY <1>3, <3>1 DEF WindowInv
    <3>3. [mail EXCEPT !.draft = TRUE] \in Mails
          /\ [mail EXCEPT !.draft = TRUE].window = mail.window
      BY <1>1 DEF Mails
    <3>4. mail'.window = mail.window
      BY <3>1, <3>3, PreparedKeeps DEF PreparedOrNot, OneIf
    <3>5. Busy' = {}
      BY <2>1, <3>2 DEF Busy
    <3> QED BY <1>2, <2>1, <3>2, <3>4, <3>5, WindowFresh
  <2> QED BY <2>2, <2>3
<1>8. CASE AfterWriteFirst
  <2>1. /\ Busy = {} /\ (alive => mail.window) /\ ui.saver # "draft" /\ alive' = alive
    BY <1>3, <1>8 DEF AfterWriteFirst, WindowInv
  <2>2. /\ mail'.draft = mail.draft /\ ui'.saver = ui.saver
        /\ \/ /\ mail'.crypt = "NoCryptMail" /\ ui'.at = "saved" /\ thr' = thr
              /\ mail'.window \in {mail.window, TRUE}
           \/ /\ mail'.crypt = "NeedsActualCrypt" /\ ui'.at = "crypt" /\ thr' = thr
           \/ /\ mail'.crypt = "NeedsActualCrypt" /\ ui'.at = "saved" /\ ~mail'.window
              /\ \E t \in Free : thr' = [thr EXCEPT ![t].pc = "start"]
           \/ ui'.at = "saved" /\ thr' = thr /\ mail'.window = mail.window
    BY <1>8, FirstDoes
  <2>3. CASE thr' = thr
    <3>1. Busy' = {}
      BY <2>1, <2>3 DEF Busy
    <3>2. CASE ui'.at = "crypt"
      BY <1>2, <2>1, <2>2, <3>1, <3>2 DEF WindowInv, Busy, Working
    <3>3. CASE ui'.at # "crypt"
      <4>1. CASE mail'.window \in {mail.window, TRUE}
        BY <1>2, <2>1, <2>2, <3>1, <3>3, <4>1, WindowFresh
      <4>2. CASE \E t \in Free : thr' = [thr EXCEPT ![t].pc = "start"]
        <5>1. PICK t \in Threads : thr[t].pc = "off" /\ thr' = [thr EXCEPT ![t].pc = "start"]
          BY <4>2 DEF Free
        <5>2. thr'[t].pc = "start"
          BY <1>1, <5>1 DEF CryptThreads
        <5> QED BY <2>3, <5>1, <5>2
      <4> QED BY <2>2, <3>3, <4>1, <4>2
    <3> QED BY <3>2, <3>3
  <2>4. CASE thr' # thr
    <3>1. PICK t \in Threads : thr' = [thr EXCEPT ![t].pc = "start"]
      BY <2>2, <2>4 DEF Free
    <3>2. thr'[t].pc = "start" /\ \A u \in Threads \ {t} : thr'[u] = thr[u]
      BY <1>1, <3>1 DEF CryptThreads
    <3>3. Busy' = {t} /\ Working' = {t}
      BY <2>1, <3>2 DEF Busy, Working
    <3>4. mail'.crypt = "NeedsActualCrypt" /\ ui'.at = "saved" /\ ~mail'.window
      BY <2>2, <2>4
    <3>5. \A u \in Threads : thr'[u].pc # "posted"
      BY <2>1, <3>2 DEF Busy
    <3>6. ui'.saver # "draft"
      BY <2>1, <2>2
    <3> QED BY <1>2, <3>3, <3>4, <3>5, <3>6 DEF WindowInv
  <2> QED BY <2>3, <2>4
<1>9. CASE AfterWriteSecond
  <2>1. Busy = {} /\ (alive => mail.window) /\ UNCHANGED <<alive, thr>>
        /\ ui'.at = "saved" /\ ui'.saver = ui.saver
    BY <1>1, <1>3, <1>9 DEF AfterWriteSecond, UIs
  <2>2. /\ mail'.draft = mail.draft /\ mail'.window = mail.window
        /\ mail'.crypt \in {"WantsSendMIME", "NoCryptMail"}
    BY <1>1, <1>9, MAPIKeeps, OutputType DEF AfterWriteSecond, SameBut
  <2>3. Busy' = {}
    BY <2>1 DEF Busy
  <2>4. ui'.saver = "draft" => mail'.draft
    BY <2>1, <2>2 DEF WindowInv
  <2> QED BY <1>2, <2>1, <2>2, <2>3, <2>4, WindowFresh
<1>10. CASE AfterWriteNothing \/ SaveReturns \/ SecondSaveDone \/ SendPassesOpen
            \/ SendReturns \/ Deliver \/ SendWorkaroundT3656
  <2>1. /\ mail' = mail /\ thr' = thr /\ alive' = alive
        /\ ui.at # "crypt" /\ ui'.at # "crypt" /\ ui'.saver \in {ui.saver, "none"}
    <3>1. CASE AfterWriteNothing \/ SendPassesOpen
      BY <1>1, <3>1 DEF AfterWriteNothing, SendPassesOpen, UIs
    <3>2. CASE SaveReturns \/ SecondSaveDone \/ SendReturns
      <4>1. CASE SaveReturns
        BY <4>1 DEF SaveReturns, Idle
      <4>2. CASE SecondSaveDone
        BY <4>2 DEF SecondSaveDone, Idle
      <4>3. CASE SendReturns
        BY <4>3 DEF SendReturns, Idle
      <4> QED BY <3>2, <4>1, <4>2, <4>3
    <3>3. CASE Deliver
      BY <1>1, <3>3 DEF Deliver, UIs
    <3>4. CASE SendWorkaroundT3656
      BY <3>4, CancelReturns DEF SendWorkaroundT3656, AtGate
    <3> QED BY <1>10, <3>1, <3>2, <3>3, <3>4
  <2> QED BY <2>1, WindowKept
<1>11. CASE SyncCrypt
  <2>1. Busy = {} /\ ui.saver # "draft" /\ UNCHANGED <<alive, thr>>
        /\ ui'.at = "saved" /\ ui'.saver = ui.saver
    BY <1>1, <1>11 DEF SyncCrypt, UIs, WindowInv
  <2>2. mail'.window
    <3>1. [mail EXCEPT !.window = TRUE] \in Mails /\ [mail EXCEPT !.window = TRUE].window
          /\ CryptFailed(mail).window
      BY <1>1 DEF Mails, CryptFailed
    <3>2. Made(mail) \in Outputs
      BY MadeType DEF Outputs
    <3>3. \A d \in SyncDone([mail EXCEPT !.window = TRUE], item, Made(mail)) : d.mail.window
      BY <1>1, <3>1, <3>2, SyncKeeps
    <3> QED BY <1>11, <3>1, <3>3 DEF SyncCrypt
  <2>3. Busy' = {}
    BY <2>1 DEF Busy
  <2> QED BY <1>2, <2>1, <2>2, <2>3, WindowFresh
<1>12. CASE DraftDone
  <2>1. Busy = {} /\ ui' = Idle /\ alive' = alive /\ thr' = Served
    BY <1>12 DEF DraftDone, WindowInv
  <2>2. Busy' = {} /\ Working = {}
    BY <2>1 DEF Busy, Working, Served, Off
  <2>3. mail'.window = mail.window /\ (alive => mail.window)
    BY <1>1, <1>12, <2>2 DEF DraftDone, Mails, WindowInv
  <2> QED BY <1>2, <2>1, <2>2, <2>3, WindowFresh DEF Idle
<1>13. CASE SendPrepares
  <2>1. ui.at = "send" /\ UNCHANGED <<alive, thr>>
    BY <1>13 DEF SendPrepares
  <2>2. CASE Cancel /\ UNCHANGED mail
    <3>1. ui'.at = "returned" /\ ui'.saver = ui.saver
      BY <2>2, CancelReturns
    <3> QED BY <2>1, <2>2, <3>1, WindowKept
  <2>3. CASE /\ mail' \in Prepared([mail EXCEPT !.draft = FALSE])
             /\ ui' = [ui EXCEPT !.at = "write", !.saver = "send"]
    <3>1. [mail EXCEPT !.draft = FALSE] \in Mails
          /\ [mail EXCEPT !.draft = FALSE].window = mail.window
      BY <1>1 DEF Mails
    <3>2. mail'.window = mail.window
      BY <2>3, <3>1, PreparedKeeps
    <3>3. ui'.at = "write" /\ ui'.saver = "send"
      BY <1>1, <2>3 DEF UIs
    <3>4. Busy = {} /\ (alive => mail.window) /\ UNCHANGED <<alive, thr>>
      BY <1>3, <1>13 DEF SendPrepares
    <3>5. Busy' = {}
      BY <3>4 DEF Busy
    <3> QED BY <1>2, <3>2, <3>3, <3>4, <3>5, WindowFresh
  <2> QED BY <1>13, <2>2, <2>3 DEF SendPrepares
<1>14. CASE SendResumes
  <2>1. /\ ui.at = "saved" /\ ui.saver = "send" /\ UNCHANGED <<alive, thr>>
    BY <1>14 DEF SendResumes
  <2>2. ui'.at # "crypt" /\ ui'.saver = ui.saver
    <3>1. Cancel \/ ui' = [ui EXCEPT !.at = "gate"] \/ ui' = [ui EXCEPT !.at = "crashed"]
      BY <1>14 DEF SendResumes
    <3> QED BY <1>1, <3>1, CancelReturns DEF UIs
  <2>3. CASE mail' = mail
    BY <2>1, <2>2, <2>3, WindowKept
  <2>4. CASE mail' # mail
    <3>1. mail.sync /\ mail.crypt # "NoCryptMail"
          /\ \E r \in IF mail.crypt = "NeedsUpdateInOOM"
                      THEN UpdateCryptOOM(mail, item, Output(out, mail))
                      ELSE {Result(mail, item)} :
               mail' = IF r.mail.crypt = "NeedsSecondAfterWrite"
                       THEN [r.mail EXCEPT !.crypt = "WantsSendMIME"] ELSE r.mail
      BY <1>14, <2>4 DEF SendResumes
    <3>2. PICK r \in IF mail.crypt = "NeedsUpdateInOOM"
                     THEN UpdateCryptOOM(mail, item, Output(out, mail))
                     ELSE {Result(mail, item)} :
               mail' = IF r.mail.crypt = "NeedsSecondAfterWrite"
                       THEN [r.mail EXCEPT !.crypt = "WantsSendMIME"] ELSE r.mail
      BY <3>1
    <3>3. CASE mail.crypt = "NeedsUpdateInOOM"
      <4>1. r.mail \in Mails /\ r.mail.window = mail.window
        BY <1>1, <3>2, <3>3, OOMKeeps, OutputType DEF SameBut
      <4>2. mail'.window = mail.window
        BY <3>2, <4>1 DEF Mails
      <4>3. Busy = {} /\ Working = {}
        BY <3>1, <3>3 DEF WindowInv, Busy, Working
      <4>4. Busy' = {} /\ (alive' => mail'.window)
        BY <2>1, <4>2, <4>3 DEF Busy, WindowInv
      <4> QED BY <1>2, <2>1, <2>2, <4>4, WindowFresh
    <3>4. CASE mail.crypt # "NeedsUpdateInOOM"
      <4>1. r.mail = mail
        BY <3>2, <3>4 DEF Result
      <4>2. mail.crypt = "NeedsSecondAfterWrite" /\ mail'.window = mail.window
        BY <1>1, <2>4, <3>2, <4>1 DEF Mails
      <4>3. Busy = {} /\ (alive => mail.window)
        BY <1>3, <4>2
      <4>4. Busy' = {}
        BY <2>1, <4>3 DEF Busy
      <4> QED BY <1>2, <2>1, <2>2, <4>2, <4>3, <4>4, WindowFresh
    <3> QED BY <3>3, <3>4
  <2> QED BY <2>3, <2>4
<1>15. CASE SendGate
  <2>1. ui.at # "crypt" /\ UNCHANGED <<alive, thr>>
    BY <1>15 DEF SendGate, AtGate
  <2>2. ui'.at # "crypt" /\ ui'.saver = ui.saver
    <3>1. Cancel \/ ui' = [ui EXCEPT !.at = "deliver"]
      BY <1>15 DEF SendGate
    <3> QED BY <1>1, <3>1, CancelReturns DEF UIs
  <2>3. CASE mail' = mail
    BY <2>1, <2>2, <2>3, WindowKept
  <2>4. CASE mail' # mail
    <3>1. mail.crypt = "WantsSendInline" /\ mail' = [mail EXCEPT !.crypt = "NoCryptMail"]
      BY <1>15, <2>4 DEF SendGate
    <3>2. Busy = {} /\ (alive => mail.window)
      BY <1>3, <3>1
    <3>3. Busy' = {} /\ mail'.window = mail.window /\ mail'.draft = mail.draft
          /\ mail'.crypt = "NoCryptMail"
      BY <1>1, <2>1, <3>1, <3>2 DEF Busy, Mails
    <3>4. ui'.saver = "draft" => mail'.draft
      BY <2>2, <3>3 DEF WindowInv
    <3> QED BY <1>2, <2>1, <2>2, <3>2, <3>3, <3>4, WindowFresh
  <2> QED BY <2>3, <2>4
<1>16. CASE SecondSendDone
  <2>1. /\ ui.at = "returned" /\ ui'.at = "idle" /\ ui'.saver = "none" /\ alive' = alive
        /\ \A t \in Threads : thr'[t].pc = thr[t].pc
                              \/ (thr[t].pc = "served" /\ thr'[t].pc = "off")
    BY <1>16 DEF SecondSendDone, Idle, Served, Off
  <2>2. \A t \in Threads : thr'[t].pc = thr[t].pc \/ (t \notin Busy /\ t \notin Busy')
    BY <2>1 DEF Busy
  <2>3. /\ mail'.crypt = mail.crypt /\ mail'.draft = mail.draft /\ mail'.sync = mail.sync
        /\ mail'.window = mail.window
    BY <1>1, <1>16 DEF SecondSendDone, Mails
  <2> QED BY <2>1, <2>2, <2>3, WindowKept
<1>17. CASE CloseMail \/ SplitAndSend
  <2>1. /\ ui.at = "idle" /\ ui'.at \in {"idle", "send"} /\ ui'.saver \in {ui.saver, "none"}
        /\ thr' = thr /\ (alive' => alive)
    <3>1. CASE CloseMail
      BY <3>1 DEF CloseMail
    <3>2. CASE SplitAndSend
      BY <3>2 DEF SplitAndSend, Idle
    <3> QED BY <1>17, <3>1, <3>2
  <2>2. /\ mail'.crypt = mail.crypt /\ mail'.draft = mail.draft /\ mail'.sync = mail.sync
        /\ mail'.window = mail.window
    BY <1>1, <1>17 DEF CloseMail, SplitAndSend, Mails
  <2> QED BY <2>1, <2>2, WindowKept
<1>18. ASSUME NEW t \in Threads, CryptoDone(t)
       PROVE  WindowInv'
  <2>1. /\ thr[t].pc = "posted" /\ t \in Busy /\ ui.at = "idle" /\ alive' = alive
        /\ mail.crypt = "NeedsUpdateInOOM"
        /\ thr'[t].pc = "served" /\ \A u \in Threads \ {t} : thr'[u] = thr[u]
    BY <1>1, <1>18 DEF CryptoDone, AtIdle, Busy, WindowInv, CryptThreads
  <2>2. Busy' = {} /\ Working = {} /\ (alive => mail.window)
    BY <2>1 DEF Busy, Working, WindowInv
  <2>3. CASE OOMCrashes(mail)
    <3>1. ui'.at = "crashed" /\ ui'.saver = "none" /\ mail' = mail
      BY <1>18, <2>3 DEF CryptoDone, Idle
    <3> QED BY <1>2, <2>1, <2>2, <3>1, WindowFresh
  <2>4. CASE ~OOMCrashes(mail)
    <3>1. PICK r \in UpdateCryptOOM(mail, item, Output(out, mail)) :
            mail' = r.mail /\ ui' = AfterCrypto(r.mail)
      BY <1>18, <2>1, <2>4 DEF CryptoDone
    <3>2. /\ mail'.window = mail.window /\ mail'.draft = mail.draft
          /\ mail'.crypt \in {"NoCryptMail", "WantsSendInline", "NeedsSecondAfterWrite"}
      BY <1>1, <2>1, <3>1, OOMKeeps, OutputType DEF SameBut
    <3>3. ui'.at \in {"write", "send"} /\ (ui'.saver = "draft" => mail'.draft)
      BY <3>1 DEF AfterCrypto, Idle
    <3>4. ui'.saver = "draft" =>
            mail'.draft /\ mail'.crypt \notin {"NeedsFirstAfterWrite", "NeedsActualCrypt"}
      BY <3>2, <3>3
    <3> QED BY <1>2, <2>1, <2>2, <3>2, <3>3, <3>4, WindowFresh
  <2> QED BY <2>3, <2>4
<1>19. ASSUME NEW t \in Threads, CryptoDoneGone(t)
       PROVE  WindowInv'
  <2>1. t \in Busy /\ ~alive /\ UNCHANGED <<mail, alive, ui>>
        /\ thr'[t].pc = "off" /\ \A u \in Threads \ {t} : thr'[u] = thr[u]
    BY <1>1, <1>19 DEF CryptoDoneGone, Busy, Off
  <2> QED BY <1>1, <1>2, <2>1, WindowEnds DEF Working
<1>20. ASSUME NEW t \in Threads, ThreadStart(t), alive /\ CryptReady
       PROVE  WindowInv'
  <2>1. /\ t \in Working /\ UNCHANGED <<mail, alive, ui>>
        /\ thr'[t].pc = "resolve" /\ \A u \in Threads \ {t} : thr'[u] = thr[u]
    BY <1>1, <1>20 DEF ThreadStart, Working, CryptThreads
  <2>2. Busy' = Busy /\ Working' = Working
        /\ \A u \in Threads : thr'[u].pc = "posted" => thr[u].pc = "posted"
    BY <2>1 DEF Busy, Working
  <2> QED BY <2>1, <2>2 DEF WindowInv
<1>21. ASSUME NEW t \in Threads, ThreadStart(t), ~(alive /\ CryptReady)
       PROVE  WindowInv'
  <2>1. /\ t \in Busy /\ UNCHANGED <<alive, ui>>
        /\ thr'[t].pc = "off" /\ \A u \in Threads \ {t} : thr'[u] = thr[u]
    BY <1>1, <1>21 DEF ThreadStart, Busy, Off
  <2>2. alive => mail'.window
    BY <1>1, <1>21 DEF ThreadStart, Mails
  <2> QED BY <1>1, <1>2, <2>1, <2>2, WindowEnds DEF Working
<1>22. ASSUME NEW t \in Threads, ThreadResolve(t)
       PROVE  WindowInv'
  <2>1. /\ t \in Working /\ UNCHANGED <<mail, alive, ui>>
        /\ thr'[t].pc \in {"split", "crypt"} /\ \A u \in Threads \ {t} : thr'[u] = thr[u]
    BY <1>1, <1>22 DEF ThreadResolve, Working, CryptThreads
  <2>2. Busy' = Busy /\ Working' = Working
        /\ \A u \in Threads : thr'[u].pc = "posted" => thr[u].pc = "posted"
    BY <2>1 DEF Busy, Working
  <2> QED BY <2>1, <2>2 DEF WindowInv
<1>23. ASSUME NEW t \in Threads, ThreadFail(t)
       PROVE  WindowInv'
  <2>1. /\ t \in Busy /\ UNCHANGED <<alive, ui>>
        /\ thr'[t].pc = "off" /\ \A u \in Threads \ {t} : thr'[u] = thr[u]
    BY <1>1, <1>23 DEF ThreadFail, Busy, Off
  <2>2. alive => mail'.window
    BY <1>1, <1>23 DEF ThreadFail, CryptFailed, Mails
  <2> QED BY <1>1, <1>2, <2>1, <2>2, WindowEnds DEF Working
<1>24. ASSUME NEW t \in Threads, ThreadDone(t)
       PROVE  WindowInv'
  <2>1. /\ t \in Busy /\ UNCHANGED <<alive, ui>>
        /\ \A u \in Threads \ {t} : thr'[u] = thr[u]
    BY <1>1, <1>24 DEF ThreadDone, Busy
  <2>2. out' \in [Jobs -> Outputs]
    BY <1>24, ThreadDoneType DEF TypeOK
  <2>3. [mail EXCEPT !.window = TRUE] \in Mails /\ [mail EXCEPT !.window = TRUE].window
    BY <1>1 DEF Mails
  <2>4. CASE alive /\ ~mail.sync
    <3>1. /\ mail' = [mail EXCEPT !.window = TRUE, !.crypt = "NeedsUpdateInOOM"]
          /\ thr' = [thr EXCEPT ![t].pc = "posted"]
      BY <1>24, <2>4 DEF ThreadDone
    <3>2. thr'[t].pc = "posted" /\ mail'.crypt = "NeedsUpdateInOOM" /\ ~mail'.sync
          /\ mail'.window
      BY <1>1, <2>4, <3>1 DEF CryptThreads, Mails
    <3> QED BY <1>1, <1>2, <2>1, <3>2, WindowEnds DEF Working
  <2>5. CASE alive /\ mail.sync
    <3>1. thr'[t].pc = "off"
      BY <1>1, <1>24, <2>5 DEF ThreadDone, Off
    <3>2. PICK d \in SyncDone([mail EXCEPT !.window = TRUE], item, Output(out', mail)) :
            mail' = d.mail
      BY <1>24, <2>5 DEF ThreadDone
    <3>3. mail'.window
      BY <1>1, <2>2, <2>3, <3>2, SyncKeeps, OutputType
    <3> QED BY <1>1, <1>2, <2>1, <3>1, <3>3, WindowEnds DEF Working
  <2>6. CASE ~alive
    <3>1. thr'[t].pc = "off" /\ mail' = mail
      BY <1>1, <1>24, <2>6 DEF ThreadDone, Off
    <3> QED BY <1>1, <1>2, <2>1, <2>6, <3>1, WindowEnds DEF Working
  <2> QED BY <2>4, <2>5, <2>6
<1> QED
  <2>1. ASSUME (\E b \in Bodies : Edit(b)) \/ (\E f \in {"none", "sign", "encrypt"} : Toggle(f))
               \/ Over \/ UNCHANGED vars
        PROVE  UNCHANGED <<mail, alive, thr, ui>>
    BY <2>1 DEF Edit, Toggle, Over, vars
  <2> QED BY <1>4, <1>5, <1>6, <1>7, <1>8, <1>9, <1>10, <1>11, <1>12, <1>13, <1>14, <1>15,
             <1>16, <1>17, <1>18, <1>19, <1>20, <1>21, <1>22, <1>23, <1>24, <2>1
          DEF Next, User, Handler, Message, Thread

LEMMA WindowInvariant == SavesApart => (Spec => []WindowInv)
<1> SUFFICES ASSUME SavesApart PROVE Spec => []WindowInv
  OBVIOUS
<1>1. TypeOK /\ TypeOK' /\ WindowInv /\ [Next]_vars => WindowInv'
  BY WindowNext
<1> HIDE DEF WindowInv
<1> QED BY <1>1, TypeCorrect, WindowInit, PTL DEF Spec

\* Unless autosaves that encrypt drafts come while crypto is running, the
\* compose window is disabled exactly while a crypto thread works on the mail:
\* whatever else the user, Outlook and MAPI do, the window never lets the user
\* edit what is being encrypted and never stays disabled when crypto is over.
THEOREM WindowFollows == SavesApart => (Spec => []WindowFollowsCrypto)
<1> SUFFICES ASSUME SavesApart PROVE Spec => []WindowFollowsCrypto
  OBVIOUS
<1>1. WindowInv => WindowFollowsCrypto
  BY DEF WindowInv, WindowFollowsCrypto, AtIdle
<1> HIDE DEF WindowInv, WindowFollowsCrypto
<1> QED BY <1>1, WindowInvariant, PTL
-----------------------------------------------------------------------------
(***************************************************************************)
(* Theorems about what leaves in MailSend: protected as chosen, once, with *)
(* the text last written; and about what stays behind when nothing leaves. *)
(* Together: that its steps are those SecureSend allows.                   *)
(***************************************************************************)

(***************************************************************************)
(* What the handlers do to a mail that is encrypted to be sent, where      *)
(* nothing disturbs them. The two invariants here say where the UI thread  *)
(* can be, and that the crypter of the operation that ends holds the mail. *)
(***************************************************************************)
\* The item's MAPI message can always be had, and so the user's choice read.
Reached == "message" \notin Env

UIOrder ==
  /\ ui.at = "idle" => ui.saver = "none" /\ ui.sender = "none"
  /\ ui.saver \in {"auto", "user"} => ui.at \in {"write", "afterwrite", "saved"}
  /\ ui.saver = "send" /\ ui.at \in {"write", "afterwrite"} =>
       mail.crypt = "NeedsFirstAfterWrite"
  /\ ui.at = "crypt" => ui.saver = "send"
  /\ ui.saver = "send" /\ ui.at = "saved" /\ mail.sync =>
       mail.crypt \in {"NoCryptMail", "NeedsUpdateInOOM"}
  /\ ui.at = "gate" => mail.crypt \in Handed
  /\ ui.at = "deliver" => mail.crypt \in Handed \cup {"NoCryptMail"}
  /\ mail.crypt = "NeedsSecondAfterWrite" => ui.saver = "done"
  /\ mail.crypt = "NeedsFirstAfterWrite" => item.flags # "none"

MadeMail ==
  /\ \A t \in Threads :
       /\ thr[t].pc \in {"resolve", "crypt"} => thr[t].c = mail.crypter
       /\ thr[t].pc = "crypt" => thr[t].key = "mail"
  /\ mail.crypt \in {"NeedsUpdateInOOM", "NeedsSecondAfterWrite"} =>
       Output(out, mail) = "mail"
  /\ mail.crypt \in {"NeedsSecondAfterWrite", "WantsSendMIME"} => ~mail.inline

\* The two updates, where nothing they write fails.
LEMMA MAPIWrites ==
  ASSUME Undisturbed, NEW m \in Mails, NEW i \in Items, NEW made,
         m.crypter # NoJob, ~m.draft, NEW r \in UpdateCryptMAPI(m, i, made)
  PROVE  /\ r.mail.crypt = "WantsSendMIME" /\ r.mail.inline = m.inline
         /\ r.item.body = i.body /\ r.item.saved = i.saved
         /\ IF m.inline THEN r.item = i
            ELSE r.item.mime = made /\ r.item.flags = "none"
<1> DEFINE done    == [m EXCEPT !.crypt = "WantsSendMIME",
                                !.crypter = IF m.sync THEN @ ELSE NoJob]
           written == [i EXCEPT !.mime = made,
                                !.flags = IF m.draft THEN @ ELSE "none"]
<1>1. r = Result(done, IF m.inline THEN i ELSE written)
  BY DEF Undisturbed, UpdateCryptMAPI, OneIf
<1>2. done.crypt = "WantsSendMIME" /\ done.inline = m.inline
  BY DEF Mails
<1>3. /\ written.body = i.body /\ written.saved = i.saved
      /\ written.mime = made /\ written.flags = "none"
  BY DEF Items
<1> HIDE DEF done, written
<1> QED BY <1>1, <1>2, <1>3 DEF Result

LEMMA OOMWrites ==
  ASSUME Undisturbed, NEW m \in Mails, NEW i \in Items,
         m.crypt = "NeedsUpdateInOOM", m.crypter # NoJob, ~m.draft,
         NEW r \in UpdateCryptOOM(m, i, "mail")
  PROVE  /\ r.mail \in Mails /\ r.mail.inline = m.inline /\ r.mail.sync = m.sync
         /\ ~m.sync => r.mail.crypter = m.crypter
         /\ r.item.mime = i.mime /\ r.item.flags = i.flags /\ r.item.saved = i.saved
         /\ IF m.inline \/ i.body \in {"begin", "armor"}
            THEN /\ r.mail.crypt = "WantsSendInline"
                 /\ r.item.body = IF m.inline THEN "armor" ELSE i.body
            ELSE r.mail.crypt = "NeedsSecondAfterWrite" /\ r.item.body = "empty"
<1> DEFINE shown == IF m.inline THEN [i EXCEPT !.body = "armor"] ELSE i
           next  == [m EXCEPT !.crypter = IF m.sync THEN NoJob ELSE @]
           wiped == [shown EXCEPT !.body = "empty"]
           M(c)  == [next EXCEPT !.crypt = c]
<1>1. /\ shown.mime = i.mime /\ shown.flags = i.flags /\ shown.saved = i.saved
      /\ shown.body = IF m.inline THEN "armor" ELSE i.body
      /\ wiped.mime = i.mime /\ wiped.flags = i.flags /\ wiped.saved = i.saved
      /\ wiped.body = "empty"
  BY DEF Items
<1>2. \A c : /\ M(c).crypt = c /\ M(c).inline = m.inline /\ M(c).sync = m.sync
             /\ ~m.sync => M(c).crypter = m.crypter
  BY DEF Mails
<1>3. r = IF shown.body \in {"begin", "armor"} THEN Result(M("WantsSendInline"), shown)
          ELSE Result(M("NeedsSecondAfterWrite"), wiped)
  BY DEF Undisturbed, UpdateCryptOOM, OneIf, Wiped
<1>4. r.mail \in Mails
  BY UpdateCryptOOMType DEF Results, Outputs
<1> HIDE DEF shown, next, wiped, M
<1>5. CASE shown.body \in {"begin", "armor"}
  BY <1>1, <1>2, <1>3, <1>4, <1>5 DEF Result
<1>6. CASE shown.body \notin {"begin", "armor"}
  BY <1>1, <1>2, <1>3, <1>4, <1>6 DEF Result
<1> QED BY <1>5, <1>6

\* The parts of PinInv the following speaks about.
LEMMA PinSays ==
  ASSUME TypeOK, PinInv
  PROVE  /\ ~mail.draft /\ ui.saver # "draft" /\ ui.at # "crashed"
         /\ ui.at # "idle" => alive
         /\ mail.crypt = "NeedsUpdateInOOM" => mail.crypter # NoJob
         /\ \A t \in Threads :
              /\ thr[t].pc \in {"start", "resolve", "crypt", "split"} =>
                   /\ alive /\ ~mail.sync
                   /\ mail.crypt = "NeedsActualCrypt" /\ mail.crypter # NoJob
              /\ thr[t].pc = "posted" =>
                   alive /\ ~mail.sync /\ mail.crypt = "NeedsUpdateInOOM"
              /\ thr[t].pc = "served" => ui.at # "idle" /\ ui.at # "crypt"
                                         /\ (ui.saver = "done" \/ ui.sender = "done")
         /\ \A t, u \in Active : t = u
         /\ ui.saver = "done" => ui.at \in {"write", "afterwrite", "saved"}
         /\ ui.sender = "done" =>
              ui.at \in {"send", "deliver", "returned"} /\ mail.crypt \in Handed
         /\ ui.saver = "done" =>
              IF ui.at = "saved" THEN mail.crypt \in Handed
              ELSE mail.crypt = "NeedsSecondAfterWrite" /\ mail.crypter # NoJob
         /\ ui.at = "crypt" =>
              /\ mail.sync /\ Active = {}
              /\ mail.crypt = "NeedsActualCrypt" /\ mail.crypter # NoJob
         /\ mail.crypt = "NeedsFirstAfterWrite" =>
              Active = {} /\ ui.at \in {"write", "afterwrite"} /\ ui.saver = "send"
         /\ "close" \in posted => ~alive \/ mail.crypt \in Handed
BY DEF PinInv, OneThread, ThreadHolds, UIHolds, CryptHolds, NoCrash, InDone, Handed, Active

LEMMA SecondMakes ==
  ASSUME Undisturbed, TypeOK, PinInv, UIOrder, MadeMail, AfterWriteSecond
  PROVE  /\ mail.crypt = "NeedsSecondAfterWrite" /\ ui.at = "afterwrite"
         /\ ui.saver = "done" /\ ui.sender # "done" /\ alive /\ ~mail.inline
         /\ mail'.crypt = "WantsSendMIME" /\ ~mail'.inline
         /\ item'.mime = "mail" /\ item'.body = item.body
         /\ ui'.at = "saved" /\ ui'.saver = "done" /\ ui'.sender = ui.sender
         /\ ui'.err = ui.err
         /\ UNCHANGED <<alive, thr, out, posted, sent, ghost>>
<1>1. /\ mail.crypt = "NeedsSecondAfterWrite" /\ ui.at = "afterwrite" /\ ui.saver = "done"
      /\ ui.sender # "done" /\ alive /\ ~mail.inline /\ ~mail.draft /\ mail.crypter # NoJob
      /\ Output(out, mail) = "mail" /\ mail \in Mails /\ item \in Items /\ ui \in UIs
  BY PinSays DEF AfterWriteSecond, UIOrder, MadeMail, TypeOK
<1>2. PICK r \in UpdateCryptMAPI(mail, item, "mail") : mail' = r.mail /\ item' = r.item
  BY <1>1 DEF AfterWriteSecond
<1>3. /\ ui' = [ui EXCEPT !.at = "saved"] /\ UNCHANGED <<alive, thr, out, posted, sent, ghost>>
  BY DEF AfterWriteSecond
<1>4. /\ r.mail.crypt = "WantsSendMIME" /\ ~r.mail.inline
      /\ r.item.mime = "mail" /\ r.item.body = item.body
  BY <1>1, <1>2, MAPIWrites
<1>5. /\ ui'.at = "saved" /\ ui'.saver = "done" /\ ui'.sender = ui.sender /\ ui'.err = ui.err
  BY <1>1, <1>3 DEF UIs
<1> QED BY <1>1, <1>2, <1>3, <1>4, <1>5

LEMMA SyncWrites ==
  ASSUME Undisturbed, NEW m \in Mails, NEW i \in Items, NEW made \in Outputs,
         m.sync, m.crypter # NoJob, ~m.draft, NEW d \in SyncDone(m, i, made)
  PROVE  /\ d.mail.sync /\ d.mail.crypt = "NeedsUpdateInOOM"
         /\ d.mail.crypter = m.crypter /\ d.mail.inline = m.inline
         /\ d.item.body = i.body
         /\ IF m.inline THEN d.item = i
            ELSE d.item.mime = made /\ d.item.flags = "none"
<1>1. PICK r \in UpdateCryptMAPI(m, i, made) :
        d = IF m.draft
            THEN Result([r.mail EXCEPT !.draft = FALSE, !.crypt = "NoCryptMail"], r.item)
            ELSE IF r.mail.crypt = "WantsSendMIME"
            THEN Result([r.mail EXCEPT !.crypt = "NeedsUpdateInOOM"], r.item)
            ELSE Result([r.mail EXCEPT !.crypter = NoJob], r.item)
  BY DEF SyncDone
<1>2. /\ r.mail.crypt = "WantsSendMIME" /\ r.mail.inline = m.inline /\ r.item.body = i.body
      /\ IF m.inline THEN r.item = i
         ELSE r.item.mime = made /\ r.item.flags = "none"
  BY MAPIWrites
<1>3. r.mail.sync = m.sync /\ r.mail.crypter = m.crypter
  BY MAPIUpdate
<1>4. r.mail \in Mails
  BY MAPIKeeps DEF SameBut
<1>5. d = Result([r.mail EXCEPT !.crypt = "NeedsUpdateInOOM"], r.item)
  BY <1>1, <1>2
<1>6. /\ d.mail.sync = r.mail.sync /\ d.mail.crypt = "NeedsUpdateInOOM"
      /\ d.mail.crypter = r.mail.crypter /\ d.mail.inline = r.mail.inline
      /\ d.item = r.item
  BY <1>4, <1>5 DEF Result, Mails
<1> QED BY <1>2, <1>3, <1>6

LEMMA SyncMakes ==
  ASSUME Undisturbed, TypeOK, PinInv, UIOrder, SyncCrypt
  PROVE  /\ ui.at = "crypt" /\ ui.saver = "send" /\ ui.sender # "done"
         /\ mail.sync /\ mail.crypt = "NeedsActualCrypt" /\ Active = {} /\ alive
         /\ mail'.sync /\ mail'.inline = mail.inline
         /\ ui'.at = "saved" /\ ui'.saver = "send" /\ ui'.sender = ui.sender
         /\ ui'.err = ui.err
         /\ item'.body = item.body
         /\ UNCHANGED <<alive, thr, sent, ghost>>
         /\ \/ /\ mail'.crypt = "NoCryptMail" /\ item' = item /\ mail'.inline = mail.inline
               /\ posted' \in {posted, posted \cup {"split"}}
            \/ /\ mail'.crypt = "NeedsUpdateInOOM" /\ posted' = posted
               /\ Output(out', mail') = "mail"
               /\ IF mail.inline THEN item' = item
                  ELSE item'.mime = "mail" /\ item'.flags = "none"
<1>1. /\ ui.at = "crypt" /\ ui.saver = "send" /\ ui.sender # "done" /\ mail.sync
      /\ mail.crypt = "NeedsActualCrypt" /\ Active = {} /\ alive /\ CryptReady
      /\ ~mail.draft /\ mail.crypter # NoJob
      /\ mail \in Mails /\ item \in Items /\ ui \in UIs /\ out \in [Jobs -> Outputs]
  BY PinSays DEF SyncCrypt, UIOrder, CryptReady, TypeOK
<1>2. /\ ui' = [ui EXCEPT !.at = "saved"] /\ UNCHANGED <<alive, thr, sent, ghost>>
  BY DEF SyncCrypt
<1>3. ui'.at = "saved" /\ ui'.saver = "send" /\ ui'.sender = ui.sender /\ ui'.err = ui.err
  BY <1>1, <1>2 DEF UIs
<1>4. CASE mail' = CryptFailed(mail) /\ item' = item /\ posted' \in {posted, posted \cup {"split"}}
  <2>1. mail'.crypt = "NoCryptMail" /\ mail'.sync /\ mail'.inline = mail.inline
    BY <1>1, <1>4 DEF CryptFailed, Mails
  <2> QED BY <1>1, <1>2, <1>3, <1>4, <2>1
<1>5. CASE /\ \E d \in SyncDone([mail EXCEPT !.window = TRUE], item, Made(mail)) :
                mail' = d.mail /\ item' = d.item
           /\ out' = [out EXCEPT ![mail.crypter] = Made(mail)]
           /\ posted' = posted
  <2> DEFINE m == [mail EXCEPT !.window = TRUE]
  <2>1. /\ m \in Mails /\ m.sync /\ m.crypter = mail.crypter /\ ~m.draft /\ m.inline = mail.inline
    BY <1>1 DEF Mails
  <2>2. Made(mail) = "mail" /\ "mail" \in Outputs
    BY <1>1 DEF Made, Outputs
  <2> HIDE DEF m
  <2>3. PICK d \in SyncDone(m, item, "mail") : mail' = d.mail /\ item' = d.item
    BY <1>5, <2>2 DEF m
  <2>4. /\ d.mail.sync /\ d.mail.crypt = "NeedsUpdateInOOM"
        /\ d.mail.crypter = m.crypter /\ d.mail.inline = m.inline
        /\ d.item.body = item.body
        /\ IF m.inline THEN d.item = item
           ELSE d.item.mime = "mail" /\ d.item.flags = "none"
    BY <1>1, <2>1, <2>2, SyncWrites
  <2>5. mail.crypter \in Jobs
    BY <1>1 DEF Mails
  <2>6. Output(out', mail') = "mail"
    <3>1. mail'.crypter = mail.crypter
      BY <2>1, <2>3, <2>4
    <3>2. out'[mail.crypter] = "mail"
      BY <1>1, <1>5, <2>2, <2>5
    <3> QED BY <1>1, <3>1, <3>2 DEF Output
  <2> QED BY <1>1, <1>2, <1>3, <1>5, <2>1, <2>3, <2>4, <2>6
<1> QED BY <1>1, <1>4, <1>5 DEF SyncCrypt

LEMMA PreparesMakes ==
  ASSUME Undisturbed, TypeOK, PinInv, SendPrepares
  PROVE  /\ ui.at = "send" /\ mail.crypt = "NoCryptMail" /\ alive /\ Active = {}
         /\ ui.saver # "done" /\ ui.sender # "done" /\ item.flags # "none"
         /\ mail'.inline = mail.inline /\ ui'.sender = ui.sender
         /\ UNCHANGED <<item, alive, thr, out, posted, sent>>
         /\ \/ mail' = mail /\ ui'.at = "returned" /\ ui'.saver = ui.saver
            \/ mail'.crypt = "NeedsFirstAfterWrite" /\ ui'.at = "write" /\ ui'.saver = "send"
<1>1. /\ ui.at = "send" /\ mail.crypt = "NoCryptMail" /\ alive
      /\ ui.saver # "done" /\ ui.sender # "done" /\ item.flags # "none"
      /\ UNCHANGED <<item, alive, thr, out, posted, sent>>
      /\ mail \in Mails /\ ui \in UIs
  BY PinSays DEF SendPrepares, TypeOK, Handed, FlagsRead, NeedsCrypto, OneIf
<1>2. Active = {}
  BY <1>1, PinSays DEF Active, TypeOK, CryptThreads
<1>3. CASE Cancel /\ UNCHANGED mail
  BY <1>1, <1>2, <1>3, CancelReturns
<1>4. CASE /\ mail' \in Prepared([mail EXCEPT !.draft = FALSE])
           /\ ui' = [ui EXCEPT !.at = "write", !.saver = "send"]
  <2>1. [mail EXCEPT !.draft = FALSE] \in Mails
        /\ [mail EXCEPT !.draft = FALSE].inline = mail.inline
    BY <1>1 DEF Mails
  <2>2. mail'.crypt = "NeedsFirstAfterWrite" /\ mail'.inline = mail.inline
    BY <1>4, <2>1, PreparedKeeps
  <2>3. ui'.at = "write" /\ ui'.saver = "send" /\ ui'.sender = ui.sender
    BY <1>1, <1>4 DEF UIs
  <2> QED BY <1>1, <1>2, <2>2, <2>3
<1> QED BY <1>3, <1>4 DEF SendPrepares

LEMMA ResumesMakes ==
  ASSUME Undisturbed, TypeOK, PinInv, UIOrder, MadeMail, SendResumes
  PROVE  /\ ui.at = "saved" /\ ui.saver = "send" /\ ui.sender # "done" /\ alive
         /\ ui'.saver = "send" /\ ui'.sender = ui.sender
         /\ UNCHANGED <<alive, thr, out, posted, sent, ghost>>
         /\ \/ /\ mail' = mail /\ item' = item /\ ui'.at = "returned"
               /\ ~mail.sync \/ mail.crypt = "NoCryptMail"
            \/ /\ mail.sync /\ mail.crypt = "NeedsUpdateInOOM" /\ ui'.at = "gate"
               /\ mail'.inline = mail.inline
               /\ item'.mime = item.mime /\ item'.flags = item.flags
               /\ IF mail.inline \/ item.body \in {"begin", "armor"}
                  THEN /\ mail'.crypt = "WantsSendInline"
                       /\ item'.body = IF mail.inline THEN "armor" ELSE item.body
                  ELSE mail'.crypt = "WantsSendMIME" /\ item'.body = "empty"
<1>1. /\ ui.at = "saved" /\ ui.saver = "send" /\ ui.sender # "done" /\ alive /\ ~mail.draft
      /\ UNCHANGED <<alive, thr, out, posted, sent, ghost>>
      /\ mail \in Mails /\ item \in Items /\ ui \in UIs
  BY PinSays DEF SendResumes, TypeOK
<1>2. CASE ~mail.sync \/ mail.crypt = "NoCryptMail"
  <2>1. Cancel /\ UNCHANGED <<mail, item>>
    BY <1>2 DEF SendResumes
  <2> QED BY <1>1, <1>2, <2>1, CancelReturns
<1>3. CASE mail.sync /\ mail.crypt # "NoCryptMail"
  <2>1. /\ mail.crypt = "NeedsUpdateInOOM" /\ mail.crypter # NoJob /\ ~OOMCrashes(mail)
        /\ Output(out, mail) = "mail"
    BY <1>1, <1>3, PinSays DEF UIOrder, MadeMail, OOMCrashes
  <2>2. PICK r \in UpdateCryptOOM(mail, item, "mail") :
          /\ mail' = IF r.mail.crypt = "NeedsSecondAfterWrite"
                     THEN [r.mail EXCEPT !.crypt = "WantsSendMIME"] ELSE r.mail
          /\ item' = r.item
          /\ IF mail'.inline /\ mail'.crypt # "WantsSendInline"
             THEN Cancel
             ELSE ui' = [ui EXCEPT !.at = "gate"]
    BY <1>3, <2>1 DEF SendResumes
  <2>3. /\ r.mail \in Mails /\ r.mail.inline = mail.inline /\ r.mail.sync = mail.sync
        /\ r.item.mime = item.mime /\ r.item.flags = item.flags
        /\ IF mail.inline \/ item.body \in {"begin", "armor"}
           THEN /\ r.mail.crypt = "WantsSendInline"
                /\ r.item.body = IF mail.inline THEN "armor" ELSE item.body
           ELSE r.mail.crypt = "NeedsSecondAfterWrite" /\ r.item.body = "empty"
    BY <1>1, <2>1, OOMWrites
  <2>4. /\ mail'.inline = mail.inline
        /\ mail'.crypt = IF r.mail.crypt = "NeedsSecondAfterWrite" THEN "WantsSendMIME"
                         ELSE r.mail.crypt
    BY <2>2, <2>3 DEF Mails
  <2>5. ui' = [ui EXCEPT !.at = "gate"]
    BY <2>2, <2>3, <2>4
  <2>6. ui'.at = "gate" /\ ui'.saver = ui.saver /\ ui'.sender = ui.sender
    BY <1>1, <2>5 DEF UIs
  <2>7. IF mail.inline \/ item.body \in {"begin", "armor"}
        THEN /\ mail'.crypt = "WantsSendInline"
             /\ item'.body = IF mail.inline THEN "armor" ELSE item.body
        ELSE mail'.crypt = "WantsSendMIME" /\ item'.body = "empty"
    BY <2>2, <2>3, <2>4
  <2> QED BY <1>1, <1>3, <2>1, <2>2, <2>3, <2>4, <2>6, <2>7
<1> QED BY <1>2, <1>3

LEMMA GateMakes ==
  ASSUME TypeOK, PinInv, UIOrder, SendGate
  PROVE  /\ ui.at \in {"gate", "send"} /\ alive /\ mail.crypt # "NoCryptMail"
         /\ ui.saver # "done"
         /\ ui'.saver = ui.saver /\ ui'.sender = ui.sender
         /\ UNCHANGED <<item, alive, thr, out, posted, sent, ghost>>
         /\ \/ /\ mail.crypt = "WantsSendInline" /\ item.body = "text"
               /\ mail'.crypt = "NoCryptMail" /\ mail'.inline = mail.inline
               /\ ui'.at = "returned"
            \/ mail' = mail /\ mail.crypt \in Handed /\ ui'.at = "deliver"
            \/ /\ mail' = mail /\ mail.crypt \notin Handed /\ ui'.at = "returned"
               /\ ui.at = "send"
<1>1. /\ ui.at \in {"gate", "send"} /\ alive /\ mail.crypt # "NoCryptMail" /\ ui.saver # "done"
      /\ UNCHANGED <<item, alive, thr, out, posted, sent, ghost>>
      /\ mail \in Mails /\ ui \in UIs
  BY PinSays DEF SendGate, AtGate, UIOrder, TypeOK, Handed
<1>2. ui.at = "gate" => mail.crypt \in Handed
  BY DEF UIOrder
<1>3. CASE mail.crypt = "WantsSendInline" /\ item.body = "text"
  <2>1. Cancel /\ mail' = [mail EXCEPT !.crypt = "NoCryptMail"]
    BY <1>3 DEF SendGate
  <2>2. mail'.crypt = "NoCryptMail" /\ mail'.inline = mail.inline
    BY <1>1, <2>1 DEF Mails
  <2> QED BY <1>1, <1>3, <2>1, <2>2, CancelReturns
<1>4. CASE ~(mail.crypt = "WantsSendInline" /\ item.body = "text") /\ mail.crypt \in Handed
  <2>1. ui' = [ui EXCEPT !.at = "deliver"] /\ mail' = mail
    BY <1>4 DEF SendGate, Handed
  <2>2. ui'.at = "deliver" /\ ui'.saver = ui.saver /\ ui'.sender = ui.sender
    BY <1>1, <2>1 DEF UIs
  <2> QED BY <1>1, <1>4, <2>1, <2>2
<1>5. CASE mail.crypt \notin Handed
  <2>1. Cancel /\ mail' = mail
    BY <1>5 DEF SendGate, Handed
  <2> QED BY <1>1, <1>2, <1>5, <2>1, CancelReturns
<1> QED BY <1>3, <1>4, <1>5

LEMMA CryptoDoneMakes ==
  ASSUME Undisturbed, TypeOK, PinInv, MadeMail, NEW t \in Threads, CryptoDone(t)
  PROVE  /\ ui.at = "idle" /\ thr[t].pc = "posted" /\ alive
         /\ mail.crypt = "NeedsUpdateInOOM" /\ ~mail.sync
         /\ thr'[t].pc = "served" /\ \A u \in Threads \ {t} : thr'[u] = thr[u]
         /\ UNCHANGED <<alive, out, posted, sent, ghost>>
         /\ mail'.inline = mail.inline /\ Output(out', mail') = "mail"
         /\ item'.mime = item.mime /\ item'.flags = item.flags
         /\ IF mail.inline \/ item.body \in {"begin", "armor"}
            THEN /\ mail'.crypt = "WantsSendInline"
                 /\ item'.body = IF mail.inline THEN "armor" ELSE item.body
                 /\ ui'.at = "send" /\ ui'.saver = "none" /\ ui'.sender = "done"
            ELSE /\ mail'.crypt = "NeedsSecondAfterWrite" /\ item'.body = "empty"
                 /\ ui'.at = "write" /\ ui'.saver = "done" /\ ui'.sender = "none"
         /\ ~ui'.err
<1>1. /\ ui.at = "idle" /\ thr[t].pc = "posted" /\ alive /\ mail.crypt = "NeedsUpdateInOOM"
      /\ ~mail.sync /\ ~mail.draft /\ mail.crypter # NoJob /\ Output(out, mail) = "mail"
      /\ UNCHANGED <<alive, out, posted, sent, ghost>>
      /\ mail \in Mails /\ item \in Items /\ thr \in [Threads -> CryptThreads]
  BY PinSays DEF CryptoDone, AtIdle, MadeMail, TypeOK
<1>2. PICK r \in UpdateCryptOOM(mail, item, "mail") :
        mail' = r.mail /\ item' = r.item /\ ui' = AfterCrypto(r.mail)
  BY <1>1 DEF CryptoDone, OOMCrashes
<1>3. thr'[t].pc = "served" /\ \A u \in Threads \ {t} : thr'[u] = thr[u]
  BY <1>1 DEF CryptoDone, CryptThreads
<1>4. /\ r.mail.inline = mail.inline /\ r.mail.crypter = mail.crypter
      /\ r.item.mime = item.mime /\ r.item.flags = item.flags
      /\ IF mail.inline \/ item.body \in {"begin", "armor"}
         THEN /\ r.mail.crypt = "WantsSendInline"
              /\ r.item.body = IF mail.inline THEN "armor" ELSE item.body
         ELSE r.mail.crypt = "NeedsSecondAfterWrite" /\ r.item.body = "empty"
  BY <1>1, <1>2, OOMWrites
<1>5. ~r.mail.draft
  BY <1>1, <1>2, OOMUpdate
<1>6. IF r.mail.crypt = "NeedsSecondAfterWrite"
      THEN ui'.at = "write" /\ ui'.saver = "done" /\ ui'.sender = "none" /\ ~ui'.err
      ELSE ui'.at = "send" /\ ui'.saver = "none" /\ ui'.sender = "done" /\ ~ui'.err
  BY <1>2, <1>5 DEF AfterCrypto, Idle
<1>7. Output(out', mail') = "mail"
  BY <1>1, <1>2, <1>4 DEF Output
<1>8. CASE mail.inline \/ item.body \in {"begin", "armor"}
  BY <1>1, <1>2, <1>3, <1>4, <1>6, <1>7, <1>8
<1>9. CASE ~(mail.inline \/ item.body \in {"begin", "armor"})
  BY <1>1, <1>2, <1>3, <1>4, <1>6, <1>7, <1>9
<1> QED BY <1>8, <1>9

LEMMA SecondSendMakes ==
  ASSUME TypeOK, PinInv, SecondSendDone
  PROVE  /\ ui.at = "returned" /\ ui.sender = "done" /\ alive /\ mail.crypt \in Handed
         /\ ui' = Idle /\ \A t \in Threads : thr'[t].pc = "off"
         /\ mail'.crypt = mail.crypt /\ mail'.inline = mail.inline /\ mail'.sync = mail.sync
         /\ mail'.crypter = mail.crypter
         /\ UNCHANGED <<item, alive, out>>
<1>1. /\ ui.at = "returned" /\ ui.sender = "done" /\ alive /\ mail.crypt \in Handed
      /\ ui.saver # "done" /\ mail \in Mails
      /\ \A t \in Threads : thr[t].pc \in {"off", "served"}
  BY PinSays DEF SecondSendDone, TypeOK, CryptThreads, Handed
<1>2. \A t \in Threads : thr'[t].pc = "off"
  BY <1>1 DEF SecondSendDone, Served, Off
<1>3. /\ mail'.crypt = mail.crypt /\ mail'.inline = mail.inline /\ mail'.sync = mail.sync
      /\ mail'.crypter = mail.crypter
  BY <1>1 DEF SecondSendDone, Mails
<1> QED BY <1>1, <1>2, <1>3 DEF SecondSendDone

\* The steps of a crypto thread.
LEMMA ThreadMakes ==
  ASSUME Undisturbed, TypeOK, PinInv, MadeMail, NEW t \in Threads, Thread(t)
  PROVE  /\ alive /\ ~mail.sync /\ mail.crypt = "NeedsActualCrypt" /\ Active = {t}
         /\ ui.at # "crypt" /\ ui.saver # "done" /\ ui.sender # "done"
         /\ \A u \in Threads \ {t} : thr'[u] = thr[u] /\ thr'[u].pc = "off"
         /\ UNCHANGED <<item, alive, ui, sent, ghost>>
         /\ mail'.inline = mail.inline /\ ~mail'.sync
         /\ \/ /\ thr[t].pc = "start" /\ thr'[t].pc = "resolve" /\ thr'[t].c = mail.crypter
               /\ UNCHANGED <<mail, out, posted>>
            \/ /\ thr[t].pc = "resolve" /\ thr'[t].pc = "split"
               /\ posted' = posted \cup {"split"} /\ UNCHANGED <<mail, out>>
            \/ /\ thr[t].pc = "resolve" /\ thr'[t].pc = "crypt" /\ thr'[t].key = "mail"
               /\ thr'[t].c = mail.crypter
               /\ UNCHANGED <<mail, out, posted>>
            \/ /\ thr[t].pc \in {"resolve", "crypt", "split"} /\ thr'[t].pc = "off"
               /\ mail'.crypt = "NoCryptMail" /\ UNCHANGED posted
            \/ /\ thr[t].pc = "crypt" /\ thr'[t].pc = "posted" /\ UNCHANGED posted
               /\ mail'.crypt = "NeedsUpdateInOOM" /\ Output(out', mail') = "mail"
<1>1. thr[t].pc \in {"start", "resolve", "crypt", "split"}
  BY DEF Thread, ThreadStart, ThreadResolve, ThreadFail, ThreadDone
<1>2. /\ alive /\ ~mail.sync /\ mail.crypt = "NeedsActualCrypt" /\ Active = {t} /\ ~mail.draft
      /\ ui.at # "crypt" /\ ui.saver # "done" /\ ui.sender # "done" /\ mail.crypter # NoJob
      /\ CryptReady
      /\ mail \in Mails /\ item \in Items /\ thr \in [Threads -> CryptThreads]
      /\ out \in [Jobs -> Outputs]
  BY <1>1, PinSays DEF Active, Handed, TypeOK, CryptReady
<1>3. \A u \in Threads \ {t} : thr'[u] = thr[u]
  BY <1>2 DEF Thread, ThreadStart, ThreadResolve, ThreadFail, ThreadDone
<1>4. \A u \in Threads \ {t} : thr'[u].pc = "off"
  BY <1>2, <1>3 DEF Active
<1>5. UNCHANGED <<alive, ui, sent, ghost>>
  BY DEF Thread, ThreadStart, ThreadResolve, ThreadFail, ThreadDone
<1>6. CASE ThreadStart(t)
  <2>1. /\ thr' = [thr EXCEPT ![t].pc = "resolve", ![t].c = mail.crypter]
        /\ UNCHANGED <<mail, item, out, posted>> /\ thr[t].pc = "start"
    BY <1>2, <1>6 DEF ThreadStart
  <2>2. thr'[t].pc = "resolve" /\ thr'[t].c = mail.crypter
    BY <1>2, <2>1 DEF CryptThreads
  <2> QED BY <1>2, <1>3, <1>4, <1>5, <2>1, <2>2
<1>7. CASE ThreadResolve(t)
  <2>1. Made(mail) = "mail" /\ thr[t].pc = "resolve" /\ thr[t].c = mail.crypter
    BY <1>2, <1>7 DEF Made, ThreadResolve, MadeMail
  <2>2. UNCHANGED <<mail, item, out>>
    BY <1>7 DEF ThreadResolve
  <2>3. CASE MustSplit
    <3>1. thr'[t].pc = "split" /\ posted' = posted \cup {"split"}
      BY <1>2, <1>7, <2>3 DEF ThreadResolve, CryptThreads
    <3> QED BY <1>2, <1>3, <1>4, <1>5, <2>1, <2>2, <3>1
  <2>4. CASE ~MustSplit
    <3>1. thr' = [thr EXCEPT ![t].pc = "crypt", ![t].key = "mail"] /\ posted' = posted
      BY <1>7, <2>1, <2>4 DEF ThreadResolve
    <3>2. thr'[t].pc = "crypt" /\ thr'[t].key = "mail" /\ thr'[t].c = mail.crypter
      BY <1>2, <2>1, <3>1 DEF CryptThreads
    <3> QED BY <1>2, <1>3, <1>4, <1>5, <2>1, <2>2, <3>1, <3>2
  <2> QED BY <2>3, <2>4
<1>8. CASE ThreadFail(t)
  <2>1. /\ thr'[t].pc = "off" /\ mail' = CryptFailed(mail) /\ UNCHANGED <<item, posted>>
        /\ thr[t].pc \in {"resolve", "crypt", "split"}
    BY <1>2, <1>8 DEF ThreadFail, Off
  <2>2. mail'.crypt = "NoCryptMail" /\ mail'.inline = mail.inline /\ ~mail'.sync
    BY <1>2, <2>1 DEF CryptFailed, Mails
  <2> QED BY <1>2, <1>3, <1>4, <1>5, <2>1, <2>2
<1>9. CASE ThreadDone(t)
  <2>1. /\ thr[t].pc = "crypt" /\ thr[t].c = mail.crypter /\ thr[t].key = "mail"
    BY <1>9 DEF ThreadDone, MadeMail
  <2>2. /\ mail' = [mail EXCEPT !.window = TRUE, !.crypt = "NeedsUpdateInOOM"]
        /\ thr' = [thr EXCEPT ![t].pc = "posted"] /\ UNCHANGED <<item, posted>>
        /\ out' = [out EXCEPT ![mail.crypter] = "mail"]
    BY <1>2, <1>9, <2>1 DEF ThreadDone
  <2>3. /\ mail'.crypt = "NeedsUpdateInOOM" /\ mail'.inline = mail.inline /\ ~mail'.sync
        /\ mail'.crypter = mail.crypter /\ mail.crypter \in Jobs
    BY <1>2, <2>2 DEF Mails
  <2>4. thr'[t].pc = "posted"
    BY <1>2, <2>2 DEF CryptThreads
  <2>5. Output(out', mail') = "mail"
    BY <1>2, <2>2, <2>3 DEF Output
  <2> QED BY <1>2, <1>3, <1>4, <1>5, <2>1, <2>2, <2>3, <2>4, <2>5
<1> QED BY <1>6, <1>7, <1>8, <1>9 DEF Thread

\* A save of a mail that is not a draft is not blocked and prepares nothing.
LEMMA WriteMakes ==
  ASSUME Undisturbed, TypeOK, PinInv, Write
  PROVE  /\ ui.at = "write" /\ ui'.at = "afterwrite" /\ ui'.saver = ui.saver
         /\ ui'.sender = ui.sender /\ ui'.err = ui.err
         /\ mail' = mail /\ UNCHANGED <<alive, thr, out, posted, sent>>
         /\ item'.body = item.body /\ item'.mime = item.mime /\ item'.flags = item.flags
<1>1. ~mail.draft /\ "draft_key" \notin Options /\ ui \in UIs /\ item \in Items
  BY PinSays DEF Undisturbed, TypeOK
<1>2. /\ ui' = [ui EXCEPT !.at = "afterwrite"] /\ mail' = mail
      /\ item' = [item EXCEPT !.saved = item.body]
      /\ ui.at = "write" /\ UNCHANGED <<alive, thr, out, posted, sent>>
  BY <1>1 DEF Write, WriteBlocked, WriteStartsDraft
<1>3. /\ ui'.at = "afterwrite" /\ ui'.saver = ui.saver /\ ui'.sender = ui.sender
      /\ ui'.err = ui.err
  BY <1>1, <1>2 DEF UIs
<1>4. item'.body = item.body /\ item'.mime = item.mime /\ item'.flags = item.flags
  BY <1>1, <1>2 DEF Items
<1> QED BY <1>2, <1>3, <1>4

LEMMA DeliverMakes ==
  ASSUME TypeOK, PinInv, Deliver
  PROVE  /\ ui.at = "deliver" /\ ui'.at = "returned" /\ ui'.saver = ui.saver
         /\ ui'.sender = ui.sender /\ UNCHANGED <<mail, alive, thr, out, posted>>
         /\ item'.body = item.body /\ item'.mime = item.mime /\ item'.flags = item.flags
         /\ \/ ~ui'.err /\ sent' = PassedContent /\ ghost' = GhostLeft
            \/ ui'.err /\ "senderr" \in Env /\ UNCHANGED <<item, sent, ghost>>
<1>1. ~mail.draft /\ ui \in UIs /\ item \in Items
  BY PinSays DEF TypeOK
<1>2. /\ ui.at = "deliver" /\ UNCHANGED <<mail, alive, thr, out, posted>>
      /\ \/ /\ ui' = [ui EXCEPT !.at = "returned", !.err = FALSE]
            /\ item' = [item EXCEPT !.saved = item.body]
            /\ sent' = PassedContent /\ ghost' = GhostLeft
         \/ /\ ui' = [ui EXCEPT !.at = "returned", !.err = TRUE]
            /\ "senderr" \in Env /\ UNCHANGED <<item, sent, ghost>>
  BY <1>1 DEF Deliver, WriteBlocked
<1>3. \A e \in BOOLEAN : LET u == [ui EXCEPT !.at = "returned", !.err = e]
                         IN u.at = "returned" /\ u.saver = ui.saver /\ u.sender = ui.sender
                            /\ u.err = e
  BY <1>1 DEF UIs
<1>4. LET i == [item EXCEPT !.saved = item.body]
      IN i.body = item.body /\ i.mime = item.mime /\ i.flags = item.flags
  BY <1>1 DEF Items
<1> QED BY <1>2, <1>3, <1>4

LEMMA WorkaroundMakes ==
  ASSUME TypeOK, PinInv, SendWorkaroundT3656
  PROVE  /\ ui.at \in {"gate", "send"} /\ ui'.at = "returned" /\ ui'.saver = ui.saver
         /\ ui'.sender = ui.sender /\ mail.crypt = "WantsSendMIME" /\ ui.saver # "done"
         /\ "class" \in Env /\ UNCHANGED <<mail, item, alive, thr, out>>
         /\ ui'.err => "abort" \in Env
         /\ \/ /\ posted' = posted \cup {"close"}
               /\ \/ sent' = SubmittedContent /\ ghost' = GhostLeft
                  \/ "submit" \in Env /\ UNCHANGED <<sent, ghost>>
            \/ "base" \in Env /\ UNCHANGED <<posted, sent, ghost>>
<1>1. /\ ui.at \in {"gate", "send"} /\ mail.crypt = "WantsSendMIME" /\ ui.saver # "done"
      /\ "class" \in Env /\ Cancel /\ ui \in UIs
      /\ UNCHANGED <<mail, item, alive, thr, out>>
  BY PinSays DEF SendWorkaroundT3656, AtGate, TypeOK
<1>2. PICK err \in (IF "abort" \in Env THEN BOOLEAN ELSE {FALSE}) :
        ui' = [ui EXCEPT !.at = "returned", !.err = err]
  BY <1>1 DEF Cancel
<1>3. /\ ui'.at = "returned" /\ ui'.saver = ui.saver /\ ui'.sender = ui.sender
      /\ ui'.err => "abort" \in Env
  BY <1>1, <1>2 DEF UIs
<1>4. SubmitBase
  BY DEF SendWorkaroundT3656
<1> QED BY <1>1, <1>3, <1>4 DEF SubmitBase, SubmitMessage

\* The steps that leave the mail and the threads as they are.
PlainStep ==
  \/ BeforeAutoSave \/ UserSave \/ UserSend \/ Unload \/ AfterWriteNothing
  \/ SaveReturns \/ SecondSaveDone \/ SendPassesOpen \/ SendReturns \/ SplitAndSend
  \/ \E b \in Bodies : Edit(b)
  \/ \E f \in {"none", "sign", "encrypt"} : Toggle(f)
  \/ Over \/ UNCHANGED vars

LEMMA PlainSteps ==
  ASSUME Undisturbed, TypeOK, PinInv, PlainStep
  PROVE  /\ mail' = mail /\ UNCHANGED <<thr, out, sent>> /\ (alive' => alive)
         /\ \/ ui' = ui
            \/ ui.at = "idle" /\ ui'.at = "write" /\ ui'.saver \in {"auto", "user"}
               /\ ui'.sender = "none" /\ alive
            \/ ui.at = "idle" /\ ui'.at = "send" /\ ui'.saver = "none"
               /\ ui'.sender \in {"user", "split"} /\ alive
            \/ ui.at = "afterwrite" /\ ui'.at = "saved" /\ ui'.saver = ui.saver
               /\ ui'.sender = ui.sender /\ mail.crypt # "NeedsFirstAfterWrite"
               /\ mail.crypt # "NeedsSecondAfterWrite"
            \/ ui.at = "saved" /\ ui'.at = "idle" /\ ui'.saver = "none"
               /\ ui'.sender = "none" /\ ui.saver \in {"auto", "user"}
            \/ ui.at = "returned" /\ ui'.at = "idle" /\ ui'.saver = "none"
               /\ ui'.sender = "none" /\ ui.sender # "done"
            \/ ui.at = "saved" /\ ui'.at = "send" /\ ui'.saver = "none"
               /\ ui'.sender = "done" /\ ui.saver = "done"
            \/ ui.at = "send" /\ ui'.at = "deliver" /\ ui'.saver = ui.saver
               /\ ui'.sender = ui.sender
               /\ mail.crypt = "NoCryptMail" /\ (Reached => item.flags = "none")
<1>1. "draft_key" \notin Options /\ ui \in UIs
  BY DEF Undisturbed, TypeOK
<1>2. CASE BeforeAutoSave \/ UserSave
  BY <1>1, <1>2 DEF BeforeAutoSave, UserSave, CanCompose, AtIdle, Idle
<1>3. CASE UserSend \/ SplitAndSend
  <2>1. CASE UserSend
    BY <2>1 DEF UserSend, CanCompose, AtIdle, Idle
  <2>2. CASE SplitAndSend
    BY <2>2 DEF SplitAndSend, Idle
  <2> QED BY <1>3, <2>1, <2>2
<1>4. CASE Unload
  BY <1>4 DEF Unload
<1>5. CASE AfterWriteNothing
  BY <1>1, <1>5 DEF AfterWriteNothing, UIs
<1>6. CASE SaveReturns
  BY <1>6 DEF SaveReturns, Idle
<1>7. CASE SendReturns
  BY <1>7 DEF SendReturns, Idle
<1>8. CASE SecondSaveDone
  BY <1>8 DEF SecondSaveDone, Idle
<1>9. CASE SendPassesOpen
  BY <1>1, <1>9 DEF SendPassesOpen, FlagsRead, NeedsCrypto, OneIf, Reached, UIs
<1>10. ASSUME NEW b \in Bodies, Edit(b)
       PROVE  UNCHANGED <<mail, alive, thr, out, ui, sent>>
  BY <1>10 DEF Edit
<1>12. ASSUME NEW f \in {"none", "sign", "encrypt"}, Toggle(f)
       PROVE  UNCHANGED <<mail, alive, thr, out, ui, sent>>
  BY <1>12 DEF Toggle
<1>11. CASE Over \/ UNCHANGED vars
  BY <1>11 DEF Over, vars
<1> QED BY <1>2, <1>3, <1>4, <1>5, <1>6, <1>7, <1>8, <1>9, <1>10, <1>11, <1>12 DEF PlainStep

\* Every step is one of those described, the first AfterWrite or CLOSE.
LEMMA StepsAre ==
  ASSUME Undisturbed, TypeOK, PinInv, [Next]_vars
  PROVE  \/ PlainStep \/ Write \/ AfterWriteFirst \/ AfterWriteSecond \/ SyncCrypt
         \/ SendPrepares \/ SendResumes \/ SendGate \/ SendWorkaroundT3656 \/ Deliver
         \/ SecondSendDone \/ CloseMail
         \/ \E t \in Threads : Thread(t) \/ CryptoDone(t)
<1>1. ~DraftDone /\ \A t \in Threads : ~CryptoDoneGone(t)
  BY PinSays DEF DraftDone, CryptoDoneGone
<1> QED BY <1>1 DEF PlainStep, Next, User, Handler, Message

LEMMA GhostKeeps ==
  ASSUME TypeOK
  PROVE  /\ GhostPrepared(ghost).wanted = ghost.wanted
         /\ GhostPrepared(ghost).wrote = ghost.wrote
         /\ GhostPrepared(ghost).asked = ghost.asked
         /\ GhostPrepared(ghost).twice = ghost.twice
         /\ GhostPrepared(ghost).stale => ghost.stale
         /\ GhostLeft.wanted = ghost.wanted /\ GhostLeft.wrote = ghost.wrote
         /\ GhostLeft.stale = ghost.stale /\ GhostLeft.asked = ghost.asked
         /\ GhostLeft.twice => ghost.twice \/ sent # "no"
BY DEF TypeOK, Ghosts, GhostPrepared, GhostLeft

\* Only the toggle buttons change the flags.
LEMMA PlainFlags ==
  ASSUME Undisturbed, TypeOK, PlainStep,
         ~\E f \in {"none", "sign", "encrypt"} : Toggle(f)
  PROVE  item'.flags = item.flags /\ ghost'.wanted = ghost.wanted
<1>1. "draft_key" \notin Options /\ item \in Items /\ ghost \in Ghosts
  BY DEF Undisturbed, TypeOK
<1>2. CASE BeforeAutoSave
  BY <1>2, GhostKeeps DEF BeforeAutoSave
<1>3. CASE UserSend
  BY <1>1, <1>3 DEF UserSend, Ghosts
<1>4. CASE UserSave \/ Unload \/ AfterWriteNothing \/ SaveReturns \/ SecondSaveDone
           \/ SendPassesOpen \/ SendReturns \/ Over \/ UNCHANGED vars
  BY <1>4 DEF UserSave, Unload, AfterWriteNothing, SaveReturns, SecondSaveDone,
              SendPassesOpen, SendReturns, Over, vars
<1>5. CASE SplitAndSend
  BY <1>1, <1>5 DEF SplitAndSend, Items
<1>6. ASSUME NEW b \in Bodies, Edit(b)
      PROVE  item'.flags = item.flags /\ ghost'.wanted = ghost.wanted
  BY <1>1, <1>6 DEF Edit, Items, Ghosts
<1> QED BY <1>2, <1>3, <1>4, <1>5, <1>6 DEF PlainStep

\* The user's choice was there when the Send was prepared, and still is.
LEMMA FirstStarts ==
  ASSUME Reached, UIOrder, AfterWriteFirst
  PROVE  \A flags \in FlagsRead : NeedsCrypto(flags)
BY DEF AfterWriteFirst, UIOrder, Reached, FlagsRead, NeedsCrypto, OneIf

LEMMA OrderNext ==
  ASSUME Undisturbed, Reached, TypeOK, PinInv, UIOrder, MadeMail, [Next]_vars
  PROVE  UIOrder'
<1>1. CASE PlainStep
  <2>1. /\ mail' = mail
        /\ \/ ui' = ui
           \/ ui'.at = "write" /\ ui'.saver \in {"auto", "user"}
           \/ ui'.at = "send" /\ ui'.saver = "none"
           \/ /\ ui.at = "afterwrite" /\ ui'.at = "saved" /\ ui'.saver = ui.saver
              /\ mail.crypt # "NeedsFirstAfterWrite"
           \/ ui'.at = "idle" /\ ui'.saver = "none" /\ ui'.sender = "none"
           \/ /\ ui.at = "send" /\ ui'.at = "deliver" /\ ui'.saver = ui.saver
              /\ mail.crypt = "NoCryptMail"
    BY <1>1, PlainSteps
  <2>2. mail.crypt = "NeedsSecondAfterWrite" => ui.at \in {"write", "afterwrite", "saved"}
    BY PinSays DEF UIOrder
  <2>3. mail.crypt = "NeedsSecondAfterWrite" => ui' = ui
    BY <1>1, <2>2, PinSays, PlainSteps DEF UIOrder, Handed
  <2>4. mail.crypt = "NeedsFirstAfterWrite" => item'.flags = item.flags
    <3>1. mail.crypt = "NeedsFirstAfterWrite" => ui.at # "idle"
      BY PinSays
    <3> QED BY <1>1, <3>1, PlainFlags DEF Toggle, CanCompose, AtIdle
  <2> QED BY <2>1, <2>3, <2>4 DEF UIOrder
<1>2. CASE Write
  BY <1>2, WriteMakes DEF UIOrder
<1>3. CASE AfterWriteFirst
  <2>1. ui.saver = "send"
    BY <1>3, PinSays DEF AfterWriteFirst
  <2> QED BY <1>3, <2>1, FirstDoes, FirstStarts DEF UIOrder
<1>4. CASE AfterWriteSecond
  BY <1>4, SecondMakes DEF UIOrder
<1>5. CASE SyncCrypt
  BY <1>5, SyncMakes DEF UIOrder
<1>6. CASE SendPrepares
  BY <1>6, PreparesMakes DEF UIOrder
<1>7. CASE SendResumes
  BY <1>7, ResumesMakes DEF UIOrder, Handed
<1>8. CASE SendGate
  BY <1>8, GateMakes DEF UIOrder
<1>9. CASE SendWorkaroundT3656
  BY <1>9, WorkaroundMakes DEF UIOrder
<1>10. CASE Deliver
  BY <1>10, DeliverMakes DEF UIOrder
<1>11. CASE SecondSendDone
  BY <1>11, SecondSendMakes DEF UIOrder, Idle, Handed
<1>12. CASE CloseMail
  <2>1. ui' = ui /\ ui.at = "idle" /\ mail'.crypt = mail.crypt /\ item' = item
    BY <1>12 DEF CloseMail, TypeOK, Mails
  <2> QED BY <2>1 DEF UIOrder
<1>13. ASSUME NEW t \in Threads, Thread(t) PROVE UIOrder'
  <2>1. /\ ui' = ui /\ mail.crypt = "NeedsActualCrypt" /\ ~mail'.sync /\ ui.at # "crypt"
        /\ mail'.crypt \in {"NeedsActualCrypt", "NoCryptMail", "NeedsUpdateInOOM"}
    BY <1>13, ThreadMakes
  <2> QED BY <2>1 DEF UIOrder, Handed
<1>14. ASSUME NEW t \in Threads, CryptoDone(t) PROVE UIOrder'
  BY <1>14, CryptoDoneMakes DEF UIOrder
<1> QED BY <1>1, <1>2, <1>3, <1>4, <1>5, <1>6, <1>7, <1>8, <1>9, <1>10, <1>11, <1>12, <1>13,
           <1>14, StepsAre

LEMMA MadeNext ==
  ASSUME Undisturbed, TypeOK, TypeOK', PinInv, UIOrder, MadeMail, [Next]_vars
  PROVE  MadeMail'
<1>1. CASE PlainStep
  <2>1. UNCHANGED <<mail, thr, out>>
    BY <1>1, PlainSteps
  <2> QED BY <2>1 DEF MadeMail, Output
<1>2. CASE Write
  <2>1. UNCHANGED <<mail, thr, out>>
    BY <1>2, WriteMakes
  <2> QED BY <2>1 DEF MadeMail, Output
<1>3. CASE AfterWriteFirst
  <2>1. \A t \in Threads : thr[t].pc = "off"
    BY <1>3, PinSays DEF AfterWriteFirst, Active
  <2>2. \A t \in Threads : thr'[t].pc \in {"off", "start"}
    <3>1. thr' = thr \/ \E t \in Free : thr' = [thr EXCEPT ![t].pc = "start"]
      BY <1>3, FirstDoes
    <3>2. thr \in [Threads -> CryptThreads]
      BY DEF TypeOK
    <3> QED BY <2>1, <3>1, <3>2 DEF CryptThreads, Free
  <2>3. mail'.crypt \in {"NoCryptMail", "NeedsActualCrypt"}
    BY <1>3, FirstDoes
  <2> QED BY <2>2, <2>3 DEF MadeMail
<1>4. CASE AfterWriteSecond
  <2>1. \A t \in Threads : thr[t].pc \notin {"resolve", "crypt"}
    BY <1>4, PinSays DEF AfterWriteSecond
  <2> QED BY <1>4, <2>1, SecondMakes DEF MadeMail
<1>5. CASE SyncCrypt
  <2>1. \A t \in Threads : thr[t].pc = "off"
    BY <1>5, SyncMakes DEF Active
  <2> QED BY <1>5, <2>1, SyncMakes DEF MadeMail
<1>6. CASE SendPrepares
  <2>1. \A t \in Threads : thr[t].pc = "off"
    BY <1>6, PreparesMakes DEF Active
  <2> QED BY <1>6, <2>1, PreparesMakes DEF MadeMail
<1>7. CASE SendResumes
  <2>1. CASE mail' = mail
    BY <1>7, <2>1, ResumesMakes DEF MadeMail, Output
  <2>2. CASE mail' # mail
    <3>1. \A t \in Threads : thr[t].pc \notin {"resolve", "crypt"}
      BY <1>7, <2>2, ResumesMakes, PinSays
    <3> QED BY <1>7, <2>2, <3>1, ResumesMakes DEF MadeMail
  <2> QED BY <2>1, <2>2
<1>8. CASE SendGate
  <2>1. CASE mail' = mail
    BY <1>8, <2>1, GateMakes DEF MadeMail, Output
  <2>2. CASE mail' # mail
    <3>1. \A t \in Threads : thr[t].pc \notin {"resolve", "crypt"}
      BY <1>8, <2>2, GateMakes, PinSays
    <3> QED BY <1>8, <2>2, <3>1, GateMakes DEF MadeMail
  <2> QED BY <2>1, <2>2
<1>9. CASE SendWorkaroundT3656 \/ Deliver
  <2>1. UNCHANGED <<mail, thr, out>>
    BY <1>9, WorkaroundMakes, DeliverMakes
  <2> QED BY <2>1 DEF MadeMail, Output
<1>10. CASE SecondSendDone
  <2>1. /\ \A t \in Threads : thr'[t].pc = "off"
        /\ mail'.crypt = mail.crypt /\ mail'.inline = mail.inline /\ mail.crypt \in Handed
    BY <1>10, SecondSendMakes
  <2> QED BY <2>1 DEF MadeMail, Handed
<1>11. CASE CloseMail
  <2>1. /\ mail'.crypt = mail.crypt /\ mail'.inline = mail.inline
        /\ mail'.crypter = mail.crypter /\ UNCHANGED <<thr, out>>
    BY <1>11 DEF CloseMail, TypeOK, Mails
  <2> QED BY <2>1 DEF MadeMail, Output
<1>12. ASSUME NEW t \in Threads, Thread(t) PROVE MadeMail'
  <2>1. /\ mail.crypt = "NeedsActualCrypt" /\ \A u \in Threads \ {t} : thr'[u].pc = "off"
    BY <1>12, ThreadMakes
  <2>2. CASE UNCHANGED mail
    BY <1>12, <2>1, <2>2, ThreadMakes DEF MadeMail
  <2>3. CASE mail' # mail
    <3>1. /\ thr'[t].pc \in {"off", "posted"}
          /\ \/ mail'.crypt = "NoCryptMail"
             \/ mail'.crypt = "NeedsUpdateInOOM" /\ Output(out', mail') = "mail"
      BY <1>12, <2>3, ThreadMakes
    <3> QED BY <2>1, <3>1 DEF MadeMail
  <2> QED BY <2>2, <2>3
<1>13. ASSUME NEW t \in Threads, CryptoDone(t) PROVE MadeMail'
  <2>1. \A u \in Threads : thr'[u].pc \notin {"resolve", "crypt"}
    BY <1>13, CryptoDoneMakes, PinSays
  <2>2. CASE mail'.crypt = "WantsSendInline"
    BY <2>1, <2>2 DEF MadeMail
  <2>3. CASE mail'.crypt = "NeedsSecondAfterWrite"
    BY <1>13, <2>1, <2>3, CryptoDoneMakes DEF MadeMail
  <2> QED BY <1>13, <2>2, <2>3, CryptoDoneMakes
<1> QED BY <1>1, <1>2, <1>3, <1>4, <1>5, <1>6, <1>7, <1>8, <1>9, <1>10, <1>11, <1>12, <1>13,
           StepsAre
-----------------------------------------------------------------------------
(***************************************************************************)
(* What leaves, and what stays when nothing leaves.                        *)
(***************************************************************************)
\* No Send comes to nothing after its crypto: Outlook fails none that the
\* handler passed, and the handler finds the base message it submits; no text
\* starts with -----BEGIN, which updateCryptOOM_o takes for a result of ours.
\* The user's choice is honoured under either, what is protected is really so
\* under the second.
Calm     == "senderr" \notin Env /\ ~({"class", "base"} \subseteq Env)
Plain    == "begin" \notin Bodies
Honest   == Calm \/ Plain
Protects == Plain /\ (Calm \/ "inline_pgp" \notin Options)

\* A message class that is not ours makes the Send handler submit the base
\* message and cancel: no error may come from either then.
OnceHyp == "class" \in Env => Env \cap {"submit", "abort"} = {}

\* do_crypt has put the MIME structure into the base message itself.
SyncWritten == mail.crypt = "NeedsUpdateInOOM" /\ mail.sync /\ ~mail.inline

\* The item carries what the crypt state says it carries.
Shown ==
  /\ mail.crypt = "WantsSendMIME" \/ SyncWritten => item.mime = "mail"
  /\ item.body = "armor" => mail.crypt = "WantsSendInline"
  /\ item.body = "begin" => ~Plain
  /\ mail.crypt = "WantsSendInline" /\ Calm => item.body \in {"begin", "armor"}
  /\ mail.crypt = "WantsSendInline" /\ Plain => mail.inline
  /\ mail.inline => "inline_pgp" \in Options

\* The flags of the item are the user's choice until a result is in the item,
\* and an open mail is delivered only without them.
Flags ==
  /\ \/ item.flags = ghost.wanted
     \/ mail.crypt = "WantsSendMIME" \/ SyncWritten
     \/ mail.crypt = "WantsSendInline" /\ Calm
  /\ ui.at = "deliver" =>
       mail.crypt \in Handed \/ (mail.crypt = "NoCryptMail" /\ item.flags = "none")
  /\ ui.at = "returned" /\ ui.err /\ ui.sender = "done" /\ Calm =>
       mail.crypt = "WantsSendMIME"

\* Where the program rests, the mail has left or can be sent again.
Settled == Active # {} \/ mail.crypt = "NoCryptMail" \/ sent # "no" \/ "close" \in posted

RestInv ==
  /\ ui.saver = "send" /\ ui.at = "saved" /\ ~mail.sync => Settled
  /\ alive /\ ui.at \in {"idle", "send", "returned"} /\ ui.sender # "done" => Settled
  /\ ui.saver \in {"auto", "user"} => Settled
  /\ ui.sender = "done" /\ ui.at = "returned" => sent # "no" \/ "close" \in posted

\* The text in the window is the user's until a result takes its place.
TextInv ==
  /\ ~ghost.stale
  /\ \/ item.body = ghost.wrote
     \/ mail.crypt \in {"NeedsSecondAfterWrite", "WantsSendInline", "WantsSendMIME"}

\* What the plain steps do to the text, the flags and the messages under way.
LEMMA PlainItem ==
  ASSUME Undisturbed, TypeOK, PlainStep
  PROVE  /\ posted' \subseteq posted /\ ("close" \in posted => "close" \in posted')
         /\ item'.mime = item.mime
         /\ ghost'.twice = ghost.twice
         /\ \/ /\ item'.body = item.body /\ item'.flags = item.flags
               /\ ghost'.wanted = ghost.wanted /\ ghost'.wrote = ghost.wrote
               /\ ghost'.stale = ghost.stale
            \/ \E b \in Bodies :
                 /\ Edit(b) /\ ui' = ui /\ item'.body = b /\ ghost'.wrote = b
                 /\ item'.flags = item.flags
                 /\ ghost'.wanted = ghost.wanted
                 /\ ghost'.stale = (mail.crypt # "NoCryptMail")
            \/ /\ item'.body = item.body /\ item'.flags = ghost'.wanted /\ ui' = ui
               /\ ghost'.wrote = ghost.wrote /\ ghost'.stale = ghost.stale
               /\ sent = "no"
<1>1. "draft_key" \notin Options /\ item \in Items /\ ghost \in Ghosts
  BY DEF Undisturbed, TypeOK
<1>2. CASE BeforeAutoSave
  <2>1. GhostPrepared(ghost) = ghost
    BY <1>1, <1>2 DEF BeforeAutoSave, GhostPrepared
  <2> QED BY <1>1, <1>2, <2>1 DEF BeforeAutoSave
<1>3. CASE UserSend
  BY <1>1, <1>3 DEF UserSend, Ghosts
<1>4. CASE UserSave \/ Unload \/ AfterWriteNothing \/ SaveReturns \/ SecondSaveDone
           \/ SendPassesOpen \/ SendReturns \/ Over \/ UNCHANGED vars
  BY <1>4 DEF UserSave, Unload, AfterWriteNothing, SaveReturns, SecondSaveDone,
              SendPassesOpen, SendReturns, Over, vars
<1>5. CASE SplitAndSend
  BY <1>1, <1>5 DEF SplitAndSend, Items
<1>6. ASSUME NEW b \in Bodies, Edit(b)
      PROVE  /\ item'.body = b /\ item'.mime = item.mime /\ item'.flags = item.flags
             /\ ghost'.wrote = b /\ ghost'.wanted = ghost.wanted /\ ghost'.twice = ghost.twice
             /\ ghost'.stale = (mail.crypt # "NoCryptMail") /\ posted' = posted /\ ui' = ui
  <2>1. item'.body = b /\ item'.mime = item.mime /\ item'.flags = item.flags
    BY <1>1, <1>6 DEF Edit, Items
  <2>2. /\ ghost'.wrote = b /\ ghost'.wanted = ghost.wanted /\ ghost'.twice = ghost.twice
        /\ ghost'.stale = (mail.crypt # "NoCryptMail")
    BY <1>1, <1>6 DEF Edit, Ghosts
  <2> QED BY <1>6, <2>1, <2>2 DEF Edit
<1>7. ASSUME NEW f \in {"none", "sign", "encrypt"}, Toggle(f)
      PROVE  /\ item'.body = item.body /\ item'.mime = item.mime /\ item'.flags = ghost'.wanted
             /\ ghost'.wrote = ghost.wrote /\ ghost'.stale = ghost.stale
             /\ ghost'.twice = ghost.twice /\ posted' = posted /\ sent = "no" /\ ui' = ui
  BY <1>1, <1>7 DEF Toggle, CanCompose, Items, Ghosts
<1> QED BY <1>2, <1>3, <1>4, <1>5, <1>6, <1>7 DEF PlainStep

\* The user edits, protects and sends a mail whose crypto is over.
LEMMA ComposedIsFresh ==
  ASSUME Undisturbed, TypeOK, PinInv, UIOrder, WindowInv, RestInv, CanCompose
  PROVE  mail.crypt = "NoCryptMail"
<1>1. /\ ui.at = "idle" /\ alive /\ mail.window /\ sent = "no" /\ posted = {}
      /\ \A t \in Threads : thr[t].pc # "posted"
  BY DEF Undisturbed, CanCompose, AtIdle
<1>2. Working = {}
  BY <1>1 DEF WindowInv
<1>3. Active = {}
  BY <1>1, <1>2, PinSays DEF Active, Working, TypeOK, CryptThreads
<1>4. Settled
  BY <1>1 DEF RestInv, UIOrder
<1> QED BY <1>1, <1>3, <1>4 DEF Settled

LEMMA ShownNext ==
  ASSUME Undisturbed, TypeOK, PinInv, UIOrder, MadeMail, WindowInv, Calm => RestInv,
         Shown, [Next]_vars
  PROVE  Shown'
<1>1. CASE PlainStep
  <2>1. mail' = mail /\ item'.mime = item.mime
    BY <1>1, PlainSteps, PlainItem
  <2>2. CASE item'.body = item.body
    BY <2>1, <2>2 DEF Shown, SyncWritten
  <2>3. CASE item'.body # item.body
    <3>1. PICK b \in Bodies : Edit(b) /\ item'.body = b
      BY <1>1, <2>3, PlainItem
    <3>2. Calm => mail.crypt = "NoCryptMail"
      BY <3>1, ComposedIsFresh DEF Edit
    <3>3. b # "armor"
      BY BodiesAssumption DEF AllBodies
    <3> QED BY <2>1, <3>1, <3>2, <3>3 DEF Shown, SyncWritten, Plain
  <2> QED BY <2>2, <2>3
<1>2. CASE Write
  BY <1>2, WriteMakes DEF Shown, SyncWritten
<1>3. CASE AfterWriteFirst
  <2>1. /\ mail.crypt = "NeedsFirstAfterWrite" /\ item' = item
        /\ mail'.crypt \in {"NoCryptMail", "NeedsActualCrypt"}
        /\ mail'.inline \in DoInline \cup {mail.inline}
    BY <1>3, FirstDoes DEF AfterWriteFirst
  <2>2. mail'.inline => mail.inline \/ "inline_pgp" \in Options
    BY <2>1 DEF DoInline
  <2> QED BY <2>1, <2>2 DEF Shown, SyncWritten
<1>4. CASE AfterWriteSecond
  BY <1>4, SecondMakes DEF Shown, SyncWritten
<1>5. CASE SyncCrypt
  BY <1>5, SyncMakes DEF Shown, SyncWritten
<1>6. CASE SendPrepares
  <2>1. CASE mail' = mail
    BY <1>6, <2>1, PreparesMakes DEF Shown, SyncWritten
  <2>2. CASE mail' # mail
    BY <1>6, <2>2, PreparesMakes DEF Shown, SyncWritten
  <2> QED BY <2>1, <2>2
<1>7. CASE SendResumes
  <2>1. CASE mail' = mail /\ item' = item
    BY <2>1 DEF Shown, SyncWritten
  <2>2. CASE ~(mail' = mail /\ item' = item)
    <3>1. /\ mail.sync /\ mail.crypt = "NeedsUpdateInOOM" /\ mail'.inline = mail.inline
          /\ item'.mime = item.mime
          /\ IF mail.inline \/ item.body \in {"begin", "armor"}
             THEN /\ mail'.crypt = "WantsSendInline"
                  /\ item'.body = IF mail.inline THEN "armor" ELSE item.body
             ELSE mail'.crypt = "WantsSendMIME" /\ item'.body = "empty"
      BY <1>7, <2>2, ResumesMakes
    <3> QED BY <3>1 DEF Shown, SyncWritten
  <2> QED BY <2>1, <2>2
<1>8. CASE SendGate
  <2>1. CASE mail' = mail
    BY <1>8, <2>1, GateMakes DEF Shown, SyncWritten
  <2>2. CASE mail' # mail
    BY <1>8, <2>2, GateMakes DEF Shown, SyncWritten
  <2> QED BY <2>1, <2>2
<1>9. CASE SendWorkaroundT3656
  BY <1>9, WorkaroundMakes DEF Shown, SyncWritten
<1>10. CASE Deliver
  BY <1>10, DeliverMakes DEF Shown, SyncWritten
<1>11. CASE SecondSendDone
  BY <1>11, SecondSendMakes DEF Shown, SyncWritten
<1>12. CASE CloseMail
  <2>1. /\ mail'.crypt = mail.crypt /\ mail'.inline = mail.inline /\ mail'.sync = mail.sync
        /\ item' = item
    BY <1>12 DEF CloseMail, TypeOK, Mails
  <2> QED BY <2>1 DEF Shown, SyncWritten
<1>13. ASSUME NEW t \in Threads, Thread(t) PROVE Shown'
  <2>1. /\ mail.crypt = "NeedsActualCrypt" /\ ~mail'.sync /\ mail'.inline = mail.inline
        /\ item' = item
        /\ mail'.crypt \in {"NeedsActualCrypt", "NoCryptMail", "NeedsUpdateInOOM"}
    BY <1>13, ThreadMakes
  <2> QED BY <2>1 DEF Shown, SyncWritten
<1>14. ASSUME NEW t \in Threads, CryptoDone(t) PROVE Shown'
  <2>1. /\ mail.crypt = "NeedsUpdateInOOM" /\ mail'.inline = mail.inline
        /\ IF mail.inline \/ item.body \in {"begin", "armor"}
           THEN /\ mail'.crypt = "WantsSendInline"
                /\ item'.body = IF mail.inline THEN "armor" ELSE item.body
           ELSE mail'.crypt = "NeedsSecondAfterWrite" /\ item'.body = "empty"
    BY <1>14, CryptoDoneMakes
  <2> QED BY <2>1 DEF Shown, SyncWritten
<1> QED BY <1>1, <1>2, <1>3, <1>4, <1>5, <1>6, <1>7, <1>8, <1>9, <1>10, <1>11, <1>12, <1>13,
           <1>14, StepsAre

LEMMA FlagsNext ==
  ASSUME Undisturbed, Reached, Honest, TypeOK, PinInv, UIOrder, MadeMail, Shown, Flags,
         [Next]_vars
  PROVE  Flags'
<1>1. CASE PlainStep
  <2>1. /\ mail' = mail
        /\ \/ item'.flags = item.flags /\ ghost'.wanted = ghost.wanted
           \/ item'.flags = ghost'.wanted /\ ui' = ui /\ ui.at # "deliver"
    <3>1. \A f \in {"none", "sign", "encrypt"} : Toggle(f) => ui.at = "idle"
      BY DEF Toggle, CanCompose, AtIdle
    <3>2. CASE \E f \in {"none", "sign", "encrypt"} : Toggle(f)
      <4>1. PICK f \in {"none", "sign", "encrypt"} : Toggle(f)
        BY <3>2
      <4>2. item'.flags = ghost'.wanted /\ ui' = ui /\ mail' = mail
        BY <4>1 DEF Toggle, TypeOK, Items, Ghosts
      <4> QED BY <3>1, <4>1, <4>2
    <3>3. CASE ~\E f \in {"none", "sign", "encrypt"} : Toggle(f)
      <4>1. item'.flags = item.flags /\ ghost'.wanted = ghost.wanted
        BY <1>1, <3>3, PlainFlags
      <4> QED BY <1>1, <4>1, PlainSteps
    <3> QED BY <3>2, <3>3
  <2>2. \/ ui' = ui
        \/ ui'.at \notin {"deliver", "returned"}
        \/ ui'.at = "deliver" /\ mail.crypt = "NoCryptMail" /\ item.flags = "none"
    BY <1>1, PlainSteps
  <2> QED BY <2>1, <2>2 DEF Flags, SyncWritten
<1>2. CASE Write
  <2>1. ghost'.wanted = ghost.wanted
    BY <1>2, GhostKeeps DEF Write
  <2> QED BY <1>2, <2>1, WriteMakes DEF Flags, SyncWritten
<1>3. CASE AfterWriteFirst
  <2>1. /\ mail.crypt = "NeedsFirstAfterWrite" /\ UNCHANGED <<item, ghost>>
        /\ ui'.at \in {"saved", "crypt"}
    BY <1>3, FirstDoes DEF AfterWriteFirst
  <2> QED BY <2>1 DEF Flags, SyncWritten
<1>4. CASE AfterWriteSecond
  BY <1>4, SecondMakes DEF Flags, SyncWritten
<1>5. CASE SyncCrypt
  <2>1. /\ mail.crypt = "NeedsActualCrypt" /\ mail'.sync /\ mail'.inline = mail.inline
        /\ ui'.at = "saved" /\ ghost' = ghost
        /\ \/ item' = item
           \/ mail'.crypt = "NeedsUpdateInOOM" /\ ~mail.inline
    BY <1>5, SyncMakes
  <2> QED BY <2>1 DEF Flags, SyncWritten
<1>6. CASE SendPrepares
  <2>1. /\ mail.crypt = "NoCryptMail" /\ item' = item /\ ui'.at \in {"returned", "write"}
        /\ ui'.sender # "done"
    BY <1>6, PreparesMakes
  <2>2. ghost'.wanted = ghost.wanted
    BY <1>6, GhostKeeps DEF SendPrepares
  <2> QED BY <2>1, <2>2 DEF Flags, SyncWritten
<1>7. CASE SendResumes
  <2>1. ui'.sender # "done" /\ ghost' = ghost /\ ui'.at \in {"returned", "gate"}
    BY <1>7, ResumesMakes
  <2>2. CASE mail' = mail /\ item' = item
    BY <2>1, <2>2 DEF Flags, SyncWritten
  <2>3. CASE ~(mail' = mail /\ item' = item)
    <3>1. /\ mail.sync /\ mail.crypt = "NeedsUpdateInOOM" /\ mail'.inline = mail.inline
          /\ item'.flags = item.flags
          /\ IF mail.inline \/ item.body \in {"begin", "armor"}
             THEN mail'.crypt = "WantsSendInline"
             ELSE mail'.crypt = "WantsSendMIME"
      BY <1>7, <2>3, ResumesMakes
    <3>2. CASE mail.inline
      BY <2>1, <3>1, <3>2 DEF Flags, SyncWritten
    <3>3. CASE ~mail.inline /\ item.body \in {"begin", "armor"}
      <4>1. Calm
        BY <3>1, <3>3 DEF Shown, Honest
      <4> QED BY <2>1, <3>1, <3>3, <4>1 DEF Flags
    <3>4. CASE ~mail.inline /\ item.body \notin {"begin", "armor"}
      BY <2>1, <3>1, <3>4 DEF Flags
    <3> QED BY <3>2, <3>3, <3>4
  <2> QED BY <2>2, <2>3
<1>8. CASE SendGate
  <2>1. UNCHANGED <<item, ghost>> /\ ui'.sender = ui.sender
    BY <1>8, GateMakes
  <2>2. CASE /\ mail.crypt = "WantsSendInline" /\ item.body = "text"
             /\ mail'.crypt = "NoCryptMail" /\ ui'.at = "returned"
    <3>1. ~Calm
      BY <2>2 DEF Shown
    <3> QED BY <2>1, <2>2, <3>1 DEF Flags, SyncWritten
  <2>3. CASE mail' = mail /\ mail.crypt \in Handed /\ ui'.at = "deliver"
    BY <2>1, <2>3 DEF Flags, SyncWritten
  <2>4. CASE mail' = mail /\ mail.crypt \notin Handed /\ ui'.at = "returned"
    <3>1. ui.sender # "done"
      BY <2>4, PinSays
    <3> QED BY <2>1, <2>4, <3>1 DEF Flags, SyncWritten
  <2> QED BY <1>8, <2>2, <2>3, <2>4, GateMakes
<1>9. CASE SendWorkaroundT3656
  BY <1>9, WorkaroundMakes DEF Flags
<1>10. CASE Deliver
  <2>1. ghost'.wanted = ghost.wanted
    BY <1>10, DeliverMakes, GhostKeeps
  <2> QED BY <1>10, <2>1, DeliverMakes DEF Flags, SyncWritten, Calm
<1>11. CASE SecondSendDone
  <2>1. /\ mail'.crypt = mail.crypt /\ mail'.inline = mail.inline /\ mail'.sync = mail.sync
        /\ item' = item /\ ui'.at = "idle"
    BY <1>11, SecondSendMakes DEF Idle
  <2>2. ghost'.wanted = ghost.wanted
    BY <1>11, GhostKeeps DEF SecondSendDone, SubmitMessage
  <2> QED BY <2>1, <2>2 DEF Flags, SyncWritten
<1>12. CASE CloseMail
  <2>1. /\ mail'.crypt = mail.crypt /\ mail'.inline = mail.inline /\ mail'.sync = mail.sync
        /\ item' = item /\ ui' = ui /\ ghost'.wanted = ghost.wanted
    BY <1>12 DEF CloseMail, TypeOK, Mails, Ghosts
  <2> QED BY <2>1 DEF Flags, SyncWritten
<1>13. ASSUME NEW t \in Threads, Thread(t) PROVE Flags'
  <2>1. /\ mail.crypt = "NeedsActualCrypt" /\ ui.at # "deliver" /\ ui.sender # "done"
        /\ UNCHANGED <<item, ui, ghost>>
    BY <1>13, ThreadMakes DEF UIOrder, Handed
  <2> QED BY <2>1 DEF Flags, SyncWritten
<1>14. ASSUME NEW t \in Threads, CryptoDone(t) PROVE Flags'
  <2>1. /\ mail.crypt = "NeedsUpdateInOOM" /\ ~mail.sync /\ item'.flags = item.flags
        /\ ghost' = ghost /\ ui'.at \in {"send", "write"}
    BY <1>14, CryptoDoneMakes
  <2> QED BY <2>1 DEF Flags, SyncWritten
<1> QED BY <1>1, <1>2, <1>3, <1>4, <1>5, <1>6, <1>7, <1>8, <1>9, <1>10, <1>11, <1>12, <1>13,
           <1>14, StepsAre

\* Steps that leave the threads, the mail and what left alone keep the mail
\* settled, unless CLOSE is handled.
LEMMA SettledKept ==
  ASSUME thr' = thr, mail'.crypt = mail.crypt, sent' = sent \/ sent' # "no",
         "close" \in posted => "close" \in posted', Settled
  PROVE  Settled'
BY DEF Settled, Active

LEMMA ContentLeft ==
  ASSUME TypeOK
  PROVE  /\ PassedContent # "no" /\ SubmittedContent # "no"
BY DEF TypeOK, Items, PassedContent, SubmittedContent, ContentWith

LEMMA RestNext ==
  ASSUME Undisturbed, Reached, Calm, TypeOK, PinInv, UIOrder, MadeMail, WindowInv, Shown,
         RestInv, [Next]_vars
  PROVE  RestInv'
<1>1. CASE PlainStep
  <2>1. Settled => Settled'
    BY <1>1, PlainSteps, PlainItem, SettledKept
  <2>2. /\ mail' = mail /\ (alive' => alive) /\ sent' = sent
        /\ "close" \in posted => "close" \in posted'
        /\ \/ ui' = ui
           \/ ui.at = "idle" /\ ui'.at = "write" /\ ui'.saver \in {"auto", "user"}
              /\ ui'.sender = "none" /\ alive
           \/ ui.at = "idle" /\ ui'.at = "send" /\ ui'.saver = "none" /\ alive
           \/ ui.at = "afterwrite" /\ ui'.at = "saved" /\ ui'.saver = ui.saver
              /\ ui'.sender = ui.sender /\ mail.crypt # "NeedsFirstAfterWrite"
           \/ ui.at = "saved" /\ ui'.at = "idle" /\ ui'.saver = "none"
              /\ ui'.sender = "none" /\ ui.saver \in {"auto", "user"}
           \/ ui.at = "returned" /\ ui'.at = "idle" /\ ui'.saver = "none"
              /\ ui'.sender = "none" /\ ui.sender # "done"
           \/ ui.at = "saved" /\ ui'.at = "send" /\ ui'.saver = "none"
              /\ ui'.sender = "done"
           \/ ui.at = "send" /\ ui'.at = "deliver" /\ ui'.saver = ui.saver
              /\ ui'.sender = ui.sender
    BY <1>1, PlainSteps, PlainItem
  <2>3. ui.at = "idle" => ui.saver = "none" /\ ui.sender = "none"
    BY DEF UIOrder
  <2>4. ui.at # "afterwrite" \/ ui.saver # "send" \/ mail.crypt = "NeedsFirstAfterWrite"
    BY DEF UIOrder
  <2>5. ui.at = "returned" => alive
    BY PinSays
  <2> QED BY <2>1, <2>2, <2>3, <2>4, <2>5 DEF RestInv
<1>2. CASE Write
  <2>1. Settled => Settled'
    BY <1>2, WriteMakes, SettledKept
  <2> QED BY <1>2, <2>1, WriteMakes DEF RestInv
<1>3. CASE AfterWriteFirst
  <2>1. /\ ui.saver = "send" /\ ui.sender # "done" /\ thr \in [Threads -> CryptThreads]
        /\ mail.crypt = "NeedsFirstAfterWrite"
    BY <1>3, PinSays DEF AfterWriteFirst, TypeOK
  <2>2. CASE mail'.crypt = "NoCryptMail"
    <3>1. Settled'
      BY <2>2 DEF Settled
    <3> QED BY <1>3, <2>1, <3>1, FirstDoes DEF RestInv
  <2>3. CASE ui'.at = "crypt"
    BY <1>3, <2>1, <2>3, FirstDoes DEF RestInv
  <2>4. CASE \E t \in Free : thr' = [thr EXCEPT ![t].pc = "start"]
    <3>1. PICK t \in Threads : thr'[t].pc = "start"
      BY <2>1, <2>4 DEF Free, CryptThreads
    <3>2. Settled'
      BY <3>1 DEF Settled, Active
    <3> QED BY <1>3, <2>1, <3>2, FirstDoes DEF RestInv
  <2> QED BY <1>3, <2>2, <2>3, <2>4, FirstDoes, FirstStarts
<1>4. CASE AfterWriteSecond
  BY <1>4, SecondMakes DEF RestInv
<1>5. CASE SyncCrypt
  <2>1. /\ ui'.at = "saved" /\ ui'.saver = "send" /\ ui'.sender # "done" /\ mail'.sync
    BY <1>5, SyncMakes
  <2> QED BY <2>1 DEF RestInv
<1>6. CASE SendPrepares
  <2>1. CASE mail' = mail /\ ui'.at = "returned" /\ ui'.saver = ui.saver
    <3>1. Settled'
      BY <1>6, <2>1, PreparesMakes DEF Settled
    <3> QED BY <1>6, <2>1, <3>1, PreparesMakes DEF RestInv
  <2>2. CASE ui'.at = "write" /\ ui'.saver = "send"
    BY <2>2 DEF RestInv
  <2> QED BY <1>6, <2>1, <2>2, PreparesMakes
<1>7. CASE SendResumes
  <2>1. CASE ui'.at = "gate"
    BY <1>7, <2>1, ResumesMakes DEF RestInv
  <2>2. CASE mail' = mail /\ ui'.at = "returned" /\ (~mail.sync \/ mail.crypt = "NoCryptMail")
    <3>1. Settled
      BY <1>7, <2>2, ResumesMakes DEF RestInv, Settled
    <3>2. Settled'
      BY <1>7, <2>2, <3>1, ResumesMakes, SettledKept
    <3> QED BY <1>7, <2>2, <3>2, ResumesMakes DEF RestInv
  <2> QED BY <1>7, <2>1, <2>2, ResumesMakes
<1>8. CASE SendGate
  <2>1. /\ ui.at \in {"gate", "send"} /\ alive /\ ui'.saver = ui.saver
        /\ ui'.sender = ui.sender /\ UNCHANGED <<thr, posted, sent>>
        /\ ui.saver \notin {"auto", "user"}
    BY <1>8, GateMakes DEF UIOrder
  <2>2. ~(mail.crypt = "WantsSendInline" /\ item.body = "text")
    BY DEF Shown
  <2>3. CASE ui'.at = "deliver"
    BY <2>1, <2>3 DEF RestInv
  <2>4. CASE mail' = mail /\ mail.crypt \notin Handed /\ ui'.at = "returned" /\ ui.at = "send"
    <3>1. ui.sender # "done"
      BY <2>4, PinSays
    <3>2. Settled
      BY <2>1, <2>4, <3>1 DEF RestInv
    <3>3. Settled'
      BY <2>1, <2>4, <3>2, SettledKept
    <3> QED BY <2>1, <2>4, <3>1, <3>3 DEF RestInv
  <2> QED BY <1>8, <2>2, <2>3, <2>4, GateMakes
<1>9. CASE SendWorkaroundT3656
  <2>1. "close" \in posted' /\ ui'.at = "returned"
    BY <1>9, WorkaroundMakes DEF Calm
  <2>2. Settled'
    BY <2>1 DEF Settled
  <2> QED BY <2>1, <2>2 DEF RestInv
<1>10. CASE Deliver
  <2>1. sent' # "no" /\ ui'.at = "returned"
    BY <1>10, DeliverMakes, ContentLeft DEF Calm
  <2>2. Settled'
    BY <2>1 DEF Settled
  <2> QED BY <2>1, <2>2 DEF RestInv
<1>11. CASE SecondSendDone
  <2>1. sent # "no" \/ "close" \in posted
    BY <1>11, SecondSendMakes DEF RestInv
  <2>2. /\ sent' = sent \/ sent' # "no"
        /\ "close" \in posted => "close" \in posted'
    BY <1>11, ContentLeft DEF SecondSendDone, SubmitMessage, CloseIf
  <2>3. Settled'
    BY <2>1, <2>2 DEF Settled
  <2>4. ui'.at = "idle" /\ ui'.saver = "none" /\ ui'.sender = "none"
    BY <1>11 DEF SecondSendDone, Idle
  <2> QED BY <2>3, <2>4 DEF RestInv
<1>12. CASE CloseMail
  <2>1. ui' = ui /\ ui.at = "idle" /\ ui.saver = "none" /\ ~alive'
    BY <1>12 DEF CloseMail, UIOrder
  <2> QED BY <2>1 DEF RestInv
<1>13. ASSUME NEW t \in Threads, Thread(t) PROVE RestInv'
  <2>1. /\ UNCHANGED <<alive, ui, sent>> /\ ("close" \in posted => "close" \in posted')
        /\ thr'[t].pc # "off" \/ mail'.crypt = "NoCryptMail"
        /\ ~mail.sync /\ ~mail'.sync /\ ui.sender # "done"
    BY <1>13, ThreadMakes
  <2>2. Settled /\ Settled'
    BY <1>13, <2>1, ThreadMakes DEF Settled, Active
  <2> QED BY <2>1, <2>2 DEF RestInv
<1>14. ASSUME NEW t \in Threads, CryptoDone(t) PROVE RestInv'
  <2>1. /\ \/ ui'.at = "send" /\ ui'.saver = "none" /\ ui'.sender = "done"
           \/ ui'.at = "write" /\ ui'.saver = "done" /\ ui'.sender = "none"
    BY <1>14, CryptoDoneMakes
  <2> QED BY <2>1 DEF RestInv
<1> QED BY <1>1, <1>2, <1>3, <1>4, <1>5, <1>6, <1>7, <1>8, <1>9, <1>10, <1>11, <1>12, <1>13,
           <1>14, StepsAre

LEMMA TextNext ==
  ASSUME Undisturbed, Calm, TypeOK, PinInv, UIOrder, MadeMail, WindowInv, Shown, RestInv,
         TextInv, [Next]_vars
  PROVE  TextInv'
<1>1. CASE PlainStep
  <2>1. mail' = mail
    BY <1>1, PlainSteps
  <2>2. \/ item'.body = item.body /\ ghost'.wrote = ghost.wrote /\ ghost'.stale = ghost.stale
        \/ item'.body = ghost'.wrote /\ ghost'.stale = (mail.crypt # "NoCryptMail")
           /\ mail.crypt = "NoCryptMail"
    BY <1>1, PlainItem, ComposedIsFresh DEF Edit
  <2> QED BY <2>1, <2>2 DEF TextInv
<1>2. CASE Write
  <2>1. ghost' = GhostPrepared(ghost)
    BY <1>2 DEF Write
  <2> QED BY <1>2, <2>1, WriteMakes, GhostKeeps DEF TextInv
<1>3. CASE AfterWriteFirst
  <2>1. mail.crypt = "NeedsFirstAfterWrite" /\ UNCHANGED <<item, ghost>>
    BY <1>3 DEF AfterWriteFirst
  <2> QED BY <2>1 DEF TextInv
<1>4. CASE AfterWriteSecond
  BY <1>4, SecondMakes DEF TextInv
<1>5. CASE SyncCrypt
  BY <1>5, SyncMakes DEF TextInv
<1>6. CASE SendPrepares
  <2>1. mail.crypt = "NoCryptMail" /\ item' = item
    BY <1>6, PreparesMakes
  <2>2. ghost' = GhostPrepared(ghost)
    BY <1>6 DEF SendPrepares
  <2> QED BY <2>1, <2>2, GhostKeeps DEF TextInv
<1>7. CASE SendResumes
  <2>1. CASE mail' = mail /\ item' = item
    BY <1>7, <2>1, ResumesMakes DEF TextInv
  <2>2. CASE mail'.crypt \in {"WantsSendInline", "WantsSendMIME"}
    BY <1>7, <2>2, ResumesMakes DEF TextInv
  <2> QED BY <1>7, <2>1, <2>2, ResumesMakes
<1>8. CASE SendGate
  <2>1. ~(mail.crypt = "WantsSendInline" /\ item.body = "text")
    BY DEF Shown
  <2> QED BY <1>8, <2>1, GateMakes DEF TextInv
<1>9. CASE SendWorkaroundT3656
  BY <1>9, WorkaroundMakes, GhostKeeps DEF TextInv
<1>10. CASE Deliver
  BY <1>10, DeliverMakes, GhostKeeps DEF TextInv
<1>11. CASE SecondSendDone
  <2>1. ghost' \in {ghost, GhostLeft}
    BY <1>11 DEF SecondSendDone, SubmitMessage
  <2> QED BY <1>11, <2>1, SecondSendMakes, GhostKeeps DEF TextInv
<1>12. CASE CloseMail
  <2>1. /\ mail'.crypt = mail.crypt /\ item' = item
        /\ ghost'.wrote = ghost.wrote /\ ghost'.stale = ghost.stale
    BY <1>12 DEF CloseMail, TypeOK, Mails, Ghosts
  <2> QED BY <2>1 DEF TextInv
<1>13. ASSUME NEW t \in Threads, Thread(t) PROVE TextInv'
  BY <1>13, ThreadMakes DEF TextInv
<1>14. ASSUME NEW t \in Threads, CryptoDone(t) PROVE TextInv'
  BY <1>14, CryptoDoneMakes DEF TextInv
<1> QED BY <1>1, <1>2, <1>3, <1>4, <1>5, <1>6, <1>7, <1>8, <1>9, <1>10, <1>11, <1>12, <1>13,
           <1>14, StepsAre

\* What leaves, leaves once; the messages posted for it come after it left, and
\* a split is over before anything else is sent.
OnceInv ==
  /\ ~ghost.twice
  /\ "close" \in posted => sent # "no"
  /\ sent # "no" =>
       /\ Busy = {} /\ "split" \notin posted
       /\ ui.at \in {"idle", "returned"} \/ ui.saver = "auto"
       /\ ui.at = "returned" => ~ui.err
  /\ "split" \in posted =>
       /\ mail.crypt \in {"NoCryptMail", "NeedsActualCrypt"}
       /\ \A t \in Threads : thr[t].pc \in {"off", "split"}
       /\ \/ ui.at \in {"idle", "returned"} \/ ui.saver = "auto"
          \/ ui.saver = "send" /\ ui.at = "saved"
  /\ (\E t \in Threads : thr[t].pc \in {"start", "resolve", "crypt"}) =>
       \/ ui.at \in {"idle", "returned"} \/ ui.saver = "auto"
       \/ ui.saver = "send" /\ ui.at = "saved"

LEMMA OnceNext ==
  ASSUME Undisturbed, OnceHyp, TypeOK, PinInv, UIOrder, MadeMail, WindowInv, OnceInv,
         [Next]_vars
  PROVE  OnceInv'
<1> DEFINE Away == \/ ui.at \in {"idle", "returned"} \/ ui.saver = "auto"
                   \/ ui.saver = "send" /\ ui.at = "saved"
           Runs == \E t \in Threads : thr[t].pc \in {"start", "resolve", "crypt"}
<1>0. /\ ui.saver = "auto" => ui.at \in {"write", "afterwrite", "saved"}
      /\ ui.at = "idle" => ui.saver = "none"
  BY DEF UIOrder
<1>1. CASE PlainStep
  <2>1. /\ thr' = thr /\ mail' = mail /\ sent' = sent /\ posted' \subseteq posted
        /\ ghost'.twice = ghost.twice /\ Busy' = Busy
    BY <1>1, PlainSteps, PlainItem DEF Busy
  <2>2. CASE ui' = ui
    BY <2>1, <2>2 DEF OnceInv
  <2>3. CASE BeforeAutoSave
    <3>1. ui'.at = "write" /\ ui'.saver = "auto"
      BY <2>3 DEF BeforeAutoSave, Idle
    <3> QED BY <2>1, <3>1 DEF OnceInv
  <2>4. CASE UserSave \/ UserSend
    <3>1. sent = "no" /\ posted = {} /\ mail.window
      BY <2>4 DEF UserSave, UserSend, CanCompose, Undisturbed
    <3>2. Working = {}
      BY <3>1 DEF WindowInv
    <3>3. ~Runs
      BY <3>2 DEF Working
    <3> QED BY <2>1, <3>1, <3>3 DEF OnceInv
  <2>5. CASE SplitAndSend
    <3>1. "split" \in posted /\ posted' = posted \ {"split"}
      BY <2>5 DEF SplitAndSend
    <3>2. sent = "no" /\ \A t \in Threads : thr[t].pc \in {"off", "split"}
      BY <3>1 DEF OnceInv
    <3> QED BY <2>1, <3>1, <3>2 DEF OnceInv
  <2>6. CASE AfterWriteNothing
    <3>1. ui.at = "afterwrite" /\ ui'.at = "saved" /\ ui'.saver = ui.saver
      BY <2>6 DEF AfterWriteNothing, TypeOK, UIs
    <3> QED BY <2>1, <3>1 DEF OnceInv
  <2>7. CASE SaveReturns \/ SendReturns
    <3>1. ui'.at = "idle"
      BY <2>7 DEF SaveReturns, SendReturns, Idle
    <3> QED BY <2>1, <3>1 DEF OnceInv
  <2>8. CASE SecondSaveDone \/ SendPassesOpen
    <3>1. ui.at \in {"saved", "send"} /\ ui.saver # "auto" /\ ~(ui.saver = "send" /\ ui.at = "saved")
      BY <1>0, <2>8 DEF SecondSaveDone, SendPassesOpen
    <3>2. sent = "no" /\ "split" \notin posted /\ ~Runs
      BY <3>1 DEF OnceInv
    <3> QED BY <2>1, <3>2 DEF OnceInv
  <2>9. CASE Unload \/ (\E b \in Bodies : Edit(b)) \/ Over \/ UNCHANGED vars
             \/ (\E f \in {"none", "sign", "encrypt"} : Toggle(f))
    <3>1. ui' = ui
      BY <2>9 DEF Unload, Edit, Toggle, Over, vars
    <3> QED BY <2>2, <3>1
  <2> QED BY <1>1, <2>3, <2>4, <2>5, <2>6, <2>7, <2>8, <2>9 DEF PlainStep
<1>2. CASE Write
  <2>1. /\ ui.at = "write" /\ ui'.at = "afterwrite" /\ ui'.saver = ui.saver /\ mail' = mail
        /\ UNCHANGED <<thr, posted, sent>> /\ Busy' = Busy
    BY <1>2, WriteMakes DEF Busy
  <2>2. ghost'.twice = ghost.twice
    BY <1>2, GhostKeeps DEF Write
  <2> QED BY <2>1, <2>2 DEF OnceInv
<1>3. CASE AfterWriteFirst
  <2>1. /\ mail.crypt = "NeedsFirstAfterWrite" /\ ui.at = "afterwrite" /\ ui.saver = "send"
        /\ UNCHANGED <<posted, sent, ghost>> /\ \A t \in Threads : thr[t].pc = "off"
    BY <1>3, PinSays DEF AfterWriteFirst, Active
  <2>2. sent = "no" /\ "split" \notin posted
    BY <1>0, <2>1 DEF OnceInv
  <2>3. CASE thr' = thr
    BY <2>1, <2>2, <2>3 DEF OnceInv
  <2>4. CASE ui'.at = "saved"
    <3>1. ui'.saver = "send"
      BY <1>3, <2>1, FirstDoes
    <3> QED BY <2>1, <2>2, <2>4, <3>1 DEF OnceInv
  <2> QED BY <1>3, <2>3, <2>4, FirstDoes
<1>4. CASE AfterWriteSecond
  <2>1. /\ mail.crypt = "NeedsSecondAfterWrite" /\ ui.at = "afterwrite" /\ ui.saver = "done"
        /\ UNCHANGED <<thr, posted, sent, ghost>>
    BY <1>4, SecondMakes
  <2>2. sent = "no" /\ "split" \notin posted /\ ~Runs
    BY <2>1 DEF OnceInv
  <2> QED BY <2>1, <2>2 DEF OnceInv
<1>5. CASE SyncCrypt
  <2>1. /\ ui.at = "crypt" /\ ui.saver = "send" /\ \A t \in Threads : thr'[t].pc = "off"
        /\ UNCHANGED <<sent, ghost>> /\ ui'.at = "saved" /\ ui'.saver = "send"
    BY <1>5, SyncMakes DEF Active
  <2>2. sent = "no" /\ "split" \notin posted
    BY <2>1 DEF OnceInv
  <2>3. \/ mail'.crypt = "NoCryptMail" /\ posted' \in {posted, posted \cup {"split"}}
        \/ posted' = posted
    BY <1>5, SyncMakes
  <2> QED BY <2>1, <2>2, <2>3 DEF OnceInv
<1>6. CASE SendPrepares
  <2>1. /\ ui.at = "send" /\ UNCHANGED <<thr, posted, sent>>
        /\ \A t \in Threads : thr[t].pc = "off"
    BY <1>6, PreparesMakes DEF Active
  <2>2. sent = "no" /\ "split" \notin posted
    BY <1>0, <2>1 DEF OnceInv
  <2>3. ghost'.twice = ghost.twice
    BY <1>6, GhostKeeps DEF SendPrepares
  <2> QED BY <2>1, <2>2, <2>3 DEF OnceInv
<1>7. CASE SendResumes
  <2>1. /\ ui.at = "saved" /\ ui.saver = "send" /\ UNCHANGED <<thr, posted, sent, ghost>>
    BY <1>7, ResumesMakes
  <2>2. sent = "no"
    BY <2>1 DEF OnceInv
  <2>3. CASE mail' = mail /\ ui'.at = "returned"
    BY <2>1, <2>2, <2>3 DEF OnceInv
  <2>4. CASE mail.crypt = "NeedsUpdateInOOM" /\ mail.sync
    <3>1. ~Runs /\ "split" \notin posted
      BY <2>4, PinSays DEF OnceInv
    <3> QED BY <2>1, <2>2, <3>1 DEF OnceInv
  <2> QED BY <1>7, <2>3, <2>4, ResumesMakes
<1>8. CASE SendGate \/ Deliver \/ SendWorkaroundT3656 \/ SecondSendDone
  <2>1. CASE SendGate
    <3>1. /\ ui.at \in {"gate", "send"} /\ UNCHANGED <<thr, posted, sent, ghost>>
      BY <2>1, GateMakes
    <3>2. sent = "no" /\ "split" \notin posted /\ ~Runs
      BY <1>0, <3>1 DEF OnceInv
    <3> QED BY <3>1, <3>2 DEF OnceInv
  <2>2. CASE Deliver
    <3>1. /\ ui.at = "deliver" /\ ui'.at = "returned" /\ UNCHANGED <<thr, posted>>
          /\ \/ ~ui'.err /\ ghost' = GhostLeft
             \/ ui'.err /\ UNCHANGED <<sent, ghost>>
      BY <2>2, DeliverMakes
    <3>2. sent = "no" /\ "split" \notin posted /\ ~Runs
      BY <1>0, <3>1 DEF OnceInv
    <3>3. Busy = {}
      BY <3>1, PinSays DEF UIOrder, Busy, Handed
    <3>4. Busy' = {} /\ ~Runs'
      BY <3>1, <3>2, <3>3 DEF Busy
    <3>5. ~ghost'.twice
      BY <3>1, <3>2, GhostKeeps DEF OnceInv
    <3>6. ui'.err => sent' = "no"
      BY <3>1, <3>2
    <3>7. "close" \in posted' => sent' # "no"
      BY <3>1, <3>2 DEF OnceInv
    <3> QED BY <3>1, <3>2, <3>4, <3>5, <3>6, <3>7 DEF OnceInv
  <2>3. CASE SendWorkaroundT3656
    <3>1. /\ ui.at \in {"gate", "send"} /\ ui'.at = "returned" /\ mail.crypt = "WantsSendMIME"
          /\ ~ui'.err /\ thr' = thr
          /\ \/ /\ posted' = posted \cup {"close"}
                /\ sent' = SubmittedContent /\ ghost' = GhostLeft
             \/ UNCHANGED <<posted, sent, ghost>>
      BY <2>3, WorkaroundMakes DEF OnceHyp
    <3>2. sent = "no" /\ "split" \notin posted /\ ~Runs
      BY <1>0, <3>1 DEF OnceInv
    <3>3. ~ghost'.twice /\ ("close" \in posted' => sent' # "no") /\ "split" \notin posted'
      BY <3>1, <3>2, ContentLeft, GhostKeeps DEF OnceInv
    <3>4. Busy' = {} /\ ~Runs'
      BY <3>1, <3>2, PinSays DEF Busy
    <3> QED BY <3>1, <3>3, <3>4 DEF OnceInv
  <2>4. CASE SecondSendDone
    <3>1. /\ ui.at = "returned" /\ mail.crypt \in Handed /\ ui'.at = "idle"
          /\ \A t \in Threads : thr'[t].pc = "off"
      BY <2>4, SecondSendMakes DEF Idle
    <3>2. "split" \notin posted
      BY <3>1 DEF OnceInv, Handed
    <3>3. Busy' = {} /\ ~Runs'
      BY <3>1 DEF Busy
    <3>4. CASE UNCHANGED <<posted, sent, ghost>>
      BY <3>1, <3>2, <3>3, <3>4 DEF OnceInv
    <3>5. CASE ~UNCHANGED <<posted, sent, ghost>>
      <4>1. /\ ui.err /\ sent' = SubmittedContent /\ ghost' = GhostLeft
            /\ posted' = posted \cup {"close"}
        BY <2>4, <3>5 DEF SecondSendDone, SendFailed, SubmitMessage, CloseIf
      <4>2. sent = "no"
        BY <3>1, <4>1 DEF OnceInv
      <4>3. sent' # "no" /\ ~ghost'.twice
        BY <4>1, <4>2, ContentLeft, GhostKeeps DEF OnceInv
      <4> QED BY <3>1, <3>2, <3>3, <4>1, <4>3 DEF OnceInv
    <3> QED BY <3>4, <3>5
  <2> QED BY <1>8, <2>1, <2>2, <2>3, <2>4
<1>9. CASE CloseMail
  <2>1. /\ mail'.crypt = mail.crypt /\ ghost'.twice = ghost.twice /\ posted' \subseteq posted
        /\ UNCHANGED <<thr, ui, sent>> /\ Busy' = Busy
    BY <1>9 DEF CloseMail, TypeOK, Mails, Ghosts, Busy
  <2> QED BY <2>1 DEF OnceInv
<1>10. ASSUME NEW t \in Threads, Thread(t) PROVE OnceInv'
  <2>1. /\ thr[t].pc \in {"start", "resolve", "crypt", "split"} /\ t \in Busy
        /\ mail.crypt = "NeedsActualCrypt"
        /\ \A u \in Threads \ {t} : thr'[u].pc = "off"
        /\ UNCHANGED <<ui, sent, ghost>>
    BY <1>10, ThreadMakes DEF Busy
  <2>2. sent = "no" /\ "close" \notin posted
    BY <2>1 DEF OnceInv
  <2>3. CASE thr[t].pc = "split" /\ thr'[t].pc = "off" /\ posted' = posted
             /\ mail'.crypt = "NoCryptMail"
    BY <2>1, <2>2, <2>3 DEF OnceInv
  <2>4. CASE thr[t].pc # "split"
    <3>1. Away /\ "split" \notin posted
      BY <2>1, <2>4 DEF OnceInv
    <3>2. \/ posted' = posted
          \/ posted' = posted \cup {"split"} /\ thr'[t].pc = "split" /\ mail' = mail
      BY <1>10, ThreadMakes
    <3> QED BY <2>1, <2>2, <3>1, <3>2 DEF OnceInv
  <2> QED BY <1>10, <2>1, <2>3, <2>4, ThreadMakes
<1>11. ASSUME NEW t \in Threads, CryptoDone(t) PROVE OnceInv'
  <2>1. /\ thr[t].pc = "posted" /\ t \in Busy /\ UNCHANGED <<posted, sent, ghost>>
        /\ \A u \in Threads : thr'[u].pc \notin {"start", "resolve", "crypt"}
    BY <1>11, CryptoDoneMakes, PinSays DEF Busy
  <2>2. sent = "no" /\ "split" \notin posted
    BY <2>1 DEF OnceInv
  <2> QED BY <2>1, <2>2 DEF OnceInv
<1> QED BY <1>1, <1>2, <1>3, <1>4, <1>5, <1>6, <1>7, <1>8, <1>9, <1>10, <1>11, StepsAre
-----------------------------------------------------------------------------
(***************************************************************************)
(* The theorems.                                                           *)
(***************************************************************************)
HandInv == UIOrder /\ MadeMail

LeaveInv ==
  /\ Shown
  /\ Honest => Flags
  /\ Calm => RestInv /\ TextInv
  /\ OnceHyp => OnceInv

LEMMA HandInit == Init => HandInv
BY DEF Init, Idle, Off, HandInv, UIOrder, MadeMail

LEMMA LeaveInit == Init => LeaveInv
<1> SUFFICES ASSUME Init PROVE LeaveInv
  OBVIOUS
<1>1. Shown /\ Flags /\ TextInv
  BY DEF Init, Idle, Shown, SyncWritten, Flags, TextInv
<1>2. RestInv
  BY DEF Init, Idle, RestInv, Settled
<1>3. OnceInv
  BY DEF Init, Idle, Off, OnceInv, Busy
<1> QED BY <1>1, <1>2, <1>3 DEF LeaveInv

\* All invariants of an undisturbed mail, together.
MailInv == TypeOK /\ PinInv /\ WindowInv /\ HandInv /\ LeaveInv

LEMMA MailInvariant == Undisturbed /\ Reached => (Spec => []MailInv)
<1> SUFFICES ASSUME Undisturbed, Reached PROVE Spec => []MailInv
  OBVIOUS
<1>1. SavesApart
  BY DEF Undisturbed, SavesApart
<1>2. TypeOK /\ TypeOK' /\ PinInv /\ HandInv /\ [Next]_vars => HandInv'
  BY OrderNext, MadeNext DEF HandInv
<1>3. ASSUME TypeOK, PinInv, WindowInv, HandInv, LeaveInv, [Next]_vars
      PROVE  LeaveInv'
  <2>1. Shown'
    BY <1>3, ShownNext DEF HandInv, LeaveInv
  <2>2. ASSUME Honest PROVE Flags'
    BY <1>3, <2>2, FlagsNext DEF HandInv, LeaveInv
  <2>3. ASSUME Calm PROVE RestInv' /\ TextInv'
    BY <1>3, <2>3, RestNext, TextNext DEF HandInv, LeaveInv
  <2>4. ASSUME OnceHyp PROVE OnceInv'
    BY <1>3, <2>4, OnceNext DEF HandInv, LeaveInv
  <2> QED BY <2>1, <2>2, <2>3, <2>4 DEF LeaveInv, Honest, Calm, Plain, OnceHyp
<1>4. TypeOK /\ PinInv /\ WindowInv /\ HandInv /\ LeaveInv /\ [Next]_vars => LeaveInv'
  BY <1>3
<1> HIDE DEF PinInv, WindowInv, HandInv, LeaveInv
<1> QED BY <1>1, <1>2, <1>4, TypeCorrect, PinInvariant, WindowInvariant, HandInit, LeaveInit,
           PTL DEF Spec, MailInv

\* What leaves, and when: a Send that Outlook delivers, or a base message that
\* is submitted.
LEMMA LeavesBy ==
  ASSUME Undisturbed, TypeOK, PinInv, UIOrder, MadeMail, [Next]_vars, sent' # sent
  PROVE  \/ Deliver /\ ui.at = "deliver" /\ sent' = PassedContent
         \/ SendWorkaroundT3656 /\ mail.crypt = "WantsSendMIME" /\ sent' = SubmittedContent
         \/ /\ SecondSendDone /\ ui.at = "returned" /\ ui.sender = "done" /\ ui.err
            /\ mail.crypt \in Handed /\ sent' = SubmittedContent
<1>1. CASE PlainStep
  BY <1>1, PlainSteps
<1>2. CASE Write \/ AfterWriteFirst \/ AfterWriteSecond \/ SyncCrypt \/ SendPrepares
  BY <1>2, SyncMakes DEF Write, AfterWriteFirst, AfterWriteSecond, SendPrepares
<1>3. CASE SendResumes \/ SendGate \/ CloseMail
  BY <1>3 DEF SendResumes, SendGate, CloseMail
<1>4. CASE SendWorkaroundT3656
  BY <1>4, WorkaroundMakes
<1>5. CASE Deliver
  BY <1>5, DeliverMakes
<1>6. CASE SecondSendDone
  BY <1>6, SecondSendMakes DEF SecondSendDone, SendFailed, SubmitMessage
<1>7. ASSUME NEW t \in Threads, Thread(t) PROVE FALSE
  BY <1>7, ThreadMakes
<1>8. ASSUME NEW t \in Threads, CryptoDone(t) PROVE FALSE
  BY <1>8 DEF CryptoDone
<1> QED BY <1>1, <1>2, <1>3, <1>4, <1>5, <1>6, <1>7, <1>8, StepsAre

LEMMA WhatLeaves ==
  ASSUME TypeOK
  PROVE  /\ SubmittedContent # "open"
         /\ PassedContent = "open" <=> mail.crypt = "NoCryptMail"
         /\ item.mime = "mail" => SubmittedContent = "mime"
         /\ item.mime = "mail" /\ mail.crypt # "NoCryptMail" => PassedContent = "mime"
         /\ item.body = "armor" /\ mail.crypt # "NoCryptMail" =>
              PassedContent \in {"mime", "inline"}
BY DEF TypeOK, Items, SubmittedContent, PassedContent, ContentWith

\* The choice changes only before the mail leaves.
LEMMA ChoiceStays ==
  ASSUME Undisturbed, TypeOK, PinInv, UIOrder, MadeMail, [Next]_vars
  PROVE  ghost'.wanted = ghost.wanted \/ (sent = "no" /\ sent' = sent)
<1>1. CASE PlainStep
  BY <1>1, PlainItem, PlainSteps
<1>2. CASE Write \/ SendPrepares
  BY <1>2, GhostKeeps DEF Write, SendPrepares
<1>3. CASE AfterWriteFirst \/ AfterWriteSecond \/ SyncCrypt \/ SendResumes \/ SendGate
  BY <1>3, SyncMakes DEF AfterWriteFirst, AfterWriteSecond, SendResumes, SendGate
<1>4. CASE SendWorkaroundT3656 \/ Deliver \/ SecondSendDone
  BY <1>4, GhostKeeps, WorkaroundMakes, DeliverMakes DEF SecondSendDone, SubmitMessage
<1>5. CASE CloseMail
  BY <1>5 DEF CloseMail, TypeOK, Ghosts
<1>6. ASSUME NEW t \in Threads, Thread(t) PROVE ghost' = ghost
  BY <1>6, ThreadMakes
<1>7. ASSUME NEW t \in Threads, CryptoDone(t) PROVE ghost' = ghost
  BY <1>7 DEF CryptoDone
<1> QED BY <1>1, <1>2, <1>3, <1>4, <1>5, <1>6, <1>7, StepsAre

\* Where the item's MAPI message can always be had, a mail leaves without crypto
\* only if neither toggle button was pressed: the Send handler passes a mail as
\* it is only where needs_crypto_m finds no choice, and nothing but a toggle
\* button and a written result changes that. (Without the message needs_crypto_m
\* says no for any mail, and the theorem does not hold: bug_open_send.) A text
\* that starts like a result is taken for one by updateCryptOOM_o; then a Send
\* that fails makes the mail open, so one of the two is excluded.
THEOREM ChoiceHonoured ==
  Undisturbed /\ Reached /\ Honest => (Spec => []HonoursChoice)
<1> SUFFICES ASSUME Undisturbed, Reached, Honest PROVE Spec => []HonoursChoice
  OBVIOUS
<1>1. ASSUME MailInv, HonoursChoice, [Next]_vars PROVE HonoursChoice'
  <2>1. /\ TypeOK /\ PinInv /\ UIOrder /\ MadeMail /\ Flags
    BY <1>1 DEF MailInv, HandInv, LeaveInv
  <2>2. CASE sent' = sent
    BY <1>1, <2>1, <2>2, ChoiceStays DEF HonoursChoice
  <2>3. CASE sent' # sent /\ sent' = "open"
    <3>1. Deliver /\ ui.at = "deliver" /\ mail.crypt = "NoCryptMail"
      BY <1>1, <2>1, <2>3, LeavesBy, WhatLeaves
    <3>2. ghost.wanted = "none"
      BY <2>1, <3>1 DEF Flags, SyncWritten, Handed
    <3>3. ghost'.wanted = ghost.wanted
      BY <1>1, <2>1, <2>3, ChoiceStays
    <3> QED BY <3>2, <3>3 DEF HonoursChoice
  <2>4. CASE sent' # sent /\ sent' # "open"
    BY <2>4 DEF HonoursChoice
  <2> QED BY <2>2, <2>3, <2>4
<1>2. MailInv /\ HonoursChoice /\ [Next]_vars => HonoursChoice'
  BY <1>1
<1>3. Init => HonoursChoice
  BY DEF Init, HonoursChoice
<1> HIDE DEF MailInv, HonoursChoice
<1> QED BY <1>2, <1>3, MailInvariant, PTL DEF Spec

\* A mail that leaves after crypto carries the result: the MIME structure in the
\* base message, or the armor in the body. It is never the wiped body, the
\* draft, or the user's text.
THEOREM SendIsProtected ==
  Undisturbed /\ Reached /\ Protects => (Spec => []ProtectedSend)
<1> SUFFICES ASSUME Undisturbed, Reached, Protects PROVE Spec => []ProtectedSend
  OBVIOUS
<1>1. ASSUME MailInv, ProtectedSend, [Next]_vars PROVE ProtectedSend'
  <2>1. /\ TypeOK /\ PinInv /\ UIOrder /\ MadeMail /\ Shown /\ Flags /\ Plain
    BY <1>1 DEF MailInv, HandInv, LeaveInv, Protects, Honest
  <2>2. mail.crypt = "WantsSendMIME" => item.mime = "mail"
    BY <2>1 DEF Shown
  <2>3. mail.crypt = "WantsSendInline" => Calm /\ item.body = "armor"
    BY <2>1 DEF Shown, Protects
  <2>4. CASE sent' = sent
    BY <1>1, <2>4 DEF ProtectedSend
  <2>5. CASE sent' # sent
    <3>1. CASE ui.at = "deliver" /\ sent' = PassedContent
      <4>1. mail.crypt \in {"NoCryptMail", "WantsSendMIME", "WantsSendInline"}
        BY <2>1, <3>1 DEF UIOrder, Handed
      <4> QED BY <2>1, <2>2, <2>3, <3>1, <4>1, WhatLeaves DEF ProtectedSend
    <3>2. CASE mail.crypt = "WantsSendMIME" /\ sent' = SubmittedContent
      BY <2>1, <2>2, <3>2, WhatLeaves DEF ProtectedSend
    <3>3. CASE /\ ui.at = "returned" /\ ui.sender = "done" /\ ui.err
               /\ mail.crypt \in Handed /\ sent' = SubmittedContent
      <4>1. mail.crypt = "WantsSendMIME"
        BY <2>1, <2>3, <3>3 DEF Flags, Handed
      <4> QED BY <2>1, <2>2, <3>3, <4>1, WhatLeaves DEF ProtectedSend
    <3> QED BY <1>1, <2>1, <2>5, <3>1, <3>2, <3>3, LeavesBy
  <2> QED BY <2>4, <2>5
<1>2. MailInv /\ ProtectedSend /\ [Next]_vars => ProtectedSend'
  BY <1>1
<1>3. Init => ProtectedSend
  BY DEF Init, ProtectedSend
<1> HIDE DEF MailInv, ProtectedSend
<1> QED BY <1>2, <1>3, MailInvariant, PTL DEF Spec

\* When a Send came to nothing the next one starts from the beginning: where
\* the program rests with the mail still there, its crypto state is reset.
\* That needs the item's MAPI message, or encryptSignStart_o starts nothing and
\* leaves the state at NeedsActualCrypt, and, where the message class is not
\* ours after crypto, the base message, or the handler gives up with the state
\* at WantsSendMIME.
THEOREM SendCanBeRepeated ==
  Undisturbed /\ Reached /\ Calm => (Spec => []Restartable)
<1> SUFFICES ASSUME Undisturbed, Reached, Calm PROVE Spec => []Restartable
  OBVIOUS
<1>1. MailInv => Restartable
  BY DEF MailInv, HandInv, UIOrder, LeaveInv, RestInv, Settled, Restartable, Quiet, AtIdle
<1> HIDE DEF MailInv, Restartable
<1> QED BY <1>1, MailInvariant, PTL

\* No edit comes between the moment the crypter takes the text and the moment
\* the mail leaves: the window is disabled, and a mail that can be edited is
\* prepared again before it is sent.
THEOREM LatestTextIsSent ==
  Undisturbed /\ Reached /\ Calm => (Spec => []SendsLatestText)
<1> SUFFICES ASSUME Undisturbed, Reached, Calm PROVE Spec => []SendsLatestText
  OBVIOUS
<1>1. MailInv => SendsLatestText
  BY DEF MailInv, LeaveInv, TextInv, SendsLatestText
<1> HIDE DEF MailInv, SendsLatestText
<1> QED BY <1>1, MailInvariant, PTL

\* As long as the mail is not sent the user finds the text back in the window:
\* what updateCryptOOM_o wipes or replaces leaves.
THEOREM TextIsKept ==
  Undisturbed /\ Reached /\ Calm => (Spec => []KeepsText)
<1> SUFFICES ASSUME Undisturbed, Reached, Calm PROVE Spec => []KeepsText
  OBVIOUS
<1>1. MailInv => KeepsText
  BY DEF MailInv, HandInv, UIOrder, LeaveInv, RestInv, Settled, TextInv, KeepsText, Quiet,
         AtIdle
<1> HIDE DEF MailInv, KeepsText
<1> QED BY <1>1, MailInvariant, PTL

\* No sequence of Send, SubmitMessage, SEND_MULTIPLE_MAILS and CLOSE sends two
\* copies, and CLOSE, which discards the item, is posted only for what left.
THEOREM LeavesAtMostOnce ==
  Undisturbed /\ Reached /\ OnceHyp => (Spec => []LeavesOnce)
<1> SUFFICES ASSUME Undisturbed, Reached, OnceHyp PROVE Spec => []LeavesOnce
  OBVIOUS
<1>1. MailInv => LeavesOnce
  BY DEF MailInv, LeaveInv, OnceInv, LeavesOnce
<1> HIDE DEF MailInv, LeavesOnce
<1> QED BY <1>1, MailInvariant, PTL
-----------------------------------------------------------------------------
(***************************************************************************)
(* The promise of SecureSend, step by step.                                *)
(***************************************************************************)
Phase == IF sent # "no" \/ ~alive THEN "over"
         ELSE IF mail.crypt # "NoCryptMail" /\ ~mail.draft
         THEN "protecting" ELSE "composing"
Left  == IF sent \in {"mime", "inline"} THEN "protected" ELSE sent

LEMMA PromiseSteps ==
  /\ /\ ghost'.wanted = ghost.wanted /\ ghost'.asked = ghost.asked
     /\ Phase' = Phase /\ Left' = Left
     => UNCHANGED Promise!vars
  /\ /\ ghost'.wanted \in {"none", "sign", "encrypt"} /\ ghost'.asked = ghost.asked
     /\ Phase = "composing" /\ Phase' = Phase /\ Left' = Left
     => Promise!Next
  /\ /\ ghost'.wanted = ghost.wanted /\ ghost'.asked = TRUE
     /\ Phase = "composing" /\ Phase' = Phase /\ Left' = Left
     => Promise!Next
  /\ /\ ghost'.wanted = ghost.wanted /\ ghost'.asked = ghost.asked /\ Left' = Left
     /\ \/ Phase = "composing" /\ ghost.asked /\ ghost.wanted # "none" /\ Phase' = "protecting"
        \/ Phase = "protecting" /\ Phase' = "composing"
        \/ Phase # "over" /\ Phase' = "over"
     => Promise!Next
  /\ /\ ghost'.wanted = ghost.wanted /\ ghost'.asked = ghost.asked /\ Phase' = "over"
     /\ \/ Phase = "composing" /\ ghost.asked /\ ghost.wanted = "none" /\ Left' = "open"
        \/ Phase = "protecting" /\ Left' = "protected"
     => Promise!Next
BY DEF Phase, Left, Promise!vars, Promise!Next, Promise!Choose, Promise!Choices,
       Promise!Request, Promise!Protect, Promise!GiveUp, Promise!LeaveProtected,
       Promise!LeaveOpen, Promise!Discard, Promise!EndProtect

LEMMA PromiseNext ==
  ASSUME Undisturbed, Calm, Plain, OnceHyp, MailInv, MailInv', UnaskedInv, ProtectedSend',
         [Next]_vars
  PROVE  [Promise!Next]_(Promise!vars)
<1>1. /\ TypeOK /\ PinInv /\ UIOrder /\ MadeMail /\ WindowInv /\ Flags /\ RestInv /\ OnceInv
      /\ TypeOK'
  BY DEF MailInv, HandInv, LeaveInv, Honest
<1>2. ~mail.draft /\ ~mail'.draft
  BY DEF MailInv, PinInv, CryptHolds
<1>3. UserSend \/ ghost'.asked = ghost.asked
  BY <1>1, AskedStays
<1>4. /\ CanCompose => Phase = "composing"
      /\ ui.at # "idle" /\ sent = "no" =>
           Phase = IF mail.crypt = "NoCryptMail" THEN "composing" ELSE "protecting"
  BY <1>1, <1>2, ComposedIsFresh, PinSays DEF Phase, CanCompose, AtIdle
<1>5. ui.at \in {"send", "deliver"} => ghost.asked
  BY DEF UnaskedInv
<1>6. CASE UserSend
  <2>1. /\ CanCompose /\ UNCHANGED <<mail, alive, sent>>
        /\ ghost'.asked = TRUE /\ ghost'.wanted = ghost.wanted
    BY <1>1, <1>6 DEF UserSend, TypeOK, Ghosts
  <2> QED BY <1>4, <2>1, PromiseSteps DEF Phase, Left
<1>7. ASSUME NEW f \in {"none", "sign", "encrypt"}, Toggle(f)
      PROVE  Promise!Next
  <2>1. /\ CanCompose /\ UNCHANGED <<mail, alive, sent>>
        /\ ghost'.asked = ghost.asked /\ ghost'.wanted = f
    BY <1>1, <1>7 DEF Toggle, TypeOK, Ghosts
  <2> QED BY <1>4, <2>1, PromiseSteps DEF Phase, Left
<1>8. CASE Unload
  <2>1. /\ ~alive' /\ UNCHANGED <<mail, sent, ghost>>
    BY <1>8 DEF Unload
  <2>2. Phase' = "over" /\ Left' = Left
    BY <2>1 DEF Phase, Left
  <2> QED BY <2>1, <2>2, PromiseSteps
<1>9. CASE /\ PlainStep /\ ~UserSend /\ ~Unload
           /\ ~\E f \in {"none", "sign", "encrypt"} : Toggle(f)
  <2>1. mail' = mail /\ sent' = sent /\ ghost'.asked = ghost.asked
    BY <1>1, <1>3, <1>9, PlainSteps
  <2>2. ghost'.wanted = ghost.wanted
    BY <1>1, <1>9, PlainFlags
  <2>3. alive' = alive
    BY <1>9 DEF PlainStep, BeforeAutoSave, UserSave, AfterWriteNothing, SaveReturns,
                SecondSaveDone, SendPassesOpen, SendReturns, SplitAndSend, Edit, Over, vars
  <2> QED BY <2>1, <2>2, <2>3, PromiseSteps DEF Phase, Left
<1>10. ASSUME alive' = alive, sent' = sent, ghost'.wanted = ghost.wanted,
              ghost'.asked = ghost.asked,
              mail'.crypt = "NoCryptMail" \/ mail.crypt # "NoCryptMail"
       PROVE  [Promise!Next]_(Promise!vars)
  <2>1. Phase' = Phase \/ (Phase = "protecting" /\ Phase' = "composing")
    BY <1>2, <1>10 DEF Phase
  <2>2. Left' = Left
    BY <1>10 DEF Left
  <2> QED BY <1>10, <2>1, <2>2, PromiseSteps
<1>11. CASE \/ Write \/ AfterWriteFirst \/ AfterWriteSecond \/ SyncCrypt \/ SendResumes
            \/ SendGate
  <2>1. ~UserSend
    BY <1>11 DEF UserSend, CanCompose, AtIdle, Write, AfterWriteFirst, AfterWriteSecond,
                 SyncCrypt, SendResumes, SendGate, AtGate
  <2>2. ghost'.wanted = ghost.wanted /\ ghost'.asked = ghost.asked
    <3>1. CASE Write
      BY <1>1, <3>1, GhostKeeps DEF Write
    <3>2. CASE AfterWriteFirst \/ AfterWriteSecond \/ SyncCrypt \/ SendResumes \/ SendGate
      BY <1>1, <3>2, SyncMakes DEF AfterWriteFirst, AfterWriteSecond, SendResumes, SendGate
    <3> QED BY <1>11, <3>1, <3>2
  <2>3. CASE Write
    BY <1>1, <1>10, <2>2, <2>3, WriteMakes
  <2>4. CASE AfterWriteFirst
    <3>1. UNCHANGED <<alive, sent>> /\ mail.crypt = "NeedsFirstAfterWrite"
      BY <2>4 DEF AfterWriteFirst
    <3> QED BY <1>10, <2>2, <3>1
  <2>5. CASE AfterWriteSecond
    BY <1>1, <1>10, <2>2, <2>5, SecondMakes
  <2>6. CASE SyncCrypt
    BY <1>1, <1>10, <2>2, <2>6, SyncMakes
  <2>7. CASE SendResumes
    BY <1>1, <1>10, <2>2, <2>7, ResumesMakes
  <2>8. CASE SendGate
    BY <1>1, <1>10, <2>2, <2>8, GateMakes
  <2> QED BY <1>11, <2>3, <2>4, <2>5, <2>6, <2>7, <2>8
<1>12. CASE SendPrepares
  <2>1. /\ ui.at = "send" /\ mail.crypt = "NoCryptMail" /\ alive /\ UNCHANGED <<alive, sent>>
        /\ item.flags # "none"
    BY <1>1, <1>12, PreparesMakes
  <2>2. ghost'.wanted = ghost.wanted /\ ghost'.asked = ghost.asked
    BY <1>1, <1>12, GhostKeeps DEF SendPrepares
  <2>3. CASE mail'.crypt = "NoCryptMail"
    BY <1>10, <2>1, <2>2, <2>3
  <2>4. CASE mail'.crypt # "NoCryptMail"
    <3>1. sent = "no"
      BY <1>1, <2>1 DEF OnceInv, UIOrder
    <3>2. ghost.wanted # "none"
      BY <1>1, <2>1 DEF Flags, SyncWritten
    <3>3. Phase = "composing" /\ Phase' = "protecting" /\ Left' = Left
      BY <1>2, <2>1, <2>4, <3>1 DEF Phase, Left
    <3> QED BY <1>5, <2>1, <2>2, <3>2, <3>3, PromiseSteps
  <2> QED BY <2>3, <2>4
<1>13. ASSUME ui.at # "idle", sent = "no", sent' = SubmittedContent \/ sent' = PassedContent,
              mail.crypt # "NoCryptMail",
              ghost'.wanted = ghost.wanted, ghost'.asked = ghost.asked
       PROVE  Promise!Next
  <2>1. sent' \in {"mime", "inline"}
    BY <1>1, <1>13, WhatLeaves, ContentLeft DEF ProtectedSend, TypeOK, Contents
  <2>2. Phase = "protecting" /\ Phase' = "over" /\ Left' = "protected"
    BY <1>4, <1>13, <2>1 DEF Phase, Left
  <2> QED BY <1>13, <2>2, PromiseSteps
<1>14. CASE SendWorkaroundT3656
  <2>1. /\ ui.at \in {"gate", "send"} /\ mail.crypt = "WantsSendMIME"
        /\ sent' = SubmittedContent /\ ghost' = GhostLeft
    BY <1>1, <1>14, WorkaroundMakes DEF OnceHyp, Calm
  <2>2. sent = "no"
    BY <1>1, <2>1 DEF OnceInv, UIOrder
  <2> QED BY <1>1, <1>13, <2>1, <2>2, GhostKeeps
<1>15. CASE Deliver
  <2>1. /\ ui.at = "deliver" /\ sent' = PassedContent /\ ghost' = GhostLeft /\ alive' = alive
    BY <1>1, <1>15, DeliverMakes DEF Calm
  <2>2. sent = "no"
    BY <1>1, <2>1 DEF OnceInv, UIOrder
  <2>3. ghost'.wanted = ghost.wanted /\ ghost'.asked = ghost.asked
    BY <1>1, <2>1, GhostKeeps
  <2>4. CASE mail.crypt = "NoCryptMail"
    <3>1. sent' = "open" /\ Left' = "open" /\ Phase' = "over" /\ Phase = "composing"
      BY <1>1, <1>4, <2>1, <2>2, <2>4, WhatLeaves DEF Left, Phase
    <3>2. ghost.wanted = "none"
      BY <1>1, <2>1, <2>4 DEF Flags, SyncWritten, Handed
    <3> QED BY <1>5, <2>1, <2>3, <3>1, <3>2, PromiseSteps
  <2>5. CASE mail.crypt # "NoCryptMail"
    BY <1>13, <2>1, <2>2, <2>3, <2>5
  <2> QED BY <2>4, <2>5
<1>16. CASE SecondSendDone
  <2>1. /\ ui.at = "returned" /\ mail.crypt \in Handed /\ mail'.crypt = mail.crypt
        /\ alive' = alive
    BY <1>1, <1>16, SecondSendMakes
  <2>2. CASE UNCHANGED <<sent, ghost>>
    BY <1>10, <2>1, <2>2
  <2>3. CASE ~UNCHANGED <<sent, ghost>>
    <3>1. ui.err /\ sent' = SubmittedContent /\ ghost' = GhostLeft
      BY <1>16, <2>3 DEF SecondSendDone, SendFailed, SubmitMessage
    <3>2. sent = "no"
      BY <1>1, <2>1, <3>1 DEF OnceInv
    <3> QED BY <1>1, <1>13, <2>1, <3>1, <3>2, GhostKeeps DEF Handed
  <2> QED BY <2>2, <2>3
<1>17. CASE CloseMail
  <2>1. /\ sent # "no" /\ sent' = sent
        /\ ghost'.wanted = ghost.wanted /\ ghost'.asked = ghost.asked
    BY <1>1, <1>17 DEF CloseMail, OnceInv, TypeOK, Ghosts
  <2>2. Phase' = Phase /\ Left' = Left
    BY <2>1 DEF Phase, Left
  <2> QED BY <2>1, <2>2, PromiseSteps
<1>18. ASSUME NEW t \in Threads, Thread(t) \/ CryptoDone(t)
       PROVE  [Promise!Next]_(Promise!vars)
  <2>1. UNCHANGED <<alive, sent, ghost>> /\ mail.crypt # "NoCryptMail"
    BY <1>1, <1>18, ThreadMakes, CryptoDoneMakes
  <2> QED BY <1>10, <2>1
<1> QED BY <1>1, <1>6, <1>7, <1>8, <1>9, <1>11, <1>12, <1>14, <1>15, <1>16, <1>17, <1>18,
           StepsAre DEF PlainStep

\* Where nothing disturbs the crypto and every Send that the handler passes
\* works, each step of the crypto state machine is one that SecureSend allows,
\* or changes nothing that it speaks of: the mail leaves once and after the
\* author asked, protected if protection was chosen, and the choice does not
\* change while it is being protected. (TLC also checks the fairness part.)
THEOREM KeepsPromiseSteps ==
  Undisturbed /\ Reached /\ Calm /\ Plain /\ OnceHyp =>
    (Spec => Promise!Init /\ [][Promise!Next]_(Promise!vars))
<1> SUFFICES ASSUME Undisturbed, Reached, Calm, Plain, OnceHyp
             PROVE  Spec => Promise!Init /\ [][Promise!Next]_(Promise!vars)
  OBVIOUS
<1>1. Init => Promise!Init
  BY DEF Init, Promise!Init
<1>2. MailInv /\ MailInv' /\ UnaskedInv /\ ProtectedSend' /\ [Next]_vars
        => [Promise!Next]_(Promise!vars)
  BY PromiseNext
<1>3. Unattended /\ Protects
  BY DEF Undisturbed, Unattended, Protects
<1> HIDE DEF MailInv, UnaskedInv, ProtectedSend
<1> QED BY <1>1, <1>2, <1>3, MailInvariant, UnaskedInvariant, SendIsProtected, PTL DEF Spec
=============================================================================
