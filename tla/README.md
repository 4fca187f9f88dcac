# A TLA+ model of GpgOL

GpgOL is an add-in that makes Outlook encrypt, sign, decrypt and verify mails.
It has no protocol of its own to follow: Outlook calls it through events whose
order it does not control, and it calls Outlook back to save, send and close
items while threads of its own run the cryptography. Almost everything that can
go wrong is a matter of which event comes between which two others. This
directory models that, checks it with TLC and proves part of it with TLAPS.

Source paths below are relative to `src/src/`.

## The system

| Part | State | Operations | Hard because |
|---|---|---|---|
| Crypto of composed mails (`mail.cpp`, `mailitem-events.cpp`, `windowmessages.cpp`) | `m_crypt_state`, `m_crypter`, `m_is_draft_encrypt`, `m_async_crypt_disabled`, `m_currentItemRef`, the draft info flags and the MOSS attachment of the item | BeforeAutoSave, Write, AfterWrite, Send; `prepareCrypto_o`, `encryptSignStart_o`, `do_crypt`, `updateCryptOOM_o`, `updateCryptMAPI_m`; CRYPTO_DONE, CLOSE, SEND_MULTIPLE_MAILS | crypto runs in a thread while Outlook saves; one Send is two or three Sends and two Saves, told apart only by the state; any of them can fail |
| Decryption of mails that are read (same files, `revert.cpp`) | `m_processed`, `m_needs_wipe`, `m_needs_save`, `m_pass_write`, `m_decrypt_again`, `m_is_send_again`, `m_attachs_added`, `m_parser`; `parser_lock`, `dtor_lock`, `s_mail_map`, `s_last_mail` | BeforeRead, Read, Write, Close, Unload; `decryptVerify_o`, `do_parsing`, `parsingDone_o`, `wipe_o`, `revert_o`, `close`, `closeAllMails_o`; PARSING_DONE, SHOW_PREVIEW, REVERT_MAIL, DECRYPT | the plaintext is put into Outlook's object model and Outlook may save it at any time; mails are deleted while threads still name them |
| CryptController (`cryptcontroller.cpp`) | its input, keys and `m_output` | `collect_data`, `resolve_keys`, `do_crypto`, `update_mail_mapi` | run by a thread; outlives the mail |
| ParseController, MimeDataProvider (`parsecontroller.cpp`, `mimedataprovider.cpp`, `rfc822parse.c`) | results; a line parser over buffers | `parse(offline)`, `collect_input_lines` | lines cut at buffer ends, nested parts |
| Messages to the UI thread (`windowmessages.cpp`) | `invalidation_blocked`, `invalidation_in_progress` | `do_in_ui_thread`, `do_in_ui_thread_async`, `delayed_invalidate_ui` | synchronous sends from threads that hold locks; counters without one |
| KeyCache (`keycache.cpp`) | key maps, overrides, job sets, four locks | `update`, `importFromAddrBook`, `getOverrides`, `getByFpr`, `populate` | duplicate jobs, waits with a limit |
| Categories (`categorymanager.cpp`) | references per store and category | `addCategoryToMail`, `removeCategory` | every path of a mail must give back what it took |
| Split of BCC recipients (`recipient.cpp`, `mail.cpp`, `cryptcontroller.cpp`) | recipient lists, `g_mail_copy_triggerer` | `splitAndSend_o`, `splitCopyMailCallback` | a copy is recognised in a Write of another mail |
| Web Key Service (`wks-helper.cpp`) | state and last check per address, in the registry | `start_check`, `handle_confirmation_read`, `allow_notify` | threads; state survives restarts |
| Explorer selection, ribbon (`explorer-events.cpp`, `ribbon-callbacks.cpp`) | selection state, ribbon handle | `changeSeen`, watchdog, `mark_mime_action` | a timeout decides |
| Folder events, address book, add-in life cycle | sinks, options | `BeforeItemMove`, `shutdown` | closing while parsing |
| Outlook/MAPI helpers, dialogs, translation, logging | none that lasts | conversions | – |

The parts meet in two places. The **UI thread** is the only one that may touch
Outlook: it runs one handler at a time, but a handler that invokes a method of
Outlook (`Save`, `Send`, `Close`) runs other handlers inside. The **threads**
(`do_crypt`, `do_parsing`, key jobs) work on a `Mail` that they look up by its
address and come back with `do_in_ui_thread`, which waits for the UI thread to
answer, or `do_in_ui_thread_async`, which does not.

What makes each part correct:

* composed mails: what leaves is protected as chosen, once, with the text last
  written, and only on request; a failed attempt leaves the mail as it was; the
  mail is not unloaded under a thread; the window is not left disabled;
* their recipients and keys: whoever the mail is delivered to can read it, and
  nobody else; the copies for hidden recipients have, with the mail, exactly its
  recipients; one protocol per mail;
* mails that are read: no plaintext stays in the store unless the user asked
  for it; the flags know of every plaintext shown; only parsed text is shown;
  every placeholder of a mail that is being parsed is replaced; the parser lock always comes back;
* MIME: what was written is what is read, with its protection recognised, however
  the message travelled and its lines were cut; no part of the structure stays visible;
* KeyCache: a waiter sees the result of the job it waited for, nothing known of secret
  keys is lost, no result of a search goes unseen, whatever jobs overlap;
* Categories: a category is listed while a mail shows it, it says what the parse
  found, rests on one signature of the mail, and is not saved with it by GpgOL;
* Web Key Service: what was decided and saved survives the end of Outlook, a confirmation is answered
  once, and one that was seen does not wait for ever.

## Modules

| Module | What it is |
|---|---|
| `MailSend` | one composed mail from the first keystroke to the copy that left |
| `SecureSend` | what sending promises its author; `MailSend` implements it (`KeepsPromise`) |
| `SendKeys` | its recipients and their keys: what Outlook resolves, what is encrypted to whom, the split of hidden recipients |
| `KeyCache`, `AddressBook` | the cache of keys, its jobs and locks, and the mail that waits for it to decide on auto secure; the keys stored in contacts |
| `MailView` | mails that are read, their parse threads and the store |
| `MimeMaker`, `MessageClass`, `MimeReader` | pure: the structure that is written, how a message is recognised, how it is taken apart |
| `RoundTrip` | composes the three with the code that calls them, from collecting a mail to showing it |
| `Verdict`, `Categories` | what a verification means for the user (pure), and the categories that tell it |
| `WebKeyService` | the state of each address, its check threads, message boxes and confirmations |
| `MailSend_proofs` | theorems about `MailSend`: the hand-over between threads, then what leaves |
| `MailView_proofs` | theorems about `MailView`: types and parsers, then what is stored and cleaned |
| `Mime_proofs` | lemmas about the operators of `MimeMaker` and `MimeReader`: lines, encodings, parts, structures |
| `RoundTrip_proofs` | a message that was written is recognised and taken apart: theorems about `RoundTrip` |
| `SendKeys_proofs` | flattened sequences and lists in lists, then theorems about `SendKeys` |
| `KeyCache_proofs`, `Categories_proofs`, `WebKeyService_proofs` | theorems about the keys, the categories and the Web Key Service |
| `MC...` | the instances for TLC |

Next to some definitions stands a second one that changes it as a slip in the
code would (`PreparedUnpinned` beside `Prepared`, `ClosePasses` beside `Close`).
No specification uses them; each shows that a property notices such a slip.

### MailSend

`mail` is the `Mail` object, `item` the Outlook item together with its base
message (`body` is what the window shows, `saved` what the last save wrote,
`mime` our MOSS attachment, `flags` the draft info), `thr` the `do_crypt`
threads, `out` the `m_output` of each crypter, `posted` the messages under way.
`ui` says which handler runs and why: `saver` and `sender` name who invoked the
Save or Send inside which it runs. Handlers nest two deep in the code (CRYPTO_DONE
invokes Save, which runs Write and AfterWrite), and `ui` is that call stack.
A handler is cut into several actions only where it calls Outlook and another
handler runs, or where a thread can act in between; trailing work of a handler is
part of its last action.

| Actions | Code |
|---|---|
| `BeforeAutoSave`, `UserSave`, `UserSend`, `Unload`, `Edit`, `Toggle` | the user and Outlook; `mark_mime_action` |
| `Write`, `AfterWriteFirst`, `AfterWriteSecond`, `AfterWriteNothing`, `SaveReturns` | a save: the Write and AfterWrite events, then the return to who saved |
| `SendPassesOpen`, `SendPrepares`, `SendResumes`, `SendGate`, `SendWorkaroundT3656`, `Deliver`, `SendReturns` | the Send event, before and after the Save it invokes |
| `ThreadStart`, `ThreadResolve`, `ThreadFail`, `ThreadDone`, `SyncCrypt` | `do_crypt` and `do_crypto` |
| `CryptoDone`, `CryptoDoneGone`, `DraftDone`, `SecondSaveDone`, `SecondSendDone`, `CloseMail`, `SplitAndSend` | the window messages |

The draft info flags, which hold the user's choice, are in the item's MAPI message. `FlagsRead` is whether
it can be had: where it cannot (`message`), `needs_crypto_m` takes the mail for one without crypto, the Send
handler passes it, and `encryptSignStart_o` reports success without a crypter (`StartsNothing`).
`SubmitBase` is what the T3656 workaround has to submit; without it (`base`) Send is only cancelled.

The data is abstract: a body is `empty`, `text`, `begin` (starts with
`-----BEGIN`) or `armor` (our inline result); an output is `void`, `draft` (for
the draft key) or `mail` (for the recipients); what left is `open` (passed
without crypto), `inline`, `mime`, or one of the three things that must not leave.

### SecureSend

Four variables: the choice, whether Send was pressed, the phase and what left. A
mail that is being protected leaves protected or goes back to composing; it leaves
open only from composing and only with no protection chosen. Fairness of
`EndProtect` promises that protecting ends. The refinement mapping is `Promise`
at the end of `MailSend`.

### MailView

Per mail: the `Mail` object, `item` (what the object model holds) and `store`
(what was saved). A body is `clean` (as received), `wait` (our placeholder),
`preview`, `plain`, `error`, `empty` (wiped) or `void` (a parser's text before it
parsed). `thr[p]` is the `do_parsing` thread of `ParseController` `p`; `uses` is its
local copy of the shared pointer, which may differ from the `m_parser` the mail has
by the time PARSING_DONE comes. `lock` is `parser_lock`; handlers under
`dtor_lock` are atomic. `Wipe`, `Revert`, `Write`, `Close` are functions from a
mail and its item to the set of their outcomes, because the code calls them from
several handlers. Printed mails, and all mails under `opt.sync_dec`, are parsed in
the UI thread (`SyncParse`), which then answers nobody (`ui`). `DecryptVerify` has the five ways in which
`decryptVerify_o` ends: without a cipher stream, with a body that cannot be read (`nobody`), with a
confirmation of the Web Key Service (`Confirmations`), with a thread that does not start
(`nothread`), and with one that does.

### SendKeys

`mail[0]` is the composed mail, `mail[1]`, ... its copies. A mail has the recipients as
Outlook has them (`oom`), as GpgOL cached them (`cached`, with their keys) and the keys it
was encrypted to (`to`). `Send`, `Crypto`, `SplitAndSend` are one step each: `MailSend` has
their interleaving with Outlook, this module has what they do to the lists.
`UpdateOOMData` reads the recipients again unless they were set, and that flag survives a
cancelled Send, which is why `Cancel` has to reset it (`ResetRecipients`). Groups are
resolved member by member, addresses through the fallbacks of `oomhelp.cpp`. `Split` builds
the lists of the mail and of its copy (`ForUs`, `ForCopy`) by choosing positions of the old
one (`Kept`). `meant` is a ghost: to whom the user sent the mail. `ListAssumption` says that no
list is in itself, however deep: the recursion of `try_resolve_group` has no other end.

### KeyCache

Each thread runs a list of operations (`prog`); an operation that takes a lock while it
holds another is cut there, so `lock` shows who holds what between the steps. The
operations are those of `keycache.cpp`: `SetKey`, `Insert`, `Update`, `List`,
`Import`, `SetOverride`, `Await`, `Ask` and so on, in the order in which
`do_populate`, `do_import`, `do_locate` and `autosecureCheck` call them. A listing may bring nothing
(the ghost `failed` remembers of which key): the job ends with a null key all the same, and a contact keeps
the fingerprint. A second `update` of a key that is being updated starts a second thread. The UI thread
runs `locateKeys_o` the same way. `getOverrides` gives back a lock it did not take: that
is undefined, and `Ask` leaves both outcomes open.

### MIME and the round trip

A text is a sequence of pieces: `nl` ends a line, two other pieces in a row are a line
too long for mail, and some pieces stand for what the code looks for (an armor line, a
line like a boundary, 8 bit text). `MimeMaker` gives the lines of a message,
`MessageClass` works on MAPI messages as records, `MimeReader` on a provider record
whose path is the part the parser is in. `RoundTrip` feeds ciphertext and plaintext
through the reader in reads of every size (`ReadInput`, `WriteOutput`), so that a
line is carried over at every place. `Transport` is what mail systems make of a message.

### Categories and Verdict

`Verdict` has `updateSigstate`, the level of a signature and the reasons `getCryptoDetails_o`
gives. In `Categories` every handler of a mail is one step, because all of it runs in the
UI thread; `refs` is the reference map, `listed` the list of the store, and an item
has the categories the open mail shows; `was` is what it was read with. `Again` reads a mail again in
the same `Mail` object, with the same result or, with `Changes`, another one. `Save` is Outlook's save of the
open item that the Write handler passes: a forward's, and the one of the revert.

### WebKeyService

`state` and `checked` are the tables, `reg` what the registry has. `UpdateState` writes the table
only: `update_state` gives its lock back before it calls `save`, so check threads, or the end of Outlook, can
come between. `unsaved` is the address the UI thread has yet to save (it does nothing else then);
`lost` has those the last save could not store. `boxes` is the stack of open
message boxes: while one is open the message loop handles further notices, and only
the innermost can be closed. A check thread has four steps (ask, write the state, write
the time, save), since another thread or the UI can act between them.

## Runs

| Run | Configuration | Shows |
|---|---|---|
| `send_core` | 2 crypto threads; inline and MIME, BCC split, sync and async; autosaves, a failing start (no base message), a declined conflict; fair | `PinnedWhileCrypting`, `WindowFollowsCrypto`, `SendsLatestText`, `HonoursChoice`, `Restartable`, `KeepsText`, the refinement `KeepsPromise` (9 144 states) |
| `send_faults` | 2 threads, BCC split; autosaves, failing Send, SubmitMessage, body and MAPI writes | `ProtectedSend`, `NoCrash`, `LeavesOnce` (23 908) |
| `send_lost` | 2 threads, draft encryption, inline and MIME; the MAPI message, its base message or the message class is missing at any time; fair | `SentOnRequest`, `WindowComesBack` (594 158) |
| `recipients` | lists of To, CC and BCC with groups, unknown and Exchange addresses, with and without S/MIME; up to 4 copies, one cancel and edit; fair | `ReadableByRecipients`, `NobodyForgotten`, `OneProtocol`, `Settles` (55 134) |
| `keys` | one mail, two addresses, OpenPGP and S/MIME keys in the net, in a contact and in the ring, listings that bring nothing, two updates of a key at a time; 7 scenes | `CountMatches`, `NoResultUnseen`, `DoneMeansCached`, `SecretKept` (1.6 million) |
| `read_store` | 1 mail with an inline body and attachments, 3 decryptions; forward, draft, send again, permanent decryption, a second window, printing, a missing stream or body, a revert that cannot finish | `NoPlaintextStored`, `ShowsFinishedParse`, `PermanentKeepsText` (78 988) |
| `read_end` | 3 mails, one S/MIME, one a confirmation, 2 decryptions; unloads during a parse, a thread that does not start, an unreadable body, shutdown, failing close, revert and wipe; fair | `CleaningKnows`, `ShutdownTells`, `MailIsShown`, `ParserLockFreed` (258 852) |
| `roundtrip` | 7 mails with and without HTML and attachments, 9 protections, 5 transports, reads of 2 and 3, writes of 1 and 3 half lines, opened twice | `ReadBack`, `SameProtection`, `OnlyOriginalsVisible`, `HtmlNeedsSignature` (381 080) |
| `categories` | any of 20 signatures or a pair of signatures on a mail, or two mails that share a category, in one store or two, stored with and without another sender's level; two parses each, a save as shown, a print, a restart | `ListedWhileShown`, `ShowsVerdict`, `LevelEarned`, `Explained`, `SavedClean` (1.9 million) |
| `webkey` | 2 addresses that wait for their turn, boxes inside each other, a late check, a restart at every step, a failing save, a week that passes; fair | `Durable`, `ConfirmedOnce`, `SeenIsHandled` (749 966) |
| `bug_second_forward` | a mail is forwarded twice | `NoPlaintextStored` fails |
| `bug_lone_attachment` | a mail of one file and no text | `LoneFileArrives` fails |

Each `bug_` run contradicts a comment or a message in the code; `PROJECT.json`
quotes it.

**The environment is a parameter.** `Env` lists what the user, Outlook and MAPI may
do. The behaviours of a passing run are those under which its properties hold; the
runs above turn on whatever leaves them true, and the flags that do not are
findings of their own, either a `bug_` run or the list *Observed* below. So a
property in a passing run is a statement with a premise, and the premise is the
`Env` of its cfg.

**Bounds.** `Threads` bounds the crypto operations under way at once: two, so
that a second operation can start while the first waits for CRYPTO_DONE; a thread's
name is used again when nothing refers to it. Nothing else in `MailSend` grows.
`Parsers` bounds how often mails are decrypted in a behaviour: three, which covers
reading, closing and reading again with one parse still under way, or a forward with
a revert between two parses; `read_end` has two, and two mails, which share the parser lock, the
last mail and the shutdown (the third is the confirmation, which starts no parser). When
the parsers are used up a mail is not read any more, and after the shutdown nothing
may be left: that is why the `read_` configurations do not check for deadlock. In
`MailSend` a run may end only in `Over`, and TLC checks that.

In the other modules every bound is a constant whose comment says what it bounds, and the
cases come as scenes: combinations of what the user and the world do, each enough for one
interleaving and together more than one run could enumerate. `keys` has two changes of
the recipients, two imports of an address, two updates of a key and one toggle, because overlaps are between
two of a kind. `recipients` has up to four copies, for lists with three hidden recipients
at the most, and one more. `roundtrip` has reads that cut every line at every half
and the kinds of lines the code tells apart; a mail is opened twice, since the second
reading sees what the first one wrote. `categories` has two mails because a category
is shared by two, and each is parsed twice; the mails of all kinds stand beside one that is never
parsed. `webkey` has two addresses (a notice serves only the first), a check, two boxes inside each
other, one restart and one failing save. All of them may stop
where a bound is reached, so they do not check for deadlock.

**Fairness.** Windows schedules the threads: weak fairness of every thread's steps.
A handler that has begun runs to its end: weak fairness of `Handler`. The message
queue is served, but the user can always get in before a message: strong fairness of
`Message` in `MailSend`. In `MailView` the messages a parse thread sends are waited
for and are part of the thread. Nothing the user or Outlook does of itself is fair,
and neither are the asynchronous messages of `MailView`. In `SendKeys` the system's steps
are weakly fair together: one of them is always the next. In `WebKeyService` check
threads run, the UI thread saves what it wrote, posted notices are handled, the user goes on sending
mails (a notice is only started by one) and at last answers each box: without that an address waits
for ever, and rightly.

## Proofs

Eight modules hold theorems for every value of the constants: any number of mails, threads,
parsers and addresses, any options, any subset of what the user and Outlook may do. Where a
property does not hold in every environment, its theorem has a hypothesis on the constants,
and the hypothesis is part of the result: TLC was run with each small set of flags, and the
lists below of *smallest sets that break it* show how far the hypothesis could be weakened.

An invariant was first checked by TLC, then proved by one lemma per action. In the second halves of
`MailSend_proofs` and `MailView_proofs` several invariants need the same facts about the handlers; there each handler
has one lemma that says what it makes of the mail and its item (`SyncMakes`, `WriteMakes`, ...), and
each invariant has one lemma (`...Next`) over those.

| Theorem | States | Hypothesis |
|---|---|---|
| `MailSend_proofs!TypeCorrect` | `TypeOK` | – |
| `MailStaysPinned`, `CrypterOutlivesUse` | `PinnedWhileCrypting`, `NoCrash` | `Undisturbed` |
| `SentOnRequestAlways` | `SentOnRequest` | `Unattended` |
| `WindowFollows` | `WindowFollowsCrypto` | `SavesApart` |
| `ChoiceHonoured` | `HonoursChoice` | `Undisturbed`, `Reached`, `Honest` |
| `SendIsProtected` | `ProtectedSend` | `Undisturbed`, `Reached`, `Protects` |
| `SendCanBeRepeated`, `LatestTextIsSent`, `TextIsKept` | `Restartable`, `SendsLatestText`, `KeepsText` | `Undisturbed`, `Reached`, `Calm` |
| `LeavesAtMostOnce` | `LeavesOnce` | `Undisturbed`, `Reached`, `OnceHyp` |
| `KeepsPromiseSteps` | every step is one of `SecureSend` or a stutter | all of these |
| `MailView_proofs!TypeCorrect`, `ParsersAreSound` | `TypeOK`, `ParserInv` | – |
| `FinishedOnly` | `ShowsFinishedParse` | `OneAtATime`, no `nothread` |
| `PlaintextNotStored` | `NoPlaintextStored` | `StoreSafe` |
| `CleaningStaysPossible` | `CleaningKnows` | `KnowSafe` |
| `ShutdownLeavesNothing` | `ShutdownTells` | `TellSafe` |
| `PermanentKeepsDecrypted` | `PermanentKeepsText` | `KeepSafe` |
| `ListedAsLongAsShown`, `VerdictShown`, `LevelsAreEarned`, `StoredClean` | `ListedWhileShown`, `ShowsVerdict`, `LevelEarned`, `SavedClean` | `~Changes`; `JunkApart` for the first |
| `OneBranchSaysNothing`, `LevelsAreExplained` | `Explained` | `~Changes` and `HistoriesGrow` for the second |
| `DecisionsLast`, `AnsweredOnce` | `Durable`, `ConfirmedOnce` | – |
| `RoundTrip_proofs!OnlyOriginals` | `OnlyOriginalsVisible` | – |
| `ProtectionTold`, `UnsignedHtmlBlocked` | `SameProtection`, `HtmlNeedsSignature` | – |
| `SendKeys_proofs!TypeCorrect` | `TypeOK` | – |
| `NobodyForgottenAlways`, `ReadableAlways`, `OneProtocolAlways` | `NobodyForgotten`, `ReadableByRecipients`, `OneProtocol` | – |
| `KeyCache_proofs!Types` | `TypeOK` | – |
| `CountMatchesAlways`, `NoResultUnseenAlways`, `DoneMeansCachedAlways`, `SecretKeptAlways` | `CountMatches`, `NoResultUnseen`, `DoneMeansCached`, `SecretKept` | – |

### Composed mails

The hypotheses: `Undisturbed` says that drafts are not encrypted, that nobody types or
saves between the end of a crypto thread and its CRYPTO_DONE (`typeahead`), and that writing the
body and the MAPI message succeeds (`body`, `mapi`, `mapisave`). `Reached` says that the MAPI message with the
user's choice can be had whenever it is asked for (`message`). `Unattended` excludes only that
drafts are encrypted *and* mails split, `SavesApart` only that drafts are encrypted *and*
autosaves come during crypto. `Calm` says that no Send which the handler passed fails (`senderr`) and that the
T3656 workaround has its base message (not both `class` and `base`),
`Plain` that no text starts like a result; `Honest` is one of the two, `Protects` is `Plain` with
`Calm` or without inline PGP. `OnceHyp` says that where a lost message class makes the Send handler
submit the base message, neither that nor the cancelled Send reports an error. `send_core` fulfils
all of them; autosaves, cancelled and failing crypto, declined conflicts, BCC splits, both modes
and any number of threads are always covered.

* **The hand-over** (`PinInv`, in `MailSend`). That a thread's mail is alive follows from the
  reference it holds, but that the reference is still held when the thread ends needs that no
  other thread and no handler released it, so the invariant says who may run: `OneThread`,
  one crypto operation at a time; `ThreadHolds`, from its start to CRYPTO_DONE the thread owns
  the mail, in the state `NeedsActualCrypt`, then `NeedsUpdateInOOM`; `UIHolds`, from CRYPTO_DONE to
  the return of the second Send the UI thread owns it; `CryptHolds`, each crypt state says who owns
  the mail and that its crypter exists.
* **On request** (`UnaskedInv`). Until the user presses Send, all crypto there is, is that of one
  draft, and `m_is_draft_encrypt`, which turns the end of a crypto operation into a Save, stays set
  until it is over. This holds for every fault Outlook and MAPI can inject.
* **The window** (`WindowInv`). Nothing prepares the mail again before its crypto operation is over,
  so one operation at a time disables and enables the window.
* **What leaves.** `UIOrder` says where the UI thread can be in which crypt state, `MadeMail` that the
  crypter of the operation that ends is the mail's and encrypted for the recipients, `Shown` that
  the item carries what the crypt state says (the MIME structure, the armor), `Flags` that the draft
  info is the user's choice until a result is in the item. From these: protected, and as chosen.
* **What stays.** `RestInv`: where the program rests, the mail left or its crypt state is reset,
  along every way out of the crypto. `TextInv`: the body is the user's text except between the
  wipe and the Send. `OnceInv`: after the mail left no operation runs that could send it again, and
  a split is over before anything else is sent.
* **The promise.** `PromiseNext` maps each action to a step of `SecureSend` or to a stutter. It uses all
  of the above: that a mail being composed has no crypt state, that a Send that prepares crypto was
  asked for and its flags are the choice, that what leaves from a final state is a result.

Smallest sets of flags and options that break a property: `SentOnRequest` {`draft_key`,
`splitBCCMails`}; `WindowFollowsCrypto` {`autosave`, `draft_key`}; `HonoursChoice` {`message`},
{`begin`, `senderr`}, {`mapisave`}, {`body`}, {`autosave`, `draft_key`}, {`draft_key`, `inline_pgp`,
`senderr`}; `ProtectedSend` {`begin`}, {`inline_pgp`, `senderr`}, {`abort`, `mapi`}, {`abort`,
`body`}, {`autosave`, `draft_key`}, {`mapi`, `senderr`, `typeahead`}, {`body`, `senderr`,
`typeahead`}, {`message`, `mapi`, `senderr`}, {`message`, `body`, `senderr`}; `Restartable`
{`message`}, {`base`, `class`}, {`senderr`}, {`autosave`, `draft_key`}; `SendsLatestText` {`base`,
`class`}, {`senderr`}, {`typeahead`}, {`autosave`, `draft_key`, `inline_pgp`}; `KeepsText`
{`senderr`}, {`mapi`}, {`autosave`, `draft_key`}, {`base`, `class`, `draft_key`}; `LeavesOnce`
{`class`, `submit`}, {`abort`, `class`}, {`abort`, `body`}, {`splitBCCMails`, `typeahead`},
{`autosave`, `draft_key`}. Adding `message` or `base` to the flags of `send_faults` would therefore
break `ProtectedSend`; in `send_core` with `message`, `class` and `base` both `ProtectedSend` and
`LeavesOnce` hold. `send_faults` and `send_lost` check properties with some of the flags the
theorems exclude, where they hold on that instance for reasons of their own (no `begin`, one mode).
`KeepsText` and `KeepsPromise` also hold with encrypted drafts where nothing but `base` and
`conflict` is in `Env`.

### Mails that are read

`ParserInv` says whose parser is whose: a parser belongs to one mail, a thread holds a reference to the
one it was started with, and the results a finished one has are those of its mail. `FinishedInv` adds
that the parser PARSING_DONE shows is the one that finished, when mails are parsed one at a time and every parse
thread starts: the revert of a forward would otherwise show the parser whose thread never ran.

`StoreInv` follows the plaintext from the parser to the item and to the store: it says in which states of the
mail the item may have it, that `m_needs_wipe` knows, and that whatever saves passes Write, which cleans.
`KnowInv` adds what the revert and the close leave in the flags, `TellInv` what the shutdown has still to
close, `KeepInv` that a permanent decryption writes the text that a finished parse made.

* `StoreSafe`: no parse ends after the close (`late`); with `forward`, the mail has no second
  forward, no save between its two steps, and no revert that fails halfway; S/MIME mails only with
  S/MIME on and without `forward` and `draft`. `read_store` fulfils it.
* `KnowSafe`: also no `sendagain`, and a shutdown that can fail to close meets no failing revert.
* `TellSafe`: none of `late`, `forward`, `sendagain`, `draft`, `window`, `shutread`; a failing close meets neither
  a failing revert nor S/MIME mails with attachments. `read_end` fulfils it.
* `KeepSafe`: none of `early`, `late` and `nothread`. The last is only there for the proof, which uses
  `FinishedInv`: with one mail TLC finds no violation with it and every flag but `early` and `late`.

Smallest sets that break a property: `NoPlaintextStored` {`late`, `window`}, {`forward`, `second`},
{`forward`, `reverterr`}, {`between`, `forward`}, {`forward`, `finalize`, `wipeerr`}, {`forward`,
`finalize`, `late`}, and with an S/MIME mail {`forward`}, {`draft`}; `CleaningKnows` {`sendagain`},
{`forward`}, {`reverterr`, `shutdown`, `window`}, {`late`, `shutdown`}, {`late`, `nostream`,
`window`}, {`closeerr`, `reverterr`, `shutdown`}, with S/MIME {`shutdown`, `window`}, {`closeerr`,
`shutdown`}, {`draft`}; `ShutdownTells` {`window`}, {`shutread`}, {`sendagain`}, {`late`},
{`forward`}, {`draft`}, {`closeerr`, `reverterr`}, with S/MIME {`closeerr`}; `PermanentKeepsText`
{`late`, `permanent`}, {`early`, `permanent`}; `ShowsFinishedParse` {`late`}, {`forward`,
`nothread`}.

### Categories

`CatInv` has three parts. The verdict of a mail is that of no parse, of the preview or of the final parse, as
`updateSigstate` computes it from the content; what an open mail shows beside the categories it was read with
(`was`) is counted in `refs`; and the count of a category in a store is at least the number of mails that show it,
as a cardinality. That a second parse with the same result changes nothing is a lemma about `updateSigstate` alone
(`SigstateTwice`); all theorems have the hypothesis `~Changes`, since a parse that finds less leaves
`m_is_valid` as it was. `JunkApart`
excludes S/MIME mails in the junk folder, whose close takes the category and never gives it back.
`SavedClean` says nothing of the saves in which Outlook stores an open mail as it is shown (`Save`): those
do store GpgOL's categories, and the next read finds them in `was`.

The details follow from the level, which `Reasons` splits on. With one signature the verdict keeps that
signature whether it is trusted or not (`OneSignature`), so what is not valid is not trusted, and at level 0 a key
that is neither marginal nor better is always blamed for something (`Blamed`). One case is left, at level 1:
an address seen more than once, with no history or a conflict, for which `getCryptoDetails_o` has no text.
`OneBranchSaysNothing` says it is the only one, for every signature; `Explained` needs `HistoriesGrow`, that gpg
does not report marginal trust there, as the comment at `mail.cpp:3564` takes for granted and as
the contents of `categories` have it.

### Web Key Service

* `DecisionsLast`: the table is written first and saved in a later step, between which any check thread may write
  or save and Outlook may end. The address the UI thread has written is in `unsaved` until its save; what a
  check writes without saving is none of the states that have to last (`ChecksFind`); and a save, whoever
  calls it, writes the whole table but what it could not store, `lost`. A publish whose message box is still open
  is `PublishInProgress` and is begun again by the next start.
* `AnsweredOnce`: the invariant is an account (`Accounted`): what was answered, what is cached and the
  open boxes that ask are together no more than what was read. Counting the boxes of a stack needs
  `AsksPushed` and `AsksGone`, which say what opening and closing the innermost box does to a cardinality.

They assume `ScenesAssumption`: every address has a provider.

### Keys

For any addresses, keys, options and scenes, any bound on locates, imports and toggles. A thread of
`KeyCache` is a list of operations, so the invariant `KInv` speaks of whole lists; a step puts some
operations in place of the head of one (`Pushed`), and `WorkOrdered` shows once that such a step keeps the order.

* **Order** (`Ordered`, `UIPrograms`): what a check does comes last in a list and starts no other check; whoever
  asks for keys has a verdict after it; a thread that searches leaves the mail as its last operation; an update
  that is done, and a `LocateArgs` under construction, are at the head.
* **Started once** (`Started`): the thread that the constructor of `LocateArgs` starts has nothing to do
  yet. An address is marked as searched before its thread starts and never becomes unsearched (`SearchedStays`);
  imports are numbered. Without it a count could be lost with the list that is overwritten.
* **Promises** (`Promised`): a "job done" has its key in the cache, or GnuPG never had it, or a listing of it brought
  nothing (`failed`); an override names a key that is cached or inserted right before it in the same thread, with
  the same exception; a reader waits for a key that is there, or for a
  job that is marked, although the mark of one job ends with another's. `DoneMeansCached` follows.
* **Counting**: `count` is the cardinality of the threads whose last operation is to leave. Only
  `StartThread` and `LeaveMail` change that set, each by one.
* **A check comes after** (`ChecksAfter`): while the UI thread locates keys for a mail whose user chose nothing, a
  "resolve", an "oomdata" or the start of the check is still in its list. `NoResultUnseen` needs both: a result comes
  from a thread that is counted, so the count is not zero; it becomes zero only by a thread that starts the check; and
  a start is given up only when others are counted.

They assume what the module assumes of its constants: finitely many keys and addresses, of which the sender and the
contacts are some, each key of one of the two protocols.

### Recipients

For any entries, lists, keys, options and mails, and any number of copies and cancels.

* **Induction.** The library's theorems take the induction hypothesis as an operator, which no backend can
  instantiate. `NatMin` has it as a set: a nonempty set of naturals has a least element, so there is a
  least counterexample; `Induct` says the same of an interval. With them `Flattened` shows that
  `FlattenSeq` is a bijection from the positions of the result to the places (i, j) of the
  sequences it joins, and `ResolvesAll` that the recursive function `try_resolve_group` exists, because
  the depth of a list bounds the recursion.
* **Counting** (`Same`). That the mail is encrypted to the addresses Outlook delivers it to is not inductive:
  with an address twice, once in a list, taking one recipient away must not take the address away. The
  invariant compares how often each address occurs among the recipients with keys and among
  Outlook's. `RemoveCount` says that removing a recipient takes exactly one, `SetRecipientsCount` that overwriting
  them keeps every count, `SplitCount` that a split moves one recipient to the copy.
* **A mail under way** (`UnderWay`). The keys of a recipient are its own, the originator is the sender, who
  is one of the recipients and whose keys sign; while a split waits, everybody has keys
  and somebody is hidden, so that no recipient is dropped (`Splittable`).
* **The keys** (`ResolveKeysFacts`). Each pass replaces the keys of all recipients, so what a pass
  of the other protocol left is gone; signers accumulate, and that the one of the final protocol is
  among them follows from `IsResolved` because there is at least one recipient: the sender.

They assume `ListAssumption`, `ComposedAssumption` (mails have recipients that Outlook can have) and that
`MaxCopies` is a number.

### Round trip

For any mails with a text, perhaps an HTML text, and any attachments, of any contents; for any set of
protections and transports; for reads and writes of any sizes, and any number of times the message is opened.
`WireLines` are the lines such a message can have: contents without a line that is taken for a boundary,
headers of the parts, boundaries.

* **Induction** is that of *Recipients*: a nonempty set of naturals has a least element (`NatMin`, `SeqInduct`).
  It gives each recursive function of the MIME modules its defining equation (`SplitAppend`, `FlatAppend`,
  `FeedAppend`), and the properties of a whole content follow from those of one line.
* **Lines and encodings** (`Mime_proofs`). `ContentRead`: what `write_part` makes of a content holds no
  boundary line and decodes, in 7bit, quoted-printable and base64, to the lines of the content. `InsertHead`,
  `InsertMark`, `InsertBlank` say what a header, a boundary and an empty line do to the path of parts.
* **Structures.** The signed part of every mail, with or without HTML, related files and other files, is hashed as
  a whole and nothing else is (`Hashes`); the signature after it is found; the ciphertext of
  `multipart/encrypted` and of S/MIME is found (`PgpComes`, `CmsComes`, `SignedComes`), and data that are not signed
  are not taken for something signed.
* **Pieces** (`MoreRead`, `MoreWritten`). Wherever a stream is cut, within lines too, what the provider has is what
  it would have after the same lines at once. It needs that the provider does not change its mind in between
  (`Quiet`): it copies everything from the first line, or no line makes it give up MIME.
* **Recognised** (`Handled`). From `do_crypto` on, what GnuPG made is what was asked for (`Made`); a message that was
  sent has one attachment with our structure, or the armored text as its body (`Sent`); one that arrives, and one
  that is opened again with or without what Outlook stored, is `Openable`: the class found for it is the one of its
  protection (`Wanted`), and the attachment that is marked carries all of the data (`Carriers`). It
  is inductive over reopening because the marks that opening leaves are found again (`Kept`).
* **Parsed** (`Passing`). What the input provider has is the part of the stream that was read (`PassRead`); read to
  the end it is the ciphertext, the clear signed text or the signed data with its signature (`FitFor`), so GpgME
  takes it for what it is (`OperationIs`); the plaintext of a signed mail is again a signed structure (`OutFor`); what
  is verified is what was signed (`SignatureRight`). A second pass starts only for a signed mail, whose input is
  then either still the one that was read or the plaintext (`Again`). Its last conjunct
  gives `SameProtection` and `HtmlNeedsSignature`.

They assume what the module assumes of its constants: `MailsAssumption`, the attachments of a
composed mail are of no type of ours, and people write no armor lines (a text that begins with one is `begin` in
`MailSend`); `ProtectionsAssumption`, a mail that gets here is signed or encrypted, and PGP/Inline is OpenPGP;
`KindsAssumption` names the transports; `SizesAssumption`, a write takes something, and a read of the ciphertext
reaches the end of a line: `BUFSIZE` is 65536 bytes, and where no line ends within a read `collect_data`
gives up (`mimedataprovider.cpp:946`).

### Only model-checked

* `ReadBack`. It does not hold for every mail: one file without a text is lost
  (`bug_lone_attachment`), files without a name are left out, empty lines of some text files are
  dropped (see *Observed*). For the mails of `roundtrip` TLC checks it. A theorem would need the
  mails it holds for as a hypothesis, and for each part what the parser stores of the decoded lines.
* Everything under fairness: `WindowComesBack`, `MailIsShown`, `ParserLockFreed`, `Settles`, `SeenIsHandled` and
  the fairness of `SecureSend` in `KeepsPromise`: the prover handles neither ENABLED nor liveness.

## Observed, not run

These appear when a flag is added to a passing configuration, when a property that is
stated and not run is checked, or by reading next to the model. Where a comment of the
code contradicts them it is quoted.

Composed mails (`MailSend`):

* Draft encryption and an autosave during the crypto: `PinnedWhileCrypting` fails; the
  reference is there to "prevent an early unload which would crash Outlook 2013" (`mail.cpp:4827`).
* A body that starts with `-----BEGIN` leaves as it is: `ProtectedSend` fails (`mail.h:492`).
* Wiping the body fails after the draft info was removed (`mimemaker.cpp:1337`): the next
  Send is open, `HonoursChoice` fails.
* Draft encryption with a hidden recipient splits and sends the draft: `SentOnRequest`
  fails (`cryptcontroller.cpp:921`).
* `RefTakenOnce`: two users share `m_currentItemRef` (the "multi ref" message, `mail.cpp:4696`).
* `BlockedWriteMeansCrypto`: the draft flag outlives a draft encryption that did not
  start, and later saves are cancelled (`mailitem-events.cpp:829`).
* `SplitStartsClean`: SEND_MULTIPLE_MAILS may be handled before the thread that posted it
  has reset the crypt state (`cryptcontroller.cpp:935`).
* `SecondSendIsFinished`: CRYPTO_DONE sends although `updateCryptOOM_o` gave up.
* `typeahead` and `SendsLatestText`: the window is enabled before CRYPTO_DONE.
* `message` and `HonoursChoice`: when the MAPI message cannot be had, `needs_crypto_m` answers no
  (`mail.cpp:2107-2112`), "0: No" (`mail.h:262`), and the Send handler passes a mail for which a toggle is pressed
  (`mailitem-events.cpp:423-434`). When that happens in AfterWrite, `encryptSignStart_o` returns success without a
  crypter (`mail.cpp:2024`), Send is cancelled and the state stays `NeedsActualCrypt`: `Restartable` fails.
* `class` with `base` and `Restartable`: the T3656 workaround without a base message cancels Send, and the state
  stays `WantsSendMIME` (`mailitem-events.cpp:603`). The next Send submits what was encrypted then, whatever
  was edited since (`SendsLatestText`).
* `abort` and `LeavesOnce`: a cancelled Send that is reported as an error is submitted twice.
* `mapi` and `KeepsText`: the body was wiped before the MAPI update fails.
* `senderr` and `Restartable`: a Send that fails after crypto leaves the crypt state, and the next Send
  sends what was encrypted then, whatever was edited since (`SendsLatestText`).

Mails that are read (`MailView`):

* `finalize` failing in the revert and a later write: the plaintext is stored under
  an error (`mailitem-events.cpp:761`).
* `AttachmentsShown` fails when a mail is closed and read again: `m_attachs_added` outlives
  the attachments (`mail.cpp:845`).
* `print` with two mails and `ParserLockFreed`: the UI thread waits for `parser_lock`
  while its holder waits for the UI thread.
* Three ends of `decryptVerify_o` leave the placeholder for good: a thread that cannot be created is only
  logged (`mail.cpp:1492`), a body that cannot be read ends it when `m_processed` is set (1425), and a
  confirmation of the Web Key Service returns early (1442). `MailIsShown` speaks of mails with a running thread.
* `nothread` with `forward` and `ShowsFinishedParse`: REVERT_MAIL shows the text of a parser that never ran.
* `late` and `NoPlaintextStored`: a parse ends after the close that set `m_pass_write`.
* `late` and `ShowsFinishedParse`: a mail is closed and read again while it is parsed, and the
  first PARSING_DONE shows the second parser, which has found nothing yet (`mail.cpp:1452`).
* `early` and `PermanentKeepsText`: a preview is decrypted permanently.
* `forward` or `window` and `ShutdownTells`: `revert_o` returns 0 for a mail whose
  `m_processed` is false, and a close of one window leaves the other.
* `draft` and `NoPlaintextStored` with three decryptions of an S/MIME mail: an unsent mail that is closed
  and read again gets a DECRYPT message 500 ms after BeforeRead; when its first parse has ended by
  then, `decryptVerify_o` saves the item with the plaintext under `m_pass_write`
  (`mailitem-events.cpp:234`, `mail.cpp:1300`). A DECRYPT handled after the shutdown shows plaintext too.
* `between` and `NoPlaintextStored`: accepted by a comment (`mailitem-events.cpp:715-721`).
* A `no_smime` mail that is written while its placeholder is shown stores the placeholder;
  the revert of an S/MIME mail always ends in "not our class".

Recipients (`SendKeys`):

* `BccAlone` ("Split BCC recipients in their own mails", `common_indep.h:208`) fails: two
  hidden recipients and no other one share a mail.
* A member of a list that has no address is dropped from the keys, while Outlook delivers
  to the list. With an identity chosen and S/MIME on, the sender is taken without a look
  at its keys (`mail.cpp:2241-2247`).
* Signing with no key counts as resolved (`cryptcontroller.cpp:509`); keys the resolver
  returns for a mail that is only signed are not kept, and a hidden recipient of such a
  mail gets a copy without recipients.
* `remove_oom_recipient` ignores the type; `setType` overwrites the mark of an invalid type.
* A copy that cannot be made leaves `g_mail_copy_triggerer` set (`mail.cpp:4894`).

Keys (`KeyCache`):

* `SafeAtAnyTime` ("As we are safe to call at any time", `mail.cpp:4580`) fails: a thread
  that checks holds `dtor_lock` and waits for `keycache_lock`, the UI thread the other way round.
* `ManualChoiceWins` ("so that autosecure can be disabled manually", `mail.cpp:4601`) fails:
  answers posted before the choice overrule it, and DO and DONT may arrive in either order.
* A job that ends with a null key ends all the same (`keycache.cpp:153-179`), and `do_import` keeps its
  fingerprint for the contact (247-258): later lookups ask for a key that the cache does not know.
* `update` gives its lock back before it inserts the mark (1138-1145); a second thread for the same key starts.
* A contact whose data are no key keeps its import mark, and every check waits 10 seconds
  for it. `std::remove_if` without `erase` (`addressbook.cpp:219`).
* Two mails with the same recipient: the second is not checked when the search that the
  first began ends. RECIPIENT_ADDED is dropped while a search begins.
* `setPgpKey` takes `keycache_lock` before `fpr_map_lock`, `insertOrUpdateInFprMap` the other
  way round. `s_thread_cnt` has no lock and `MAX_LOCATOR_THREADS` no reader.
* `get_most_valid_key_simple` never compares the validity (1346).

Round trip:

* Empty lines of text attachments with a transfer encoding of 7bit or quoted-printable are
  dropped (`mimedataprovider.cpp:794`); `ReadBack` compares files whose lines are not empty.
* Outlook items in a mail without HTML are left out without a question.
* `mapi_do_save_changes` never calls SaveChanges in its loop (`mapihelp.cpp:363`).
* A nested multipart makes an attachment without a name; `finalize` puts the protected
  headers before a last line that has no end; `buildProtectedHeaders` has no caller.

Categories:

* The category of an encrypted mail is registered by the preview and by the final parse and
  given back once: it stays in the list of the store until a restart. A junk S/MIME mail
  with attachments gives its category back twice; so does a mail that was decrypted
  permanently (`mail.cpp:4745` and the destructor at 229), and takes away another mail's.
* `Changes`: `m_is_valid` (`mail.cpp:2972`) is never reset, so when an open mail is closed, read again before it is
  unloaded and its signature is no longer trusted, it is still valid and keeps a level that nothing gives it:
  `LevelEarned` and `ShowsVerdict` fail ("For our category we only care about trusted sigs.", `mail.cpp:2950`),
  and so does `SavedClean`, which finds the old level. An expired signature of a fully trusted key counts as
  valid (`mail.cpp:2946`).
* A forward's Write and the Save of the revert store the mail with GpgOL's categories on it
  (`mailitem-events.cpp:738-743`; `revert.cpp:354-358` takes them off only with S/MIME off).
* A valid mail keeps a level that was stored with it beside its own: only the other branch
  removes it.
* `Mail::close` takes the junk category from an S/MIME mail and never puts it back.
* A mail that was printed and is opened before it was closed shows no categories.

Web Key Service:

* Two checks of an address overwrite what the user decided in between; the header says
  "Otherwise the state will only be updated if the last check was more then 7 days ago".
* Two offers inside each other publish twice; a request counts as sent although `send_mail`
  failed; a failed confirmation becomes ConfirmationSent at the next notice; a failed
  publish stays PublishInProgress until Outlook is started again.
* A request is sent while its message box is open and the state is `PublishInProgress`: when Outlook ends then, the
  next start loads `NotChecked` and offers to publish again.
* A failed save is only logged (`wks-helper.cpp:357-362`): what was decided is lost if Outlook ends before the next.
* `RequestSent` is written after the box was closed, over a ConfirmationSeen that came meanwhile.
* `std::map::insert` keeps the older of two confirmations. A comma where an operator was
  meant (`wks-helper.cpp:584`).

## Not modelled

What the models leave out of the code they cover:

* `do_parsing` uses the mail after `isValidPtr` without `dtor_lock`; the address may be
  freed in between. That is undefined behaviour on freed memory, not a state.
* The AFTER_MOVE of an S/MIME mail that is moved, the uid map, the attachments of replies and
  forwards of crypto mails, `revertAllMails_o` and `wipeAllMails_o` (nothing calls them), and
  `do_crypt` without a crypter (no caller).
* Round trip: attachments that Outlook refuses to take; the conversions of encodings and
  charsets, of which only the length of lines and 8 bit text are told apart; lines longer than a read; a
  MOSSTEMPL attachment of another name, which the code would delete a second time.
* Keys: `canSign` and `canReallySign` are one bit of a key; `do_populate` lists everything or
  nothing; the override map that is read without the lock (`keycache.cpp:703`) is read at one
  moment; one "OpenPGP Key" field per contact; auto secure and auto resolve are on; a check awaits
  the imports recipient by recipient and its S/MIME part is one step; one mail.
* Recipients: lists in which every member that is reached resolves.
* Categories: where the runs and theorems apply, the result of a verification is the same in each
  parse of an open mail (`Changes`); no junk S/MIME mail with attachments; junk and printed mails
  are parsed once per open item; `decryptPermanently_o` and the removal in the NeedsFirstAfterWrite
  state and in the revert of S/MIME mails when S/MIME is off; a store that refuses a category; one
  `Mail` per item.
* Web key: a save writes the whole table at one moment, though it may fail for any of the addresses; nothing calls
  `start_check` with `forced`.

GpgME, Outlook, MAPI and mail transport are external: their outcomes are nondeterministic
where the code looks at them. Dialogs, translation, logging, options and the wording of
bodies have no state to check. The invalidation of the ribbon and the explorer's watchdog
only decide when a button is drawn.

## Plan

1. `ReadBack` as a theorem, with `ContentRead` and the lemmas on the part tree, for mails that have a text and
   whose files have names and no empty lines.
2. `UiInvalidate`: `delayed_invalidate_ui`, `blockInv` and the watchdog of
   `explorer-events.cpp`, with the counter as read and write steps.
