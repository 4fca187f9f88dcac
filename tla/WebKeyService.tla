--------------------------- MODULE WebKeyService ----------------------------
(***************************************************************************)
(* Publishing the user's keys in a web key directory (wks-helper.cpp): a   *)
(* state for each of the user's addresses, kept in the registry. Threads   *)
(* check if the provider has a directory, other threads wake the UI thread *)
(* after a mail was sent; it asks the user, sends a request, and answers   *)
(* the confirmation that comes back.                                       *)
(*                                                                         *)
(* A message box runs a message loop: further messages are handled, and    *)
(* further boxes opened, inside it. External: the provider, gpg-wks-client,*)
(* Outlook's mail transport, the user.                                     *)
(***************************************************************************)
EXTENDS Naturals, Sequences, SequencesExt

CONSTANTS
  Order,       \* the user's addresses in the order of s_states
  Scenes,      \* [directory, weeks, restarts, fails, checks]: the providers, address ->
               \* "none", "offered" or "published", and bounds: how often
               \* CHECK_MIN_INTERVAL passes, Outlook ends and a save fails, and check
               \* threads at a time
  MaxChecks,   \* the most check threads in a scene
  MaxBoxes,    \* bound: message boxes in each other
  MaxReads,    \* bound: confirmation mails that are read
  MaxRequests  \* bound: requests for an address

VARIABLES
  state,       \* s_states
  checked,     \* s_last_checked: "never", "recent" or "old"
  unsaved,     \* the address the UI thread has written to the table and not yet saved
  reg,         \* the registry: what the next start loads
  lost,        \* the addresses the last save could not store
  cache,       \* s_confirmation_cache: None or the confirmation
  checks,      \* the threads in do_check
  notices,     \* the addresses do_notify threads are about to pass on
  boxes,       \* the open message boxes, the innermost last
  directory,   \* of the provider
  inbox,       \* address -> the confirmations in the inbox
  requests,    \* address -> requests that arrived
  read, answers,  \* address -> confirmations that were read and answered
  weeks, restarts, fails \* how often there are more of them

table == <<state, unsaved>>
store == <<reg, lost, fails>>
world == <<directory, inbox, requests, read, answers>>
time  == <<weeks, restarts>>
vars  == <<table, checked, store, cache, checks, notices, boxes, world, time>>

Addresses == ToSet(Order)
States == {"NotChecked", "NotSupported", "NeedsPublish", "IsPublished", "ConfirmationSeen",
           "PublishInProgress", "RequestSent", "PublishDenied", "ConfirmationSent"}
Directories == {"none", "offered", "published"}

\* Every address has a provider
ASSUME ScenesAssumption ==
  \A scene \in Scenes : scene.directory \in [Addresses -> Directories]

None == 0
Idle == [at |-> "idle", addr |-> "", found |-> ""]
-----------------------------------------------------------------------------
(* The tables.                                                             *)

\* update_state: the table first. save comes when its lock is free again
UpdateState(a, s) == state' = [state EXCEPT ![a] = s] /\ unsaved' = {a}

Store(entries) ==
  \E bad \in SUBSET Addresses :
    /\ bad # {} => fails > 0
    /\ fails' = IF bad = {} THEN fails ELSE fails - 1
    /\ reg' = [a \in Addresses |-> IF a \in bad THEN reg[a] ELSE entries[a]]
    /\ lost' = bad

\* Mutant: an address that was never checked is not saved
SaveChecked ==
  Store([a \in Addresses |-> IF checked[a] = "never" THEN reg[a]
                            ELSE [state |-> state[a], checked |-> checked[a]]])
\* save: all of the table, whoever calls it. What cannot be stored is logged
Save == Store([a \in Addresses |-> [state |-> state[a], checked |-> checked[a]]])

\* load: a publish that did not end is begun again
Loaded(a) == reg[a].state # "PublishInProgress"
AtStart(a) == IF Loaded(a) THEN reg[a].state ELSE "NotChecked"
Load == /\ state' = [a \in Addresses |-> AtStart(a)]
        /\ checked' = [a \in Addresses |-> IF Loaded(a) THEN reg[a].checked ELSE "never"]
-----------------------------------------------------------------------------
(* The checks.                                                             *)

\* start_check, never forced
NeedsCheck(a) ==
  \/ state[a] = "NotChecked"
  \/ state[a] = "NotSupported" /\ checked[a] # "recent"

StartCheck(a) ==
  IF NeedsCheck(a)
  THEN \E i \in DOMAIN checks :
         /\ checks[i] = Idle
         /\ \A j \in 1..(i - 1) : checks[j] # Idle
         /\ checks' = [checks EXCEPT ![i] = [at |-> "ask", addr |-> a, found |-> ""]]
  ELSE UNCHANGED checks

\* do_check asks the provider, sets the state, then the time, then saves
Supported(a) ==
  CASE directory[a] = "none"      -> "NotSupported"
    [] directory[a] = "offered"   -> "NeedsPublish"
    [] directory[a] = "published" -> "IsPublished"

Ask(i) ==
  /\ checks[i].at = "ask"
  /\ checks' = [checks EXCEPT ![i].at = "found", ![i].found = Supported(checks[i].addr)]
  /\ UNCHANGED <<table, checked, store, cache, notices, boxes, world, time>>

Found(i) ==
  /\ checks[i].at = "found"
  /\ state' = [state EXCEPT ![checks[i].addr] = checks[i].found]
  /\ checks' = [checks EXCEPT ![i].at = "time"]
  /\ UNCHANGED <<unsaved, checked, store, cache, notices, boxes, world, time>>

\* update_last_checked
LastChecked(i) ==
  /\ checks[i].at = "time"
  /\ checked' = [checked EXCEPT ![checks[i].addr] = "recent"]
  /\ checks' = [checks EXCEPT ![i].at = "save"]
  /\ UNCHANGED <<table, store, cache, notices, boxes, world, time>>

CheckSaves(i) ==
  /\ checks[i].at = "save"
  /\ Save
  /\ checks' = [checks EXCEPT ![i] = Idle]
  /\ UNCHANGED <<table, checked, cache, notices, boxes, world, time>>

\* There is no wks client, or it does not run
CheckFails(i) ==
  /\ checks[i].at = "ask"
  /\ checks' = [checks EXCEPT ![i] = Idle]
  /\ UNCHANGED <<table, checked, store, cache, notices, boxes, world, time>>
-----------------------------------------------------------------------------
(* Waking the user. The UI thread runs its loop, or that of a message box, *)
(* when it neither saves nor asks for a request.                           *)

Open(kind) == boxes # <<>> /\ Last(boxes).kind = kind
InLoop == unsaved = {} /\ ~Open("publish")

UISaves ==
  /\ unsaved # {}
  /\ Save
  /\ unsaved' = {}
  /\ UNCHANGED <<state, checked, cache, checks, notices, boxes, world, time>>

\* allow_notify: one thread, for the first address that has something to say
AllowNotify(st) ==
  LET i == SelectInSeq(Order, LAMBDA a : st[a] \in {"ConfirmationSeen", "NeedsPublish"})
  IN notices' = IF i = 0 THEN notices ELSE notices \cup {Order[i]}

\* The user sends a mail from a: do_crypto checks, the Send event notifies
Send(a) ==
  /\ InLoop
  /\ StartCheck(a)
  /\ AllowNotify(state)
  /\ UNCHANGED <<table, checked, store, cache, boxes, world, time>>

Box(kind, a, data) == Append(boxes, [kind |-> kind, addr |-> a, data |-> data])

\* Mutant: the confirmation stays where it was
TakenKept(a) == UNCHANGED cache
\* get_cached_confirmation
Taken(a) == cache' = [cache EXCEPT ![a] = None]

\* Mutant: nothing to confirm, nothing to do
ForgottenStays(a) == UNCHANGED table
\* handle_confirmation_notify: seen before the last restart, or asked already
Forgotten(a) == UpdateState(a, "ConfirmationSent")

\* notify, in the UI thread and maybe inside of another message box
Notify(a) ==
  /\ InLoop /\ a \in notices /\ Len(boxes) < MaxBoxes
  /\ notices' = notices \ {a}
  /\ \/ /\ state[a] = "NeedsPublish"
        /\ boxes' = Box("offer", a, None)
        /\ UNCHANGED <<table, cache>>
     \/ /\ state[a] = "ConfirmationSeen"
        /\ Taken(a)
        /\ IF cache[a] = None
           THEN Forgotten(a) /\ UNCHANGED boxes
           ELSE boxes' = Box("confirm", a, cache[a]) /\ UNCHANGED table
     \/ /\ state[a] \notin {"NeedsPublish", "ConfirmationSeen"}
        /\ UNCHANGED <<table, cache, boxes>>
  /\ UNCHANGED <<checked, store, checks, world, time>>
-----------------------------------------------------------------------------
(* The answers. Only the innermost box can be closed.                      *)

Shut == Front(boxes)
Instead(kind) == [boxes EXCEPT ![Len(boxes)].kind = kind]

Refuse ==
  /\ InLoop /\ Open("offer")
  /\ UpdateState(Last(boxes).addr, "PublishDenied")
  /\ boxes' = Shut
  /\ UNCHANGED <<checked, store, cache, checks, notices, world, time>>

\* start_publish
Publish ==
  /\ InLoop /\ Open("offer")
  /\ UpdateState(Last(boxes).addr, "PublishInProgress")
  /\ boxes' = Instead("publish")
  /\ UNCHANGED <<checked, store, cache, checks, notices, world, time>>

\* No key or no request: the user is told, or not, and the state stays. A
\* request that cannot be sent counts as sent
Request ==
  /\ unsaved = {} /\ Open("publish")
  /\ LET a == Last(boxes).addr
     IN \/ /\ boxes' = Instead("told") \/ boxes' = Shut
           /\ UNCHANGED <<table, requests>>
        \/ /\ requests[a] < MaxRequests
           /\ boxes' = Instead("sent")
           /\ requests' = [requests EXCEPT ![a] = @ + 1]
           /\ UNCHANGED table
        \/ UpdateState(a, "RequestSent") /\ boxes' = Shut /\ UNCHANGED requests
  /\ UNCHANGED <<checked, store, cache, checks, notices, directory, inbox, read, answers, time>>

\* The user has read that the request was sent, or that it failed
Sent ==
  /\ InLoop /\ Open("sent")
  /\ UpdateState(Last(boxes).addr, "RequestSent")
  /\ boxes' = Shut
  /\ UNCHANGED <<checked, store, cache, checks, notices, world, time>>
Told ==
  /\ InLoop /\ Open("told")
  /\ boxes' = Shut
  /\ UNCHANGED <<table, checked, store, cache, checks, notices, world, time>>

\* handle_confirmation_notify, after the question
Decline ==
  /\ InLoop /\ Open("confirm")
  /\ UpdateState(Last(boxes).addr, "RequestSent")
  /\ boxes' = Shut
  /\ UNCHANGED <<checked, store, cache, checks, notices, world, time>>

\* The mail is deleted if it is still open
Answered(a) ==
  /\ UpdateState(a, "ConfirmationSent")
  /\ \E gone \in SUBSET {Last(boxes).data} : inbox' = [inbox EXCEPT ![a] = @ \ gone]
  /\ boxes' = Shut

\* The client fails, or there is an answer that is sent or cannot be sent
Confirm ==
  /\ InLoop /\ Open("confirm")
  /\ LET a == Last(boxes).addr
     IN \/ /\ boxes' = Instead("told") \/ boxes' = Shut
           /\ UNCHANGED <<table, inbox, answers>>
        \/ /\ boxes' = Instead("confirmed")
           /\ answers' = [answers EXCEPT ![a] = @ + 1]
           /\ UNCHANGED <<table, inbox>>
        \/ Answered(a) /\ UNCHANGED answers
  /\ UNCHANGED <<checked, store, cache, checks, notices, directory, requests, read, time>>

Confirmed ==
  /\ InLoop /\ Open("confirmed")
  /\ Answered(Last(boxes).addr)
  /\ UNCHANGED <<checked, store, cache, checks, notices, directory, requests, read, answers, time>>

\* handle_confirmation_read: an entry that is there already stays
Read(a) ==
  /\ InLoop /\ read[a] < MaxReads
  /\ \E n \in inbox[a] : cache' = [cache EXCEPT ![a] = IF @ = None THEN n ELSE @]
  /\ UpdateState(a, "ConfirmationSeen")
  /\ AllowNotify(state')
  /\ read' = [read EXCEPT ![a] = @ + 1]
  /\ UNCHANGED <<checked, store, checks, boxes, directory, inbox, requests, answers, time>>
-----------------------------------------------------------------------------
(* The provider, the time, the end of Outlook.                             *)

\* A confirmation comes for a request, maybe late
Reply(a) ==
  /\ \E n \in 1..requests[a] : inbox' = [inbox EXCEPT ![a] = @ \cup {n}]
  /\ UNCHANGED <<table, checked, store, cache, checks, notices, boxes, directory, requests, read,
                 answers, time>>

Published(a) ==
  /\ answers[a] > 0 /\ directory[a] = "offered"
  /\ directory' = [directory EXCEPT ![a] = "published"]
  /\ UNCHANGED <<table, checked, store, cache, checks, notices, boxes, inbox, requests, read,
                 answers, time>>

Week ==
  /\ weeks > 0
  /\ weeks' = weeks - 1
  /\ LET aged(ck) == IF ck = "recent" THEN "old" ELSE ck
     IN /\ checked' = [a \in Addresses |-> aged(checked[a])]
        /\ reg' = [a \in Addresses |-> [reg[a] EXCEPT !.checked = aged(@)]]
  /\ UNCHANGED <<table, lost, fails, cache, checks, notices, boxes, world, restarts>>

Restart ==
  /\ restarts > 0
  /\ restarts' = restarts - 1
  /\ Load
  /\ unsaved' = {} /\ lost' = {}
  /\ cache' = [a \in Addresses |-> None]
  /\ checks' = [i \in DOMAIN checks |-> Idle]
  /\ notices' = {} /\ boxes' = <<>>
  /\ UNCHANGED <<reg, fails, world, weeks>>

Init ==
  /\ state = [a \in Addresses |-> "NotChecked"]
  /\ checked = [a \in Addresses |-> "never"]
  /\ unsaved = {} /\ lost = {}
  /\ reg = [a \in Addresses |-> [state |-> "NotChecked", checked |-> "never"]]
  /\ cache = [a \in Addresses |-> None]
  /\ notices = {} /\ boxes = <<>>
  /\ \E scene \in Scenes :
       /\ directory = scene.directory /\ checks = [i \in 1..scene.checks |-> Idle]
       /\ weeks = scene.weeks /\ restarts = scene.restarts /\ fails = scene.fails
  /\ inbox = [a \in Addresses |-> {}]
  /\ requests = [a \in Addresses |-> 0]
  /\ read = [a \in Addresses |-> 0] /\ answers = [a \in Addresses |-> 0]

Sends   == \E a \in Addresses : Send(a)
Answer  == Refuse \/ Publish \/ Request \/ Sent \/ Told \/ Decline \/ Confirm \/ Confirmed
Check(i) == i \in DOMAIN checks /\ (Ask(i) \/ Found(i) \/ LastChecked(i) \/ CheckSaves(i) \/ CheckFails(i))
Next ==
  \/ Sends \/ UISaves \/ Answer \/ Week \/ Restart
  \/ \E i \in 1..MaxChecks : Check(i)
  \/ \E a \in Addresses : Notify(a) \/ Read(a) \/ Reply(a) \/ Published(a)

\* The user goes on sending mails and closes the message boxes; the threads run
Fairness ==
  /\ WF_vars(Sends) /\ WF_vars(UISaves) /\ WF_vars(Answer)
  /\ \A a \in Addresses : WF_vars(Notify(a))
  /\ \A i \in 1..MaxChecks : WF_vars(Check(i))
Spec == Init /\ [][Next]_vars /\ Fairness
-----------------------------------------------------------------------------
\* The next start finds what was decided and what was done, whatever is
\* written or saved at the same time: it misses only the address the UI
\* thread is about to save, and those the last save could not store. A publish
\* that has not ended, its message box that tells so included, is begun again
\* (update_state, update_last_checked, save, load)
Decisions == {"PublishInProgress", "RequestSent", "PublishDenied", "ConfirmationSeen",
              "ConfirmationSent"}
Durable ==
  \A a \in Addresses \ (unsaved \cup lost) :
    state[a] \in Decisions =>
      AtStart(a) = IF state[a] = "PublishInProgress" THEN "NotChecked" ELSE state[a]

\* A confirmation that was read once is answered at most once, though its
\* question may be open when the next notice for it is handled
\* (get_cached_confirmation)
ConfirmedOnce == \A a \in Addresses : answers[a] <= read[a]

\* A confirmation that was seen does not stay open: the user is asked, or it
\* counts as answered. No address keeps the others from their turn, and no
\* restart leaves an address that waits for what is gone (allow_notify, load)
SeenIsHandled ==
  \A a \in Addresses : state[a] = "ConfirmationSeen" ~> state[a] # "ConfirmationSeen"
=============================================================================
