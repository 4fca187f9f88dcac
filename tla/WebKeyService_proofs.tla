------------------------ MODULE WebKeyService_proofs ------------------------
(***************************************************************************)
(* Theorems about WebKeyService, for any addresses, scenes and bounds.     *)
(***************************************************************************)
EXTENDS WebKeyService, FiniteSetTheorems, SequenceTheorems, TLAPS

\* What a check can find, and what keeps the time
Finds == {"NotSupported", "NeedsPublish", "IsPublished"}
Ages  == {"never", "recent", "old"}
Threads == [at : {"idle", "ask", "found", "time", "save"}, addr : Addresses \cup {""},
            found : Finds \cup {""}]
Entries == [state : States, checked : Ages]

\* The types of the tables and of the check threads, and what the registry has
\* of the decisions. A thread that has found something has found no decision:
\* its write of the table is the one that no save follows at once.
TablesType ==
  /\ state \in [Addresses -> States]
  /\ checked \in [Addresses -> Ages]
  /\ reg \in [Addresses -> Entries]
  /\ checks \in [DOMAIN checks -> Threads]
  /\ directory \in [Addresses -> Directories]
ChecksFind ==
  \A i \in DOMAIN checks :
    /\ checks[i].at # "idle" => checks[i].addr \in Addresses
    /\ checks[i].at = "found" => checks[i].found \in Finds
Stored ==
  \A a \in Addresses \ (unsaved \cup lost) :
    state[a] \in Decisions => reg[a].state = state[a]
DurableInv == TablesType /\ ChecksFind /\ Stored

LEMMA StoredIsDurable ==
  ASSUME Stored
  PROVE  Durable
BY DEF Stored, Durable, AtStart, Loaded

\* save heals what was missed, and misses only what it cannot store
LEMMA SaveStores ==
  ASSUME DurableInv, Save, state' = state
  PROVE  reg' \in [Addresses -> Entries] /\ Stored'
<1> DEFINE entries == [a \in Addresses |-> [state |-> state[a], checked |-> checked[a]]]
<1>1. PICK bad \in SUBSET Addresses :
        /\ reg' = [a \in Addresses |-> IF a \in bad THEN reg[a] ELSE entries[a]]
        /\ lost' = bad
  BY DEF Save, Store
<1>2. entries \in [Addresses -> Entries] /\ \A a \in Addresses : entries[a].state = state[a]
  BY DEF DurableInv, TablesType, Entries
<1> HIDE DEF entries
<1>3. reg' \in [Addresses -> Entries]
  BY <1>1, <1>2 DEF DurableInv, TablesType
<1>4. \A a \in Addresses \ lost' : reg'[a].state = state'[a]
  BY <1>1, <1>2
<1> QED BY <1>3, <1>4 DEF Stored

\* A step that leaves the tables alone
LEMMA TablesStay ==
  ASSUME DurableInv, UNCHANGED <<table, checked, store, checks, directory>>
  PROVE  DurableInv'
BY DEF DurableInv, TablesType, ChecksFind, Stored, table, store

\* A handler that writes its decision, and touches no check: the one that it
\* has written waits for UISaves
LEMMA DecisionKeeps ==
  ASSUME DurableInv, NEW a, NEW s \in States, UpdateState(a, s), unsaved = {},
         UNCHANGED <<checked, store, checks, directory>>
  PROVE  DurableInv'
<1>1. /\ state' \in [Addresses -> States] /\ unsaved' = {a}
      /\ reg' = reg /\ lost' = lost
      /\ \A b \in Addresses : b # a => state'[b] = state[b]
  BY DEF UpdateState, DurableInv, TablesType, store
<1>2. TablesType'
  BY <1>1 DEF DurableInv, TablesType
<1>3. Stored'
  BY <1>1 DEF DurableInv, Stored
<1>4. ChecksFind'
  BY DEF DurableInv, ChecksFind
<1> QED BY <1>2, <1>3, <1>4 DEF DurableInv

LEMMA UISavesDurable ==
  ASSUME DurableInv, UISaves
  PROVE  DurableInv'
<1>1. Save /\ UNCHANGED <<state, checked, checks, directory>>
  BY DEF UISaves, world
<1>2. reg' \in [Addresses -> Entries] /\ Stored'
  BY <1>1, SaveStores
<1> QED BY <1>1, <1>2 DEF DurableInv, TablesType, ChecksFind

\* A step of one check thread
LEMMA CheckMoves ==
  ASSUME DurableInv, NEW i \in DOMAIN checks, NEW t \in Threads,
         t.at # "idle" => t.addr \in Addresses, t.at = "found" => t.found \in Finds,
         checks' = [checks EXCEPT ![i] = t]
  PROVE  checks' \in [DOMAIN checks' -> Threads] /\ ChecksFind'
<1>1. checks \in [DOMAIN checks -> Threads] /\ ChecksFind
  BY DEF DurableInv, TablesType
<1>2. checks' \in [DOMAIN checks -> Threads]
  BY <1>1
<1>3. DOMAIN checks' = DOMAIN checks
  BY <1>1
<1>4. ChecksFind'
  BY <1>1, <1>3 DEF ChecksFind
<1> QED BY <1>2, <1>3, <1>4

LEMMA StatesOf ==
  {"PublishDenied", "PublishInProgress", "RequestSent", "ConfirmationSent", "ConfirmationSeen"}
    \subseteq States
BY DEF States

LEMMA AnswerDurable ==
  ASSUME DurableInv, Answer
  PROVE  DurableInv'
<1> USE StatesOf
<1>1. CASE Refuse
  BY <1>1, DecisionKeeps DEF Refuse, InLoop, world
<1>2. CASE Publish
  BY <1>2, DecisionKeeps DEF Publish, InLoop, world
<1>3. CASE Request
  <2>1. CASE UNCHANGED table
    BY <1>3, <2>1, TablesStay DEF Request
  <2>2. CASE UpdateState(Last(boxes).addr, "RequestSent")
    BY <1>3, <2>2, DecisionKeeps DEF Request
  <2> QED BY <1>3, <2>1, <2>2 DEF Request
<1>4. CASE Sent
  BY <1>4, DecisionKeeps DEF Sent, InLoop, world
<1>5. CASE Told
  BY <1>5, TablesStay DEF Told, world
<1>6. CASE Decline
  BY <1>6, DecisionKeeps DEF Decline, InLoop, world
<1>7. CASE Confirm
  <2>1. CASE UNCHANGED table
    BY <1>7, <2>1, TablesStay DEF Confirm
  <2>2. CASE Answered(Last(boxes).addr)
    BY <1>7, <2>2, DecisionKeeps DEF Confirm, Answered, InLoop
  <2> QED BY <1>7, <2>1, <2>2 DEF Confirm
<1>8. CASE Confirmed
  BY <1>8, DecisionKeeps DEF Confirmed, Answered, InLoop
<1> QED BY <1>1, <1>2, <1>3, <1>4, <1>5, <1>6, <1>7, <1>8 DEF Answer

LEMMA NotifyDurable ==
  ASSUME DurableInv, NEW a \in Addresses, Notify(a)
  PROVE  DurableInv'
<1>1. CASE UNCHANGED table
  BY <1>1, TablesStay DEF Notify, world
<1>2. CASE Forgotten(a)
  BY <1>2, StatesOf, DecisionKeeps DEF Notify, Forgotten, InLoop, world
<1> QED BY <1>1, <1>2 DEF Notify

\* A check: what it finds is no decision
LEMMA CheckDurable ==
  ASSUME DurableInv, NEW i, Check(i)
  PROVE  DurableInv'
<1> i \in DOMAIN checks
  BY DEF Check
<1> USE DEF DurableInv, TablesType
<1>1. CASE Ask(i)
  <2>1. Supported(checks[i].addr) \in Finds
    BY <1>1 DEF Ask, Supported, Finds, ChecksFind, Directories
  <2> DEFINE t == [checks[i] EXCEPT !.at = "found", !.found = Supported(checks[i].addr)]
  <2>2. checks[i] \in Threads /\ checks[i].addr \in Addresses
    BY <1>1 DEF Ask, ChecksFind
  <2>3. t \in Threads /\ t.addr \in Addresses /\ t.found \in Finds
    BY <2>1, <2>2 DEF Threads
  <2>4. checks' = [checks EXCEPT ![i] = t]
    BY <1>1, <2>2 DEF Ask, Threads
  <2> HIDE DEF t
  <2>5. checks' \in [DOMAIN checks' -> Threads] /\ ChecksFind'
    BY <2>3, <2>4, CheckMoves
  <2> QED BY <1>1, <2>5 DEF Ask, world, table, store, Stored
<1>2. CASE Found(i)
  <2>1. checks[i].found \in Finds /\ checks[i].addr \in Addresses
    BY <1>2 DEF Found, ChecksFind
  <2>2. state' \in [Addresses -> States] /\ Stored'
    <3>1. /\ state' = [state EXCEPT ![checks[i].addr] = checks[i].found]
          /\ UNCHANGED <<reg, unsaved, lost>>
      BY <1>2 DEF Found, store
    <3>2. state' \in [Addresses -> States]
      BY <2>1, <3>1 DEF Finds, States
    <3>3. checks[i].found \notin Decisions
      BY <2>1 DEF Finds, Decisions
    <3> QED BY <3>1, <3>2, <3>3 DEF Stored
  <2>3. checks' \in [DOMAIN checks' -> Threads] /\ ChecksFind'
    <3> DEFINE t == [checks[i] EXCEPT !.at = "time"]
    <3>1. checks[i] \in Threads
      BY <1>2 DEF ChecksFind
    <3>2. t \in Threads /\ t.addr \in Addresses /\ t.found \in Finds
      BY <2>1, <3>1 DEF Threads
    <3>3. checks' = [checks EXCEPT ![i] = t]
      BY <1>2 DEF Found
    <3> HIDE DEF t
    <3> QED BY <3>2, <3>3, CheckMoves
  <2> QED BY <1>2, <2>2, <2>3 DEF Found, world, store
<1>3. CASE LastChecked(i)
  <2>1. checked' \in [Addresses -> Ages]
    BY <1>3 DEF LastChecked, Ages
  <2>2. checks' \in [DOMAIN checks' -> Threads] /\ ChecksFind'
    BY <1>3 DEF LastChecked, Threads, ChecksFind
  <2> QED BY <1>3, <2>1, <2>2 DEF LastChecked, world, table, store, Stored
<1>4. CASE CheckSaves(i)
  <2>1. reg' \in [Addresses -> Entries] /\ Stored'
    BY <1>4, SaveStores DEF CheckSaves, table
  <2>2. checks' \in [DOMAIN checks' -> Threads] /\ ChecksFind'
    BY <1>4 DEF CheckSaves, Threads, ChecksFind, Idle
  <2> QED BY <1>4, <2>1, <2>2 DEF CheckSaves, world, table
<1>5. CASE CheckFails(i)
  <2>1. checks' \in [DOMAIN checks' -> Threads] /\ ChecksFind'
    BY <1>5 DEF CheckFails, Threads, ChecksFind, Idle
  <2> QED BY <1>5, <2>1 DEF CheckFails, world, table, store, Stored
<1> QED BY <1>1, <1>2, <1>3, <1>4, <1>5 DEF Check

LEMMA SendDurable ==
  ASSUME DurableInv, NEW a \in Addresses, Send(a)
  PROVE  DurableInv'
<1>1. checks' \in [DOMAIN checks' -> Threads] /\ ChecksFind'
  <2> DEFINE t == [at |-> "ask", addr |-> a, found |-> ""]
  <2>1. CASE UNCHANGED checks
    BY <2>1 DEF DurableInv, TablesType, ChecksFind
  <2>2. CASE \E i \in DOMAIN checks : checks' = [checks EXCEPT ![i] = t]
    <3>1. t \in Threads
      BY DEF Threads
    <3> QED BY <2>2, <3>1, CheckMoves
  <2> QED BY <2>1, <2>2 DEF Send, StartCheck
<1> QED BY <1>1 DEF Send, DurableInv, TablesType, Stored, world, table, store

LEMMA TimeDurable ==
  ASSUME DurableInv, Week \/ Restart
  PROVE  DurableInv'
<1> USE DEF DurableInv, TablesType
<1>1. CASE Week
  <2>1. /\ checked' \in [Addresses -> Ages]
        /\ reg' \in [Addresses -> Entries]
        /\ \A a \in Addresses : reg'[a].state = reg[a].state
    BY <1>1 DEF Week, Ages, Entries
  <2> QED BY <1>1, <2>1 DEF Week, world, table, Stored, ChecksFind
<1>2. CASE Restart
  <2>1. /\ state' \in [Addresses -> States]
        /\ checked' \in [Addresses -> Ages]
        /\ \A a \in Addresses : state'[a] \in {reg[a].state, "NotChecked"}
    BY <1>2 DEF Restart, Load, AtStart, Ages, States, Entries
  <2>2. checks' \in [DOMAIN checks' -> Threads] /\ ChecksFind'
    BY <1>2 DEF Restart, Threads, ChecksFind, Idle
  <2>3. Stored'
    BY <1>2, <2>1 DEF Restart, Stored, Decisions
  <2> QED BY <1>2, <2>1, <2>2, <2>3 DEF Restart, world
<1> QED BY <1>1, <1>2

LEMMA WorldDurable ==
  ASSUME DurableInv, NEW a \in Addresses, Read(a) \/ Reply(a) \/ Published(a)
  PROVE  DurableInv'
<1>1. CASE Read(a)
  BY <1>1, StatesOf, DecisionKeeps DEF Read, InLoop
<1>2. CASE Reply(a)
  BY <1>2, TablesStay DEF Reply
<1>3. CASE Published(a)
  BY <1>3 DEF Published, DurableInv, TablesType, ChecksFind, Stored, Directories, table, store
<1> QED BY <1>1, <1>2, <1>3

LEMMA DurableInit ==
  ASSUME Init
  PROVE  DurableInv
<1>1. PICK scene \in Scenes : /\ directory = scene.directory
                              /\ checks = [i \in 1..scene.checks |-> Idle]
  BY DEF Init
<1>2. directory \in [Addresses -> Directories]
  BY <1>1, ScenesAssumption
<1>3. checks \in [DOMAIN checks -> Threads] /\ ChecksFind
  BY <1>1 DEF Threads, Idle, ChecksFind
<1> QED BY <1>2, <1>3 DEF Init, DurableInv, TablesType, Stored, Decisions, States, Ages, Entries

LEMMA DurableStep ==
  ASSUME DurableInv, [Next]_vars
  PROVE  DurableInv'
<1>1. CASE UNCHANGED vars
  BY <1>1, TablesStay DEF vars, world
<1>2. CASE Next
  BY <1>2, AnswerDurable, NotifyDurable, CheckDurable, SendDurable, TimeDurable, WorldDurable,
     UISavesDurable
  DEF Next, Sends
<1> QED BY <1>1, <1>2

\* For any addresses, check threads, ends of Outlook and failing saves: the next
\* start finds what was decided and done, but for the one address that the UI
\* thread is about to save and those that the last save, whoever called it,
\* could not store; a later save heals those (update_state, save, load).
THEOREM DecisionsLast == Spec => []Durable
<1>1. Init => DurableInv
  BY DurableInit
<1>2. DurableInv /\ [Next]_vars => DurableInv'
  BY DurableStep
<1>3. DurableInv => Durable
  BY StoredIsDurable DEF DurableInv
<1> QED BY <1>1, <1>2, <1>3, PTL DEF Spec
-----------------------------------------------------------------------------
(* The confirmations. Each one that was read is in the cache, in the       *)
(* question of an open box, or answered, and never in two of them.         *)

Boxes == [kind : {"offer", "publish", "sent", "told", "confirm", "confirmed"},
          addr : Addresses, data : Nat]
Asks(s, a) == {k \in DOMAIN s : s[k].kind = "confirm" /\ s[k].addr = a}
Cached(a)  == IF cache[a] = None THEN 0 ELSE 1

BoxesType ==
  /\ boxes \in Seq(Boxes)
  /\ cache \in [Addresses -> Nat]
  /\ inbox \in [Addresses -> SUBSET Nat]
  /\ requests \in [Addresses -> Nat]
  /\ read \in [Addresses -> Nat]
  /\ answers \in [Addresses -> Nat]
Accounted ==
  \A a \in Addresses : answers[a] + Cached(a) + Cardinality(Asks(boxes, a)) <= read[a]
ConfirmInv == BoxesType /\ Accounted

LEMMA AsksFinite ==
  ASSUME NEW s \in Seq(Boxes), NEW a
  PROVE  IsFiniteSet(Asks(s, a)) /\ Cardinality(Asks(s, a)) \in Nat
<1>1. Len(s) \in Nat /\ DOMAIN s = 1..Len(s)
  BY LenProperties
<1>2. IsFiniteSet(1..Len(s))
  BY <1>1, FS_Interval
<1>3. Asks(s, a) \subseteq 1..Len(s)
  BY <1>1 DEF Asks
<1> QED BY <1>2, <1>3, FS_Subset, FS_CardinalityType

\* A further box
LEMMA AsksPushed ==
  ASSUME NEW s \in Seq(Boxes), NEW b \in Boxes, NEW a
  PROVE  /\ Append(s, b) \in Seq(Boxes)
         /\ Cardinality(Asks(Append(s, b), a)) =
              Cardinality(Asks(s, a)) + (IF b.kind = "confirm" /\ b.addr = a THEN 1 ELSE 0)
<1> DEFINE n == Len(s) + 1
<1>1. /\ Append(s, b) \in Seq(Boxes) /\ Len(Append(s, b)) = n
      /\ \A k \in 1..Len(s) : Append(s, b)[k] = s[k]
      /\ Append(s, b)[n] = b
  BY AppendProperties
<1>2. DOMAIN s = 1..Len(s) /\ DOMAIN Append(s, b) = 1..n /\ Len(s) \in Nat
  BY <1>1, LenProperties
<1>3. Asks(Append(s, b), a) =
        Asks(s, a) \cup (IF b.kind = "confirm" /\ b.addr = a THEN {n} ELSE {})
  BY <1>1, <1>2 DEF Asks
<1>4. n \notin Asks(s, a)
  BY <1>2 DEF Asks
<1>5. IsFiniteSet(Asks(s, a)) /\ Cardinality(Asks(s, a)) \in Nat
  BY AsksFinite
<1> HIDE DEF n
<1>6. CASE b.kind = "confirm" /\ b.addr = a
  BY <1>1, <1>3, <1>4, <1>5, <1>6, FS_AddElement
<1>7. CASE ~(b.kind = "confirm" /\ b.addr = a)
  <2>1. Asks(Append(s, b), a) = Asks(s, a)
    BY <1>3, <1>7
  <2> QED BY <1>1, <1>5, <1>7, <2>1
<1> QED BY <1>6, <1>7

\* The innermost box is closed, or shows something else: a question is gone if
\* it was one
LEMMA AsksGone ==
  ASSUME NEW s \in Seq(Boxes), s # <<>>, NEW t \in Seq(Boxes), NEW a,
         \/ t = Front(s)
         \/ \E kind \in {"publish", "told", "sent", "confirmed"} : t = [s EXCEPT ![Len(s)].kind = kind]
  PROVE  Cardinality(Asks(t, a)) =
           Cardinality(Asks(s, a)) -
             (IF s[Len(s)].kind = "confirm" /\ s[Len(s)].addr = a THEN 1 ELSE 0)
<1>1. DOMAIN s = 1..Len(s) /\ Len(s) \in Nat \ {0} /\ s \in [1..Len(s) -> Boxes]
  BY LenProperties, EmptySeq
<1>2. Asks(t, a) = Asks(s, a) \ {Len(s)}
  <2>1. CASE t = Front(s)
    <3>1. DOMAIN t = 1..(Len(s) - 1) /\ \A k \in 1..(Len(s) - 1) : t[k] = s[k]
      BY <1>1, <2>1 DEF Front
    <3> DEFINE n == Len(s)
    <3>2. \A k : k \in 1..(n - 1) <=> k \in 1..n /\ k # n
      <4> n \in Nat \ {0}
        BY <1>1
      <4> HIDE DEF n
      <4> QED OBVIOUS
    <3>3. \A k \in DOMAIN t : t[k] = s[k]
      BY <1>1, <3>1
    <3>4. \A k : k \in DOMAIN t <=> k \in DOMAIN s /\ k # n
      BY <1>1, <3>1, <3>2
    <3> HIDE DEF n
    <3>5. Asks(t, a) = Asks(s, a) \ {n}
      BY <3>3, <3>4 DEF Asks
    <3> QED BY <3>5 DEF n
  <2>2. ASSUME NEW kind \in {"publish", "told", "sent", "confirmed"}, t = [s EXCEPT ![Len(s)].kind = kind]
        PROVE  Asks(t, a) = Asks(s, a) \ {Len(s)}
    <3>1. DOMAIN t = DOMAIN s /\ \A k \in DOMAIN s : k # Len(s) => t[k] = s[k]
      BY <1>1, <2>2
    <3>2. Len(s) \in DOMAIN s /\ t[Len(s)].kind = kind
      BY <1>1, <2>2 DEF Boxes
    <3>3. \A k \in DOMAIN t : k \in Asks(t, a) <=> k \in Asks(s, a) /\ k # Len(s)
      BY <3>1, <3>2 DEF Asks
    <3> QED BY <3>1, <3>3 DEF Asks
  <2> QED BY <2>1, <2>2
<1>3. IsFiniteSet(Asks(s, a)) /\ Cardinality(Asks(s, a)) \in Nat
  BY AsksFinite
<1>4. CASE Len(s) \in Asks(s, a)
  <2>1. Cardinality(Asks(t, a)) = Cardinality(Asks(s, a)) - 1
    BY <1>2, <1>3, <1>4, FS_RemoveElement
  <2> QED BY <1>4, <2>1 DEF Asks
<1>5. CASE Len(s) \notin Asks(s, a)
  <2>1. Asks(t, a) = Asks(s, a)
    BY <1>2, <1>5
  <2>2. ~(s[Len(s)].kind = "confirm" /\ s[Len(s)].addr = a)
    BY <1>1, <1>5 DEF Asks
  <2> QED BY <1>3, <2>1, <2>2
<1> QED BY <1>4, <1>5

LEMMA BoxesOpen ==
  ASSUME BoxesType, boxes # <<>>
  PROVE  /\ Last(boxes) \in Boxes
         /\ Shut \in Seq(Boxes)
         /\ \A kind \in {"publish", "told", "sent", "confirmed"} : Instead(kind) \in Seq(Boxes)
<1>1. boxes \in Seq(Boxes) /\ Len(boxes) \in Nat \ {0} /\ boxes \in [1..Len(boxes) -> Boxes]
  BY LenProperties, EmptySeq DEF BoxesType
<1>2. Last(boxes) \in Boxes
  BY <1>1 DEF Last
<1>3. Shut \in Seq(Boxes)
  BY <1>1 DEF Shut, Front
<1>4. ASSUME NEW kind \in {"publish", "told", "sent", "confirmed"}
      PROVE  Instead(kind) \in Seq(Boxes)
  <2>1. Instead(kind) \in [1..Len(boxes) -> Boxes]
    BY <1>1 DEF Instead, Boxes
  <2> QED BY <1>1, <2>1, IsASeq
<1> QED BY <1>2, <1>3, <1>4

\* A step that opens and closes no box and reads nothing
LEMMA AccountStays ==
  ASSUME ConfirmInv, UNCHANGED <<boxes, cache, inbox, requests, read, answers>>
  PROVE  ConfirmInv'
<1>1. BoxesType'
  BY DEF ConfirmInv, BoxesType
<1>2. \A a \in Addresses : Asks(boxes', a) = Asks(boxes, a) /\ Cached(a)' = Cached(a)
  BY DEF Cached
<1>3. Accounted'
  BY <1>2 DEF ConfirmInv, Accounted, Cached
<1> QED BY <1>1, <1>3 DEF ConfirmInv

\* A box is closed, or tells something else, and what it asked is answered
\* once at the most
LEMMA BoxShut ==
  ASSUME ConfirmInv, boxes # <<>>, UNCHANGED <<cache, read>>,
         inbox' \in [Addresses -> SUBSET Nat], requests' \in [Addresses -> Nat],
         \/ boxes' = Shut
         \/ \E kind \in {"publish", "told", "sent", "confirmed"} : boxes' = Instead(kind),
         \/ answers' = answers
         \/ Open("confirm") /\ answers' = [answers EXCEPT ![Last(boxes).addr] = @ + 1]
  PROVE  ConfirmInv'
<1>1. boxes' \in Seq(Boxes) /\ Last(boxes) \in Boxes
  BY BoxesOpen DEF ConfirmInv
<1>2. answers' \in [Addresses -> Nat]
  <2>1. answers \in [Addresses -> Nat]
    BY DEF ConfirmInv, BoxesType
  <2>2. Last(boxes).addr \in Addresses
    BY <1>1 DEF Boxes
  <2>3. answers[Last(boxes).addr] + 1 \in Nat
    BY <2>1, <2>2
  <2> QED BY <2>1, <2>2, <2>3
<1>3. BoxesType'
  BY <1>1, <1>2 DEF ConfirmInv, BoxesType
<1>4. ASSUME NEW a \in Addresses
      PROVE  answers'[a] + Cached(a)' + Cardinality(Asks(boxes', a)) <= read'[a]
  <2> DEFINE gone == IF Last(boxes).kind = "confirm" /\ Last(boxes).addr = a THEN 1 ELSE 0
  <2>1. Cardinality(Asks(boxes', a)) = Cardinality(Asks(boxes, a)) - gone
    BY <1>1, AsksGone DEF ConfirmInv, BoxesType, Shut, Instead, Last
  <2>2. answers'[a] \in {answers[a], answers[a] + gone}
    BY DEF Open, ConfirmInv, BoxesType
  <2>3. Cached(a)' = Cached(a) /\ Cached(a) \in Nat /\ read'[a] = read[a]
    BY DEF Cached
  <2>4. Cardinality(Asks(boxes, a)) \in Nat /\ answers[a] \in Nat /\ read[a] \in Nat
    BY AsksFinite DEF ConfirmInv, BoxesType
  <2>5. answers[a] + Cached(a) + Cardinality(Asks(boxes, a)) <= read[a]
    BY DEF ConfirmInv, Accounted
  <2>6. gone \in {0, 1}
    OBVIOUS
  <2> HIDE DEF gone
  <2> QED BY <2>1, <2>2, <2>3, <2>4, <2>5, <2>6
<1>5. Accounted'
  BY <1>4 DEF Accounted
<1> QED BY <1>3, <1>5 DEF ConfirmInv

LEMMA AnswerAccounted ==
  ASSUME ConfirmInv, Answer
  PROVE  ConfirmInv'
<1>1. inbox \in [Addresses -> SUBSET Nat] /\ requests \in [Addresses -> Nat]
  BY DEF ConfirmInv, BoxesType
<1>2. boxes # <<>>
  BY DEF Answer, Refuse, Publish, Request, Sent, Told, Decline, Confirm, Confirmed, Open
<1>3. CASE Refuse \/ Publish \/ Sent \/ Told \/ Decline
  BY <1>1, <1>2, <1>3, BoxShut DEF Refuse, Publish, Sent, Told, Decline, world
<1>4. CASE Request
  <2>1. requests' \in [Addresses -> Nat]
    BY <1>1, <1>4 DEF Request
  <2> QED BY <1>1, <1>2, <1>4, <2>1, BoxShut DEF Request
<1>5. CASE Confirm
  <2>1. inbox' \in [Addresses -> SUBSET Nat]
    BY <1>1, <1>5 DEF Confirm, Answered
  <2> QED BY <1>1, <1>2, <1>5, <2>1, BoxShut DEF Confirm, Answered
<1>6. CASE Confirmed
  <2>1. inbox' \in [Addresses -> SUBSET Nat]
    BY <1>1, <1>6 DEF Confirmed, Answered
  <2> QED BY <1>1, <1>2, <1>6, <2>1, BoxShut DEF Confirmed, Answered
<1> QED BY <1>3, <1>4, <1>5, <1>6 DEF Answer

\* get_cached_confirmation takes out what the new box asks
LEMMA NotifyAccounted ==
  ASSUME ConfirmInv, NEW a \in Addresses, Notify(a)
  PROVE  ConfirmInv'
<1> USE DEF ConfirmInv, BoxesType
<1>1. UNCHANGED <<inbox, requests, read, answers>>
  BY DEF Notify, world
<1>2. CASE UNCHANGED <<cache, boxes>>
  BY <1>1, <1>2, AccountStays
<1>3. CASE Taken(a) /\ UNCHANGED boxes
  <2>1. cache' \in [Addresses -> Nat] /\ \A b \in Addresses : Cached(b)' <= Cached(b)
    BY <1>3 DEF Taken, None, Cached
  <2>2. \A b \in Addresses : Cached(b) \in Nat /\ Cached(b)' \in Nat
    BY DEF Cached
  <2>3. \A b \in Addresses : Cardinality(Asks(boxes, b)) \in Nat
    BY AsksFinite
  <2>4. ASSUME NEW b \in Addresses
        PROVE  answers'[b] + Cached(b)' + Cardinality(Asks(boxes', b)) <= read'[b]
    <3>1. answers[b] + Cached(b) + Cardinality(Asks(boxes, b)) <= read[b]
      BY DEF Accounted
    <3>2. answers'[b] = answers[b] /\ read'[b] = read[b] /\ boxes' = boxes
      BY <1>1, <1>3
    <3>3. answers[b] \in Nat /\ read[b] \in Nat
      OBVIOUS
    <3>4. Cached(b)' <= Cached(b)
      BY <2>1
    <3>5. \A n, c, d, k, r \in Nat : n + c + k <= r /\ d <= c => n + d + k <= r
      OBVIOUS
    <3>6. answers[b] + Cached(b)' + Cardinality(Asks(boxes, b)) <= read[b]
      BY <2>2, <2>3, <3>1, <3>3, <3>4, <3>5
    <3> QED BY <3>2, <3>6
  <2>5. Accounted'
    BY <2>4 DEF Accounted
  <2> QED BY <1>1, <1>3, <2>1, <2>5
<1>4. ASSUME NEW b \in Boxes, b.addr = a, boxes' = Append(boxes, b),
             \/ b.kind = "offer" /\ UNCHANGED cache
             \/ b.kind = "confirm" /\ Taken(a) /\ cache[a] # None
      PROVE  ConfirmInv'
  <2>0. cache' \in [Addresses -> Nat]
    BY <1>4 DEF Taken, None
  <2>1. boxes' \in Seq(Boxes)
    BY <1>4, AppendProperties
  <2>2. ASSUME NEW c \in Addresses
        PROVE  answers'[c] + Cached(c)' + Cardinality(Asks(boxes', c)) <= read'[c]
    <3> DEFINE new == IF b.kind = "confirm" /\ b.addr = c THEN 1 ELSE 0
    <3>1. Cardinality(Asks(boxes', c)) = Cardinality(Asks(boxes, c)) + new
      BY <1>4, AsksPushed
    <3>2. Cached(c)' = Cached(c) - new
      BY <1>4 DEF Taken, Cached, None
    <3>3. Cardinality(Asks(boxes, c)) \in Nat /\ Cached(c) \in Nat /\ new \in {0, 1}
      BY AsksFinite DEF Cached
    <3>4. answers[c] + Cached(c) + Cardinality(Asks(boxes, c)) <= read[c]
      BY DEF Accounted
    <3> HIDE DEF new
    <3> QED BY <1>1, <3>1, <3>2, <3>3, <3>4
  <2>3. Accounted'
    BY <2>2 DEF Accounted
  <2> QED BY <1>1, <2>0, <2>1, <2>3
<1>5. CASE boxes' = Box("offer", a, None) /\ UNCHANGED cache
  BY <1>4, <1>5 DEF Box, Boxes, None
<1>6. CASE boxes' = Box("confirm", a, cache[a]) /\ Taken(a) /\ cache[a] # None
  BY <1>4, <1>6 DEF Box, Boxes
<1> QED BY <1>2, <1>3, <1>5, <1>6 DEF Notify

\* handle_confirmation_read: one more was read, at most one more is cached
LEMMA ReadAccounted ==
  ASSUME ConfirmInv, NEW a \in Addresses, Read(a)
  PROVE  ConfirmInv'
<1> USE DEF ConfirmInv, BoxesType
<1>1. PICK n \in inbox[a] : cache' = [cache EXCEPT ![a] = IF @ = None THEN n ELSE @]
  BY DEF Read
<1>2. /\ UNCHANGED <<boxes, inbox, requests, answers>>
      /\ read' = [read EXCEPT ![a] = @ + 1]
  BY DEF Read
<1>3. n \in Nat /\ cache' \in [Addresses -> Nat]
  BY <1>1
<1>4. ASSUME NEW b \in Addresses
      PROVE  answers'[b] + Cached(b)' + Cardinality(Asks(boxes', b)) <= read'[b]
  <2>1. Cached(b) \in {0, 1} /\ Cached(b)' \in {0, 1} /\ (b # a => Cached(b)' = Cached(b))
    BY <1>1 DEF Cached
  <2>2. Cardinality(Asks(boxes, b)) \in Nat
    BY AsksFinite
  <2>3. answers[b] + Cached(b) + Cardinality(Asks(boxes, b)) <= read[b]
    BY DEF Accounted
  <2> QED BY <1>2, <2>1, <2>2, <2>3
<1>5. Accounted'
  BY <1>4 DEF Accounted
<1>6. read' \in [Addresses -> Nat]
  BY <1>2
<1> QED BY <1>2, <1>3, <1>5, <1>6

\* After a restart nobody remembers what was read and not answered
LEMMA RestartAccounted ==
  ASSUME ConfirmInv, Restart
  PROVE  ConfirmInv'
<1> USE DEF ConfirmInv, BoxesType
<1>1. /\ cache' = [a \in Addresses |-> None] /\ boxes' = <<>>
      /\ UNCHANGED <<inbox, requests, read, answers>>
  BY DEF Restart, world
<1>2. boxes' \in Seq(Boxes) /\ cache' \in [Addresses -> Nat]
  BY <1>1, EmptySeq DEF None
<1>3. ASSUME NEW a \in Addresses
      PROVE  answers'[a] + Cached(a)' + Cardinality(Asks(boxes', a)) <= read'[a]
  <2>1. Asks(boxes', a) = {}
    BY <1>1 DEF Asks
  <2>2. Cardinality(Asks(boxes', a)) = 0 /\ Cached(a)' = 0
    BY <1>1, <2>1, FS_EmptySet DEF Cached
  <2>3. Cardinality(Asks(boxes, a)) \in Nat /\ Cached(a) \in Nat
    BY AsksFinite DEF Cached
  <2>4. answers[a] + Cached(a) + Cardinality(Asks(boxes, a)) <= read[a]
    BY DEF Accounted
  <2> QED BY <1>1, <2>2, <2>3, <2>4
<1>4. Accounted'
  BY <1>3 DEF Accounted
<1> QED BY <1>1, <1>2, <1>4

LEMMA ConfirmInit ==
  ASSUME Init
  PROVE  ConfirmInv
<1>1. BoxesType
  BY EmptySeq DEF Init, BoxesType, None
<1>2. ASSUME NEW a \in Addresses
      PROVE  answers[a] + Cached(a) + Cardinality(Asks(boxes, a)) <= read[a]
  <2>1. Asks(boxes, a) = {}
    BY DEF Init, Asks
  <2>2. Cardinality(Asks(boxes, a)) = 0
    BY <2>1, FS_EmptySet
  <2>3. answers[a] = 0 /\ read[a] = 0 /\ Cached(a) = 0
    BY DEF Init, Cached
  <2> QED BY <2>2, <2>3
<1> QED BY <1>1, <1>2 DEF ConfirmInv, Accounted

LEMMA ConfirmStep ==
  ASSUME ConfirmInv, [Next]_vars
  PROVE  ConfirmInv'
<1>1. CASE UNCHANGED vars
  BY <1>1, AccountStays DEF vars, world
<1>2. CASE Next
  <2>1. CASE Sends \/ UISaves \/ Week \/ \E i \in 1..MaxChecks : Check(i)
    <3>1. UNCHANGED <<boxes, cache, inbox, requests, read, answers>>
      BY <2>1
      DEF Sends, Send, UISaves, Week, Check, Ask, Found, LastChecked, CheckSaves, CheckFails, world
    <3> QED BY <3>1, AccountStays
  <2>2. ASSUME NEW a \in Addresses, Reply(a) PROVE ConfirmInv'
    <3>1. inbox' \in [Addresses -> SUBSET Nat]
      BY <2>2 DEF Reply, ConfirmInv, BoxesType
    <3>2. UNCHANGED <<boxes, cache, requests, read, answers>>
      BY <2>2 DEF Reply
    <3> QED BY <3>1, <3>2 DEF ConfirmInv, BoxesType, Accounted, Cached
  <2>3. ASSUME NEW a \in Addresses, Published(a) PROVE ConfirmInv'
    BY <2>3, AccountStays DEF Published
  <2> QED BY <1>2, <2>1, <2>2, <2>3, AnswerAccounted, NotifyAccounted, ReadAccounted,
             RestartAccounted DEF Next
<1> QED BY <1>1, <1>2

\* A confirmation that was read is answered at most once, however many boxes
\* are open inside each other, whatever notices are handled inside of them and
\* whenever Outlook ends (get_cached_confirmation).
THEOREM AnsweredOnce == Spec => []ConfirmedOnce
<1>1. Init => ConfirmInv
  BY ConfirmInit
<1>2. ConfirmInv /\ [Next]_vars => ConfirmInv'
  BY ConfirmStep
<1>3. ConfirmInv => ConfirmedOnce
  <2> SUFFICES ASSUME ConfirmInv, NEW a \in Addresses PROVE answers[a] <= read[a]
    BY DEF ConfirmedOnce
  <2>1. Cardinality(Asks(boxes, a)) \in Nat /\ Cached(a) \in Nat
    BY AsksFinite DEF ConfirmInv, BoxesType, Cached
  <2> QED BY <2>1 DEF ConfirmInv, BoxesType, Accounted
<1> QED BY <1>1, <1>2, <1>3, PTL DEF Spec
=============================================================================
