------------------------------ MODULE KeyCache ------------------------------
(***************************************************************************)
(* The cache of keys (keycache.cpp) and the mail that waits for them       *)
(* (Mail::locateKeys_o, the locate count and auto secure of mail.cpp).     *)
(*                                                                         *)
(* Every thread runs a list of operations; an operation that takes a       *)
(* second lock while it holds one is split there. Locks are recursive. A   *)
(* lock that is only held within one operation is not shown as held.       *)
(*                                                                         *)
(* External: GnuPG, with the keys it has (`ring`) and finds in the net.    *)
(***************************************************************************)
EXTENDS AddressBook, FiniteSets

CONSTANTS
  Addrs,        \* addresses; Sender is one of them
  Sender,
  KeyInfo,      \* key -> [proto, addr, secret, sign, good, validity, created]
  Net,          \* keys that can be found outside
  Opts,         \* the options: [smime, preferSmime, servers, untrusted]
  Scenes,       \* [book, known, locates, toggles, edits, populate, verify]: what is
                \* in the contacts, whether an earlier mail searched the sender's
                \* keys in vain, how often the user does what, who else runs
  MaxLocates,   \* how often the recipients change
  MaxImports,   \* imports per address
  MaxUpdates,   \* updates of one key at a time
  MaxToggles    \* how often the user chooses the protection

ASSUME KeyAssumption ==
  /\ IsFiniteSet(DOMAIN KeyInfo) /\ "null" \notin DOMAIN KeyInfo /\ "unknown" \notin DOMAIN KeyInfo
  /\ Net \subseteq DOMAIN KeyInfo
  /\ \A k \in DOMAIN KeyInfo : KeyInfo[k].proto \in {"pgp", "cms"}
  /\ IsFiniteSet(Addrs) /\ Sender \in Addrs /\ Contacts \subseteq Addrs
ASSUME SceneAssumption ==
  \A s \in Scenes : s.book \in Configurable /\ s.verify \in DOMAIN KeyInfo \cup {"null"}
ASSUME LimitAssumption == MaxImports \in Nat /\ MaxUpdates \in Nat

VARIABLES
  prog,         \* thread -> what it still does
  lock,         \* keycache_lock, fpr_map_lock, dtor_lock -> who holds it
  ring,
  keyMap, skeyMap,        \* m_pgp_key_map and m_smime_key_map, and the secret ones
  fprMap,                 \* m_fpr_map: key -> "absent", "public" or "secret"
  overrides, importJobs, updateJobs,
  recips, cached,         \* of the item, and as of updateOOMData_o
  open, count,            \* whether the Mail exists, m_locate_count
  manual, first, flags,   \* m_manual_crypto_opts, m_first_autosecure_check, draft flags
  posted,                 \* answers on their way to the UI thread, in any order
  locates, toggles, imports,
  unseen,       \* ghost: addresses with results that no check came after
  missed,       \* ghost: keys that a reader waited for in vain
  failed,       \* ghost: keys of which a listing brought nothing
  overruled     \* ghost: auto secure changed what the user had chosen

cacheVars == <<keyMap, skeyMap, fprMap, overrides, importJobs, updateJobs>>
mailVars  == <<recips, cached, open, manual, first, flags, posted, overruled>>
bounds    == <<locates, toggles, imports>>
ghosts    == <<unseen, missed, failed>>
vars == <<bookVars, prog, lock, ring, cacheVars, mailVars, count, bounds, ghosts>>

Keys   == DOMAIN KeyInfo
Protos == {"pgp", "cms"}
NoKey  == "null"      \* a key object that is null
Unseen == "unknown"   \* no entry in a map

UI       == <<"ui">>
Populate == <<"populate">>
Verify   == <<"verify">>
Locators == { <<"locate", a>> : a \in Addrs } \cup { <<"secret", Sender>> }
Importers == { <<"import", a, n>> : a \in Contacts, n \in 1..MaxImports }
Updaters  == { <<"update", k, n>> : k \in Keys, n \in 1..MaxUpdates }
Threads   == {UI, Populate, Verify} \cup Locators \cup Importers \cup Updaters
Nobody    == <<"nobody">>

\* An operation: its name, and the address, key and protocol it is about
Op(op, a, k, p) == [op |-> op, a |-> a, k |-> k, p |-> p]
Is(t, op)  == prog[t] # <<>> /\ prog[t][1].op = op
It(t)      == prog[t][1]
Then(t, ops) == prog' = [prog EXCEPT ![t] = ops \o Tail(@)]
Leave      == Op("leave", "", NoKey, "")

Free(t, l)  == lock[l] \in {Nobody, t}
Take(t, l)  == lock' = [lock EXCEPT ![l] = t]
\* Whoever leaves a critical section frees it, its owner or not
Give(l)     == lock' = [lock EXCEPT ![l] = Nobody]

\* The first call of onUpdateJobDone, and the second when the first is done
ToInsert(k, how) == Op("insert", "", k, how)
InsertDone(k)    == <<Op("jobdone", "", k, "")>>

\* do_populate: the public keys of OpenPGP, then the secret ones; S/MIME alike
Listing(p) == LET ks == SetToSeq({ k \in ring : KeyInfo[k].proto = p })
                  sec == SetToSeq({ k \in ring : KeyInfo[k].proto = p /\ KeyInfo[k].secret })
              IN [i \in DOMAIN ks |-> ToInsert(ks[i], "public")]
                 \o [i \in DOMAIN sec |-> ToInsert(sec[i], "secret")]
Populating == Listing("pgp") \o (IF Opts.smime THEN Listing("cms") ELSE <<>>)

\* n signatures of key k are verified: ParseController updates the key for
\* each of them, the mail reads it to show who signed
Verifying(k, n) == [i \in 1..n |-> Op("update", "", k, "")] \o <<Op("read", "", k, "")>>

Init ==
  /\ ring = Keys \ Net
  /\ \E s \in Scenes, n \in 1..MaxUpdates :
       /\ prog = [t \in Threads |-> CASE t = Populate /\ s.populate -> Populating
                                      [] t = Verify /\ s.verify # NoKey -> Verifying(s.verify, n)
                                      [] OTHER -> <<>>]
       /\ BookInit(s.book, s.edits)
       /\ LET known == IF s.known THEN {<<"pgp", Sender>>} ELSE {}
              searched == [e \in Protos \X Addrs |-> IF e \in known THEN NoKey ELSE Unseen]
          IN keyMap = searched /\ skeyMap = searched
       /\ locates = MaxLocates - s.locates /\ toggles = MaxToggles - s.toggles
  /\ lock = [l \in {"keycache", "fpr", "dtor"} |-> Nobody]
  /\ fprMap = [k \in Keys |-> "absent"]
  /\ overrides = [a \in Contacts |-> {}] /\ importJobs = {} /\ updateJobs = {}
  /\ recips = {} /\ cached = {} /\ open = TRUE /\ count = 0
  /\ manual = FALSE /\ first = TRUE /\ flags = 0
  /\ posted = [added |-> 0, do |-> 0, dont |-> 0] /\ overruled = FALSE
  /\ imports = [a \in Contacts |-> 0]
  /\ unseen = {} /\ missed = {} /\ failed = {}
-----------------------------------------------------------------------------
(* The maps.                                                               *)

CanSign(k) == KeyInfo[k].sign

\* compareSkeys: a key that can sign wins over one that cannot, else the newer
CompareSkeys(old, new) ==
  IF old \in {Unseen, NoKey} \/ old = new THEN new
  ELSE IF CanSign(old) # CanSign(new) THEN IF CanSign(old) THEN old ELSE new
  ELSE IF KeyInfo[old].created >= KeyInfo[new].created THEN old ELSE new

SetSkey(k) == LET e == <<KeyInfo[k].proto, KeyInfo[k].addr>>
              IN skeyMap' = [skeyMap EXCEPT ![e] = CompareSkeys(@, k)]

\* Mutant: the newer listing simply replaces the older one
Replaced(k, how) == how

\* insertOrUpdateInFprMap: what was known of the secret key is merged
Merged(k, how) == IF fprMap[k] = "secret" THEN "secret" ELSE how

\* Secret keys of a second listing also enter the map of signing keys
FillsSkeys(k, how) == fprMap[k] # "absent" /\ how = "secret" /\ KeyInfo[k].good

\* setPgpKey and setSmimeKey, up to the second lock
SetKey(t) ==
  /\ Is(t, "setkey") /\ Free(t, "keycache")
  /\ keyMap' = [keyMap EXCEPT ![<<It(t).p, It(t).a>>] = It(t).k]
  /\ Take(t, "keycache")
  /\ unseen' = unseen \cup {It(t).a}
  /\ Then(t, <<Op("underkey", "", It(t).k, "public")>>)
  /\ UNCHANGED <<bookVars, ring, skeyMap, fprMap, overrides, importJobs, updateJobs,
                 mailVars, count, bounds, missed, failed>>

\* setPgpKeySecret and setSmimeKeySecret of locate_secret
SetKeySecret(t) ==
  /\ Is(t, "setskey") /\ Free(t, "keycache")
  /\ SetSkey(It(t).k)
  /\ Take(t, "keycache")
  /\ unseen' = unseen \cup {It(t).a}
  /\ Then(t, <<Op("underkey", "", It(t).k, "secret")>>)
  /\ UNCHANGED <<bookVars, ring, keyMap, fprMap, overrides, importJobs, updateJobs,
                 mailVars, count, bounds, missed, failed>>

\* insertOrUpdateInFprMap, called with keycache_lock held
InsertUnderKeyLock(t) ==
  /\ Is(t, "underkey") /\ Free(t, "fpr")
  /\ fprMap' = [fprMap EXCEPT ![It(t).k] = Merged(It(t).k, It(t).p)]
  /\ IF FillsSkeys(It(t).k, It(t).p) THEN SetSkey(It(t).k) ELSE UNCHANGED skeyMap
  /\ Give("keycache")
  /\ Then(t, <<>>)
  /\ UNCHANGED <<bookVars, ring, keyMap, overrides, importJobs, updateJobs,
                 mailVars, count, bounds, ghosts>>

\* insertOrUpdateInFprMap of onUpdateJobDone: setPgpKeySecret comes with
\* fpr_map_lock held
Insert(t) ==
  /\ Is(t, "insert") /\ Free(t, "fpr")
  /\ IF FillsSkeys(It(t).k, It(t).p)
     THEN /\ Take(t, "fpr")
          /\ Then(t, <<Op("underfpr", "", It(t).k, It(t).p)>>)
          /\ UNCHANGED fprMap
     ELSE /\ fprMap' = [fprMap EXCEPT ![It(t).k] = Merged(It(t).k, It(t).p)]
          /\ Then(t, InsertDone(It(t).k))
          /\ UNCHANGED lock
  /\ UNCHANGED <<bookVars, ring, keyMap, skeyMap, overrides, importJobs, updateJobs,
                 mailVars, count, bounds, ghosts>>

InsertSkey(t) ==
  /\ Is(t, "underfpr") /\ Free(t, "keycache")
  /\ SetSkey(It(t).k)
  /\ fprMap' = [fprMap EXCEPT ![It(t).k] = Merged(It(t).k, It(t).p)]
  /\ Give("fpr")
  /\ Then(t, InsertDone(It(t).k))
  /\ UNCHANGED <<bookVars, ring, keyMap, overrides, importJobs, updateJobs,
                 mailVars, count, bounds, ghosts>>
-----------------------------------------------------------------------------
(* Updates of single keys and imports from contacts.                       *)

\* Mutant: the job is given up before its key is in the map
DoneFirst(k) == InsertDone(k) \o <<ToInsert(k, "public")>>

\* onUpdateJobDone with a key
Updated(k) == <<ToInsert(k, "public")>>

\* update: a job that is there already is no reason not to start another
Update(t) ==
  /\ Is(t, "update")
  /\ \E n \in 1..MaxUpdates :
       LET u == <<"update", It(t).k, n>>
       IN /\ prog[u] = <<>>
          /\ prog' = [prog EXCEPT ![t] = Tail(@), ![u] = <<Op("list", "", It(t).k, "")>>]
  /\ updateJobs' = updateJobs \cup {It(t).k}
  /\ UNCHANGED <<bookVars, lock, ring, keyMap, skeyMap, fprMap, overrides, importJobs,
                 mailVars, count, bounds, ghosts>>

\* do_update: GnuPG is asked for the key. Without a context, or when the
\* listing fails or finds nothing, the job is done with a null key
List(t) ==
  /\ Is(t, "list")
  /\ \/ /\ It(t).k \in ring
        /\ Then(t, Updated(It(t).k))
        /\ UNCHANGED failed
     \/ /\ Then(t, <<Op("jobdone", "", It(t).k, "")>>)
        /\ failed' = failed \cup {It(t).k}
  /\ UNCHANGED <<bookVars, lock, ring, cacheVars, mailVars, count, bounds, unseen, missed>>

\* onUpdateJobDone, under update_lock: whoever started the job
JobDone(t) ==
  /\ Is(t, "jobdone")
  /\ updateJobs' = updateJobs \ {It(t).k}
  /\ Then(t, <<>>)
  /\ UNCHANGED <<bookVars, lock, ring, keyMap, skeyMap, fprMap, overrides, importJobs,
                 mailVars, count, bounds, ghosts>>

\* getByFpr: a key that is not there is waited for, 30 seconds at most
Read(t) ==
  /\ Is(t, "read") /\ Free(t, "fpr")
  /\ Then(t, IF fprMap[It(t).k] = "absent" THEN <<Op("await", "", It(t).k, "")>> ELSE <<>>)
  /\ UNCHANGED <<bookVars, lock, ring, cacheVars, mailVars, count, bounds, ghosts>>

Await(t) ==
  /\ Is(t, "await") /\ Free(t, "fpr")
  /\ \/ /\ It(t).k \notin updateJobs
        /\ missed' = missed \cup { k \in {It(t).k} : fprMap[k] = "absent" }
     \/ /\ It(t).k \in updateJobs
        /\ UNCHANGED missed
  /\ Then(t, <<>>)
  /\ UNCHANGED <<bookVars, lock, ring, cacheVars, mailVars, count, bounds, unseen, failed>>

\* importFromAddrBook: an import of the address that runs is no reason not to
\* start another; LocateArgs counts it
ImportFromAddrBook(t) ==
  /\ Is(t, "mark")
  /\ LET a == It(t).a
     IN /\ importJobs' = importJobs \cup {a}
        /\ imports' = [imports EXCEPT ![a] = @ + 1]
        /\ Then(t, <<Op("ctor", a, contact[a], "import")>>)
  /\ UNCHANGED <<bookVars, lock, ring, keyMap, skeyMap, fprMap, overrides, updateJobs,
                 mailVars, count, locates, toggles, ghosts>>

\* do_import: what is no key leaves the mark of the import behind
Import(t) ==
  /\ Is(t, "import")
  /\ IF It(t).k \notin Keys
     THEN /\ Then(t, <<>>) /\ UNCHANGED ring
     ELSE \/ /\ ring' = ring \cup {It(t).k}
             /\ Then(t, <<Op("list", "", It(t).k, ""), Op("override", It(t).a, It(t).k, "")>>)
          \/ /\ Then(t, <<Op("override", It(t).a, NoKey, "")>>)
             /\ UNCHANGED ring
  /\ UNCHANGED <<bookVars, lock, cacheVars, mailVars, count, bounds, ghosts>>

\* onAddrBookImportJobDone, under keycache_lock and then under import_lock
SetOverride(t) ==
  /\ Is(t, "override") /\ Free(t, "keycache")
  /\ overrides' = [overrides EXCEPT ![It(t).a] = {It(t).k} \ {NoKey}]
  /\ unseen' = unseen \cup {It(t).a}
  /\ Then(t, <<Op("unmark", It(t).a, NoKey, "")>>)
  /\ UNCHANGED <<bookVars, lock, ring, keyMap, skeyMap, fprMap, importJobs, updateJobs,
                 mailVars, count, bounds, missed, failed>>

Unmark(t) ==
  /\ Is(t, "unmark")
  /\ importJobs' = importJobs \ {It(t).a}
  /\ Then(t, <<>>)
  /\ UNCHANGED <<bookVars, lock, ring, keyMap, skeyMap, fprMap, overrides, updateJobs,
                 mailVars, count, bounds, ghosts>>
-----------------------------------------------------------------------------
(* Threads that search the keys of an address. LocateArgs counts them, and *)
(* the imports, in the mail they search for.                               *)

KeysOf(a, p, from) == { k \in from : KeyInfo[k].addr = a /\ KeyInfo[k].proto = p }
GoodCerts(a, from) == { k \in KeysOf(a, "cms", from) : KeyInfo[k].good }

\* do_locate for OpenPGP: GnuPG may search outside, and may fail to
Locate(t) ==
  /\ Is(t, "locate")
  /\ \E k \in KeysOf(It(t).a, "pgp", ring \cup Net) \cup {NoKey} :
       /\ (k \notin ring => KeysOf(It(t).a, "pgp", ring) = {})
       /\ ring' = ring \cup ({k} \ {NoKey})
       /\ Then(t, (IF k = NoKey THEN <<>> ELSE <<Op("setkey", It(t).a, k, "pgp")>>)
                  \o (IF Opts.smime THEN <<Op("certs", It(t).a, k, "")>> ELSE <<>>))
  /\ UNCHANGED <<bookVars, lock, cacheVars, mailVars, count, bounds, ghosts>>

\* do_locate for S/MIME: a certificate that is here, else what servers have
Certs(t) ==
  /\ Is(t, "certs")
  /\ LET a == It(t).a
         here == GoodCerts(a, ring)
         extern == Opts.servers /\ (It(t).k = NoKey \/ Opts.preferSmime)
     IN \/ /\ here # {} /\ UNCHANGED ring
           /\ \E k \in here : Then(t, <<Op("setkey", a, k, "cms")>>)
        \/ /\ here = {} /\ extern
           /\ \/ Then(t, <<>>) /\ UNCHANGED ring
              \/ /\ ring' = ring \cup KeysOf(a, "cms", Net)
                 /\ \E k \in GoodCerts(a, Net) : Then(t, <<Op("setkey", a, k, "cms")>>)
        \/ /\ here = {} /\ ~extern
           /\ Then(t, <<>>) /\ UNCHANGED ring
  /\ UNCHANGED <<bookVars, lock, cacheVars, mailVars, count, bounds, ghosts>>

\* locate_secret: the first valid secret key of the protocol
LocateSecret(t) ==
  /\ Is(t, "secret")
  /\ LET found == { k \in KeysOf(It(t).a, It(t).p, ring) : KeyInfo[k].secret /\ KeyInfo[k].good }
     IN \/ found = {} /\ Then(t, <<>>)
        \/ \E k \in found : Then(t, <<Op("setskey", It(t).a, k, It(t).p)>>)
  /\ UNCHANGED <<bookVars, lock, ring, cacheVars, mailVars, count, bounds, ghosts>>

\* Mutant: an import is not counted
JoinedUnlessImport(how) == IF how = "import" THEN count ELSE count + 1

\* incrementLocateCount
Joined(how) == count + 1

\* Mutant: the check is started by whoever leaves, except the last
LastOfTwo(n) == n = 1

\* decrementLocateCount: who leaves last, checks
IsLast(n) == n <= 0

NewThread(a, k, how) == CASE how = "import" -> <<"import", a, imports[a]>>
                          [] OTHER -> <<how, a>>
Work(a, k, how) ==
  (CASE how = "secret" -> <<Op("secret", a, k, "pgp")>>
                          \o (IF Opts.smime THEN <<Op("secret", a, k, "cms")>> ELSE <<>>)
     [] OTHER -> <<Op(how, a, k, how)>>)
  \o <<Leave>>

\* The constructor of LocateArgs and the start of the thread, with
\* keycache_lock held by startLocate and startLocateSecret
StartThread ==
  /\ Is(UI, "ctor") /\ Free(UI, "dtor")
  /\ count' = IF open THEN Joined(It(UI).p) ELSE count
  /\ prog' = [prog EXCEPT ![UI] = Tail(@),
                          ![NewThread(It(UI).a, It(UI).k, It(UI).p)] = Work(It(UI).a, It(UI).k, It(UI).p)]
  /\ IF lock["keycache"] = UI THEN Give("keycache") ELSE UNCHANGED lock
  /\ UNCHANGED <<bookVars, ring, cacheVars, mailVars, bounds, ghosts>>

\* startLocate and startLocateSecret: an address is searched once
StartLocate ==
  /\ Is(UI, "search") /\ Free(UI, "keycache")
  /\ LET a == It(UI).a
         e == <<"pgp", a>>
         secret == It(UI).p = "secret"
     IN IF (IF secret THEN skeyMap[e] ELSE keyMap[e]) # Unseen
        THEN Then(UI, <<>>) /\ UNCHANGED <<keyMap, skeyMap, lock>>
        ELSE /\ Take(UI, "keycache")
             /\ Then(UI, <<Op("ctor", a, NoKey, It(UI).p)>>)
             /\ IF secret THEN skeyMap' = [skeyMap EXCEPT ![e] = NoKey] /\ UNCHANGED keyMap
                          ELSE keyMap' = [keyMap EXCEPT ![e] = NoKey] /\ UNCHANGED skeyMap
  /\ UNCHANGED <<bookVars, ring, fprMap, overrides, importJobs, updateJobs,
                 mailVars, count, bounds, ghosts>>

\* autosecureCheck, called while the protection was not chosen by hand
Check == IF manual THEN <<>> ELSE <<Op("start", "", NoKey, "")>>

\* The destructor of LocateArgs, under dtor_lock
LeaveMail(t) ==
  /\ Is(t, "leave") /\ Free(t, "dtor")
  /\ count' = IF open /\ count > 0 THEN count - 1 ELSE count
  /\ IF open /\ IsLast(count - 1) /\ ~manual
     THEN Take(t, "dtor") /\ Then(t, Check \o <<Op("freedtor", "", NoKey, "")>>)
     ELSE Then(t, <<>>) /\ UNCHANGED lock
  /\ UNCHANGED <<bookVars, ring, cacheVars, mailVars, bounds, ghosts>>

FreeDtor(t) ==
  /\ Is(t, "freedtor")
  /\ Give("dtor")
  /\ Then(t, <<>>)
  /\ UNCHANGED <<bookVars, ring, cacheVars, mailVars, count, bounds, ghosts>>
-----------------------------------------------------------------------------
(* autosecureCheck and isMailResolvable: are there keys for everybody?     *)

\* getSigningKey
SigningKey(p) == LET k == skeyMap[<<p, Sender>>]
                 IN k \in Keys /\ CanSign(k) /\ KeyInfo[k].secret

\* getEncryptionKeys: a key of the cache has to be valid and trusted
ValidEnough(k) == /\ k \in Keys /\ KeyInfo[k].good
                  /\ \/ KeyInfo[k].validity = "marginal"
                     \/ Opts.untrusted /\ KeyInfo[k].validity = "unknown"

ToMessage(yes) == posted' = [posted EXCEPT ![IF yes THEN "do" ELSE "dont"] = @ + 1]

\* The signing key, then the recipients one by one. While others are counted
\* nobody is asked; nobody is asked either without recipients
CheckStart(t) ==
  /\ Is(t, "start")
  /\ IF count # 0
     THEN Then(t, <<>>) /\ UNCHANGED <<posted, unseen>>
     ELSE /\ unseen' = {}
          /\ IF cached = {}
             THEN Then(t, <<>>) /\ ToMessage(FALSE)
             ELSE LET as == SetToSeq(cached)
                      yes == Opts.preferSmime => SigningKey("pgp")
                  IN /\ Then(t, [i \in DOMAIN as |-> Op("ask", as[i], NoKey, "")]
                               \o <<Op("verdict", "", IF yes THEN "yes" ELSE "no", "")>>)
                     /\ UNCHANGED posted
  /\ UNCHANGED <<bookVars, lock, ring, cacheVars, recips, cached, open, manual, first, flags,
                 overruled, count, bounds, missed, failed>>

\* getOverrides: waits for an import of the address, 10 seconds at most, and
\* gives back keycache_lock, which it did not take: undefined, the lock of
\* another thread may be gone
Ask(t) ==
  /\ Is(t, "ask")
  /\ IF It(t).a \in Contacts /\ \E k \in overrides[It(t).a] : fprMap[k] # "absent"
     THEN Free(t, "fpr") /\ Then(t, <<>>)
     ELSE Then(t, <<Op("key", It(t).a, NoKey, "")>>)
  /\ lock' \in {lock, [lock EXCEPT !["keycache"] = Nobody]}
  /\ UNCHANGED <<bookVars, ring, cacheVars, mailVars, count, bounds, ghosts>>

\* getKey and what getEncryptionKeys asks of it: one that fails ends the list
AskKey(t) ==
  /\ Is(t, "key") /\ Free(t, "keycache")
  /\ IF ValidEnough(keyMap[<<"pgp", It(t).a>>])
     THEN Then(t, <<>>)
     ELSE LET n == CHOOSE i \in DOMAIN prog[t] : prog[t][i].op = "verdict"
          IN prog' = [prog EXCEPT ![t] =
                        <<Op("verdict", "", "no", "")>> \o SubSeq(@, n + 1, Len(@))]
  /\ UNCHANGED <<bookVars, lock, ring, cacheVars, mailVars, count, bounds, ghosts>>

\* The answer for OpenPGP, or that for S/MIME, which includes the sender
Verdict(t) ==
  /\ Is(t, "verdict") /\ Free(t, "keycache")
  /\ ToMessage(\/ It(t).k = "yes"
               \/ /\ Opts.smime /\ SigningKey("cms")
                  /\ \A a \in cached \cup {Sender} : ValidEnough(keyMap[<<"cms", a>>]))
  /\ Then(t, <<>>)
  /\ UNCHANGED <<bookVars, lock, ring, cacheVars, recips, cached, open, manual, first, flags,
                 overruled, count, bounds, ghosts>>
-----------------------------------------------------------------------------
(* The UI thread.                                                          *)

Idle == prog[UI] = <<>>
LocateKeys == <<Op("resolve", "", NoKey, "")>>

\* PropertyChange of the mail: the message follows 100 ms later
ChangeRecipients ==
  /\ Idle \/ Is(UI, "resolve")
  /\ open /\ locates < MaxLocates
  /\ locates' = locates + 1
  /\ \E as \in SUBSET (Addrs \ {Sender}) : recips' = as
  /\ posted' = [posted EXCEPT !.added = @ + 1]
  /\ UNCHANGED <<bookVars, prog, lock, ring, cacheVars, cached, open, manual, first, flags,
                 overruled, count, toggles, imports, ghosts>>

\* RECIPIENT_ADDED: dropped while locateKeys_o is in the object model
RecipientAdded ==
  /\ Idle \/ Is(UI, "resolve")
  /\ posted.added > 0
  /\ posted' = [posted EXCEPT !.added = @ - 1]
  /\ prog' = [prog EXCEPT ![UI] = IF open /\ Idle THEN LocateKeys ELSE @]
  /\ UNCHANGED <<bookVars, lock, ring, cacheVars, recips, cached, open, manual, first, flags,
                 overruled, count, bounds, ghosts>>

\* Addressbook::check_o, and the start of the imports
CheckAddressBook ==
  /\ Is(UI, "resolve")
  /\ checked' = checked \cup ToCheck(recips)
  /\ LET as == SetToSeq({ a \in ToImport(recips) : imports[a] < MaxImports })
     IN Then(UI, [i \in DOMAIN as |-> Op("mark", as[i], NoKey, "")] \o <<Op("oomdata", "", NoKey, "")>>)
  /\ UNCHANGED <<contact, opened, editors, edits, lock, ring, cacheVars, mailVars, count, bounds, ghosts>>

\* updateOOMData_o, and then all that are to be searched, and the check
UpdateOOMData ==
  /\ Is(UI, "oomdata")
  /\ cached' = recips
  /\ LET as == <<Sender>> \o SetToSeq(recips)
     IN Then(UI, <<Op("search", Sender, NoKey, "secret")>>
                 \o [i \in DOMAIN as |-> Op("search", as[i], NoKey, "locate")]
                 \o Check)
  /\ UNCHANGED <<bookVars, lock, ring, cacheVars, recips, open, manual, first, flags, posted,
                 overruled, count, bounds, ghosts>>

\* setDoAutosecure_m, for DO_AUTO_SECURE and DONT_AUTO_SECURE, which threads
\* of their own bring: flags that were there before the first answer are the
\* user's
SetDoAutosecure(answer) ==
  /\ Idle /\ posted[answer] > 0
  /\ posted' = [posted EXCEPT ![answer] = @ - 1]
  /\ IF open
     THEN /\ first' = FALSE
          /\ IF flags # 0 /\ first
             THEN manual' = TRUE /\ UNCHANGED <<flags, overruled>>
             ELSE /\ flags' = IF answer = "do" THEN 3 ELSE 0
                  /\ overruled' = (overruled \/ (manual /\ flags' # flags))
                  /\ UNCHANGED manual
     ELSE UNCHANGED <<first, manual, flags, overruled>>
  /\ UNCHANGED <<bookVars, prog, lock, ring, cacheVars, recips, cached, open, count, bounds, ghosts>>

\* mark_mime_action of the ribbon
MarkMimeAction ==
  /\ Idle /\ open /\ toggles < MaxToggles
  /\ toggles' = toggles + 1
  /\ manual' = TRUE
  /\ flags' = IF flags = 3 THEN 0 ELSE 3
  /\ prog' = [prog EXCEPT ![UI] = IF flags' = 3 THEN LocateKeys ELSE <<>>]
  /\ UNCHANGED <<bookVars, lock, ring, cacheVars, recips, cached, open, first, posted, overruled,
                 count, locates, imports, ghosts>>

\* The destructor of Mail
CloseMail ==
  /\ Idle /\ open /\ Free(UI, "dtor")
  /\ open' = FALSE
  /\ UNCHANGED <<bookVars, prog, lock, ring, cacheVars, recips, cached, manual, first, flags,
                 posted, overruled, count, bounds, ghosts>>

\* The user edits keys of contacts meanwhile
EditContact ==
  /\ Idle
  /\ \E a \in Contacts : EditKey(a) \/ EditorClosed(a) \/ UpdateKey(a)
  /\ UNCHANGED <<prog, lock, ring, cacheVars, mailVars, count, bounds, ghosts>>
-----------------------------------------------------------------------------
ThreadStep(t) ==
  \/ SetKey(t) \/ SetKeySecret(t) \/ InsertUnderKeyLock(t) \/ Insert(t) \/ InsertSkey(t)
  \/ Update(t) \/ List(t) \/ JobDone(t) \/ Read(t) \/ Await(t)
  \/ Import(t) \/ SetOverride(t) \/ Unmark(t)
  \/ Locate(t) \/ Certs(t) \/ LocateSecret(t) \/ LeaveMail(t) \/ FreeDtor(t)
  \/ CheckStart(t) \/ Ask(t) \/ AskKey(t) \/ Verdict(t)

Next ==
  \/ \E t \in Threads : ThreadStep(t)
  \/ ImportFromAddrBook(UI) \/ StartThread \/ StartLocate
  \/ ChangeRecipients \/ RecipientAdded \/ CheckAddressBook \/ UpdateOOMData
  \/ MarkMimeAction \/ CloseMail \/ EditContact
  \/ \E answer \in {"do", "dont"} : SetDoAutosecure(answer)

Spec == Init /\ [][Next]_vars
-----------------------------------------------------------------------------
Counted(t) == prog[t] # <<>> /\ prog[t][Len(prog[t])] = Leave
Checking(t) == \E i \in DOMAIN prog[t] : prog[t][i].op = "start"
Locating == ~Idle /\ \E i \in DOMAIN prog[UI] :
              prog[UI][i].op \in {"resolve", "mark", "oomdata", "search", "ctor"}

\* The locate count of a mail is the number of threads that search keys for
\* it: the mismatch decrementLocateCount logs does not happen, whatever
\* searches, imports and ends of the mail overlap.
CountMatches == open => count = Cardinality({ t \in Threads : Counted(t) })

\* A result is not overlooked: when nobody searches for a mail any more and
\* its user chose nothing, a check whether it can be encrypted was made, or is
\* about to be made, after the last key for it was found.
NoResultUnseen ==
  open /\ count = 0 /\ ~manual /\ ~Locating /\ (\A t \in Threads : ~Checking(t))
    => unseen = {}

\* What is known of secret keys is kept: no listing of public keys, import,
\* search or update takes the secret part from a key in the cache, or
\* replaces the signing key of an address by one that cannot sign.
SecretKept ==
  [][/\ \A k \in Keys : fprMap[k] = "secret" => fprMap'[k] = "secret"
     /\ \A e \in DOMAIN skeyMap : skeyMap[e] \in Keys /\ CanSign(skeyMap[e])
          => skeyMap'[e] \in Keys /\ CanSign(skeyMap'[e])]_vars

\* Who waits for the update of a key gets the key, and a key imported for a
\* contact is in the cache when it becomes the contact's, unless GnuPG did not
\* give it when it was listed: the end of a job is reported after its result,
\* although jobs of the same key overlap and the first to end takes the mark
\* of the others. (A failed listing is not reported to anybody: the reader
\* finds nothing, and the contact has a key that the cache does not know.)
DoneMeansCached ==
  /\ missed \subseteq failed
  /\ \A a \in Contacts : \A k \in overrides[a] : fprMap[k] # "absent" \/ k \in failed

\* mail.cpp:4580, autosecureCheck: "As we are safe to call at any time".
\* A thread that checks, with dtor_lock held, never waits for the keycache of
\* a thread that waits for dtor_lock.
SafeAtAnyTime ==
  ~ \E t \in Threads :
       /\ lock["dtor"] = t /\ (Is(t, "key") \/ Is(t, "verdict"))
       /\ lock["keycache"] = UI /\ Is(UI, "ctor") /\ t # UI

\* mail.cpp:4601, setDoAutosecure_m: "so that autosecure can be disabled
\* manually". What the user chose on the ribbon is not changed by an answer.
ManualChoiceWins == ~overruled
=============================================================================
