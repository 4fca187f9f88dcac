--------------------------- MODULE KeyCache_proofs ---------------------------
(***************************************************************************)
(* Proofs about KeyCache: types, the count of the threads that search for  *)
(* a mail, results that are looked at, finished jobs and kept secret keys. *)
(***************************************************************************)
EXTENDS KeyCache, FiniteSetTheorems, TLAPS

(***************************************************************************)
(* Types. The operations of the threads are typed by what they are about.  *)
(***************************************************************************)

\* Operations of a key, and those that put one into the cache
AboutKey  == {"setkey", "setskey", "underkey", "insert", "underfpr", "update", "list",
              "jobdone", "read", "await"}
Inserting == {"underkey", "insert", "underfpr"}
\* Operations that search for an address
AboutAddr == {"setkey", "setskey", "locate", "certs", "secret", "search", "ask", "key"}
AboutContact == {"mark", "import", "override", "unmark"}
\* Operations that only the threads have that are counted, and only the UI
Searching == {"locate", "certs", "secret", "import", "setkey", "setskey", "underkey",
              "override", "unmark"}
Preparing == {"resolve", "mark", "oomdata", "search", "ctor"}
\* The check, and what follows its start
Answering == {"ask", "key", "verdict", "freedtor"}
Checks    == {"start"} \cup Answering
OpNames   == AboutKey \cup AboutAddr \cup AboutContact \cup Preparing \cup Checks \cup {"leave"}
Hows      == {"", "pgp", "cms", "public", "secret", "locate", "import"}

Fields == [op : OpNames, a : Addrs \cup {""}, k : Keys \cup Configurable \cup {NoKey, "", "yes", "no"},
           p : Hows]
\* What the constructor of LocateArgs is called for
Startable(o) == \/ o.p = "locate" /\ o.a \in Addrs /\ o.k = NoKey
                \/ o.p = "secret" /\ o.a = Sender /\ o.k = NoKey
                \/ o.p = "import" /\ o.a \in Contacts /\ o.k \in Configurable
Ops == { o \in Fields : /\ o.op \in AboutKey => o.k \in Keys
                        /\ o.op \in Inserting => o.p \in {"public", "secret"}
                        /\ o.op \in AboutAddr => o.a \in Addrs
                        /\ o.op \in AboutContact => o.a \in Contacts
                        /\ o.op = "override" => o.k \in Keys \cup {NoKey}
                        /\ o.op \in {"secret", "setkey", "setskey"} => o.p \in Protos
                        /\ o.op = "leave" => o = Leave
                        /\ o.op \in {"ctor", "search"} => Startable(o)
                        /\ o.op = "search" => o.p # "import" }

Entries == [Protos \X Addrs -> Keys \cup {NoKey, Unseen}]

CacheTypes ==
  /\ lock \in [{"keycache", "fpr", "dtor"} -> Threads \cup {Nobody}]
  /\ contact \in [Contacts -> Configurable]
  /\ ring \subseteq Keys /\ keyMap \in Entries /\ skeyMap \in Entries
  /\ fprMap \in [Keys -> {"absent", "public", "secret"}]
  /\ overrides \in [Contacts -> SUBSET Keys]
  /\ importJobs \subseteq Contacts /\ updateJobs \subseteq Keys
MailTypes ==
  /\ recips \subseteq Addrs /\ cached \subseteq Addrs
  /\ open \in BOOLEAN /\ count \in Nat
  /\ manual \in BOOLEAN /\ first \in BOOLEAN /\ flags \in {0, 3}
  /\ posted \in [added : Nat, do : Nat, dont : Nat]
  /\ imports \in [Contacts -> Nat]
  /\ unseen \subseteq Addrs /\ missed \subseteq Keys /\ failed \subseteq Keys /\ overruled \in BOOLEAN
TypeOK == prog \in [Threads -> Seq(Ops)] /\ CacheTypes /\ MailTypes

(***************************************************************************)
(* The order of the operations of a thread.                                *)
(***************************************************************************)

\* What a check does comes last, and does not start another check
ChecksLast(s) == \A i, j \in DOMAIN s :
                   s[i].op \in Checks /\ i < j => s[j].op \in Answering
\* Who asks for keys has an answer to give
AnswerComes(s) == \A i \in DOMAIN s : s[i].op \in {"ask", "key"} =>
                    \E j \in DOMAIN s : i < j /\ s[j].op = "verdict"
\* A thread leaves the mail last, after all it searched
LeavesLast(s) == /\ \A i \in DOMAIN s : s[i].op = "leave" => i = Len(s)
                 /\ \A i \in DOMAIN s : s[i].op \in Searching => s[Len(s)].op = "leave"
\* These are done at once, or nothing comes after them
AtOnce(s) == \A i \in DOMAIN s : /\ s[i].op \in {"ctor", "jobdone", "underfpr", "await"} => i = 1
                                 /\ s[i].op \in {"resolve", "oomdata"} => i = Len(s)
InOrder(s) == ChecksLast(s) /\ AnswerComes(s) /\ LeavesLast(s) /\ AtOnce(s)
Ordered == \A t \in Threads : InOrder(prog[t])
UIPrograms == \A i \in DOMAIN prog[UI] : prog[UI][i].op \in Preparing \cup Checks

(***************************************************************************)
(* Threads are started once.                                               *)
(***************************************************************************)

\* Marks are of different contacts, below the bound
MarksDistinct ==
  \A i \in DOMAIN prog[UI] : prog[UI][i].op = "mark" =>
    /\ imports[prog[UI][i].a] < MaxImports
    /\ \A j \in DOMAIN prog[UI] : prog[UI][j].op = "mark" /\ prog[UI][j].a = prog[UI][i].a => j = i
\* The thread that is about to start is not there yet
StartsNew == Is(UI, "ctor") =>
  /\ NewThread(It(UI).a, It(UI).k, It(UI).p) \in Locators \cup Importers
  /\ prog[NewThread(It(UI).a, It(UI).k, It(UI).p)] = <<>>
  /\ It(UI).p = "locate" => keyMap[<<"pgp", It(UI).a>>] # Unseen
  /\ It(UI).p = "secret" => skeyMap[<<"pgp", Sender>>] # Unseen
NotStarted ==
  /\ \A a \in Addrs : keyMap[<<"pgp", a>>] = Unseen => prog[<<"locate", a>>] = <<>>
  /\ skeyMap[<<"pgp", Sender>>] = Unseen => prog[<<"secret", Sender>>] = <<>>
  /\ \A a \in Contacts : \A n \in 1..MaxImports :
       n > imports[a] => prog[<<"import", a, n>>] = <<>>
Started == MarksDistinct /\ StartsNew /\ NotStarted

(***************************************************************************)
(* Jobs, and what was promised.                                            *)
(***************************************************************************)

InCache(k) == fprMap[k] # "absent"
\* What could be had of a key was put there
Had(k) == k \in failed \/ InCache(k)
\* A job that is done has its key in the cache
JobsDone == \A t \in Threads : \A i \in DOMAIN prog[t] :
  prog[t][i].op = "jobdone" => Had(prog[t][i].k)
\* A contact gets a key that is in the cache or about to be
OverridesCached == \A t \in Threads : \A i \in DOMAIN prog[t] :
  prog[t][i].op = "override" /\ prog[t][i].k # NoKey =>
    \/ Had(prog[t][i].k)
    \/ /\ i = 2 /\ prog[t][1].k = prog[t][2].k
       /\ prog[t][1].op \in {"list", "insert", "underfpr"}
\* Who waits for a key waits for a job
ReadersWait == \A t \in Threads : \A i \in DOMAIN prog[t] :
  prog[t][i].op \in {"read", "await"} =>
    \/ Had(prog[t][i].k)
    \/ prog[t][i].k \in updateJobs
    \/ \E j \in DOMAIN prog[t] : j < i /\ prog[t][j].op = "update" /\ prog[t][j].k = prog[t][i].k
Promised == JobsDone /\ OverridesCached /\ ReadersWait

(***************************************************************************)
(* The UI thread checks when it has searched.                              *)
(***************************************************************************)
Began == \E i \in DOMAIN prog[UI] : prog[UI][i].op \in {"resolve", "oomdata", "start"}
ChecksAfter == ~manual /\ Locating => Began
-----------------------------------------------------------------------------
(* What a step of a thread does to its list of operations.                 *)

\* r is s with ops in place of its head
Pushed(s, ops, r) ==
  /\ r \in Seq(Ops) /\ Len(r) = Len(ops) + Len(s) - 1
  /\ \A i \in DOMAIN ops : i \in DOMAIN r /\ i <= Len(ops) /\ r[i] = ops[i]
  /\ \A m \in DOMAIN s : m > 1 => Len(ops) + m - 1 \in DOMAIN r /\ r[Len(ops) + m - 1] = s[m]
  /\ \A i \in DOMAIN r : \/ i \in DOMAIN ops /\ r[i] = ops[i]
                         \/ \E m \in DOMAIN s : m > 1 /\ i = Len(ops) + m - 1 /\ r[i] = s[m]

LEMMA PushedIs ==
  ASSUME NEW s \in Seq(Ops), s # <<>>, NEW ops \in Seq(Ops)
  PROVE  Pushed(s, ops, ops \o Tail(s))
<1> DEFINE r == ops \o Tail(s)
<1>1. /\ Len(s) \in Nat /\ Len(s) >= 1 /\ DOMAIN s = 1..Len(s)
      /\ Len(ops) \in Nat /\ DOMAIN ops = 1..Len(ops)
      /\ Tail(s) \in Seq(Ops) /\ Len(Tail(s)) = Len(s) - 1
  OBVIOUS
<1>2. \A i \in 1..Len(Tail(s)) : Tail(s)[i] = s[i + 1]
  BY <1>1
<1>3. r \in Seq(Ops) /\ Len(r) = Len(ops) + Len(s) - 1 /\ DOMAIN r = 1..Len(r)
  BY <1>1
<1>4. \A i \in 1..Len(r) : r[i] = IF i <= Len(ops) THEN ops[i] ELSE Tail(s)[i - Len(ops)]
  BY <1>1
<1>5. ASSUME NEW i \in DOMAIN ops
      PROVE  i \in DOMAIN r /\ i <= Len(ops) /\ r[i] = ops[i]
  BY <1>1, <1>3, <1>4
<1>6. ASSUME NEW m \in DOMAIN s, m > 1
      PROVE  Len(ops) + m - 1 \in DOMAIN r /\ r[Len(ops) + m - 1] = s[m]
  <2>1. Len(ops) + m - 1 \in 1..Len(r) /\ Len(ops) + m - 1 > Len(ops) /\ m - 1 \in 1..Len(Tail(s))
    BY <1>1, <1>3, <1>6
  <2>2. r[Len(ops) + m - 1] = Tail(s)[m - 1]
    BY <1>1, <1>4, <2>1
  <2> QED
    BY <1>1, <1>2, <1>3, <2>1, <2>2
<1>7. ASSUME NEW i \in DOMAIN r
      PROVE  \/ i \in DOMAIN ops /\ r[i] = ops[i]
             \/ \E m \in DOMAIN s : m > 1 /\ i = Len(ops) + m - 1 /\ r[i] = s[m]
  <2>1. CASE i <= Len(ops)
    BY <1>1, <1>3, <1>4, <2>1
  <2>2. CASE i > Len(ops)
    <3>1. i - Len(ops) + 1 \in DOMAIN s /\ i - Len(ops) + 1 > 1
          /\ i = Len(ops) + (i - Len(ops) + 1) - 1
      BY <1>1, <1>3, <2>2
    <3> QED
      BY <1>1, <1>6, <3>1
  <2> QED
    BY <1>1, <1>3, <2>1, <2>2
<1> HIDE DEF r
<1> QED
  BY <1>3, <1>5, <1>6, <1>7 DEF Pushed, r

\* The head of a list is an operation
LEMMA HeadTyped ==
  ASSUME TypeOK, NEW t \in Threads, prog[t] # <<>>
  PROVE  /\ prog[t] \in Seq(Ops) /\ It(t) \in Ops /\ It(t) = prog[t][1]
         /\ Len(prog[t]) \in Nat /\ Len(prog[t]) >= 1 /\ DOMAIN prog[t] = 1..Len(prog[t])
  BY DEF TypeOK, It

LEMMA ThenPushes ==
  ASSUME TypeOK, NEW t \in Threads, prog[t] # <<>>, NEW ops \in Seq(Ops), Then(t, ops)
  PROVE  /\ prog' \in [Threads -> Seq(Ops)]
         /\ Pushed(prog[t], ops, prog'[t])
         /\ \A u \in Threads : u # t => prog'[u] = prog[u]
<1>1. prog[t] \in Seq(Ops) /\ prog \in [Threads -> Seq(Ops)]
  BY DEF TypeOK
<1>2. Pushed(prog[t], ops, ops \o Tail(prog[t]))
  BY <1>1, PushedIs
<1>3. ops \o Tail(prog[t]) \in Seq(Ops)
  BY <1>1
<1>4. prog' = [prog EXCEPT ![t] = ops \o Tail(prog[t])]
  BY DEF Then
<1> QED
  BY <1>1, <1>2, <1>3, <1>4

\* A step in the middle of a list: nobody leaves, only a check goes on checking
Working(h, ops) ==
  /\ h # "leave"
  /\ \A i \in DOMAIN ops :
       /\ ops[i].op \notin {"leave", "resolve"}
       /\ IF h \in Checks THEN ops[i].op \in {"ask", "key", "verdict"}
                          ELSE ops[i].op \notin Checks
       /\ ops[i].op \in {"ask", "key"} =>
            h = "ask" \/ \E j \in DOMAIN ops : i < j /\ ops[j].op = "verdict"
       /\ ops[i].op \in Searching => h \in Searching
       /\ ops[i].op \in {"ctor", "jobdone", "underfpr", "await"} => i = 1
       /\ ops[i].op = "oomdata" => i = Len(ops) /\ h = "resolve"
       /\ h \in Preparing \cup Checks => ops[i].op \in Preparing \cup Checks

LEMMA WorkOrdered ==
  ASSUME NEW s \in Seq(Ops), s # <<>>, NEW ops \in Seq(Ops), NEW r, Pushed(s, ops, r),
         Working(s[1].op, ops)
  PROVE  InOrder(s) => InOrder(r)
<1> DEFINE n == Len(ops) - 1
           Old(i) == \E m \in DOMAIN s : m > 1 /\ i = n + m /\ r[i] = s[m]
<1>1. /\ Len(s) \in Nat /\ Len(s) >= 1 /\ DOMAIN s = 1..Len(s)
      /\ Len(ops) \in Nat /\ DOMAIN ops = 1..Len(ops) /\ n \in Int
      /\ Len(r) = n + Len(s) /\ DOMAIN r = 1..Len(r)
  BY DEF Pushed
<1>2. /\ \A i \in DOMAIN r : (i \in DOMAIN ops /\ r[i] = ops[i]) \/ Old(i)
      /\ \A m \in DOMAIN s : m > 1 => n + m \in DOMAIN r /\ r[n + m] = s[m]
  BY <1>1 DEF Pushed
<1>3. \A i \in DOMAIN r : r[i].op \in {"leave", "resolve"} => Old(i)
  BY <1>2 DEF Working
<1>c. Answering \subseteq Checks /\ {"ask", "key", "verdict"} \subseteq Answering
  BY DEF Checks, Answering
<1> HIDE DEF n
<1>4. ASSUME ChecksLast(s), NEW i \in DOMAIN r, NEW j \in DOMAIN r, r[i].op \in Checks, i < j
      PROVE  r[j].op \in Answering
  <2>1. CASE i \in DOMAIN ops /\ r[i] = ops[i]
    <3>1. s[1].op \in Checks
      BY <1>4, <2>1 DEF Working
    <3>2. CASE j \in DOMAIN ops /\ r[j] = ops[j]
      BY <1>c, <3>1, <3>2 DEF Working
    <3>3. CASE Old(j)
      BY <1>1, <1>4, <3>1, <3>3 DEF ChecksLast
    <3> QED
      BY <1>2, <3>2, <3>3
  <2>2. CASE Old(i)
    <3>1. PICK m \in DOMAIN s : m > 1 /\ i = n + m /\ r[i] = s[m]
      BY <2>2
    <3>2. j \notin DOMAIN ops
      BY <1>1, <1>4, <3>1 DEF n
    <3>3. PICK l \in DOMAIN s : l > 1 /\ j = n + l /\ r[j] = s[l]
      BY <1>2, <3>2
    <3> QED
      BY <1>1, <1>4, <3>1, <3>3 DEF ChecksLast
  <2> QED
    BY <1>2, <2>1, <2>2
<1>5. ASSUME AnswerComes(s), NEW i \in DOMAIN r, r[i].op \in {"ask", "key"}
      PROVE  \E j \in DOMAIN r : i < j /\ r[j].op = "verdict"
  <2>1. CASE i \in DOMAIN ops /\ r[i] = ops[i]
    <3>1. CASE s[1].op = "ask"
      <4>1. PICK l \in DOMAIN s : 1 < l /\ s[l].op = "verdict"
        BY <1>1, <1>5, <3>1 DEF AnswerComes
      <4>2. n + l \in DOMAIN r /\ r[n + l] = s[l] /\ i < n + l
        BY <1>1, <1>2, <2>1, <4>1 DEF n
      <4> QED
        BY <4>1, <4>2
    <3>2. CASE \E j \in DOMAIN ops : i < j /\ ops[j].op = "verdict"
      BY <3>2 DEF Pushed
    <3> QED
      BY <1>5, <2>1, <3>1, <3>2 DEF Working
  <2>2. CASE Old(i)
    <3>1. PICK m \in DOMAIN s : m > 1 /\ i = n + m /\ r[i] = s[m]
      BY <2>2
    <3>2. PICK l \in DOMAIN s : m < l /\ s[l].op = "verdict"
      BY <1>5, <3>1 DEF AnswerComes
    <3> QED
      BY <1>1, <1>2, <3>1, <3>2
  <2> QED
    BY <1>2, <2>1, <2>2
<1>6. ASSUME LeavesLast(s)
      PROVE  LeavesLast(r)
  <2>1. ASSUME NEW i \in DOMAIN r, r[i].op = "leave"
        PROVE  i = Len(r)
    <3>1. PICK m \in DOMAIN s : m > 1 /\ i = n + m /\ r[i] = s[m]
      BY <1>3, <2>1
    <3> QED
      BY <1>1, <1>6, <2>1, <3>1 DEF LeavesLast
  <2>2. ASSUME NEW i \in DOMAIN r, r[i].op \in Searching
        PROVE  r[Len(r)].op = "leave"
    <3>1. \E j \in DOMAIN s : s[j].op \in Searching
      <4>1. CASE i \in DOMAIN ops /\ r[i] = ops[i]
        BY <1>1, <2>2, <4>1 DEF Working
      <4>2. CASE Old(i)
        BY <2>2, <4>2
      <4> QED
        BY <1>2, <4>1, <4>2
    <3>2. s[Len(s)].op = "leave"
      BY <1>6, <3>1 DEF LeavesLast
    <3>3. Len(s) > 1
      BY <1>1, <3>2 DEF Working
    <3> QED
      BY <1>1, <1>2, <3>2, <3>3
  <2> QED
    BY <2>1, <2>2 DEF LeavesLast
<1>7. ASSUME AtOnce(s), NEW i \in DOMAIN r
      PROVE  /\ r[i].op \in {"ctor", "jobdone", "underfpr", "await"} => i = 1
             /\ r[i].op \in {"resolve", "oomdata"} => i = Len(r)
  <2>1. CASE i \in DOMAIN ops /\ r[i] = ops[i]
    <3>1. s[1].op = "resolve" => Len(s) = 1
      BY <1>1, <1>7 DEF AtOnce
    <3> QED
      BY <1>1, <2>1, <3>1 DEF Working, n
  <2>2. CASE Old(i)
    BY <1>1, <1>7, <2>2 DEF AtOnce
  <2> QED
    BY <1>2, <2>1, <2>2
<1>8. (ChecksLast(s) => ChecksLast(r)) /\ (AnswerComes(s) => AnswerComes(r))
  <2>1. ChecksLast(s) => ChecksLast(r)
    BY <1>4 DEF ChecksLast
  <2>2. AnswerComes(s) => AnswerComes(r)
    BY <1>5 DEF AnswerComes
  <2> QED
    BY <2>1, <2>2
<1>9. AtOnce(s) => AtOnce(r)
  BY <1>7 DEF AtOnce
<1> QED
  BY <1>6, <1>8, <1>9 DEF InOrder

\* Lists that are written down
LEMMA Lists ==
  /\ <<>> \in Seq(Ops) /\ Len(<<>>) = 0 /\ DOMAIN <<>> = {}
  /\ \A o \in Ops : /\ <<o>> \in Seq(Ops) /\ Len(<<o>>) = 1 /\ DOMAIN <<o>> = {1}
                    /\ <<o>>[1] = o
  /\ \A o, x \in Ops : /\ <<o, x>> \in Seq(Ops) /\ Len(<<o, x>>) = 2 /\ DOMAIN <<o, x>> = {1, 2}
                       /\ <<o, x>>[1] = o /\ <<o, x>>[2] = x
  OBVIOUS

LEMMA Joins ==
  /\ <<>> \o <<>> = <<>>
  /\ \A o \in Ops : <<>> \o <<o>> = <<o>> /\ <<o>> \o <<>> = <<o>>
  /\ \A o, x \in Ops : <<o>> \o <<x>> = <<o, x>>
<1>1. \A o, x \in Ops : <<o>> \o <<x>> = <<o, x>>
  <2> SUFFICES ASSUME NEW o \in Ops, NEW x \in Ops PROVE <<o>> \o <<x>> = <<o, x>>
    OBVIOUS
  <2> DEFINE z == <<o>> \o <<x>>
  <2>1. z \in Seq(Ops) /\ Len(z) = 2 /\ z[1] = o /\ z[2] = x
    OBVIOUS
  <2> HIDE DEF z
  <2>2. z \in [1..2 -> Ops]
    BY <2>1
  <2>4. z = [i \in 1..2 |-> IF i = 1 THEN o ELSE x]
    BY <2>1, <2>2
  <2>3. <<o, x>> = [i \in 1..2 |-> IF i = 1 THEN o ELSE x]
    OBVIOUS
  <2> QED
    BY <2>3, <2>4 DEF z
<1> QED
  BY <1>1

LEMMA JoinThree ==
  ASSUME NEW o \in Ops, NEW x \in Ops, NEW y \in Ops
  PROVE  <<o, x>> \o <<y>> = <<o, x, y>>
<1> DEFINE z == <<o, x>> \o <<y>>
<1>1. z \in Seq(Ops) /\ Len(z) = 3 /\ z[1] = o /\ z[2] = x /\ z[3] = y
  OBVIOUS
<1> HIDE DEF z
<1>2. z \in [1..3 -> Ops]
  BY <1>1
<1>3. z = [i \in 1..3 |-> IF i = 1 THEN o ELSE IF i = 2 THEN x ELSE y]
  BY <1>1, <1>2
<1>4. <<o, x, y>> = [i \in 1..3 |-> IF i = 1 THEN o ELSE IF i = 2 THEN x ELSE y]
  OBVIOUS
<1> QED
  BY <1>3, <1>4 DEF z

\* A set as a list
LEMMA SetAsSeq ==
  ASSUME NEW S, IsFiniteSet(S)
  PROVE  /\ SetToSeq(S) \in Seq(S) /\ Len(SetToSeq(S)) \in Nat
         /\ DOMAIN SetToSeq(S) = 1..Len(SetToSeq(S))
         /\ \A i \in DOMAIN SetToSeq(S) : SetToSeq(S)[i] \in S
         /\ \A i, j \in DOMAIN SetToSeq(S) : SetToSeq(S)[i] = SetToSeq(S)[j] => i = j
<1>1. Cardinality(S) \in Nat /\ ExistsBijection(1..Cardinality(S), S)
  BY FS_CardinalityType
<1>2. \E f \in [1..Cardinality(S) -> S] : IsInjective(f)
  BY <1>1 DEF ExistsBijection, Bijection, Injection
<1>3. SetToSeq(S) \in [1..Cardinality(S) -> S] /\ IsInjective(SetToSeq(S))
  BY <1>2 DEF SetToSeq
<1> QED
  BY <1>1, <1>3 DEF IsInjective

\* The threads are told apart
LEMMA ThreadsDiffer ==
  /\ UI \in Threads /\ Populate \in Threads /\ Verify \in Threads
  /\ UI \notin Locators \cup Importers \cup Updaters
  /\ \A k \in Keys, n \in 1..MaxUpdates : <<"update", k, n>> \in Updaters
  /\ \A u \in Updaters : u \in Threads /\ u \notin {UI, Populate, Verify} \cup Locators \cup Importers
  /\ Populate \notin {UI} \cup Locators \cup Importers /\ Verify \notin {UI} \cup Locators \cup Importers
  /\ \A a \in Addrs : <<"locate", a>> # <<"secret", Sender>> /\ <<"locate", a>> \in Locators
  /\ <<"secret", Sender>> \in Locators
  /\ \A a \in Contacts, n \in 1..MaxImports :
       /\ <<"import", a, n>> \in Importers
       /\ <<"import", a, n>> \notin Locators
<1>1. \A a, b : <<a, b>> # UI /\ <<a, b>> # Populate /\ <<a, b>> # Verify
  BY DEF UI, Populate, Verify
<1>2. \A a, b, c, d, e : <<a, b, c>> # UI /\ <<a, b, c>> # Populate /\ <<a, b, c>> # Verify
                         /\ <<a, b, c>> # <<d, e>>
  BY DEF UI, Populate, Verify
<1>3. UI # Populate /\ UI # Verify
  BY DEF UI, Populate, Verify
<1>4. \A a, b, c, d : a # c => <<a, b>> # <<c, d>>
  OBVIOUS
<1>5. \A a, b, c, d, e, f : a # d => <<a, b, c>> # <<d, e, f>>
  OBVIOUS
<1>6. \A u \in Updaters : \E k, n : u = <<"update", k, n>>
  BY DEF Updaters
<1>7. \A u \in Updaters : u \notin Locators
  BY <1>2, <1>6 DEF Locators
<1>8. \A u \in Updaters : u \notin Importers
  BY <1>5, <1>6 DEF Importers
<1>9. \A u \in Updaters : u \notin {UI, Populate, Verify}
  BY <1>2, <1>6
<1>10. \A k \in Keys, n \in 1..MaxUpdates : <<"update", k, n>> \in Updaters
  BY DEF Updaters
<1>11. \A u \in Updaters : u \in Threads
  BY DEF Threads
<1>12. UI \notin Locators \cup Importers
  BY <1>1, <1>2 DEF Locators, Importers
<1>13. \A a \in Contacts, n \in 1..MaxImports : <<"import", a, n>> \in Importers /\ <<"import", a, n>> \notin Locators
  BY <1>2 DEF Locators, Importers
<1>14. Populate \notin {UI} \cup Locators \cup Importers /\ Verify \notin {UI} \cup Locators \cup Importers
  BY <1>1, <1>2, <1>3 DEF Locators, Importers
<1>15. /\ \A a \in Addrs : <<"locate", a>> # <<"secret", Sender>> /\ <<"locate", a>> \in Locators
       /\ <<"secret", Sender>> \in Locators
  BY <1>4 DEF Locators
<1>16. UI \in Threads /\ Populate \in Threads /\ Verify \in Threads
  BY DEF Threads
<1>17. UI \notin Updaters
  BY <1>9
<1> QED
  BY <1>7, <1>8, <1>9, <1>10, <1>11, <1>12, <1>13, <1>14, <1>15, <1>16, <1>17
-----------------------------------------------------------------------------
(* The steps that work on a list.                                          *)

\* t does its next operation, which goes on with ops
Works(t, ops) ==
  /\ prog[t] # <<>> /\ ops \in Seq(Ops) /\ Then(t, ops)
  /\ Working(prog[t][1].op, ops)

\* One more operation, or none
LEMMA WorksOn ==
  ASSUME TypeOK, NEW t \in Threads, prog[t] # <<>>, It(t).op # "leave"
  PROVE  /\ Then(t, <<>>) => Works(t, <<>>)
         /\ \A o \in Ops :
              /\ Then(t, <<o>>)
              /\ o.op \notin Checks \cup {"leave", "resolve", "oomdata"}
              /\ It(t).op \notin Preparing \cup Checks
              /\ o.op \in Searching => It(t).op \in Searching
              => Works(t, <<o>>)
<1>1. It(t) = prog[t][1]
  BY HeadTyped
<1>2. {"ask", "key"} \subseteq Checks
  BY DEF Checks, Answering
<1>3. Then(t, <<>>) => Works(t, <<>>)
  BY <1>1, Lists DEF Works, Working
<1>4. ASSUME NEW o \in Ops, Then(t, <<o>>),
             o.op \notin Checks \cup {"leave", "resolve", "oomdata"},
             It(t).op \notin Preparing \cup Checks,
             o.op \in Searching => It(t).op \in Searching
      PROVE  Works(t, <<o>>)
  <2>1. /\ <<o>> \in Seq(Ops) /\ DOMAIN <<o>> = {1} /\ <<o>>[1] = o
    BY Lists
  <2>2. Working(prog[t][1].op, <<o>>)
    BY <1>1, <1>2, <1>4, <2>1 DEF Working
  <2> QED
    BY <1>4, <2>1, <2>2 DEF Works
<1> QED
  BY <1>3, <1>4

\* What is pushed is an operation
LEMMA OpsTyped ==
  /\ \A k \in Keys : /\ Op("underkey", "", k, "public") \in Ops
                     /\ Op("underkey", "", k, "secret") \in Ops
                     /\ ToInsert(k, "public") \in Ops /\ ToInsert(k, "secret") \in Ops
                     /\ Op("underfpr", "", k, "public") \in Ops
                     /\ Op("underfpr", "", k, "secret") \in Ops
                     /\ Op("jobdone", "", k, "") \in Ops
                     /\ Op("list", "", k, "") \in Ops
                     /\ Op("await", "", k, "") \in Ops
                     /\ Op("update", "", k, "") \in Ops
                     /\ Op("read", "", k, "") \in Ops
  /\ \A a \in Addrs : /\ Op("key", a, NoKey, "") \in Ops /\ Op("ask", a, NoKey, "") \in Ops
                      /\ Op("search", a, NoKey, "locate") \in Ops
                      /\ Op("ctor", a, NoKey, "locate") \in Ops
                      /\ Op("locate", a, NoKey, "locate") \in Ops
                      /\ \A k \in Keys \cup {NoKey} : Op("certs", a, k, "") \in Ops
                      /\ \A k \in Keys, p \in Protos : /\ Op("setkey", a, k, p) \in Ops
                                                       /\ Op("setskey", a, k, p) \in Ops
  /\ \A a \in Contacts : /\ Op("mark", a, NoKey, "") \in Ops /\ Op("unmark", a, NoKey, "") \in Ops
                         /\ \A k \in Keys \cup {NoKey} : Op("override", a, k, "") \in Ops
                         /\ \A c \in Configurable : /\ Op("ctor", a, c, "import") \in Ops
                                                    /\ Op("import", a, c, "import") \in Ops
  /\ Op("search", Sender, NoKey, "secret") \in Ops /\ Op("ctor", Sender, NoKey, "secret") \in Ops
  /\ \A p \in Protos : Op("secret", Sender, NoKey, p) \in Ops
  /\ Op("resolve", "", NoKey, "") \in Ops /\ Op("oomdata", "", NoKey, "") \in Ops
  /\ Leave \in Ops /\ Op("start", "", NoKey, "") \in Ops /\ Op("freedtor", "", NoKey, "") \in Ops
  /\ Op("verdict", "", "yes", "") \in Ops /\ Op("verdict", "", "no", "") \in Ops
<1>1. Sender \in Addrs /\ Contacts \subseteq Addrs
  BY KeyAssumption
<1>2. ASSUME NEW n \in OpNames, NEW a \in Addrs \cup {""}, NEW p \in Hows,
             NEW k \in Keys \cup Configurable \cup {NoKey, "", "yes", "no"},
             n \in AboutKey => k \in Keys, n \in Inserting => p \in {"public", "secret"},
             n \in AboutAddr => a \in Addrs, n \in AboutContact => a \in Contacts,
             n = "override" => k \in Keys \cup {NoKey}, n # "leave",
             n \in {"ctor", "search"} => \/ p = "locate" /\ a \in Addrs /\ k = NoKey
                                         \/ p = "secret" /\ a = Sender /\ k = NoKey
                                         \/ p = "import" /\ a \in Contacts /\ k \in Configurable,
             n = "search" => p # "import", n \in {"secret", "setkey", "setskey"} => p \in Protos
      PROVE  Op(n, a, k, p) \in Ops
  <2> DEFINE o == Op(n, a, k, p)
  <2>1. o.op = n /\ o.a = a /\ o.k = k /\ o.p = p /\ o \in Fields
    BY DEF Op, Fields
  <2> HIDE DEF o
  <2>2. o \in Ops
    BY <1>2, <2>1 DEF Ops, Startable
  <2> QED
    BY <2>2 DEF o
<1> USE DEF OpNames, Hows, AboutKey, AboutAddr, AboutContact, Inserting
<1>3. ASSUME NEW k \in Keys, NEW h \in {"public", "secret"}
      PROVE  /\ Op("underkey", "", k, h) \in Ops
             /\ Op("insert", "", k, h) \in Ops
             /\ Op("underfpr", "", k, h) \in Ops
  <2>1. Op("underkey", "", k, h) \in Ops
    BY <1>1, <1>2
  <2>2. Op("insert", "", k, h) \in Ops
    BY <1>1, <1>2
  <2>3. Op("underfpr", "", k, h) \in Ops
    BY <1>1, <1>2
  <2> QED
    BY <2>1, <2>2, <2>3
<1>4. ASSUME NEW k \in Keys
      PROVE  /\ Op("jobdone", "", k, "") \in Ops
             /\ Op("list", "", k, "") \in Ops
             /\ Op("await", "", k, "") \in Ops
             /\ Op("update", "", k, "") \in Ops
             /\ Op("read", "", k, "") \in Ops
  <2>1. Op("jobdone", "", k, "") \in Ops
    BY <1>1, <1>2
  <2>2. Op("list", "", k, "") \in Ops
    BY <1>1, <1>2
  <2>3. Op("await", "", k, "") \in Ops
    BY <1>1, <1>2
  <2>4. Op("update", "", k, "") \in Ops
    BY <1>1, <1>2
  <2>5. Op("read", "", k, "") \in Ops
    BY <1>1, <1>2
  <2> QED
    BY <2>1, <2>2, <2>3, <2>4, <2>5
<1>5. ASSUME NEW a \in Addrs
      PROVE  /\ Op("key", a, NoKey, "") \in Ops
             /\ Op("ask", a, NoKey, "") \in Ops
             /\ Op("search", a, NoKey, "locate") \in Ops
             /\ Op("ctor", a, NoKey, "locate") \in Ops
             /\ Op("locate", a, NoKey, "locate") \in Ops
             /\ Op("certs", a, NoKey, "") \in Ops
  <2>1. Op("key", a, NoKey, "") \in Ops
    BY <1>1, <1>2 DEF Preparing, Checks, Answering
  <2>2. Op("ask", a, NoKey, "") \in Ops
    BY <1>1, <1>2 DEF Preparing, Checks, Answering
  <2>3. Op("search", a, NoKey, "locate") \in Ops
    BY <1>1, <1>2 DEF Preparing, Checks, Answering
  <2>4. Op("ctor", a, NoKey, "locate") \in Ops
    BY <1>1, <1>2 DEF Preparing, Checks, Answering
  <2>5. Op("locate", a, NoKey, "locate") \in Ops
    BY <1>1, <1>2 DEF Preparing, Checks, Answering
  <2>6. Op("certs", a, NoKey, "") \in Ops
    BY <1>1, <1>2 DEF Preparing, Checks, Answering
  <2> QED
    BY <2>1, <2>2, <2>3, <2>4, <2>5, <2>6
<1>6. ASSUME NEW a \in Addrs, NEW k \in Keys, NEW p \in Protos
      PROVE  /\ Op("setkey", a, k, p) \in Ops
             /\ Op("setskey", a, k, p) \in Ops
  <2>1. Op("setkey", a, k, p) \in Ops
    BY <1>1, <1>2 DEF Protos
  <2>2. Op("setskey", a, k, p) \in Ops
    BY <1>1, <1>2 DEF Protos
  <2> QED
    BY <2>1, <2>2
<1>7. ASSUME NEW a \in Contacts
      PROVE  /\ Op("mark", a, NoKey, "") \in Ops
             /\ Op("unmark", a, NoKey, "") \in Ops
             /\ Op("override", a, NoKey, "") \in Ops
  <2>1. Op("mark", a, NoKey, "") \in Ops
    BY <1>1, <1>2 DEF Preparing
  <2>2. Op("unmark", a, NoKey, "") \in Ops
    BY <1>1, <1>2 DEF Preparing
  <2>3. Op("override", a, NoKey, "") \in Ops
    BY <1>1, <1>2 DEF Preparing
  <2> QED
    BY <2>1, <2>2, <2>3
<1>8. ASSUME NEW p \in Protos
      PROVE  /\ Op("secret", Sender, NoKey, p) \in Ops
  <2>1. Op("secret", Sender, NoKey, p) \in Ops
    BY <1>1, <1>2 DEF Preparing, Protos
  <2> QED
    BY <2>1
<1>9. /\ Op("resolve", "", NoKey, "") \in Ops /\ Op("oomdata", "", NoKey, "") \in Ops
      /\ Op("start", "", NoKey, "") \in Ops /\ Op("freedtor", "", NoKey, "") \in Ops
      /\ Op("verdict", "", "yes", "") \in Ops /\ Op("verdict", "", "no", "") \in Ops
  <2>1. Op("resolve", "", NoKey, "") \in Ops /\ Op("oomdata", "", NoKey, "") \in Ops
    BY <1>2 DEF Preparing
  <2>2. Op("start", "", NoKey, "") \in Ops /\ Op("freedtor", "", NoKey, "") \in Ops
    BY <1>2 DEF Checks, Answering
  <2>3. Op("verdict", "", "yes", "") \in Ops /\ Op("verdict", "", "no", "") \in Ops
    BY <1>2 DEF Checks, Answering
  <2> QED
    BY <2>1, <2>2, <2>3
<1>10. Leave \in Ops
  <2>1. Leave \in Fields /\ Leave.op = "leave"
    BY DEF Leave, Op, Fields
  <2> QED
    BY <2>1 DEF Ops
<1> HIDE DEF OpNames, Hows, AboutKey, AboutAddr, AboutContact, Inserting
<1>11. \A k \in Keys : ToInsert(k, "public") \in Ops /\ ToInsert(k, "secret") \in Ops
  BY <1>3 DEF ToInsert
<1>12. \A a \in Addrs, k \in Keys : Op("certs", a, k, "") \in Ops
  BY <1>1, <1>2 DEF OpNames, Hows, AboutKey, AboutAddr, AboutContact, Inserting
<1>13. \A a \in Contacts, k \in Keys : Op("override", a, k, "") \in Ops
  BY <1>1, <1>2 DEF OpNames, Hows, AboutKey, AboutAddr, AboutContact, Inserting
<1>14. \A a \in Contacts, c \in Configurable :
         Op("ctor", a, c, "import") \in Ops /\ Op("import", a, c, "import") \in Ops
  <2>1. \A a \in Contacts, c \in Configurable : Op("ctor", a, c, "import") \in Ops
    BY <1>1, <1>2 DEF OpNames, Hows, AboutKey, AboutAddr, AboutContact, Inserting, Preparing
  <2>2. \A a \in Contacts, c \in Configurable : Op("import", a, c, "import") \in Ops
    BY <1>1, <1>2 DEF OpNames, Hows, AboutKey, AboutAddr, AboutContact, Inserting
  <2> QED
    BY <2>1, <2>2
<1>15. Op("search", Sender, NoKey, "secret") \in Ops /\ Op("ctor", Sender, NoKey, "secret") \in Ops
  BY <1>1, <1>2 DEF OpNames, Hows, AboutKey, AboutAddr, AboutContact, Inserting, Preparing
<1>16. \A a \in Addrs : \A k \in Keys \cup {NoKey} : Op("certs", a, k, "") \in Ops
  BY <1>5, <1>12
<1>17. \A a \in Contacts : \A k \in Keys \cup {NoKey} : Op("override", a, k, "") \in Ops
  BY <1>7, <1>13
<1> QED
  BY <1>3, <1>4, <1>5, <1>6, <1>7, <1>8, <1>9, <1>10, <1>11, <1>14, <1>15, <1>16, <1>17

LEMMA SetKeyWorks ==
  ASSUME TypeOK, NEW t \in Threads
  PROVE  /\ SetKey(t) => Works(t, <<Op("underkey", "", It(t).k, "public")>>)
         /\ SetKeySecret(t) => Works(t, <<Op("underkey", "", It(t).k, "secret")>>)
         /\ InsertUnderKeyLock(t) => Works(t, <<>>)
<1>1. ASSUME SetKey(t) PROVE Works(t, <<Op("underkey", "", It(t).k, "public")>>)
  <2> DEFINE o == Op("underkey", "", It(t).k, "public")
  <2>1. prog[t] # <<>> /\ It(t).op = "setkey" /\ Then(t, <<o>>)
    BY <1>1 DEF SetKey, Is, It
  <2>2. o \in Ops /\ o.op = "underkey"
    BY <2>1, HeadTyped, OpsTyped DEF Ops, AboutKey, Op
  <2> HIDE DEF o
  <2>3. Works(t, <<o>>)
    BY <2>1, <2>2, WorksOn DEF Checks, Answering, Preparing, Searching
  <2> QED
    BY <2>3 DEF o
<1>2. ASSUME SetKeySecret(t) PROVE Works(t, <<Op("underkey", "", It(t).k, "secret")>>)
  <2> DEFINE o == Op("underkey", "", It(t).k, "secret")
  <2>1. prog[t] # <<>> /\ It(t).op = "setskey" /\ Then(t, <<o>>)
    BY <1>2 DEF SetKeySecret, Is, It
  <2>2. o \in Ops /\ o.op = "underkey"
    BY <2>1, HeadTyped, OpsTyped DEF Ops, AboutKey, Op
  <2> HIDE DEF o
  <2>3. Works(t, <<o>>)
    BY <2>1, <2>2, WorksOn DEF Checks, Answering, Preparing, Searching
  <2> QED
    BY <2>3 DEF o
<1>3. ASSUME InsertUnderKeyLock(t) PROVE Works(t, <<>>)
  BY <1>3, WorksOn DEF InsertUnderKeyLock, Is, It
<1> QED
  BY <1>1, <1>2, <1>3

LEMMA InsertWorks ==
  ASSUME TypeOK, NEW t \in Threads
  PROVE  /\ Insert(t) => \/ Works(t, <<Op("underfpr", "", It(t).k, It(t).p)>>)
                            /\ FillsSkeys(It(t).k, It(t).p)
                         \/ Works(t, InsertDone(It(t).k)) /\ ~FillsSkeys(It(t).k, It(t).p)
         /\ InsertSkey(t) => Works(t, InsertDone(It(t).k))
         /\ List(t) => \/ Works(t, Updated(It(t).k))
                       \/ Works(t, <<Op("jobdone", "", It(t).k, "")>>) /\ It(t).k \in failed'
         /\ JobDone(t) => Works(t, <<>>)
<1>1. ASSUME NEW o \in Ops, Then(t, <<o>>), o.op \in {"insert", "underfpr", "jobdone"},
             prog[t] # <<>>, It(t).op \in {"insert", "underfpr", "list"}
      PROVE  Works(t, <<o>>)
  BY <1>1, WorksOn DEF Checks, Answering, Preparing, Searching
<1>2. \A k \in Keys : /\ Op("jobdone", "", k, "") \in Ops /\ Op("jobdone", "", k, "").op = "jobdone"
                      /\ ToInsert(k, "public") \in Ops /\ ToInsert(k, "public").op = "insert"
                      /\ \A h \in {"public", "secret"} : /\ Op("underfpr", "", k, h) \in Ops
                                                         /\ Op("underfpr", "", k, h).op = "underfpr"
  BY OpsTyped DEF ToInsert, Op
<1>3. ASSUME prog[t] # <<>>
      PROVE  /\ It(t).op \in {"insert", "underfpr", "list"} => It(t).k \in Keys
             /\ It(t).op = "insert" => It(t).p \in {"public", "secret"}
  BY <1>3, HeadTyped DEF Ops, AboutKey, Inserting
<1>4. ASSUME Insert(t)
      PROVE  \/ Works(t, <<Op("underfpr", "", It(t).k, It(t).p)>>) /\ FillsSkeys(It(t).k, It(t).p)
             \/ Works(t, InsertDone(It(t).k)) /\ ~FillsSkeys(It(t).k, It(t).p)
  <2>1. prog[t] # <<>> /\ It(t).op = "insert"
    BY <1>4 DEF Insert, Is, It
  <2>2. \/ Then(t, <<Op("underfpr", "", It(t).k, It(t).p)>>) /\ FillsSkeys(It(t).k, It(t).p)
        \/ Then(t, <<Op("jobdone", "", It(t).k, "")>>) /\ ~FillsSkeys(It(t).k, It(t).p)
    BY <1>4 DEF Insert, InsertDone
  <2> QED
    BY <1>1, <1>2, <1>3, <2>1, <2>2 DEF InsertDone
<1>5. ASSUME InsertSkey(t) PROVE Works(t, InsertDone(It(t).k))
  <2>1. prog[t] # <<>> /\ It(t).op = "underfpr" /\ Then(t, <<Op("jobdone", "", It(t).k, "")>>)
    BY <1>5 DEF InsertSkey, InsertDone, Is, It
  <2> QED
    BY <1>1, <1>2, <1>3, <2>1 DEF InsertDone
<1>6. ASSUME List(t)
      PROVE  \/ Works(t, Updated(It(t).k))
             \/ Works(t, <<Op("jobdone", "", It(t).k, "")>>) /\ It(t).k \in failed'
  <2>1. prog[t] # <<>> /\ It(t).op = "list"
    BY <1>6 DEF List, Is, It
  <2>2. \/ Then(t, <<ToInsert(It(t).k, "public")>>)
        \/ Then(t, <<Op("jobdone", "", It(t).k, "")>>) /\ It(t).k \in failed'
    BY <1>6 DEF List, Updated
  <2> QED
    BY <1>1, <1>2, <1>3, <2>1, <2>2 DEF Updated
<1>7. ASSUME JobDone(t) PROVE Works(t, <<>>)
  BY <1>7, WorksOn DEF JobDone, Is, It
<1> QED
  BY <1>4, <1>5, <1>6, <1>7

LEMMA ReadWorks ==
  ASSUME TypeOK, NEW t \in Threads
  PROVE  /\ Read(t) => IF InCache(It(t).k) THEN Works(t, <<>>)
                       ELSE Works(t, <<Op("await", "", It(t).k, "")>>)
         /\ Await(t) => Works(t, <<>>)
<1>1. ASSUME Read(t)
      PROVE  IF InCache(It(t).k) THEN Works(t, <<>>) ELSE Works(t, <<Op("await", "", It(t).k, "")>>)
  <2>1. prog[t] # <<>> /\ It(t).op = "read" /\ It(t).k \in Keys
    BY <1>1, HeadTyped DEF Read, Is, It, Ops, AboutKey
  <2>2. Op("await", "", It(t).k, "") \in Ops /\ Op("await", "", It(t).k, "").op = "await"
    BY <2>1, OpsTyped DEF Op
  <2>3. CASE InCache(It(t).k)
    BY <1>1, <2>1, <2>3, WorksOn DEF Read, InCache
  <2>4. CASE ~InCache(It(t).k)
    <3>1. Then(t, <<Op("await", "", It(t).k, "")>>)
      BY <1>1, <2>4 DEF Read, InCache
    <3> QED
      BY <2>1, <2>2, <2>4, <3>1, WorksOn DEF Checks, Answering, Preparing, Searching
  <2> QED
    BY <2>3, <2>4
<1>2. ASSUME Await(t) PROVE Works(t, <<>>)
  BY <1>2, WorksOn DEF Await, Is, It
<1> QED
  BY <1>1, <1>2

\* Two more operations
LEMMA WorksTwo ==
  ASSUME TypeOK, NEW t \in Threads, prog[t] # <<>>, It(t).op \in Searching,
         NEW o \in Ops, NEW x \in Ops, Then(t, <<o, x>>),
         o.op \in Searching \cup {"list"}, x.op \in Searching \cup {"list"}
  PROVE  Works(t, <<o, x>>)
<1>1. It(t) = prog[t][1]
  BY HeadTyped
<1>2. /\ <<o, x>> \in Seq(Ops) /\ DOMAIN <<o, x>> = {1, 2}
      /\ <<o, x>>[1] = o /\ <<o, x>>[2] = x
  BY Lists
<1>3. \A op \in Searching \cup {"list"} :
        op \notin {"leave", "resolve", "ask", "key", "ctor", "jobdone", "underfpr", "await", "oomdata"}
                  \cup Checks \cup Preparing
  BY DEF Checks, Answering, Preparing, Searching
<1>4. Working(prog[t][1].op, <<o, x>>)
  BY <1>1, <1>2, <1>3 DEF Working, Searching
<1> QED
  BY <1>2, <1>4 DEF Works

LEMMA ImportWorks ==
  ASSUME TypeOK, NEW t \in Threads
  PROVE  /\ Import(t) =>
              \/ Works(t, <<>>) /\ UNCHANGED ring
              \/ /\ It(t).k \in Keys /\ ring' = ring \cup {It(t).k}
                 /\ Works(t, <<Op("list", "", It(t).k, ""), Op("override", It(t).a, It(t).k, "")>>)
              \/ Works(t, <<Op("override", It(t).a, NoKey, "")>>) /\ UNCHANGED ring
         /\ SetOverride(t) => Works(t, <<Op("unmark", It(t).a, NoKey, "")>>)
         /\ Unmark(t) => Works(t, <<>>)
<1>1. ASSUME prog[t] # <<>>, It(t).op \in {"import", "override"}
      PROVE  /\ It(t).a \in Contacts
             /\ Op("unmark", It(t).a, NoKey, "") \in Ops /\ Op("unmark", It(t).a, NoKey, "").op = "unmark"
             /\ \A k \in Keys \cup {NoKey} : /\ Op("override", It(t).a, k, "") \in Ops
                                             /\ Op("override", It(t).a, k, "").op = "override"
             /\ \A k \in Keys : Op("list", "", k, "") \in Ops /\ Op("list", "", k, "").op = "list"
  <2>1. It(t).a \in Contacts
    BY <1>1, HeadTyped DEF Ops, AboutContact
  <2> QED
    BY <2>1, OpsTyped DEF Op
<1>2. ASSUME Import(t)
      PROVE  \/ Works(t, <<>>) /\ UNCHANGED ring
             \/ /\ It(t).k \in Keys /\ ring' = ring \cup {It(t).k}
                /\ Works(t, <<Op("list", "", It(t).k, ""), Op("override", It(t).a, It(t).k, "")>>)
             \/ Works(t, <<Op("override", It(t).a, NoKey, "")>>) /\ UNCHANGED ring
  <2>1. prog[t] # <<>> /\ It(t).op = "import"
    BY <1>2 DEF Import, Is, It
  <2>2. CASE It(t).k \notin Keys
    BY <1>2, <2>1, <2>2, WorksOn DEF Import
  <2>3. CASE /\ It(t).k \in Keys /\ ring' = ring \cup {It(t).k}
             /\ Then(t, <<Op("list", "", It(t).k, ""), Op("override", It(t).a, It(t).k, "")>>)
    BY <1>1, <2>1, <2>3, WorksTwo DEF Searching
  <2>4. CASE /\ It(t).k \in Keys /\ Then(t, <<Op("override", It(t).a, NoKey, "")>>)
             /\ UNCHANGED ring
    BY <1>1, <2>1, <2>4, WorksOn DEF Checks, Answering, Preparing, Searching
  <2> QED
    BY <1>2, <2>2, <2>3, <2>4 DEF Import
<1>3. ASSUME SetOverride(t) PROVE Works(t, <<Op("unmark", It(t).a, NoKey, "")>>)
  <2>1. prog[t] # <<>> /\ It(t).op = "override" /\ Then(t, <<Op("unmark", It(t).a, NoKey, "")>>)
    BY <1>3 DEF SetOverride, Is, It
  <2> QED
    BY <1>1, <2>1, WorksOn DEF Checks, Answering, Preparing, Searching
<1>4. ASSUME Unmark(t) PROVE Works(t, <<>>)
  BY <1>4, WorksOn DEF Unmark, Is, It
<1> QED
  BY <1>2, <1>3, <1>4

LEMMA SearchWorks ==
  ASSUME TypeOK, NEW t \in Threads, Locate(t) \/ Certs(t) \/ LocateSecret(t)
  PROVE  \E ops \in Seq(Ops) :
           Works(t, ops) /\ \A i \in DOMAIN ops : ops[i].op \in {"setkey", "setskey", "certs"}
<1>1. /\ prog[t] # <<>> /\ It(t).op \in {"locate", "certs", "secret"} /\ It(t).a \in Addrs
      /\ It(t).op = "secret" => It(t).p \in Protos
  BY HeadTyped DEF Locate, Certs, LocateSecret, Is, It, Ops, AboutAddr
<1>2. \A a \in Addrs :
        /\ \A k \in Keys \cup {NoKey} : Op("certs", a, k, "") \in Ops /\ Op("certs", a, k, "").op = "certs"
        /\ \A k \in Keys, p \in Protos :
             /\ Op("setkey", a, k, p) \in Ops /\ Op("setkey", a, k, p).op = "setkey"
             /\ Op("setskey", a, k, p) \in Ops /\ Op("setskey", a, k, p).op = "setskey"
  BY OpsTyped DEF Op
<1>3. ring \subseteq Keys /\ Net \subseteq Keys /\ {"pgp", "cms"} = Protos
  BY KeyAssumption DEF TypeOK, CacheTypes, Protos, Keys
<1>4. Then(t, <<>>) => Works(t, <<>>)
  BY <1>1, WorksOn
<1>5. ASSUME NEW o \in Ops, Then(t, <<o>>), o.op \in {"setkey", "setskey", "certs"}
      PROVE  Works(t, <<o>>)
  BY <1>1, <1>5, WorksOn DEF Checks, Answering, Preparing, Searching
<1>6. ASSUME NEW o \in Ops, NEW x \in Ops, Then(t, <<o, x>>), o.op \in {"setkey", "certs"},
             x.op \in {"setkey", "certs"}
      PROVE  Works(t, <<o, x>>)
  BY <1>1, <1>6, WorksTwo DEF Searching
<1>7. CASE Locate(t)
  <2>1. PICK k \in KeysOf(It(t).a, "pgp", ring \cup Net) \cup {NoKey} :
          Then(t, (IF k = NoKey THEN <<>> ELSE <<Op("setkey", It(t).a, k, "pgp")>>)
                  \o (IF Opts.smime THEN <<Op("certs", It(t).a, k, "")>> ELSE <<>>))
    BY <1>7 DEF Locate
  <2>2. k = NoKey \/ k \in Keys
    BY <1>3, <2>1 DEF KeysOf
  <2> DEFINE o == Op("setkey", It(t).a, k, "pgp")
             x == Op("certs", It(t).a, k, "")
  <2>3. /\ k # NoKey => o \in Ops /\ o.op = "setkey"
        /\ x \in Ops /\ x.op = "certs"
    BY <1>1, <1>2, <1>3, <2>2
  <2>4. \/ k # NoKey /\ Then(t, <<o>> \o <<x>>)
        \/ k # NoKey /\ Then(t, <<o>> \o <<>>)
        \/ Then(t, <<>> \o <<x>>)
        \/ Then(t, <<>> \o <<>>)
    BY <2>1
  <2> HIDE DEF o, x
  <2>5. CASE k # NoKey /\ Then(t, <<o>> \o <<x>>)
    <3>1. Works(t, <<o, x>>)
      BY <1>6, <2>3, <2>5, Joins
    <3>2. /\ <<o, x>> \in Seq(Ops)
          /\ \A i \in DOMAIN <<o, x>> : <<o, x>>[i].op \in {"setkey", "setskey", "certs"}
      BY <2>3, <2>5, Lists
    <3> QED
      BY <3>1, <3>2
  <2>6. CASE k # NoKey /\ Then(t, <<o>> \o <<>>)
    <3>1. Works(t, <<o>>)
      BY <1>5, <2>3, <2>6, Joins
    <3> QED
      BY <2>3, <2>6, <3>1, Lists
  <2>7. CASE Then(t, <<>> \o <<x>>)
    <3>1. Works(t, <<x>>)
      BY <1>5, <2>3, <2>7, Joins
    <3>2. <<x>> \in Seq(Ops) /\ \A i \in DOMAIN <<x>> : <<x>>[i].op \in {"setkey", "setskey", "certs"}
      BY <2>3, Lists
    <3> QED
      BY <3>1, <3>2
  <2>8. CASE Then(t, <<>> \o <<>>)
    BY <1>4, <2>8, Joins, Lists
  <2> QED
    BY <2>4, <2>5, <2>6, <2>7, <2>8
<1>8. CASE Certs(t)
  <2>1. CASE Then(t, <<>>)
    BY <1>4, <2>1, Lists
  <2>2. CASE \E k \in Keys : Then(t, <<Op("setkey", It(t).a, k, "cms")>>)
    <3>1. PICK k \in Keys : Then(t, <<Op("setkey", It(t).a, k, "cms")>>)
      BY <2>2
    <3> DEFINE o == Op("setkey", It(t).a, k, "cms")
    <3>2. o \in Ops /\ o.op = "setkey"
      BY <1>1, <1>2, <1>3
    <3> HIDE DEF o
    <3>3. Works(t, <<o>>)
      BY <1>5, <3>1, <3>2 DEF o
    <3>4. <<o>> \in Seq(Ops) /\ \A i \in DOMAIN <<o>> : <<o>>[i].op \in {"setkey", "setskey", "certs"}
      BY <3>2, Lists
    <3> QED
      BY <3>3, <3>4
  <2> QED
    BY <1>3, <1>8, <2>1, <2>2 DEF Certs, GoodCerts, KeysOf
<1>9. CASE LocateSecret(t)
  <2>1. CASE Then(t, <<>>)
    BY <1>4, <2>1, Lists
  <2>2. CASE \E k \in Keys : Then(t, <<Op("setskey", It(t).a, k, It(t).p)>>)
    <3>1. PICK k \in Keys : Then(t, <<Op("setskey", It(t).a, k, It(t).p)>>)
      BY <2>2
    <3> DEFINE o == Op("setskey", It(t).a, k, It(t).p)
    <3>2. o \in Ops /\ o.op = "setskey"
      BY <1>1, <1>2, <1>9 DEF LocateSecret, Is, It
    <3> HIDE DEF o
    <3>3. Works(t, <<o>>)
      BY <1>5, <3>1, <3>2 DEF o
    <3>4. <<o>> \in Seq(Ops) /\ \A i \in DOMAIN <<o>> : <<o>>[i].op \in {"setkey", "setskey", "certs"}
      BY <3>2, Lists
    <3> QED
      BY <3>3, <3>4
  <2> QED
    BY <1>3, <1>9, <2>1, <2>2 DEF LocateSecret, KeysOf
<1> QED
  BY <1>7, <1>8, <1>9

LEMMA FiniteAddrs ==
  ASSUME NEW S, S \subseteq Addrs
  PROVE  IsFiniteSet(S)
  BY FS_Subset, KeyAssumption

\* A function from 1..n is a list
LEMMA ListIs ==
  ASSUME NEW n \in Nat, NEW f \in [1..n -> Ops]
  PROVE  f \in Seq(Ops) /\ Len(f) = n /\ DOMAIN f = 1..n
  OBVIOUS

\* A list with one operation after it
LEMMA AppendedOp ==
  ASSUME NEW ops \in Seq(Ops), NEW o \in Ops
  PROVE  /\ ops \o <<o>> \in Seq(Ops) /\ Len(ops \o <<o>>) = Len(ops) + 1
         /\ DOMAIN (ops \o <<o>>) = 1..(Len(ops) + 1) /\ Len(ops) \in Nat
         /\ \A i \in DOMAIN ops : (ops \o <<o>>)[i] = ops[i] /\ i \in 1..Len(ops)
         /\ (ops \o <<o>>)[Len(ops) + 1] = o
         /\ \A i \in 1..(Len(ops) + 1) : i \in DOMAIN ops \/ i = Len(ops) + 1
  OBVIOUS

LEMMA CheckWorks ==
  ASSUME TypeOK, NEW t \in Threads
  PROVE  /\ FreeDtor(t) \/ Verdict(t) => Works(t, <<>>)
         /\ Ask(t) => Works(t, <<>>) \/ Works(t, <<Op("key", It(t).a, NoKey, "")>>)
         /\ CheckStart(t) => /\ \E ops \in Seq(Ops) : Works(t, ops)
                             /\ It(t).op = "start" /\ prog[t] # <<>>
<1>1. ASSUME FreeDtor(t) \/ Verdict(t) PROVE Works(t, <<>>)
  BY <1>1, WorksOn DEF FreeDtor, Verdict, Is, It
<1>2. ASSUME Ask(t) PROVE Works(t, <<>>) \/ Works(t, <<Op("key", It(t).a, NoKey, "")>>)
  <2>1. prog[t] # <<>> /\ It(t).op = "ask" /\ It(t) = prog[t][1]
    BY <1>2, HeadTyped DEF Ask, Is, It
  <2>2. CASE Then(t, <<>>)
    BY <2>1, <2>2, WorksOn
  <2>3. CASE Then(t, <<Op("key", It(t).a, NoKey, "")>>)
    <3> DEFINE o == Op("key", It(t).a, NoKey, "")
    <3>1. o \in Ops /\ o.op = "key"
      <4>1. It(t).a \in Addrs
        BY <2>1, HeadTyped DEF Ops, AboutAddr
      <4> QED
        BY <4>1, OpsTyped DEF Op
    <3>2. <<o>> \in Seq(Ops) /\ DOMAIN <<o>> = {1} /\ <<o>>[1] = o
      BY <3>1, Lists
    <3> HIDE DEF o
    <3>3. Working("ask", <<o>>)
      BY <3>1, <3>2 DEF Working, Checks, Answering, Preparing, Searching
    <3> QED
      BY <2>1, <2>3, <3>2, <3>3 DEF Works, o
  <2> QED
    BY <1>2, <2>2, <2>3 DEF Ask
<1>3. ASSUME CheckStart(t)
      PROVE  (\E ops \in Seq(Ops) : Works(t, ops)) /\ It(t).op = "start" /\ prog[t] # <<>>
  <2>1. prog[t] # <<>> /\ It(t).op = "start" /\ It(t) = prog[t][1]
    BY <1>3, HeadTyped DEF CheckStart, Is, It
  <2>2. CASE Then(t, <<>>)
    BY <2>1, <2>2, WorksOn, Lists
  <2>3. CASE count = 0 /\ cached # {}
    <3> DEFINE as == SetToSeq(cached)
               v == Op("verdict", "", IF Opts.preferSmime => SigningKey("pgp") THEN "yes" ELSE "no", "")
               ask == [i \in DOMAIN as |-> Op("ask", as[i], NoKey, "")]
    <3>1. as \in Seq(cached) /\ DOMAIN as = 1..Len(as) /\ Len(as) \in Nat
          /\ \A i \in DOMAIN as : as[i] \in Addrs
      BY SetAsSeq, FiniteAddrs DEF TypeOK, MailTypes
    <3>2. v \in Ops /\ v.op = "verdict" /\ Then(t, ask \o <<v>>)
      BY <1>3, <2>3, OpsTyped DEF CheckStart, Op
    <3>3. /\ ask \in Seq(Ops) /\ Len(ask) = Len(as)
          /\ \A i \in DOMAIN ask : ask[i].op = "ask"
      <4>1. \A a \in Addrs : Op("ask", a, NoKey, "") \in Ops /\ Op("ask", a, NoKey, "").op = "ask"
        BY OpsTyped DEF Op
      <4> HIDE DEF as
      <4>2. ask \in [1..Len(as) -> Ops] /\ \A i \in DOMAIN ask : ask[i].op = "ask"
        BY <3>1, <4>1
      <4> HIDE DEF ask
      <4>3. DOMAIN ask = 1..Len(as) /\ ask \in Seq(Ops)
        BY <3>1, <4>2, ListIs
      <4> QED
        BY <3>1, <4>2, <4>3, ListIs
    <3> HIDE DEF as, v, ask
    <3> DEFINE ops == ask \o <<v>>
    <3>4. /\ ops \in Seq(Ops) /\ Len(ops) = Len(ask) + 1 /\ DOMAIN ops = 1..(Len(ask) + 1)
          /\ Len(ask) \in Nat /\ ops[Len(ask) + 1] = v
          /\ \A i \in DOMAIN ask : ops[i] = ask[i] /\ i \in 1..Len(ask)
          /\ \A i \in DOMAIN ops : i \in DOMAIN ask \/ i = Len(ask) + 1
      BY <3>2, <3>3, AppendedOp
    <3> HIDE DEF ops
    <3>5. \A i \in DOMAIN ops : \/ ops[i].op = "ask" /\ i < Len(ask) + 1
                                \/ ops[i].op = "verdict"
      <4> SUFFICES ASSUME NEW i \in DOMAIN ops
                   PROVE  (ops[i].op = "ask" /\ i < Len(ask) + 1) \/ ops[i].op = "verdict"
        OBVIOUS
      <4>1. CASE i \in DOMAIN ask
        <5>1. ops[i].op = "ask" /\ i \in 1..Len(ask)
          BY <3>3, <3>4, <4>1
        <5> QED
          BY <3>4, <5>1
      <4>2. CASE i = Len(ask) + 1
        BY <3>2, <3>4, <4>2
      <4> QED
        BY <3>4, <4>1, <4>2
    <3>6. ops[Len(ask) + 1].op = "verdict" /\ Len(ask) + 1 \in DOMAIN ops
      BY <3>2, <3>4
    <3>7. Working("start", ops)
      BY <3>5, <3>6 DEF Working, Checks, Answering, Preparing, Searching
    <3> QED
      BY <2>1, <3>2, <3>4, <3>7 DEF Works, ops
  <2> QED
    BY <1>3, <2>1, <2>2, <2>3 DEF CheckStart
<1> QED
  BY <1>1, <1>2, <1>3

LEMMA StartWorks ==
  ASSUME TypeOK
  PROVE  /\ ImportFromAddrBook(UI) =>
              Works(UI, <<Op("ctor", It(UI).a, contact[It(UI).a], "import")>>)
         /\ StartLocate => Works(UI, <<>>) \/ Works(UI, <<Op("ctor", It(UI).a, NoKey, It(UI).p)>>)
<1>1. ASSUME NEW o \in Ops, o.op = "ctor", Then(UI, <<o>>), prog[UI] # <<>>,
             It(UI).op \in {"mark", "search"}
      PROVE  Works(UI, <<o>>)
  <2>1. <<o>> \in Seq(Ops) /\ DOMAIN <<o>> = {1} /\ <<o>>[1] = o
    BY Lists
  <2>2. \A h \in {"mark", "search"} : Working(h, <<o>>)
    BY <1>1, <2>1 DEF Working, Checks, Answering, Preparing, Searching
  <2>3. It(UI) = prog[UI][1]
    BY <1>1, HeadTyped, ThreadsDiffer
  <2> QED
    BY <1>1, <2>1, <2>2, <2>3 DEF Works
<1>2. ASSUME ImportFromAddrBook(UI)
      PROVE  Works(UI, <<Op("ctor", It(UI).a, contact[It(UI).a], "import")>>)
  <2> DEFINE o == Op("ctor", It(UI).a, contact[It(UI).a], "import")
  <2>1. prog[UI] # <<>> /\ It(UI).op = "mark" /\ Then(UI, <<o>>)
    BY <1>2 DEF ImportFromAddrBook, Is, It
  <2>2. It(UI).a \in Contacts /\ contact[It(UI).a] \in Configurable
    BY <2>1, HeadTyped, ThreadsDiffer DEF Ops, AboutContact, TypeOK, CacheTypes
  <2>3. o \in Ops /\ o.op = "ctor"
    BY <2>2, OpsTyped DEF Op
  <2> HIDE DEF o
  <2>4. Works(UI, <<o>>)
    BY <1>1, <2>1, <2>3
  <2> QED
    BY <2>4 DEF o
<1>3. ASSUME StartLocate
      PROVE  Works(UI, <<>>) \/ Works(UI, <<Op("ctor", It(UI).a, NoKey, It(UI).p)>>)
  <2> DEFINE o == Op("ctor", It(UI).a, NoKey, It(UI).p)
  <2>1. prog[UI] # <<>> /\ It(UI).op = "search" /\ (Then(UI, <<>>) \/ Then(UI, <<o>>))
    BY <1>3 DEF StartLocate, Is, It
  <2>2. \/ It(UI).a \in Addrs /\ It(UI).p = "locate"
        \/ It(UI).a = Sender /\ It(UI).p = "secret"
    BY <2>1, HeadTyped, ThreadsDiffer DEF Ops, Startable
  <2>3. o \in Ops /\ o.op = "ctor"
    BY <2>2, OpsTyped DEF Op
  <2> HIDE DEF o
  <2>4. CASE Then(UI, <<>>)
    BY <2>1, <2>4, WorksOn, ThreadsDiffer
  <2>5. CASE Then(UI, <<o>>)
    BY <1>1, <2>1, <2>3, <2>5 DEF o
  <2> QED
    BY <2>1, <2>4, <2>5 DEF o
<1> QED
  BY <1>2, <1>3

\* What is put before the search: a mark for each contact that is imported
Imported == { a \in ToImport(recips) : imports[a] < MaxImports }

\* Contacts to import from, and the search after them
Marking(ops) ==
  /\ ops[Len(ops)].op = "oomdata" /\ Len(ops) \in DOMAIN ops
  /\ \A i \in DOMAIN ops : i < Len(ops) => ops[i].op = "mark" /\ imports[ops[i].a] < MaxImports
  /\ \A i, j \in DOMAIN ops : i < Len(ops) /\ j < Len(ops) /\ ops[i].a = ops[j].a => i = j

LEMMA CheckAddressBookWorks ==
  ASSUME TypeOK, CheckAddressBook
  PROVE  /\ prog[UI] # <<>> /\ It(UI).op = "resolve"
         /\ \E ops \in Seq(Ops) : Works(UI, ops) /\ Marking(ops)
<1> DEFINE as == SetToSeq(Imported)
           marks == [i \in DOMAIN as |-> Op("mark", as[i], NoKey, "")]
           last == Op("oomdata", "", NoKey, "")
<1>1. prog[UI] # <<>> /\ It(UI).op = "resolve" /\ It(UI) = prog[UI][1]
  BY HeadTyped, ThreadsDiffer DEF CheckAddressBook, Is, It
<1>2. Then(UI, marks \o <<last>>)
  BY DEF CheckAddressBook, Imported
<1>3. \A a \in Imported : a \in Contacts /\ a \in Addrs /\ imports[a] < MaxImports
  BY DEF Imported, ToImport, ToCheck, TypeOK, MailTypes
<1>4. IsFiniteSet(Imported)
  BY <1>3, FiniteAddrs
<1> HIDE DEF Imported
<1>5. PICK m \in Nat : /\ DOMAIN as = 1..m
                       /\ \A i \in 1..m : as[i] \in Imported
                       /\ \A i, j \in 1..m : as[i] = as[j] => i = j
  BY <1>4, SetAsSeq
<1>6. \A a \in Contacts : Op("mark", a, NoKey, "") \in Ops
                          /\ Op("mark", a, NoKey, "").op = "mark" /\ Op("mark", a, NoKey, "").a = a
  BY OpsTyped DEF Op
<1> HIDE DEF as
<1> DEFINE D == 1..m
<1>d. DOMAIN as = D /\ (\A i \in D : as[i] \in Imported) /\ \A i, j \in D : as[i] = as[j] => i = j
  BY <1>5
<1> HIDE DEF D
<1>7. /\ marks \in [D -> Ops]
      /\ \A i \in D : marks[i].op = "mark" /\ marks[i].a = as[i]
  BY <1>3, <1>d, <1>6
<1>8. last \in Ops /\ last.op = "oomdata"
  BY OpsTyped DEF Op
<1> HIDE DEF marks, last
<1> DEFINE ops == marks \o <<last>>
<1>9. /\ ops \in Seq(Ops) /\ Len(ops) = m + 1 /\ Len(ops) \in DOMAIN ops /\ ops[Len(ops)] = last
      /\ \A i \in D : ops[i] = marks[i] /\ i \in DOMAIN ops
      /\ \A i \in DOMAIN ops : i \in D \/ i = Len(ops)
      /\ \A i \in DOMAIN ops : i < Len(ops) => i \in D
  <2>1. marks \in Seq(Ops) /\ Len(marks) = m /\ DOMAIN marks = 1..m
    BY <1>7, ListIs DEF D
  <2>2. /\ ops \in Seq(Ops) /\ Len(ops) = m + 1 /\ DOMAIN ops = 1..(m + 1) /\ ops[m + 1] = last
        /\ \A i \in 1..m : ops[i] = marks[i]
    BY <1>8, <2>1, AppendedOp
  <2> HIDE DEF ops
  <2> QED
    BY <2>2 DEF D
<1> HIDE DEF ops
<1>11. ASSUME NEW i \in D
       PROVE  /\ ops[i].op = "mark" /\ ops[i].a = as[i]
              /\ imports[ops[i].a] < MaxImports
  <2>1. ops[i] = marks[i] /\ as[i] \in Imported
    BY <1>d, <1>9
  <2>2. ops[i].op = "mark" /\ ops[i].a = as[i]
    BY <1>7, <2>1
  <2>3. imports[as[i]] < MaxImports
    BY <1>3, <2>1
  <2> QED
    BY <2>2, <2>3
<1>12. ASSUME NEW i \in D, NEW j \in D, ops[i].a = ops[j].a
       PROVE  i = j
  BY <1>d, <1>11, <1>12
<1>13. \A i \in DOMAIN ops : ops[i].op = "mark" \/ (ops[i].op = "oomdata" /\ i = Len(ops))
  <2> SUFFICES ASSUME NEW i \in DOMAIN ops
               PROVE  ops[i].op = "mark" \/ (ops[i].op = "oomdata" /\ i = Len(ops))
    OBVIOUS
  <2>1. CASE i \in D
    <3>1. ops[i].op = "mark"
      BY <1>11, <2>1
    <3> QED
      BY <3>1
  <2>2. CASE i = Len(ops)
    <3>1. ops[i] = last
      BY <1>9, <2>2
    <3> QED
      BY <1>8, <2>2, <3>1
  <2> QED
    BY <1>9, <2>1, <2>2
<1>14. Working("resolve", ops)
  BY <1>13 DEF Working, Checks, Answering, Preparing, Searching
<1>15. Works(UI, ops)
  BY <1>1, <1>2, <1>9, <1>14 DEF Works, ops
<1> QED
  <2>1. ops[Len(ops)].op = "oomdata" /\ Len(ops) \in DOMAIN ops
    BY <1>8, <1>9
  <2>2. \A i \in DOMAIN ops : i < Len(ops) => ops[i].op = "mark" /\ imports[ops[i].a] < MaxImports
    BY <1>9, <1>11
  <2>3. \A i, j \in DOMAIN ops : i < Len(ops) /\ j < Len(ops) /\ ops[i].a = ops[j].a => i = j
    BY <1>9, <1>12
  <2>4. Marking(ops)
    BY <2>1, <2>2, <2>3 DEF Marking
  <2> QED
    BY <1>1, <1>9, <1>15, <2>4
-----------------------------------------------------------------------------
(* The order of the lists is kept.                                         *)

\* A thread that goes on
LEMMA WorksInOrder ==
  ASSUME TypeOK, Ordered, NEW t \in Threads, NEW ops \in Seq(Ops), Works(t, ops)
  PROVE  /\ prog' \in [Threads -> Seq(Ops)] /\ Ordered'
         /\ Pushed(prog[t], ops, prog'[t])
         /\ \A u \in Threads : u # t => prog'[u] = prog[u]
<1>1. /\ prog' \in [Threads -> Seq(Ops)] /\ Pushed(prog[t], ops, prog'[t])
      /\ \A u \in Threads : u # t => prog'[u] = prog[u]
  BY ThenPushes DEF Works
<1>2. prog[t] \in Seq(Ops) /\ InOrder(prog[t]) /\ prog[t] # <<>>
  BY DEF TypeOK, Ordered, Works
<1>3. InOrder(prog'[t])
  BY <1>1, <1>2, WorkOrdered DEF Works
<1> QED
  BY <1>1, <1>3 DEF Ordered

\* The last operation of a thread goes on with ops
LEMMA LastGoesOn ==
  ASSUME TypeOK, NEW t \in Threads, prog[t] # <<>>, Len(prog[t]) = 1,
         NEW ops \in Seq(Ops), Then(t, ops)
  PROVE  /\ prog' \in [Threads -> Seq(Ops)]
         /\ \A u \in Threads : u # t => prog'[u] = prog[u]
         /\ Len(prog'[t]) = Len(ops) /\ DOMAIN prog'[t] = DOMAIN ops
         /\ \A i \in DOMAIN ops : prog'[t][i] = ops[i]
<1>1. prog[t] \in Seq(Ops) /\ DOMAIN prog[t] = {1}
  BY DEF TypeOK
<1>2. /\ prog' \in [Threads -> Seq(Ops)] /\ Pushed(prog[t], ops, prog'[t])
      /\ \A u \in Threads : u # t => prog'[u] = prog[u]
  BY ThenPushes
<1>3. Len(prog'[t]) = Len(ops) /\ DOMAIN prog'[t] = DOMAIN ops
  BY <1>2 DEF Pushed
<1> QED
  BY <1>2, <1>3 DEF Pushed

\* Lists in order that are written down
LEMMA ShortInOrder ==
  /\ InOrder(<<>>)
  /\ \A o \in Ops : o.op \in {"list", "resolve"} => InOrder(<<o>>)
  /\ \A o \in Ops : o.op \notin Checks \cup {"leave", "resolve", "oomdata"} =>
        /\ InOrder(<<o, Leave>>)
        /\ \A x \in Ops : x.op = "secret" => InOrder(<<o, x, Leave>>)
<1> USE DEF InOrder, ChecksLast, AnswerComes, LeavesLast, AtOnce
<1>1. InOrder(<<>>)
  BY Lists
<1>2. ASSUME NEW o \in Ops, o.op \in {"list", "resolve"} PROVE InOrder(<<o>>)
  BY <1>2, Lists DEF Checks, Answering, Searching
<1>3. Leave \in Ops /\ Leave.op = "leave"
  BY OpsTyped DEF Leave, Op
<1>4. ASSUME NEW o \in Ops, o.op \notin Checks \cup {"leave", "resolve", "oomdata"}
      PROVE  InOrder(<<o, Leave>>)
  BY <1>3, <1>4, Lists DEF Checks, Answering, Searching
<1>5. ASSUME NEW o \in Ops, o.op \notin Checks \cup {"leave", "resolve", "oomdata"},
             NEW x \in Ops, x.op = "secret"
      PROVE  InOrder(<<o, x, Leave>>)
  <2>1. /\ DOMAIN <<o, x, Leave>> = {1, 2, 3} /\ Len(<<o, x, Leave>>) = 3
        /\ <<o, x, Leave>>[1] = o /\ <<o, x, Leave>>[2] = x /\ <<o, x, Leave>>[3] = Leave
    OBVIOUS
  <2> QED
    BY <1>3, <1>5, <2>1 DEF Checks, Answering, Searching
<1> QED
  BY <1>1, <1>2, <1>4, <1>5

\* Who leaves a mail has nothing left to do but the check
LEMMA LeaveInOrder ==
  ASSUME TypeOK, Ordered, NEW t \in Threads, LeaveMail(t)
  PROVE  /\ prog' \in [Threads -> Seq(Ops)] /\ Ordered'
         /\ \A u \in Threads : u # t => prog'[u] = prog[u]
         /\ Len(prog[t]) = 1 /\ prog[t][1] = Leave
         /\ \A i \in DOMAIN prog'[t] : prog'[t][i].op \in {"start", "freedtor"}
         /\ open /\ IsLast(count - 1) /\ ~manual =>
              \E i \in DOMAIN prog'[t] : prog'[t][i].op = "start"
<1> DEFINE a == Op("start", "", NoKey, "")
           b == Op("freedtor", "", NoKey, "")
<1>1. prog[t] # <<>> /\ It(t).op = "leave" /\ It(t) = prog[t][1] /\ prog[t][1] = Leave
      /\ 1 \in DOMAIN prog[t] /\ InOrder(prog[t])
  <2>1. prog[t] # <<>> /\ It(t).op = "leave"
    BY DEF LeaveMail, Is, It
  <2>2. It(t) = prog[t][1] /\ It(t) \in Ops /\ 1 \in DOMAIN prog[t]
    BY <2>1, HeadTyped
  <2>3. It(t) = Leave
    BY <2>1, <2>2 DEF Ops
  <2> QED
    BY <2>1, <2>2, <2>3 DEF Ordered
<1>2. Len(prog[t]) = 1
  BY <1>1 DEF InOrder, LeavesLast
<1>3. a \in Ops /\ b \in Ops /\ a.op = "start" /\ b.op = "freedtor"
  BY OpsTyped DEF Op
<1>4. CASE open /\ IsLast(count - 1) /\ ~manual
  <2>1. Then(t, <<a>> \o <<b>>)
    BY <1>4 DEF LeaveMail, Check
  <2> HIDE DEF a, b
  <2>2. Then(t, <<a, b>>)
    BY <1>3, <2>1, Joins
  <2>3. /\ <<a, b>> \in Seq(Ops) /\ DOMAIN <<a, b>> = {1, 2} /\ Len(<<a, b>>) = 2
        /\ <<a, b>>[1] = a /\ <<a, b>>[2] = b
    BY <1>3, Lists
  <2>4. /\ prog' \in [Threads -> Seq(Ops)] /\ \A u \in Threads : u # t => prog'[u] = prog[u]
        /\ DOMAIN prog'[t] = {1, 2} /\ prog'[t][1].op = "start" /\ prog'[t][2].op = "freedtor"
    BY <1>1, <1>2, <1>3, <2>2, <2>3, LastGoesOn
  <2>5. InOrder(prog'[t])
    BY <2>4 DEF InOrder, ChecksLast, AnswerComes, LeavesLast, AtOnce, Checks, Answering, Searching
  <2> QED
    BY <1>1, <1>2, <2>4, <2>5 DEF Ordered
<1>5. CASE ~(open /\ IsLast(count - 1) /\ ~manual)
  <2>1. Then(t, <<>>)
    BY <1>5 DEF LeaveMail
  <2>2. /\ prog' \in [Threads -> Seq(Ops)] /\ \A u \in Threads : u # t => prog'[u] = prog[u]
        /\ DOMAIN prog'[t] = {}
    BY <1>1, <1>2, <2>1, Lists, LastGoesOn
  <2>3. InOrder(prog'[t])
    BY <2>2 DEF InOrder, ChecksLast, AnswerComes, LeavesLast, AtOnce
  <2> QED
    BY <1>1, <1>2, <1>5, <2>2, <2>3 DEF Ordered
<1> QED
  BY <1>4, <1>5

\* A check that fails: what is left of the list is the answer and what comes after
LEMMA FailInOrder ==
  ASSUME TypeOK, Ordered, NEW t \in Threads, AskKey(t),
         ~ValidEnough(keyMap[<<"pgp", It(t).a>>])
  PROVE  /\ prog' \in [Threads -> Seq(Ops)] /\ Ordered'
         /\ \A u \in Threads : u # t => prog'[u] = prog[u]
         /\ \A i \in DOMAIN prog'[t] : prog'[t][i].op \in Answering
         /\ prog[t] # <<>> /\ prog'[t] # <<>>
         /\ \A i \in DOMAIN prog[t] : prog[t][i].op \in Answering
<1> DEFINE s == prog[t]
           n == CHOOSE i \in DOMAIN s : s[i].op = "verdict"
           v == Op("verdict", "", "no", "")
           rest == SubSeq(s, n + 1, Len(s))
           r == <<v>> \o rest
<1>1. /\ s # <<>> /\ s[1].op = "key" /\ s \in Seq(Ops) /\ InOrder(s)
      /\ Len(s) \in Nat /\ Len(s) >= 1 /\ DOMAIN s = 1..Len(s)
  <2>1. s # <<>> /\ It(t).op = "key"
    BY DEF AskKey, Is, It
  <2> QED
    BY <2>1, HeadTyped DEF Ordered
<1>2. prog' = [prog EXCEPT ![t] = r]
  BY DEF AskKey
<1>3. n \in DOMAIN s /\ s[n].op = "verdict"
  <2>1. \E i \in DOMAIN s : s[i].op = "verdict"
    BY <1>1 DEF InOrder, AnswerComes
  <2> QED
    BY <2>1
<1>4. \A i \in DOMAIN s : s[i].op \in Answering
  BY <1>1 DEF InOrder, ChecksLast, Checks, Answering
<1>5. v \in Ops /\ v.op = "verdict"
  BY OpsTyped DEF Op
<1> HIDE DEF n, v, s
<1>6. /\ rest \in Seq(Ops) /\ Len(rest) = Len(s) - n /\ Len(rest) \in Nat
      /\ \A i \in 1..Len(rest) : rest[i] = s[n + i]
  <2>1. n \in 1..Len(s) /\ Len(s) \in Nat /\ s \in Seq(Ops)
    BY <1>1, <1>3
  <2>2. rest \in Seq(Ops)
    BY <2>1
  <2>3. Len(rest) = Len(s) - n
    BY <2>1
  <2>4. \A i \in 1..(Len(s) - n) : rest[i] = s[n + i]
    BY <2>1
  <2> HIDE DEF rest
  <2> QED
    BY <2>1, <2>2, <2>3, <2>4
<1> HIDE DEF rest
<1>7. /\ r \in Seq(Ops) /\ Len(r) = Len(rest) + 1 /\ DOMAIN r = 1..(Len(s) - n + 1) /\ r[1] = v
      /\ \A i \in 1..(Len(s) - n + 1) : i # 1 => r[i] = rest[i - 1]
  BY <1>5, <1>6
<1> HIDE DEF r
<1>8. \A i \in DOMAIN r : i # 1 => i + n - 1 \in DOMAIN s /\ r[i] = s[i + n - 1]
  <2> SUFFICES ASSUME NEW i \in DOMAIN r, i # 1
               PROVE  i + n - 1 \in DOMAIN s /\ r[i] = s[i + n - 1]
    OBVIOUS
  <2>1. i \in 2..(Len(s) - n + 1) /\ n \in 1..Len(s)
    BY <1>1, <1>3, <1>7
  <2>2. i - 1 \in 1..Len(rest) /\ n + (i - 1) = i + n - 1 /\ i + n - 1 \in 1..Len(s)
    BY <1>1, <1>6, <2>1
  <2> QED
    BY <1>1, <1>6, <1>7, <2>2
<1>9. \A i \in DOMAIN r : r[i].op \in Answering
  BY <1>4, <1>5, <1>7, <1>8 DEF Answering
<1>10. AnswerComes(r)
  <2> SUFFICES ASSUME NEW i \in DOMAIN r, r[i].op \in {"ask", "key"}
               PROVE  \E j \in DOMAIN r : i < j /\ r[j].op = "verdict"
    BY DEF AnswerComes
  <2>1. i # 1
    BY <1>5, <1>7
  <2>2. i + n - 1 \in DOMAIN s /\ s[i + n - 1].op \in {"ask", "key"}
    BY <1>8, <2>1
  <2>3. PICK j \in DOMAIN s : i + n - 1 < j /\ s[j].op = "verdict"
    BY <1>1, <2>2 DEF InOrder, AnswerComes
  <2>4. /\ j - n + 1 \in DOMAIN r /\ i < j - n + 1 /\ j - n + 1 # 1
        /\ (j - n + 1) + n - 1 = j
    <3>1. n \in Int /\ j \in Int /\ i \in Int /\ j <= Len(s) /\ i >= 1 /\ n >= 1
      BY <1>1, <1>3, <1>7, <2>3
    <3>2. j - n + 1 >= 1 /\ j - n + 1 <= Len(s) - n + 1 /\ i < j - n + 1
      BY <1>1, <2>3, <3>1
    <3>3. j - n + 1 \in 1..(Len(s) - n + 1)
      BY <1>1, <3>1, <3>2
    <3>4. j - n + 1 \in DOMAIN r
      BY <1>7, <3>3
    <3>5. j - n + 1 # 1
      BY <1>7, <2>1, <3>1, <3>2
    <3>6. (j - n + 1) + n - 1 = j
      BY <3>1
    <3> QED
      BY <3>2, <3>4, <3>5, <3>6
  <2> QED
    BY <1>8, <2>3, <2>4
<1>11. InOrder(r)
  <2>1. \A op \in Answering : op \notin {"leave", "ctor", "jobdone", "underfpr", "await",
                                         "resolve", "oomdata"} \cup Searching
    BY DEF Answering, Searching
  <2>2. ChecksLast(r) /\ LeavesLast(r) /\ AtOnce(r)
    BY <1>9, <2>1 DEF ChecksLast, LeavesLast, AtOnce
  <2> QED
    BY <1>10, <2>2 DEF InOrder
<1>12. prog \in [Threads -> Seq(Ops)] /\ r # <<>>
  <2>1. prog \in [Threads -> Seq(Ops)]
    BY DEF TypeOK
  <2>2. 1 \in DOMAIN r
    BY <1>1, <1>3, <1>7
  <2> QED
    BY <2>1, <2>2, Lists
<1>13. prog'[t] = r /\ prog' \in [Threads -> Seq(Ops)] /\ \A u \in Threads : u # t => prog'[u] = prog[u]
  BY <1>2, <1>7, <1>12
<1> QED
  BY <1>1, <1>4, <1>9, <1>11, <1>12, <1>13 DEF Ordered, s

\* The search that updateOOMData_o starts, and the check after it
LEMMA SearchInOrder ==
  ASSUME TypeOK, Ordered, UIPrograms, UpdateOOMData
  PROVE  /\ prog' \in [Threads -> Seq(Ops)] /\ Ordered' /\ UIPrograms'
         /\ \A u \in Threads : u # UI => prog'[u] = prog[u]
         /\ \A i \in DOMAIN prog'[UI] : prog'[UI][i].op \in {"search", "start"}
         /\ ~manual => \E i \in DOMAIN prog'[UI] : prog'[UI][i].op = "start"
<1> DEFINE as == <<Sender>> \o SetToSeq(recips)
           f == Op("search", Sender, NoKey, "secret")
           F == [i \in DOMAIN as |-> Op("search", as[i], NoKey, "locate")]
           c == Op("start", "", NoKey, "")
           ops == <<f>> \o F
<1>1. prog[UI] # <<>> /\ prog[UI][1].op = "oomdata" /\ Len(prog[UI]) = 1
  <2>1. prog[UI] # <<>> /\ It(UI).op = "oomdata"
    BY DEF UpdateOOMData, Is, It
  <2>2. It(UI) = prog[UI][1] /\ 1 \in DOMAIN prog[UI]
    BY <2>1, HeadTyped, ThreadsDiffer
  <2> QED
    BY <2>1, <2>2, ThreadsDiffer DEF Ordered, InOrder, AtOnce
<1>2. Then(UI, ops \o Check)
  BY DEF UpdateOOMData
<1>3. \A a \in Addrs : Op("search", a, NoKey, "locate") \in Ops /\ Op("search", a, NoKey, "locate").op = "search"
  BY OpsTyped DEF Op
<1>4. f \in Ops /\ f.op = "search" /\ c \in Ops /\ c.op = "start"
  BY OpsTyped DEF Op
<1>5. as \in Seq(Addrs) /\ Len(as) \in Nat /\ DOMAIN as = 1..Len(as)
  <2>1. SetToSeq(recips) \in Seq(recips) /\ recips \subseteq Addrs
    BY SetAsSeq, FiniteAddrs DEF TypeOK, MailTypes
  <2>2. SetToSeq(recips) \in Seq(Addrs)
    BY <2>1
  <2> QED
    BY <2>2, KeyAssumption
<1>6. \A i \in DOMAIN as : as[i] \in Addrs
  BY <1>5
<1> HIDE DEF as
<1>7. F \in [1..Len(as) -> Ops] /\ \A i \in 1..Len(as) : F[i].op = "search"
  BY <1>3, <1>5, <1>6
<1> HIDE DEF F, f
<1>8. F \in Seq(Ops) /\ \A i \in DOMAIN F : F[i].op = "search"
  BY <1>5, <1>7, ListIs
<1>9. ops \in Seq(Ops) /\ \A i \in DOMAIN ops : ops[i].op = "search"
  <2>1. <<f>> \in Seq(Ops) /\ Len(<<f>>) = 1 /\ <<f>>[1] = f
    BY <1>4, Lists
  <2>2. /\ ops \in Seq(Ops) /\ DOMAIN ops = 1..(Len(F) + 1) /\ Len(F) \in Nat /\ DOMAIN F = 1..Len(F)
        /\ ops[1] = f /\ \A i \in 1..(Len(F) + 1) : i # 1 => ops[i] = F[i - 1] /\ i - 1 \in DOMAIN F
    BY <1>8, <2>1
  <2> HIDE DEF ops
  <2> QED
    BY <1>4, <1>8, <2>2
<1> HIDE DEF ops, c
<1>10. CASE manual
  <2>1. Then(UI, ops)
    BY <1>2, <1>9, <1>10 DEF Check
  <2>2. /\ prog' \in [Threads -> Seq(Ops)] /\ \A u \in Threads : u # UI => prog'[u] = prog[u]
        /\ \A i \in DOMAIN prog'[UI] : prog'[UI][i].op = "search"
    BY <1>1, <1>9, <2>1, LastGoesOn, ThreadsDiffer
  <2>3. InOrder(prog'[UI])
    BY <2>2 DEF InOrder, ChecksLast, AnswerComes, LeavesLast, AtOnce, Checks, Answering, Searching
  <2> QED
    BY <1>10, <2>2, <2>3, ThreadsDiffer DEF Ordered, UIPrograms, Preparing
<1>11. CASE ~manual
  <2> DEFINE all == ops \o <<c>>
  <2>1. Then(UI, all)
    BY <1>2, <1>11 DEF Check, c
  <2>2. /\ all \in Seq(Ops) /\ DOMAIN all = 1..(Len(ops) + 1) /\ Len(ops) \in Nat /\ Len(all) = Len(ops) + 1
        /\ all[Len(ops) + 1] = c
        /\ \A i \in 1..(Len(ops) + 1) : i \in DOMAIN ops \/ i = Len(ops) + 1
        /\ \A i \in DOMAIN ops : all[i] = ops[i]
    BY <1>4, <1>9, AppendedOp
  <2> HIDE DEF all
  <2>3. /\ prog' \in [Threads -> Seq(Ops)] /\ \A u \in Threads : u # UI => prog'[u] = prog[u]
        /\ DOMAIN prog'[UI] = DOMAIN all /\ Len(prog'[UI]) = Len(all)
        /\ \A i \in DOMAIN all : prog'[UI][i] = all[i]
    BY <1>1, <2>1, <2>2, LastGoesOn, ThreadsDiffer
  <2> DEFINE n == Len(ops) + 1
  <2>4. /\ \A i \in DOMAIN prog'[UI] : prog'[UI][i].op = "search" \/ (prog'[UI][i].op = "start" /\ i = n)
        /\ DOMAIN prog'[UI] = 1..n /\ n \in Nat /\ n >= 1 /\ prog'[UI][n].op = "start"
    BY <1>4, <1>9, <2>2, <2>3
  <2> HIDE DEF n
  <2>5. InOrder(prog'[UI])
    BY <2>4 DEF InOrder, ChecksLast, AnswerComes, LeavesLast, AtOnce, Checks, Answering, Searching
  <2>6. Ordered'
    BY <2>3, <2>5 DEF Ordered
  <2>7. \A i \in DOMAIN prog'[UI] : prog'[UI][i].op \in {"search", "start"}
    BY <2>4
  <2>8. UIPrograms'
    BY <2>7 DEF UIPrograms, Preparing, Checks
  <2>9. n \in DOMAIN prog'[UI]
    BY <2>4
  <2> QED
    BY <2>3, <2>4, <2>6, <2>7, <2>8, <2>9
<1> QED
  BY <1>10, <1>11 DEF TypeOK

\* A thread that starts: one for the search, one for the job of a key
LEMMA StartInOrder ==
  ASSUME TypeOK, Ordered, UIPrograms, StartsNew, StartThread
  PROVE  LET nt == NewThread(It(UI).a, It(UI).k, It(UI).p)
         IN /\ prog' \in [Threads -> Seq(Ops)] /\ Ordered' /\ UIPrograms'
            /\ prog[UI] # <<>> /\ It(UI).op = "ctor"
            /\ Pushed(prog[UI], <<>>, prog'[UI])
            /\ nt \in Threads \ {UI} /\ prog[nt] = <<>> /\ prog'[nt] # <<>>
            /\ prog'[nt][Len(prog'[nt])] = Leave
            /\ \A i \in DOMAIN prog'[nt] : prog'[nt][i].op \in {"secret", "locate", "import", "leave"}
            /\ \A u \in Threads : u # UI /\ u # nt => prog'[u] = prog[u]
<1> DEFINE o == It(UI)
           nt == NewThread(o.a, o.k, o.p)
           w == Work(o.a, o.k, o.p)
<1>1. /\ prog[UI] # <<>> /\ o.op = "ctor" /\ o \in Ops /\ o = prog[UI][1]
      /\ prog[UI] \in Seq(Ops)
  BY HeadTyped, ThreadsDiffer DEF StartThread, Is, It
<1>0. \/ o.p = "locate" /\ o.a \in Addrs /\ o.k = NoKey
      \/ o.p = "secret" /\ o.a = Sender /\ o.k = NoKey
      \/ o.p = "import" /\ o.a \in Contacts /\ o.k \in Configurable
  BY <1>1 DEF Ops, Startable
<1>2. nt \in Locators \cup Importers /\ prog[nt] = <<>>
  BY <1>1 DEF StartsNew, Is, It
<1>3. nt \in Threads /\ nt # UI
  BY <1>2, ThreadsDiffer DEF Threads
<1>4. w \in Seq(Ops) /\ w # <<>> /\ w[Len(w)] = Leave /\ InOrder(w)
      /\ \A i \in DOMAIN w : w[i].op \in {"secret", "locate", "import", "leave"}
  <2>1. Leave \in Ops /\ Leave.op = "leave"
    BY OpsTyped DEF Leave, Op
  <2>2. CASE o.p = "secret"
    <3> DEFINE a == Op("secret", o.a, o.k, "pgp")
               b == Op("secret", o.a, o.k, "cms")
    <3>1. w = (<<a>> \o (IF Opts.smime THEN <<b>> ELSE <<>>)) \o <<Leave>>
      BY <2>2 DEF Work
    <3>2. a \in Ops /\ b \in Ops /\ a.op = "secret" /\ b.op = "secret"
      BY <1>0, <2>2, OpsTyped DEF Op, Protos
    <3> HIDE DEF a, b
    <3>3. w = <<a, b, Leave>> \/ w = <<a, Leave>>
      <4>1. <<a, b>> \o <<Leave>> = <<a, b, Leave>>
        BY <2>1, <3>2, JoinThree
      <4> QED
        BY <2>1, <3>1, <3>2, <4>1, Joins
    <3>4. CASE w = <<a, Leave>>
      BY <2>1, <3>2, <3>4, Lists, ShortInOrder DEF Checks, Answering
    <3>5. CASE w = <<a, b, Leave>>
      <4>1. /\ <<a, b, Leave>> \in Seq(Ops) /\ Len(<<a, b, Leave>>) = 3
            /\ DOMAIN <<a, b, Leave>> = {1, 2, 3} /\ <<a, b, Leave>>[1] = a
            /\ <<a, b, Leave>>[2] = b /\ <<a, b, Leave>>[3] = Leave
        BY <2>1, <3>2
      <4>2. w \in Seq(Ops) /\ w # <<>> /\ w[Len(w)] = Leave /\ InOrder(w)
            /\ \A i \in DOMAIN w : w[i].op \in {"secret", "locate", "import", "leave"}
        <5>1. InOrder(<<a, b, Leave>>)
          BY <3>2, ShortInOrder DEF Checks, Answering
        <5>2. <<a, b, Leave>> # <<>>
          OBVIOUS
        <5>3. \A i \in {1, 2, 3} : <<a, b, Leave>>[i].op \in {"secret", "leave"}
          BY <2>1, <3>2, <4>1
        <5> HIDE DEF w
        <5> QED
          BY <3>5, <4>1, <5>1, <5>2, <5>3
      <4> QED
        BY <4>2
    <3> QED
      BY <3>3, <3>4, <3>5
  <2>3. CASE o.p # "secret"
    <3> DEFINE a == Op(o.p, o.a, o.k, o.p)
    <3>1. w = <<a>> \o <<Leave>>
      BY <2>3 DEF Work
    <3>2. a \in Ops /\ a.op \in {"locate", "import"}
      BY <1>0, <2>3, OpsTyped DEF Op
    <3> HIDE DEF a
    <3>3. w = <<a, Leave>>
      BY <2>1, <3>1, <3>2, Joins
    <3> QED
      BY <2>1, <3>2, <3>3, Lists, ShortInOrder DEF Checks, Answering
  <2> QED
    BY <2>2, <2>3
<1>5. /\ prog' \in [Threads -> Seq(Ops)] /\ prog'[UI] = Tail(prog[UI]) /\ prog'[nt] = w
      /\ \A u \in Threads : u # UI /\ u # nt => prog'[u] = prog[u]
  <2>1. prog' = [prog EXCEPT ![UI] = Tail(@), ![nt] = w]
    BY DEF StartThread
  <2>2. Tail(prog[UI]) \in Seq(Ops)
    BY <1>1
  <2> HIDE DEF nt, w
  <2> QED
    BY <1>3, <1>4, <2>1, <2>2, ThreadsDiffer DEF TypeOK
<1>6. Pushed(prog[UI], <<>>, prog'[UI])
  <2>1. \A s \in Seq(Ops) : <<>> \o s = s
    OBVIOUS
  <2>2. <<>> \o Tail(prog[UI]) = Tail(prog[UI])
    BY <1>1, <2>1
  <2>3. Pushed(prog[UI], <<>>, <<>> \o Tail(prog[UI]))
    BY <1>1, PushedIs, Lists
  <2> QED
    BY <1>5, <2>2, <2>3
<1>7. InOrder(prog'[UI])
  <2>1. Working("ctor", <<>>)
    BY Lists DEF Working
  <2> QED
    <3>1. prog[UI] \in Seq(Ops) /\ prog[UI] # <<>> /\ prog[UI][1].op = "ctor" /\ InOrder(prog[UI])
      BY <1>1, ThreadsDiffer DEF Ordered
    <3>2. <<>> \in Seq(Ops)
      BY Lists
    <3> QED
      BY <1>6, <2>1, <3>1, <3>2, WorkOrdered
<1>8. UIPrograms'
  BY <1>1, <1>6, Lists DEF UIPrograms, Pushed
<1> QED
  BY <1>1, <1>2, <1>3, <1>4, <1>5, <1>6, <1>7, <1>8 DEF Ordered

LEMMA UpdateInOrder ==
  ASSUME TypeOK, Ordered, UIPrograms, NEW t \in Threads, Update(t)
  PROVE  \E u \in Updaters :
            /\ prog' \in [Threads -> Seq(Ops)] /\ Ordered' /\ UIPrograms'
            /\ prog[t] # <<>> /\ It(t).op = "update" /\ It(t).k \in Keys /\ t # UI
            /\ Pushed(prog[t], <<>>, prog'[t])
            /\ u \in Threads /\ u # t /\ u # UI /\ prog[u] = <<>>
            /\ prog'[u] = <<Op("list", "", It(t).k, "")>>
            /\ \A x \in Threads : x # t /\ x # u => prog'[x] = prog[x]
<1> DEFINE o == Op("list", "", It(t).k, "")
<1>0. PICK n \in 1..MaxUpdates :
        /\ prog[<<"update", It(t).k, n>>] = <<>>
        /\ prog' = [prog EXCEPT ![t] = Tail(@), ![<<"update", It(t).k, n>>] = <<o>>]
  BY DEF Update
<1> DEFINE u == <<"update", It(t).k, n>>
<1>1. /\ prog[t] # <<>> /\ It(t).op = "update" /\ It(t) = prog[t][1] /\ prog[t] \in Seq(Ops)
      /\ It(t).k \in Keys /\ 1 \in DOMAIN prog[t]
  <2>1. prog[t] # <<>> /\ It(t).op = "update"
    BY DEF Update, Is, It
  <2>2. /\ It(t) = prog[t][1] /\ prog[t] \in Seq(Ops) /\ 1 \in DOMAIN prog[t] /\ It(t) \in Ops
    BY <2>1, HeadTyped
  <2>3. It(t).k \in Keys
    BY <2>1, <2>2 DEF Ops, AboutKey
  <2> QED
    BY <2>1, <2>2, <2>3
<1>2. t # UI
  BY <1>1 DEF UIPrograms, Preparing, Checks, Answering
<1>3. u \in Threads /\ u \in Updaters /\ u # UI /\ u # t /\ prog[u] = <<>>
  BY <1>0, <1>1, ThreadsDiffer
<1>4. o \in Ops /\ o.op = "list"
  BY <1>1, OpsTyped DEF Op
<1>5. <<o>> \in Seq(Ops) /\ InOrder(<<o>>)
  BY <1>4, Lists, ShortInOrder
<1>6. Tail(prog[t]) \in Seq(Ops) /\ Pushed(prog[t], <<>>, Tail(prog[t]))
  <2>1. \A s \in Seq(Ops) : <<>> \o s = s
    OBVIOUS
  <2>2. Tail(prog[t]) \in Seq(Ops) /\ <<>> \o Tail(prog[t]) = Tail(prog[t])
    BY <1>1, <2>1
  <2>3. Pushed(prog[t], <<>>, <<>> \o Tail(prog[t]))
    BY <1>1, PushedIs, Lists
  <2> QED
    BY <2>2, <2>3
<1>7. /\ prog' \in [Threads -> Seq(Ops)] /\ prog'[t] = Tail(prog[t]) /\ prog'[u] = <<o>>
      /\ \A x \in Threads : x # t /\ x # u => prog'[x] = prog[x]
  <2>1. prog' = [prog EXCEPT ![t] = Tail(@), ![u] = <<o>>]
    BY <1>0
  <2> HIDE DEF u, o
  <2> QED
    BY <1>3, <1>5, <1>6, <2>1 DEF TypeOK
<1>8. InOrder(prog'[t])
  <2>1. Working("update", <<>>)
    BY Lists DEF Working
  <2>2. InOrder(prog[t])
    BY DEF Ordered
  <2>3. <<>> \in Seq(Ops)
    BY Lists
  <2> QED
    BY <1>1, <1>6, <1>7, <2>1, <2>2, <2>3, WorkOrdered
<1>9. prog'[UI] = prog[UI]
  BY <1>2, <1>3, <1>7, ThreadsDiffer
<1>10. Ordered' /\ UIPrograms'
  <2> HIDE DEF u, o
  <2> QED
    BY <1>1, <1>5, <1>7, <1>8, <1>9 DEF Ordered, UIPrograms
<1> HIDE DEF u
<1> QED
  BY <1>1, <1>2, <1>3, <1>6, <1>7, <1>10

\* The UI thread begins: it was idle
LEMMA BeginInOrder ==
  ASSUME TypeOK, Ordered, UIPrograms, RecipientAdded \/ MarkMimeAction
  PROVE  /\ prog' \in [Threads -> Seq(Ops)] /\ Ordered' /\ UIPrograms'
         /\ \A u \in Threads : u # UI => prog'[u] = prog[u]
         /\ \/ prog' = prog
            \/ prog[UI] = <<>> /\ (prog'[UI] = <<>> \/ prog'[UI] = LocateKeys)
<1> DEFINE o == Op("resolve", "", NoKey, "")
<1>1. o \in Ops /\ o.op = "resolve"
  BY OpsTyped DEF Op
<1>2. /\ LocateKeys \in Seq(Ops) /\ InOrder(LocateKeys) /\ InOrder(<<>>) /\ <<>> \in Seq(Ops)
      /\ \A i \in DOMAIN LocateKeys : LocateKeys[i].op = "resolve"
  <2> HIDE DEF o
  <2>1. LocateKeys = <<o>>
    BY DEF LocateKeys, o
  <2>2. <<o>> \in Seq(Ops) /\ DOMAIN <<o>> = {1} /\ <<o>>[1] = o /\ <<>> \in Seq(Ops)
    BY <1>1, Lists
  <2>3. InOrder(<<o>>) /\ InOrder(<<>>)
    BY <1>1, ShortInOrder
  <2> QED
    BY <1>1, <2>1, <2>2, <2>3
<1>3. PICK s \in Seq(Ops) : prog' = [prog EXCEPT ![UI] = s]
        /\ \/ s = prog[UI]
           \/ prog[UI] = <<>> /\ (s = <<>> \/ s = LocateKeys)
  <2>1. prog[UI] \in Seq(Ops)
    BY ThreadsDiffer DEF TypeOK
  <2>2. CASE RecipientAdded
    <3>1. prog' = [prog EXCEPT ![UI] = IF open /\ Idle THEN LocateKeys ELSE prog[UI]]
      BY <2>2 DEF RecipientAdded
    <3> QED
      BY <1>2, <2>1, <3>1 DEF Idle
  <2>3. CASE MarkMimeAction
    <3>1. prog' = [prog EXCEPT ![UI] = IF flags' = 3 THEN LocateKeys ELSE <<>>] /\ Idle
      BY <2>3 DEF MarkMimeAction
    <3> QED
      BY <1>2, <2>1, <3>1 DEF Idle
  <2> QED
    BY <2>2, <2>3
<1>4. /\ prog' \in [Threads -> Seq(Ops)] /\ prog'[UI] = s
      /\ \A u \in Threads : u # UI => prog'[u] = prog[u]
  BY <1>3, ThreadsDiffer DEF TypeOK
<1>5. s = prog[UI] => prog' = prog
  BY <1>3 DEF TypeOK
<1>6. InOrder(s) /\ Ordered'
  BY <1>2, <1>3, <1>4, ThreadsDiffer DEF Ordered
<1>7. UIPrograms'
  BY <1>2, <1>3, <1>4, <1>5, Lists DEF UIPrograms, Preparing
<1> QED
  BY <1>3, <1>4, <1>5, <1>6, <1>7

\* Steps that leave the lists alone
Quiet == ChangeRecipients \/ CloseMail \/ EditContact
         \/ (\E answer \in {"do", "dont"} : SetDoAutosecure(answer))

\* The kinds of steps
LEMMA ThreadSteps ==
  ASSUME TypeOK, NEW t \in Threads, ThreadStep(t)
  PROVE  \/ \E ops \in Seq(Ops) : Works(t, ops)
         \/ LeaveMail(t) \/ Update(t)
         \/ AskKey(t) /\ ~ValidEnough(keyMap[<<"pgp", It(t).a>>])
<1>1. CASE SetKey(t) \/ SetKeySecret(t) \/ InsertUnderKeyLock(t)
  BY <1>1, SetKeyWorks DEF Works
<1>2. CASE Insert(t) \/ InsertSkey(t) \/ List(t) \/ JobDone(t)
  BY <1>2, InsertWorks DEF Works
<1>3. CASE Read(t) \/ Await(t)
  BY <1>3, ReadWorks DEF Works
<1>4. CASE Import(t) \/ SetOverride(t) \/ Unmark(t)
  BY <1>4, ImportWorks DEF Works
<1>5. CASE Locate(t) \/ Certs(t) \/ LocateSecret(t)
  BY <1>5, SearchWorks
<1>6. CASE CheckStart(t) \/ Ask(t) \/ Verdict(t) \/ FreeDtor(t)
  BY <1>6, CheckWorks DEF Works
<1>7. CASE AskKey(t) /\ ValidEnough(keyMap[<<"pgp", It(t).a>>])
  BY <1>7, WorksOn DEF AskKey, Is, It, Works
<1> QED
  BY <1>1, <1>2, <1>3, <1>4, <1>5, <1>6, <1>7 DEF ThreadStep

LEMMA StepKinds ==
  ASSUME TypeOK, Ordered, Next
  PROVE  \/ prog' = prog /\ Quiet
         \/ \E t \in Threads :
              \/ \E ops \in Seq(Ops) : Works(t, ops)
              \/ LeaveMail(t) \/ Update(t)
              \/ AskKey(t) /\ ~ValidEnough(keyMap[<<"pgp", It(t).a>>])
         \/ UpdateOOMData \/ StartThread \/ RecipientAdded \/ MarkMimeAction
<1>1. CASE \E t \in Threads : ThreadStep(t)
  BY <1>1, ThreadSteps
<1>2. CASE ImportFromAddrBook(UI) \/ StartLocate
  BY <1>2, StartWorks, ThreadsDiffer DEF Works
<1>3. CASE CheckAddressBook
  BY <1>3, CheckAddressBookWorks, ThreadsDiffer
<1>4. CASE ChangeRecipients \/ CloseMail \/ EditContact
           \/ (\E answer \in {"do", "dont"} : SetDoAutosecure(answer))
  BY <1>4 DEF ChangeRecipients, CloseMail, EditContact, SetDoAutosecure, Quiet
<1> QED
  BY <1>1, <1>2, <1>3, <1>4 DEF Next

LEMMA OrderedStep ==
  ASSUME TypeOK, Ordered, UIPrograms, StartsNew, [Next]_vars
  PROVE  prog' \in [Threads -> Seq(Ops)] /\ Ordered' /\ UIPrograms'
<1>1. CASE prog' = prog
  BY <1>1 DEF TypeOK, Ordered, UIPrograms
<1>2. ASSUME NEW t \in Threads, NEW ops \in Seq(Ops), Works(t, ops)
      PROVE  prog' \in [Threads -> Seq(Ops)] /\ Ordered' /\ UIPrograms'
  <2>1. /\ prog' \in [Threads -> Seq(Ops)] /\ Ordered' /\ Pushed(prog[t], ops, prog'[t])
        /\ \A u \in Threads : u # t => prog'[u] = prog[u]
    BY <1>2, WorksInOrder
  <2>2. CASE t # UI
    BY <2>1, <2>2, ThreadsDiffer DEF UIPrograms
  <2>3. CASE t = UI
    <3>1. prog[UI][1].op \in Preparing \cup Checks
      BY <1>2, <2>3, HeadTyped, ThreadsDiffer DEF Works, UIPrograms
    <3>2. \A i \in DOMAIN ops : ops[i].op \in Preparing \cup Checks
      BY <1>2, <2>3, <3>1 DEF Works, Working
    <3> QED
      BY <2>1, <2>3, <3>2 DEF UIPrograms, Pushed
  <2> QED
    BY <2>1, <2>2, <2>3
<1>3. ASSUME NEW t \in Threads, LeaveMail(t) \/ (AskKey(t) /\ ~ValidEnough(keyMap[<<"pgp", It(t).a>>]))
      PROVE  prog' \in [Threads -> Seq(Ops)] /\ Ordered' /\ UIPrograms'
  <2>1. /\ prog' \in [Threads -> Seq(Ops)] /\ Ordered' /\ \A u \in Threads : u # t => prog'[u] = prog[u]
        /\ \A i \in DOMAIN prog'[t] : prog'[t][i].op \in Checks
    BY <1>3, LeaveInOrder, FailInOrder DEF Checks, Answering
  <2> QED
    BY <2>1, ThreadsDiffer DEF UIPrograms
<1>4. CASE UpdateOOMData \/ StartThread \/ RecipientAdded \/ MarkMimeAction
  BY <1>4, SearchInOrder, StartInOrder, BeginInOrder
<1>5. CASE \E t \in Threads : Update(t)
  BY <1>5, UpdateInOrder
<1> QED
  BY <1>1, <1>2, <1>3, <1>4, <1>5, StepKinds DEF vars
-----------------------------------------------------------------------------
(* Types.                                                                  *)

LEMMA HeadFields ==
  ASSUME TypeOK, NEW t \in Threads, prog[t] # <<>>
  PROVE  /\ It(t).op \in AboutKey => It(t).k \in Keys
         /\ It(t).op \in Inserting => It(t).p \in {"public", "secret"}
         /\ It(t).op \in AboutAddr => It(t).a \in Addrs
         /\ It(t).op \in AboutContact => It(t).a \in Contacts
         /\ It(t).op = "override" => It(t).k \in Keys \cup {NoKey}
         /\ It(t).op \in {"secret", "setkey", "setskey"} => It(t).p \in Protos
  BY HeadTyped DEF Ops

LEMMA SetSkeyTyped ==
  ASSUME TypeOK, NEW k \in Keys, SetSkey(k)
  PROVE  skeyMap' \in Entries
<1>1. ASSUME NEW old \in Keys \cup {NoKey, Unseen}
      PROVE  CompareSkeys(old, k) \in Keys \cup {NoKey, Unseen}
  BY DEF CompareSkeys
<1> QED
  BY <1>1 DEF SetSkey, TypeOK, CacheTypes, Entries

LEMMA LocksTyped ==
  ASSUME TypeOK, NEW t \in Threads, NEW l
  PROVE  Take(t, l) \/ Give(l) => lock' \in [{"keycache", "fpr", "dtor"} -> Threads \cup {Nobody}]
  BY DEF Take, Give, TypeOK, CacheTypes

LEMMA CacheTypesStep ==
  ASSUME TypeOK, [Next]_vars
  PROVE  CacheTypes'
<1> DEFINE Locks == [{"keycache", "fpr", "dtor"} -> Threads \cup {Nobody}]
<1>1. ASSUME NEW t \in Threads, ThreadStep(t) PROVE CacheTypes'
  <2> USE DEF CacheTypes, cacheVars, mailVars, bookVars
  <2>1. CASE SetKey(t)
    <3>1. It(t).k \in Keys
      BY <2>1, HeadFields DEF SetKey, Is, It, AboutKey
    <3> QED
      BY <2>1, <3>1, LocksTyped DEF SetKey, TypeOK, Entries
  <2>2. CASE SetKeySecret(t)
    <3>1. It(t).k \in Keys
      BY <2>2, HeadFields DEF SetKeySecret, Is, It, AboutKey
    <3> QED
      BY <2>2, <3>1, LocksTyped, SetSkeyTyped DEF SetKeySecret, TypeOK
  <2>3. CASE InsertUnderKeyLock(t) \/ Insert(t) \/ InsertSkey(t)
    <3>1. It(t).k \in Keys /\ It(t).p \in {"public", "secret"}
      BY <2>3, HeadFields DEF InsertUnderKeyLock, Insert, InsertSkey, Is, It, AboutKey, Inserting
    <3>2. Merged(It(t).k, It(t).p) \in {"absent", "public", "secret"}
      BY <3>1 DEF Merged
    <3> QED
      BY <2>3, <3>1, <3>2, LocksTyped, SetSkeyTyped DEF InsertUnderKeyLock, Insert, InsertSkey, TypeOK
  <2>4. CASE Update(t) \/ List(t) \/ JobDone(t) \/ Read(t) \/ Await(t)
    <3>1. It(t).k \in Keys
      BY <2>4, HeadFields DEF Update, List, JobDone, Read, Await, Is, It, AboutKey
    <3>2. CASE Update(t)
      BY <3>1, <3>2 DEF Update, TypeOK
    <3> QED
      BY <2>4, <3>1, <3>2 DEF List, JobDone, Read, Await, TypeOK
  <2>5. CASE Import(t)
    BY <2>5 DEF Import, TypeOK
  <2>6. CASE SetOverride(t) \/ Unmark(t)
    <3>1. It(t).a \in Contacts /\ (SetOverride(t) => It(t).k \in Keys \cup {NoKey})
      BY <2>6, HeadFields DEF SetOverride, Unmark, Is, It, AboutContact
    <3>2. CASE SetOverride(t)
      <4>1. {It(t).k} \ {NoKey} \subseteq Keys
        BY <3>1, <3>2
      <4>2. overrides' \in [Contacts -> SUBSET Keys]
        BY <3>1, <3>2, <4>1 DEF SetOverride, TypeOK
      <4> QED
        BY <3>2, <4>2 DEF SetOverride, TypeOK
    <3>3. CASE Unmark(t)
      BY <3>3 DEF Unmark, TypeOK
    <3> QED
      BY <2>6, <3>2, <3>3
  <2>7. CASE Locate(t) \/ Certs(t) \/ LocateSecret(t)
    BY <2>7, KeyAssumption DEF Locate, Certs, LocateSecret, KeysOf, TypeOK, Keys
  <2>8. CASE LeaveMail(t) \/ FreeDtor(t) \/ CheckStart(t) \/ AskKey(t) \/ Verdict(t)
    BY <2>8, LocksTyped DEF LeaveMail, FreeDtor, CheckStart, AskKey, Verdict, TypeOK
  <2>9. CASE Ask(t)
    BY <2>9 DEF Ask, TypeOK
  <2> QED
    BY <1>1, <2>1, <2>2, <2>3, <2>4, <2>5, <2>6, <2>7, <2>8, <2>9 DEF ThreadStep
<1>2. CASE ImportFromAddrBook(UI)
  <2>1. It(UI).a \in Contacts
    BY <1>2, HeadFields, ThreadsDiffer DEF ImportFromAddrBook, Is, It, AboutContact
  <2> QED
    BY <1>2, <2>1 DEF ImportFromAddrBook, TypeOK, CacheTypes, cacheVars, mailVars, bookVars
<1>3. CASE StartThread \/ CheckAddressBook \/ UpdateOOMData \/ ChangeRecipients \/ RecipientAdded
           \/ MarkMimeAction \/ CloseMail \/ (\E answer \in {"do", "dont"} : SetDoAutosecure(answer))
  BY <1>3, LocksTyped, ThreadsDiffer
     DEF StartThread, CheckAddressBook, UpdateOOMData, ChangeRecipients, RecipientAdded, MarkMimeAction,
         CloseMail, SetDoAutosecure, TypeOK, CacheTypes, cacheVars, mailVars, bookVars
<1>4. CASE StartLocate
  BY <1>4, LocksTyped, ThreadsDiffer DEF StartLocate, TypeOK, CacheTypes, cacheVars, bookVars, Entries
<1>5. CASE EditContact
  BY <1>5 DEF EditContact, EditKey, EditorClosed, UpdateKey, TypeOK, CacheTypes, cacheVars
<1>6. CASE UNCHANGED vars
  BY <1>6 DEF vars, TypeOK, CacheTypes, cacheVars, bookVars
<1> QED
  BY <1>1, <1>2, <1>3, <1>4, <1>5, <1>6 DEF Next

LEMMA MailTypesStep ==
  ASSUME TypeOK, [Next]_vars
  PROVE  MailTypes'
<1> USE DEF MailTypes, mailVars, bounds, ghosts
<1>1. ASSUME NEW t \in Threads, ThreadStep(t) PROVE MailTypes'
  <2>1. CASE SetKey(t) \/ SetKeySecret(t) \/ SetOverride(t)
    <3>1. It(t).a \in Addrs
      BY <2>1, HeadFields, KeyAssumption DEF SetKey, SetKeySecret, SetOverride, Is, It, AboutAddr, AboutContact
    <3> QED
      BY <2>1, <3>1 DEF SetKey, SetKeySecret, SetOverride, TypeOK
  <2>2. CASE InsertUnderKeyLock(t) \/ Insert(t) \/ InsertSkey(t) \/ Update(t) \/ JobDone(t) \/ Read(t)
    BY <2>2 DEF InsertUnderKeyLock, Insert, InsertSkey, Update, JobDone, Read, TypeOK
  <2>3. CASE Import(t) \/ Unmark(t) \/ Locate(t) \/ Certs(t) \/ LocateSecret(t) \/ FreeDtor(t)
             \/ Ask(t) \/ AskKey(t)
    BY <2>3 DEF Import, Unmark, Locate, Certs, LocateSecret, FreeDtor, Ask, AskKey, TypeOK
  <2>4. CASE List(t) \/ Await(t)
    <3>1. It(t).k \in Keys
      BY <2>4, HeadFields DEF List, Await, Is, It, AboutKey
    <3>2. missed' \subseteq Keys /\ failed' \subseteq Keys
      BY <2>4, <3>1 DEF List, Await, TypeOK
    <3> QED
      BY <2>4, <3>2 DEF List, Await, TypeOK
  <2>6. CASE LeaveMail(t)
    <3>1. count' \in Nat
      <4>1. count' = (IF open /\ count > 0 THEN count - 1 ELSE count)
        BY <2>6 DEF LeaveMail
      <4>2. count \in Nat
        BY DEF TypeOK
      <4> QED
        BY <4>1, <4>2
    <3>2. UNCHANGED <<imports, recips, cached, open, manual, first, flags, posted, overruled, unseen, missed, failed>>
      BY <2>6 DEF LeaveMail
    <3> QED
      BY <3>1, <3>2 DEF TypeOK
  <2>5. CASE CheckStart(t) \/ Verdict(t)
    <3>1. ASSUME NEW yes, ToMessage(yes) PROVE posted' \in [added : Nat, do : Nat, dont : Nat]
      <4>1. CASE yes
        BY <3>1, <4>1 DEF ToMessage, TypeOK
      <4>2. CASE ~yes
        BY <3>1, <4>2 DEF ToMessage, TypeOK
      <4> QED
        BY <4>1, <4>2
    <3> QED
      BY <2>5, <3>1 DEF CheckStart, Verdict, TypeOK
  <2> QED
    BY <1>1, <2>1, <2>2, <2>3, <2>4, <2>5, <2>6 DEF ThreadStep
<1>2. CASE ImportFromAddrBook(UI)
  <2>1. It(UI).a \in Contacts
    BY <1>2, HeadFields, ThreadsDiffer DEF ImportFromAddrBook, Is, It, AboutContact
  <2>2. imports' \in [Contacts -> Nat]
    BY <1>2, <2>1 DEF ImportFromAddrBook, TypeOK
  <2> QED
    BY <1>2, <2>2 DEF ImportFromAddrBook, TypeOK
<1>3. CASE StartThread
  BY <1>3 DEF StartThread, Joined, TypeOK
<1>4. CASE CheckAddressBook \/ UpdateOOMData \/ CloseMail
  BY <1>4 DEF CheckAddressBook, UpdateOOMData, CloseMail, TypeOK
<1>5. CASE ChangeRecipients \/ RecipientAdded
  BY <1>5 DEF ChangeRecipients, RecipientAdded, TypeOK
<1>6. CASE MarkMimeAction
  BY <1>6 DEF MarkMimeAction, TypeOK
<1>7. CASE \E answer \in {"do", "dont"} : SetDoAutosecure(answer)
  <2>1. PICK answer \in {"do", "dont"} : SetDoAutosecure(answer)
    BY <1>7
  <2>2. posted' \in [added : Nat, do : Nat, dont : Nat]
    <3>1. CASE answer = "do"
      BY <2>1, <3>1 DEF SetDoAutosecure, TypeOK
    <3>2. CASE answer = "dont"
      BY <2>1, <3>2 DEF SetDoAutosecure, TypeOK
    <3> QED
      BY <2>1, <3>1, <3>2
  <2>3. flags' \in {0, 3} /\ manual' \in BOOLEAN /\ first' \in BOOLEAN /\ overruled' \in BOOLEAN
    BY <2>1 DEF SetDoAutosecure, TypeOK
  <2> QED
    BY <2>1, <2>2, <2>3 DEF SetDoAutosecure, TypeOK
<1>8. CASE StartLocate \/ EditContact
  BY <1>8 DEF StartLocate, EditContact, TypeOK
<1>9. CASE UNCHANGED vars
  BY <1>9 DEF vars, TypeOK
<1> QED
  BY <1>1, <1>2, <1>3, <1>4, <1>5, <1>6, <1>7, <1>8, <1>9 DEF Next
-----------------------------------------------------------------------------
(* How the maps change.                                                    *)

SetSkeyOf(k) == k \in Keys /\ SetSkey(k)

LEMMA MapSteps ==
  ASSUME TypeOK, [Next]_vars
  PROVE  /\ \/ UNCHANGED keyMap
            \/ \E e \in Protos \X Addrs, k \in Keys \cup {NoKey} : keyMap' = [keyMap EXCEPT ![e] = k]
         /\ \/ UNCHANGED skeyMap
            \/ \E k \in Keys : SetSkeyOf(k)
            \/ \E e \in Protos \X Addrs : skeyMap[e] = Unseen /\ skeyMap' = [skeyMap EXCEPT ![e] = NoKey]
         /\ \/ UNCHANGED fprMap
            \/ \E k \in Keys, how \in {"public", "secret"} :
                  fprMap' = [fprMap EXCEPT ![k] = Merged(k, how)]
<1> USE DEF cacheVars
<1>1. ASSUME NEW t \in Threads, SetKey(t) \/ SetKeySecret(t)
      PROVE  /\ UNCHANGED fprMap
             /\ \/ UNCHANGED skeyMap /\ \E e \in Protos \X Addrs, k \in Keys \cup {NoKey} : keyMap' = [keyMap EXCEPT ![e] = k]
                \/ UNCHANGED keyMap /\ \E k \in Keys : SetSkeyOf(k)
  <2>1. It(t).k \in Keys /\ It(t).a \in Addrs /\ prog[t] # <<>>
    BY <1>1, HeadFields DEF SetKey, SetKeySecret, Is, It, AboutKey, AboutAddr
  <2>2. CASE SetKeySecret(t)
    BY <2>1, <2>2 DEF SetKeySecret, SetSkeyOf
  <2>3. CASE SetKey(t)
    <3>1. It(t).p \in Protos
      BY <2>1, <2>3, HeadFields DEF SetKey, Is, It
    <3>2. <<It(t).p, It(t).a>> \in Protos \X Addrs
      BY <2>1, <3>1
    <3> QED
      BY <2>1, <2>3, <3>2 DEF SetKey
  <2> QED
    BY <1>1, <2>2, <2>3
<1>2. ASSUME NEW t \in Threads, InsertUnderKeyLock(t) \/ Insert(t) \/ InsertSkey(t)
      PROVE  /\ UNCHANGED keyMap
             /\ UNCHANGED skeyMap \/ \E k \in Keys : SetSkeyOf(k)
             /\ \/ UNCHANGED fprMap
                \/ \E k \in Keys, how \in {"public", "secret"} :
                      fprMap' = [fprMap EXCEPT ![k] = Merged(k, how)]
  <2>1. It(t).k \in Keys /\ It(t).p \in {"public", "secret"}
    BY <1>2, HeadFields DEF InsertUnderKeyLock, Insert, InsertSkey, Is, It, AboutKey, Inserting
  <2> QED
    BY <1>2, <2>1 DEF InsertUnderKeyLock, Insert, InsertSkey, SetSkeyOf
<1>3. ASSUME NEW t \in Threads, ThreadStep(t)
      PROVE  \/ SetKey(t) \/ SetKeySecret(t)
             \/ InsertUnderKeyLock(t) \/ Insert(t) \/ InsertSkey(t)
             \/ UNCHANGED <<keyMap, skeyMap, fprMap>>
  BY <1>3 DEF ThreadStep, Update, List, JobDone, Read, Await, Import, SetOverride, Unmark, Locate, Certs,
              LocateSecret, LeaveMail, FreeDtor, CheckStart, Ask, AskKey, Verdict
<1>4. ASSUME StartLocate
      PROVE  /\ UNCHANGED fprMap
             /\ \/ UNCHANGED keyMap
                \/ \E e \in Protos \X Addrs : keyMap' = [keyMap EXCEPT ![e] = NoKey]
             /\ \/ UNCHANGED skeyMap
                \/ \E e \in Protos \X Addrs : skeyMap[e] = Unseen /\ skeyMap' = [skeyMap EXCEPT ![e] = NoKey]
  <2>1. It(UI).a \in Addrs
    BY <1>4, HeadFields, ThreadsDiffer DEF StartLocate, Is, It, AboutAddr
  <2>2. <<"pgp", It(UI).a>> \in Protos \X Addrs
    BY <2>1 DEF Protos
  <2> QED
    BY <1>4, <2>2 DEF StartLocate
<1>5. ImportFromAddrBook(UI) \/ StartThread \/ ChangeRecipients \/ RecipientAdded \/ CheckAddressBook
      \/ UpdateOOMData \/ MarkMimeAction \/ CloseMail \/ EditContact
      \/ (\E answer \in {"do", "dont"} : SetDoAutosecure(answer)) \/ UNCHANGED vars
        => UNCHANGED <<keyMap, skeyMap, fprMap>>
  BY DEF ImportFromAddrBook, StartThread, ChangeRecipients, RecipientAdded, CheckAddressBook, UpdateOOMData,
         MarkMimeAction, CloseMail, EditContact, SetDoAutosecure, vars
<1> QED
  BY <1>1, <1>2, <1>3, <1>4, <1>5 DEF Next

\* An address that was searched stays so, and imports are counted where they begin
LEMMA SearchedStays ==
  ASSUME TypeOK, [Next]_vars
  PROVE  /\ \A e \in Protos \X Addrs : keyMap[e] # Unseen => keyMap'[e] # Unseen
         /\ \A e \in Protos \X Addrs : skeyMap[e] # Unseen => skeyMap'[e] # Unseen
         /\ \A k \in Keys : InCache(k) => InCache(k)'
         /\ ImportFromAddrBook(UI) \/ UNCHANGED imports
<1>1. Unseen \notin Keys /\ NoKey # Unseen
  BY KeyAssumption DEF Unseen, NoKey, Keys
<1>2. keyMap \in Entries /\ skeyMap \in Entries /\ fprMap \in [Keys -> {"absent", "public", "secret"}]
  BY DEF TypeOK, CacheTypes
<1>3. ASSUME NEW e \in Protos \X Addrs, keyMap[e] # Unseen PROVE keyMap'[e] # Unseen
  BY <1>1, <1>2, <1>3, MapSteps DEF Entries
<1>4. ASSUME NEW e \in Protos \X Addrs, skeyMap[e] # Unseen PROVE skeyMap'[e] # Unseen
  <2>1. ASSUME NEW k \in Keys, NEW old PROVE old # Unseen => CompareSkeys(old, k) # Unseen
    BY <1>1 DEF CompareSkeys
  <2>2. ASSUME NEW k \in Keys, SetSkeyOf(k) PROVE skeyMap'[e] # Unseen
    BY <1>2, <1>4, <2>1, <2>2 DEF SetSkeyOf, SetSkey, Entries
  <2> QED
    BY <1>1, <1>2, <1>4, <2>2, MapSteps DEF Entries
<1>5. ASSUME NEW k \in Keys, InCache(k) PROVE InCache(k)'
  BY <1>2, <1>5, MapSteps DEF InCache, Merged
<1>6. ImportFromAddrBook(UI) \/ UNCHANGED imports
  <2>1. ASSUME NEW t \in Threads, ThreadStep(t) PROVE UNCHANGED imports
    BY <2>1 DEF ThreadStep, SetKey, SetKeySecret, InsertUnderKeyLock, Insert, InsertSkey, Update, List,
                JobDone, Read, Await, Import, SetOverride, Unmark, Locate, Certs, LocateSecret, LeaveMail,
                FreeDtor, CheckStart, Ask, AskKey, Verdict, bounds
  <2> QED
    BY <2>1 DEF Next, StartThread, StartLocate, ChangeRecipients, RecipientAdded, CheckAddressBook,
                UpdateOOMData, MarkMimeAction, CloseMail, EditContact, SetDoAutosecure, vars, bounds
<1> QED
  BY <1>3, <1>4, <1>5, <1>6

\* Which thread is started
LEMMA NewThreadIs ==
  ASSUME TypeOK, Is(UI, "ctor")
  PROVE  LET nt == NewThread(It(UI).a, It(UI).k, It(UI).p)
         IN \/ It(UI).p = "locate" /\ It(UI).a \in Addrs /\ nt = <<"locate", It(UI).a>>
            \/ It(UI).p = "secret" /\ It(UI).a = Sender /\ nt = <<"secret", Sender>>
            \/ It(UI).p = "import" /\ It(UI).a \in Contacts /\ nt = <<"import", It(UI).a, imports[It(UI).a]>>
<1>1. It(UI) \in Ops /\ It(UI).op = "ctor"
  BY HeadTyped, ThreadsDiffer DEF Is, It
<1>2. \/ It(UI).p = "locate" /\ It(UI).a \in Addrs
      \/ It(UI).p = "secret" /\ It(UI).a = Sender
      \/ It(UI).p = "import" /\ It(UI).a \in Contacts
  BY <1>1 DEF Ops, Startable
<1> QED
  BY <1>2 DEF NewThread

\* Who has nothing to do is started, or goes on having nothing to do
LEMMA IdleStays ==
  ASSUME TypeOK, Ordered, UIPrograms, StartsNew, [Next]_vars,
         NEW t \in Locators \cup Importers, prog[t] = <<>>
  PROVE  \/ prog'[t] = <<>>
         \/ StartThread /\ t = NewThread(It(UI).a, It(UI).k, It(UI).p)
<1>1. t \in Threads /\ t # UI /\ t \notin Updaters
  BY ThreadsDiffer DEF Threads
<1>2. ASSUME NEW u \in Threads, NEW ops \in Seq(Ops), Works(u, ops) PROVE prog'[t] = <<>>
  BY <1>1, <1>2, WorksInOrder DEF Works
<1>3. ASSUME NEW u \in Threads, LeaveMail(u) PROVE prog'[t] = <<>>
  <2>1. prog[u] # <<>>
    BY <1>3 DEF LeaveMail, Is
  <2> QED
    BY <1>1, <1>3, <2>1, LeaveInOrder
<1>4. ASSUME NEW u \in Threads, AskKey(u), ~ValidEnough(keyMap[<<"pgp", It(u).a>>]) PROVE prog'[t] = <<>>
  BY <1>1, <1>4, FailInOrder
<1>5. ASSUME NEW u \in Threads, Update(u) PROVE prog'[t] = <<>>
  BY <1>1, <1>5, UpdateInOrder
<1>6. CASE StartThread
  BY <1>1, <1>6, StartInOrder
<1>7. CASE UpdateOOMData \/ RecipientAdded \/ MarkMimeAction
  BY <1>1, <1>7, SearchInOrder, BeginInOrder
<1> QED
  BY <1>2, <1>3, <1>4, <1>5, <1>6, <1>7, StepKinds DEF vars

\* The UI thread begins to locate keys for these two only
LEMMA UIIdleStays ==
  ASSUME TypeOK, Ordered, UIPrograms, StartsNew, [Next]_vars,
         prog[UI] = <<>>, ~RecipientAdded, ~MarkMimeAction
  PROVE  prog'[UI] = prog[UI]
<1>1. UI \in Threads
  BY ThreadsDiffer
<1>2. ASSUME NEW u \in Threads, NEW ops \in Seq(Ops), Works(u, ops) PROVE prog'[UI] = prog[UI]
  BY <1>1, <1>2, WorksInOrder DEF Works
<1>3. ASSUME NEW u \in Threads, LeaveMail(u) PROVE prog'[UI] = prog[UI]
  <2>1. prog[u] # <<>>
    BY <1>3 DEF LeaveMail, Is
  <2> QED
    BY <1>1, <1>3, <2>1, LeaveInOrder
<1>4. ASSUME NEW u \in Threads, AskKey(u), ~ValidEnough(keyMap[<<"pgp", It(u).a>>])
      PROVE  prog'[UI] = prog[UI]
  BY <1>1, <1>4, FailInOrder
<1>5. ASSUME NEW u \in Threads, Update(u) PROVE prog'[UI] = prog[UI]
  BY <1>1, <1>5, UpdateInOrder
<1>6. ~StartThread /\ ~UpdateOOMData
  BY DEF StartThread, UpdateOOMData, Is
<1> QED
  BY <1>2, <1>3, <1>4, <1>5, <1>6, StepKinds DEF vars

\* What a step makes of the list of the UI thread
LEMMA UISteps ==
  ASSUME TypeOK, Ordered, UIPrograms, StartsNew, [Next]_vars
  PROVE  \/ prog'[UI] = prog[UI]
         \/ \A i \in DOMAIN prog'[UI] : prog'[UI][i].op \in Checks \cup {"search", "resolve"}
         \/ /\ prog[UI] # <<>> /\ It(UI).op \in Checks \cup {"mark", "search", "ctor", "resolve"}
            /\ \E ops \in Seq(Ops) :
                 /\ Pushed(prog[UI], ops, prog'[UI])
                 /\ \/ (\A i \in DOMAIN ops : ops[i].op \in Checks) /\ It(UI).op # "resolve"
                    \/ ImportFromAddrBook(UI) /\ ops = <<Op("ctor", It(UI).a, contact[It(UI).a], "import")>>
                    \/ /\ StartLocate /\ ops = <<Op("ctor", It(UI).a, NoKey, It(UI).p)>>
                       /\ It(UI).op = "search"
                    \/ CheckAddressBook /\ Marking(ops)
<1> DEFINE Goal ==
       \/ prog'[UI] = prog[UI]
       \/ \A i \in DOMAIN prog'[UI] : prog'[UI][i].op \in Checks \cup {"search", "resolve"}
       \/ /\ prog[UI] # <<>> /\ It(UI).op \in Checks \cup {"mark", "search", "ctor", "resolve"}
          /\ \E ops \in Seq(Ops) :
               /\ Pushed(prog[UI], ops, prog'[UI])
               /\ \/ (\A i \in DOMAIN ops : ops[i].op \in Checks) /\ It(UI).op # "resolve"
                  \/ ImportFromAddrBook(UI) /\ ops = <<Op("ctor", It(UI).a, contact[It(UI).a], "import")>>
                  \/ /\ StartLocate /\ ops = <<Op("ctor", It(UI).a, NoKey, It(UI).p)>>
                     /\ It(UI).op = "search"
                  \/ CheckAddressBook /\ Marking(ops)
<1> SUFFICES Goal
  OBVIOUS
<1>0. UI \in Threads /\ Answering \subseteq Checks /\ "resolve" \notin Checks
  BY ThreadsDiffer DEF Checks, Answering
<1>1. ASSUME NEW t \in Threads, ThreadStep(t) PROVE Goal
  <2>1. CASE t # UI
    <3>1. prog'[UI] = prog[UI]
      <4>1. ASSUME NEW ops \in Seq(Ops), Works(t, ops) PROVE prog'[UI] = prog[UI]
        BY <1>0, <2>1, <4>1, WorksInOrder
      <4>2. ASSUME Update(t) PROVE prog'[UI] = prog[UI]
        BY <1>0, <2>1, <4>2, UpdateInOrder
      <4>3. ASSUME LeaveMail(t) PROVE prog'[UI] = prog[UI]
        BY <1>0, <2>1, <4>3, LeaveInOrder
      <4>4. ASSUME AskKey(t) /\ ~ValidEnough(keyMap[<<"pgp", It(t).a>>]) PROVE prog'[UI] = prog[UI]
        BY <1>0, <2>1, <4>4, FailInOrder
      <4> QED
        BY <1>1, <4>1, <4>2, <4>3, <4>4, ThreadSteps
    <3> QED
      BY <3>1
  <2>2. CASE t = UI
    <3>1. prog[UI] # <<>> /\ It(UI).op = prog[UI][1].op /\ It(UI).op \in Preparing \cup Checks
      <4>1. prog[UI] # <<>>
        BY <1>1, <2>2 DEF ThreadStep, SetKey, SetKeySecret, InsertUnderKeyLock, Insert, InsertSkey, Update, List,
                JobDone, Read, Await, Import, SetOverride, Unmark, Locate, Certs, LocateSecret, LeaveMail,
                FreeDtor, CheckStart, Ask, AskKey, Verdict, Is
      <4> QED
        BY <1>0, <4>1, HeadTyped DEF UIPrograms
    <3>2. It(UI).op \notin Preparing /\ It(UI).op \in Checks
      BY <1>1, <2>2, <3>1 DEF ThreadStep, SetKey, SetKeySecret, InsertUnderKeyLock, Insert, InsertSkey, Update, List,
                JobDone, Read, Await, Import, SetOverride, Unmark, Locate, Certs, LocateSecret, LeaveMail,
                FreeDtor, CheckStart, Ask, AskKey, Verdict, Is, It, Preparing
    <3>3. ASSUME NEW ops \in Seq(Ops), Works(UI, ops) PROVE Goal
      <4>1. Pushed(prog[UI], ops, prog'[UI])
        BY <1>0, <3>3, WorksInOrder
      <4>2. \A i \in DOMAIN ops : ops[i].op \in Checks
        BY <1>0, <3>1, <3>2, <3>3 DEF Works, Working, Answering
      <4> QED
        BY <1>0, <3>1, <3>2, <4>1, <4>2
    <3>4. ~LeaveMail(UI) /\ ~Update(UI)
      BY <3>2 DEF LeaveMail, Update, Is, It, Checks, Answering
    <3>5. CASE AskKey(UI) /\ ~ValidEnough(keyMap[<<"pgp", It(UI).a>>])
      BY <1>0, <3>5, FailInOrder
    <3> HIDE DEF Goal
    <3> QED
      BY <1>1, <2>2, <3>3, <3>4, <3>5, ThreadSteps
  <2> QED
    BY <2>1, <2>2
<1>2. CASE ImportFromAddrBook(UI)
  <2> DEFINE ops == <<Op("ctor", It(UI).a, contact[It(UI).a], "import")>>
  <2>1. Works(UI, ops) /\ It(UI).op = "mark" /\ prog[UI] # <<>>
    BY <1>2, StartWorks DEF ImportFromAddrBook, Is, It
  <2>2. ops \in Seq(Ops) /\ Pushed(prog[UI], ops, prog'[UI])
    BY <1>0, <2>1, WorksInOrder DEF Works
  <2> HIDE DEF ops
  <2> QED
    BY <1>2, <2>1, <2>2 DEF ops
<1>3. CASE StartLocate
  <2>1. It(UI).op = "search" /\ prog[UI] # <<>>
    BY <1>3 DEF StartLocate, Is, It
  <2>2. ASSUME NEW ops, Works(UI, ops) PROVE ops \in Seq(Ops) /\ Pushed(prog[UI], ops, prog'[UI])
    BY <1>0, <2>2, WorksInOrder DEF Works
  <2>3. CASE Works(UI, <<>>)
    BY <2>1, <2>2, <2>3, Lists
  <2>4. CASE Works(UI, <<Op("ctor", It(UI).a, NoKey, It(UI).p)>>)
    BY <1>3, <2>1, <2>2, <2>4
  <2> QED
    BY <1>3, <2>3, <2>4, StartWorks
<1>4. CASE CheckAddressBook
  <2>1. PICK ops \in Seq(Ops) : Works(UI, ops) /\ Marking(ops)
    BY <1>4, CheckAddressBookWorks
  <2>2. Pushed(prog[UI], ops, prog'[UI])
    BY <1>0, <2>1, WorksInOrder
  <2> QED
    BY <1>4, <2>1, <2>2, CheckAddressBookWorks
<1>5. CASE StartThread
  <2>1. Pushed(prog[UI], <<>>, prog'[UI]) /\ prog[UI] # <<>> /\ It(UI).op = "ctor"
    BY <1>5, StartInOrder
  <2> QED
    BY <2>1, Lists
<1>6. CASE UpdateOOMData \/ RecipientAdded \/ MarkMimeAction
  <2>1. "start" \in Checks
    BY DEF Checks
  <2>2. CASE UpdateOOMData
    BY <2>1, <2>2, SearchInOrder
  <2>3. CASE RecipientAdded \/ MarkMimeAction
    <3>1. DOMAIN LocateKeys = {1} /\ LocateKeys[1].op = "resolve"
      <4>1. LocateKeys = <<Op("resolve", "", NoKey, "")>> /\ Op("resolve", "", NoKey, "") \in Ops
        BY OpsTyped DEF LocateKeys
      <4>2. DOMAIN LocateKeys = {1} /\ LocateKeys[1] = Op("resolve", "", NoKey, "")
        BY <4>1, Lists
      <4>3. Op("resolve", "", NoKey, "").op = "resolve"
        BY DEF Op
      <4> QED
        BY <4>2, <4>3
    <3>2. DOMAIN <<>> = {}
      OBVIOUS
    <3> QED
      BY <2>3, <3>1, <3>2, BeginInOrder
  <2> QED
    BY <1>6, <2>2, <2>3
<1>7. CASE Quiet \/ UNCHANGED vars
  BY <1>7 DEF Quiet, ChangeRecipients, CloseMail, EditContact, SetDoAutosecure, vars
<1> HIDE DEF Goal
<1>8. Goal
  <2>1. CASE Next
    BY <1>1, <1>2, <1>3, <1>4, <1>5, <1>6, <1>7, <2>1 DEF Next, Quiet
  <2> QED
    BY <1>7, <2>1
<1> QED
  BY <1>8
-----------------------------------------------------------------------------
(* Threads are started once.                                               *)

LEMMA NotStartedStep ==
  ASSUME TypeOK, Ordered, UIPrograms, Started, [Next]_vars
  PROVE  NotStarted'
<1>0. StartsNew /\ NotStarted
  BY DEF Started
<1>1. ASSUME NEW t \in Locators \cup Importers, prog[t] = <<>>, prog'[t] # <<>>
      PROVE  /\ StartThread /\ Is(UI, "ctor")
             /\ t = NewThread(It(UI).a, It(UI).k, It(UI).p)
             /\ UNCHANGED <<keyMap, skeyMap, imports>>
  <2>1. StartThread /\ t = NewThread(It(UI).a, It(UI).k, It(UI).p)
    BY <1>0, <1>1, IdleStays
  <2> QED
    BY <2>1 DEF StartThread, cacheVars, bounds
<1>2. \A a \in Addrs : <<"pgp", a>> \in Protos \X Addrs
  BY DEF Protos
<1>3. ASSUME NEW a \in Addrs, keyMap'[<<"pgp", a>>] = Unseen
      PROVE  prog'[<<"locate", a>>] = <<>>
  <2>1. prog[<<"locate", a>>] = <<>> /\ <<"locate", a>> \in Locators
    BY <1>0, <1>2, <1>3, SearchedStays, ThreadsDiffer DEF NotStarted
  <2>2. ASSUME prog'[<<"locate", a>>] # <<>> PROVE FALSE
    <3>1. /\ Is(UI, "ctor") /\ <<"locate", a>> = NewThread(It(UI).a, It(UI).k, It(UI).p)
          /\ UNCHANGED keyMap
      BY <1>1, <2>1, <2>2
    <3>2. It(UI).p = "locate" /\ It(UI).a = a
      <4>1. \A b, c, d : <<"locate", a>> # <<b, c, d>>
        OBVIOUS
      <4>2. <<"locate", a>> # <<"secret", Sender>>
        OBVIOUS
      <4>3. \A b : <<"locate", a>> = <<"locate", b>> => a = b
        OBVIOUS
      <4> QED
        BY <3>1, <4>1, <4>2, <4>3, NewThreadIs
    <3> QED
      BY <1>0, <1>3, <3>1, <3>2 DEF StartsNew
  <2> QED
    BY <2>2
<1>4. ASSUME skeyMap'[<<"pgp", Sender>>] = Unseen
      PROVE  prog'[<<"secret", Sender>>] = <<>>
  <2>1. prog[<<"secret", Sender>>] = <<>> /\ <<"secret", Sender>> \in Locators
    BY <1>0, <1>2, <1>4, SearchedStays, ThreadsDiffer, KeyAssumption DEF NotStarted
  <2>2. ASSUME prog'[<<"secret", Sender>>] # <<>> PROVE FALSE
    <3>1. /\ Is(UI, "ctor") /\ <<"secret", Sender>> = NewThread(It(UI).a, It(UI).k, It(UI).p)
          /\ UNCHANGED skeyMap
      BY <1>1, <2>1, <2>2
    <3>2. It(UI).p = "secret"
      <4>1. \A b, c, d : <<"secret", Sender>> # <<b, c, d>>
        OBVIOUS
      <4>2. \A b : <<"secret", Sender>> # <<"locate", b>>
        OBVIOUS
      <4> QED
        BY <3>1, <4>1, <4>2, NewThreadIs
    <3> QED
      BY <1>0, <1>4, <3>1, <3>2 DEF StartsNew
  <2> QED
    BY <2>2
<1>5. ASSUME NEW a \in Contacts, NEW n \in 1..MaxImports, n > imports'[a]
      PROVE  prog'[<<"import", a, n>>] = <<>>
  <2>0. imports \in [Contacts -> Nat] /\ <<"import", a, n>> \in Importers /\ n \in Nat
    BY ThreadsDiffer, LimitAssumption DEF TypeOK, MailTypes
  <2>1. imports'[a] \in Nat /\ imports[a] <= imports'[a]
    <3>1. CASE UNCHANGED imports
      BY <2>0, <3>1
    <3>2. CASE ImportFromAddrBook(UI)
      BY <2>0, <3>2 DEF ImportFromAddrBook
    <3> QED
      BY <3>1, <3>2, SearchedStays
  <2>2. n > imports[a]
    BY <1>5, <2>0, <2>1
  <2>3. prog[<<"import", a, n>>] = <<>>
    BY <1>0, <2>2 DEF NotStarted
  <2>4. ASSUME prog'[<<"import", a, n>>] # <<>> PROVE FALSE
    <3>1. /\ Is(UI, "ctor") /\ <<"import", a, n>> = NewThread(It(UI).a, It(UI).k, It(UI).p)
          /\ UNCHANGED imports
      BY <1>1, <2>0, <2>3, <2>4
    <3>2. n = imports[a]
      <4>1. \A b, c : <<"import", a, n>> # <<b, c>>
        OBVIOUS
      <4>2. \A b, c : <<"import", a, n>> = <<"import", b, c>> => a = b /\ n = c
        OBVIOUS
      <4>3. PICK b : <<"import", a, n>> = <<"import", b, imports[b]>>
        BY <3>1, <4>1, NewThreadIs
      <4> QED
        BY <4>2, <4>3
    <3> QED
      BY <2>0, <2>2, <3>2
  <2> QED
    BY <2>4
<1> QED
  BY <1>3, <1>4, <1>5 DEF NotStarted

LEMMA StartsNewStep ==
  ASSUME TypeOK, Ordered, UIPrograms, Started, [Next]_vars
  PROVE  StartsNew'
<1>0. StartsNew /\ NotStarted /\ MarksDistinct /\ UI \in Threads
  BY ThreadsDiffer DEF Started
<1>1. SUFFICES ASSUME Is(UI, "ctor")'
               PROVE  /\ NewThread(It(UI).a, It(UI).k, It(UI).p)' \in Locators \cup Importers
                      /\ prog'[NewThread(It(UI).a, It(UI).k, It(UI).p)'] = <<>>
                      /\ It(UI)'.p = "locate" => keyMap'[<<"pgp", It(UI)'.a>>] # Unseen
                      /\ It(UI)'.p = "secret" => skeyMap'[<<"pgp", Sender>>] # Unseen
  BY DEF StartsNew
<1>2. prog'[UI] # <<>> /\ prog'[UI][1].op = "ctor" /\ It(UI)' = prog'[UI][1]
  BY <1>1 DEF Is, It
<1>3. prog' \in [Threads -> Seq(Ops)] /\ 1 \in DOMAIN prog'[UI]
  BY <1>0, <1>2, OrderedStep
<1>4. \A a \in Addrs : <<"pgp", a>> \in Protos \X Addrs
  BY DEF Protos
<1>5. CASE prog'[UI] = prog[UI]
  <2>1. Is(UI, "ctor") /\ It(UI)' = It(UI)
    BY <1>2, <1>5 DEF Is, It
  <2>2. ~StartThread /\ ~ImportFromAddrBook(UI)
    <3>1. ASSUME StartThread PROVE FALSE
      <4>1. Pushed(prog[UI], <<>>, prog'[UI]) /\ prog[UI] \in Seq(Ops)
        BY <1>0, <3>1, StartInOrder DEF TypeOK
      <4>2. Len(prog'[UI]) = 0 + Len(prog[UI]) - 1 /\ Len(prog[UI]) \in Nat
        BY <4>1, Lists DEF Pushed
      <4> QED
        BY <1>5, <4>2
    <3>2. ~ImportFromAddrBook(UI)
      BY <2>1 DEF ImportFromAddrBook, Is
    <3> QED
      BY <3>1, <3>2
  <2>3. UNCHANGED imports
    BY <2>2, SearchedStays
  <2>4. NewThread(It(UI).a, It(UI).k, It(UI).p)' = NewThread(It(UI).a, It(UI).k, It(UI).p)
    BY <2>1, <2>3 DEF NewThread
  <2>5. /\ NewThread(It(UI).a, It(UI).k, It(UI).p) \in Locators \cup Importers
        /\ prog[NewThread(It(UI).a, It(UI).k, It(UI).p)] = <<>>
        /\ It(UI).p = "locate" => keyMap[<<"pgp", It(UI).a>>] # Unseen
        /\ It(UI).p = "secret" => skeyMap[<<"pgp", Sender>>] # Unseen
    BY <1>0, <2>1 DEF StartsNew
  <2>6. prog'[NewThread(It(UI).a, It(UI).k, It(UI).p)] = <<>>
    BY <1>0, <2>2, <2>5, IdleStays
  <2>7. It(UI).p = "locate" => It(UI).a \in Addrs
    BY <2>1, NewThreadIs
  <2> QED
    BY <1>4, <2>1, <2>4, <2>5, <2>6, <2>7, SearchedStays, KeyAssumption
<1>6. CASE ImportFromAddrBook(UI) /\ prog'[UI] # <<>>
           /\ prog'[UI][1] = Op("ctor", It(UI).a, contact[It(UI).a], "import")
  <2> DEFINE a == It(UI).a
  <2>1. prog[UI] # <<>> /\ It(UI).op = "mark" /\ It(UI) = prog[UI][1] /\ 1 \in DOMAIN prog[UI]
    BY <1>0, <1>6, HeadTyped DEF ImportFromAddrBook, Is, It
  <2>2. a \in Contacts /\ imports[a] < MaxImports /\ imports \in [Contacts -> Nat]
    BY <1>0, <2>1, HeadFields DEF MarksDistinct, AboutContact, TypeOK, MailTypes
  <2> DEFINE n == imports[a] + 1
  <2>3. n \in 1..MaxImports /\ n > imports[a] /\ imports'[a] = n
    BY <1>6, <2>2, LimitAssumption DEF ImportFromAddrBook
  <2>4. It(UI)'.a = a /\ It(UI)'.p = "import"
    BY <1>2, <1>6 DEF Op
  <2>5. NewThread(It(UI).a, It(UI).k, It(UI).p)' = <<"import", a, n>>
    BY <2>3, <2>4 DEF NewThread
  <2>6. prog[<<"import", a, n>>] = <<>> /\ <<"import", a, n>> \in Importers
    BY <1>0, <2>2, <2>3, ThreadsDiffer DEF NotStarted
  <2>7. ~StartThread
    BY <2>1 DEF StartThread, Is, It
  <2> HIDE DEF n, a
  <2>8. prog'[<<"import", a, n>>] = <<>>
    BY <1>0, <2>6, <2>7, IdleStays
  <2> QED
    BY <2>4, <2>5, <2>6, <2>8
<1>7. CASE StartLocate /\ It(UI).op = "search" /\ prog[UI] # <<>> /\ prog'[UI] # <<>>
           /\ prog'[UI][1] = Op("ctor", It(UI).a, NoKey, It(UI).p)
           /\ (IF It(UI).p = "secret" THEN skeyMap[<<"pgp", It(UI).a>>] ELSE keyMap[<<"pgp", It(UI).a>>]) = Unseen
  <2>1. It(UI) \in Ops /\ It(UI).op = "search" /\ It(UI).a \in Addrs
    BY <1>0, <1>7, HeadTyped, HeadFields DEF AboutAddr
  <2>2. \/ It(UI).p = "locate"
        \/ It(UI).p = "secret" /\ It(UI).a = Sender
    BY <2>1 DEF Ops, Startable
  <2>3. It(UI)'.a = It(UI).a /\ It(UI)'.p = It(UI).p
    BY <1>2, <1>7 DEF Op
  <2>4. ~StartThread
    BY <2>1 DEF StartThread, Is, It
  <2>5. keyMap \in Entries /\ skeyMap \in Entries /\ NoKey # Unseen
    BY DEF TypeOK, CacheTypes, NoKey, Unseen
  <2>6. CASE It(UI).p = "locate"
    <3>1. NewThread(It(UI).a, It(UI).k, It(UI).p)' = <<"locate", It(UI).a>> /\ <<"locate", It(UI).a>> \in Locators
      BY <2>1, <2>3, <2>6, ThreadsDiffer DEF NewThread
    <3>2. keyMap[<<"pgp", It(UI).a>>] = Unseen
      BY <1>7, <2>6
    <3>3. prog[<<"locate", It(UI).a>>] = <<>>
      BY <1>0, <2>1, <3>2 DEF NotStarted
    <3>4. prog'[<<"locate", It(UI).a>>] = <<>>
      BY <1>0, <2>4, <3>1, <3>3, IdleStays
    <3>5. keyMap'[<<"pgp", It(UI).a>>] # Unseen
      BY <1>4, <1>7, <2>1, <2>5, <2>6, <3>2 DEF StartLocate, Entries
    <3> QED
      BY <2>3, <2>6, <3>1, <3>4, <3>5
  <2>7. CASE It(UI).p = "secret" /\ It(UI).a = Sender
    <3>1. NewThread(It(UI).a, It(UI).k, It(UI).p)' = <<"secret", Sender>> /\ <<"secret", Sender>> \in Locators
      BY <2>1, <2>3, <2>7, ThreadsDiffer DEF NewThread
    <3>2. skeyMap[<<"pgp", Sender>>] = Unseen
      BY <1>7, <2>7
    <3>3. prog[<<"secret", Sender>>] = <<>>
      BY <1>0, <3>2 DEF NotStarted
    <3>4. prog'[<<"secret", Sender>>] = <<>>
      BY <1>0, <2>4, <3>1, <3>3, IdleStays
    <3>5. skeyMap'[<<"pgp", Sender>>] # Unseen
      BY <1>4, <1>7, <2>1, <2>5, <2>7, <3>2 DEF StartLocate, Entries
    <3> QED
      BY <2>3, <2>7, <3>1, <3>4, <3>5
  <2> QED
    BY <2>2, <2>6, <2>7
<1>8. CASE \A i \in DOMAIN prog'[UI] : prog'[UI][i].op \in Checks \cup {"search", "resolve"}
  BY <1>2, <1>3, <1>8 DEF Checks, Answering
<1>9. ASSUME prog[UI] # <<>>, NEW ops \in Seq(Ops), Pushed(prog[UI], ops, prog'[UI])
      PROVE  1 \in DOMAIN ops /\ prog'[UI][1] = ops[1]
  <2>1. \A m \in DOMAIN prog[UI] : prog[UI][m].op = "ctor" => m = 1
    BY <1>0 DEF Ordered, InOrder, AtOnce
  <2> QED
    BY <1>2, <1>3, <1>9, <2>1 DEF Pushed
<1>10. ASSUME NEW o \in Ops PROVE 1 \in DOMAIN <<o>> => <<o>>[1] = o
  OBVIOUS
<1>11. ASSUME prog[UI] # <<>>, NEW ops \in Seq(Ops), Pushed(prog[UI], ops, prog'[UI]),
              (\A i \in DOMAIN ops : ops[i].op \in Checks) \/ (CheckAddressBook /\ Marking(ops))
       PROVE  FALSE
  <2>1. 1 \in DOMAIN ops /\ ops[1].op = "ctor"
    BY <1>2, <1>9, <1>11
  <2>2. Len(ops) \in Nat /\ DOMAIN ops = 1..Len(ops)
    OBVIOUS
  <2>3. CASE \A i \in DOMAIN ops : ops[i].op \in Checks
    BY <2>1, <2>3 DEF Checks, Answering
  <2>4. CASE Marking(ops)
    BY <2>1, <2>2, <2>4 DEF Marking
  <2> QED
    BY <1>11, <2>3, <2>4
<1>12. ASSUME prog[UI] # <<>>, NEW o, <<o>> \in Seq(Ops), Pushed(prog[UI], <<o>>, prog'[UI])
       PROVE  prog'[UI][1] = o
  BY <1>9, <1>12
<1>13. ASSUME StartLocate, prog'[UI][1] = Op("ctor", It(UI).a, NoKey, It(UI).p), prog[UI] # <<>>, It(UI).op = "search"
       PROVE  (IF It(UI).p = "secret" THEN skeyMap[<<"pgp", It(UI).a>>] ELSE keyMap[<<"pgp", It(UI).a>>]) = Unseen
  <2>1. SUFFICES ASSUME (IF It(UI).p = "secret" THEN skeyMap[<<"pgp", It(UI).a>>] ELSE keyMap[<<"pgp", It(UI).a>>]) # Unseen
                 PROVE  FALSE
    OBVIOUS
  <2>2. Then(UI, <<>>)
    BY <1>13, <2>1 DEF StartLocate
  <2>3. Pushed(prog[UI], <<>>, prog'[UI])
    BY <1>0, <1>13, <2>2, ThenPushes, Lists
  <2> QED
    BY <1>9, <1>13, <2>3, Lists
<1> QED
  BY <1>2, <1>5, <1>6, <1>7, <1>8, <1>0, <1>11, <1>12, <1>13, UISteps

LEMMA MarksDistinctStep ==
  ASSUME TypeOK, Ordered, UIPrograms, Started, [Next]_vars
  PROVE  MarksDistinct'
<1>0. StartsNew /\ MarksDistinct /\ UI \in Threads /\ "mark" \notin Checks
  BY ThreadsDiffer DEF Started, Checks, Answering
<1>1. /\ prog[UI] \in Seq(Ops) /\ prog'[UI] \in Seq(Ops) /\ DOMAIN prog[UI] = 1..Len(prog[UI])
      /\ DOMAIN prog'[UI] = 1..Len(prog'[UI]) /\ Len(prog[UI]) \in Nat /\ Len(prog'[UI]) \in Nat
      /\ imports \in [Contacts -> Nat]
  BY <1>0, OrderedStep DEF TypeOK, MailTypes
<1> DEFINE Mark(i) == prog[UI][i].op = "mark"
           MarkN(i) == prog'[UI][i].op = "mark"
<1>2. ASSUME NEW d \in Int,
             \A i \in DOMAIN prog'[UI] : MarkN(i) =>
               /\ i + d \in DOMAIN prog[UI] /\ prog'[UI][i] = prog[UI][i + d]
               /\ imports'[prog'[UI][i].a] = imports[prog'[UI][i].a]
      PROVE  MarksDistinct'
  <2>1. ASSUME NEW i \in DOMAIN prog'[UI], MarkN(i)
        PROVE  /\ imports'[prog'[UI][i].a] < MaxImports
               /\ \A j \in DOMAIN prog'[UI] : MarkN(j) /\ prog'[UI][j].a = prog'[UI][i].a => j = i
    <3>1. /\ i + d \in DOMAIN prog[UI] /\ prog'[UI][i] = prog[UI][i + d] /\ Mark(i + d)
          /\ imports'[prog'[UI][i].a] = imports[prog[UI][i + d].a]
      BY <1>2, <2>1
    <3>2. imports[prog[UI][i + d].a] < MaxImports
      BY <1>0, <3>1 DEF MarksDistinct
    <3>3. ASSUME NEW j \in DOMAIN prog'[UI], MarkN(j), prog'[UI][j].a = prog'[UI][i].a
          PROVE  j = i
      <4>1. j + d \in DOMAIN prog[UI] /\ Mark(j + d) /\ prog[UI][j + d].a = prog[UI][i + d].a
        BY <1>2, <3>1, <3>3
      <4>2. j + d = i + d
        BY <1>0, <3>1, <4>1 DEF MarksDistinct
      <4> QED
        BY <1>1, <4>2
    <3> QED
      BY <3>1, <3>2, <3>3
  <2> QED
    BY <2>1 DEF MarksDistinct
<1>3. CASE prog'[UI] = prog[UI]
  <2>1. ~ImportFromAddrBook(UI)
    <3>1. SUFFICES ASSUME ImportFromAddrBook(UI) PROVE FALSE
      OBVIOUS
    <3> DEFINE o == Op("ctor", It(UI).a, contact[It(UI).a], "import")
    <3>2. prog[UI] # <<>> /\ prog[UI][1].op = "mark"
      BY <1>0, <3>1, HeadTyped DEF ImportFromAddrBook, Is
    <3>3. <<o>> \in Seq(Ops) /\ Then(UI, <<o>>) /\ o.op = "ctor"
      BY <3>1, StartWorks DEF Works, Op
    <3> HIDE DEF o
    <3>4. Pushed(prog[UI], <<o>>, prog'[UI])
      BY <1>0, <3>2, <3>3, ThenPushes
    <3>5. 1 \in DOMAIN <<o>> /\ <<o>>[1] = o
      BY <3>3
    <3>6. prog'[UI][1] = o
      BY <3>4, <3>5 DEF Pushed
    <3> QED
      BY <1>3, <3>2, <3>3, <3>6
  <2>2. UNCHANGED imports
    BY <2>1, SearchedStays
  <2>3. 0 \in Int /\ \A i \in 1..Len(prog[UI]) : i + 0 = i
    BY <1>1
  <2> QED
    BY <1>1, <1>2, <1>3, <2>2, <2>3
<1>4. CASE \A i \in DOMAIN prog'[UI] : prog'[UI][i].op \in Checks \cup {"search", "resolve"}
  BY <1>0, <1>4 DEF MarksDistinct
<1>5. ASSUME prog[UI] # <<>>, NEW ops \in Seq(Ops), Pushed(prog[UI], ops, prog'[UI]),
             \A i \in DOMAIN ops : ops[i].op # "mark",
             ImportFromAddrBook(UI) => It(UI).op = "mark"
      PROVE  MarksDistinct'
  <2> DEFINE d == 1 - Len(ops)
  <2>1. Len(ops) \in Nat /\ d \in Int
    OBVIOUS
  <2>2. ASSUME NEW i \in DOMAIN prog'[UI], MarkN(i)
        PROVE  i + d \in DOMAIN prog[UI] /\ i + d > 1 /\ prog'[UI][i] = prog[UI][i + d]
    <3>1. PICK m \in DOMAIN prog[UI] : m > 1 /\ i = Len(ops) + m - 1 /\ prog'[UI][i] = prog[UI][m]
      BY <1>5, <2>2 DEF Pushed
    <3>2. i + d = m
      BY <1>1, <2>1, <3>1
    <3> QED
      BY <3>1, <3>2
  <2>3. ASSUME NEW i \in DOMAIN prog'[UI], MarkN(i)
        PROVE  imports'[prog'[UI][i].a] = imports[prog'[UI][i].a]
    <3>1. CASE UNCHANGED imports
      BY <3>1
    <3>2. CASE ImportFromAddrBook(UI)
      <4>1. It(UI).op = "mark" /\ It(UI) = prog[UI][1] /\ 1 \in DOMAIN prog[UI]
        BY <1>0, <1>5, <3>2, HeadTyped
      <4>2. prog'[UI][i].a # It(UI).a
        <5>1. i + d \in DOMAIN prog[UI] /\ i + d # 1 /\ prog[UI][i + d].op = "mark" /\ prog'[UI][i] = prog[UI][i + d]
          BY <2>1, <2>2, <2>3
        <5> QED
          BY <1>0, <4>1, <5>1 DEF MarksDistinct
      <4> QED
        BY <1>1, <3>2, <4>2 DEF ImportFromAddrBook
    <3> QED
      BY <3>1, <3>2, SearchedStays
  <2> HIDE DEF d
  <2> QED
    BY <1>2, <2>1, <2>2, <2>3
<1>6. ASSUME prog[UI] # <<>>, It(UI).op = "resolve", NEW ops \in Seq(Ops), Pushed(prog[UI], ops, prog'[UI]),
             Marking(ops), CheckAddressBook
      PROVE  MarksDistinct'
  <2>1. Len(prog[UI]) = 1
    <3>1. prog[UI][1].op = "resolve" /\ 1 \in DOMAIN prog[UI]
      BY <1>0, <1>6, HeadTyped
    <3>2. AtOnce(prog[UI])
      BY <1>0 DEF Ordered, InOrder
    <3> QED
      BY <3>1, <3>2 DEF AtOnce
  <2>2. \A i \in DOMAIN prog'[UI] : i \in DOMAIN ops /\ prog'[UI][i] = ops[i]
    BY <1>1, <1>6, <2>1 DEF Pushed
  <2>3. UNCHANGED imports
    BY <1>6 DEF CheckAddressBook, bounds
  <2>4. \A i \in DOMAIN ops : ops[i].op = "mark" => i < Len(ops)
    <3>1. Len(ops) \in Nat /\ DOMAIN ops = 1..Len(ops)
      OBVIOUS
    <3> QED
      BY <1>6, <3>1 DEF Marking
  <2> QED
    BY <1>6, <2>2, <2>3, <2>4 DEF Marking, MarksDistinct
<1>7. \A a, k, p : Op("ctor", a, k, p).op = "ctor"
  BY DEF Op
<1>8. ASSUME NEW o, <<o>> \in Seq(Ops), o.op = "ctor" PROVE \A i \in DOMAIN <<o>> : <<o>>[i].op # "mark"
  BY <1>8
<1>9. ImportFromAddrBook(UI) => It(UI).op = "mark"
  BY DEF ImportFromAddrBook, Is, It
<1>10. CheckAddressBook => It(UI).op = "resolve"
  BY DEF CheckAddressBook, Is, It
<1> HIDE DEF Mark, MarkN
<1> QED
  BY <1>0, <1>3, <1>4, <1>5, <1>6, <1>7, <1>8, <1>9, <1>10, UISteps
-----------------------------------------------------------------------------
(* What was promised.                                                      *)

\* A listing that failed has failed
LEMMA FailedGrows ==
  ASSUME [Next]_vars
  PROVE  failed \subseteq failed'
<1>1. ASSUME NEW t \in Threads, ThreadStep(t) PROVE failed \subseteq failed'
  BY <1>1 DEF ThreadStep, SetKey, SetKeySecret, InsertUnderKeyLock, Insert, InsertSkey, Update, List,
              JobDone, Read, Await, Import, SetOverride, Unmark, Locate, Certs, LocateSecret, LeaveMail,
              FreeDtor, CheckStart, Ask, AskKey, Verdict, ghosts
<1> QED
  BY <1>1 DEF Next, ImportFromAddrBook, StartThread, StartLocate, ChangeRecipients, RecipientAdded,
              CheckAddressBook, UpdateOOMData, MarkMimeAction, CloseMail, EditContact, SetDoAutosecure, vars,
              ghosts

\* Operations that promise something
Promising == {"jobdone", "override", "read", "await"}

\* What a thread puts before the rest of its list
Pushes(t, ops) ==
  LET k == It(t).k
  IN \/ Update(t) /\ ops = <<>> /\ It(t).op = "update"
     \/ /\ It(t).op \in {"insert", "underfpr"} /\ k \in Keys
        /\ \/ ops = InsertDone(k) /\ fprMap'[k] # "absent"
           \/ \E p \in {"public", "secret"} : ops = <<Op("underfpr", "", k, p)>>
     \/ /\ It(t).op = "list" /\ k \in Keys
        /\ \/ ops = Updated(k)
           \/ k \in failed' /\ ops = InsertDone(k)
     \/ /\ It(t).op = "read" /\ k \in Keys /\ UNCHANGED updateJobs
        /\ ops = <<Op("await", "", k, "")>>
     \/ /\ It(t).op = "import" /\ k \in Keys /\ It(t).a \in Contacts
        /\ ops = <<Op("list", "", k, ""), Op("override", It(t).a, k, "")>>
     \/ /\ It(t).op \notin {"list", "insert", "underfpr", "update"}
        /\ \A i \in DOMAIN ops : /\ ops[i].op \notin {"jobdone", "read", "await"}
                                 /\ ops[i].op = "override" => ops[i].k = NoKey

LEMMA ThreadPushes ==
  ASSUME TypeOK, NEW t \in Threads, t # UI, ThreadStep(t), ~LeaveMail(t),
         ~(AskKey(t) /\ ~ValidEnough(keyMap[<<"pgp", It(t).a>>])), ~Update(t)
  PROVE  \E ops \in Seq(Ops) : Works(t, ops) /\ Pushes(t, ops)
<1> DEFINE k == It(t).k
           Goal == \E ops \in Seq(Ops) : Works(t, ops) /\ Pushes(t, ops)
<1> SUFFICES Goal
  OBVIOUS
<1>0. ASSUME NEW ops, Works(t, ops) PROVE ops \in Seq(Ops) /\ prog[t] # <<>>
  BY <1>0 DEF Works
<1>1. ASSUME Works(t, <<>>), It(t).op \notin {"list", "insert", "underfpr", "update"} PROVE Goal
  BY <1>0, <1>1, Lists DEF Pushes
<1>2. CASE SetKey(t) \/ SetKeySecret(t)
  <2>1. PICK h \in {"public", "secret"} : Works(t, <<Op("underkey", "", k, h)>>)
    BY <1>2, SetKeyWorks
  <2>2. It(t).op \in {"setkey", "setskey"} /\ It(t).k \in Keys
    BY <1>2, HeadFields DEF SetKey, SetKeySecret, Is, It, AboutKey
  <2> DEFINE o == Op("underkey", "", k, h)
  <2>3. o.op = "underkey" /\ o \in Ops
    BY <2>2, OpsTyped DEF Op
  <2> HIDE DEF o
  <2>4. <<o>> \in Seq(Ops) /\ \A i \in DOMAIN <<o>> : <<o>>[i] = o
    BY <2>3, Lists
  <2>5. Pushes(t, <<o>>)
    BY <2>2, <2>3, <2>4 DEF Pushes
  <2> QED
    BY <2>1, <2>4, <2>5 DEF o
<1>3. CASE InsertUnderKeyLock(t) \/ Unmark(t) \/ FreeDtor(t) \/ Verdict(t) \/ Await(t)
  <2>1. It(t).op \in {"underkey", "unmark", "freedtor", "verdict", "await"}
    BY <1>3 DEF InsertUnderKeyLock, Unmark, FreeDtor, Verdict, Await, Is, It
  <2>2. Works(t, <<>>)
    BY <1>3, SetKeyWorks, ImportWorks, CheckWorks, ReadWorks
  <2> QED
    BY <1>1, <2>1, <2>2
<1>4. CASE Insert(t) \/ InsertSkey(t)
  <2>1. It(t).op \in {"insert", "underfpr"} /\ k \in Keys /\ It(t).p \in {"public", "secret"}
    BY <1>4, HeadFields DEF Insert, InsertSkey, Is, It, AboutKey, Inserting
  <2>2. CASE Works(t, InsertDone(k)) /\ (InsertSkey(t) \/ ~FillsSkeys(k, It(t).p))
    <3>1. fprMap' = [fprMap EXCEPT ![k] = Merged(k, It(t).p)]
      BY <1>4, <2>2 DEF Insert, InsertSkey
    <3>2. fprMap'[k] \in {"public", "secret"}
      BY <2>1, <3>1 DEF TypeOK, CacheTypes, Merged
    <3>3. fprMap'[k] # "absent"
      BY <3>2
    <3> QED
      BY <1>0, <2>1, <2>2, <3>3 DEF Pushes
  <2>3. CASE Works(t, <<Op("underfpr", "", k, It(t).p)>>)
    BY <1>0, <2>1, <2>3 DEF Pushes
  <2> QED
    BY <1>4, <2>2, <2>3, InsertWorks
<1>5. CASE List(t)
  <2>1. It(t).op = "list" /\ k \in Keys
    BY <1>5, HeadFields DEF List, Is, It, AboutKey
  <2> QED
    BY <1>0, <1>5, <2>1, InsertWorks DEF Pushes, InsertDone
<1>6. CASE JobDone(t)
  BY <1>1, <1>6, InsertWorks DEF JobDone, Is, It
<1>7. CASE Read(t)
  <2>1. It(t).op = "read" /\ k \in Keys /\ UNCHANGED updateJobs
    BY <1>7, HeadFields DEF Read, Is, It, AboutKey, cacheVars
  <2>2. CASE Works(t, <<Op("await", "", k, "")>>)
    BY <1>0, <2>1, <2>2 DEF Pushes
  <2> QED
    BY <1>1, <1>7, <2>1, <2>2, ReadWorks
<1>8. CASE Import(t)
  <2>1. It(t).op = "import" /\ It(t).a \in Contacts
    BY <1>8, HeadFields DEF Import, Is, It, AboutContact
  <2>2. CASE Works(t, <<>>)
    BY <1>1, <2>1, <2>2
  <2>3. CASE /\ k \in Keys
             /\ Works(t, <<Op("list", "", k, ""), Op("override", It(t).a, k, "")>>)
    BY <1>0, <2>1, <2>3 DEF Pushes
  <2>4. CASE Works(t, <<Op("override", It(t).a, NoKey, "")>>)
    <3> DEFINE o == Op("override", It(t).a, NoKey, "")
    <3>1. o \in Ops /\ o.op = "override" /\ o.k = NoKey
      BY <2>1, OpsTyped DEF Op
    <3> HIDE DEF o
    <3>2. <<o>> \in Seq(Ops) /\ \A i \in DOMAIN <<o>> : <<o>>[i] = o
      BY <3>1, Lists
    <3>3. Pushes(t, <<o>>)
      BY <2>1, <3>1, <3>2 DEF Pushes
    <3> QED
      BY <2>4, <3>2, <3>3 DEF o
  <2> QED
    BY <1>8, <2>2, <2>3, <2>4, ImportWorks
<1>9. CASE SetOverride(t)
  <2> DEFINE o == Op("unmark", It(t).a, NoKey, "")
  <2>1. It(t).op = "override" /\ It(t).a \in Contacts
    BY <1>9, HeadFields DEF SetOverride, Is, It, AboutContact
  <2>2. o \in Ops /\ o.op = "unmark"
    BY <2>1, OpsTyped DEF Op
  <2>4. Works(t, <<o>>)
    BY <1>9, ImportWorks
  <2> HIDE DEF o
  <2>3. <<o>> \in Seq(Ops) /\ \A i \in DOMAIN <<o>> : <<o>>[i] = o
    BY <2>2, Lists
  <2>5. Pushes(t, <<o>>)
    BY <2>1, <2>2, <2>3 DEF Pushes
  <2> QED
    BY <2>3, <2>4, <2>5
<1>10. CASE Locate(t) \/ Certs(t) \/ LocateSecret(t)
  <2>1. PICK ops \in Seq(Ops) :
           Works(t, ops) /\ \A i \in DOMAIN ops : ops[i].op \in {"setkey", "setskey", "certs"}
    BY <1>10, SearchWorks
  <2>2. It(t).op \in {"locate", "certs", "secret"}
    BY <1>10 DEF Locate, Certs, LocateSecret, Is, It
  <2>3. Pushes(t, ops)
    BY <2>1, <2>2 DEF Pushes
  <2> QED
    BY <2>1, <2>3
<1>11. CASE CheckStart(t) \/ Ask(t)
  <2>1. It(t).op \in {"start", "ask"} /\ prog[t] # <<>>
    BY <1>11 DEF CheckStart, Ask, Is, It
  <2>2. PICK ops \in Seq(Ops) : Works(t, ops)
    BY <1>0, <1>11, CheckWorks
  <2>3. \A i \in DOMAIN ops : ops[i].op \in {"ask", "key", "verdict"}
    BY <2>1, <2>2, HeadTyped DEF Works, Working, Checks, Answering
  <2>4. Pushes(t, ops)
    BY <2>1, <2>3 DEF Pushes
  <2> QED
    BY <2>2, <2>4
<1>12. CASE AskKey(t) /\ ValidEnough(keyMap[<<"pgp", It(t).a>>])
  <2>1. It(t).op = "key" /\ prog[t] # <<>> /\ Then(t, <<>>)
    BY <1>12 DEF AskKey, Is, It
  <2> QED
    BY <1>1, <2>1, WorksOn
<1> HIDE DEF Goal
<1> QED
  BY <1>2, <1>3, <1>4, <1>5, <1>6, <1>7, <1>8, <1>9, <1>10, <1>11, <1>12 DEF ThreadStep

LEMMA ListSteps ==
  ASSUME TypeOK, Ordered, UIPrograms, StartsNew, [Next]_vars, NEW t \in Threads
  PROVE  \/ prog'[t] = prog[t]
         \/ \A i \in DOMAIN prog'[t] : prog'[t][i].op \notin Promising
         \/ prog[t] # <<>> /\ \E ops \in Seq(Ops) : Pushed(prog[t], ops, prog'[t]) /\ Pushes(t, ops)
<1> DEFINE Goal ==
       \/ prog'[t] = prog[t]
       \/ \A i \in DOMAIN prog'[t] : prog'[t][i].op \notin Promising
       \/ prog[t] # <<>> /\ \E ops \in Seq(Ops) : Pushed(prog[t], ops, prog'[t]) /\ Pushes(t, ops)
<1> SUFFICES Goal
  OBVIOUS
<1>0. UI \in Threads /\ \A op \in Checks \cup Preparing : op \notin Promising
  BY ThreadsDiffer DEF Checks, Answering, Preparing, Promising
<1>1. CASE t = UI
  BY <1>0, <1>1, OrderedStep DEF UIPrograms
<1>2. CASE t # UI /\ ThreadStep(t)
  <2>1. CASE LeaveMail(t)
    BY <1>0, <2>1, LeaveInOrder DEF Checks, Answering
  <2>2. CASE AskKey(t) /\ ~ValidEnough(keyMap[<<"pgp", It(t).a>>])
    BY <1>0, <2>2, FailInOrder DEF Checks
  <2>3. CASE Update(t)
    <3>1. prog[t] # <<>> /\ It(t).op = "update" /\ Pushed(prog[t], <<>>, prog'[t])
      BY <2>3, UpdateInOrder
    <3> QED
      BY <2>3, <3>1, Lists DEF Pushes
  <2>4. CASE ~(LeaveMail(t) \/ Update(t) \/ (AskKey(t) /\ ~ValidEnough(keyMap[<<"pgp", It(t).a>>])))
    <3>1. PICK ops \in Seq(Ops) : Works(t, ops) /\ Pushes(t, ops)
      BY <1>2, <2>4, ThreadPushes
    <3>2. prog[t] # <<>> /\ Pushed(prog[t], ops, prog'[t])
      BY <3>1, WorksInOrder DEF Works
    <3> QED
      BY <3>1, <3>2
  <2> QED
    BY <2>1, <2>2, <2>3, <2>4
<1>3. ASSUME NEW u \in Threads, u # t, ThreadStep(u) PROVE Goal
  <2>1. ASSUME NEW ops \in Seq(Ops), Works(u, ops) PROVE Goal
    BY <1>3, <2>1, WorksInOrder
  <2>2. CASE LeaveMail(u)
    BY <1>3, <2>2, LeaveInOrder
  <2>3. CASE AskKey(u) /\ ~ValidEnough(keyMap[<<"pgp", It(u).a>>])
    BY <1>3, <2>3, FailInOrder
  <2>4. CASE Update(u)
    <3> DEFINE o == Op("list", "", It(u).k, "")
    <3>1. PICK x \in Updaters : /\ It(u).k \in Keys
                                /\ t # x => prog'[t] = prog[t]
                                /\ prog'[x] = <<o>>
      BY <1>3, <2>4, UpdateInOrder
    <3>2. o \in Ops /\ o.op = "list"
      BY <3>1, OpsTyped DEF Op
    <3> HIDE DEF o
    <3>3. \A i \in DOMAIN <<o>> : <<o>>[i].op \notin Promising
      BY <3>2, Lists DEF Promising
    <3> QED
      BY <3>1, <3>3
  <2> QED
    BY <1>3, <2>1, <2>2, <2>3, <2>4, ThreadSteps
<1>4. CASE ImportFromAddrBook(UI) \/ StartLocate \/ CheckAddressBook
  <2>1. PICK ops \in Seq(Ops) : Works(UI, ops)
    BY <1>4, StartWorks, CheckAddressBookWorks DEF Works
  <2> QED
    BY <1>0, <1>1, <2>1, WorksInOrder
<1>5. CASE StartThread
  <2>1. {"secret", "locate", "import", "leave"} \cap Promising = {}
    BY DEF Promising
  <2> QED
    BY <1>0, <1>1, <1>5, <2>1, StartInOrder
<1>6. CASE UpdateOOMData \/ RecipientAdded \/ MarkMimeAction
  BY <1>0, <1>1, <1>6, SearchInOrder, BeginInOrder
<1>7. CASE Quiet \/ UNCHANGED vars
  BY <1>7 DEF Quiet, ChangeRecipients, CloseMail, EditContact, SetDoAutosecure, vars
<1> HIDE DEF Goal
<1> QED
  <2>1. CASE Next
    <3>1. CASE \E u \in Threads : ThreadStep(u)
      BY <1>1, <1>2, <1>3, <3>1
    <3> QED
      BY <1>4, <1>5, <1>6, <1>7, <2>1, <3>1 DEF Next, Quiet
  <2> QED
    BY <1>7, <2>1

\* Marks of jobs are taken when the job is done
LEMMA MarksStay ==
  ASSUME TypeOK, Ordered, UIPrograms, Promised, [Next]_vars, NEW k \in updateJobs
  PROVE  k \in updateJobs' \/ Had(k)
<1>1. ASSUME NEW t \in Threads, JobDone(t) PROVE k \in updateJobs' \/ Had(k)
  <2>1. prog[t] # <<>> /\ It(t).op = "jobdone" /\ updateJobs' = updateJobs \ {It(t).k}
    BY <1>1 DEF JobDone, Is, It
  <2>2. Had(It(t).k)
    BY <2>1, HeadTyped DEF Promised, JobsDone
  <2> QED
    BY <2>1, <2>2
<1>2. ASSUME NEW t \in Threads, ThreadStep(t), ~JobDone(t) PROVE k \in updateJobs'
  BY <1>2 DEF ThreadStep, SetKey, SetKeySecret, InsertUnderKeyLock, Insert, InsertSkey, Update, List,
              Read, Await, Import, SetOverride, Unmark, Locate, Certs, LocateSecret, LeaveMail,
              FreeDtor, CheckStart, Ask, AskKey, Verdict, cacheVars
<1> QED
  BY <1>1, <1>2 DEF Next, ImportFromAddrBook, StartThread, StartLocate, ChangeRecipients, RecipientAdded,
              CheckAddressBook, UpdateOOMData, MarkMimeAction, CloseMail, EditContact, SetDoAutosecure, vars, cacheVars

\* What is pushed, operation by operation
LEMMA PushedOps ==
  ASSUME NEW t, NEW ops \in Seq(Ops), Pushes(t, ops), NEW i \in DOMAIN ops
  PROVE  /\ ops[i].op = "jobdone" => ops[i].k \in failed' \/ fprMap'[ops[i].k] # "absent"
         /\ ops[i].op = "override" /\ ops[i].k # NoKey =>
              /\ i = 2 /\ ops[1].op = "list" /\ 1 \in DOMAIN ops
              /\ ops[1].k = ops[2].k
         /\ ops[i].op = "read" => FALSE
         /\ ops[i].op = "await" =>
              i = 1 /\ It(t).op = "read" /\ ops[i].k = It(t).k /\ UNCHANGED updateJobs
<1> DEFINE k == It(t).k
           Goal ==
         /\ ops[i].op = "jobdone" => ops[i].k \in failed' \/ fprMap'[ops[i].k] # "absent"
         /\ ops[i].op = "override" /\ ops[i].k # NoKey =>
              /\ i = 2 /\ ops[1].op = "list" /\ 1 \in DOMAIN ops
              /\ ops[1].k = ops[2].k
         /\ ops[i].op = "read" => FALSE
         /\ ops[i].op = "await" =>
              i = 1 /\ It(t).op = "read" /\ ops[i].k = It(t).k /\ UNCHANGED updateJobs
<1> SUFFICES Goal
  OBVIOUS
<1>2. ASSUME NEW o, ops = <<o>> PROVE i = 1 /\ ops[1] = o /\ o \in Ops
  BY <1>2
<1>3. CASE ops = <<>>
  BY <1>3
<1>4. CASE ops = InsertDone(k) /\ (k \in failed' \/ fprMap'[k] # "absent")
  <2> DEFINE x == Op("jobdone", "", k, "")
  <2>1. x.op = "jobdone" /\ x.k = k
    BY DEF Op
  <2>2. ops = <<x>>
    BY <1>4 DEF InsertDone
  <2> HIDE DEF x, k
  <2>3. i = 1 /\ ops[1] = x
    BY <1>2, <2>2
  <2> QED
    BY <1>4, <2>1, <2>3
<1>5. ASSUME NEW p, ops = <<Op("underfpr", "", k, p)>> PROVE Goal
  <2> DEFINE x == Op("underfpr", "", k, p)
  <2>1. x.op = "underfpr"
    BY DEF Op
  <2>2. ops = <<x>>
    BY <1>5
  <2> HIDE DEF x
  <2>3. i = 1 /\ ops[1] = x
    BY <1>2, <2>2
  <2> QED
    BY <2>1, <2>3
<1>6. CASE ops = Updated(k)
  <2> DEFINE x == ToInsert(k, "public")
  <2>1. x.op = "insert" /\ x.k = k
    BY DEF Op, ToInsert
  <2>2. ops = <<x>>
    BY <1>6 DEF Updated
  <2> HIDE DEF x, k
  <2>3. i = 1 /\ ops[1] = x
    BY <1>2, <2>2
  <2> QED
    BY <1>6, <2>1, <2>3
<1>7. CASE It(t).op = "read" /\ UNCHANGED updateJobs /\ ops = <<Op("await", "", k, "")>>
  <2> DEFINE x == Op("await", "", k, "")
  <2>1. x.op = "await" /\ x.k = k
    BY DEF Op
  <2>2. ops = <<x>>
    BY <1>7
  <2> HIDE DEF x, k
  <2>3. i = 1 /\ ops[1] = x
    BY <1>2, <2>2
  <2> QED
    BY <1>7, <2>1, <2>3 DEF k
<1>8. CASE ops = <<Op("list", "", k, ""), Op("override", It(t).a, k, "")>>
  <2> DEFINE x == Op("list", "", k, "")
             y == Op("override", It(t).a, k, "")
  <2>0. x.op = "list" /\ x.k = k /\ y.op = "override" /\ y.k = k /\ ops = <<x, y>>
    BY <1>8 DEF Op
  <2> HIDE DEF x, y
  <2>1. DOMAIN ops = {1, 2} /\ ops[1] = x /\ ops[2] = y
    BY <2>0
  <2>2. ops[1].op = "list" /\ ops[1].k = k /\ ops[2].op = "override" /\ ops[2].k = k
    BY <2>0, <2>1
  <2>3. i = 1 \/ i = 2
    BY <2>1
  <2> HIDE DEF k
  <2> QED
    BY <1>8, <2>1, <2>2, <2>3
<1>9. CASE \A j \in DOMAIN ops : /\ ops[j].op \notin {"jobdone", "read", "await"}
                                 /\ ops[j].op = "override" => ops[j].k = NoKey
  BY <1>9
<1> HIDE DEF Goal
<1> QED
  BY <1>3, <1>4, <1>5, <1>6, <1>7, <1>8, <1>9 DEF Pushes

LEMMA PromisedStep ==
  ASSUME TypeOK, Ordered, UIPrograms, StartsNew, Promised, [Next]_vars
  PROVE  Promised'
<1> DEFINE Cached(k) == k \in failed \/ fprMap[k] # "absent"
           CachedN(k) == k \in failed' \/ fprMap'[k] # "absent"
<1>1. ASSUME NEW k \in Keys, Cached(k) PROVE CachedN(k)
  BY <1>1, SearchedStays, FailedGrows DEF InCache
<1>2. ASSUME NEW t \in Threads, NEW i \in DOMAIN prog'[t], prog'[t][i].op \in AboutKey
      PROVE  prog'[t][i].k \in Keys
  <2>1. prog'[t] \in Seq(Ops)
    BY OrderedStep
  <2>2. prog'[t][i] \in Ops
    BY <2>1
  <2> QED
    BY <1>2, <2>2 DEF Ops
<1>4. ASSUME NEW t \in Threads, NEW i \in DOMAIN prog'[t], prog'[t][i].op = "jobdone"
      PROVE  CachedN(prog'[t][i].k)
  <2>0. prog'[t][i].k \in Keys
    BY <1>2, <1>4 DEF AboutKey
  <2>1. ASSUME NEW m \in DOMAIN prog[t], prog'[t][i] = prog[t][m]
        PROVE  CachedN(prog'[t][i].k)
    BY <1>1, <1>4, <2>0, <2>1 DEF Promised, JobsDone, Had, InCache
  <2>2. ASSUME NEW ops \in Seq(Ops), Pushed(prog[t], ops, prog'[t]), Pushes(t, ops)
        PROVE  CachedN(prog'[t][i].k)
    <3>1. CASE i \in DOMAIN ops /\ prog'[t][i] = ops[i]
      BY <1>4, <2>0, <2>2, <3>1, PushedOps DEF Promised
    <3> QED
      BY <2>1, <2>2, <3>1 DEF Pushed
  <2> QED
    BY <1>4, <2>1, <2>2, ListSteps DEF Promising
<1>5. ASSUME NEW t \in Threads, NEW i \in DOMAIN prog'[t], prog'[t][i].op = "override", prog'[t][i].k # NoKey
      PROVE  \/ CachedN(prog'[t][i].k)
             \/ /\ i = 2 /\ prog'[t][1].k = prog'[t][2].k
                /\ prog'[t][1].op \in {"list", "insert", "underfpr"}
  <2> DEFINE o == prog'[t][i]
  <2>0. o.k \in Keys /\ prog[t] \in Seq(Ops) /\ DOMAIN prog[t] = 1..Len(prog[t]) /\ Len(prog[t]) \in Nat
    <3>1. prog'[t] \in Seq(Ops) /\ prog[t] \in Seq(Ops)
      BY OrderedStep DEF TypeOK
    <3>2. o \in Ops
      BY <3>1
    <3> QED
      BY <1>5, <3>1, <3>2 DEF Ops
  <2>1. ASSUME NEW m \in DOMAIN prog[t], o = prog[t][m]
        PROVE  \/ CachedN(o.k)
               \/ /\ m = 2 /\ prog[t][1].k = o.k
                  /\ prog[t][1].op \in {"list", "insert", "underfpr"}
    <3>1. \/ Cached(o.k)
          \/ /\ m = 2 /\ prog[t][1].k = prog[t][2].k
             /\ prog[t][1].op \in {"list", "insert", "underfpr"}
      BY <1>5, <2>1 DEF Promised, OverridesCached, Had, InCache
    <3> QED
      BY <1>1, <2>0, <2>1, <3>1
  <2>2. CASE prog'[t] = prog[t]
    <3>1. i \in DOMAIN prog[t] /\ o = prog[t][i]
      BY <2>2
    <3> QED
      BY <2>1, <2>2, <3>1
  <2>3. ASSUME prog[t] # <<>>, NEW ops \in Seq(Ops), Pushed(prog[t], ops, prog'[t]), Pushes(t, ops)
        PROVE  \/ CachedN(o.k)
               \/ /\ i = 2 /\ prog'[t][1].k = prog'[t][2].k
                  /\ prog'[t][1].op \in {"list", "insert", "underfpr"}
    <3>1. CASE i \in DOMAIN ops /\ o = ops[i]
      <4>1. /\ i = 2 /\ ops[1].op = "list" /\ 1 \in DOMAIN ops
            /\ ops[1].k = ops[2].k
        BY <1>5, <2>3, <3>1, PushedOps
      <4>2. prog'[t][1] = ops[1] /\ prog'[t][2] = ops[2]
        BY <2>3, <3>1, <4>1 DEF Pushed
      <4> QED
        BY <4>1, <4>2
    <3>2. ASSUME NEW m \in DOMAIN prog[t], m > 1, i = Len(ops) + m - 1, o = prog[t][m],
                 m = 2, prog[t][1].k = o.k,
                 prog[t][1].op \in {"list", "insert", "underfpr"}
          PROVE  \/ CachedN(o.k)
                 \/ /\ i = 2 /\ prog'[t][1].k = prog'[t][2].k
                    /\ prog'[t][1].op \in {"insert", "underfpr"}
      <4>1. It(t) = prog[t][1]
        BY DEF It
      <4>2. ASSUME NEW x, ops = <<x>>, x.k = o.k, x.op \in {"insert", "underfpr"}
            PROVE  /\ i = 2 /\ prog'[t][1].k = prog'[t][2].k
                   /\ prog'[t][1].op \in {"insert", "underfpr"}
        <5>1. Len(ops) = 1 /\ 1 \in DOMAIN ops /\ ops[1] = x
          BY <4>2
        <5>2. i = 2
          BY <3>2, <5>1
        <5> QED
          BY <2>3, <4>2, <5>1, <5>2 DEF Pushed
      <4>3. It(t).k = o.k
        BY <3>2, <4>1
      <4>4. CASE It(t).op \in {"insert", "underfpr"}
        <5>1. \/ fprMap'[It(t).k] # "absent"
              \/ \E p \in {"public", "secret"} : ops = <<Op("underfpr", "", It(t).k, p)>>
          BY <2>3, <4>4 DEF Pushes
        <5>2. ASSUME NEW p, ops = <<Op("underfpr", "", It(t).k, p)>>
              PROVE  /\ i = 2 /\ prog'[t][1].k = prog'[t][2].k
                     /\ prog'[t][1].op \in {"insert", "underfpr"}
          <6>1. Op("underfpr", "", It(t).k, p).k = It(t).k /\ Op("underfpr", "", It(t).k, p).op = "underfpr"
            BY DEF Op
          <6> QED
            BY <4>2, <4>3, <5>2, <6>1
        <5> QED
          BY <3>2, <4>1, <5>1, <5>2
      <4>5. CASE It(t).op = "list"
        <5>1. \/ ops = <<ToInsert(It(t).k, "public")>>
              \/ It(t).k \in failed'
          BY <2>3, <4>5 DEF Pushes, Updated
        <5>2. ToInsert(It(t).k, "public").k = It(t).k /\ ToInsert(It(t).k, "public").op = "insert"
          BY DEF ToInsert, Op
        <5> QED
          BY <4>2, <4>3, <5>1, <5>2
      <4> QED
        BY <3>2, <4>1, <4>4, <4>5
    <3>3. ASSUME NEW m \in DOMAIN prog[t], m > 1, i = Len(ops) + m - 1, o = prog[t][m]
          PROVE  \/ CachedN(o.k)
                 \/ /\ i = 2 /\ prog'[t][1].k = prog'[t][2].k
                    /\ prog'[t][1].op \in {"insert", "underfpr"}
      BY <2>1, <3>2, <3>3
    <3> QED
      BY <2>3, <3>1, <3>3 DEF Pushed
  <2> HIDE DEF o
  <2> QED
    BY <1>5, <2>2, <2>3, ListSteps DEF Promising, o
<1>6. ASSUME NEW t \in Threads, NEW i \in DOMAIN prog'[t], prog'[t][i].op \in {"read", "await"}
      PROVE  \/ CachedN(prog'[t][i].k)
             \/ prog'[t][i].k \in updateJobs'
             \/ \E j \in DOMAIN prog'[t] :
                  j < i /\ prog'[t][j].op = "update" /\ prog'[t][j].k = prog'[t][i].k
  <2> DEFINE o == prog'[t][i]
             Goal == \/ CachedN(o.k)
                     \/ o.k \in updateJobs'
                     \/ \E j \in DOMAIN prog'[t] :
                          j < i /\ prog'[t][j].op = "update" /\ prog'[t][j].k = o.k
  <2>0. o.k \in Keys /\ prog[t] \in Seq(Ops) /\ DOMAIN prog[t] = 1..Len(prog[t]) /\ Len(prog[t]) \in Nat
    BY <1>2, <1>6 DEF AboutKey, TypeOK
  <2>1. ASSUME NEW m \in DOMAIN prog[t], o.k = prog[t][m].k, prog[t][m].op \in {"read", "await"}
        PROVE  \/ CachedN(o.k)
               \/ o.k \in updateJobs
               \/ \E j \in DOMAIN prog[t] : j < m /\ prog[t][j].op = "update" /\ prog[t][j].k = o.k
    <3>1. \/ Cached(prog[t][m].k)
          \/ prog[t][m].k \in updateJobs
          \/ \E j \in DOMAIN prog[t] :
               j < m /\ prog[t][j].op = "update" /\ prog[t][j].k = prog[t][m].k
      BY <2>1 DEF Promised, ReadersWait, Had, InCache
    <3> QED
      BY <1>1, <2>0, <2>1, <3>1
  <2>2. ASSUME o.k \in updateJobs PROVE o.k \in updateJobs' \/ CachedN(o.k)
    BY <1>1, <2>0, <2>2, MarksStay DEF Had, InCache
  <2>3. CASE prog'[t] = prog[t]
    <3>1. i \in DOMAIN prog[t] /\ o = prog[t][i]
      BY <2>3
    <3> QED
      BY <1>6, <2>1, <2>2, <2>3, <3>1
  <2>4. ASSUME prog[t] # <<>>, NEW ops \in Seq(Ops), Pushed(prog[t], ops, prog'[t]), Pushes(t, ops)
        PROVE  Goal
    <3>0. It(t) = prog[t][1] /\ 1 \in DOMAIN prog[t] /\ Len(ops) \in Nat
      BY <2>0, <2>4 DEF It
    <3>1. CASE i \in DOMAIN ops /\ o = ops[i]
      <4>1. i = 1 /\ It(t).op = "read" /\ o.k = It(t).k /\ UNCHANGED updateJobs
        BY <1>6, <2>4, <3>1, PushedOps
      <4>2. CachedN(o.k) \/ o.k \in updateJobs
        <5>1. ~ \E j \in DOMAIN prog[t] : j < 1
          BY <2>0
        <5> QED
          BY <2>1, <3>0, <4>1, <5>1
      <4> QED
        BY <4>1, <4>2
    <3>2. ASSUME NEW m \in DOMAIN prog[t], m > 1, i = Len(ops) + m - 1, o = prog[t][m]
          PROVE  Goal
      <4>1. \/ CachedN(o.k)
            \/ o.k \in updateJobs
            \/ \E j \in DOMAIN prog[t] : j < m /\ prog[t][j].op = "update" /\ prog[t][j].k = o.k
        BY <1>6, <2>1, <3>2
      <4>2. CASE It(t).op = "update" /\ It(t).k = o.k
        <5>1. Update(t)
          BY <2>4, <4>2 DEF Pushes
        <5>2. updateJobs' = updateJobs \cup {It(t).k}
          BY <5>1 DEF Update
        <5> QED
          BY <4>2, <5>2
      <4>3. ASSUME NEW j \in DOMAIN prog[t], j < m, j > 1, prog[t][j].op = "update", prog[t][j].k = o.k
            PROVE  Goal
        <5>1. Len(ops) + j - 1 \in DOMAIN prog'[t] /\ prog'[t][Len(ops) + j - 1] = prog[t][j]
          BY <2>4, <4>3 DEF Pushed
        <5>2. Len(ops) + j - 1 < i
          BY <2>0, <3>0, <3>2, <4>3
        <5> QED
          BY <4>3, <5>1, <5>2
      <4>4. \A j \in DOMAIN prog[t] : j > 1 \/ prog[t][j] = It(t)
        BY <2>0, <3>0
      <4> HIDE DEF Goal
      <4>5. ASSUME NEW j \in DOMAIN prog[t], j < m, prog[t][j].op = "update", prog[t][j].k = o.k
            PROVE  Goal
        BY <4>2, <4>3, <4>4, <4>5
      <4>6. CachedN(o.k) \/ o.k \in updateJobs' => Goal
        BY DEF Goal
      <4> QED
        BY <2>2, <4>1, <4>5, <4>6
    <3> HIDE DEF Goal
    <3> QED
      BY <2>4, <3>1, <3>2 DEF Pushed
  <2> HIDE DEF o
  <2> QED
    BY <1>6, <2>3, <2>4, ListSteps DEF Promising, o
<1>7. JobsDone'
  BY <1>4 DEF JobsDone, Had, InCache
<1>8. OverridesCached'
  BY <1>5 DEF OverridesCached, Had, InCache
<1>9. ReadersWait'
  BY <1>6 DEF ReadersWait, Had, InCache
<1> QED
  BY <1>7, <1>8, <1>9 DEF Promised

LEMMA DoneMeansCachedStep ==
  ASSUME TypeOK, Ordered, UIPrograms, Promised, DoneMeansCached, [Next]_vars
  PROVE  DoneMeansCached'
<1>1. \A k \in Keys : Had(k) => k \in failed' \/ fprMap'[k] # "absent"
  BY SearchedStays, FailedGrows DEF Had, InCache
<1>0. failed \subseteq failed'
  BY FailedGrows
<1>2. \A a \in Contacts : overrides[a] \subseteq Keys
  BY DEF TypeOK, CacheTypes
<1>3. CASE UNCHANGED <<missed, overrides>>
  BY <1>0, <1>1, <1>2, <1>3 DEF DoneMeansCached, Had, InCache
<1>4. ASSUME NEW t \in Threads, Await(t) PROVE DoneMeansCached'
  <2>1. prog[t] # <<>> /\ It(t).op = "await" /\ It(t) = prog[t][1] /\ 1 \in DOMAIN prog[t]
    BY <1>4, HeadTyped DEF Await, Is, It
  <2>2. Had(It(t).k) \/ It(t).k \in updateJobs
    <3>1. prog[t] \in Seq(Ops)
      BY DEF TypeOK
    <3>2. ~ \E j \in DOMAIN prog[t] : j < 1
      BY <3>1
    <3> QED
      BY <2>1, <3>2 DEF Promised, ReadersWait
  <2>3. UNCHANGED <<overrides, fprMap, failed>> /\ missed' \subseteq failed
    <3>1. UNCHANGED <<overrides, fprMap, failed>>
      BY <1>4 DEF Await, cacheVars
    <3>2. missed \subseteq failed
      BY DEF DoneMeansCached
    <3>3. \/ It(t).k \notin updateJobs /\ missed' = missed \cup { k \in {It(t).k} : fprMap[k] = "absent" }
          \/ UNCHANGED missed
      BY <1>4 DEF Await
    <3>4. missed' \subseteq failed
      BY <2>2, <3>2, <3>3 DEF Had, InCache
    <3> QED
      BY <3>1, <3>4
  <2> QED
    BY <2>3 DEF DoneMeansCached
<1>5. ASSUME NEW t \in Threads, SetOverride(t) PROVE DoneMeansCached'
  <2>1. /\ prog[t] # <<>> /\ It(t).op = "override" /\ It(t) = prog[t][1] /\ 1 \in DOMAIN prog[t]
        /\ It(t).a \in Contacts
    <3>1. prog[t] # <<>> /\ It(t).op = "override"
      BY <1>5 DEF SetOverride, Is, It
    <3>2. It(t) = prog[t][1] /\ 1 \in DOMAIN prog[t]
      BY <3>1, HeadTyped
    <3>3. It(t).a \in Contacts
      BY <3>1, HeadFields DEF AboutContact
    <3> QED
      BY <3>1, <3>2, <3>3
  <2>2. It(t).k # NoKey => Had(It(t).k)
    BY <2>1 DEF Promised, OverridesCached
  <2>3. /\ UNCHANGED <<missed, failed, fprMap>>
        /\ overrides' = [overrides EXCEPT ![It(t).a] = {It(t).k} \ {NoKey}]
    BY <1>5 DEF SetOverride
  <2>4. overrides \in [Contacts -> SUBSET Keys]
    BY DEF TypeOK, CacheTypes
  <2> QED
    BY <2>1, <2>2, <2>3, <2>4 DEF DoneMeansCached, Had, InCache
<1>6. ASSUME NEW t \in Threads, ThreadStep(t), ~Await(t), ~SetOverride(t) PROVE UNCHANGED <<missed, overrides>>
  BY <1>6 DEF ThreadStep, SetKey, SetKeySecret, InsertUnderKeyLock, Insert, InsertSkey, Update, List,
              JobDone, Read, Import, Unmark, Locate, Certs, LocateSecret, LeaveMail,
              FreeDtor, CheckStart, Ask, AskKey, Verdict, cacheVars, ghosts
<1>7. ASSUME [Next]_vars, ~(\E t \in Threads : ThreadStep(t)) PROVE UNCHANGED <<missed, overrides>>
  BY <1>7 DEF Next, ImportFromAddrBook, StartThread, StartLocate, ChangeRecipients, RecipientAdded,
              CheckAddressBook, UpdateOOMData, MarkMimeAction, CloseMail, EditContact, SetDoAutosecure, vars,
              cacheVars, ghosts
<1> QED
  BY <1>3, <1>4, <1>5, <1>6, <1>7
-----------------------------------------------------------------------------
(* The start.                                                              *)

\* A list that only puts keys into the cache
Inserts(s) == s \in Seq(Ops) /\ \A i \in DOMAIN s : s[i].op = "insert"

LEMMA InsertsJoin ==
  ASSUME NEW s, NEW r, Inserts(s), Inserts(r)
  PROVE  Inserts(s \o r)
<1>1. s \in Seq(Ops) /\ r \in Seq(Ops)
  BY DEF Inserts
<1>2. /\ s \o r \in Seq(Ops) /\ DOMAIN (s \o r) = 1..(Len(s) + Len(r)) /\ Len(s) \in Nat /\ Len(r) \in Nat
      /\ DOMAIN s = 1..Len(s) /\ DOMAIN r = 1..Len(r)
      /\ \A i \in 1..(Len(s) + Len(r)) : (s \o r)[i] = IF i <= Len(s) THEN s[i] ELSE r[i - Len(s)]
  BY <1>1
<1>3. ASSUME NEW i \in DOMAIN (s \o r) PROVE (s \o r)[i].op = "insert"
  <2>1. CASE i <= Len(s)
    BY <1>2, <2>1 DEF Inserts
  <2>2. CASE i > Len(s)
    <3>1. i - Len(s) \in DOMAIN r /\ (s \o r)[i] = r[i - Len(s)]
      BY <1>2, <2>2
    <3> QED
      BY <3>1 DEF Inserts
  <2> QED
    BY <1>2, <2>1, <2>2
<1> QED
  BY <1>2, <1>3 DEF Inserts

LEMMA InsertsOf ==
  ASSUME NEW ks, ks \in Seq(Keys), NEW how \in {"public", "secret"}
  PROVE  Inserts([i \in DOMAIN ks |-> ToInsert(ks[i], how)])
<1> DEFINE f == [i \in 1..Len(ks) |-> ToInsert(ks[i], how)]
<1>1. Len(ks) \in Nat /\ DOMAIN ks = 1..Len(ks) /\ \A i \in 1..Len(ks) : ks[i] \in Keys
  OBVIOUS
<1>2. \A k \in Keys : ToInsert(k, how) \in Ops /\ ToInsert(k, how).op = "insert"
  <2>1. \A k \in Keys : ToInsert(k, how) \in Ops
    BY OpsTyped
  <2> QED
    BY <2>1 DEF ToInsert, Op
<1>3. f \in [1..Len(ks) -> Ops] /\ \A i \in 1..Len(ks) : f[i].op = "insert"
  BY <1>1, <1>2
<1> HIDE DEF f
<1>4. f \in Seq(Ops) /\ DOMAIN f = 1..Len(ks)
  BY <1>1, <1>3, ListIs
<1>5. Inserts(f)
  BY <1>3, <1>4 DEF Inserts
<1> QED
  BY <1>1, <1>5 DEF f

LEMMA PopulateInserts ==
  ASSUME ring \subseteq Keys
  PROVE  Inserts(Populating)
<1>1. ASSUME NEW S, S \subseteq ring PROVE SetToSeq(S) \in Seq(Keys)
  <2>1. IsFiniteSet(S)
    BY <1>1, FS_Subset, KeyAssumption DEF Keys
  <2>2. SetToSeq(S) \in Seq(S) /\ S \subseteq Keys
    BY <1>1, <2>1, SetAsSeq
  <2> QED
    BY <2>2
<1>2. ASSUME NEW p PROVE Inserts(Listing(p))
  <2> DEFINE A == { k \in ring : KeyInfo[k].proto = p }
             B == { k \in ring : KeyInfo[k].proto = p /\ KeyInfo[k].secret }
  <2>1. SetToSeq(A) \in Seq(Keys) /\ SetToSeq(B) \in Seq(Keys)
    BY <1>1
  <2>2. Listing(p) = [i \in DOMAIN SetToSeq(A) |-> ToInsert(SetToSeq(A)[i], "public")]
                     \o [i \in DOMAIN SetToSeq(B) |-> ToInsert(SetToSeq(B)[i], "secret")]
    BY DEF Listing
  <2> HIDE DEF A, B
  <2>3. Inserts([i \in DOMAIN SetToSeq(A) |-> ToInsert(SetToSeq(A)[i], "public")])
    BY <2>1, InsertsOf
  <2>4. Inserts([i \in DOMAIN SetToSeq(B) |-> ToInsert(SetToSeq(B)[i], "secret")])
    BY <2>1, InsertsOf
  <2> QED
    BY <2>2, <2>3, <2>4, InsertsJoin
<1>3. Inserts(<<>>)
  BY Lists DEF Inserts
<1> QED
  BY <1>2, <1>3, InsertsJoin DEF Populating

LEMMA StartLists ==
  ASSUME Init, NEW t \in Threads
  PROVE  /\ prog[t] \in Seq(Ops) /\ InOrder(prog[t])
         /\ \A i \in DOMAIN prog[t] :
              \/ prog[t][i].op \in {"insert", "update"}
              \/ /\ prog[t][i].op = "read" /\ i > 1 /\ 1 \in DOMAIN prog[t]
                 /\ prog[t][1].op = "update" /\ prog[t][1].k = prog[t][i].k
         /\ t \notin {Populate, Verify} => prog[t] = <<>>
<1>1. PICK s \in Scenes, n \in 1..MaxUpdates :
        prog = [x \in Threads |-> CASE x = Populate /\ s.populate -> Populating
                                     [] x = Verify /\ s.verify # NoKey -> Verifying(s.verify, n)
                                     [] OTHER -> <<>>]
  BY DEF Init
<1>2. \/ prog[t] = Populating /\ t = Populate
      \/ prog[t] = Verifying(s.verify, n) /\ t = Verify /\ s.verify # NoKey
      \/ prog[t] = <<>>
  BY <1>1
<1>3. CASE prog[t] = Populating /\ t = Populate
  <2>1. Inserts(prog[t])
    BY <1>3, PopulateInserts, KeyAssumption DEF Init, Keys
  <2> QED
    BY <1>3, <2>1 DEF Inserts, InOrder, ChecksLast, AnswerComes, LeavesLast, AtOnce, Checks, Answering, Searching
<1>4. CASE prog[t] = Verifying(s.verify, n) /\ t = Verify /\ s.verify # NoKey
  <2> DEFINE k == s.verify
             x == Op("update", "", k, "")
             y == Op("read", "", k, "")
  <2>1. k \in Keys
    BY <1>4, SceneAssumption DEF NoKey, Keys
  <2>2. x \in Ops /\ y \in Ops
    BY <2>1, OpsTyped
  <2>3. x.op = "update" /\ y.op = "read" /\ x.k = y.k /\ prog[t] = [i \in 1..n |-> x] \o <<y>>
    BY <1>4 DEF Op, Verifying
  <2> HIDE DEF x, y, k
  <2>4. /\ prog[t] \in Seq(Ops) /\ DOMAIN prog[t] = 1..(n + 1) /\ n \in Nat /\ n >= 1
        /\ \A i \in 1..n : prog[t][i] = x
        /\ prog[t][n + 1] = y
    <3> DEFINE us == [i \in 1..n |-> x]
    <3>1. n \in Nat /\ n >= 1
      BY LimitAssumption
    <3>2. us \in Seq(Ops) /\ Len(us) = n /\ \A i \in 1..n : us[i] = x
      BY <2>2, <3>1
    <3>3. <<y>> \in Seq(Ops) /\ Len(<<y>>) = 1 /\ <<y>>[1] = y
      BY <2>2
    <3>4. prog[t] = us \o <<y>>
      BY <2>3
    <3> HIDE DEF us
    <3> QED
      BY <3>1, <3>2, <3>3, <3>4
  <2>5. \A i \in DOMAIN prog[t] : prog[t][i].op \in {"update", "read"}
    BY <2>3, <2>4
  <2>6. InOrder(prog[t])
    BY <2>4, <2>5 DEF InOrder, ChecksLast, AnswerComes, LeavesLast, AtOnce, Checks, Answering, Searching
  <2>7. ASSUME NEW i \in DOMAIN prog[t]
        PROVE  \/ prog[t][i].op \in {"insert", "update"}
               \/ /\ prog[t][i].op = "read" /\ i > 1 /\ 1 \in DOMAIN prog[t]
                  /\ prog[t][1].op = "update" /\ prog[t][1].k = prog[t][i].k
    BY <2>3, <2>4
  <2> QED
    BY <1>4, <2>4, <2>6, <2>7
<1>5. CASE prog[t] = <<>>
  BY <1>5, Lists, ShortInOrder
<1> QED
  BY <1>2, <1>3, <1>4, <1>5

LEMMA InitTypes ==
  ASSUME Init
  PROVE  TypeOK
<1>1. prog \in [Threads -> Seq(Ops)]
  <2>1. DOMAIN prog = Threads /\ prog = [t \in Threads |-> prog[t]]
    BY DEF Init
  <2> QED
    BY <2>1, StartLists
<1>2. PICK s \in Scenes : /\ BookInit(s.book, s.edits)
                          /\ LET known == IF s.known THEN {<<"pgp", Sender>>} ELSE {}
                                 searched == [e \in Protos \X Addrs |-> IF e \in known THEN NoKey ELSE Unseen]
                             IN keyMap = searched /\ skeyMap = searched
  BY DEF Init
<1>3. keyMap \in Entries /\ skeyMap \in Entries
  BY <1>2 DEF Entries
<1>4. contact \in [Contacts -> Configurable]
  BY <1>2, SceneAssumption DEF BookInit
<1>5. CacheTypes
  BY <1>3, <1>4, KeyAssumption DEF Init, CacheTypes, Keys, Nobody
<1>6. MailTypes
  BY DEF Init, MailTypes
<1> QED
  BY <1>1, <1>5, <1>6 DEF TypeOK

LEMMA InitInv ==
  ASSUME Init
  PROVE  TypeOK /\ Ordered /\ UIPrograms /\ Started /\ Promised /\ DoneMeansCached
<1>1. TypeOK /\ Ordered
  BY InitTypes, StartLists DEF Ordered
<1>2. prog[UI] = <<>> /\ \A t \in Locators \cup Importers : prog[t] = <<>>
  <2>1. \A t \in Locators \cup Importers \cup {UI} : t \in Threads /\ t \notin {Populate, Verify}
    BY ThreadsDiffer DEF Threads
  <2> QED
    BY <2>1, StartLists
<1>3. UIPrograms
  BY <1>2, Lists DEF UIPrograms
<1>4. Started
  <2>1. MarksDistinct /\ StartsNew
    BY <1>2, Lists DEF MarksDistinct, StartsNew, Is
  <2>2. NotStarted
    BY <1>2, ThreadsDiffer DEF NotStarted
  <2> QED
    BY <2>1, <2>2 DEF Started
<1>5. Promised
  <2>2. JobsDone /\ OverridesCached
    BY StartLists DEF JobsDone, OverridesCached
  <2>3. ReadersWait
    BY StartLists DEF ReadersWait
  <2> QED
    BY <2>2, <2>3 DEF Promised
<1>6. DoneMeansCached
  BY DEF Init, DoneMeansCached
<1> QED
  BY <1>1, <1>3, <1>4, <1>5, <1>6
-----------------------------------------------------------------------------
(* The theorems.                                                           *)

LEMMA CacheStep ==
  ASSUME TypeOK, Ordered, UIPrograms, Started, Promised, DoneMeansCached, [Next]_vars
  PROVE  (TypeOK /\ Ordered /\ UIPrograms /\ Started /\ Promised /\ DoneMeansCached)'
<1>1. StartsNew
  BY DEF Started
<1>2. prog' \in [Threads -> Seq(Ops)] /\ Ordered' /\ UIPrograms'
  BY <1>1, OrderedStep
<1>3. TypeOK'
  BY <1>2, CacheTypesStep, MailTypesStep DEF TypeOK
<1>4. Started'
  BY NotStartedStep, StartsNewStep, MarksDistinctStep DEF Started
<1>5. Promised' /\ DoneMeansCached'
  BY <1>1, PromisedStep, DoneMeansCachedStep
<1> QED
  BY <1>2, <1>3, <1>4, <1>5

\* Types: the maps hold keys of the ring's domain, the threads run operations
\* that are about addresses, contacts and keys that there are.
THEOREM Types == Spec => []TypeOK
<1> DEFINE I == TypeOK /\ Ordered /\ UIPrograms /\ Started /\ Promised /\ DoneMeansCached
<1>1. Init => I
  BY InitInv
<1>2. I /\ [Next]_vars => I'
  BY CacheStep
<1>3. I => TypeOK
  OBVIOUS
<1> HIDE DEF I
<1> QED
  BY <1>1, <1>2, <1>3, PTL DEF Spec

\* Who waits for the update of a key gets it, and what becomes a contact's
\* key is in the cache, however jobs, imports and readers of keys overlap,
\* unless a listing of that key failed.
THEOREM DoneMeansCachedAlways == Spec => []DoneMeansCached
<1> DEFINE I == TypeOK /\ Ordered /\ UIPrograms /\ Started /\ Promised /\ DoneMeansCached
<1>1. Init => I
  BY InitInv
<1>2. I /\ [Next]_vars => I'
  BY CacheStep
<1>3. I => DoneMeansCached
  OBVIOUS
<1> HIDE DEF I
<1> QED
  BY <1>1, <1>2, <1>3, PTL DEF Spec

LEMMA SecretKeptStep ==
  ASSUME TypeOK, [Next]_vars
  PROVE  /\ \A k \in Keys : fprMap[k] = "secret" => fprMap'[k] = "secret"
         /\ \A e \in DOMAIN skeyMap : skeyMap[e] \in Keys /\ CanSign(skeyMap[e])
              => skeyMap'[e] \in Keys /\ CanSign(skeyMap'[e])
<1>1. fprMap \in [Keys -> {"absent", "public", "secret"}] /\ skeyMap \in Entries
  BY DEF TypeOK, CacheTypes
<1>2. Unseen \notin Keys /\ NoKey \notin Keys
  BY KeyAssumption DEF Unseen, NoKey, Keys
<1>3. ASSUME NEW k \in Keys, fprMap[k] = "secret" PROVE fprMap'[k] = "secret"
  BY <1>1, <1>3, MapSteps DEF Merged
<1>4. ASSUME NEW e \in DOMAIN skeyMap, skeyMap[e] \in Keys, CanSign(skeyMap[e])
      PROVE  skeyMap'[e] \in Keys /\ CanSign(skeyMap'[e])
  <2>1. ASSUME NEW k \in Keys
        PROVE  CompareSkeys(skeyMap[e], k) \in Keys /\ CanSign(CompareSkeys(skeyMap[e], k))
    <3>1. skeyMap[e] \notin {Unseen, NoKey}
      BY <1>2, <1>4
    <3>2. CASE skeyMap[e] = k
      BY <1>4, <3>2 DEF CompareSkeys
    <3>3. CASE skeyMap[e] # k /\ CanSign(skeyMap[e]) # CanSign(k)
      BY <1>4, <3>1, <3>3 DEF CompareSkeys
    <3>4. CASE skeyMap[e] # k /\ CanSign(skeyMap[e]) = CanSign(k)
      <4>1. CompareSkeys(skeyMap[e], k) \in {skeyMap[e], k}
        BY <3>1, <3>4 DEF CompareSkeys
      <4> QED
        BY <1>4, <3>4, <4>1
    <3> QED
      BY <3>2, <3>3, <3>4
  <2>2. ASSUME NEW k \in Keys, SetSkeyOf(k) PROVE skeyMap'[e] \in Keys /\ CanSign(skeyMap'[e])
    <3>1. skeyMap'[e] \in {skeyMap[e], CompareSkeys(skeyMap[e], k)}
      BY <1>1, <2>2 DEF SetSkeyOf, SetSkey, Entries
    <3> QED
      BY <1>4, <2>1, <3>1
  <2>3. ASSUME NEW d, skeyMap[d] = Unseen, skeyMap' = [skeyMap EXCEPT ![d] = NoKey]
        PROVE  skeyMap'[e] \in Keys /\ CanSign(skeyMap'[e])
    <3>1. d # e
      BY <1>2, <1>4, <2>3
    <3> QED
      BY <1>4, <2>3, <3>1
  <2> QED
    BY <1>4, <2>2, <2>3, MapSteps
<1> QED
  BY <1>3, <1>4

\* No listing, import, search or update takes the secret part from a key in
\* the cache, or replaces a signing key by one that cannot sign.
THEOREM SecretKeptAlways == Spec => SecretKept
<1>1. TypeOK /\ [Next]_vars =>
        [/\ \A k \in Keys : fprMap[k] = "secret" => fprMap'[k] = "secret"
         /\ \A e \in DOMAIN skeyMap : skeyMap[e] \in Keys /\ CanSign(skeyMap[e])
              => skeyMap'[e] \in Keys /\ CanSign(skeyMap'[e])]_vars
  BY SecretKeptStep
<1> QED
  BY <1>1, Types, PTL DEF Spec, SecretKept
-----------------------------------------------------------------------------
(* The count of the threads that search.                                   *)

LEMMA FiniteThreads == IsFiniteSet(Threads)
<1>1. IsFiniteSet(Keys) /\ IsFiniteSet(Addrs) /\ IsFiniteSet(Contacts) /\ IsFiniteSet(1..MaxImports)
  <2>1. IsFiniteSet(Keys) /\ IsFiniteSet(Addrs) /\ Contacts \subseteq Addrs
    BY KeyAssumption DEF Keys
  <2>2. IsFiniteSet(Contacts)
    BY <2>1, FS_Subset
  <2>3. IsFiniteSet(1..MaxImports)
    BY LimitAssumption, FS_Interval
  <2> QED
    BY <2>1, <2>2, <2>3
<1>2. IsFiniteSet({ <<"locate", a>> : a \in Addrs })
  <2> DEFINE T == { <<"locate", a>> : a \in Addrs }
             f == [a \in Addrs |-> <<"locate", a>>]
  <2>1. f \in Surjection(Addrs, T)
    BY DEF Surjection
  <2> HIDE DEF f, T
  <2>2. IsFiniteSet(T)
    BY <1>1, <2>1, FS_Surjection
  <2> QED
    BY <2>2 DEF T
<1>3. IsFiniteSet(Updaters)
  <2> DEFINE S == Keys \X (1..MaxUpdates)
             f == [s \in S |-> <<"update", s[1], s[2]>>]
  <2>1. f \in [S -> Updaters]
    BY DEF Updaters
  <2>2. ASSUME NEW t \in Updaters PROVE \E s \in S : f[s] = t
    <3>1. PICK k \in Keys, n \in 1..MaxUpdates : t = <<"update", k, n>>
      BY DEF Updaters
    <3>2. <<k, n>> \in S /\ f[<<k, n>>] = t
      BY <3>1
    <3> QED
      BY <3>2
  <2> HIDE DEF f
  <2>3. f \in Surjection(S, Updaters)
    BY <2>1, <2>2 DEF Surjection
  <2>4. IsFiniteSet(1..MaxUpdates)
    BY LimitAssumption, FS_Interval
  <2>5. IsFiniteSet(S)
    BY <1>1, <2>4, FS_Product
  <2> HIDE DEF S
  <2> QED
    BY <2>3, <2>5, FS_Surjection
<1>4. IsFiniteSet(Importers)
  <2> DEFINE S == Contacts \X (1..MaxImports)
             f == [s \in S |-> <<"import", s[1], s[2]>>]
  <2>1. f \in [S -> Importers]
    BY DEF Importers
  <2>2. ASSUME NEW t \in Importers PROVE \E s \in S : f[s] = t
    <3>1. PICK a \in Contacts, n \in 1..MaxImports : t = <<"import", a, n>>
      BY DEF Importers
    <3>2. <<a, n>> \in S /\ f[<<a, n>>] = t
      BY <3>1
    <3> QED
      BY <3>2
  <2> HIDE DEF f
  <2>3. f \in Surjection(S, Importers)
    BY <2>1, <2>2 DEF Surjection
  <2>4. IsFiniteSet(S)
    BY <1>1, FS_Product
  <2> HIDE DEF S
  <2> QED
    BY <2>3, <2>4, FS_Surjection
<1>5. IsFiniteSet({<<"secret", Sender>>}) /\ IsFiniteSet({UI}) /\ IsFiniteSet({Populate}) /\ IsFiniteSet({Verify})
  BY FS_Singleton
<1>6. IsFiniteSet(Locators)
  BY <1>2, <1>5, FS_Union DEF Locators
<1>7. IsFiniteSet({UI} \cup {Populate}) /\ {UI, Populate, Verify} = ({UI} \cup {Populate}) \cup {Verify}
  BY <1>5, FS_Union
<1>8. IsFiniteSet({UI, Populate, Verify})
  <2>1. IsFiniteSet(({UI} \cup {Populate}) \cup {Verify})
    BY <1>5, <1>7, FS_Union
  <2> QED
    BY <1>7, <2>1
<1>9. IsFiniteSet({UI, Populate, Verify} \cup Locators)
  BY <1>6, <1>8, FS_Union
<1>10. IsFiniteSet(({UI, Populate, Verify} \cup Locators) \cup Importers)
  BY <1>4, <1>9, FS_Union
<1> QED
  BY <1>3, <1>10, FS_Union DEF Threads

\* The threads that are counted
Searchers == { t \in Threads : Counted(t) }

LEMMA SearchersFinite ==
  /\ IsFiniteSet(Searchers) /\ Cardinality(Searchers) \in Nat
  /\ \A t \in Searchers : Cardinality(Searchers) # 0
<1>1. IsFiniteSet(Searchers)
  BY FiniteThreads, FS_Subset DEF Searchers
<1> QED
  BY <1>1, FS_CardinalityType, FS_EmptySet

\* Going on with a list does not leave the mail, nor join it
LEMMA CountedStays ==
  ASSUME NEW s \in Seq(Ops), s # <<>>, NEW ops \in Seq(Ops), NEW r, Pushed(s, ops, r),
         s[1].op # "leave", \A i \in DOMAIN ops : ops[i].op # "leave"
  PROVE  (r # <<>> /\ r[Len(r)] = Leave) <=> s[Len(s)] = Leave
<1>1. /\ Len(s) \in Nat /\ Len(s) >= 1 /\ DOMAIN s = 1..Len(s) /\ Len(ops) \in Nat
      /\ r \in Seq(Ops) /\ Len(r) = Len(ops) + Len(s) - 1 /\ DOMAIN r = 1..Len(r)
  BY DEF Pushed
<1>2. Leave.op = "leave"
  BY DEF Leave, Op
<1>3. ASSUME s[Len(s)] = Leave PROVE r # <<>> /\ r[Len(r)] = Leave
  <2>1. Len(s) \in DOMAIN s /\ Len(s) > 1
    BY <1>1, <1>2, <1>3
  <2>2. Len(ops) + Len(s) - 1 \in DOMAIN r /\ r[Len(ops) + Len(s) - 1] = s[Len(s)]
    BY <2>1 DEF Pushed
  <2> QED
    BY <1>1, <1>3, <2>1, <2>2
<1>4. ASSUME r # <<>>, r[Len(r)] = Leave PROVE s[Len(s)] = Leave
  <2>1. Len(r) \in DOMAIN r
    BY <1>1, <1>4
  <2>2. ~(Len(r) \in DOMAIN ops /\ r[Len(r)] = ops[Len(r)])
    BY <1>2, <1>4
  <2>3. PICK m \in DOMAIN s : m > 1 /\ Len(r) = Len(ops) + m - 1 /\ r[Len(r)] = s[m]
    BY <2>1, <2>2 DEF Pushed
  <2>4. m = Len(s)
    BY <1>1, <2>3
  <2> QED
    BY <1>4, <2>3, <2>4
<1> QED
  BY <1>3, <1>4

\* No list of operations of a check is counted, nor that of the UI thread
LEMMA NotCounted ==
  ASSUME NEW s \in Seq(Ops), \A i \in DOMAIN s : s[i].op # "leave"
  PROVE  ~(s # <<>> /\ s[Len(s)] = Leave)
<1>1. Leave.op = "leave"
  BY DEF Leave, Op
<1>2. s # <<>> => Len(s) \in DOMAIN s
  OBVIOUS
<1> QED
  BY <1>1, <1>2

LEMMA SearchersStay ==
  ASSUME TypeOK, Ordered, UIPrograms, StartsNew, [Next]_vars,
         ~StartThread, \A t \in Threads : ~LeaveMail(t)
  PROVE  Searchers' = Searchers
<1>0. /\ prog \in [Threads -> Seq(Ops)] /\ prog' \in [Threads -> Seq(Ops)] /\ UIPrograms'
      /\ UI \in Threads
  BY OrderedStep, ThreadsDiffer DEF TypeOK
<1>1. ~Counted(UI) /\ ~Counted(UI)'
  <2>1. \A op \in Preparing \cup Checks : op # "leave"
    BY DEF Preparing, Checks, Answering
  <2> QED
    BY <1>0, <2>1, NotCounted DEF UIPrograms, Counted
<1>2. SUFFICES ASSUME NEW t \in Threads PROVE Counted(t)' <=> Counted(t)
  BY DEF Searchers
<1>3. ASSUME prog'[t] = prog[t] PROVE Counted(t)' <=> Counted(t)
  BY <1>3 DEF Counted
<1>4. ASSUME NEW u \in Threads, NEW ops \in Seq(Ops), Works(u, ops) PROVE Counted(t)' <=> Counted(t)
  <2>1. CASE t # u
    BY <1>3, <1>4, <2>1, WorksInOrder
  <2>2. CASE t = u
    <3>1. /\ prog[t] # <<>> /\ Pushed(prog[t], ops, prog'[t]) /\ prog[t][1].op # "leave"
          /\ \A i \in DOMAIN ops : ops[i].op # "leave"
      BY <1>4, <2>2, WorksInOrder DEF Works, Working
    <3>2. (prog'[t] # <<>> /\ prog'[t][Len(prog'[t])] = Leave) <=> prog[t][Len(prog[t])] = Leave
      BY <1>0, <3>1, CountedStays
    <3> QED
      BY <3>1, <3>2 DEF Counted
  <2> QED
    BY <2>1, <2>2
<1>5. ASSUME NEW u \in Threads, Update(u) PROVE Counted(t)' <=> Counted(t)
  <2> DEFINE o == Op("list", "", It(u).k, "")
  <2>1. PICK x \in Updaters :
        /\ prog[u] # <<>> /\ It(u).op = "update" /\ It(u).k \in Keys
        /\ Pushed(prog[u], <<>>, prog'[u]) /\ prog[x] = <<>> /\ prog'[x] = <<o>> /\ x \in Threads
        /\ t # u /\ t # x => prog'[t] = prog[t]
    BY <1>5, UpdateInOrder
  <2>2. CASE t = u
    <3>1. prog[t][1].op # "leave"
      BY <2>1, <2>2, HeadTyped
    <3>2. (prog'[t] # <<>> /\ prog'[t][Len(prog'[t])] = Leave) <=> prog[t][Len(prog[t])] = Leave
      <4>1. <<>> \in Seq(Ops) /\ \A i \in DOMAIN <<>> : <<>>[i].op # "leave"
        BY Lists
      <4> QED
        BY <1>0, <2>1, <2>2, <3>1, <4>1, CountedStays
    <3> QED
      BY <2>1, <2>2, <3>2 DEF Counted
  <2>3. CASE t = x
    <3>1. o \in Ops /\ o.op = "list"
      BY <2>1, OpsTyped DEF Op
    <3> HIDE DEF o
    <3>2. ~(<<o>> # <<>> /\ <<o>>[Len(<<o>>)] = Leave)
      <4>1. <<o>> \in Seq(Ops) /\ \A i \in DOMAIN <<o>> : <<o>>[i].op # "leave"
        BY <3>1, Lists
      <4> QED
        BY <4>1, NotCounted
    <3> QED
      BY <2>1, <2>3, <3>2 DEF Counted
  <2> HIDE DEF o
  <2> QED
    BY <1>3, <2>1, <2>2, <2>3
<1>6. ASSUME NEW u \in Threads, AskKey(u), ~ValidEnough(keyMap[<<"pgp", It(u).a>>])
      PROVE  Counted(t)' <=> Counted(t)
  <2>1. CASE t # u
    BY <1>3, <1>6, <2>1, FailInOrder
  <2>2. CASE t = u
    <3>1. /\ \A i \in DOMAIN prog[t] : prog[t][i].op # "leave"
          /\ \A i \in DOMAIN prog'[t] : prog'[t][i].op # "leave"
      BY <1>6, <2>2, FailInOrder DEF Answering
    <3> QED
      BY <1>0, <3>1, NotCounted DEF Counted
  <2> QED
    BY <2>1, <2>2
<1>7. CASE UpdateOOMData \/ RecipientAdded \/ MarkMimeAction
  <2>1. t # UI => prog'[t] = prog[t]
    BY <1>7, SearchInOrder, BeginInOrder
  <2> QED
    BY <1>1, <1>3, <2>1
<1> QED
  BY <1>3, <1>4, <1>5, <1>6, <1>7, StepKinds DEF vars

LEMMA CountSteps ==
  ASSUME [Next]_vars
  PROVE  /\ open' => open
         /\ StartThread \/ (\E t \in Threads : LeaveMail(t)) \/ UNCHANGED count
<1>1. ASSUME NEW t \in Threads, ThreadStep(t)
      PROVE  UNCHANGED open /\ (LeaveMail(t) \/ UNCHANGED count)
  BY <1>1 DEF ThreadStep, SetKey, SetKeySecret, InsertUnderKeyLock, Insert, InsertSkey, Update, List,
              JobDone, Read, Await, Import, SetOverride, Unmark, Locate, Certs, LocateSecret, LeaveMail,
              FreeDtor, CheckStart, Ask, AskKey, Verdict, mailVars
<1>2. ASSUME ~(\E t \in Threads : ThreadStep(t))
      PROVE  (open' => open) /\ (StartThread \/ UNCHANGED count)
  <2>1. CASE CloseMail
    BY <2>1 DEF CloseMail
  <2>2. CASE StartThread
    BY <2>2 DEF StartThread, mailVars
  <2>3. CASE ImportFromAddrBook(UI) \/ StartLocate \/ CheckAddressBook \/ EditContact
    <3>1. CASE ImportFromAddrBook(UI)
      BY <3>1 DEF ImportFromAddrBook, mailVars
    <3>2. CASE StartLocate
      BY <3>2 DEF StartLocate, mailVars
    <3>3. CASE CheckAddressBook
      BY <3>3 DEF CheckAddressBook, mailVars
    <3>4. CASE EditContact
      BY <3>4 DEF EditContact, mailVars
    <3> QED
      BY <2>3, <3>1, <3>2, <3>3, <3>4
  <2>4. CASE ChangeRecipients \/ RecipientAdded \/ UpdateOOMData \/ MarkMimeAction
    BY <2>4 DEF ChangeRecipients, RecipientAdded, UpdateOOMData, MarkMimeAction
  <2>5. CASE \E answer \in {"do", "dont"} : SetDoAutosecure(answer)
    BY <2>5 DEF SetDoAutosecure
  <2>6. CASE UNCHANGED vars
    BY <2>6 DEF vars, mailVars
  <2> QED
    BY <1>2, <2>1, <2>2, <2>3, <2>4, <2>5, <2>6 DEF Next
<1> QED
  BY <1>1, <1>2

LEMMA CountMatchesStep ==
  ASSUME TypeOK, Ordered, UIPrograms, StartsNew, CountMatches, [Next]_vars
  PROVE  CountMatches'
<1>0. /\ prog \in [Threads -> Seq(Ops)] /\ prog' \in [Threads -> Seq(Ops)] /\ count \in Nat
  BY OrderedStep DEF TypeOK, MailTypes
<1>1. SUFFICES ASSUME open' PROVE count' = Cardinality(Searchers')
  BY DEF CountMatches, Searchers
<1>2. open /\ count = Cardinality(Searchers)
  BY <1>1, CountSteps DEF CountMatches, Searchers
<1>3. CASE StartThread
  <2>1. PICK nt \in Threads \ {UI} :
           /\ prog[nt] = <<>> /\ prog'[nt] # <<>>
           /\ prog'[nt][Len(prog'[nt])] = Leave /\ UIPrograms'
           /\ \A u \in Threads : u # UI /\ u # nt => prog'[u] = prog[u]
    BY <1>3, StartInOrder
  <2>2. ~Counted(UI) /\ ~Counted(UI)'
    <3>1. \A op \in Preparing \cup Checks : op # "leave"
      BY DEF Preparing, Checks, Answering
    <3>2. UI \in Threads
      BY ThreadsDiffer
    <3> QED
      BY <1>0, <2>1, <3>1, <3>2, NotCounted DEF UIPrograms, Counted
  <2>3. Searchers' = Searchers \cup {nt} /\ nt \notin Searchers
    <3>1. \A u \in Threads : u # nt => (Counted(u)' <=> Counted(u))
      BY <2>1, <2>2 DEF Counted
    <3>2. Counted(nt)' /\ ~Counted(nt)
      BY <2>1 DEF Counted
    <3> QED
      BY <2>1, <3>1, <3>2 DEF Searchers
  <2>4. count' = count + 1
    BY <1>2, <1>3 DEF StartThread, Joined
  <2>5. Cardinality(Searchers \cup {nt}) = Cardinality(Searchers) + 1
    BY <2>3, SearchersFinite, FS_AddElement
  <2> QED
    BY <1>2, <2>3, <2>4, <2>5
<1>4. ASSUME NEW t \in Threads, LeaveMail(t) PROVE count' = Cardinality(Searchers')
  <2>1. /\ \A u \in Threads : u # t => prog'[u] = prog[u]
        /\ Len(prog[t]) = 1 /\ prog[t][1] = Leave
        /\ \A i \in DOMAIN prog'[t] : prog'[t][i].op # "leave"
    BY <1>4, LeaveInOrder
  <2>2. Counted(t) /\ ~Counted(t)'
    <3>1. prog[t] # <<>>
      BY <1>4 DEF LeaveMail, Is
    <3> QED
      BY <1>0, <2>1, <3>1, NotCounted DEF Counted
  <2>3. Searchers' = Searchers \ {t} /\ t \in Searchers
    <3>1. \A u \in Threads : u # t => (Counted(u)' <=> Counted(u))
      BY <2>1 DEF Counted
    <3> QED
      BY <2>2, <3>1 DEF Searchers
  <2>4. count # 0
    BY <1>2, <2>3, SearchersFinite
  <2>5. count' = count - 1
    <3>1. count' = (IF open /\ count > 0 THEN count - 1 ELSE count)
      BY <1>4 DEF LeaveMail
    <3> QED
      BY <1>0, <1>2, <2>4, <3>1
  <2>6. Cardinality(Searchers \ {t}) = Cardinality(Searchers) - 1
    BY <2>3, SearchersFinite, FS_RemoveElement
  <2> QED
    BY <1>2, <2>3, <2>5, <2>6
<1>5. CASE ~StartThread /\ \A t \in Threads : ~LeaveMail(t)
  BY <1>2, <1>5, CountSteps, SearchersStay
<1> QED
  BY <1>3, <1>4, <1>5
-----------------------------------------------------------------------------
(* Results are looked at.                                                  *)

\* Who works on a list
LEMMA OthersStay ==
  ASSUME TypeOK, Ordered, UIPrograms, StartsNew, [Next]_vars, NEW t \in Threads, prog[t] # <<>>
  PROVE  \/ prog'[t] = prog[t]
         \/ ThreadStep(t)
         \/ /\ t = UI
            /\ \/ ImportFromAddrBook(UI) \/ StartThread \/ StartLocate
               \/ CheckAddressBook \/ UpdateOOMData
<1>0. UI \in Threads
  BY ThreadsDiffer
<1>1. ASSUME NEW u \in Threads, u # t, ThreadStep(u) PROVE prog'[t] = prog[t]
  <2>1. ASSUME NEW ops \in Seq(Ops), Works(u, ops) PROVE prog'[t] = prog[t]
    BY <1>1, <2>1, WorksInOrder
  <2>2. ASSUME Update(u) PROVE prog'[t] = prog[t]
    <3>1. PICK x \in Updaters : /\ t # x => prog'[t] = prog[t]
                                /\ prog[x] = <<>>
      BY <1>1, <2>2, UpdateInOrder
    <3> QED
      BY <3>1
  <2>3. ASSUME LeaveMail(u) PROVE prog'[t] = prog[t]
    BY <1>1, <2>3, LeaveInOrder
  <2>4. ASSUME AskKey(u), ~ValidEnough(keyMap[<<"pgp", It(u).a>>]) PROVE prog'[t] = prog[t]
    BY <1>1, <2>4, FailInOrder
  <2> QED
    BY <1>1, <2>1, <2>2, <2>3, <2>4, ThreadSteps
<1>2. CASE ImportFromAddrBook(UI) \/ StartLocate \/ CheckAddressBook
  <2>1. PICK ops \in Seq(Ops) : Works(UI, ops)
    BY <1>2, StartWorks, CheckAddressBookWorks DEF Works
  <2>2. t # UI => prog'[t] = prog[t]
    BY <1>0, <2>1, WorksInOrder
  <2> QED
    BY <1>2, <2>2
<1>3. CASE StartThread
  BY <1>3, StartInOrder
<1>4. CASE UpdateOOMData
  BY <1>4, SearchInOrder
<1>5. CASE RecipientAdded \/ MarkMimeAction
  BY <1>5, BeginInOrder
<1>6. CASE Quiet \/ UNCHANGED vars
  BY <1>6 DEF Quiet, ChangeRecipients, CloseMail, EditContact, SetDoAutosecure, vars
<1> QED
  <2>1. CASE Next
    <3>1. CASE \E u \in Threads : ThreadStep(u)
      BY <1>1, <3>1
    <3> QED
      BY <1>2, <1>3, <1>4, <1>5, <1>6, <2>1, <3>1 DEF Next, Quiet
  <2> QED
    BY <1>6, <2>1

\* A check that is to start stays so until it starts
LEMMA StartStays ==
  ASSUME TypeOK, Ordered, UIPrograms, StartsNew, [Next]_vars, NEW t \in Threads, Checking(t)
  PROVE  Checking(t)' \/ CheckStart(t)
<1>1. PICK i \in DOMAIN prog[t] : prog[t][i].op = "start"
  BY DEF Checking
<1>2. prog[t] \in Seq(Ops) /\ prog[t] # <<>> /\ DOMAIN prog[t] = 1..Len(prog[t]) /\ Len(prog[t]) \in Nat
      /\ It(t) = prog[t][1]
  BY <1>1 DEF TypeOK, It
<1>3. CASE prog'[t] = prog[t]
  BY <1>1, <1>3 DEF Checking
<1>4. CASE i > 1
  <2>1. ASSUME NEW ops \in Seq(Ops), Pushed(prog[t], ops, prog'[t]) PROVE Checking(t)'
    <3>1. Len(ops) + i - 1 \in DOMAIN prog'[t] /\ prog'[t][Len(ops) + i - 1] = prog[t][i]
      BY <1>1, <1>4, <2>1 DEF Pushed
    <3> QED
      BY <1>1, <3>1 DEF Checking
  <2>2. ASSUME NEW ops \in Seq(Ops), Works(t, ops) PROVE Checking(t)'
    BY <2>1, <2>2, WorksInOrder
  <2>3. CASE ThreadStep(t)
    <3>1. CASE LeaveMail(t)
      <4>1. Len(prog[t]) = 1
        BY <3>1, LeaveInOrder
      <4> QED
        BY <1>1, <1>2, <1>4, <4>1
    <3>2. CASE AskKey(t) /\ ~ValidEnough(keyMap[<<"pgp", It(t).a>>])
      <4>1. prog[t][i].op \in Answering
        BY <1>1, <3>2, FailInOrder
      <4> QED
        BY <1>1, <4>1 DEF Answering
    <3>3. CASE Update(t)
      BY <2>1, <3>3, UpdateInOrder, Lists
    <3> QED
      BY <2>2, <2>3, <3>1, <3>2, <3>3, ThreadSteps
  <2>4. CASE t = UI /\ (ImportFromAddrBook(UI) \/ StartLocate \/ CheckAddressBook)
    <3>1. PICK ops \in Seq(Ops) : Works(UI, ops)
      BY <2>4, StartWorks, CheckAddressBookWorks DEF Works
    <3> QED
      BY <2>2, <2>4, <3>1
  <2>5. CASE t = UI /\ StartThread
    BY <2>1, <2>5, StartInOrder, Lists
  <2>6. CASE t = UI /\ UpdateOOMData
    <3>1. It(UI).op = "oomdata"
      BY <2>6 DEF UpdateOOMData, Is, It
    <3>2. AtOnce(prog[t]) /\ 1 \in DOMAIN prog[t]
      BY <1>2 DEF Ordered, InOrder
    <3>3. Len(prog[t]) = 1
      BY <1>2, <2>6, <3>1, <3>2 DEF AtOnce
    <3> QED
      BY <1>1, <1>2, <1>4, <3>3
  <2> QED
    BY <1>2, <1>3, <2>3, <2>4, <2>5, <2>6, OthersStay
<1>5. CASE i = 1
  <2>1. It(t).op = "start"
    BY <1>1, <1>2, <1>5
  <2>2. ThreadStep(t) => CheckStart(t)
    BY <2>1 DEF ThreadStep, SetKey, SetKeySecret, InsertUnderKeyLock, Insert, InsertSkey, Update, List,
                JobDone, Read, Await, Import, SetOverride, Unmark, Locate, Certs, LocateSecret, LeaveMail,
                FreeDtor, Ask, AskKey, Verdict, Is, It
  <2>3. t = UI => /\ ~ImportFromAddrBook(UI) /\ ~StartThread /\ ~StartLocate
                  /\ ~CheckAddressBook /\ ~UpdateOOMData
    BY <2>1 DEF ImportFromAddrBook, StartThread, StartLocate, CheckAddressBook, UpdateOOMData, Is, It
  <2> QED
    BY <1>2, <1>3, <2>2, <2>3, OthersStay
<1> QED
  BY <1>1, <1>2, <1>4, <1>5

\* A search of the UI thread ends with a check, if the user chose nothing
LEMMA BeganStays ==
  ASSUME TypeOK, Ordered, UIPrograms, StartsNew, [Next]_vars, Locating, Began, ~manual
  PROVE  Began'
<1>0. UI \in Threads
  BY ThreadsDiffer
<1>1. PICK i \in DOMAIN prog[UI] : prog[UI][i].op \in {"resolve", "oomdata", "start"}
  BY DEF Began
<1>2. prog[UI] \in Seq(Ops) /\ prog[UI] # <<>> /\ DOMAIN prog[UI] = 1..Len(prog[UI]) /\ Len(prog[UI]) \in Nat
      /\ It(UI) = prog[UI][1]
  BY <1>0, <1>1 DEF TypeOK, It
<1>3. CASE prog[UI][i].op = "start"
  <2>1. ~CheckStart(UI)
    <3>1. SUFFICES ASSUME CheckStart(UI) PROVE FALSE
      OBVIOUS
    <3>2. prog[UI][1].op = "start" /\ 1 \in DOMAIN prog[UI]
      <4>1. Is(UI, "start")
        BY <3>1 DEF CheckStart
      <4> QED
        BY <1>2, <4>1 DEF Is
    <3>3. \A j \in DOMAIN prog[UI] : j # 1 => prog[UI][j].op \in Answering
      <4>1. ChecksLast(prog[UI])
        BY <1>0 DEF Ordered, InOrder
      <4>2. "start" \in Checks
        BY DEF Checks
      <4> QED
        BY <1>2, <3>2, <4>1, <4>2 DEF ChecksLast
    <3>4. \A j \in DOMAIN prog[UI] : prog[UI][j].op \notin {"resolve", "mark", "oomdata", "search", "ctor"}
      BY <3>2, <3>3 DEF Answering
    <3> QED
      BY <3>4 DEF Locating
  <2>2. Checking(UI)'
    BY <1>0, <1>3, <2>1, StartStays DEF Checking
  <2> QED
    BY <2>2 DEF Began, Checking
<1>4. CASE prog[UI][i].op \in {"resolve", "oomdata"}
  <2>1. i = Len(prog[UI])
    BY <1>0, <1>4 DEF Ordered, InOrder, AtOnce
  <2>2. CASE UpdateOOMData
    <3>1. \E j \in DOMAIN prog'[UI] : prog'[UI][j].op = "start"
      BY <2>2, SearchInOrder
    <3> QED
      BY <3>1 DEF Began
  <2>3. CASE CheckAddressBook
    <3>1. PICK ops \in Seq(Ops) : Works(UI, ops) /\ Marking(ops)
      BY <2>3, CheckAddressBookWorks
    <3>2. Len(ops) \in DOMAIN ops /\ ops[Len(ops)].op = "oomdata" /\ Pushed(prog[UI], ops, prog'[UI])
      BY <1>0, <3>1, WorksInOrder DEF Marking
    <3>3. Len(ops) \in DOMAIN prog'[UI] /\ prog'[UI][Len(ops)].op = "oomdata"
      BY <3>2 DEF Pushed
    <3> QED
      BY <3>3 DEF Began
  <2>4. ASSUME NEW ops \in Seq(Ops), Pushed(prog[UI], ops, prog'[UI]), It(UI).op \notin {"resolve", "oomdata"}
        PROVE  Began'
    <3>1. i > 1
      BY <1>2, <1>4, <2>4
    <3>2. Len(ops) + i - 1 \in DOMAIN prog'[UI] /\ prog'[UI][Len(ops) + i - 1] = prog[UI][i]
      BY <3>1, <2>4 DEF Pushed
    <3> QED
      BY <1>1, <3>2 DEF Began
  <2>5. CASE prog'[UI] = prog[UI]
    BY <1>1, <2>5 DEF Began
  <2>6. ASSUME NEW ops \in Seq(Ops), Works(UI, ops), It(UI).op \notin {"resolve", "oomdata"} PROVE Began'
    BY <1>0, <2>4, <2>6, WorksInOrder
  <2>7. CASE ImportFromAddrBook(UI) \/ StartLocate
    <3>1. It(UI).op \notin {"resolve", "oomdata"}
      BY <2>7 DEF ImportFromAddrBook, StartLocate, Is, It
    <3>2. PICK ops \in Seq(Ops) : Works(UI, ops)
      BY <2>7, StartWorks DEF Works
    <3> QED
      BY <2>6, <3>1, <3>2
  <2>8. CASE StartThread
    BY <2>4, <2>8, StartInOrder, Lists
  <2>9. CASE ThreadStep(UI)
    <3>1. It(UI).op \notin {"resolve", "oomdata"}
      BY <2>9 DEF ThreadStep, SetKey, SetKeySecret, InsertUnderKeyLock, Insert, InsertSkey, Update, List,
                JobDone, Read, Await, Import, SetOverride, Unmark, Locate, Certs, LocateSecret, LeaveMail,
                FreeDtor, CheckStart, Ask, AskKey, Verdict, Is, It
    <3>2. CASE LeaveMail(UI)
      <4>1. prog[UI][1] = Leave /\ Len(prog[UI]) = 1
        BY <1>0, <3>2, LeaveInOrder
      <4>2. Leave.op = "leave"
        BY DEF Leave, Op
      <4>3. i = 1
        BY <2>1, <4>1
      <4> QED
        BY <1>4, <4>1, <4>2, <4>3
    <3>3. CASE AskKey(UI) /\ ~ValidEnough(keyMap[<<"pgp", It(UI).a>>])
      <4>1. prog[UI][i].op \in Answering
        BY <1>0, <1>1, <3>3, FailInOrder
      <4> QED
        BY <1>4, <4>1 DEF Answering
    <3>4. CASE Update(UI)
      BY <1>0, <3>4, UpdateInOrder
    <3> QED
      BY <1>0, <2>6, <2>9, <3>1, <3>2, <3>3, <3>4, ThreadSteps
  <2> QED
    BY <1>0, <1>2, <2>2, <2>3, <2>5, <2>7, <2>8, <2>9, OthersStay
<1> QED
  BY <1>1, <1>3, <1>4

LEMMA ManualStays ==
  ASSUME [Next]_vars, manual
  PROVE  manual'
<1>1. ASSUME NEW t \in Threads, ThreadStep(t) PROVE manual'
  BY <1>1 DEF ThreadStep, SetKey, SetKeySecret, InsertUnderKeyLock, Insert, InsertSkey, Update, List,
              JobDone, Read, Await, Import, SetOverride, Unmark, Locate, Certs, LocateSecret, LeaveMail,
              FreeDtor, CheckStart, Ask, AskKey, Verdict, mailVars
<1>2. CASE ImportFromAddrBook(UI) \/ StartThread \/ CheckAddressBook \/ EditContact \/ UNCHANGED vars
  BY <1>2 DEF ImportFromAddrBook, StartThread, CheckAddressBook, EditContact, mailVars, vars
<1>3. CASE StartLocate
  BY <1>3 DEF StartLocate, mailVars
<1>4. CASE ChangeRecipients \/ RecipientAdded \/ UpdateOOMData \/ MarkMimeAction \/ CloseMail
  BY <1>4 DEF ChangeRecipients, RecipientAdded, UpdateOOMData, MarkMimeAction, CloseMail
<1>5. CASE \E answer \in {"do", "dont"} : SetDoAutosecure(answer)
  BY <1>5 DEF SetDoAutosecure
<1> QED
  BY <1>1, <1>2, <1>3, <1>4, <1>5 DEF Next

LEMMA ChecksAfterStep ==
  ASSUME TypeOK, Ordered, UIPrograms, StartsNew, ChecksAfter, [Next]_vars
  PROVE  ChecksAfter'
<1>1. SUFFICES ASSUME ~manual', Locating' PROVE Began'
  BY DEF ChecksAfter, Began
<1>2. ~manual
  BY <1>1, ManualStays
<1>3. CASE Locating
  BY <1>2, <1>3, BeganStays DEF ChecksAfter, Began
<1>4. CASE ~Locating
  <2>1. PICK i \in DOMAIN prog'[UI] : prog'[UI][i].op \in Preparing
    BY <1>1 DEF Locating, Preparing
  <2>2. \A j \in DOMAIN prog[UI] : prog[UI][j].op \notin Preparing
    <3>1. DOMAIN prog[UI] # {} => prog[UI] # <<>>
      BY Lists
    <3> QED
      BY <1>4, <3>1 DEF Locating, Idle, Preparing
  <2>3. prog'[UI] # prog[UI]
    BY <2>1, <2>2
  <2>4. CASE RecipientAdded \/ MarkMimeAction
    <3>1. prog'[UI] = <<>> \/ prog'[UI] = LocateKeys
      BY <2>3, <2>4, BeginInOrder
    <3>2. prog'[UI] # <<>>
      BY <2>1, Lists
    <3>3. Op("resolve", "", NoKey, "") \in Ops /\ Op("resolve", "", NoKey, "").op = "resolve"
      BY OpsTyped DEF Op
    <3> DEFINE o == Op("resolve", "", NoKey, "")
    <3>4. LocateKeys = <<o>>
      BY DEF LocateKeys
    <3> HIDE DEF o
    <3>5. 1 \in DOMAIN <<o>> /\ <<o>>[1] = o
      BY <3>3, Lists DEF o
    <3>6. 1 \in DOMAIN prog'[UI] /\ prog'[UI][1].op = "resolve"
      BY <3>1, <3>2, <3>3, <3>4, <3>5 DEF o
    <3> QED
      BY <3>6 DEF Began
  <2>5. CASE ~RecipientAdded /\ ~MarkMimeAction
    <3>1. /\ \A op \in Checks : op \notin Preparing
          /\ {"mark", "search", "ctor", "resolve"} \subseteq Preparing
      BY DEF Preparing, Checks, Answering
    <3>2. ASSUME prog[UI] # <<>> PROVE FALSE
      <4>1. prog[UI] \in Seq(Ops) /\ It(UI) = prog[UI][1] /\ 1 \in DOMAIN prog[UI]
        BY <3>2, HeadTyped, ThreadsDiffer
      <4>2. It(UI).op \notin Preparing
        BY <2>2, <4>1
      <4>3. ThreadStep(UI)
        BY <2>3, <3>1, <3>2, <4>2, OthersStay, ThreadsDiffer
           DEF ImportFromAddrBook, StartThread, StartLocate, CheckAddressBook, UpdateOOMData, Is, It, Preparing
      <4>4. It(UI).op \in Checks
        BY <4>1, <4>2 DEF UIPrograms
      <4>5. ASSUME NEW ops \in Seq(Ops), Works(UI, ops) PROVE FALSE
        <5>1. Pushed(prog[UI], ops, prog'[UI])
          BY <4>5, WorksInOrder, ThreadsDiffer
        <5>2. \A j \in DOMAIN ops : ops[j].op \in {"ask", "key", "verdict"}
          BY <4>1, <4>4, <4>5 DEF Works, Working
        <5>3. \A j \in DOMAIN ops : ops[j].op \notin Preparing
          BY <5>2 DEF Preparing
        <5> QED
          BY <2>1, <2>2, <5>1, <5>3 DEF Pushed
      <4>6. ASSUME AskKey(UI), ~ValidEnough(keyMap[<<"pgp", It(UI).a>>]) PROVE FALSE
        <5>1. prog'[UI][i].op \in Answering
          BY <2>1, <4>6, FailInOrder, ThreadsDiffer
        <5> QED
          BY <2>1, <5>1 DEF Answering, Preparing
      <4>7. ~LeaveMail(UI) /\ ~Update(UI)
        BY <4>4 DEF LeaveMail, Update, Is, It, Checks, Answering
      <4> QED
        BY <4>3, <4>5, <4>6, <4>7, ThreadSteps, ThreadsDiffer
    <3>3. ASSUME prog[UI] = <<>> PROVE FALSE
      BY <2>3, <2>5, <3>3, UIIdleStays
    <3> QED
      BY <3>2, <3>3
  <2> QED
    BY <2>4, <2>5
<1> QED
  BY <1>3, <1>4

\* A result comes from a thread that is counted
LEMMA ResultsAreCounted ==
  ASSUME TypeOK, Ordered, CountMatches, open,
         NEW t \in Threads, SetKey(t) \/ SetKeySecret(t) \/ SetOverride(t)
  PROVE  count' # 0
<1>1. prog[t] # <<>> /\ It(t).op \in {"setkey", "setskey", "override"} /\ UNCHANGED count
  BY DEF SetKey, SetKeySecret, SetOverride, Is, It
<1>2. /\ prog[t] \in Seq(Ops) /\ It(t) = prog[t][1]
      /\ Len(prog[t]) \in Nat /\ Len(prog[t]) >= 1 /\ DOMAIN prog[t] = 1..Len(prog[t])
  BY <1>1, HeadTyped
<1>3. prog[t][Len(prog[t])].op = "leave"
  <2>1. LeavesLast(prog[t]) /\ 1 \in DOMAIN prog[t]
    BY <1>2 DEF Ordered, InOrder
  <2>2. prog[t][1].op \in Searching
    BY <1>1, <1>2 DEF Searching
  <2> QED
    BY <2>1, <2>2 DEF LeavesLast
<1>4. prog[t][Len(prog[t])] = Leave
  <2>1. prog[t][Len(prog[t])] \in Ops
    BY <1>2
  <2> QED
    BY <1>3, <2>1 DEF Ops
<1>5. t \in Searchers
  BY <1>1, <1>4 DEF Searchers, Counted
<1> QED
  BY <1>1, <1>5, SearchersFinite DEF CountMatches, Searchers

\* No other step leaves a result that nobody has seen
LEMMA UnseenSteps ==
  ASSUME [Next]_vars
  PROVE  \/ \E t \in Threads : SetKey(t) \/ SetKeySecret(t) \/ SetOverride(t)
         \/ \E t \in Threads : CheckStart(t) /\ count = 0 /\ unseen' = {}
         \/ UNCHANGED unseen
<1>1. ASSUME NEW t \in Threads, ThreadStep(t),
             ~SetKey(t), ~SetKeySecret(t), ~SetOverride(t), ~CheckStart(t)
      PROVE  UNCHANGED unseen
  BY <1>1 DEF ThreadStep, InsertUnderKeyLock, Insert, InsertSkey, Update, List,
              JobDone, Read, Await, Import, Unmark, Locate, Certs, LocateSecret, LeaveMail,
              FreeDtor, Ask, AskKey, Verdict, ghosts
<1>2. ASSUME NEW t \in Threads, CheckStart(t) PROVE (count = 0 /\ unseen' = {}) \/ UNCHANGED unseen
  BY <1>2 DEF CheckStart
<1>3. CASE ImportFromAddrBook(UI) \/ StartThread \/ CheckAddressBook \/ EditContact
  BY <1>3 DEF ImportFromAddrBook, StartThread, CheckAddressBook, EditContact, ghosts
<1>4. CASE StartLocate
  BY <1>4 DEF StartLocate, ghosts
<1>5. CASE ChangeRecipients \/ RecipientAdded \/ UpdateOOMData \/ MarkMimeAction \/ CloseMail
  BY <1>5 DEF ChangeRecipients, RecipientAdded, UpdateOOMData, MarkMimeAction, CloseMail, ghosts
<1>6. CASE \E answer \in {"do", "dont"} : SetDoAutosecure(answer)
  BY <1>6 DEF SetDoAutosecure, ghosts
<1>7. CASE UNCHANGED vars
  BY <1>7 DEF vars, ghosts
<1> QED
  BY <1>1, <1>2, <1>3, <1>4, <1>5, <1>6, <1>7 DEF Next

LEMMA NoResultUnseenStep ==
  ASSUME TypeOK, Ordered, UIPrograms, StartsNew, CountMatches, ChecksAfter, NoResultUnseen, [Next]_vars
  PROVE  NoResultUnseen'
<1>1. SUFFICES ASSUME open', count' = 0, ~manual', ~Locating', \A t \in Threads : ~Checking(t)'
               PROVE  unseen' = {}
  BY DEF NoResultUnseen
<1>2. open /\ ~manual /\ UI \in Threads
  BY <1>1, CountSteps, ManualStays, ThreadsDiffer
<1>3. \A t \in Threads : ~(SetKey(t) \/ SetKeySecret(t) \/ SetOverride(t))
  BY <1>1, <1>2, ResultsAreCounted
<1>4. SUFFICES ASSUME UNCHANGED unseen, \A t \in Threads : CheckStart(t) => count # 0 \/ unseen' = {}
               PROVE  unseen' = {}
  <2>1. ASSUME NEW t \in Threads, CheckStart(t), count = 0 PROVE unseen' = {}
    BY <2>1 DEF CheckStart
  <2> QED
    BY <1>3, <2>1, UnseenSteps
<1>5. count = 0
  <2>1. SUFFICES ASSUME count # 0 PROVE FALSE
    OBVIOUS
  <2>2. ~StartThread
    BY <1>1, <1>2 DEF StartThread, Joined, TypeOK, MailTypes
  <2>3. PICK t \in Threads : LeaveMail(t)
    BY <1>1, <2>1, <2>2, CountSteps
  <2>4. count \in Nat /\ count' = (IF count > 0 THEN count - 1 ELSE count)
    BY <1>2, <2>3 DEF LeaveMail, TypeOK, MailTypes
  <2>5. IsLast(count - 1)
    BY <1>1, <2>1, <2>4 DEF IsLast
  <2>6. Checking(t)'
    BY <1>2, <2>3, <2>5, LeaveInOrder DEF Checking
  <2> QED
    BY <1>1, <2>6
<1>6. CASE \E t \in Threads : Checking(t)
  <2>1. PICK t \in Threads : Checking(t)
    BY <1>6
  <2>2. CheckStart(t)
    BY <1>1, <2>1, StartStays
  <2> QED
    BY <1>4, <1>5, <2>2
<1>7. ~Locating
  <2>1. SUFFICES ASSUME Locating PROVE FALSE
    OBVIOUS
  <2>2. Began'
    BY <1>2, <2>1, BeganStays DEF ChecksAfter, Began
  <2>3. PICK i \in DOMAIN prog'[UI] : prog'[UI][i].op \in {"resolve", "oomdata", "start"}
    BY <2>2 DEF Began
  <2>4. prog'[UI][i].op # "start"
    BY <1>1, <1>2, <2>3 DEF Checking
  <2>5. prog'[UI] # <<>>
    BY <2>3, Lists
  <2> QED
    BY <1>1, <2>3, <2>4, <2>5 DEF Locating, Idle
<1> QED
  BY <1>2, <1>4, <1>5, <1>6, <1>7 DEF NoResultUnseen

LEMMA InitCounts ==
  ASSUME Init
  PROVE  CountMatches /\ ChecksAfter /\ NoResultUnseen
<1>1. \A t \in Threads : ~Counted(t)
  <2>1. ASSUME NEW t \in Threads PROVE ~Counted(t)
    <3>1. prog[t] \in Seq(Ops) /\ \A i \in DOMAIN prog[t] : prog[t][i].op # "leave"
      BY StartLists
    <3> QED
      BY <3>1, NotCounted DEF Counted
  <2> QED
    BY <2>1
<1>2. CountMatches
  <2>1. { t \in Threads : Counted(t) } = {}
    BY <1>1
  <2>2. count = 0
    BY DEF Init
  <2> QED
    BY <2>1, <2>2, FS_EmptySet DEF CountMatches
<1>3. ChecksAfter
  <2>1. prog[UI] = <<>>
    BY StartLists, ThreadsDiffer DEF UI, Populate, Verify
  <2> QED
    BY <2>1 DEF ChecksAfter, Locating, Idle
<1>4. NoResultUnseen
  BY DEF Init, NoResultUnseen
<1> QED
  BY <1>2, <1>3, <1>4

\* All that holds of the cache, the threads and the mail they search for
KInv == /\ TypeOK /\ Ordered /\ UIPrograms /\ Started /\ Promised /\ DoneMeansCached
        /\ CountMatches /\ ChecksAfter /\ NoResultUnseen

LEMMA KInvStep ==
  ASSUME KInv, [Next]_vars
  PROVE  KInv'
<1>1. TypeOK /\ Ordered /\ UIPrograms /\ Started /\ Promised /\ DoneMeansCached
      /\ CountMatches /\ ChecksAfter /\ NoResultUnseen
  BY DEF KInv
<1>2. StartsNew
  BY <1>1 DEF Started
<1>3. (TypeOK /\ Ordered /\ UIPrograms /\ Started /\ Promised /\ DoneMeansCached)'
  BY <1>1, CacheStep
<1>4. CountMatches'
  BY <1>1, <1>2, CountMatchesStep
<1>5. ChecksAfter'
  BY <1>1, <1>2, ChecksAfterStep
<1>6. NoResultUnseen'
  BY <1>1, <1>2, NoResultUnseenStep
<1> QED
  BY <1>3, <1>4, <1>5, <1>6 DEF KInv

LEMMA KInvAlways == Spec => []KInv
<1>1. Init => KInv
  BY InitInv, InitCounts DEF KInv
<1>2. KInv /\ [Next]_vars => KInv'
  BY KInvStep
<1> QED
  BY <1>1, <1>2, PTL DEF Spec

\* m_locate_count of a mail that exists is the number of threads that search
\* keys, or import them, for it.
THEOREM CountMatchesAlways == Spec => []CountMatches
<1>1. KInv => CountMatches
  BY DEF KInv
<1> QED
  BY <1>1, KInvAlways, PTL

\* When nobody searches any more, and the user chose nothing, a check came or
\* comes after the last key that was found for the mail.
THEOREM NoResultUnseenAlways == Spec => []NoResultUnseen
<1>1. KInv => NoResultUnseen
  BY DEF KInv
<1> QED
  BY <1>1, KInvAlways, PTL
=============================================================================
