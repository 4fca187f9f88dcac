--------------------------- MODULE SendKeys_proofs ---------------------------
(***************************************************************************)
(* Proofs about SendKeys: the keys of a mail are those of the recipients   *)
(* it is delivered to, nobody is lost in a split, and one protocol is used.*)
(***************************************************************************)
EXTENDS SendKeys, FiniteSetTheorems, WellFoundedInduction, TLAPS

(***************************************************************************)
(* Induction, as the existence of a least counterexample.                  *)
(***************************************************************************)
LEMMA NatMin ==
  ASSUME NEW T, T \subseteq Nat, T # {}
  PROVE  \E x \in T : \A y \in T : x <= y
<1> DEFINE R == { ss \in Nat \X Nat : ss[1] < ss[2] }
<1>0. IsWellFoundedOn(R, Nat)
  BY NatLessThanWellFounded DEF OpToRel
<1> HIDE DEF R
<1>1. PICK x \in T : \A y \in T : ~ (<<y, x>> \in R)
  BY <1>0, WFMin
<1>2. \A y \in T : ~(y < x)
  BY <1>1 DEF R
<1> QED
  BY <1>2

\* A set of naturals with 0 and all successors up to n
LEMMA Induct ==
  ASSUME NEW n \in Nat, NEW T, 0 \in T, \A i \in 0..(n - 1) : i \in T => i + 1 \in T
  PROVE  0..n \subseteq T
<1>1. SUFFICES ASSUME (0..n) \ T # {} PROVE FALSE
  OBVIOUS
<1>0. (0..n) \ T \subseteq Nat
  OBVIOUS
<1>2. PICK x \in (0..n) \ T : \A y \in (0..n) \ T : x <= y
  BY <1>0, <1>1, NatMin
<1>3. x - 1 \in 0..(n - 1) /\ x - 1 \in T
  BY <1>2
<1> QED
  BY <1>2, <1>3
-----------------------------------------------------------------------------
(* Flattened sequences.                                                    *)

\* The places in a sequence of sequences
Places(ss) == { p \in (1..Len(ss)) \X Nat : p[2] \in DOMAIN ss[p[1]] }

\* What FlattenSeq computes step by step
Steps(ss, n, f) ==
  f = [i \in 1..n |-> IF i = 1 THEN ss[i] ELSE f[i - 1] \o ss[i]]

LEMMA StepsExist ==
  ASSUME NEW S, NEW ss \in Seq(Seq(S))
  PROVE  \E f : Steps(ss, Len(ss), f)
<1> DEFINE T == { n \in 0..Len(ss) : \E f : Steps(ss, n, f) }
<1>0. Len(ss) \in Nat
  OBVIOUS
<1>1. 0 \in T
  <2>1. Steps(ss, 0, [i \in 1..0 |-> ss[1]])
    BY DEF Steps
  <2> QED
    BY <1>0, <2>1
<1>2. ASSUME NEW n \in 0..(Len(ss) - 1), n \in T PROVE n + 1 \in T
  <2>1. PICK f : Steps(ss, n, f)
    BY <1>2
  <2> DEFINE g == [i \in 1..(n + 1) |-> IF i <= n THEN f[i] ELSE IF i = 1 THEN ss[i] ELSE f[i - 1] \o ss[i]]
             h == [i \in 1..(n + 1) |-> IF i = 1 THEN ss[i] ELSE g[i - 1] \o ss[i]]
  <2>2. ASSUME NEW i \in 1..(n + 1) PROVE g[i] = h[i]
    <3>1. CASE i <= n
      <4>1. i \in 1..n /\ g[i] = f[i]
        BY <3>1
      <4>2. f[i] = IF i = 1 THEN ss[i] ELSE f[i - 1] \o ss[i]
        BY <2>1, <4>1 DEF Steps
      <4>3. i # 1 => g[i - 1] = f[i - 1]
        BY <4>1
      <4> QED
        BY <4>1, <4>2, <4>3
    <3>2. CASE i = n + 1
      <4>1. i # 1 => g[i - 1] = f[i - 1]
        BY <3>2
      <4> QED
        BY <3>2, <4>1
    <3> QED
      BY <3>1, <3>2
  <2>3. g = h
    BY <2>2
  <2> HIDE DEF g
  <2>4. Steps(ss, n + 1, g)
    BY <2>3 DEF Steps
  <2>5. n + 1 \in 0..Len(ss)
    BY <1>0
  <2> QED
    BY <2>4, <2>5
<1> HIDE DEF T
<1>3. 0..Len(ss) \subseteq T
  BY <1>0, <1>1, <1>2, Induct
<1>4. Len(ss) \in T
  BY <1>0, <1>3
<1> QED
  BY <1>4 DEF T

LEMMA FlattenSteps ==
  ASSUME NEW S, NEW ss \in Seq(Seq(S)), Len(ss) > 0
  PROVE  \E f : Steps(ss, Len(ss), f) /\ FlattenSeq(ss) = f[Len(ss)]
<1> DEFINE g == CHOOSE f : Steps(ss, Len(ss), f)
<1>1. Steps(ss, Len(ss), g)
  BY StepsExist
<1>2. FlattenSeq(ss) = g[Len(ss)]
  BY DEF FlattenSeq, Steps
<1> QED
  BY <1>1, <1>2

\* s has what is at the places of ss up to the n-th, each once
Lists(s, ss, n) ==
  \E f \in Bijection(DOMAIN s, { p \in Places(ss) : p[1] <= n }) :
    \A k \in DOMAIN s : s[k] = ss[f[k][1]][f[k][2]]

\* One more sequence behind
LEMMA ListsOn ==
  ASSUME NEW S, NEW ss \in Seq(Seq(S)), NEW n \in 1..Len(ss), NEW s \in Seq(S), Lists(s, ss, n - 1)
  PROVE  Lists(s \o ss[n], ss, n)
<1> DEFINE A == { p \in Places(ss) : p[1] <= n - 1 }
           B == { p \in Places(ss) : p[1] <= n }
           t == ss[n]
           r == s \o t
<1>1. PICK f \in Bijection(DOMAIN s, A) : \A k \in DOMAIN s : s[k] = ss[f[k][1]][f[k][2]]
  BY DEF Lists
<1>2. /\ f \in [DOMAIN s -> A]
      /\ \A j, k \in DOMAIN s : f[j] = f[k] => j = k
      /\ \A p \in A : \E k \in DOMAIN s : f[k] = p
  BY <1>1 DEF Bijection, Injection, Surjection, IsInjective
<1>3. /\ n \in Nat /\ Len(s) \in Nat /\ DOMAIN s = 1..Len(s)
      /\ t \in Seq(S) /\ Len(t) \in Nat /\ DOMAIN t = 1..Len(t)
      /\ r \in Seq(S) /\ Len(r) = Len(s) + Len(t) /\ DOMAIN r = 1..(Len(s) + Len(t))
      /\ \A k \in DOMAIN r : r[k] = IF k <= Len(s) THEN s[k] ELSE t[k - Len(s)]
  OBVIOUS
<1> DEFINE g == [k \in DOMAIN r |-> IF k <= Len(s) THEN f[k] ELSE <<n, k - Len(s)>>]
<1>4. \A p \in B : \/ p \in A
                   \/ p = <<n, p[2]>> /\ p[2] \in DOMAIN t
  BY <1>3 DEF Places
<1>5. \A p \in A : p \in B /\ p[1] < n
  BY <1>3 DEF Places
<1>6. \A j \in DOMAIN t : <<n, j>> \in B
  BY <1>3 DEF Places
<1> HIDE DEF A, B, t, r
<1>7. ASSUME NEW k \in DOMAIN r
      PROVE  /\ g[k] \in B /\ r[k] = ss[g[k][1]][g[k][2]]
             /\ k <= Len(s) => g[k] = f[k] /\ k \in DOMAIN s
             /\ k > Len(s) => g[k] = <<n, k - Len(s)>> /\ k - Len(s) \in DOMAIN t
  <2>0. k \in 1..(Len(s) + Len(t)) /\ Len(s) \in Nat /\ Len(t) \in Nat
    BY <1>3
  <2>1. CASE k <= Len(s)
    <3>1. k \in DOMAIN s
      BY <1>3, <2>0, <2>1
    <3>2. g[k] = f[k] /\ r[k] = s[k]
      BY <1>3, <2>1
    <3>3. f[k] \in B /\ s[k] = ss[f[k][1]][f[k][2]]
      BY <1>1, <1>2, <1>5, <3>1
    <3> QED
      BY <2>0, <2>1, <3>1, <3>2, <3>3
  <2>2. CASE k > Len(s)
    <3>1. k - Len(s) \in 1..Len(t) /\ ~(k <= Len(s))
      BY <2>0, <2>2
    <3>2. g[k] = <<n, k - Len(s)>> /\ r[k] = t[k - Len(s)]
      BY <1>3, <3>1
    <3>3. k - Len(s) \in DOMAIN t
      BY <1>3, <3>1
    <3>4. g[k] \in B /\ r[k] = ss[g[k][1]][g[k][2]]
      <4>1. g[k][1] = n /\ g[k][2] = k - Len(s) /\ g[k] \in B
        <5> HIDE DEF g
        <5>1. PICK j \in DOMAIN t : j = k - Len(s)
          BY <3>3
        <5>2. g[k] = <<n, j>> /\ <<n, j>> \in B
          BY <1>6, <3>2, <5>1
        <5> QED
          BY <5>1, <5>2
      <4>2. t[k - Len(s)] = ss[n][k - Len(s)]
        BY DEF t
      <4> QED
        BY <3>2, <4>1, <4>2
    <3> QED
      BY <2>2, <3>1, <3>2, <3>3, <3>4
  <2> QED
    BY <2>0, <2>1, <2>2
<1>8. g \in [DOMAIN r -> B]
  BY <1>7
<1> HIDE DEF g
<1>9. ASSUME NEW j \in DOMAIN r, NEW k \in DOMAIN r, g[j] = g[k] PROVE j = k
  <2>1. CASE j <= Len(s) /\ k <= Len(s)
    BY <1>2, <1>7, <1>9, <2>1
  <2>2. CASE j > Len(s) /\ k > Len(s)
    <3>1. j - Len(s) = k - Len(s)
      BY <1>7, <1>9, <2>2
    <3> QED
      BY <1>3, <3>1
  <2>3. CASE j <= Len(s) /\ k > Len(s)
    <3>1. g[j] \in A /\ g[k][1] = n
      BY <1>2, <1>7, <2>3
    <3> QED
      BY <1>3, <1>5, <1>9, <3>1
  <2>4. CASE j > Len(s) /\ k <= Len(s)
    <3>1. g[k] \in A /\ g[j][1] = n
      BY <1>2, <1>7, <2>4
    <3> QED
      BY <1>3, <1>5, <1>9, <3>1
  <2> QED
    BY <1>3, <2>1, <2>2, <2>3, <2>4
<1>10. ASSUME NEW p \in B PROVE \E k \in DOMAIN r : g[k] = p
  <2>1. CASE p \in A
    <3>1. PICK k \in DOMAIN s : f[k] = p
      BY <1>2, <2>1
    <3>2. k \in DOMAIN r /\ k <= Len(s)
      <4>1. k \in 1..Len(s) /\ Len(s) \in Nat /\ Len(t) \in Nat
        BY <1>3
      <4>2. k \in 1..(Len(s) + Len(t))
        BY <4>1
      <4> QED
        BY <1>3, <4>1, <4>2
    <3> QED
      BY <1>7, <3>1, <3>2
  <2>2. CASE p = <<n, p[2]>> /\ p[2] \in DOMAIN t
    <3>1. PICK j \in 1..Len(t) : p[2] = j
      BY <1>3, <2>2
    <3> DEFINE k == j + Len(s)
    <3>0. Len(s) \in Nat /\ Len(t) \in Nat /\ j \in Nat /\ j <= Len(t) /\ j >= 1
      BY <1>3
    <3>2. k \in 1..(Len(s) + Len(t)) /\ k > Len(s) /\ k - Len(s) = p[2]
      BY <3>0, <3>1
    <3>3. k \in DOMAIN r
      BY <1>3, <3>2
    <3>4. g[k] = <<n, p[2]>>
      <4> HIDE DEF k
      <4> QED
        BY <1>7, <3>2, <3>3
    <3> QED
      BY <2>2, <3>3, <3>4
  <2> QED
    BY <1>4, <2>1, <2>2
<1>11. g \in Bijection(DOMAIN r, B)
  BY <1>8, <1>9, <1>10 DEF Bijection, Injection, Surjection, IsInjective
<1> QED
  BY <1>7, <1>11 DEF Lists, B, r, t

LEMMA Flattened ==
  ASSUME NEW S, NEW ss \in Seq(Seq(S))
  PROVE  FlattenSeq(ss) \in Seq(S) /\ Lists(FlattenSeq(ss), ss, Len(ss))
<1>0. Len(ss) \in Nat
  OBVIOUS
<1>e. Lists(<<>>, ss, 0)
  <2>1. { p \in Places(ss) : p[1] <= 0 } = {}
    BY DEF Places
  <2>2. <<>> \in Bijection(DOMAIN <<>>, {})
    BY DEF Bijection, Injection, Surjection, IsInjective
  <2>3. DOMAIN <<>> = {}
    OBVIOUS
  <2>4. \E f \in Bijection(DOMAIN <<>>, {}) : \A k \in DOMAIN <<>> : <<>>[k] = ss[f[k][1]][f[k][2]]
    BY <2>2, <2>3
  <2> QED
    BY <2>1, <2>4 DEF Lists
<1>1. CASE Len(ss) = 0
  <2>1. ss = <<>> /\ FlattenSeq(ss) = ss
    BY <1>1 DEF FlattenSeq
  <2>2. <<>> \in Seq(S)
    OBVIOUS
  <2>3. FlattenSeq(ss) = <<>>
    BY <2>1
  <2> QED
    BY <1>1, <1>e, <2>2, <2>3
<1>2. CASE Len(ss) > 0
  <2>1. PICK f : Steps(ss, Len(ss), f) /\ FlattenSeq(ss) = f[Len(ss)]
    BY <1>2, FlattenSteps
  <2> DEFINE T == { n \in 0..Len(ss) : n > 0 => f[n] \in Seq(S) /\ Lists(f[n], ss, n) }
  <2>2. 0 \in T
    BY <1>0
  <2>3. ASSUME NEW n \in 0..(Len(ss) - 1), n \in T PROVE n + 1 \in T
    <3>1. n + 1 \in 1..Len(ss) /\ n + 1 - 1 = n /\ n + 1 \in 0..Len(ss) /\ ss[n + 1] \in Seq(S)
      BY <1>0
    <3>2. CASE n = 0
      <4>1. f[n + 1] = ss[1]
        BY <2>1, <3>1, <3>2 DEF Steps
      <4>2. <<>> \o ss[1] = ss[1]
        BY <3>1, <3>2
      <4>3. Lists(<<>> \o ss[1], ss, 1)
        <5>1. 1 \in 1..Len(ss) /\ 1 - 1 = 0 /\ <<>> \in Seq(S)
          BY <1>0, <1>2
        <5> HIDE DEF T
        <5>2. Lists(<<>>, ss, 1 - 1)
          BY <1>e, <5>1
        <5> QED
          BY <5>1, <5>2, ListsOn
      <4> QED
        BY <3>1, <3>2, <4>1, <4>2, <4>3
    <3>3. CASE n # 0
      <4>1. f[n + 1] = f[n] \o ss[n + 1]
        <5>1. \A i \in 1..Len(ss) : f[i] = IF i = 1 THEN ss[i] ELSE f[i - 1] \o ss[i]
          BY <2>1 DEF Steps
        <5>2. n + 1 # 1 /\ n + 1 \in 1..Len(ss) /\ n + 1 - 1 = n
          BY <1>0, <3>1, <3>3
        <5>3. PICK m \in 1..Len(ss) : m = n + 1
          BY <5>2
        <5>4. m # 1 /\ m - 1 = n
          BY <5>2, <5>3
        <5>5. f[m] = f[m - 1] \o ss[m]
          BY <5>1, <5>4
        <5> QED
          BY <5>3, <5>4, <5>5
      <4>2. f[n] \in Seq(S) /\ Lists(f[n], ss, n)
        BY <2>3, <3>3
      <4>3. Lists(f[n] \o ss[n + 1], ss, n + 1)
        BY <3>1, <4>2, ListsOn
      <4>4. f[n + 1] \in Seq(S)
        BY <3>1, <4>1, <4>2
      <4> QED
        BY <3>1, <4>1, <4>3, <4>4
    <3> QED
      BY <3>2, <3>3
  <2> HIDE DEF T
  <2>4. 0..Len(ss) \subseteq T
    BY <1>0, <2>2, <2>3, Induct
  <2>5. Len(ss) \in T
    BY <1>0, <2>4
  <2> QED
    BY <1>2, <2>1, <2>5 DEF T
<1> QED
  BY <1>0, <1>1, <1>2

-----------------------------------------------------------------------------
(* The inductive invariant.                                                *)

AllAddrs == { Address[e] : e \in Entries }
Ooms     == Seq([addr : Entries \cup Groups, type : Entered])
Senders  == {NoAddr, CurrentUser} \cup { c.account : c \in Composed } \cup { FirstKnown(c.identity) : c \in Composed }
Mboxes   == AllAddrs \cup Senders
Keys     == Mboxes \X Protos
Recps    == [mbox : Mboxes, type : Types, keys : SUBSET Keys, index : Nat]
States   == {"compose", "crypto", "split", "sent", "given up", "unsent"}
MailRecs ==
  [oom : Ooms, encrypt : BOOLEAN, sign : BOOLEAN,
   account : { c.account : c \in Composed }, identity : { c.identity : c \in Composed },
   sender : Senders, cached : Seq(Recps), set : BOOLEAN, signers : SUBSET (Keys \cup {NoKey}),
   state : States, proto : Protos \cup {"unknown"}, asked : BOOLEAN,
   to : SUBSET Keys, by : SUBSET (Keys \cup {NoKey})]

TypeOK == mail \in [Mails -> MailRecs \cup {NoMail}] /\ mail[0] # NoMail

\* The recipients with an address, and how many there are. The originator is
\* none of them
Held(recps, a)  == { i \in DOMAIN recps : recps[i].type \in Entered /\ recps[i].mbox = a }
Count(recps, a) == Cardinality(Held(recps, a))
\* The recipients are those of Outlook, in any order
Same(recps, oom) == \A a \in AllAddrs : Count(recps, a) = Count(GetRecipients(oom), a)

\* Keys are of their recipient, the originator is the sender
Proper(recps, encrypt, sender) ==
  \A i \in DOMAIN recps :
    /\ recps[i].keys \subseteq {recps[i].mbox} \X Protos
    /\ ~encrypt => recps[i].keys = {}
    /\ recps[i].type = "orig" => recps[i].mbox = sender
    /\ recps[i].type \in Entered => recps[i].mbox \in AllAddrs

OwnKeys(sender) == {sender} \X Protos \cup {NoKey}

UnderWay(m) ==
  /\ m.sender = ChooseSender(m.account, m.identity)
  /\ Proper(m.cached, m.encrypt, m.sender)
  /\ \E i \in DOMAIN m.cached : m.cached[i].mbox = m.sender
  /\ m.signers \subseteq OwnKeys(m.sender)
  /\ m.encrypt => Same(m.cached, m.oom)

\* Everybody has keys, and somebody is hidden
Splittable(recps) ==
  /\ \A i \in DOMAIN recps : recps[i].keys # {}
  /\ \E i \in DOMAIN recps : recps[i].type = "bcc"

Readable(m) == { Owner(k) : k \in m.to } = Addresses(m.oom) \cup {m.sender}
OneProto(m) ==
  /\ \A k \in m.to : Proto(k) = m.proto
  /\ m.sign /\ ~m.asked => m.by = {<<m.sender, m.proto>>}

Good(m) ==
  /\ m.state = "compose" => m.cached = <<>> /\ ~m.set /\ m.signers = {}
  /\ m.state \in {"crypto", "split"} => UnderWay(m)
  /\ m.state = "split" /\ m.encrypt => Splittable(m.cached)
  /\ m.state = "sent" /\ m.encrypt => Readable(m) /\ OneProto(m)

AllGood == \A x \in Mails : mail[x] # NoMail => Good(mail[x])

Inv == TypeOK /\ AllGood /\ NobodyForgotten

-----------------------------------------------------------------------------
(* Lists are resolved.                                                     *)

AddrOf(e) == IF Address[e] = NoAddr THEN <<>> ELSE <<Address[e]>>

\* h resolves what is in T
Resolves(h, T) ==
  h = [e \in T |-> IF e \in Groups THEN FlattenSeq([i \in DOMAIN Members[e] |-> h[Members[e][i]]])
                   ELSE AddrOf(e)]

Depths == [Groups -> 0..Cardinality(Groups)]
IsDepth(depth) ==
  \A g \in Groups : \A i \in DOMAIN Members[g] :
    Members[g][i] \in Groups => depth[Members[g][i]] < depth[g]

\* The entries, and the lists that are not as deep as n
Below(depth, n) == Entries \cup { g \in Groups : depth[g] < n }

\* One level deeper
LEMMA ResolvesOn ==
  ASSUME NEW depth \in Depths, IsDepth(depth), NEW n \in Nat, NEW h, Resolves(h, Below(depth, n))
  PROVE  \E f : Resolves(f, Below(depth, n + 1))
<1> DEFINE T == Below(depth, n)
           U == Below(depth, n + 1)
           f == [e \in U |-> IF e \in T THEN h[e] ELSE FlattenSeq([i \in DOMAIN Members[e] |-> h[Members[e][i]]])]
           k == [e \in U |-> IF e \in Groups THEN FlattenSeq([i \in DOMAIN Members[e] |-> f[Members[e][i]]])
                             ELSE AddrOf(e)]
<1>0. \A g \in Groups : depth[g] \in Nat
  BY FS_CardinalityType, ListAssumption DEF Depths
<1>1. T \subseteq U
  BY <1>0 DEF Below
<1>2. ASSUME NEW e \in U, e \in Groups, NEW i \in DOMAIN Members[e] PROVE Members[e][i] \in T
  <2>1. Members[e][i] \in Entries \cup Groups
    BY <1>2, ListAssumption
  <2>2. depth[e] < n + 1
    BY <1>2, ListAssumption DEF Below
  <2>3. CASE Members[e][i] \in Groups
    <3>1. depth[Members[e][i]] < depth[e]
      BY <1>2, <2>3 DEF IsDepth
    <3>2. depth[Members[e][i]] < n
      BY <1>0, <1>2, <2>2, <2>3, <3>1
    <3> QED
      BY <2>3, <3>2 DEF Below
  <2> QED
    BY <2>1, <2>3 DEF Below
<1>3. \A e \in T : f[e] = h[e]
  BY <1>1
<1>4. ASSUME NEW e \in U PROVE f[e] = k[e]
  <2>1. CASE e \in Groups
    <3>1. \A i \in DOMAIN Members[e] : f[Members[e][i]] = h[Members[e][i]]
      BY <1>2, <1>3, <2>1
    <3>2. k[e] = FlattenSeq([i \in DOMAIN Members[e] |-> h[Members[e][i]]])
      <4>1. [i \in DOMAIN Members[e] |-> f[Members[e][i]]] = [i \in DOMAIN Members[e] |-> h[Members[e][i]]]
        BY <3>1
      <4>2. k[e] = FlattenSeq([i \in DOMAIN Members[e] |-> f[Members[e][i]]])
        BY <2>1
      <4> HIDE DEF f, k
      <4> QED
        BY <4>1, <4>2
    <3>3. e \in T => h[e] = FlattenSeq([i \in DOMAIN Members[e] |-> h[Members[e][i]]])
      BY <2>1 DEF Resolves
    <3> QED
      BY <3>2, <3>3
  <2>2. CASE e \notin Groups
    <3>1. e \in T
      BY <2>2 DEF Below
    <3>2. h[e] = AddrOf(e)
      BY <2>2, <3>1 DEF Resolves
    <3> QED
      BY <1>3, <2>2, <3>1, <3>2
  <2> QED
    BY <2>1, <2>2
<1>5. f = k
  BY <1>4
<1> HIDE DEF f
<1>6. Resolves(f, U)
  BY <1>5 DEF Resolves
<1> QED
  BY <1>6 DEF U

LEMMA ResolvesAll == Resolves(try_resolve_group, Entries \cup Groups)
<1>1. PICK depth \in Depths : IsDepth(depth)
  BY ListAssumption DEF Depths, IsDepth
<1>2. Cardinality(Groups) \in Nat
  BY FS_CardinalityType, ListAssumption
<1> DEFINE m == Cardinality(Groups) + 1
           T == { n \in 0..m : \E f : Resolves(f, Below(depth, n)) }
<1>3. 0 \in T
  <2>1. Below(depth, 0) = Entries
    BY <1>1, <1>2 DEF Below, Depths
  <2>2. Resolves([e \in Entries |-> AddrOf(e)], Entries)
    BY ListAssumption DEF Resolves
  <2> QED
    BY <1>2, <2>1, <2>2
<1>4. ASSUME NEW n \in 0..(m - 1), n \in T PROVE n + 1 \in T
  <2>1. PICK h : Resolves(h, Below(depth, n))
    BY <1>4
  <2>2. n \in Nat /\ n + 1 \in 0..m
    BY <1>2
  <2> HIDE DEF m
  <2> QED
    BY <1>1, <2>1, <2>2, ResolvesOn
<1>5. m \in Nat
  BY <1>2
<1> HIDE DEF T
<1>6. m \in T
  <2> HIDE DEF m
  <2>1. 0..m \subseteq T
    BY <1>3, <1>4, <1>5, Induct
  <2> QED
    BY <1>5, <2>1
<1>7. Below(depth, m) = Entries \cup Groups
  BY <1>1, <1>2 DEF Below, Depths
<1>8. PICK f : Resolves(f, Entries \cup Groups)
  BY <1>6, <1>7 DEF T
<1> QED
  BY <1>8 DEF Resolves, try_resolve_group, AddrOf

LEMMA AddressType == Address \in [Entries -> AllAddrs]
  BY DEF Address, AllAddrs

LEMMA ResolvedType == \A g \in Groups : resolved[g] \in Seq(AllAddrs)
<1>1. PICK depth \in Depths : IsDepth(depth)
  BY ListAssumption DEF Depths, IsDepth
<1>0. \A g \in Groups : depth[g] \in Nat
  BY FS_CardinalityType, ListAssumption DEF Depths
<1> DEFINE f == try_resolve_group
           Bad == { g \in Groups : f[g] \notin Seq(AllAddrs) }
<1>2. /\ \A g \in Groups : f[g] = FlattenSeq([i \in DOMAIN Members[g] |-> f[Members[g][i]]])
      /\ \A e \in Entries : f[e] = AddrOf(e)
  BY ResolvesAll, ListAssumption DEF Resolves
<1> HIDE DEF f
<1>3. ASSUME Bad # {} PROVE FALSE
  <2>1. PICK d \in { depth[g] : g \in Bad } : \A y \in { depth[g] : g \in Bad } : d <= y
    BY <1>0, <1>3, NatMin
  <2>2. PICK g \in Bad : d = depth[g]
    BY <2>1
  <2>3. ASSUME NEW i \in DOMAIN Members[g] PROVE f[Members[g][i]] \in Seq(AllAddrs)
    <3>1. Members[g][i] \in Entries \cup Groups
      BY ListAssumption
    <3>2. CASE Members[g][i] \in Groups
      <4>1. depth[Members[g][i]] < depth[g]
        BY <1>1, <3>2 DEF IsDepth
      <4>2. Members[g][i] \notin Bad
        <5>1. PICK e \in Groups : e = Members[g][i]
          BY <3>2
        <5>2. e \in Bad => d <= depth[e]
          BY <2>1
        <5>3. depth[e] < d /\ d \in Nat /\ depth[e] \in Nat
          BY <1>0, <2>2, <4>1, <5>1
        <5> QED
          BY <5>1, <5>2, <5>3
      <4> QED
        BY <3>2, <4>2
    <3>3. CASE Members[g][i] \in Entries
      <4>1. f[Members[g][i]] = AddrOf(Members[g][i]) /\ Address[Members[g][i]] \in AllAddrs
        BY <1>2, <3>3, AddressType
      <4>2. AddrOf(Members[g][i]) \in Seq(AllAddrs)
        BY <4>1 DEF AddrOf
      <4> QED
        BY <4>1, <4>2
    <3> QED
      BY <3>1, <3>2, <3>3
  <2> DEFINE ss == [i \in DOMAIN Members[g] |-> f[Members[g][i]]]
  <2>4. Members[g] \in Seq(Entries \cup Groups)
    BY ListAssumption
  <2>5. ss \in Seq(Seq(AllAddrs))
    BY <2>3, <2>4
  <2> HIDE DEF ss
  <2>6. FlattenSeq(ss) \in Seq(AllAddrs)
    BY <2>5, Flattened
  <2> QED
    BY <1>2, <2>6 DEF ss
<1> QED
  BY <1>3 DEF resolved, f

-----------------------------------------------------------------------------
(* Counting what is in a flattened sequence.                               *)

LEMMA Matching ==
  ASSUME NEW S, NEW T, NEW f \in [S -> T], IsFiniteSet(S),
         \A x, y \in S : f[x] = f[y] => x = y, \A z \in T : \E x \in S : f[x] = z
  PROVE  IsFiniteSet(T) /\ Cardinality(T) = Cardinality(S)
<1>1. f \in Bijection(S, T)
  BY DEF Bijection, Injection, Surjection, IsInjective
<1>2. ExistsBijection(S, T)
  BY <1>1 DEF ExistsBijection
<1> QED
  BY <1>2, FS_Bijection

LEMMA DomainFinite ==
  ASSUME NEW S, NEW s \in Seq(S), NEW I \in SUBSET DOMAIN s
  PROVE  IsFiniteSet(I)
<1>1. Len(s) \in Int /\ 1 \in Int /\ DOMAIN s = 1..Len(s)
  OBVIOUS
<1>2. IsFiniteSet(1..Len(s))
  BY <1>1, FS_Interval
<1> QED
  BY <1>1, <1>2, FS_Subset

\* Of some elements, the flattened sequence has as many as there are places
LEMMA FlattenedCount ==
  ASSUME NEW S, NEW ss \in Seq(Seq(S)), NEW V
  PROVE  LET s == FlattenSeq(ss)
             At == { p \in Places(ss) : ss[p[1]][p[2]] \in V }
             In == { k \in DOMAIN s : s[k] \in V }
         IN /\ IsFiniteSet(In) /\ IsFiniteSet(At) /\ Cardinality(At) = Cardinality(In)
            /\ In = {} <=> At = {}
<1> DEFINE s == FlattenSeq(ss)
           At == { p \in Places(ss) : ss[p[1]][p[2]] \in V }
           In == { k \in DOMAIN s : s[k] \in V }
<1>1. s \in Seq(S) /\ Lists(s, ss, Len(ss))
  BY Flattened
<1>2. { p \in Places(ss) : p[1] <= Len(ss) } = Places(ss)
  BY DEF Places
<1> HIDE DEF s
<1>3. PICK f \in Bijection(DOMAIN s, Places(ss)) : \A k \in DOMAIN s : s[k] = ss[f[k][1]][f[k][2]]
  BY <1>1, <1>2 DEF Lists
<1>4. /\ f \in [DOMAIN s -> Places(ss)]
      /\ \A j, k \in DOMAIN s : f[j] = f[k] => j = k
      /\ \A p \in Places(ss) : \E k \in DOMAIN s : f[k] = p
  BY <1>3 DEF Bijection, Injection, Surjection, IsInjective
<1> DEFINE g == [k \in In |-> f[k]]
<1>5. g \in [In -> At] /\ \A k \in In : g[k] = f[k]
  BY <1>3, <1>4
<1>6. \A j, k \in In : g[j] = g[k] => j = k
  BY <1>4
<1>7. \A p \in At : \E k \in In : g[k] = p
  BY <1>3, <1>4
<1>8. IsFiniteSet(In)
  BY <1>1, DomainFinite
<1> HIDE DEF g, In, At
<1>9. IsFiniteSet(At) /\ Cardinality(At) = Cardinality(In)
  BY <1>5, <1>6, <1>7, <1>8, Matching
<1>10. In = {} <=> At = {}
  BY <1>5, <1>7
<1> QED
  BY <1>8, <1>9, <1>10 DEF In, At, s

\* Each of its elements is at some place, and the other way round
LEMMA FlattenedHas ==
  ASSUME NEW S, NEW ss \in Seq(Seq(S))
  PROVE  /\ \A k \in DOMAIN FlattenSeq(ss) : \E p \in Places(ss) : FlattenSeq(ss)[k] = ss[p[1]][p[2]]
         /\ \A p \in Places(ss) : \E k \in DOMAIN FlattenSeq(ss) : FlattenSeq(ss)[k] = ss[p[1]][p[2]]
<1> DEFINE s == FlattenSeq(ss)
<1>1. s \in Seq(S) /\ Lists(s, ss, Len(ss))
  BY Flattened
<1>2. { p \in Places(ss) : p[1] <= Len(ss) } = Places(ss)
  BY DEF Places
<1> HIDE DEF s
<1>3. PICK f \in Bijection(DOMAIN s, Places(ss)) : \A k \in DOMAIN s : s[k] = ss[f[k][1]][f[k][2]]
  BY <1>1, <1>2 DEF Lists
<1>4. /\ f \in [DOMAIN s -> Places(ss)]
      /\ \A p \in Places(ss) : \E k \in DOMAIN s : f[k] = p
  BY <1>3 DEF Bijection, Injection, Surjection, IsInjective
<1> QED
  BY <1>3, <1>4 DEF s
-----------------------------------------------------------------------------
(* Some of the recipients.                                                 *)

Where(s, V) == { k \in DOMAIN s : s[k] \in V }

LEMMA KeptFacts ==
  ASSUME NEW R, NEW recps \in Seq(R), NEW I
  PROVE  /\ Kept(recps, I) \in Seq(R)
         /\ \A k \in DOMAIN Kept(recps, I) : \E i \in DOMAIN recps \cap I : Kept(recps, I)[k] = recps[i]
         /\ \A i \in DOMAIN recps \cap I : \E k \in DOMAIN Kept(recps, I) : Kept(recps, I)[k] = recps[i]
         /\ \A V : Cardinality(Where(Kept(recps, I), V)) = Cardinality(Where(recps, V) \cap I)
<1> DEFINE ss == [i \in DOMAIN recps |-> IF i \in I THEN <<recps[i]>> ELSE <<>>]
           s == Kept(recps, I)
<1>1. s = FlattenSeq(ss)
  BY DEF Kept
<1>2. ss \in Seq(Seq(R)) /\ Len(ss) = Len(recps) /\ DOMAIN recps = 1..Len(recps)
  <2>1. Len(recps) \in Nat /\ DOMAIN recps = 1..Len(recps)
    OBVIOUS
  <2>2. \A i \in DOMAIN recps : (IF i \in I THEN <<recps[i]>> ELSE <<>>) \in Seq(R)
    OBVIOUS
  <2>3. ss \in [1..Len(recps) -> Seq(R)]
    BY <2>1, <2>2
  <2> HIDE DEF ss
  <2> QED
    BY <2>1, <2>3
<1>3. \A i \in DOMAIN recps : i \in I => DOMAIN ss[i] = {1} /\ ss[i][1] = recps[i]
  OBVIOUS
<1>4. \A i \in DOMAIN recps : i \notin I => DOMAIN ss[i] = {}
  OBVIOUS
<1> HIDE DEF ss, s
<1>5. ASSUME NEW p \in Places(ss)
      PROVE  p[1] \in DOMAIN recps \cap I /\ p = <<p[1], 1>> /\ ss[p[1]][p[2]] = recps[p[1]]
  <2>1. p \in (1..Len(ss)) \X Nat /\ p[2] \in DOMAIN ss[p[1]]
    BY DEF Places
  <2>2. p[1] \in DOMAIN recps
    BY <1>2, <2>1
  <2>3. p[1] \in I
    BY <1>4, <2>1, <2>2
  <2>4. p[2] = 1
    BY <1>3, <2>1, <2>2, <2>3
  <2> QED
    BY <1>3, <2>1, <2>2, <2>3, <2>4
<1>6. ASSUME NEW i \in DOMAIN recps \cap I PROVE <<i, 1>> \in Places(ss)
  BY <1>2, <1>3 DEF Places
<1>7. s \in Seq(R)
  BY <1>1, <1>2, Flattened
<1>8. ASSUME NEW k \in DOMAIN s PROVE \E i \in DOMAIN recps \cap I : s[k] = recps[i]
  <2>1. PICK p \in Places(ss) : s[k] = ss[p[1]][p[2]]
    BY <1>1, <1>2, FlattenedHas
  <2> QED
    BY <1>5, <2>1
<1>9. ASSUME NEW i \in DOMAIN recps \cap I PROVE \E k \in DOMAIN s : s[k] = recps[i]
  <2>1. PICK p \in Places(ss) : p = <<i, 1>>
    BY <1>6
  <2>2. PICK k \in DOMAIN s : s[k] = ss[p[1]][p[2]]
    BY <1>1, <1>2, FlattenedHas
  <2>3. p[1] = i
    BY <2>1
  <2> QED
    BY <1>5, <2>2, <2>3
<1>10. ASSUME NEW V
       PROVE  Cardinality(Where(s, V)) = Cardinality(Where(recps, V) \cap I)
  <2> DEFINE In == Where(s, V)
             At == { p \in Places(ss) : ss[p[1]][p[2]] \in V }
             Of == Where(recps, V) \cap I
             g == [p \in At |-> p[1]]
  <2>1. IsFiniteSet(At) /\ Cardinality(At) = Cardinality(In)
    <3> DEFINE F == { k \in DOMAIN FlattenSeq(ss) : FlattenSeq(ss)[k] \in V }
    <3>1. IsFiniteSet(At) /\ Cardinality(At) = Cardinality(F)
      BY <1>2, FlattenedCount
    <3>2. F = In
      BY <1>1 DEF Where
    <3> QED
      BY <3>1, <3>2
  <2>2. g \in [At -> Of]
    BY <1>5 DEF Where
  <2>3. \A p, q \in At : g[p] = g[q] => p = q
    <3>1. \A p, q \in Places(ss) : p[1] = q[1] => p = q
      BY <1>5
    <3> QED
      BY <3>1
  <2>4. ASSUME NEW i \in Of PROVE \E p \in At : g[p] = i
    <3>0. i \in DOMAIN recps \cap I
      BY DEF Where
    <3>1. PICK p \in Places(ss) : p = <<i, 1>>
      BY <1>6, <3>0
    <3>2. p[1] = i
      BY <3>1
    <3>3. p \in At
      BY <1>5, <3>2 DEF Where
    <3> QED
      BY <3>2, <3>3
  <2> HIDE DEF g, At, Of, In
  <2>5. Cardinality(Of) = Cardinality(At)
    BY <2>1, <2>2, <2>3, <2>4, Matching
  <2> QED
    BY <2>1, <2>5 DEF In, Of
<1> QED
  BY <1>7, <1>8, <1>9, <1>10 DEF s

-----------------------------------------------------------------------------
(* Outlook's recipients.                                                   *)

\* The addresses of an entry, or of the members of a list
AddrsOf(e) == IF e \in Groups THEN resolved[e] ELSE <<Address[e]>>
PlacesOf(oom, a) ==
  { p \in (DOMAIN oom) \X Nat : p[2] \in DOMAIN AddrsOf(oom[p[1]].addr) /\ AddrsOf(oom[p[1]].addr)[p[2]] = a }

Found == [mbox : AllAddrs, type : Entered, keys : {{}}, index : Nat]
Expanded(oom) ==
  [i \in DOMAIN oom |->
    IF oom[i].addr \notin Groups THEN <<Recipient(Address[oom[i].addr], oom[i].type, i)>>
    ELSE [j \in DOMAIN resolved[oom[i].addr] |-> Recipient(resolved[oom[i].addr][j], oom[i].type, 0)]]

LEMMA OomType ==
  ASSUME NEW oom \in Ooms
  PROVE  /\ Len(oom) \in Nat /\ DOMAIN oom = 1..Len(oom)
         /\ \A i \in DOMAIN oom : oom[i].addr \in Entries \cup Groups /\ oom[i].type \in Entered
         /\ \A i \in DOMAIN oom : oom[i] \in [addr : Entries \cup Groups, type : Entered]
<1> DEFINE E == [addr : Entries \cup Groups, type : Entered]
<1>1. oom \in Seq(E)
  BY DEF Ooms
<1>2. \A e \in E : e.addr \in Entries \cup Groups /\ e.type \in Entered
  OBVIOUS
<1> HIDE DEF E
<1>3. \A i \in DOMAIN oom : oom[i] \in E
  BY <1>1
<1>4. Len(oom) \in Nat /\ DOMAIN oom = 1..Len(oom)
  BY <1>1
<1> QED
  BY <1>2, <1>3, <1>4 DEF E

LEMMA ExpandedType ==
  ASSUME NEW oom \in Ooms
  PROVE  /\ Expanded(oom) \in Seq(Seq(Found)) /\ Len(Expanded(oom)) = Len(oom)
         /\ GetRecipients(oom) = FlattenSeq(Expanded(oom))
         /\ \A i \in DOMAIN oom :
              /\ DOMAIN Expanded(oom)[i] = DOMAIN AddrsOf(oom[i].addr)
              /\ \A j \in DOMAIN AddrsOf(oom[i].addr) :
                   Expanded(oom)[i][j] = Recipient(AddrsOf(oom[i].addr)[j], oom[i].type,
                                                   IF oom[i].addr \in Groups THEN 0 ELSE i)
<1>1. ASSUME NEW i \in DOMAIN oom
      PROVE  /\ Expanded(oom)[i] \in Seq(Found)
             /\ DOMAIN Expanded(oom)[i] = DOMAIN AddrsOf(oom[i].addr)
             /\ \A j \in DOMAIN AddrsOf(oom[i].addr) :
                  Expanded(oom)[i][j] = Recipient(AddrsOf(oom[i].addr)[j], oom[i].type,
                                                  IF oom[i].addr \in Groups THEN 0 ELSE i)
  <2>1. oom[i].addr \in Entries \cup Groups /\ oom[i].type \in Entered /\ i \in Nat
    BY OomType
  <2>2. CASE oom[i].addr \in Groups
    <3> DEFINE as == resolved[oom[i].addr]
               t == oom[i].type
    <3>1. as \in Seq(AllAddrs) /\ as = AddrsOf(oom[i].addr)
      BY <2>2, ResolvedType DEF AddrsOf
    <3>2. Expanded(oom)[i] = [j \in DOMAIN as |-> Recipient(as[j], t, 0)]
      BY <2>2 DEF Expanded
    <3>3. \A j \in DOMAIN as : as[j] \in AllAddrs
      BY <3>1
    <3>3a. t \in Entered
      BY <2>1
    <3> HIDE DEF as, t
    <3>4. \A j \in DOMAIN as : Recipient(as[j], t, 0) \in Found
      BY <3>3, <3>3a DEF Recipient, Found
    <3>5. Expanded(oom)[i] \in Seq(Found)
      BY <3>1, <3>2, <3>4
    <3> QED
      BY <2>2, <3>1, <3>2, <3>5 DEF t
  <2>3. CASE oom[i].addr \notin Groups
    <3>0. Address[oom[i].addr] \in AllAddrs
      BY <2>1, <2>3, AddressType
    <3>1. Recipient(Address[oom[i].addr], oom[i].type, i) \in Found
      BY <2>1, <3>0 DEF Recipient, Found
    <3>2. Expanded(oom)[i] = <<Recipient(Address[oom[i].addr], oom[i].type, i)>>
      BY <2>3 DEF Expanded
    <3>3. AddrsOf(oom[i].addr) = <<Address[oom[i].addr]>>
      BY <2>3 DEF AddrsOf
    <3>4. Expanded(oom)[i] \in Seq(Found)
      BY <3>1, <3>2
    <3> QED
      BY <2>3, <3>2, <3>3, <3>4
  <2> QED
    BY <2>2, <2>3
<1>2. Expanded(oom) \in [1..Len(oom) -> Seq(Found)] /\ Len(oom) \in Nat
  <2>1. DOMAIN Expanded(oom) = DOMAIN oom
    BY DEF Expanded
  <2>2. Expanded(oom) = [i \in DOMAIN oom |-> Expanded(oom)[i]]
    BY DEF Expanded
  <2> QED
    BY <1>1, <2>1, <2>2, OomType
<1>3. GetRecipients(oom) = FlattenSeq(Expanded(oom))
  BY DEF GetRecipients, Expanded
<1>4. Expanded(oom) \in Seq(Seq(Found)) /\ Len(Expanded(oom)) = Len(oom)
  BY <1>2
<1> QED
  BY <1>1, <1>3, <1>4

LEMMA PlacesType ==
  ASSUME NEW oom \in Ooms, NEW a
  PROVE  PlacesOf(oom, a) = { p \in Places(Expanded(oom)) : Expanded(oom)[p[1]][p[2]] \in { r \in Found : r.mbox = a } }
<1>1. ASSUME NEW p \in PlacesOf(oom, a)
      PROVE  p \in Places(Expanded(oom)) /\ Expanded(oom)[p[1]][p[2]] \in { r \in Found : r.mbox = a }
  <2>1. p \in (DOMAIN oom) \X Nat /\ p[2] \in DOMAIN AddrsOf(oom[p[1]].addr) /\ AddrsOf(oom[p[1]].addr)[p[2]] = a
    BY DEF PlacesOf
  <2>0. Len(Expanded(oom)) = Len(oom) /\ DOMAIN oom = 1..Len(oom)
    BY ExpandedType, OomType
  <2>2. p[1] \in DOMAIN oom /\ p[1] \in 1..Len(Expanded(oom)) /\ p \in (1..Len(Expanded(oom))) \X Nat
    BY <2>0, <2>1
  <2>3. p[2] \in DOMAIN Expanded(oom)[p[1]]
    BY <2>1, <2>2, ExpandedType
  <2>4. Expanded(oom)[p[1]][p[2]].mbox = a
    <3>1. Expanded(oom)[p[1]][p[2]] = Recipient(AddrsOf(oom[p[1]].addr)[p[2]], oom[p[1]].type,
                                                IF oom[p[1]].addr \in Groups THEN 0 ELSE p[1])
      BY <2>1, <2>2, ExpandedType
    <3> QED
      BY <2>1, <3>1 DEF Recipient
  <2>5. Expanded(oom)[p[1]] \in Seq(Found)
    BY <2>2, ExpandedType
  <2>6. Expanded(oom)[p[1]][p[2]] \in Found
    BY <2>3, <2>5
  <2> QED
    BY <2>2, <2>3, <2>4, <2>6 DEF Places
<1>2. ASSUME NEW p \in Places(Expanded(oom)), Expanded(oom)[p[1]][p[2]].mbox = a PROVE p \in PlacesOf(oom, a)
  <2>1. p \in (DOMAIN oom) \X Nat /\ p[1] \in DOMAIN oom /\ p[2] \in DOMAIN Expanded(oom)[p[1]]
    <3>1. p \in (1..Len(Expanded(oom))) \X Nat /\ p[2] \in DOMAIN Expanded(oom)[p[1]]
      BY DEF Places
    <3>2. Len(Expanded(oom)) = Len(oom) /\ DOMAIN oom = 1..Len(oom)
      BY ExpandedType, OomType
    <3> QED
      BY <3>1, <3>2
  <2>2. p[2] \in DOMAIN AddrsOf(oom[p[1]].addr)
    BY <2>1, ExpandedType
  <2>3. AddrsOf(oom[p[1]].addr)[p[2]] = a
    <3>1. Expanded(oom)[p[1]][p[2]] = Recipient(AddrsOf(oom[p[1]].addr)[p[2]], oom[p[1]].type,
                                                IF oom[p[1]].addr \in Groups THEN 0 ELSE p[1])
      BY <2>1, <2>2, ExpandedType
    <3> QED
      BY <1>2, <3>1 DEF Recipient
  <2> QED
    BY <2>1, <2>2, <2>3 DEF PlacesOf
<1> QED
  BY <1>1, <1>2

\* The recipients are at the places of the addresses
LEMMA GetRecipientsFacts ==
  ASSUME NEW oom \in Ooms
  PROVE  /\ GetRecipients(oom) \in Seq(Found)
         /\ \A a : /\ IsFiniteSet(PlacesOf(oom, a)) /\ IsFiniteSet(Held(GetRecipients(oom), a))
                   /\ Count(GetRecipients(oom), a) = Cardinality(PlacesOf(oom, a))
                   /\ a \in Addresses(oom) <=> PlacesOf(oom, a) # {}
<1> DEFINE ss == Expanded(oom)
           s == GetRecipients(oom)
<1>1. s = FlattenSeq(ss) /\ ss \in Seq(Seq(Found))
  BY ExpandedType
<1>2. s \in Seq(Found)
  BY <1>1, Flattened
<1> HIDE DEF s, ss
<1>3. ASSUME NEW a
      PROVE  /\ IsFiniteSet(PlacesOf(oom, a)) /\ IsFiniteSet(Held(s, a))
             /\ Count(s, a) = Cardinality(PlacesOf(oom, a))
             /\ a \in Addresses(oom) <=> PlacesOf(oom, a) # {}
  <2> DEFINE V == { r \in Found : r.mbox = a }
             F == { k \in DOMAIN FlattenSeq(ss) : FlattenSeq(ss)[k] \in V }
             At == { p \in Places(ss) : ss[p[1]][p[2]] \in V }
  <2>1. At = PlacesOf(oom, a)
    BY PlacesType DEF ss
  <2>2. F = Held(s, a)
    <3>1. \A k \in DOMAIN s : s[k] \in Found /\ s[k].type \in Entered
      <4>1. \A r \in Found : r.type \in Entered
        BY DEF Found
      <4>2. \A k \in DOMAIN s : s[k] \in Found
        BY <1>2
      <4> QED
        BY <4>1, <4>2
    <3> QED
      BY <1>1, <3>1 DEF Held
  <2>3. IsFiniteSet(F) /\ IsFiniteSet(At) /\ Cardinality(At) = Cardinality(F) /\ (F = {} <=> At = {})
    <3> HIDE DEF V
    <3>1. IsFiniteSet(F)
      BY <1>1, FlattenedCount
    <3>2. IsFiniteSet(At)
      BY <1>1, FlattenedCount
    <3>3. Cardinality(At) = Cardinality(F)
      BY <1>1, FlattenedCount
    <3>4. F = {} <=> At = {}
      BY <1>1, FlattenedCount
    <3> QED
      BY <3>1, <3>2, <3>3, <3>4
  <2>4. a \in Addresses(oom) <=> Held(s, a) # {}
    <3>1. \A k \in DOMAIN s : s[k].type \in Entered
      <4>1. \A r \in Found : r.type \in Entered
        BY DEF Found
      <4>2. \A k \in DOMAIN s : s[k] \in Found
        BY <1>2
      <4> QED
        BY <4>1, <4>2
    <3>2. Addresses(oom) = { s[k].mbox : k \in DOMAIN s }
      BY DEF Addresses, ToSet, s
    <3> QED
      BY <3>1, <3>2 DEF Held
  <2> HIDE DEF F, At
  <2> QED
    BY <2>1, <2>2, <2>3, <2>4 DEF Count
<1> QED
  BY <1>2, <1>3 DEF s

LEMMA CountType ==
  ASSUME NEW R, NEW recps \in Seq(R), NEW a
  PROVE  /\ IsFiniteSet(Held(recps, a)) /\ Count(recps, a) \in Nat
         /\ Count(recps, a) = 0 <=> Held(recps, a) = {}
<1>1. IsFiniteSet(Held(recps, a))
  BY DomainFinite DEF Held
<1> QED
  BY <1>1, FS_CardinalityType, FS_EmptySet DEF Count

\* The addresses are those of some recipient
LEMMA AddressesCount ==
  ASSUME NEW oom \in Ooms, NEW a
  PROVE  /\ Count(GetRecipients(oom), a) \in Nat
         /\ a \in Addresses(oom) <=> Count(GetRecipients(oom), a) # 0
<1>1. /\ IsFiniteSet(PlacesOf(oom, a))
      /\ Count(GetRecipients(oom), a) = Cardinality(PlacesOf(oom, a))
      /\ a \in Addresses(oom) <=> PlacesOf(oom, a) # {}
  BY GetRecipientsFacts
<1> QED
  BY <1>1, FS_CardinalityType, FS_EmptySet

\* What is removed is an entry with the address
LEMMA RemovableFacts ==
  ASSUME NEW oom \in Ooms, NEW a
  PROVE  /\ Removable(oom, a) \subseteq { i \in DOMAIN oom : oom[i].addr \notin Groups /\ Address[oom[i].addr] = a }
         /\ Removable(oom, a) # {} => FirstOf(Removable(oom, a)) \in Removable(oom, a)
<1> DEFINE ss == Expanded(oom)
           s == GetRecipients(oom)
<1>1. s = FlattenSeq(ss) /\ ss \in Seq(Seq(Found))
  BY ExpandedType
<1>2. ASSUME NEW i \in Removable(oom, a)
      PROVE  i \in DOMAIN oom /\ oom[i].addr \notin Groups /\ Address[oom[i].addr] = a
  <2>1. PICK k \in DOMAIN s : i = s[k].index /\ s[k].mbox = a /\ s[k].index # 0
    BY DEF Removable, ToSet
  <2> HIDE DEF s, ss
  <2>2. PICK p \in Places(ss) : s[k] = ss[p[1]][p[2]]
    BY <1>1, FlattenedHas
  <2>3. p \in (1..Len(ss)) \X Nat /\ p[2] \in DOMAIN ss[p[1]]
    BY DEF Places
  <2>4. p[1] \in DOMAIN oom
    BY <2>3, ExpandedType, OomType DEF ss
  <2>5. p[2] \in DOMAIN AddrsOf(oom[p[1]].addr)
    BY <2>3, <2>4, ExpandedType DEF ss
  <2>6. ss[p[1]][p[2]] = Recipient(AddrsOf(oom[p[1]].addr)[p[2]], oom[p[1]].type,
                                   IF oom[p[1]].addr \in Groups THEN 0 ELSE p[1])
    BY <2>4, <2>5, ExpandedType DEF ss
  <2>7. oom[p[1]].addr \notin Groups /\ i = p[1] /\ AddrsOf(oom[p[1]].addr)[p[2]] = a
    BY <2>1, <2>2, <2>6 DEF Recipient
  <2>8. AddrsOf(oom[p[1]].addr) = <<Address[oom[p[1]].addr]>>
    BY <2>7 DEF AddrsOf
  <2>9. p[2] = 1
    BY <2>5, <2>8
  <2> QED
    BY <2>4, <2>7, <2>8, <2>9
<1>3. Removable(oom, a) \subseteq Nat
  <2>1. DOMAIN oom \subseteq Nat
    BY OomType
  <2> QED
    BY <1>2, <2>1
<1>4. ASSUME Removable(oom, a) # {} PROVE FirstOf(Removable(oom, a)) \in Removable(oom, a)
  BY <1>3, <1>4, NatMin DEF FirstOf
<1> QED
  BY <1>2, <1>4

LEMMA RemovedAt ==
  ASSUME NEW S, NEW s \in Seq(S), NEW n \in DOMAIN s
  PROVE  /\ RemoveAt(s, n) \in Seq(S) /\ Len(RemoveAt(s, n)) = Len(s) - 1
         /\ \A i \in 1..(Len(s) - 1) : RemoveAt(s, n)[i] = IF i < n THEN s[i] ELSE s[i + 1]
<1>0. Len(s) \in Nat /\ n \in 1..Len(s) /\ DOMAIN s = 1..Len(s)
  OBVIOUS
<1> DEFINE u == SubSeq(s, 1, n - 1)
           v == SubSeq(s, n + 1, Len(s))
<1>1. u \in Seq(S) /\ Len(u) = n - 1 /\ \A i \in 1..(n - 1) : u[i] = s[i]
  <2>1. \A i \in 1..(n - 1) : i \in DOMAIN s
    BY <1>0
  <2>2. 1 \in Int /\ n - 1 \in Int
    BY <1>0
  <2> QED
    BY <1>0, <2>1, <2>2
<1>2. v \in Seq(S) /\ Len(v) = Len(s) - n /\ \A i \in 1..(Len(s) - n) : v[i] = s[i + n]
  <2>1. \A i \in (n + 1)..Len(s) : i \in DOMAIN s
    BY <1>0
  <2>2. n + 1 \in Int /\ Len(s) \in Int
    BY <1>0
  <2> QED
    BY <1>0, <2>1, <2>2
<1>3. RemoveAt(s, n) = u \o v
  BY DEF RemoveAt
<1> HIDE DEF u, v
<1>4. u \o v \in Seq(S) /\ Len(u \o v) = Len(s) - 1
  <2>1. u \o v \in Seq(S)
    BY <1>1, <1>2
  <2>2. Len(u \o v) = Len(u) + Len(v)
    <3>1. u \in Seq(S) /\ v \in Seq(S)
      BY <1>1, <1>2
    <3> QED
      BY <3>1
  <2>3. (n - 1) + (Len(s) - n) = Len(s) - 1
    BY <1>0
  <2> QED
    BY <1>1, <1>2, <2>1, <2>2, <2>3
<1>5. ASSUME NEW i \in 1..(Len(s) - 1) PROVE (u \o v)[i] = IF i < n THEN s[i] ELSE s[i + 1]
  <2>1. CASE i < n
    BY <1>0, <1>1, <1>2, <2>1
  <2>2. CASE ~(i < n)
    <3>1. PICK j \in 1..(Len(s) - n) : j = i - (n - 1)
      BY <1>0, <2>2
    <3>2. (u \o v)[i] = v[j]
      BY <1>0, <1>1, <1>2, <2>2, <3>1
    <3>3. v[j] = s[j + n]
      BY <1>2
    <3>4. j + n = i + 1
      BY <1>0, <3>1
    <3> QED
      BY <2>2, <3>2, <3>3, <3>4
  <2> QED
    BY <2>1, <2>2
<1> QED
  BY <1>3, <1>4, <1>5

LEMMA RemovePlaces ==
  ASSUME NEW oom \in Ooms, NEW n \in DOMAIN oom, oom[n].addr \notin Groups, NEW a
  PROVE  /\ RemoveAt(oom, n) \in Ooms
         /\ Count(GetRecipients(RemoveAt(oom, n)), a) = Cardinality(PlacesOf(oom, a) \ {<<n, 1>>})
<1> DEFINE r == RemoveAt(oom, n)
           At == PlacesOf(r, a)
           Of == PlacesOf(oom, a) \ {<<n, 1>>}
           up(i) == IF i < n THEN i ELSE i + 1
           down(i) == IF i < n THEN i ELSE i - 1
           g == [p \in At |-> <<up(p[1]), p[2]>>]
<1>1. /\ r \in Ooms /\ Len(oom) \in Nat /\ DOMAIN oom = 1..Len(oom)
      /\ DOMAIN r = 1..(Len(oom) - 1) /\ \A i \in DOMAIN r : r[i] = oom[up(i)]
  <2>1. /\ r \in Ooms /\ Len(r) = Len(oom) - 1
        /\ \A i \in 1..(Len(oom) - 1) : r[i] = IF i < n THEN oom[i] ELSE oom[i + 1]
    BY RemovedAt DEF Ooms
  <2>2. Len(oom) \in Nat /\ DOMAIN oom = 1..Len(oom)
    BY OomType
  <2> HIDE DEF r
  <2>3. DOMAIN r = 1..(Len(oom) - 1)
    BY <2>1, OomType
  <2> QED
    BY <2>1, <2>2, <2>3
<1>2. n \in Nat /\ n \in 1..Len(oom) /\ DOMAIN AddrsOf(oom[n].addr) = {1}
  BY <1>1 DEF AddrsOf
<1> HIDE DEF r
<1>3. ASSUME NEW p \in At
      PROVE  /\ p[1] \in 1..(Len(oom) - 1) /\ p[2] \in Nat /\ p = <<p[1], p[2]>>
             /\ <<up(p[1]), p[2]>> \in Of
  <2>1. p \in (DOMAIN r) \X Nat /\ p[2] \in DOMAIN AddrsOf(r[p[1]].addr) /\ AddrsOf(r[p[1]].addr)[p[2]] = a
    BY DEF PlacesOf
  <2>2. p[1] \in 1..(Len(oom) - 1) /\ p[2] \in Nat /\ p = <<p[1], p[2]>> /\ r[p[1]] = oom[up(p[1])]
    BY <1>1, <2>1
  <2>3. up(p[1]) \in DOMAIN oom /\ up(p[1]) # n
    BY <1>1, <1>2, <2>2
  <2> HIDE DEF up
  <2>4. <<up(p[1]), p[2]>> \in PlacesOf(oom, a)
    BY <2>1, <2>2, <2>3 DEF PlacesOf
  <2> QED
    BY <2>2, <2>3, <2>4
<1>4. ASSUME NEW q \in Of
      PROVE  /\ q = <<q[1], q[2]>> /\ <<down(q[1]), q[2]>> \in At /\ up(down(q[1])) = q[1]
  <2>1. q \in (DOMAIN oom) \X Nat /\ q[2] \in DOMAIN AddrsOf(oom[q[1]].addr) /\ AddrsOf(oom[q[1]].addr)[q[2]] = a
    BY DEF PlacesOf
  <2>2. q[1] # n
    <3>1. ASSUME q[1] = n PROVE q = <<n, 1>>
      BY <1>2, <2>1, <3>1
    <3> QED
      BY <3>1
  <2>3. down(q[1]) \in 1..(Len(oom) - 1) /\ up(down(q[1])) = q[1] /\ q = <<q[1], q[2]>> /\ q[2] \in Nat
    BY <1>1, <1>2, <2>1, <2>2
  <2> HIDE DEF down, up
  <2>4. down(q[1]) \in DOMAIN r /\ r[down(q[1])] = oom[q[1]]
    BY <1>1, <2>3
  <2>5. <<down(q[1]), q[2]>> \in At
    BY <2>1, <2>3, <2>4 DEF PlacesOf
  <2> QED
    BY <2>3, <2>5
<1>5. g \in [At -> Of]
  BY <1>3
<1>6. ASSUME NEW p \in At, NEW q \in At, g[p] = g[q] PROVE p = q
  <2>1. up(p[1]) = up(q[1]) /\ p[2] = q[2]
    BY <1>6
  <2>2. p[1] = q[1]
    <3>1. p[1] \in Int /\ q[1] \in Int /\ n \in Int
      <4>1. p[1] \in 1..(Len(oom) - 1) /\ q[1] \in 1..(Len(oom) - 1)
        BY <1>3
      <4>2. n \in Int
        BY <1>2
      <4> HIDE DEF At
      <4> QED
        BY <4>1, <4>2
    <3>2. \A i, j \in Int : up(i) = up(j) => i = j
      BY <1>2
    <3> HIDE DEF up
    <3> QED
      BY <2>1, <3>1, <3>2
  <2> QED
    BY <1>3, <2>1, <2>2
<1>7. ASSUME NEW q \in Of PROVE \E p \in At : g[p] = q
  <2>1. PICK p \in At : p = <<down(q[1]), q[2]>>
    BY <1>4
  <2>2. p[1] = down(q[1]) /\ p[2] = q[2]
    BY <2>1
  <2> HIDE DEF up, down
  <2>3. g[p] = <<up(down(q[1])), q[2]>>
    BY <2>1, <2>2
  <2> QED
    BY <1>4, <2>3
<1>8. IsFiniteSet(At) /\ Count(GetRecipients(r), a) = Cardinality(At)
  BY <1>1, GetRecipientsFacts
<1> HIDE DEF g, At, Of
<1>9. Cardinality(Of) = Cardinality(At)
  BY <1>5, <1>6, <1>7, <1>8, Matching
<1> QED
  BY <1>1, <1>8, <1>9 DEF r, Of

\* One recipient with the address less
LEMMA RemoveCount ==
  ASSUME NEW oom \in Ooms, NEW b, Removable(oom, b) # {}, NEW a
  PROVE  /\ RemoveRecipient(oom, b) \in Ooms
         /\ Count(GetRecipients(RemoveRecipient(oom, b)), a)
            = IF a = b THEN Count(GetRecipients(oom), a) - 1 ELSE Count(GetRecipients(oom), a)
<1>1. PICK n \in DOMAIN oom : n = FirstOf(Removable(oom, b)) /\ oom[n].addr \notin Groups /\ Address[oom[n].addr] = b
  BY RemovableFacts
<1>2. /\ RemoveRecipient(oom, b) \in Ooms
      /\ Count(GetRecipients(RemoveRecipient(oom, b)), a) = Cardinality(PlacesOf(oom, a) \ {<<n, 1>>})
  BY <1>1, RemovePlaces DEF RemoveRecipient
<1>3. AddrsOf(oom[n].addr) = <<b>>
  BY <1>1 DEF AddrsOf
<1>4. <<n, 1>> \in PlacesOf(oom, a) <=> a = b
  <2>1. <<n, 1>> \in (DOMAIN oom) \X Nat /\ <<n, 1>>[1] = n /\ <<n, 1>>[2] = 1
    OBVIOUS
  <2>2. 1 \in DOMAIN AddrsOf(oom[n].addr) /\ AddrsOf(oom[n].addr)[1] = b
    BY <1>3
  <2> QED
    BY <2>1, <2>2 DEF PlacesOf
<1>5. IsFiniteSet(PlacesOf(oom, a)) /\ Count(GetRecipients(oom), a) = Cardinality(PlacesOf(oom, a))
  BY GetRecipientsFacts
<1> QED
  BY <1>2, <1>4, <1>5, FS_RemoveElement

-----------------------------------------------------------------------------
(* Recipients that are set.                                                *)

LEMMA EntryType == \A a \in AllAddrs : Entry[a] \in Entries /\ Address[Entry[a]] = a /\ Entry[a] \notin Groups
<1>1. ASSUME NEW a \in AllAddrs PROVE Entry[a] \in Entries /\ Address[Entry[a]] = a
  <2>1. \E e \in Entries : Address[e] = a
    BY DEF AllAddrs
  <2>2. Entry[a] = CHOOSE e \in Entries : Address[e] = a
    BY DEF Entry, AllAddrs
  <2> QED
    BY <2>1, <2>2
<1> QED
  BY <1>1, ListAssumption

AllKnown(recps) == \A i \in DOMAIN recps : recps[i].type \in Entered => recps[i].mbox \in AllAddrs

LEMMA SetRecipientsCount ==
  ASSUME NEW recps \in Seq(Recps), AllKnown(recps)
  PROVE  /\ SetRecipients(recps) \in Ooms
         /\ \A a : Count(GetRecipients(SetRecipients(recps)), a) = Count(recps, a)
<1> DEFINE I == OfTypes(recps, Entered)
           them == Kept(recps, I)
           oom == SetRecipients(recps)
<1>1. /\ them \in Seq(Recps)
      /\ \A k \in DOMAIN them : \E i \in DOMAIN recps \cap I : them[k] = recps[i]
      /\ \A V : Cardinality(Where(them, V)) = Cardinality(Where(recps, V) \cap I)
  <2> HIDE DEF I
  <2>1. them \in Seq(Recps)
    BY KeptFacts
  <2>2. \A k \in DOMAIN them : \E i \in DOMAIN recps \cap I : them[k] = recps[i]
    BY KeptFacts
  <2>3. \A V : Cardinality(Where(them, V)) = Cardinality(Where(recps, V) \cap I)
    BY KeptFacts
  <2> QED
    BY <2>1, <2>2, <2>3
<1>2. oom = [k \in DOMAIN them |-> [addr |-> Entry[them[k].mbox], type |-> them[k].type]]
  BY DEF SetRecipients
<1> HIDE DEF them, oom
<1>3. \A k \in DOMAIN them : them[k].type \in Entered /\ them[k].mbox \in AllAddrs
  BY <1>1 DEF OfTypes, AllKnown
<1>4. DOMAIN oom = DOMAIN them /\ \A k \in DOMAIN oom : AddrsOf(oom[k].addr) = <<them[k].mbox>>
  BY <1>2, <1>3, EntryType DEF AddrsOf
<1>5. oom \in Ooms
  <2>1. \A k \in DOMAIN them : [addr |-> Entry[them[k].mbox], type |-> them[k].type] \in [addr : Entries \cup Groups, type : Entered]
    BY <1>3, EntryType
  <2>2. DOMAIN them = 1..Len(them) /\ Len(them) \in Nat
    BY <1>1
  <2> QED
    BY <1>2, <2>1, <2>2 DEF Ooms
<1>6. ASSUME NEW a PROVE Count(GetRecipients(oom), a) = Count(recps, a)
  <2> DEFINE V == { r \in Recps : r.mbox = a }
             In == Where(them, V)
             Of == Where(recps, V) \cap I
             At == PlacesOf(oom, a)
             g == [k \in In |-> <<k, 1>>]
  <2>1. Of = Held(recps, a)
    <3>1. \A i \in DOMAIN recps : recps[i] \in Recps
      OBVIOUS
    <3> QED
      BY <3>1 DEF Held, OfTypes, Where
  <2>2. Cardinality(In) = Cardinality(Of) /\ IsFiniteSet(In)
    BY <1>1, DomainFinite DEF Where
  <2>3. \A k \in DOMAIN them : k \in In <=> them[k].mbox = a
    BY <1>1 DEF Where
  <2>4. \A k \in DOMAIN them : k \in Nat
    BY <1>1
  <2> HIDE DEF In, Of, V
  <2>5. ASSUME NEW k \in In PROVE <<k, 1>> \in At
    <3>1. k \in DOMAIN oom /\ AddrsOf(oom[k].addr) = <<a>>
      BY <1>4, <2>3 DEF In, Where
    <3>2. <<k, 1>> \in (DOMAIN oom) \X Nat /\ <<k, 1>>[1] = k /\ <<k, 1>>[2] = 1
      BY <3>1
    <3>3. 1 \in DOMAIN AddrsOf(oom[k].addr) /\ AddrsOf(oom[k].addr)[1] = a
      BY <3>1
    <3> QED
      BY <3>2, <3>3 DEF PlacesOf
  <2>6. ASSUME NEW p \in At PROVE p = <<p[1], 1>> /\ p[1] \in In
    <3>1. p \in (DOMAIN oom) \X Nat /\ p[2] \in DOMAIN AddrsOf(oom[p[1]].addr) /\ AddrsOf(oom[p[1]].addr)[p[2]] = a
      BY DEF PlacesOf
    <3>2. p[1] \in DOMAIN them /\ AddrsOf(oom[p[1]].addr) = <<them[p[1]].mbox>>
      BY <1>4, <3>1
    <3>3. p[2] = 1 /\ them[p[1]].mbox = a
      BY <3>1, <3>2
    <3> QED
      BY <2>3, <3>1, <3>2, <3>3
  <2>7. g \in [In -> At]
    BY <2>5
  <2>8. \A j, k \in In : g[j] = g[k] => j = k
    OBVIOUS
  <2>9. \A p \in At : \E k \in In : g[k] = p
    BY <2>6
  <2> HIDE DEF g, At
  <2>10. Cardinality(At) = Cardinality(In)
    BY <2>2, <2>7, <2>8, <2>9, Matching
  <2>11. Count(GetRecipients(oom), a) = Cardinality(At)
    BY <1>5, GetRecipientsFacts DEF At
  <2> QED
    BY <2>1, <2>2, <2>10, <2>11 DEF Count
<1> QED
  BY <1>5, <1>6 DEF oom

LEMMA KeptCount ==
  ASSUME NEW recps \in Seq(Recps), NEW I, NEW a
  PROVE  Count(Kept(recps, I), a) = Cardinality(Held(recps, a) \cap I)
<1> DEFINE V == { r \in Recps : r.type \in Entered /\ r.mbox = a }
           s == Kept(recps, I)
<1>1. s \in Seq(Recps)
  BY KeptFacts
<1>2. Cardinality(Where(s, V)) = Cardinality(Where(recps, V) \cap I)
  <2> HIDE DEF V
  <2> QED
    BY KeptFacts
<1> HIDE DEF s
<1>3. Where(s, V) = Held(s, a)
  <2>1. \A k \in DOMAIN s : s[k] \in Recps
    BY <1>1
  <2> QED
    BY <2>1 DEF Held, Where
<1>4. Where(recps, V) = Held(recps, a)
  <2>1. \A k \in DOMAIN recps : recps[k] \in Recps
    OBVIOUS
  <2> QED
    BY <2>1 DEF Held, Where
<1> HIDE DEF V
<1> QED
  BY <1>2, <1>3, <1>4 DEF Count, s

\* What is kept is as it was
LEMMA KeptProper ==
  ASSUME NEW recps \in Seq(Recps), NEW encrypt, NEW sender, Proper(recps, encrypt, sender), NEW I
  PROVE  /\ Kept(recps, I) \in Seq(Recps)
         /\ Proper(Kept(recps, I), encrypt, sender) /\ AllKnown(Kept(recps, I))
<1>1. Kept(recps, I) \in Seq(Recps)
  BY KeptFacts
<1>2. \A k \in DOMAIN Kept(recps, I) : \E i \in DOMAIN recps \cap I : Kept(recps, I)[k] = recps[i]
  BY KeptFacts
<1> QED
  BY <1>1, <1>2 DEF Proper, AllKnown

LEMMA FirstBccFacts ==
  ASSUME NEW recps \in Seq(Recps)
  PROVE  LET n == FirstBcc(recps)
             hidden(i) == recps[i].type = "bcc" /\ recps[i].keys # {}
         IN \/ n = 0 /\ \A i \in DOMAIN recps : ~hidden(i)
            \/ n \in DOMAIN recps /\ hidden(n) /\ \A i \in DOMAIN recps : i < n => ~hidden(i)
<1> DEFINE I == { i \in 1..Len(recps) : recps[i].type = "bcc" /\ recps[i].keys # {} }
<1>0. DOMAIN recps = 1..Len(recps) /\ Len(recps) \in Nat
  OBVIOUS
<1>1. FirstBcc(recps) = IF I # {} THEN Min(I) ELSE 0
  BY DEF FirstBcc, SelectInSeq
<1>2. ASSUME I # {} PROVE Min(I) \in I /\ \A y \in I : Min(I) <= y
  <2>1. I \subseteq Nat
    OBVIOUS
  <2> QED
    BY <1>2, <2>1, NatMin DEF Min
<1>3. CASE I = {}
  BY <1>0, <1>1, <1>3
<1>4. CASE I # {}
  <2>1. FirstBcc(recps) \in I /\ \A y \in I : FirstBcc(recps) <= y
    BY <1>1, <1>2, <1>4
  <2>2. \A i \in DOMAIN recps : i < FirstBcc(recps) => i \notin I
    BY <1>0, <2>1
  <2> QED
    BY <1>0, <2>1, <2>2
<1> QED
  BY <1>3, <1>4

\* A hidden recipient goes to the copy, and is no longer one of the mail
LEMMA SplitCount ==
  ASSUME NEW m, m.cached \in Seq(Recps), NEW a, Splittable(m.cached)
  PROVE  LET n == FirstBcc(m.cached)
         IN /\ n \in DOMAIN m.cached /\ m.cached[n].type = "bcc"
            /\ Count(ForUs(m), a) = IF a = m.cached[n].mbox THEN Count(m.cached, a) - 1 ELSE Count(m.cached, a)
            /\ Count(ForCopy(m), a) = IF a = m.cached[n].mbox THEN 1 ELSE 0
            /\ Count(m.cached, m.cached[n].mbox) \in Nat \ {0}
<1> DEFINE recps == m.cached
           n == FirstBcc(recps)
           I == OfTypes(recps, Types \ {"bcc"}) \cup { i \in DOMAIN recps : n # 0 /\ i > n }
           J == OfTypes(recps, {"orig"}) \cup {n}
<1>0. recps \in Seq(Recps) /\ Len(recps) \in Nat /\ DOMAIN recps = 1..Len(recps)
  OBVIOUS
<1>1. /\ n \in DOMAIN recps /\ recps[n].type = "bcc"
      /\ \A i \in DOMAIN recps : i < n => recps[i].type # "bcc"
  BY <1>0, FirstBccFacts DEF Splittable
<1>2. ForUs(m) = Kept(recps, I) /\ ForCopy(m) = Kept(recps, J)
  BY DEF ForUs, ForCopy
<1> HIDE DEF n, recps
<1>3. Held(recps, a) \cap I = Held(recps, a) \ {n}
  <2>1. \A i \in Held(recps, a) : i \in DOMAIN recps /\ recps[i].type \in Entered
    BY DEF Held
  <2>2. ASSUME NEW i \in Held(recps, a), i # n PROVE i \in I
    <3>1. i \in Nat /\ n \in Nat
      BY <1>0, <1>1, <2>1
    <3>2. i < n \/ i > n
      BY <2>2, <3>1
    <3>3. recps[i].type # "bcc" => i \in OfTypes(recps, Types \ {"bcc"})
      BY <2>1 DEF OfTypes, Types
    <3>4. n # 0
      BY <1>0, <1>1
    <3> QED
      BY <1>1, <2>1, <3>2, <3>3, <3>4
  <2>3. n \notin I
    BY <1>0, <1>1 DEF OfTypes
  <2> HIDE DEF I
  <2> QED
    BY <2>2, <2>3
<1>4. n \in Held(recps, a) <=> a = recps[n].mbox
  BY <1>1 DEF Held, Entered
<1>5. Held(recps, a) \cap J = IF a = recps[n].mbox THEN {n} ELSE {}
  <2>1. \A i \in Held(recps, a) : i \notin OfTypes(recps, {"orig"})
    BY DEF Held, OfTypes, Entered
  <2> QED
    BY <1>4, <2>1
<1>6. IsFiniteSet(Held(recps, a))
  BY <1>0, CountType
<1> HIDE DEF I, J
<1>7. Count(ForUs(m), a) = Cardinality(Held(recps, a) \ {n})
  BY <1>0, <1>2, <1>3, KeptCount
<1>8. Count(ForCopy(m), a) = Cardinality(IF a = recps[n].mbox THEN {n} ELSE {})
  BY <1>0, <1>2, <1>5, KeptCount
<1>9. Count(ForUs(m), a) = IF a = recps[n].mbox THEN Count(recps, a) - 1 ELSE Count(recps, a)
  BY <1>4, <1>6, <1>7, FS_RemoveElement DEF Count
<1>10. Count(ForCopy(m), a) = IF a = recps[n].mbox THEN 1 ELSE 0
  BY <1>8, FS_Singleton, FS_EmptySet
<1>11. Count(recps, recps[n].mbox) \in Nat \ {0}
  <2>1. n \in Held(recps, recps[n].mbox)
    BY <1>1 DEF Held, Entered
  <2> QED
    BY <1>0, <2>1, CountType
<1> QED
  BY <1>1, <1>9, <1>10, <1>11 DEF n, recps

-----------------------------------------------------------------------------
(* The keys.                                                               *)

\* o has the recipients of the mail, with keys that are their own
Similar(m, o) ==
  /\ o.recps \in Seq(Recps) /\ Len(o.recps) = Len(m.cached)
  /\ \A i \in DOMAIN m.cached : o.recps[i].mbox = m.cached[i].mbox /\ o.recps[i].type = m.cached[i].type
  /\ Proper(o.recps, m.encrypt, m.sender)
  /\ o.signers \subseteq OwnKeys(m.sender)

\* ... of one protocol
OneKind(m, o) ==
  m.encrypt => \A i \in DOMAIN o.recps : \A k \in o.recps[i].keys : Proto(k) = o.proto

Resolved(m, o) ==
  /\ Similar(m, o) /\ OneKind(m, o) /\ o.proto \in Protos /\ o.asked \in BOOLEAN
  /\ m.encrypt => \A i \in DOMAIN o.recps : o.recps[i].keys # {}
  /\ m.encrypt /\ m.sign /\ ~o.asked => <<m.sender, o.proto>> \in o.signers

LEMMA RecpsType ==
  ASSUME NEW recps \in Seq(Recps)
  PROVE  /\ Len(recps) \in Nat /\ DOMAIN recps = 1..Len(recps)
         /\ \A i \in DOMAIN recps :
              /\ recps[i] \in Recps /\ recps[i].mbox \in Mboxes /\ recps[i].type \in Types
              /\ recps[i].keys \subseteq Keys /\ recps[i].index \in Nat
<1>1. \A r \in Recps : r.mbox \in Mboxes /\ r.type \in Types /\ r.keys \subseteq Keys /\ r.index \in Nat
  BY DEF Recps
<1>2. \A i \in DOMAIN recps : recps[i] \in Recps
  OBVIOUS
<1> QED
  BY <1>1, <1>2

LEMMA MailType ==
  ASSUME NEW m \in MailRecs
  PROVE  /\ m.oom \in Ooms /\ m.encrypt \in BOOLEAN /\ m.sign \in BOOLEAN /\ m.sender \in Senders
         /\ m.cached \in Seq(Recps) /\ m.set \in BOOLEAN /\ m.signers \subseteq Keys \cup {NoKey}
         /\ m.state \in States
         /\ m # NoMail /\ OwnKeys(m.sender) \subseteq Keys \cup {NoKey}
<1>1. m.state \in States /\ m.sender \in Senders
  BY DEF MailRecs
<1>2. m # NoMail
  <2>1. NoMail.state = "absent"
    BY DEF NoMail
  <2>2. m.state # "absent"
    BY <1>1 DEF States
  <2> QED
    BY <2>1, <2>2
<1>3. OwnKeys(m.sender) \subseteq Keys \cup {NoKey}
  BY <1>1 DEF OwnKeys, Keys, Mboxes
<1> QED
  BY <1>1, <1>2, <1>3 DEF MailRecs

LEMMA OwnSigner ==
  ASSUME NEW sender, NEW k \in OwnKeys(sender), Proto(k) \in Protos
  PROVE  k = <<sender, Proto(k)>>
  BY DEF OwnKeys, Proto, Protos, NoKey

LEMMA OpSimilar ==
  ASSUME NEW m \in MailRecs, UnderWay(m)
  PROVE  Similar(m, Op(m)) /\ Op(m).asked = FALSE
  BY MailType DEF UnderWay, Similar, Op

LEMMA Through ==
  ASSUME NEW m \in MailRecs, UnderWay(m), NEW o, Similar(m, o), NEW p \in Protos
  PROVE  LET t == ThroughProtocol(m, o, p)
         IN Similar(m, t) /\ OneKind(m, t) /\ t.proto = p /\ t.asked = o.asked
<1> DEFINE t == ThroughProtocol(m, o, p)
           filled(i) == IF m.encrypt THEN [o.recps[i] EXCEPT !.keys = EncryptionKeys(o.recps[i].mbox, p)]
                        ELSE o.recps[i]
<1>1. /\ t.recps = [i \in DOMAIN o.recps |-> filled(i)] /\ t.proto = p /\ t.asked = o.asked
      /\ t.signers = IF m.sign /\ (o.signers = {} \/ \E k \in o.signers : Proto(k) # p)
                     THEN o.signers \cup {SigningKey(m.sender, p)} ELSE o.signers
  BY DEF ThroughProtocol
<1>2. o.recps \in Seq(Recps) /\ Len(o.recps) = Len(m.cached) /\ DOMAIN o.recps = 1..Len(o.recps)
  BY RecpsType DEF Similar
<1>3. DOMAIN o.recps = DOMAIN m.cached /\ m.encrypt \in BOOLEAN
  BY <1>2, MailType, RecpsType
<1>4. ASSUME NEW i \in DOMAIN o.recps
      PROVE  /\ filled(i) \in Recps /\ filled(i).mbox = o.recps[i].mbox /\ filled(i).type = o.recps[i].type
             /\ filled(i).keys = IF m.encrypt THEN EncryptionKeys(o.recps[i].mbox, p) ELSE o.recps[i].keys
  <2>1. o.recps[i] \in Recps /\ o.recps[i].mbox \in Mboxes
    BY <1>2, RecpsType
  <2>2. EncryptionKeys(o.recps[i].mbox, p) \subseteq Keys
    BY <2>1 DEF EncryptionKeys, Keys
  <2> QED
    BY <2>1, <2>2 DEF Recps
<1> HIDE DEF filled, t
<1>5. t.recps \in Seq(Recps) /\ Len(t.recps) = Len(o.recps) /\ DOMAIN t.recps = DOMAIN o.recps
  BY <1>1, <1>2, <1>4
<1>6. \A i \in DOMAIN o.recps : t.recps[i] = filled(i)
  BY <1>1
<1>7. SigningKey(m.sender, p) \in OwnKeys(m.sender)
  BY DEF SigningKey, OwnKeys
<1>8. t.signers \subseteq OwnKeys(m.sender)
  BY <1>1, <1>7 DEF Similar
<1>9. \A a : EncryptionKeys(a, p) \subseteq {a} \X Protos /\ \A k \in EncryptionKeys(a, p) : Proto(k) = p
  BY DEF EncryptionKeys, Proto
<1>10. Proper(t.recps, m.encrypt, m.sender)
  <2>1. Proper(o.recps, m.encrypt, m.sender)
    BY DEF Similar
  <2>2. SUFFICES ASSUME NEW i \in DOMAIN t.recps
                 PROVE  /\ t.recps[i].keys \subseteq {t.recps[i].mbox} \X Protos
                        /\ ~m.encrypt => t.recps[i].keys = {}
                        /\ t.recps[i].type = "orig" => t.recps[i].mbox = m.sender
                        /\ t.recps[i].type \in Entered => t.recps[i].mbox \in AllAddrs
    BY DEF Proper
  <2>3. i \in DOMAIN o.recps /\ t.recps[i] = filled(i)
    BY <1>5, <1>6
  <2>4. /\ o.recps[i].keys \subseteq {o.recps[i].mbox} \X Protos
        /\ ~m.encrypt => o.recps[i].keys = {}
        /\ o.recps[i].type = "orig" => o.recps[i].mbox = m.sender
        /\ o.recps[i].type \in Entered => o.recps[i].mbox \in AllAddrs
    BY <2>1, <2>3 DEF Proper
  <2> QED
    BY <1>4, <1>9, <2>3, <2>4
<1>11. OneKind(m, t)
  BY <1>1, <1>4, <1>5, <1>6, <1>9 DEF OneKind
<1>12. Similar(m, t)
  BY <1>2, <1>3, <1>4, <1>5, <1>6, <1>8, <1>10 DEF Similar
<1> QED
  BY <1>1, <1>11, <1>12 DEF t

\* Not by coincidence: somebody has a key, and the signer is of its protocol
LEMMA ThroughResolved ==
  ASSUME NEW m \in MailRecs, UnderWay(m), NEW o, Similar(m, o), OneKind(m, o), o.proto \in Protos,
         o.asked = FALSE, IsResolved(m, o)
  PROVE  Resolved(m, o)
<1>1. o.recps \in Seq(Recps) /\ Len(o.recps) = Len(m.cached)
  BY DEF Similar
<1>2. DOMAIN o.recps = DOMAIN m.cached
  BY <1>1, MailType, RecpsType
<1>3. m.encrypt => \A i \in DOMAIN o.recps : o.recps[i].keys # {} /\ (m.sign => \A k \in o.recps[i].keys : Signs(o, Proto(k)))
  BY DEF IsResolved, ToSet
<1>4. ASSUME m.encrypt, m.sign PROVE <<m.sender, o.proto>> \in o.signers
  <2>1. PICK i \in DOMAIN o.recps : TRUE
    BY <1>2 DEF UnderWay
  <2>2. PICK k \in o.recps[i].keys : Proto(k) = o.proto /\ Signs(o, Proto(k))
    BY <1>3, <1>4 DEF OneKind
  <2>3. PICK s \in o.signers : Proto(s) = o.proto
    BY <2>2 DEF Signs
  <2>4. s = <<m.sender, o.proto>>
    BY <2>3, OwnSigner DEF Similar
  <2> QED
    BY <2>4
<1> QED
  BY <1>3, <1>4 DEF Resolved

LEMMA ResolveKeysFacts ==
  ASSUME NEW m \in MailRecs, UnderWay(m), NEW o \in ResolveKeys(m)
  PROVE  Resolved(m, o)
<1> DEFINE op == Op(m)
           p == ResolvedProtocol(m, op)
<1>0. Similar(m, op) /\ op.asked = FALSE /\ m.encrypt \in BOOLEAN /\ m.sign \in BOOLEAN
  BY OpSimilar, MailType
<1>1. "pgp" \in Protos /\ "cms" \in Protos
  BY DEF Protos
<1>2. CASE p # "unknown" /\ o = [op EXCEPT !.proto = p]
  <2> DEFINE fits(q) == \A r \in ToSet(op.recps) :
                          r.keys # {} /\ (\A k \in r.keys : Proto(k) = q) /\ (m.sign => Signs(op, q))
  <2>1. p \in Protos /\ fits(p) /\ m.encrypt /\ op.recps # <<>>
    BY <1>2 DEF ResolvedProtocol
  <2>2. o.recps = op.recps /\ o.signers = op.signers /\ o.proto = p /\ o.asked = op.asked
    BY <1>2 DEF Op
  <2>3. Similar(m, o)
    BY <1>0, <2>2 DEF Similar
  <2>4. \A i \in DOMAIN op.recps : op.recps[i].keys # {} /\ (\A k \in op.recps[i].keys : Proto(k) = p)
                                   /\ (m.sign => Signs(op, p))
    BY <2>1 DEF ToSet
  <2>5. OneKind(m, o)
    BY <2>2, <2>4 DEF OneKind
  <2>6. IsResolved(m, o)
    BY <2>2, <2>4 DEF IsResolved, ToSet, Signs
  <2> QED
    BY <1>0, <2>1, <2>2, <2>3, <2>5, <2>6, ThroughResolved
<1>3. CASE o \in ResolveCached(m, op)
  <2> DEFINE cms1 == ThroughProtocol(m, op, "cms")
             try1 == opt.smime /\ opt.preferSmime
             pgp  == ThroughProtocol(m, IF try1 THEN cms1 ELSE op, "pgp")
             cms2 == ThroughProtocol(m, pgp, "cms")
  <2>1. o \in {cms1, pgp, cms2} /\ IsResolved(m, o)
    BY <1>3 DEF ResolveCached
  <2> HIDE DEF op
  <2>2. Similar(m, cms1) /\ OneKind(m, cms1) /\ cms1.proto = "cms" /\ cms1.asked = FALSE
    BY <1>0, <1>1, Through
  <2> HIDE DEF cms1
  <2>3. Similar(m, pgp) /\ OneKind(m, pgp) /\ pgp.proto = "pgp" /\ pgp.asked = FALSE
    <3>1. CASE try1
      BY <1>1, <2>2, <3>1, Through
    <3>2. CASE ~try1
      BY <1>0, <1>1, <3>2, Through
    <3> QED
      BY <3>1, <3>2
  <2> HIDE DEF pgp
  <2>4. Similar(m, cms2) /\ OneKind(m, cms2) /\ cms2.proto = "cms" /\ cms2.asked = FALSE
    BY <1>1, <2>3, Through
  <2> HIDE DEF cms2
  <2>5. Similar(m, o) /\ OneKind(m, o) /\ o.proto \in Protos /\ o.asked = FALSE
    BY <1>1, <2>1, <2>2, <2>3, <2>4
  <2> QED
    BY <2>1, <2>5, ThroughResolved
<1>4. CASE o \in FromResolver(m, op)
  <2> DEFINE q0 == [op EXCEPT !.signers = {}, !.asked = TRUE]
  <2>1. PICK q \in Protos :
          /\ m.encrypt => \A r \in ToSet(op.recps) : EncryptionKeys(r.mbox, q) # {}
          /\ o = [ThroughProtocol(m, q0, q) EXCEPT !.signers = @ \ {NoKey}]
    BY <1>4 DEF FromResolver, Protos
  <2>2. Similar(m, q0) /\ q0.asked = TRUE /\ q0.recps = op.recps
    <3>1. q0.recps = op.recps /\ q0.signers = {} /\ q0.asked = TRUE
      BY DEF Op
    <3> QED
      BY <1>0, <3>1 DEF Similar
  <2> DEFINE t == ThroughProtocol(m, q0, q)
  <2>3. m.encrypt => \A i \in DOMAIN t.recps : t.recps[i].keys = EncryptionKeys(op.recps[i].mbox, q) /\ i \in DOMAIN op.recps
    <3>1. \A i \in DOMAIN op.recps : op.recps[i] \in Recps
      BY <1>0, RecpsType DEF Similar
    <3> QED
      BY <2>2, <3>1 DEF ThroughProtocol, Recps
  <2>4. m.encrypt => \A i \in DOMAIN op.recps : EncryptionKeys(op.recps[i].mbox, q) # {}
    BY <2>1 DEF ToSet
  <2>5. o.recps = t.recps /\ o.proto = t.proto /\ o.asked = t.asked /\ o.signers \subseteq t.signers
    BY <2>1 DEF ThroughProtocol
  <2> HIDE DEF q0
  <2>6. Similar(m, t) /\ OneKind(m, t) /\ t.proto = q /\ t.asked = TRUE
    BY <2>2, Through
  <2> HIDE DEF t, op
  <2>7. Similar(m, o)
    BY <2>5, <2>6 DEF Similar
  <2>8. OneKind(m, o)
    BY <2>5, <2>6 DEF OneKind
  <2>9. m.encrypt => \A i \in DOMAIN o.recps : o.recps[i].keys # {}
    BY <2>3, <2>4, <2>5
  <2> QED
    BY <2>5, <2>6, <2>7, <2>8, <2>9 DEF Resolved
<1>5. \/ p # "unknown" /\ o = [op EXCEPT !.proto = p]
      \/ o \in ResolveCached(m, op)
      \/ o \in FromResolver(m, op)
  BY DEF ResolveKeys
<1> QED
  BY <1>2, <1>3, <1>4, <1>5

-----------------------------------------------------------------------------
(* One mail at a step.                                                     *)

LEMMA FirstKnownType ==
  ASSUME NEW account \in { c.account : c \in Composed }, NEW identity \in { c.identity : c \in Composed }
  PROVE  ChooseSender(account, identity) \in Senders
<1>1. FirstKnown(identity) \in Senders /\ account \in Senders /\ CurrentUser \in Senders
  BY DEF Senders
<1> QED
  BY <1>1 DEF ChooseSender

\* The originator is not one of Outlook's recipients
LEMMA AddSender ==
  ASSUME NEW recps \in Seq(Recps), NEW encrypt, NEW sender \in Senders, Proper(recps, encrypt, sender)
  PROVE  LET more == Append(recps, Recipient(sender, "orig", 0))
         IN /\ more \in Seq(Recps) /\ Proper(more, encrypt, sender)
            /\ \E i \in DOMAIN more : more[i].mbox = sender
            /\ \A a : Count(more, a) = Count(recps, a)
<1> DEFINE r == Recipient(sender, "orig", 0)
           more == Append(recps, r)
<1>0. Len(recps) \in Nat /\ DOMAIN recps = 1..Len(recps)
  OBVIOUS
<1>1. /\ r \in Recps /\ r.mbox = sender /\ r.type = "orig" /\ r.keys = {}
  BY DEF Recipient, Recps, Mboxes, Types
<1> HIDE DEF r
<1>2. more \in Seq(Recps) /\ DOMAIN more = 1..(Len(recps) + 1) /\ more[Len(recps) + 1] = r
  BY <1>0, <1>1
<1>3. \A i \in DOMAIN recps : more[i] = recps[i] /\ i \in DOMAIN more
  BY <1>0, <1>1
<1>4. \A i \in DOMAIN more : i \in DOMAIN recps \/ more[i] = r
  BY <1>0, <1>2
<1> HIDE DEF more
<1>5. Proper(more, encrypt, sender)
  <2>1. "orig" \notin Entered
    BY DEF Entered
  <2>2. \A i \in DOMAIN recps :
          /\ recps[i].keys \subseteq {recps[i].mbox} \X Protos
          /\ ~encrypt => recps[i].keys = {}
          /\ recps[i].type = "orig" => recps[i].mbox = sender
          /\ recps[i].type \in Entered => recps[i].mbox \in AllAddrs
    BY DEF Proper
  <2>3. \A i \in DOMAIN more :
          /\ more[i].keys \subseteq {more[i].mbox} \X Protos
          /\ ~encrypt => more[i].keys = {}
          /\ more[i].type = "orig" => more[i].mbox = sender
          /\ more[i].type \in Entered => more[i].mbox \in AllAddrs
    BY <1>1, <1>3, <1>4, <2>1, <2>2
  <2> QED
    BY <2>3 DEF Proper
<1>6. \E i \in DOMAIN more : more[i].mbox = sender
  <2>1. Len(recps) + 1 \in DOMAIN more
    BY <1>0, <1>2
  <2> QED
    BY <1>1, <1>2, <2>1
<1>7. ASSUME NEW a PROVE Count(more, a) = Count(recps, a)
  <2>1. Held(more, a) = Held(recps, a)
    BY <1>1, <1>3, <1>4 DEF Held, Entered
  <2> QED
    BY <2>1 DEF Count
<1> QED
  BY <1>2, <1>5, <1>6, <1>7 DEF more, r

\* Outlook's recipients have no keys yet
LEMMA GetRecipientsProper ==
  ASSUME NEW oom \in Ooms, NEW encrypt, NEW sender
  PROVE  GetRecipients(oom) \in Seq(Recps) /\ Proper(GetRecipients(oom), encrypt, sender)
<1>1. \A r \in Found : /\ r \in Recps /\ r.keys = {} /\ r.type \in Entered /\ r.mbox \in AllAddrs
  BY DEF Found, Recps, Mboxes, Types
<1>2. GetRecipients(oom) \in Seq(Found)
  BY GetRecipientsFacts
<1>3. \A i \in DOMAIN GetRecipients(oom) : GetRecipients(oom)[i] \in Found
  BY <1>2
<1>4. GetRecipients(oom) \in Seq(Recps)
  BY <1>1, <1>2, <1>3
<1>5. "orig" \notin Entered
  BY DEF Entered
<1> QED
  BY <1>1, <1>3, <1>4, <1>5 DEF Proper

LEMMA Updated ==
  ASSUME NEW m \in MailRecs,
         m.set => /\ Proper(m.cached, m.encrypt, ChooseSender(m.account, m.identity))
                  /\ m.encrypt => Same(m.cached, m.oom),
         m.signers \subseteq OwnKeys(ChooseSender(m.account, m.identity))
  PROVE  LET u == [UpdateOOMData(m) EXCEPT !.state = "crypto"]
         IN u \in MailRecs /\ Good(u) /\ u.oom = m.oom
<1> DEFINE s == ChooseSender(m.account, m.identity)
           recps == IF m.set THEN m.cached ELSE GetRecipients(m.oom)
           cached == IF \E r \in ToSet(recps) : r.mbox = s THEN recps ELSE Append(recps, Recipient(s, "orig", 0))
           u == [UpdateOOMData(m) EXCEPT !.state = "crypto"]
<1>1. u = [m EXCEPT !.sender = s, !.cached = cached, !.state = "crypto"]
  BY DEF UpdateOOMData, MailRecs
<1>2. s \in Senders
  BY FirstKnownType DEF MailRecs
<1>3. m.oom \in Ooms /\ m.cached \in Seq(Recps) /\ m.set \in BOOLEAN /\ m.encrypt \in BOOLEAN
  BY MailType
<1>4. recps \in Seq(Recps) /\ Proper(recps, m.encrypt, s) /\ (m.encrypt => Same(recps, m.oom))
  <2>1. CASE m.set
    BY <1>3, <2>1
  <2>2. CASE ~m.set
    BY <1>3, <2>2, GetRecipientsProper DEF Same
  <2> QED
    BY <2>1, <2>2
<1> HIDE DEF recps, s
<1>5. /\ cached \in Seq(Recps) /\ Proper(cached, m.encrypt, s) /\ \E i \in DOMAIN cached : cached[i].mbox = s
      /\ m.encrypt => Same(cached, m.oom)
  <2>1. CASE \E r \in ToSet(recps) : r.mbox = s
    BY <1>4, <2>1 DEF ToSet
  <2>2. CASE ~\E r \in ToSet(recps) : r.mbox = s
    <3>1. cached = Append(recps, Recipient(s, "orig", 0))
      BY <2>2
    <3> HIDE DEF cached
    <3>2. cached \in Seq(Recps)
      BY <1>2, <1>4, <3>1, AddSender
    <3>3. Proper(cached, m.encrypt, s)
      BY <1>2, <1>4, <3>1, AddSender
    <3>4. \E i \in DOMAIN cached : cached[i].mbox = s
      BY <1>2, <1>4, <3>1, AddSender
    <3>5. \A a : Count(cached, a) = Count(recps, a)
      BY <1>2, <1>4, <3>1, AddSender
    <3> QED
      BY <1>4, <3>2, <3>3, <3>4, <3>5 DEF Same
  <2> QED
    BY <2>1, <2>2
<1> HIDE DEF cached
<1>6. u \in MailRecs
  BY <1>1, <1>2, <1>5 DEF MailRecs, States
<1>7. /\ u.oom = m.oom /\ u.encrypt = m.encrypt /\ u.account = m.account /\ u.identity = m.identity
      /\ u.sender = s /\ u.cached = cached /\ u.signers = m.signers /\ u.state = "crypto"
  BY <1>1 DEF MailRecs
<1>8. UnderWay(u)
  BY <1>5, <1>7 DEF UnderWay, s
<1> HIDE DEF u
<1>9. Good(u)
  BY <1>7, <1>8 DEF Good
<1> QED
  BY <1>6, <1>7, <1>9 DEF u

LEMMA AddressesType ==
  ASSUME NEW oom \in Ooms
  PROVE  Addresses(oom) \subseteq AllAddrs
<1>1. \A i \in DOMAIN GetRecipients(oom) : GetRecipients(oom)[i] \in Found
  BY GetRecipientsFacts
<1> QED
  BY <1>1 DEF Addresses, ToSet, Found

LEMMA SimilarCount ==
  ASSUME NEW m \in MailRecs, NEW o, Similar(m, o), NEW a
  PROVE  Count(o.recps, a) = Count(m.cached, a)
<1>1. DOMAIN o.recps = DOMAIN m.cached
  BY MailType, RecpsType DEF Similar
<1>2. Held(o.recps, a) = Held(m.cached, a)
  BY <1>1 DEF Held, Similar
<1> QED
  BY <1>2 DEF Count

LEMMA DoneFacts ==
  ASSUME NEW m \in MailRecs, UnderWay(m), NEW o, Resolved(m, o)
  PROVE  LET d == Done(m, o)
         IN /\ d \in MailRecs /\ UnderWay(d) /\ d.oom = m.oom /\ d.encrypt = m.encrypt
            /\ d.sign = m.sign /\ d.sender = m.sender
            /\ m.encrypt => d.cached = o.recps
<1> DEFINE d == Done(m, o)
<1>1. CASE o.asked /\ ~m.encrypt
  BY <1>1 DEF Done
<1>2. CASE ~(o.asked /\ ~m.encrypt)
  <2>1. d = [m EXCEPT !.cached = o.recps, !.set = (o.recps # <<>>), !.signers = o.signers]
    BY <1>2 DEF Done
  <2>2. /\ o.recps \in Seq(Recps) /\ o.signers \subseteq Keys \cup {NoKey}
        /\ o.signers \subseteq OwnKeys(m.sender) /\ Proper(o.recps, m.encrypt, m.sender)
    BY MailType DEF Resolved, Similar
  <2>3. d \in MailRecs
    BY <2>1, <2>2 DEF MailRecs
  <2>4. /\ d.oom = m.oom /\ d.encrypt = m.encrypt /\ d.account = m.account /\ d.identity = m.identity
        /\ d.sign = m.sign /\ d.sender = m.sender /\ d.cached = o.recps /\ d.signers = o.signers
    BY <2>1 DEF MailRecs
  <2>5. \E i \in DOMAIN o.recps : o.recps[i].mbox = m.sender
    <3>1. DOMAIN o.recps = DOMAIN m.cached
      BY MailType, RecpsType DEF Resolved, Similar
    <3> QED
      BY <3>1 DEF UnderWay, Resolved, Similar
  <2>6. m.encrypt => Same(o.recps, m.oom)
    BY SimilarCount DEF UnderWay, Same, Resolved
  <2>7. m.sender = ChooseSender(m.account, m.identity)
    BY DEF UnderWay
  <2> HIDE DEF d
  <2>8. UnderWay(d)
    BY <2>2, <2>4, <2>5, <2>6, <2>7 DEF UnderWay
  <2> QED
    BY <2>3, <2>4, <2>8 DEF d
<1> QED
  BY <1>1, <1>2

\* The keys are of those the mail is delivered to, and of its sender
LEMMA KeysOfAll ==
  ASSUME NEW m \in MailRecs, UnderWay(m), m.encrypt, NEW o, Resolved(m, o)
  PROVE  { Owner(k) : k \in UNION { r.keys : r \in ToSet(o.recps) } } = Addresses(m.oom) \cup {m.sender}
<1> DEFINE R == o.recps
           K == UNION { r.keys : r \in ToSet(R) }
<1>1. /\ R \in Seq(Recps) /\ Proper(R, m.encrypt, m.sender) /\ \A i \in DOMAIN R : R[i].keys # {}
  BY DEF Resolved, Similar
<1>2. \A i \in DOMAIN R : /\ R[i].type \in Types /\ R[i].keys \subseteq {R[i].mbox} \X Protos
                          /\ R[i].type = "orig" => R[i].mbox = m.sender
                          /\ R[i].type \in Entered => R[i].mbox \in AllAddrs
  BY <1>1, RecpsType DEF Proper
<1>3. /\ \A k \in K : \E i \in DOMAIN R : k \in R[i].keys
      /\ \A i \in DOMAIN R : R[i].keys \subseteq K
  BY DEF ToSet
<1>4. \A i \in DOMAIN R : \A k \in R[i].keys : Owner(k) = R[i].mbox
  BY <1>2 DEF Owner
<1>5. \A a : a \in Addresses(m.oom) <=> a \in AllAddrs /\ Held(R, a) # {}
  <2>1. SUFFICES ASSUME NEW a \in AllAddrs PROVE a \in Addresses(m.oom) <=> Held(R, a) # {}
    BY AddressesType, MailType
  <2>2. a \in Addresses(m.oom) <=> Count(GetRecipients(m.oom), a) # 0
    BY AddressesCount, MailType
  <2>3. Count(GetRecipients(m.oom), a) = Count(m.cached, a)
    BY DEF UnderWay, Same
  <2>4. Count(m.cached, a) = Count(R, a)
    BY SimilarCount DEF Resolved
  <2>5. Count(R, a) = 0 <=> Held(R, a) = {}
    BY <1>1, CountType
  <2> QED
    BY <2>2, <2>3, <2>4, <2>5
<1>6. \E i \in DOMAIN R : R[i].mbox = m.sender
  <2>1. DOMAIN R = DOMAIN m.cached
    BY MailType, RecpsType DEF Resolved, Similar
  <2> QED
    BY <2>1 DEF UnderWay, Resolved, Similar
<1> HIDE DEF K, R
<1>7. ASSUME NEW k \in K PROVE Owner(k) \in Addresses(m.oom) \cup {m.sender}
  <2>1. PICK i \in DOMAIN R : k \in R[i].keys
    BY <1>3
  <2>2. Owner(k) = R[i].mbox /\ R[i].type \in Entered \cup {"orig"}
    BY <1>2, <1>4, <2>1 DEF Types
  <2>3. CASE R[i].type \in Entered
    <3>1. i \in Held(R, R[i].mbox) /\ R[i].mbox \in AllAddrs
      BY <1>2, <2>3 DEF Held
    <3> QED
      BY <1>5, <2>2, <3>1
  <2>4. CASE R[i].type = "orig"
    BY <1>2, <2>2, <2>4
  <2> QED
    BY <2>2, <2>3, <2>4
<1>8. ASSUME NEW a \in Addresses(m.oom) \cup {m.sender} PROVE \E k \in K : a = Owner(k)
  <2>1. PICK i \in DOMAIN R : R[i].mbox = a
    <3>1. CASE a = m.sender
      BY <1>6, <3>1
    <3>2. CASE a \in Addresses(m.oom)
      <4>1. Held(R, a) # {}
        BY <1>5, <3>2
      <4> QED
        BY <4>1 DEF Held
    <3> QED
      BY <3>1, <3>2
  <2>2. PICK k \in R[i].keys : TRUE
    BY <1>1 DEF R
  <2> QED
    BY <1>3, <1>4, <2>1, <2>2
<1> QED
  BY <1>7, <1>8 DEF K, R

\* The crypto of a mail
LEMMA CryptoMail ==
  ASSUME NEW m \in MailRecs, m.state = "crypto", Good(m), NEW o \in ResolveKeys(m)
  PROVE  LET w == IF NeedsSplit(o) THEN [Done(m, o) EXCEPT !.state = "split"] ELSE Encrypted(m, o)
         IN w \in MailRecs /\ Good(w) /\ w.oom = m.oom
<1> DEFINE d == Done(m, o)
           sp == [d EXCEPT !.state = "split"]
           e == Encrypted(m, o)
<1>1. UnderWay(m) /\ Resolved(m, o)
  BY ResolveKeysFacts DEF Good
<1>2. /\ d \in MailRecs /\ UnderWay(d) /\ d.oom = m.oom /\ d.encrypt = m.encrypt
      /\ d.sign = m.sign /\ d.sender = m.sender /\ (m.encrypt => d.cached = o.recps)
  BY <1>1, DoneFacts
<1>3. ASSUME NeedsSplit(o) PROVE sp \in MailRecs /\ Good(sp) /\ sp.oom = m.oom
  <2> HIDE DEF d
  <2>1. sp \in MailRecs
    BY <1>2 DEF MailRecs, States
  <2>2. /\ sp.oom = d.oom /\ sp.encrypt = d.encrypt /\ sp.account = d.account /\ sp.identity = d.identity
        /\ sp.sender = d.sender /\ sp.cached = d.cached /\ sp.signers = d.signers /\ sp.state = "split"
    BY <1>2 DEF MailRecs
  <2> HIDE DEF sp
  <2>3. UnderWay(sp)
    BY <1>2, <2>2 DEF UnderWay
  <2>4. ASSUME sp.encrypt PROVE Splittable(sp.cached)
    <3>1. sp.cached = o.recps /\ m.encrypt
      BY <1>2, <2>2, <2>4
    <3>2. \A i \in DOMAIN o.recps : o.recps[i].keys # {}
      BY <1>1, <3>1 DEF Resolved
    <3>3. DOMAIN o.recps = 1..Len(o.recps) /\ Len(o.recps) \in Nat
      BY <1>1, RecpsType DEF Resolved, Similar
    <3>4. PICK i \in 1..(Len(o.recps) - 1) : o.recps[i].type = "bcc"
      BY <1>3 DEF NeedsSplit
    <3>5. i \in DOMAIN o.recps
      BY <3>3, <3>4
    <3> QED
      BY <3>1, <3>2, <3>4, <3>5 DEF Splittable
  <2>5. Good(sp)
    BY <2>2, <2>3, <2>4 DEF Good
  <2> QED
    BY <1>2, <2>1, <2>2, <2>5
<1>4. e \in MailRecs /\ Good(e) /\ e.oom = m.oom
  <2> DEFINE to == IF m.encrypt THEN UNION { r.keys : r \in ToSet(o.recps) } ELSE {}
             by == IF m.sign THEN { k \in o.signers : Proto(k) = o.proto } ELSE {}
  <2>1. e = [d EXCEPT !.state = "sent", !.proto = o.proto, !.asked = o.asked, !.to = to, !.by = by]
    BY DEF Encrypted
  <2>2. to \subseteq Keys
    <3>1. o.recps \in Seq(Recps)
      BY <1>1 DEF Resolved, Similar
    <3>2. \A i \in DOMAIN o.recps : o.recps[i].keys \subseteq Keys
      BY <3>1, RecpsType
    <3> QED
      BY <3>2 DEF ToSet
  <2>3. by \subseteq OwnKeys(m.sender) /\ by \subseteq Keys \cup {NoKey}
    BY <1>1, MailType DEF Resolved, Similar
  <2>4. o.proto \in Protos /\ o.asked \in BOOLEAN
    BY <1>1 DEF Resolved
  <2>5. m.encrypt => { Owner(k) : k \in to } = Addresses(m.oom) \cup {m.sender}
    BY <1>1, KeysOfAll
  <2>6. m.encrypt => \A k \in to : Proto(k) = o.proto
    BY <1>1 DEF Resolved, OneKind, ToSet
  <2>7. ASSUME m.encrypt, m.sign, ~o.asked PROVE by = {<<m.sender, o.proto>>}
    <3>1. <<m.sender, o.proto>> \in o.signers
      BY <1>1, <2>7 DEF Resolved
    <3>2. \A k \in by : k = <<m.sender, o.proto>>
      BY <2>3, <2>4, OwnSigner
    <3>3. <<m.sender, o.proto>> \in by
      BY <2>7, <3>1 DEF Proto
    <3> QED
      BY <3>2, <3>3
  <2> HIDE DEF to, by, d
  <2>8. e \in MailRecs
    <3> DEFINE e1 == [d EXCEPT !.state = "sent", !.proto = o.proto, !.asked = o.asked]
    <3>1. e1 \in MailRecs
      BY <1>2, <2>4 DEF MailRecs, States
    <3>2. e = [e1 EXCEPT !.to = to, !.by = by]
      BY <1>2, <2>1 DEF MailRecs
    <3>3. to \in SUBSET Keys /\ by \in SUBSET (Keys \cup {NoKey})
      BY <2>2, <2>3
    <3> HIDE DEF e1
    <3> QED
      BY <3>1, <3>2, <3>3 DEF MailRecs
  <2>9. /\ e.oom = m.oom /\ e.encrypt = m.encrypt /\ e.sign = m.sign /\ e.sender = m.sender
        /\ e.state = "sent" /\ e.proto = o.proto /\ e.asked = o.asked /\ e.to = to /\ e.by = by
    BY <1>2, <2>1 DEF MailRecs
  <2> HIDE DEF e
  <2>10. e.encrypt => Readable(e) /\ OneProto(e)
    BY <2>5, <2>6, <2>7, <2>9 DEF Readable, OneProto
  <2> QED
    BY <2>8, <2>9, <2>10 DEF Good
<1> QED
  BY <1>3, <1>4

\* A mail that is split and its copy have the recipients of the mail
LEMMA SplitMail ==
  ASSUME NEW m \in MailRecs, m.state = "split", Good(m)
  PROVE  LET s == Split(m, ForUs(m), ForCopy(m))
             u == [UpdateOOMData(s.us) EXCEPT !.state = "crypto"]
             c == [UpdateOOMData(s.copy) EXCEPT !.state = "crypto"]
         IN /\ u \in MailRecs /\ Good(u) /\ c \in MailRecs /\ Good(c)
            /\ Addresses(u.oom) \cup Addresses(c.oom) = Addresses(m.oom)
<1> DEFINE n == FirstBcc(m.cached)
           b == m.cached[n].mbox
           us == ForUs(m)
           theirs == ForCopy(m)
           s == Split(m, us, theirs)
           signers == IF n = 0 THEN m.signers ELSE OfProto(m.signers, Proto(CHOOSE k \in m.cached[n].keys : TRUE))
           oom == IF n = 0 THEN m.oom ELSE IF Removable(m.oom, b) = {} THEN SetRecipients(us)
                  ELSE RemoveRecipient(m.oom, b)
<1>0. UnderWay(m) /\ m.cached \in Seq(Recps) /\ m.oom \in Ooms /\ m.encrypt \in BOOLEAN
  BY MailType DEF Good
<1>1. Proper(m.cached, m.encrypt, m.sender) /\ m.sender = ChooseSender(m.account, m.identity)
      /\ m.signers \subseteq OwnKeys(m.sender)
  BY <1>0 DEF UnderWay
<1>2. /\ s.us = [m EXCEPT !.cached = us, !.set = (us # <<>>), !.oom = oom]
      /\ s.copy = [m EXCEPT !.cached = theirs, !.set = (theirs # <<>>), !.signers = signers,
                            !.oom = SetRecipients(theirs)]
  <2> HIDE DEF us, theirs
  <2> QED
    BY DEF Split, MailRecs
<1>3. us \in Seq(Recps) /\ Proper(us, m.encrypt, m.sender) /\ AllKnown(us)
  BY <1>0, <1>1, KeptProper DEF ForUs
<1>4. theirs \in Seq(Recps) /\ Proper(theirs, m.encrypt, m.sender) /\ AllKnown(theirs)
  BY <1>0, <1>1, KeptProper DEF ForCopy
<1>5. SetRecipients(theirs) \in Ooms /\ \A a : Count(GetRecipients(SetRecipients(theirs)), a) = Count(theirs, a)
  <2> HIDE DEF theirs
  <2> QED
    BY <1>4, SetRecipientsCount
<1>6. SetRecipients(us) \in Ooms /\ \A a : Count(GetRecipients(SetRecipients(us)), a) = Count(us, a)
  <2> HIDE DEF us
  <2> QED
    BY <1>3, SetRecipientsCount
<1>7. signers \subseteq m.signers
  BY DEF OfProto
<1>8. ASSUME m.encrypt
      PROVE  /\ n \in DOMAIN m.cached /\ n # 0 /\ b \in AllAddrs
             /\ \A a : Count(us, a) = IF a = b THEN Count(m.cached, a) - 1 ELSE Count(m.cached, a)
             /\ \A a : Count(theirs, a) = IF a = b THEN 1 ELSE 0
             /\ Count(m.cached, b) \in Nat \ {0}
  <2>1. Splittable(m.cached)
    BY <1>8 DEF Good
  <2>2. n \in DOMAIN m.cached /\ m.cached[n].type = "bcc" /\ Count(m.cached, b) \in Nat \ {0}
    BY <1>0, <2>1, SplitCount
  <2>3. \A a : Count(us, a) = IF a = b THEN Count(m.cached, a) - 1 ELSE Count(m.cached, a)
    BY <1>0, <2>1, SplitCount
  <2>4. \A a : Count(theirs, a) = IF a = b THEN 1 ELSE 0
    BY <1>0, <2>1, SplitCount
  <2>5. b \in AllAddrs
    BY <1>1, <2>2 DEF Proper, Entered
  <2>6. n # 0
    BY <1>0, <2>2, RecpsType
  <2> QED
    BY <2>2, <2>3, <2>4, <2>5, <2>6
<1>9. ASSUME ~m.encrypt
      PROVE  n = 0 /\ \A a : Count(theirs, a) = 0
  <2>1. n = 0
    BY <1>0, <1>1, <1>9, FirstBccFacts DEF Proper
  <2>2. ASSUME NEW a PROVE Count(theirs, a) = 0
    <3>1. theirs = Kept(m.cached, OfTypes(m.cached, {"orig"}) \cup {n})
      BY DEF ForCopy
    <3>2. Held(m.cached, a) \cap (OfTypes(m.cached, {"orig"}) \cup {n}) = {}
      <4>1. 0 \notin DOMAIN m.cached
        BY <1>0, RecpsType
      <4> HIDE DEF n
      <4> QED
        BY <2>1, <4>1 DEF Held, OfTypes, Entered
    <3> HIDE DEF theirs, n
    <3> QED
      BY <1>0, <3>1, <3>2, KeptCount, FS_EmptySet
  <2> QED
    BY <2>1, <2>2
<1> HIDE DEF us, theirs, signers, n, b, s
<1>10. /\ oom \in Ooms
       /\ m.encrypt => \A a \in AllAddrs : Count(GetRecipients(oom), a) = Count(us, a)
       /\ ~m.encrypt => oom = m.oom
  <2>1. CASE ~m.encrypt
    BY <1>0, <1>9, <2>1
  <2>2. CASE m.encrypt /\ Removable(m.oom, b) = {}
    <3>1. oom = SetRecipients(us)
      BY <1>8, <2>2
    <3> QED
      BY <1>6, <2>2, <3>1
  <2>3. CASE m.encrypt /\ Removable(m.oom, b) # {}
    <3>1. oom = RemoveRecipient(m.oom, b)
      BY <1>8, <2>3
    <3> HIDE DEF oom
    <3>2. oom \in Ooms
      BY <1>0, <2>3, <3>1, RemoveCount
    <3>3. ASSUME NEW a \in AllAddrs PROVE Count(GetRecipients(oom), a) = Count(us, a)
      <4>1. Count(GetRecipients(oom), a)
            = IF a = b THEN Count(GetRecipients(m.oom), a) - 1 ELSE Count(GetRecipients(m.oom), a)
        BY <1>0, <2>3, <3>1, RemoveCount
      <4>2. Count(GetRecipients(m.oom), a) = Count(m.cached, a)
        BY <1>0, <2>3 DEF UnderWay, Same
      <4> QED
        BY <1>8, <2>3, <4>1, <4>2
    <3> QED
      BY <2>3, <3>2, <3>3
  <2> QED
    BY <1>0, <2>1, <2>2, <2>3
<1> HIDE DEF oom
<1>11. /\ s.us \in MailRecs /\ s.us.cached = us /\ s.us.oom = oom /\ s.us.encrypt = m.encrypt
       /\ s.us.signers = m.signers /\ s.us.account = m.account /\ s.us.identity = m.identity
  <2> DEFINE t == s.us
  <2>1. (us # <<>>) \in BOOLEAN
    OBVIOUS
  <2>2. PICK set \in BOOLEAN : t = [m EXCEPT !.cached = us, !.set = set, !.oom = oom]
    BY <1>2, <2>1
  <2> HIDE DEF t
  <2>3. t \in MailRecs
    BY <1>3, <1>10, <2>2 DEF MailRecs
  <2>4. /\ t.cached = us /\ t.oom = oom /\ t.encrypt = m.encrypt
        /\ t.signers = m.signers /\ t.account = m.account /\ t.identity = m.identity
    BY <2>2 DEF MailRecs
  <2> QED
    BY <2>3, <2>4 DEF t
<1>12. /\ s.copy \in MailRecs /\ s.copy.cached = theirs /\ s.copy.oom = SetRecipients(theirs)
       /\ s.copy.encrypt = m.encrypt
       /\ s.copy.signers = signers /\ s.copy.account = m.account /\ s.copy.identity = m.identity
  <2>1. signers \in SUBSET (Keys \cup {NoKey})
    BY <1>7 DEF MailRecs
  <2> DEFINE t == s.copy
             copied == SetRecipients(theirs)
  <2>2. (theirs # <<>>) \in BOOLEAN
    OBVIOUS
  <2>3. PICK set \in BOOLEAN : t = [m EXCEPT !.cached = theirs, !.set = set, !.signers = signers, !.oom = copied]
    BY <1>2, <2>2
  <2>4. copied \in Ooms
    BY <1>5
  <2> HIDE DEF t, copied
  <2>5. t \in MailRecs
    BY <1>4, <2>1, <2>3, <2>4 DEF MailRecs
  <2>6. /\ t.cached = theirs /\ t.oom = copied /\ t.encrypt = m.encrypt
        /\ t.signers = signers /\ t.account = m.account /\ t.identity = m.identity
    BY <2>3 DEF MailRecs
  <2> QED
    BY <2>5, <2>6 DEF t, copied
<1> DEFINE u == [UpdateOOMData(s.us) EXCEPT !.state = "crypto"]
           c == [UpdateOOMData(s.copy) EXCEPT !.state = "crypto"]
<1>13. u \in MailRecs /\ Good(u) /\ u.oom = oom
  <2>1. /\ Proper(s.us.cached, s.us.encrypt, ChooseSender(s.us.account, s.us.identity))
        /\ s.us.encrypt => Same(s.us.cached, s.us.oom)
        /\ s.us.signers \subseteq OwnKeys(ChooseSender(s.us.account, s.us.identity))
    BY <1>1, <1>3, <1>10, <1>11 DEF Same
  <2> DEFINE t == s.us
  <2>2. t \in MailRecs
    BY <1>11
  <2> HIDE DEF t
  <2>3. LET x == [UpdateOOMData(t) EXCEPT !.state = "crypto"]
        IN x \in MailRecs /\ Good(x) /\ x.oom = t.oom
    BY <2>1, <2>2, Updated DEF t
  <2> QED
    BY <1>11, <2>3 DEF t
<1>14. c \in MailRecs /\ Good(c) /\ c.oom = SetRecipients(theirs)
  <2>1. /\ Proper(s.copy.cached, s.copy.encrypt, ChooseSender(s.copy.account, s.copy.identity))
        /\ s.copy.encrypt => Same(s.copy.cached, s.copy.oom)
        /\ s.copy.signers \subseteq OwnKeys(ChooseSender(s.copy.account, s.copy.identity))
    BY <1>1, <1>4, <1>5, <1>7, <1>12 DEF Same
  <2> DEFINE t == s.copy
  <2>2. t \in MailRecs
    BY <1>12
  <2> HIDE DEF t
  <2>3. LET x == [UpdateOOMData(t) EXCEPT !.state = "crypto"]
        IN x \in MailRecs /\ Good(x) /\ x.oom = t.oom
    BY <2>1, <2>2, Updated DEF t
  <2> QED
    BY <1>12, <2>3 DEF t
<1>15. Addresses(oom) \cup Addresses(SetRecipients(theirs)) = Addresses(m.oom)
  <2> DEFINE copied == SetRecipients(theirs)
  <2>0. copied \in Ooms /\ \A a : Count(GetRecipients(copied), a) = Count(theirs, a)
    BY <1>5
  <2> HIDE DEF copied
  <2>1. CASE ~m.encrypt
    <3>1. Addresses(copied) = {}
      BY <1>9, <2>0, <2>1, AddressesCount
    <3> QED
      BY <1>10, <2>1, <3>1 DEF copied
  <2>2. CASE m.encrypt
    <3>1. ASSUME NEW a \in AllAddrs
          PROVE  a \in Addresses(oom) \cup Addresses(copied) <=> a \in Addresses(m.oom)
      <4>1. a \in Addresses(oom) <=> Count(us, a) # 0
        BY <1>10, <2>2, AddressesCount
      <4>2. a \in Addresses(copied) <=> Count(theirs, a) # 0
        BY <2>0, AddressesCount
      <4>3. a \in Addresses(m.oom) <=> Count(m.cached, a) # 0
        BY <1>0, <2>2, AddressesCount DEF UnderWay, Same
      <4>4. CASE a = b
        BY <1>8, <2>2, <4>1, <4>2, <4>3, <4>4
      <4>5. CASE a # b
        BY <1>8, <2>2, <4>1, <4>2, <4>3, <4>5
      <4> QED
        BY <4>4, <4>5
    <3>2. /\ Addresses(oom) \subseteq AllAddrs /\ Addresses(copied) \subseteq AllAddrs
          /\ Addresses(m.oom) \subseteq AllAddrs
      BY <1>0, <1>10, <2>0, AddressesType
    <3> QED
      BY <3>1, <3>2 DEF copied
  <2> QED
    BY <1>0, <2>1, <2>2
<1> QED
  BY <1>13, <1>14, <1>15 DEF s, us, theirs

-----------------------------------------------------------------------------
(* The steps.                                                              *)

LEMMA ZeroIsMail == 0 \in Mails
  BY CopiesAssumption DEF Mails

LEMMA Initial == Init => Inv
<1> SUFFICES ASSUME Init PROVE Inv
  OBVIOUS
<1>1. PICK c \in Composed :
        mail = [x \in Mails |-> IF x # 0 THEN NoMail
                  ELSE [oom |-> c.oom, encrypt |-> c.encrypt, sign |-> c.sign,
                        account |-> c.account, identity |-> c.identity, sender |-> NoAddr,
                        cached |-> <<>>, set |-> FALSE, signers |-> {},
                        state |-> "compose", proto |-> "unknown", asked |-> FALSE,
                        to |-> {}, by |-> {}]]
  BY DEF Init
<1>2. c.oom \in Ooms /\ c.encrypt \in BOOLEAN /\ c.sign \in BOOLEAN
  BY ComposedAssumption DEF Ooms
<1>3. mail[0] \in MailRecs
  <2>1. NoAddr \in Senders /\ c.account \in { d.account : d \in Composed } /\ c.identity \in { d.identity : d \in Composed }
    BY DEF Senders
  <2>2. <<>> \in Seq(Recps)
    OBVIOUS
  <2> QED
    BY <1>1, <1>2, <2>1, <2>2, ZeroIsMail DEF MailRecs, States
<1>4. \A x \in Mails : x # 0 => mail[x] = NoMail
  BY <1>1
<1>5. mail[0].state = "compose" /\ mail[0].cached = <<>> /\ ~mail[0].set /\ mail[0].signers = {}
  BY <1>1, ZeroIsMail
<1>6. TypeOK
  <2>1. mail = [x \in Mails |-> mail[x]]
    BY <1>1
  <2> QED
    BY <1>3, <1>4, <2>1, MailType DEF TypeOK
<1>7. AllGood
  BY <1>4, <1>5 DEF AllGood, Good
<1> QED
  BY <1>5, <1>6, <1>7 DEF Inv, NobodyForgotten

LEMMA GoodNext ==
  ASSUME opt' = opt, NEW x, NEW w, mail'[x] = w, Good(w)
  PROVE  Good(mail[x])'
  BY DEF Good, UnderWay, ChooseSender

\* A step of one mail
LEMMA OneMail ==
  ASSUME TypeOK, AllGood, NEW x \in Mails, mail[x] # NoMail, NEW w \in MailRecs, Good(w), opt' = opt,
         mail' = [mail EXCEPT ![x] = w]
  PROVE  /\ TypeOK' /\ AllGood'
         /\ w.oom = mail[x].oom => Delivered' = Delivered
<1>1. /\ mail' \in [Mails -> MailRecs \cup {NoMail}] /\ mail'[x] = w /\ w # NoMail
      /\ \A y \in Mails : y # x => mail'[y] = mail[y]
  BY MailType DEF TypeOK
<1>2. TypeOK'
  BY <1>1, ZeroIsMail DEF TypeOK
<1>3. AllGood'
  <2>1. SUFFICES ASSUME NEW y \in Mails, mail'[y] # NoMail PROVE Good(mail[y])'
    BY DEF AllGood
  <2>2. CASE y = x
    BY <1>1, <2>2, GoodNext
  <2>3. CASE y # x
    <3>1. mail'[y] = mail[y] /\ Good(mail[y])
      BY <1>1, <2>1, <2>3 DEF AllGood
    <3> QED
      BY <3>1, GoodNext
  <2> QED
    BY <2>2, <2>3
<1>4. ASSUME w.oom = mail[x].oom PROVE Delivered' = Delivered
  <2>1. \A y \in Mails : (mail'[y] # NoMail <=> mail[y] # NoMail) /\ (mail[y] # NoMail => mail'[y].oom = mail[y].oom)
    BY <1>1, <1>4
  <2>2. { y \in Mails : mail'[y] # NoMail } = { y \in Mails : mail[y] # NoMail }
    BY <2>1
  <2>3. { Addresses(mail'[y].oom) : y \in { z \in Mails : mail'[z] # NoMail } }
        = { Addresses(mail[y].oom) : y \in { z \in Mails : mail[z] # NoMail } }
    BY <2>1, <2>2
  <2> QED
    BY <2>3 DEF Delivered
<1> QED
  BY <1>2, <1>3, <1>4

LEMMA NoRecps == <<>> \in Seq(Recps)
  OBVIOUS

\* Cancelled or given up
LEMMA ResetMail ==
  ASSUME NEW m \in MailRecs, NEW st \in {"compose", "unsent", "given up"}
  PROVE  LET w == [ResetRecipients(m) EXCEPT !.state = st]
         IN w \in MailRecs /\ Good(w) /\ w.oom = m.oom
<1> DEFINE w == [ResetRecipients(m) EXCEPT !.state = st]
<1>1. w = [m EXCEPT !.cached = <<>>, !.signers = {}, !.set = FALSE, !.state = st]
  BY DEF ResetRecipients, MailRecs
<1>2. <<>> \in Seq(Recps) /\ st \in States
  <2>1. <<>> \in Seq(Recps)
    BY NoRecps
  <2>2. st \in States
    BY DEF States
  <2> QED
    BY <2>1, <2>2
<1>3. w \in MailRecs
  BY <1>1, <1>2 DEF MailRecs
<1>4. w.cached = <<>> /\ w.signers = {} /\ w.set = FALSE /\ w.state = st /\ w.oom = m.oom
  BY <1>1 DEF MailRecs
<1> HIDE DEF w
<1>5. Good(w)
  BY <1>4 DEF Good
<1> QED
  BY <1>3, <1>4, <1>5 DEF w

LEMMA SendStep ==
  ASSUME Inv, Send
  PROVE  Inv'
<1> DEFINE m == mail[0]
           w == [UpdateOOMData(m) EXCEPT !.state = "crypto"]
<1>1. m \in MailRecs /\ m # NoMail /\ Good(m) /\ m.state = "compose"
  BY ZeroIsMail DEF Inv, TypeOK, AllGood, Send
<1>2. mail' = [mail EXCEPT ![0] = w] /\ opt' = opt /\ meant' = Delivered
  BY DEF Send
<1>3. ~m.set /\ m.signers = {}
  BY <1>1 DEF Good
<1>4. w \in MailRecs /\ Good(w) /\ w.oom = m.oom
  <2> HIDE DEF m
  <2> QED
    BY <1>1, <1>3, Updated
<1> HIDE DEF w
<1>5. TypeOK' /\ AllGood' /\ Delivered' = Delivered
  BY <1>1, <1>2, <1>4, ZeroIsMail, OneMail DEF Inv
<1>6. NobodyForgotten'
  BY <1>2, <1>5 DEF NobodyForgotten
<1> QED
  BY <1>5, <1>6 DEF Inv

LEMMA EditStep ==
  ASSUME Inv, Edit
  PROVE  Inv'
<1>1. PICK oom \in { c.oom : c \in Composed } : mail' = [mail EXCEPT ![0].oom = oom] /\ opt' = opt
  BY DEF Edit
<1> DEFINE m == mail[0]
           w == [m EXCEPT !.oom = oom]
<1>2. m \in MailRecs /\ m # NoMail /\ Good(m) /\ m.state = "compose"
  BY ZeroIsMail DEF Inv, TypeOK, AllGood, Edit
<1>3. mail' = [mail EXCEPT ![0] = w]
  BY <1>1
<1>4. oom \in Ooms
  BY <1>1, ComposedAssumption DEF Ooms
<1> HIDE DEF m
<1>5. w \in MailRecs /\ w.state = "compose" /\ w.cached = m.cached /\ w.set = m.set /\ w.signers = m.signers
  BY <1>2, <1>4 DEF MailRecs
<1> HIDE DEF w
<1>6. Good(w)
  BY <1>2, <1>5 DEF Good
<1>7. TypeOK' /\ AllGood'
  BY <1>1, <1>2, <1>3, <1>5, <1>6, ZeroIsMail, OneMail DEF Inv, m
<1>8. NobodyForgotten'
  BY <1>3, <1>5, ZeroIsMail DEF NobodyForgotten, Inv, TypeOK
<1> QED
  BY <1>7, <1>8 DEF Inv

\* A mail under way stays so, or is done with, and has its recipients
LEMMA UnderWayStep ==
  ASSUME Inv, NEW x \in Mails, mail[x].state = "crypto", NEW w \in MailRecs, Good(w), w.oom = mail[x].oom,
         opt' = opt, meant' = meant, mail' = [mail EXCEPT ![x] = w]
  PROVE  Inv'
<1>1. mail[x] # NoMail
  BY DEF NoMail
<1>2. TypeOK' /\ AllGood' /\ Delivered' = Delivered
  BY <1>1, OneMail DEF Inv
<1>3. ASSUME mail'[0].state # "compose" PROVE mail[0].state # "compose"
  BY <1>3, ZeroIsMail DEF Inv, TypeOK
<1> QED
  BY <1>2, <1>3 DEF Inv, NobodyForgotten

LEMMA CryptoStep ==
  ASSUME Inv, NEW x \in Mails, Crypto(x)
  PROVE  Inv'
<1> DEFINE m == mail[x]
<1>1. m.state = "crypto" /\ opt' = opt /\ meant' = meant
  BY DEF Crypto
<1>2. m \in MailRecs /\ Good(m)
  <2>1. m # NoMail
    BY <1>1 DEF NoMail
  <2> QED
    BY <2>1 DEF Inv, TypeOK, AllGood
<1>3. PICK o \in ResolveKeys(m) :
        mail' = [mail EXCEPT ![x] = IF NeedsSplit(o) THEN [Done(m, o) EXCEPT !.state = "split"] ELSE Encrypted(m, o)]
  BY DEF Crypto
<1> DEFINE w == IF NeedsSplit(o) THEN [Done(m, o) EXCEPT !.state = "split"] ELSE Encrypted(m, o)
<1>4. w \in MailRecs /\ Good(w) /\ w.oom = m.oom
  <2> HIDE DEF m
  <2> QED
    BY <1>1, <1>2, <1>3, CryptoMail
<1>5. mail' = [mail EXCEPT ![x] = w]
  BY <1>3
<1> HIDE DEF w
<1> QED
  BY <1>1, <1>4, <1>5, UnderWayStep

\* Both: the user cancels, or there are no keys
LEMMA CancelStep ==
  ASSUME Inv, NEW x \in Mails, Cancel(x) \/ NoKeysCancel(x)
  PROVE  Inv'
<1> DEFINE m == mail[x]
<1>1. m.state = "crypto" /\ opt' = opt /\ meant' = meant
  BY DEF Cancel, NoKeysCancel
<1>2. m \in MailRecs
  <2>1. m # NoMail
    BY <1>1 DEF NoMail
  <2> QED
    BY <2>1 DEF Inv, TypeOK
<1>3. PICK st \in {"compose", "unsent", "given up"} :
        mail' = [mail EXCEPT ![x] = [ResetRecipients(m) EXCEPT !.state = st]]
  BY DEF Cancel, NoKeysCancel
<1> DEFINE w == [ResetRecipients(m) EXCEPT !.state = st]
<1>4. w \in MailRecs /\ Good(w) /\ w.oom = m.oom
  <2> HIDE DEF m
  <2> QED
    BY <1>2, ResetMail
<1>5. mail' = [mail EXCEPT ![x] = w]
  BY <1>3
<1> HIDE DEF w
<1> QED
  BY <1>1, <1>4, <1>5, UnderWayStep

LEMMA SplitStep ==
  ASSUME Inv, SplitAndSend
  PROVE  Inv'
<1> DEFINE m == mail[0]
           s == Split(m, ForUs(m), ForCopy(m))
           u == [UpdateOOMData(s.us) EXCEPT !.state = "crypto"]
           w == [UpdateOOMData(s.copy) EXCEPT !.state = "crypto"]
<1>1. PICK c \in Mails : mail[c] = NoMail /\ mail' = [mail EXCEPT ![c] = w, ![0] = u]
  BY DEF SplitAndSend
<1>2. m.state = "split" /\ opt' = opt /\ meant' = meant
  BY DEF SplitAndSend
<1>3. m \in MailRecs /\ Good(m) /\ m # NoMail
  BY ZeroIsMail DEF Inv, TypeOK, AllGood
<1>4. /\ u \in MailRecs /\ Good(u) /\ w \in MailRecs /\ Good(w)
      /\ Addresses(u.oom) \cup Addresses(w.oom) = Addresses(m.oom)
  <2> HIDE DEF m
  <2> QED
    BY <1>2, <1>3, SplitMail
<1> HIDE DEF u, w, s
<1>5. /\ c # 0 /\ mail' \in [Mails -> MailRecs \cup {NoMail}] /\ mail'[0] = u /\ mail'[c] = w
      /\ \A y \in Mails : y # 0 /\ y # c => mail'[y] = mail[y]
      /\ u # NoMail /\ w # NoMail
  BY <1>1, <1>3, <1>4, MailType, ZeroIsMail DEF Inv, TypeOK
<1>6. TypeOK'
  BY <1>5 DEF TypeOK
<1>7. AllGood'
  <2>1. SUFFICES ASSUME NEW y \in Mails, mail'[y] # NoMail PROVE Good(mail[y])'
    BY DEF AllGood
  <2>2. CASE y = 0
    BY <1>2, <1>4, <1>5, <2>2, GoodNext
  <2>3. CASE y = c
    BY <1>2, <1>4, <1>5, <2>3, GoodNext
  <2>4. CASE y # 0 /\ y # c
    <3>1. mail'[y] = mail[y] /\ Good(mail[y])
      BY <1>5, <2>1, <2>4 DEF Inv, AllGood
    <3> QED
      BY <1>2, <3>1, GoodNext
  <2> QED
    BY <2>2, <2>3, <2>4
<1>8. Delivered' = Delivered
  <2>1. \A a : a \in Delivered <=> \E y \in Mails : mail[y] # NoMail /\ a \in Addresses(mail[y].oom)
    BY DEF Delivered
  <2>2. \A a : a \in Delivered' <=> \E y \in Mails : mail'[y] # NoMail /\ a \in Addresses(mail'[y].oom)
    BY DEF Delivered
  <2>3. ASSUME NEW a
        PROVE (\E y \in Mails : mail'[y] # NoMail /\ a \in Addresses(mail'[y].oom))
              <=> (\E y \in Mails : mail[y] # NoMail /\ a \in Addresses(mail[y].oom))
    BY <1>1, <1>3, <1>4, <1>5, ZeroIsMail
  <2> QED
    BY <2>1, <2>2, <2>3
<1>9. NobodyForgotten'
  BY <1>2, <1>8 DEF Inv, NobodyForgotten
<1> QED
  BY <1>6, <1>7, <1>9 DEF Inv

LEMMA Step == Inv /\ [Next]_vars => Inv'
<1> SUFFICES ASSUME Inv, [Next]_vars PROVE Inv'
  OBVIOUS
<1>1. CASE Send
  BY <1>1, SendStep
<1>2. CASE Edit
  BY <1>2, EditStep
<1>3. CASE SplitAndSend
  BY <1>3, SplitStep
<1>4. ASSUME NEW x \in Mails, Crypto(x) PROVE Inv'
  BY <1>4, CryptoStep
<1>5. ASSUME NEW x \in Mails, NoKeysCancel(x) \/ Cancel(x) PROVE Inv'
  BY <1>5, CancelStep
<1>6. CASE UNCHANGED vars
  <2>1. mail' = mail /\ opt' = opt /\ meant' = meant
    BY <1>6 DEF vars
  <2>2. TypeOK'
    BY <2>1 DEF Inv, TypeOK
  <2>3. AllGood'
    <3>1. SUFFICES ASSUME NEW y \in Mails, mail'[y] # NoMail PROVE Good(mail[y])'
      BY DEF AllGood
    <3>2. mail'[y] = mail[y] /\ Good(mail[y])
      BY <2>1, <3>1 DEF Inv, AllGood
    <3> QED
      BY <2>1, <3>2, GoodNext
  <2>4. NobodyForgotten'
    BY <2>1 DEF Inv, NobodyForgotten, Delivered
  <2> QED
    BY <2>2, <2>3, <2>4 DEF Inv
<1> QED
  BY <1>1, <1>2, <1>3, <1>4, <1>5, <1>6 DEF Next, System

LEMMA Invariant == Spec => []Inv
  BY Initial, Step, PTL DEF Spec
-----------------------------------------------------------------------------
(* The theorems.                                                           *)

\* The mail and its copies are mails at all times, and the mail is there:
\* recipients with their keys, the recipients of Outlook and the keys the mail
\* is encrypted and signed with are what these fields may hold.
THEOREM TypeCorrect == Spec => []TypeOK
  BY Invariant, PTL DEF Inv

\* splitCopyMailCallback, RemoveRecipient and SetRecipients: however the
\* addresses of a mail are spread over recipients and lists, and however often
\* it is split, cancelled and edited, the mail and its copies together go to
\* whom the user sent it.
THEOREM NobodyForgottenAlways == Spec => []NobodyForgotten
  BY Invariant, PTL DEF Inv

\* updateOOMData_o and resolve_keys: the keys of a sent mail are the keys of
\* the recipients that Outlook has of it, and of its sender, for all recipients,
\* lists in lists, keys and options.
THEOREM ReadableAlways == Spec => []ReadableByRecipients
<1>1. Inv => ReadableByRecipients
  <2> SUFFICES ASSUME Inv, NEW x \in Mails, mail[x].state = "sent", mail[x].encrypt
               PROVE  { Owner(k) : k \in mail[x].to } = Addresses(mail[x].oom) \cup {mail[x].sender}
    BY DEF ReadableByRecipients, Sent
  <2>1. mail[x] # NoMail
    BY DEF NoMail
  <2> QED
    BY <2>1 DEF Inv, AllGood, Good, Readable
<1> QED
  BY <1>1, Invariant, PTL

\* resolve_through_protocol and the fallbacks of resolve_keys_cached: the keys
\* of a sent mail are of one protocol, and the sender's key of that protocol
\* signs it unless the user chose the keys.
THEOREM OneProtocolAlways == Spec => []OneProtocol
<1>1. Inv => OneProtocol
  <2> SUFFICES ASSUME Inv, NEW x \in Mails, mail[x].state = "sent", mail[x].encrypt
               PROVE  /\ \A k \in mail[x].to : Proto(k) = mail[x].proto
                      /\ mail[x].sign /\ ~mail[x].asked => mail[x].by = {<<mail[x].sender, mail[x].proto>>}
    BY DEF OneProtocol, Sent
  <2>1. mail[x] # NoMail
    BY DEF NoMail
  <2> QED
    BY <2>1 DEF Inv, AllGood, Good, OneProto
<1> QED
  BY <1>1, Invariant, PTL
=============================================================================
