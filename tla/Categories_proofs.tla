-------------------------- MODULE Categories_proofs --------------------------
(***************************************************************************)
(* Theorems about Verdict and Categories, for any mails, signatures and    *)
(* categories the mails were stored with.                                  *)
(***************************************************************************)
EXTENDS Categories, FiniteSetTheorems, TLAPS

(***************************************************************************)
(* The first and the last place with a property, and bags.                 *)
(***************************************************************************)
LEMMA MinIn ==
  ASSUME NEW I \in SUBSET Nat, I # {}
  PROVE  Min(I) \in I /\ \A j \in I : Min(I) =< j
<1> DEFINE T == {0..i : i \in I}
<1>1. T \subseteq FiniteSubsetsOf(Nat) /\ T # {}
  <2>1. ASSUME NEW i \in I PROVE 0..i \in FiniteSubsetsOf(Nat)
    <3>1. i \in Int /\ 0 \in Int /\ 0..i \in SUBSET Nat
      OBVIOUS
    <3>2. IsFiniteSet(0..i)
      BY <3>1, FS_Interval
    <3> QED BY <3>1, <3>2 DEF FiniteSubsetsOf
  <2> QED BY <2>1
<1>2. PICK t \in T : \A u \in T : <<u, t>> \notin StrictSubsetOrdering(Nat)
  <2> HIDE DEF T
  <2>1. IsWellFoundedOn(StrictSubsetOrdering(Nat), FiniteSubsetsOf(Nat))
    BY FS_StrictSubsetOrderingWellFounded
  <2>2. \E t \in T : \A u \in T : ~(<<u, t>> \in StrictSubsetOrdering(Nat))
    BY <1>1, <2>1, WFMin, Zenon
  <2> QED BY <2>2
<1>3. PICK i \in I : t = 0..i
  BY <1>2
<1>4. \A j \in I : i =< j
  <2> SUFFICES ASSUME NEW j \in I, j < i PROVE FALSE
    OBVIOUS
  <2>1. 0..j \in T
    OBVIOUS
  <2>2. 0..j \subseteq 0..i /\ i \in 0..i /\ i \notin 0..j
    OBVIOUS
  <2>3. <<0..j, t>> \in StrictSubsetOrdering(Nat)
    BY <2>2, <1>3 DEF StrictSubsetOrdering
  <2> QED BY <1>2, <2>1, <2>3
<1> QED BY <1>4 DEF Min

LEMMA MaxIn ==
  ASSUME NEW n \in Nat, NEW I \in SUBSET (1..n), I # {}
  PROVE  Max(I) \in I /\ \A j \in I : Max(I) >= j
<1> DEFINE J == {n - i : i \in I}
<1>1. J \in SUBSET Nat /\ J # {}
  <2>1. \A i \in I : n - i \in Nat
    OBVIOUS
  <2> QED BY <2>1
<1>2. Min(J) \in J /\ \A j \in J : Min(J) =< j
  <2> HIDE DEF J
  <2> QED BY <1>1, MinIn
<1>3. PICK i \in I : Min(J) = n - i
  BY <1>2
<1>4. \A j \in I : i >= j
  <2> TAKE j \in I
  <2>1. n - i =< n - j
    BY <1>2, <1>3
  <2> HIDE DEF J
  <2> QED BY <2>1
<1> QED BY <1>4 DEF Max

CopiesOf(e, B) == IF BagIn(e, B) THEN B[e] ELSE 0

LEMMA AddCopies ==
  ASSUME NEW B, IsABag(B), NEW x
  PROVE  /\ IsABag((B (+) SetToBag({x}))) /\ DOMAIN (B (+) SetToBag({x})) = DOMAIN B \cup {x}
         /\ \A e : CopiesOf(e, (B (+) SetToBag({x}))) = CopiesOf(e, B) + IF e = x THEN 1 ELSE 0
BY DEF IsABag, (+), SetToBag, CopiesOf, BagIn, BagToSet

LEMMA RemoveCopies ==
  ASSUME NEW B, IsABag(B), NEW x
  PROVE  /\ IsABag((B (-) SetToBag({x})))
         /\ DOMAIN (B (-) SetToBag({x})) = IF CopiesOf(x, B) = 1 THEN DOMAIN B \ {x} ELSE DOMAIN B
         /\ \A e : CopiesOf(e, (B (-) SetToBag({x}))) =
                     IF e = x /\ CopiesOf(x, B) # 0 THEN CopiesOf(x, B) - 1 ELSE CopiesOf(e, B)
BY DEF IsABag, (-), SetToBag, CopiesOf, BagIn, BagToSet

LEMMA Names == /\ \A l, a : LevelOf(l, a) # Enc /\ LevelOf(l, a) # Junk /\ LevelOf(l, a) # User
                            /\ LevelOf(l, a) # NoCat
               /\ Enc # Junk /\ Enc # User /\ Junk # User
               /\ Enc # NoCat /\ Junk # NoCat /\ User # NoCat
BY DEF LevelOf, Enc, Junk, User, NoCat

-----------------------------------------------------------------------------
(***************************************************************************)
(* The verdict. UpdateSigstate finds a signature that is trusted, and that *)
(* signature with the user id of the sender is what the mail keeps.        *)
(***************************************************************************)
Senders  == [sender : Addresses \cup {Null}, behalf : Addresses \cup {Null}]
Verdicts == [dec : BOOLEAN, verify : {Null, "done", "error"}, sigs : Seq(Signatures), signed : BOOLEAN,
             valid : BOOLEAN, uid : Uids, sig : Signatures]

TrustedAt(v, from) == {i \in 1..Len(v.sigs) : Trusted(v.sigs[i], SenderUid(v.sigs[i], from))}
FirstTrusted(v, from) ==
  [v EXCEPT !.signed = TRUE, !.valid = TRUE, !.sig = v.sigs[Min(TrustedAt(v, from))],
            !.uid = SenderUid(v.sigs[Min(TrustedAt(v, from))], from)]
NoneTrusted(v, from) ==
  [v EXCEPT !.signed = @ \/ Len(v.sigs) > 0,
            !.sig = IF Len(v.sigs) = 0 THEN NoSig ELSE v.sigs[1],
            !.uid = IF Len(v.sigs) = 0 THEN @ ELSE SenderUid(v.sigs[Len(v.sigs)], from)]

LEMMA SigstateCases ==
  ASSUME NEW v \in Verdicts, NEW from \in Senders
  PROVE  UpdateSigstate(v, from) = IF from.sender = Null \/ v.verify # "done" THEN v
                                   ELSE IF TrustedAt(v, from) # {} THEN FirstTrusted(v, from)
                                   ELSE NoneTrusted(v, from)
<1> DEFINE I == TrustedAt(v, from)
           first == IF I # {} THEN Min(I) ELSE 0
<1>1. UpdateSigstate(v, from) =
        IF from.sender = Null \/ v.verify # "done" THEN v
        ELSE IF first # 0
             THEN [v EXCEPT !.signed = TRUE, !.valid = TRUE, !.sig = v.sigs[first],
                            !.uid = SenderUid(v.sigs[first], from)]
             ELSE NoneTrusted(v, from)
  BY DEF UpdateSigstate, SelectInSeq, TrustedAt, NoneTrusted
<1>2. I \in SUBSET Nat /\ 0 \notin I
  BY DEF TrustedAt
<1>3. I # {} => Min(I) # 0
  <2> HIDE DEF I
  <2> QED BY <1>2, MinIn
<1> HIDE DEF I
<1>4. CASE I # {}
  BY <1>1, <1>3, <1>4 DEF FirstTrusted, I
<1>5. CASE I = {}
  BY <1>1, <1>5 DEF I
<1> QED BY <1>4, <1>5

LEMMA UidFound ==
  ASSUME NEW sig \in Signatures, NEW addr
  PROVE  /\ UidFor(sig, addr) \in Uids
         /\ UidFor(sig, addr) # NoUid
              => \E i \in DOMAIN sig.uids : /\ sig.uids[i] = UidFor(sig, addr)
                                            /\ sig.uids[i].addr = addr
<1> DEFINE I == {i \in 1..Len(sig.uids) : sig.uids[i].addr = addr}
           last == IF I # {} THEN Max(I) ELSE 0
<1>0. sig.uids \in Seq(Uids)
  BY DEF Signatures
<1>1. sig.uids \in Seq(Uids) /\ Len(sig.uids) \in Nat /\ DOMAIN sig.uids = 1..Len(sig.uids)
  BY <1>0
<1>2. UidFor(sig, addr) = IF last = 0 THEN NoUid ELSE sig.uids[last]
  BY DEF UidFor, SelectLastInSeq
<1>3. I \in SUBSET (1..Len(sig.uids))
  OBVIOUS
<1>4. I # {} => Max(I) \in I
  <2> HIDE DEF I
  <2> QED BY <1>1, <1>3, MaxIn
<1>5. NoUid \in Uids
  BY DEF NoUid, Uids, Validities
<1>6. CASE I = {}
  BY <1>2, <1>5, <1>6
<1>7. CASE I # {}
  <2>1. Max(I) \in 1..Len(sig.uids) /\ sig.uids[Max(I)].addr = addr /\ Max(I) # 0
    BY <1>1, <1>4, <1>7
  <2> HIDE DEF I
  <2>2. sig.uids[Max(I)] \in Uids
    BY <1>1, <2>1
  <2> QED BY <1>1, <1>2, <1>7, <2>1, <2>2
<1> QED BY <1>6, <1>7

LEMMA SenderFound ==
  ASSUME NEW sig \in Signatures, NEW from \in Senders
  PROVE  /\ SenderUid(sig, from) \in Uids
         /\ SenderUid(sig, from) # NoUid
              => \E i \in DOMAIN sig.uids : /\ sig.uids[i] = SenderUid(sig, from)
                                            /\ sig.uids[i].addr \in {from.sender, from.behalf}
BY UidFound DEF SenderUid

\* What a verdict rests on: one signature of the mail, and the sender's uid of
\* that signature
Earned(v, from) ==
  /\ from.sender # Null /\ v.signed /\ v.verify = "done"
  /\ v.uid = SenderUid(v.sig, from) /\ Trusted(v.sig, v.uid)
  /\ \E i \in DOMAIN v.sigs : v.sig = v.sigs[i]

LEMMA NobodyTrusted ==
  ASSUME NEW sig \in Signatures, Trusted(sig, NoUid)
  PROVE  FALSE
BY DEF Trusted, NoUid

LEMMA SigstateType ==
  ASSUME NEW v \in Verdicts, NEW from \in Senders
  PROVE  /\ UpdateSigstate(v, from) \in Verdicts
         /\ UpdateSigstate(v, from).dec = v.dec /\ UpdateSigstate(v, from).sigs = v.sigs
         /\ UpdateSigstate(v, from).verify = v.verify
         /\ UpdateSigstate(v, from).valid => v.valid \/ Earned(UpdateSigstate(v, from), from)
<1>1. v.sigs \in Seq(Signatures) /\ Len(v.sigs) \in Nat /\ DOMAIN v.sigs = 1..Len(v.sigs)
  BY DEF Verdicts
<1>2. \A i \in 1..Len(v.sigs) : v.sigs[i] \in Signatures /\ SenderUid(v.sigs[i], from) \in Uids
  BY <1>1, SenderFound
<1>3. CASE from.sender = Null \/ v.verify # "done"
  BY <1>3, SigstateCases
<1>4. CASE ~(from.sender = Null \/ v.verify # "done") /\ TrustedAt(v, from) # {}
  <2> DEFINE i == Min(TrustedAt(v, from))
             x == FirstTrusted(v, from)
  <2>1. i \in 1..Len(v.sigs) /\ Trusted(v.sigs[i], SenderUid(v.sigs[i], from))
    <3>1. TrustedAt(v, from) \in SUBSET Nat
      BY <1>1 DEF TrustedAt
    <3>2. i \in TrustedAt(v, from)
      BY <1>4, <3>1, MinIn
    <3> QED BY <3>2 DEF TrustedAt
  <2>2. v.sigs[i] \in Signatures /\ SenderUid(v.sigs[i], from) \in Uids
    BY <1>2, <2>1
  <2> HIDE DEF i
  <2>3. x = [v EXCEPT !.signed = TRUE, !.valid = TRUE, !.sig = v.sigs[i],
                      !.uid = SenderUid(v.sigs[i], from)]
    BY DEF FirstTrusted, i
  <2>4. /\ x \in Verdicts /\ x.dec = v.dec /\ x.sigs = v.sigs /\ x.verify = v.verify
        /\ x.sig = v.sigs[i] /\ x.uid = SenderUid(v.sigs[i], from) /\ x.signed
    BY <2>2, <2>3 DEF Verdicts
  <2>5. Earned(x, from)
    BY <1>1, <1>4, <2>1, <2>4 DEF Earned
  <2>6. UpdateSigstate(v, from) = x
    BY <1>4, SigstateCases
  <2> HIDE DEF x
  <2> QED BY <2>4, <2>5, <2>6
<1>5. CASE ~(from.sender = Null \/ v.verify # "done") /\ TrustedAt(v, from) = {}
  <2>1. NoSig \in Signatures
    <3>1. <<>> \in Seq(Uids)
      OBVIOUS
    <3> QED BY <3>1 DEF NoSig, Signatures, Validities
  <2>2. Len(v.sigs) # 0 => /\ v.sigs[1] \in Signatures
                           /\ SenderUid(v.sigs[Len(v.sigs)], from) \in Uids
    BY <1>1, <1>2
  <2>3. UpdateSigstate(v, from) = NoneTrusted(v, from)
    BY <1>5, SigstateCases
  <2> DEFINE a == IF Len(v.sigs) = 0 THEN NoSig ELSE v.sigs[1]
             b == IF Len(v.sigs) = 0 THEN v.uid ELSE SenderUid(v.sigs[Len(v.sigs)], from)
             c == v.signed \/ Len(v.sigs) > 0
  <2>4. a \in Signatures /\ b \in Uids /\ c \in BOOLEAN
    BY <2>1, <2>2 DEF Verdicts
  <2>5. NoneTrusted(v, from) = [v EXCEPT !.signed = c, !.sig = a, !.uid = b]
    BY DEF NoneTrusted
  <2> HIDE DEF a, b, c
  <2> DEFINE x == [v EXCEPT !.signed = c, !.sig = a, !.uid = b]
  <2>6. /\ x \in Verdicts /\ x.dec = v.dec /\ x.sigs = v.sigs /\ x.verify = v.verify
        /\ x.valid = v.valid
    BY <2>4 DEF Verdicts
  <2> HIDE DEF x
  <2> QED BY <2>3, <2>5, <2>6 DEF x
<1> QED BY <1>3, <1>4, <1>5

\* A second look finds the same.
LEMMA SigstateTwice ==
  ASSUME NEW v \in Verdicts, NEW from \in Senders
  PROVE  UpdateSigstate(UpdateSigstate(v, from), from) = UpdateSigstate(v, from)
<1> DEFINE x == UpdateSigstate(v, from)
<1>1. x \in Verdicts /\ x.sigs = v.sigs /\ x.verify = v.verify
  BY SigstateType
<1>2. TrustedAt(x, from) = TrustedAt(v, from)
  BY <1>1 DEF TrustedAt
<1>3. CASE from.sender = Null \/ v.verify # "done"
  BY <1>1, <1>3, SigstateCases
<1>4. CASE ~(from.sender = Null \/ v.verify # "done") /\ TrustedAt(v, from) # {}
  <2>1. x = FirstTrusted(v, from)
    BY <1>4, SigstateCases
  <2>2. UpdateSigstate(x, from) = FirstTrusted(x, from)
    BY <1>1, <1>2, <1>4, SigstateCases
  <2> HIDE DEF x
  <2>3. FirstTrusted(x, from) = FirstTrusted(v, from)
    BY <1>1, <1>2, <2>1 DEF FirstTrusted, Verdicts
  <2> QED BY <2>1, <2>2, <2>3 DEF x
<1>5. CASE ~(from.sender = Null \/ v.verify # "done") /\ TrustedAt(v, from) = {}
  <2>1. x = NoneTrusted(v, from)
    BY <1>5, SigstateCases
  <2>2. UpdateSigstate(x, from) = NoneTrusted(x, from)
    BY <1>1, <1>2, <1>5, SigstateCases
  <2> HIDE DEF x
  <2>3. NoneTrusted(x, from) = NoneTrusted(v, from)
    BY <1>1, <2>1 DEF NoneTrusted, Verdicts
  <2> QED BY <2>1, <2>2, <2>3 DEF x
<1> QED BY <1>3, <1>4, <1>5

\* The level of a verdict: at least 2 for the valid ones only
LEMMA LevelOfVerdict ==
  ASSUME NEW v \in Verdicts, NEW from \in Senders, v.valid => Earned(v, from)
  PROVE  /\ Level(v) \in 0..4
         /\ v.valid <=> Level(v) >= 2
         /\ v.valid <=> Summary(v)[1] \in {"Security", "Trust"}
<1>1. v.valid => v.signed /\ v.uid # NoUid
  BY NobodyTrusted DEF Earned, Verdicts
<1>2. Level(v) \in 0..4 /\ (v.valid <=> Level(v) >= 2)
  BY <1>1 DEF Level, Verdicts
<1>3. Summary(v)[1] \in {"Security", "Trust"} <=> Level(v) >= 2
  BY <1>2 DEF Summary
<1> QED BY <1>2, <1>3
-----------------------------------------------------------------------------
(***************************************************************************)
(* The handlers work on a state of one mail and of its store's lists. A    *)
(* mail uses the categories that removeCategories_o would unregister.      *)
(***************************************************************************)
Levels   == {LevelOf(l, a) : l \in 0..4, a \in Addresses \cup {Null}}
AllCats  == (UNION Leftovers) \cup {Enc, Junk} \cup Levels
Objects  == [phase : {"none", "reading", "preview", "shown", "junk", "closed"},
             item : SUBSET AllCats, was : SUBSET AllCats, print : BOOLEAN, junk : BOOLEAN,
             store : Stores \cup {Null}, cat : Levels \cup {NoCat}, v : Verdicts]
SomeBags == UNION {[S -> {n \in Nat : n > 0}] : S \in SUBSET AllCats}
States   == {w \in [mail : Objects, refs : SomeBags, listed : SUBSET AllCats] :
               DOMAIN w.refs \subseteq w.listed}

Uses(mm, c) == /\ mm.store # Null
               /\ \/ c = mm.cat /\ c # NoCat
                  \/ c = Enc /\ mm.v.dec
                  \/ c = Junk /\ mm.junk
Used(mm, c) == IF Uses(mm, c) THEN 1 ELSE 0

\* From w to x no other user of a category loses its copy.
FairTo(w, x) ==
  \A c : CopiesOf(c, x.refs) - Used(x.mail, c) >= CopiesOf(c, w.refs) - Used(w.mail, c)

LEMMA BagType ==
  ASSUME NEW B
  PROVE  B \in SomeBags <=> IsABag(B) /\ DOMAIN B \subseteq AllCats
<1>1. ASSUME B \in SomeBags PROVE IsABag(B) /\ DOMAIN B \subseteq AllCats
  <2>1. PICK S \in SUBSET AllCats : B \in [S -> {n \in Nat : n > 0}]
    BY <1>1 DEF SomeBags
  <2> QED BY <2>1 DEF IsABag
<1>2. ASSUME IsABag(B), DOMAIN B \subseteq AllCats PROVE B \in SomeBags
  BY <1>2 DEF SomeBags, IsABag
<1> QED BY <1>1, <1>2

LEMMA Copies ==
  ASSUME NEW B \in SomeBags, NEW c
  PROVE  /\ CopiesOf(c, B) \in Nat
         /\ CopiesOf(c, B) # 0 <=> c \in DOMAIN B
BY DEF SomeBags, CopiesOf, BagIn, BagToSet

LEMMA AddFields ==
  ASSUME NEW w \in States, NEW c \in AllCats
  PROVE  /\ AddCategory(w, c) \in States
         /\ AddCategory(w, c).mail = [w.mail EXCEPT !.item = @ \cup {c}]
         /\ \A e : CopiesOf(e, AddCategory(w, c).refs)
                     = CopiesOf(e, w.refs) + IF e = c THEN 1 ELSE 0
<1> DEFINE mm == [w.mail EXCEPT !.item = @ \cup {c}]
           B  == w.refs (+) SetToBag({c})
           l  == IF BagIn(c, w.refs) THEN w.listed ELSE w.listed \cup {c}
<1>1. w \in [mail : Objects, refs : SomeBags, listed : SUBSET AllCats]
  BY DEF States
<1> DEFINE one == IF BagIn(c, w.refs) THEN w ELSE create_category(w, c)
           two == [mail |-> w.mail, refs |-> B, listed |-> l]
<1>2. AddCategory(w, c) = [mail |-> mm, refs |-> B, listed |-> l]
  <2>1. one = [mail |-> w.mail, refs |-> w.refs, listed |-> l]
    BY <1>1 DEF create_category
  <2>2. registerCategory(one, c) = two
    <3> HIDE DEF one, l
    <3> QED BY <2>1 DEF registerCategory
  <2>3. AddCategory(w, c) = add_category(two, c)
    BY <2>2 DEF AddCategory
  <2>4. add_category(two, c) = [mail |-> mm, refs |-> B, listed |-> l]
    <3> HIDE DEF B, l
    <3> QED BY DEF add_category
  <2> QED BY <2>3, <2>4
<1>3. mm \in Objects
  BY <1>1 DEF Objects
<1>4. /\ IsABag(B) /\ DOMAIN B = DOMAIN w.refs \cup {c}
      /\ \A e : CopiesOf(e, B) = CopiesOf(e, w.refs) + IF e = c THEN 1 ELSE 0
  BY <1>1, BagType, AddCopies
<1>5. B \in SomeBags
  BY <1>1, <1>4, BagType
<1>6. l \in SUBSET AllCats /\ DOMAIN B \subseteq l
  BY <1>1, <1>4 DEF BagIn, BagToSet, States
<1> HIDE DEF mm, B, l
<1>7. [mail |-> mm, refs |-> B, listed |-> l] \in States
  BY <1>3, <1>5, <1>6 DEF States
<1> QED BY <1>2, <1>4, <1>7 DEF mm

LEMMA RemoveFields ==
  ASSUME NEW w \in States, NEW c, w.mail.store # Null
  PROVE  /\ RemoveCategory(w, c) \in States
         /\ RemoveCategory(w, c).mail = [w.mail EXCEPT !.item = @ \ {c}]
         /\ \A e : CopiesOf(e, RemoveCategory(w, c).refs)
                     = IF e = c /\ CopiesOf(c, w.refs) # 0 THEN CopiesOf(c, w.refs) - 1
                       ELSE CopiesOf(e, w.refs)
<1> DEFINE mm == [w.mail EXCEPT !.item = @ \ {c}]
           B  == w.refs (-) SetToBag({c})
           l  == IF BagIn(c, w.refs) /\ w.refs[c] = 1 THEN w.listed \ {c} ELSE w.listed
<1>1. w \in [mail : Objects, refs : SomeBags, listed : SUBSET AllCats]
  BY DEF States
<1> DEFINE one == [mail |-> mm, refs |-> w.refs, listed |-> w.listed]
<1>2. RemoveCategory(w, c) = [mail |-> mm, refs |-> B, listed |-> l]
  <2>1. remove_category(w, c) = one
    BY <1>1 DEF remove_category
  <2>2. RemoveCategory(w, c) = unregisterCategory(one, c)
    BY <2>1 DEF RemoveCategory
  <2>3. unregisterCategory(one, c) = [mail |-> mm, refs |-> B, listed |-> l]
    <3> HIDE DEF mm
    <3> QED BY DEF unregisterCategory, delete_category
  <2> QED BY <2>2, <2>3
<1>3. mm \in Objects
  BY <1>1 DEF Objects
<1>4. /\ IsABag(B)
      /\ DOMAIN B = IF CopiesOf(c, w.refs) = 1 THEN DOMAIN w.refs \ {c} ELSE DOMAIN w.refs
      /\ \A e : CopiesOf(e, B) = IF e = c /\ CopiesOf(c, w.refs) # 0
                                 THEN CopiesOf(c, w.refs) - 1 ELSE CopiesOf(e, w.refs)
  BY <1>1, BagType, RemoveCopies
<1>5. B \in SomeBags
  BY <1>1, <1>4, BagType
<1>6. l \in SUBSET AllCats /\ DOMAIN B \subseteq l
  BY <1>1, <1>4 DEF BagIn, BagToSet, CopiesOf, States
<1> HIDE DEF mm, B, l
<1>7. [mail |-> mm, refs |-> B, listed |-> l] \in States
  BY <1>3, <1>5, <1>6 DEF States
<1> QED BY <1>2, <1>4, <1>7 DEF mm

RemovedIf(g, w, c) == IF g THEN RemoveCategory(w, c) ELSE w

LEMMA RemoveIf ==
  ASSUME NEW w \in States, NEW c, NEW g \in BOOLEAN
  PROVE  /\ RemovedIf(g, w, c) \in States
         /\ RemovedIf(g, w, c).mail = [w.mail EXCEPT !.item = w.mail.item \ IF g THEN {c} ELSE {}]
         /\ \A e : CopiesOf(e, RemovedIf(g, w, c).refs)
                     >= CopiesOf(e, w.refs) - IF g /\ w.mail.store # Null /\ e = c THEN 1 ELSE 0
<1> DEFINE x == RemovedIf(g, w, c)
<1>0. x = IF g THEN RemoveCategory(w, c) ELSE w
  BY DEF RemovedIf
<1> HIDE DEF x
<1>1. /\ w \in [mail : Objects, refs : SomeBags, listed : SUBSET AllCats]
      /\ DOMAIN w.refs \subseteq w.listed /\ \A e : CopiesOf(e, w.refs) \in Nat
  BY Copies DEF States
<1>2. CASE ~g
  <2>1. w.mail = [w.mail EXCEPT !.item = @ \ {}]
    BY <1>1 DEF Objects
  <2> QED BY <1>0, <1>1, <1>2, <2>1 DEF x
<1>3. CASE g /\ w.mail.store # Null
  BY <1>0, <1>1, <1>3, RemoveFields DEF x
<1>4. CASE g /\ w.mail.store = Null
  <2> DEFINE mm == [w.mail EXCEPT !.item = @ \ {c}]
  <2>1. x = [mail |-> mm, refs |-> w.refs, listed |-> w.listed]
    BY <1>0, <1>1, <1>4 DEF RemoveCategory, remove_category
  <2>2. mm \in Objects
    BY <1>1 DEF Objects
  <2>3. x \in States /\ x.mail = mm /\ x.refs = w.refs
    <3> HIDE DEF mm
    <3> QED BY <1>1, <2>1, <2>2 DEF States
  <2>4. \A e : CopiesOf(e, x.refs)
                 >= CopiesOf(e, w.refs) - IF g /\ w.mail.store # Null /\ e = c THEN 1 ELSE 0
    BY <1>1, <1>4, <2>3
  <2>5. x.mail = [w.mail EXCEPT !.item = w.mail.item \ IF g THEN {c} ELSE {}]
    BY <1>4, <2>3
  <2> QED BY <2>3, <2>4, <2>5 DEF x
<1> QED BY <1>2, <1>3, <1>4 DEF x

\* What is left when the categories of a mail are removed.
LEMMA Removed ==
  ASSUME NEW w \in States
  PROVE  /\ RemoveCategories(w) \in States
         /\ \E keep \in SUBSET w.mail.item :
              /\ RemoveCategories(w).mail = [w.mail EXCEPT !.item = keep]
              /\ User \in w.mail.item => User \in keep
              /\ \A c \in keep : ~Uses(w.mail, c)
         /\ \A c : CopiesOf(c, RemoveCategories(w).refs) >= CopiesOf(c, w.refs) - Used(w.mail, c)
<1> DEFINE known == w.mail.store # Null
           g1 == known /\ w.mail.cat # NoCat
           g2 == known /\ w.mail.v.dec
           one == RemovedIf(g1, w, w.mail.cat)
           two == RemovedIf(g2, one, Enc)
           x == RemovedIf(w.mail.junk, two, Junk)
           it1 == w.mail.item \ IF g1 THEN {w.mail.cat} ELSE {}
           it2 == it1 \ IF g2 THEN {Enc} ELSE {}
           it3 == it2 \ IF w.mail.junk THEN {Junk} ELSE {}
<1>1. w.mail \in Objects /\ w.mail.junk \in BOOLEAN /\ w.mail.v.dec \in BOOLEAN
  BY DEF States, Objects, Verdicts
<1>2. RemoveCategories(w) = x
  BY DEF RemoveCategories, RemovedIf
<1>3. g1 \in BOOLEAN /\ g2 \in BOOLEAN
  BY <1>1
<1>4. /\ one \in States /\ one.mail = [w.mail EXCEPT !.item = it1]
      /\ \A e : CopiesOf(e, one.refs)
                  >= CopiesOf(e, w.refs) - IF g1 /\ w.mail.store # Null /\ e = w.mail.cat THEN 1 ELSE 0
  <2> HIDE DEF g1
  <2> QED BY <1>3, RemoveIf
<1>5. one.mail.store = w.mail.store /\ one.mail.item = it1
  BY <1>1, <1>4 DEF Objects
<1>6. /\ two \in States /\ two.mail = [one.mail EXCEPT !.item = one.mail.item \ IF g2 THEN {Enc} ELSE {}]
      /\ \A e : CopiesOf(e, two.refs)
                  >= CopiesOf(e, one.refs) - IF g2 /\ one.mail.store # Null /\ e = Enc THEN 1 ELSE 0
  <2> HIDE DEF g2, one
  <2> QED BY <1>3, <1>4, RemoveIf
<1>7. two.mail = [w.mail EXCEPT !.item = it2] /\ two.mail.store = w.mail.store /\ two.mail.item = it2
  <2>1. one.mail = [w.mail EXCEPT !.item = it1]
    BY <1>4
  <2>2. w.mail \in Objects
    BY <1>1
  <2> HIDE DEF one, two, it1, it2
  <2>3. two.mail = [one.mail EXCEPT !.item = it2]
    BY <1>5, <1>6 DEF it2
  <2> QED BY <1>5, <2>1, <2>2, <2>3 DEF Objects
<1>8. /\ x \in States
      /\ x.mail = [two.mail EXCEPT !.item = two.mail.item \ IF w.mail.junk THEN {Junk} ELSE {}]
      /\ \A e : CopiesOf(e, x.refs)
                  >= CopiesOf(e, two.refs)
                       - IF w.mail.junk /\ two.mail.store # Null /\ e = Junk THEN 1 ELSE 0
  <2>1. two \in States /\ w.mail.junk \in BOOLEAN
    BY <1>1, <1>6
  <2> HIDE DEF one, two, g2
  <2> QED BY <2>1, RemoveIf
<1>9. x.mail = [w.mail EXCEPT !.item = it3]
  <2> HIDE DEF two, x, it2
  <2> QED BY <1>1, <1>7, <1>8 DEF Objects
<1>10. /\ it3 \in SUBSET w.mail.item /\ (User \in w.mail.item => User \in it3)
       /\ \A c \in it3 : ~Uses(w.mail, c)
  <2>1. w.mail.cat # User /\ User # Enc /\ User # Junk
    BY <1>1, Names DEF Objects, Levels
  <2>2. User \in w.mail.item => User \in it3
    BY <2>1
  <2>3. ASSUME NEW c \in it3 PROVE ~Uses(w.mail, c)
    BY DEF Uses
  <2>4. it3 \in SUBSET w.mail.item
    BY <1>1
  <2> QED BY <2>2, <2>3, <2>4
<1>11. \A c : CopiesOf(c, x.refs) >= CopiesOf(c, w.refs) - Used(w.mail, c)
  <2> TAKE c
  <2>1. /\ CopiesOf(c, w.refs) \in Nat /\ CopiesOf(c, one.refs) \in Nat
        /\ CopiesOf(c, two.refs) \in Nat /\ CopiesOf(c, x.refs) \in Nat
    <3> HIDE DEF one, two, x
    <3>1. \A z \in States : CopiesOf(c, z.refs) \in Nat
      BY Copies DEF States
    <3> QED BY <1>4, <1>6, <1>8, <3>1
  <2>2. ~(c = w.mail.cat /\ c = Enc) /\ ~(c = w.mail.cat /\ c = Junk) /\ ~(c = Enc /\ c = Junk)
    BY <1>1, Names DEF Objects, Levels
  <2>3. Used(w.mail, c) = IF \/ g1 /\ c = w.mail.cat
                             \/ g2 /\ c = Enc
                             \/ w.mail.junk /\ known /\ c = Junk THEN 1 ELSE 0
    <3>1. Uses(w.mail, c) <=> \/ g1 /\ c = w.mail.cat
                              \/ g2 /\ c = Enc
                              \/ w.mail.junk /\ known /\ c = Junk
      BY DEF Uses
    <3> HIDE DEF g1, g2, known
    <3> QED BY <3>1 DEF Used
  <2> HIDE DEF one, two, x, known, g1, g2
  <2>4. CopiesOf(c, one.refs) >= CopiesOf(c, w.refs) - IF g1 /\ c = w.mail.cat THEN 1 ELSE 0
    BY <1>4, <2>1 DEF g1, known
  <2>5. CopiesOf(c, two.refs) >= CopiesOf(c, one.refs) - IF g2 /\ c = Enc THEN 1 ELSE 0
    BY <1>5, <1>6, <2>1 DEF g2, known
  <2>6. CopiesOf(c, x.refs)
          >= CopiesOf(c, two.refs) - IF w.mail.junk /\ known /\ c = Junk THEN 1 ELSE 0
    BY <1>7, <1>8, <2>1 DEF known
  <2> QED BY <2>1, <2>2, <2>3, <2>4, <2>5, <2>6
<1> QED BY <1>2, <1>8, <1>9, <1>10, <1>11

\* What updateCategories_o shows of a verdict, and that it counts it.
Says(v) == LevelOf(Level(v), v.uid.addr)
Showing(mm) ==
  LET cats == IF mm.v.valid THEN mm.item \cup {Says(mm.v)} ELSE mm.item \ Ours(mm.item)
  IN IF mm.v.dec THEN cats \cup {Enc} ELSE cats \ {Enc}

LEMMA SaysLevel ==
  ASSUME NEW v \in Verdicts
  PROVE  Says(v) \in Levels
<1>1. Level(v) \in 0..4
  BY DEF Level
<1>2. v.uid.addr \in Addresses \cup {Null}
  BY DEF Verdicts, Uids
<1> QED BY <1>1, <1>2 DEF Says, Levels

LEMMA Updated ==
  ASSUME NEW w \in States, NEW m \in Mails, content[m].store \in Stores, ~w.mail.print
  PROVE  /\ UpdateCategories(w, m) \in States
         /\ UpdateCategories(w, m).mail
              = [w.mail EXCEPT !.item = Showing(w.mail),
                               !.store = IF w.mail.v.valid \/ w.mail.v.dec THEN content[m].store
                                         ELSE @,
                               !.cat = IF w.mail.v.valid THEN Says(w.mail.v) ELSE @]
         /\ \A e : CopiesOf(e, UpdateCategories(w, m).refs)
                     >= CopiesOf(e, w.refs)
                          + IF \/ w.mail.v.valid /\ e = Says(w.mail.v)
                               \/ w.mail.v.dec /\ e = Enc THEN 1 ELSE 0
<1> DEFINE s == content[m].store
           L == Says(w.mail.v)
           level == IF w.mail.v.valid THEN ShowLevel(w, m) ELSE HideOurs(w)
           enc == IF w.mail.v.dec THEN [AddCategory(level, Enc) EXCEPT !.mail.store = s]
                  ELSE remove_category(level, Enc)
           cats == IF w.mail.v.valid THEN w.mail.item \cup {L} ELSE w.mail.item \ Ours(w.mail.item)
           mm1 == [w.mail EXCEPT !.item = cats, !.store = IF w.mail.v.valid THEN s ELSE @,
                                 !.cat = IF w.mail.v.valid THEN L ELSE @]
           mm2 == [mm1 EXCEPT !.item = IF w.mail.v.dec THEN cats \cup {Enc} ELSE cats \ {Enc},
                              !.store = IF w.mail.v.dec THEN s ELSE @]
<1>1. /\ w \in [mail : Objects, refs : SomeBags, listed : SUBSET AllCats]
      /\ DOMAIN w.refs \subseteq w.listed /\ \A e : CopiesOf(e, w.refs) \in Nat
  BY Copies DEF States
<1>2. L \in Levels /\ L \in AllCats /\ Enc \in AllCats /\ L # Enc
  <2>1. w.mail.v \in Verdicts
    BY <1>1 DEF Objects
  <2>2. L \in Levels
    BY <2>1, SaysLevel
  <2> HIDE DEF L
  <2>3. L \in AllCats /\ Enc \in AllCats
    BY <2>2 DEF AllCats
  <2>4. L # Enc
    BY <2>2, Names DEF Levels
  <2> QED BY <2>2, <2>3, <2>4
<1>3. UpdateCategories(w, m) = enc
  BY DEF UpdateCategories
<1>4. /\ level \in States /\ level.mail = mm1
      /\ \A e : CopiesOf(e, level.refs)
                  >= CopiesOf(e, w.refs) + IF w.mail.v.valid /\ e = L THEN 1 ELSE 0
  <2>1. CASE w.mail.v.valid
    <3> DEFINE a == AddCategory(w, L)
    <3>1. /\ a \in States /\ a.mail = [w.mail EXCEPT !.item = @ \cup {L}]
          /\ \A e : CopiesOf(e, a.refs) = CopiesOf(e, w.refs) + IF e = L THEN 1 ELSE 0
      <4> HIDE DEF L
      <4> QED BY <1>2, AddFields
    <3>2. level = [a EXCEPT !.mail.store = s, !.mail.cat = L]
      BY <2>1 DEF ShowLevel, Says
    <3> HIDE DEF a, L, s, level
    <3>3. a \in [mail : Objects, refs : SomeBags, listed : SUBSET AllCats]
      BY <3>1 DEF States
    <3> DEFINE am == [a.mail EXCEPT !.store = s, !.cat = L]
    <3>4. level = [mail |-> am, refs |-> a.refs, listed |-> a.listed]
      BY <3>2, <3>3 DEF Objects
    <3>5. am = mm1
      BY <1>1, <2>1, <3>1 DEF Objects
    <3>6. mm1 \in Objects
      BY <1>1, <1>2, <2>1 DEF Objects, s
    <3> HIDE DEF am, mm1
    <3>7. level \in States /\ level.mail = mm1 /\ level.refs = a.refs
      BY <3>1, <3>3, <3>4, <3>5, <3>6 DEF States
    <3>8. ASSUME NEW e
          PROVE  CopiesOf(e, level.refs)
                   >= CopiesOf(e, w.refs) + IF w.mail.v.valid /\ e = L THEN 1 ELSE 0
      BY <1>1, <2>1, <3>1, <3>7
    <3> QED BY <3>7, <3>8
  <2>2. CASE ~w.mail.v.valid
    <3> DEFINE am == [w.mail EXCEPT !.item = @ \ Ours(@)]
    <3>1. level = [mail |-> am, refs |-> w.refs, listed |-> w.listed]
      BY <1>1, <2>2 DEF HideOurs, remove_prefixed
    <3>2. am = mm1
      BY <1>1, <2>2 DEF Objects
    <3>3. mm1 \in Objects
      BY <1>1, <2>2 DEF Objects
    <3> HIDE DEF am, mm1, L, level
    <3>4. level \in States /\ level.mail = mm1 /\ level.refs = w.refs
      BY <1>1, <3>1, <3>2, <3>3 DEF States
    <3>5. ASSUME NEW e
          PROVE  CopiesOf(e, level.refs)
                   >= CopiesOf(e, w.refs) + IF w.mail.v.valid /\ e = L THEN 1 ELSE 0
      BY <1>1, <2>2, <3>4
    <3> QED BY <3>4, <3>5
  <2> QED BY <2>1, <2>2
<1>5. /\ enc \in States /\ enc.mail = mm2
      /\ \A e : CopiesOf(e, enc.refs)
                  >= CopiesOf(e, level.refs) + IF w.mail.v.dec /\ e = Enc THEN 1 ELSE 0
  <2> HIDE DEF level
  <2>0. /\ level \in [mail : Objects, refs : SomeBags, listed : SUBSET AllCats]
        /\ DOMAIN level.refs \subseteq level.listed /\ \A e : CopiesOf(e, level.refs) \in Nat
    BY <1>4, Copies DEF States
  <2>1. CASE w.mail.v.dec
    <3> DEFINE a == AddCategory(level, Enc)
    <3>1. /\ a \in States /\ a.mail = [level.mail EXCEPT !.item = @ \cup {Enc}]
          /\ \A e : CopiesOf(e, a.refs) = CopiesOf(e, level.refs) + IF e = Enc THEN 1 ELSE 0
      BY <1>2, <1>4, AddFields
    <3>2. enc = [a EXCEPT !.mail.store = s]
      BY <2>1
    <3> HIDE DEF a, L, s, enc, cats
    <3>3. a \in [mail : Objects, refs : SomeBags, listed : SUBSET AllCats]
      BY <3>1 DEF States
    <3> DEFINE am == [a.mail EXCEPT !.store = s]
    <3>4. enc = [mail |-> am, refs |-> a.refs, listed |-> a.listed]
      BY <3>2, <3>3 DEF Objects
    <3>5. mm1 \in Objects /\ mm1.item = cats
      BY <1>1, <1>4, <2>0 DEF Objects
    <3>6. am = mm2
      <4> HIDE DEF mm1
      <4> QED BY <1>4, <2>1, <3>1, <3>5 DEF Objects
    <3>7. mm2 \in Objects
      <4>1. s \in Stores /\ cats \in SUBSET AllCats
        BY <3>5 DEF s, Objects
      <4> HIDE DEF mm1
      <4> QED BY <1>2, <2>1, <3>5, <4>1 DEF Objects
    <3> HIDE DEF am, mm1, mm2
    <3>8. enc \in States /\ enc.mail = mm2 /\ enc.refs = a.refs
      BY <3>1, <3>3, <3>4, <3>6, <3>7 DEF States
    <3>9. ASSUME NEW e
          PROVE  CopiesOf(e, enc.refs)
                   >= CopiesOf(e, level.refs) + IF w.mail.v.dec /\ e = Enc THEN 1 ELSE 0
      BY <2>0, <2>1, <3>1, <3>8
    <3> QED BY <3>8, <3>9
  <2>2. CASE ~w.mail.v.dec
    <3> DEFINE am == [level.mail EXCEPT !.item = @ \ {Enc}]
    <3>1. enc = [mail |-> am, refs |-> level.refs, listed |-> level.listed]
      BY <2>0, <2>2 DEF remove_category
    <3> HIDE DEF enc, cats, L, s
    <3>2. mm1 \in Objects /\ mm1.item = cats
      BY <1>1, <1>4, <2>0 DEF Objects
    <3>3. am = mm2
      <4> HIDE DEF mm1
      <4> QED BY <1>4, <2>2, <3>2 DEF Objects
    <3>4. am \in Objects
      BY <2>0 DEF Objects
    <3> HIDE DEF am, mm1, mm2
    <3>5. enc \in States /\ enc.mail = mm2 /\ enc.refs = level.refs
      BY <2>0, <3>1, <3>3, <3>4 DEF States
    <3>6. ASSUME NEW e
          PROVE  CopiesOf(e, enc.refs)
                   >= CopiesOf(e, level.refs) + IF w.mail.v.dec /\ e = Enc THEN 1 ELSE 0
      BY <2>0, <2>2, <3>5
    <3> QED BY <3>5, <3>6
  <2> QED BY <2>1, <2>2
<1>6. mm2 = [w.mail EXCEPT !.item = Showing(w.mail),
                           !.store = IF w.mail.v.valid \/ w.mail.v.dec THEN s ELSE @,
                           !.cat = IF w.mail.v.valid THEN L ELSE @]
  <2> HIDE DEF L, s
  <2>1. Showing(w.mail) = IF w.mail.v.dec THEN cats \cup {Enc} ELSE cats \ {Enc}
    BY DEF Showing, L
  <2> HIDE DEF cats
  <2> QED BY <1>1, <2>1 DEF Objects
<1>7. ASSUME NEW e
      PROVE  CopiesOf(e, enc.refs)
               >= CopiesOf(e, w.refs)
                    + IF \/ w.mail.v.valid /\ e = L
                         \/ w.mail.v.dec /\ e = Enc THEN 1 ELSE 0
  <2> HIDE DEF enc, level, L
  <2>1. \A z \in States : CopiesOf(e, z.refs) \in Nat
    BY Copies DEF States
  <2> QED BY <1>2, <1>4, <1>5, <2>1
<1> HIDE DEF enc, mm2
<1> QED BY <1>3, <1>5, <1>6, <1>7

-----------------------------------------------------------------------------
(***************************************************************************)
(* A mail is sound when it knows nothing, or that it was decrypted, or the *)
(* final verdict of its content, and when what it shows beyond the         *)
(* categories it was read with is what it has counted. Results that change *)
(* from one parse to the next are ruled out: the verdict would keep what   *)
(* the earlier one left.                                                   *)
(***************************************************************************)
Pre(cc)   == [NoVerdict EXCEPT !.dec = cc.dec]
Base(cc)  == [NoVerdict EXCEPT !.dec = cc.dec, !.sigs = cc.sigs, !.verify = cc.verify]
Final(cc) == UpdateSigstate(Base(cc), cc.from)

Counts(mm, cc) ==
  /\ mm.v \in {NoVerdict, Pre(cc), Final(cc)}
  /\ mm.cat # NoCat
       => mm.store # Null /\ mm.v = Final(cc) /\ mm.v.valid /\ mm.cat = Says(Final(cc))
  /\ mm.store \in {Null, cc.store}
  /\ mm.junk => cc.junk
  /\ cc.junk => mm.v = NoVerdict
  /\ mm.print /\ mm.store # Null => cc.junk
Tells(mm) ==
  /\ Enc \in mm.item <=> mm.v.dec
  /\ (\E c \in mm.item : IsLevel(c)) <=> mm.v.valid
  /\ mm.v.valid => Says(mm.v) \in mm.item
Sound(mm, cc, kept) ==
  /\ Counts(mm, cc)
  /\ mm.phase = "none" => mm = Closed
  /\ mm.phase \in {"reading", "preview", "shown"} => ~cc.junk
  /\ mm.phase = "preview" => mm.v \in {Pre(cc), Final(cc)}
  /\ mm.phase = "shown" => mm.v = Final(cc)
  /\ \A c \in mm.item \ kept : Uses(mm, c)
  /\ mm.phase # "none" /\ User \in kept => User \in mm.item
  /\ mm.phase \in {"preview", "shown"} /\ ~mm.print => Tells(mm)

LEMMA Verdict3 ==
  ASSUME NEW cc \in MailContents
  PROVE  /\ NoVerdict \in Verdicts /\ Pre(cc) \in Verdicts /\ Base(cc) \in Verdicts
         /\ Final(cc) \in Verdicts
         /\ ~NoVerdict.valid /\ ~NoVerdict.dec /\ ~Pre(cc).valid
         /\ Final(cc).sigs = cc.sigs /\ Final(cc).verify = cc.verify /\ Final(cc).dec = cc.dec
         /\ Final(cc).valid => Earned(Final(cc), cc.from)
         /\ cc.from \in Senders /\ cc.store \in Stores /\ cc.store # Null
<1>1. /\ cc.dec \in BOOLEAN /\ cc.sigs \in Seq(Signatures) /\ cc.verify \in {Null, "done", "error"}
      /\ cc.from \in Senders /\ cc.store \in Stores /\ cc.store # Null
  BY StoresAssumption DEF MailContents, Senders
<1>2. NoUid \in Uids
  BY DEF NoUid, Uids, Validities
<1>3. NoSig \in Signatures
  <2>1. <<>> \in Seq(Uids)
    OBVIOUS
  <2> QED BY <2>1 DEF NoSig, Signatures, Validities
<1>4. NoVerdict \in Verdicts
  <2>1. <<>> \in Seq(Signatures)
    OBVIOUS
  <2> QED BY <1>2, <1>3, <2>1 DEF NoVerdict, Verdicts
<1>5. Pre(cc) \in Verdicts /\ Base(cc) \in Verdicts
  BY <1>1, <1>4 DEF Pre, Base, Verdicts
<1>6. /\ ~NoVerdict.valid /\ ~NoVerdict.dec /\ ~Pre(cc).valid
      /\ Base(cc).sigs = cc.sigs /\ Base(cc).verify = cc.verify /\ Base(cc).dec = cc.dec
      /\ ~Base(cc).valid
  BY DEF NoVerdict, Pre, Base
<1>7. /\ Final(cc) \in Verdicts
      /\ Final(cc).dec = cc.dec /\ Final(cc).sigs = cc.sigs /\ Final(cc).verify = cc.verify
      /\ Final(cc).valid => Earned(Final(cc), cc.from)
  BY <1>1, <1>5, <1>6, SigstateType DEF Final
<1> QED BY <1>1, <1>4, <1>5, <1>6, <1>7

\* The verdict of parsingDone_o, after the decryption and at the end.
AllResults(v, cc, preview) ==
  IF preview THEN [v EXCEPT !.dec = cc.dec]
  ELSE [[v EXCEPT !.dec = cc.dec] EXCEPT !.sigs = cc.sigs, !.verify = cc.verify]

LEMMA NextVerdict ==
  ASSUME NEW cc \in MailContents, NEW v \in {NoVerdict, Pre(cc), Final(cc)}, NEW preview \in BOOLEAN
  PROVE  /\ UpdateSigstate(AllResults(v, cc, preview), cc.from) \in {Pre(cc), Final(cc)}
         /\ v = Final(cc) => UpdateSigstate(AllResults(v, cc, preview), cc.from) = Final(cc)
         /\ ~preview => UpdateSigstate(AllResults(v, cc, preview), cc.from) = Final(cc)
<1> DEFINE x == AllResults(v, cc, preview)
<1>1. CASE v = Final(cc)
  <2>1. Final(cc) = [Final(cc) EXCEPT !.dec = cc.dec]
    BY Verdict3 DEF Verdicts
  <2>2. Final(cc) = [Final(cc) EXCEPT !.sigs = cc.sigs, !.verify = cc.verify]
    BY Verdict3 DEF Verdicts
  <2>3. x = Final(cc)
    BY <1>1, <2>1, <2>2 DEF AllResults
  <2>4. UpdateSigstate(Final(cc), cc.from) = Final(cc)
    BY Verdict3, SigstateTwice DEF Final
  <2> QED BY <2>3, <2>4
<1>2. CASE v # Final(cc) /\ preview
  <2>1. x = Pre(cc)
    BY <1>2 DEF AllResults, Pre, NoVerdict
  <2>2. Pre(cc).verify # "done"
    BY DEF Pre, NoVerdict, Null
  <2>3. UpdateSigstate(Pre(cc), cc.from) = Pre(cc)
    BY <2>2 DEF UpdateSigstate
  <2> QED BY <1>2, <2>1, <2>3
<1>3. CASE v # Final(cc) /\ ~preview
  <2>1. x = Base(cc)
    BY <1>3 DEF AllResults, Pre, Base, NoVerdict
  <2> QED BY <1>3, <2>1 DEF Final
<1> QED BY <1>1, <1>2, <1>3

\* Showing a verdict counts what the mail now uses.
LEMMA UpdatedCounts ==
  ASSUME NEW w \in States, NEW m \in Mails, content[m] \in MailContents,
         ~w.mail.print, ~w.mail.junk, Counts(w.mail, content[m])
  PROVE  /\ UpdateCategories(w, m) \in States
         /\ Counts(UpdateCategories(w, m).mail, content[m])
         /\ UpdateCategories(w, m).mail.item = Showing(w.mail)
         /\ UpdateCategories(w, m).mail.phase = w.mail.phase
         /\ UpdateCategories(w, m).mail.print = w.mail.print
         /\ UpdateCategories(w, m).mail.was = w.mail.was
         /\ UpdateCategories(w, m).mail.v = w.mail.v
         /\ \A c : Uses(UpdateCategories(w, m).mail, c)
                     <=> \/ w.mail.v.valid /\ c = Says(w.mail.v)
                         \/ w.mail.v.dec /\ c = Enc
         /\ \A c : CopiesOf(c, UpdateCategories(w, m).refs) - Used(UpdateCategories(w, m).mail, c)
                     >= CopiesOf(c, w.refs)
<1> DEFINE cc == content[m]
           x == UpdateCategories(w, m)
           store == IF w.mail.v.valid \/ w.mail.v.dec THEN cc.store ELSE w.mail.store
           cat == IF w.mail.v.valid THEN Says(w.mail.v) ELSE w.mail.cat
<1>1. /\ cc \in MailContents /\ cc.store \in Stores /\ cc.store # Null
      /\ NoVerdict.valid = FALSE /\ Pre(cc).valid = FALSE
  BY Verdict3 DEF NoVerdict, Pre
<1>2. /\ x \in States /\ x.mail = [w.mail EXCEPT !.item = Showing(w.mail), !.store = store, !.cat = cat]
      /\ \A e : CopiesOf(e, x.refs)
                  >= CopiesOf(e, w.refs)
                       + IF \/ w.mail.v.valid /\ e = Says(w.mail.v)
                            \/ w.mail.v.dec /\ e = Enc THEN 1 ELSE 0
  BY <1>1, Updated
<1>3. w.mail \in Objects /\ \A e : CopiesOf(e, w.refs) \in Nat /\ CopiesOf(e, x.refs) \in Nat
  <2> HIDE DEF x
  <2> QED BY <1>2, Copies DEF States
<1> HIDE DEF x
<1>4. /\ x.mail.item = Showing(w.mail) /\ x.mail.phase = w.mail.phase /\ x.mail.print = w.mail.print
      /\ x.mail.v = w.mail.v /\ x.mail.junk = w.mail.junk /\ x.mail.was = w.mail.was
      /\ x.mail.store = store /\ x.mail.cat = cat
  <2> HIDE DEF store, cat
  <2> QED BY <1>2, <1>3 DEF Objects
<1>5. w.mail.v \in Verdicts /\ w.mail.v.valid \in BOOLEAN /\ w.mail.v.dec \in BOOLEAN
  BY <1>3 DEF Objects, Verdicts
<1>6. Counts(x.mail, cc)
  BY <1>1, <1>4, <1>5 DEF Counts
<1>7. Says(w.mail.v) # NoCat
  BY Names DEF Says
<1>8. \A c : Uses(x.mail, c) <=> \/ w.mail.v.valid /\ c = Says(w.mail.v)
                                 \/ w.mail.v.dec /\ c = Enc
  BY <1>1, <1>4, <1>5, <1>7 DEF Uses, Counts
<1>9. ASSUME NEW c PROVE CopiesOf(c, x.refs) - Used(x.mail, c) >= CopiesOf(c, w.refs)
  <2>1. Used(x.mail, c) = IF \/ w.mail.v.valid /\ c = Says(w.mail.v)
                             \/ w.mail.v.dec /\ c = Enc THEN 1 ELSE 0
    BY <1>8 DEF Used
  <2> QED BY <1>2, <1>3, <2>1
<1> QED BY <1>2, <1>4, <1>6, <1>8, <1>9 DEF x

LEMMA ShowingTells ==
  ASSUME NEW mm \in Objects
  PROVE  /\ Enc \in Showing(mm) <=> mm.v.dec
         /\ (\E c \in Showing(mm) : IsLevel(c)) <=> mm.v.valid
         /\ mm.v.valid => Says(mm.v) \in Showing(mm)
         /\ User \in mm.item => User \in Showing(mm)
         /\ \A c \in Showing(mm) : \/ c \in mm.item /\ (c = Enc => mm.v.dec)
                                   \/ mm.v.valid /\ c = Says(mm.v)
                                   \/ mm.v.dec /\ c = Enc
<1>1. IsLevel(Says(mm.v)) /\ ~IsLevel(Enc) /\ ~IsLevel(User)
  BY DEF IsLevel, Says, LevelOf, Enc, User
<1>2. Says(mm.v) # Enc /\ Says(mm.v) # User /\ User # Enc
  BY Names DEF Says
<1> DEFINE cats == IF mm.v.valid THEN mm.item \cup {Says(mm.v)} ELSE mm.item \ Ours(mm.item)
<1>3. ~mm.v.valid => \A c \in cats : c = User
  BY DEF Ours
<1>4. User \in mm.item => User \in cats
  BY DEF Ours
<1>5. /\ mm.v.valid => Says(mm.v) \in cats
      /\ \A c \in cats : c \in mm.item \/ (mm.v.valid /\ c = Says(mm.v))
  OBVIOUS
<1>6. Showing(mm) = IF mm.v.dec THEN cats \cup {Enc} ELSE cats \ {Enc}
  BY DEF Showing
<1> HIDE DEF cats
<1> QED BY <1>1, <1>2, <1>3, <1>4, <1>5, <1>6

LEMMA ParsedSound ==
  ASSUME NEW w \in States, NEW m \in Mails, content[m] \in MailContents, NEW preview \in BOOLEAN,
         NEW kept, Sound(w.mail, content[m], kept), ~content[m].junk, w.mail.phase # "none"
  PROVE  /\ ParsingDone(w, m, preview) \in States
         /\ Sound(ParsingDone(w, m, preview).mail, content[m], kept)
         /\ ParsingDone(w, m, preview).mail.was = w.mail.was
         /\ FairTo(w, ParsingDone(w, m, preview))
<1> DEFINE cc == content[m]
           nv == UpdateSigstate(AllResults(w.mail.v, cc, preview), cc.from)
           ph == IF preview THEN "preview" ELSE "shown"
           mm == [w.mail EXCEPT !.v = nv, !.phase = ph]
           w0 == [w EXCEPT !.mail = mm]
           x  == ParsingDone(w, m, preview)
<1>1. w \in [mail : Objects, refs : SomeBags, listed : SUBSET AllCats] /\ w.mail \in Objects
  BY DEF States
<1>2. x = UpdateCategories(w0, m)
  <2>1. w0 = [w EXCEPT !.mail.v = nv, !.mail.phase = ph]
    <3> HIDE DEF nv, ph
    <3> QED BY <1>1 DEF Objects
  <2>2. ParsingDone(w, m, preview)
          = UpdateCategories([w EXCEPT !.mail.v = nv, !.mail.phase = ph], m)
    BY DEF ParsingDone, AllResults
  <2> QED BY <2>1, <2>2
<1>3. /\ nv \in {Pre(cc), Final(cc)} /\ (w.mail.v = Final(cc) => nv = Final(cc))
      /\ nv \in Verdicts /\ (~preview => nv = Final(cc))
  <2>1. w.mail.v \in {NoVerdict, Pre(cc), Final(cc)}
    BY DEF Sound, Counts
  <2> QED BY <2>1, NextVerdict, Verdict3
<1>4. ph \in {"preview", "shown"} /\ (ph = "shown" <=> ~preview)
  OBVIOUS
<1> HIDE DEF nv, ph, x
<1>5. /\ mm \in Objects /\ mm.v = nv /\ mm.phase = ph /\ mm.item = w.mail.item /\ mm.cat = w.mail.cat
      /\ mm.store = w.mail.store /\ mm.junk = w.mail.junk /\ mm.print = w.mail.print
      /\ mm.was = w.mail.was
  BY <1>1, <1>3, <1>4 DEF Objects
<1> HIDE DEF mm
<1>6. w0 \in States /\ w0.mail = mm /\ w0.refs = w.refs
  BY <1>1, <1>5 DEF States
<1>7. Counts(mm, cc) /\ ~mm.junk
  BY <1>3, <1>5 DEF Sound, Counts
<1>8. CASE w.mail.print
  <2>1. x = w0
    BY <1>2, <1>5, <1>6, <1>8 DEF UpdateCategories
  <2>2. w.mail.store = Null
    BY <1>8 DEF Sound, Counts
  <2>3. \A c : ~Uses(mm, c) /\ ~Uses(w.mail, c)
    BY <1>5, <2>2 DEF Uses
  <2>4. Sound(mm, cc, kept)
    BY <1>3, <1>4, <1>5, <1>7, <1>8, <2>3 DEF Sound
  <2>5. \A c : CopiesOf(c, w.refs) \in Nat
    BY <1>1, Copies
  <2>6. FairTo(w, w0)
    BY <1>6, <2>3, <2>5 DEF FairTo, Used
  <2> QED BY <1>5, <1>6, <2>1, <2>4, <2>6 DEF x
<1>9. CASE ~w.mail.print
  <2>1. /\ x \in States /\ Counts(x.mail, cc) /\ x.mail.item = Showing(mm)
        /\ x.mail.phase = ph /\ x.mail.print = mm.print /\ x.mail.v = nv /\ x.mail.was = mm.was
        /\ \A c : Uses(x.mail, c) <=> \/ nv.valid /\ c = Says(nv)
                                      \/ nv.dec /\ c = Enc
        /\ \A c : CopiesOf(c, x.refs) - Used(x.mail, c) >= CopiesOf(c, w.refs)
    <3>1. ~w0.mail.print /\ ~w0.mail.junk /\ Counts(w0.mail, cc)
      BY <1>5, <1>6, <1>7, <1>9
    <3> HIDE DEF w0
    <3> DEFINE y == UpdateCategories(w0, m)
    <3>2. /\ y \in States /\ Counts(y.mail, cc) /\ y.mail.item = Showing(w0.mail)
          /\ y.mail.phase = w0.mail.phase /\ y.mail.print = w0.mail.print /\ y.mail.v = w0.mail.v
          /\ y.mail.was = w0.mail.was
          /\ \A c : Uses(y.mail, c) <=> \/ w0.mail.v.valid /\ c = Says(w0.mail.v)
                                        \/ w0.mail.v.dec /\ c = Enc
          /\ \A c : CopiesOf(c, y.refs) - Used(y.mail, c) >= CopiesOf(c, w0.refs)
      <4>1. w0 \in States /\ content[m] \in MailContents
        BY <1>6
      <4> QED BY <3>1, <4>1, UpdatedCounts
    <3> HIDE DEF y
    <3> QED BY <1>2, <1>5, <1>6, <3>2 DEF y
  <2>2. Tells(x.mail)
    BY <1>5, <2>1, ShowingTells DEF Tells
  <2>3. ASSUME NEW c \in x.mail.item \ kept PROVE Uses(x.mail, c)
    <3>1. CASE c \in mm.item /\ (c = Enc => nv.dec)
      <4>1. Uses(w.mail, c)
        BY <1>5, <2>3, <3>1 DEF Sound
      <4>2. c # Junk \/ ~w.mail.junk
        BY <1>5, <1>7
      <4>3. CASE c = w.mail.cat /\ c # NoCat
        <5>1. nv.valid /\ c = Says(nv)
          BY <1>3, <4>3 DEF Sound, Counts
        <5> QED BY <2>1, <5>1
      <4>4. CASE c = Enc
        BY <2>1, <3>1, <4>4
      <4> QED BY <4>1, <4>2, <4>3, <4>4 DEF Uses
    <3>2. CASE \/ nv.valid /\ c = Says(nv)
               \/ nv.dec /\ c = Enc
      BY <2>1, <3>2
    <3>3. \/ c \in mm.item /\ (c = Enc => nv.dec)
          \/ nv.valid /\ c = Says(nv)
          \/ nv.dec /\ c = Enc
      BY <1>5, <2>1, <2>3, ShowingTells
    <3> QED BY <3>1, <3>2, <3>3
  <2>4. User \in kept => User \in x.mail.item
    BY <1>5, <2>1, ShowingTells DEF Sound
  <2>5. Sound(x.mail, cc, kept)
    BY <1>3, <1>4, <2>1, <2>2, <2>3, <2>4 DEF Sound
  <2>6. FairTo(w, x)
    <3>1. \A c : CopiesOf(c, w.refs) \in Nat /\ CopiesOf(c, x.refs) \in Nat
      BY <1>1, <2>1, Copies DEF States
    <3>2. \A c : CopiesOf(c, x.refs) - Used(x.mail, c) >= CopiesOf(c, w.refs)
      BY <2>1
    <3> QED BY <3>1, <3>2 DEF FairTo, Used
  <2> QED BY <1>5, <2>1, <2>5, <2>6 DEF x
<1> QED BY <1>8, <1>9

-----------------------------------------------------------------------------
(***************************************************************************)
(* The inductive invariant: every mail is sound, and a store counts a      *)
(* category at least as often as mails use it. What is counted needs       *)
(* JunkApart, what a mail shows does not.                                  *)
(***************************************************************************)
\* No S/MIME mail that is saved is in the Junk folder: Mail::close takes the
\* category Junk from such a mail and never puts it back (mail.cpp)
JunkApart == \A m \in Mails : \A c \in MayBe(m) : ~(c.junk /\ c.smime)

Users(s, c) == {m \in Mails : content[m].store = s /\ Uses(view[m], c)}
Counted     ==
  JunkApart => \A s \in Stores : \A c : Cardinality(Users(s, c)) =< CopiesOf(c, refs[s])
TypeOK ==
  /\ content \in [Mails -> MailContents]
  /\ \A m \in Mails : content[m] \in MayBe(m)
  /\ view \in [Mails -> Objects]
  /\ stored \in [Mails -> SUBSET AllCats]
  /\ refs \in [Stores -> SomeBags]
  /\ listed \in [Stores -> SUBSET AllCats]
  /\ \A s \in Stores : DOMAIN refs[s] \subseteq listed[s]
  /\ saves \in Nat
AllSound == \A m \in Mails : Sound(view[m], content[m], view[m].was)
CatInv   == TypeOK /\ AllSound /\ Counted

LEMMA WithMail ==
  ASSUME NEW w \in States, NEW mm \in Objects
  PROVE  /\ [w EXCEPT !.mail = mm] \in States
         /\ [w EXCEPT !.mail = mm].mail = mm /\ [w EXCEPT !.mail = mm].refs = w.refs
BY DEF States

LEMMA ClosedSound ==
  ASSUME NEW cc \in MailContents, NEW kept
  PROVE  /\ Closed \in Objects /\ Sound(Closed, cc, kept) /\ Closed.phase = "none"
         /\ \A c : ~Uses(Closed, c)
<1>1. NoVerdict \in Verdicts
  BY Verdict3
<1>2. Closed \in Objects
  BY <1>1 DEF Closed, Objects
<1> QED BY <1>2 DEF Closed, Sound, Counts, Uses, Tells

LEMMA StateOf ==
  ASSUME CatInv, NEW m \in Mails
  PROVE  /\ content[m] \in MailContents /\ content[m].store \in Stores /\ content[m].store # Null
         /\ State(m) \in States /\ State(m).mail = view[m] /\ State(m).refs = refs[content[m].store]
         /\ Sound(view[m], content[m], view[m].was) /\ view[m] \in Objects
<1>1. content[m] \in MailContents /\ content[m].store \in Stores /\ content[m].store # Null
  BY Verdict3 DEF CatInv, TypeOK
<1> QED BY <1>1 DEF CatInv, TypeOK, AllSound, State, States

\* One user more or less.
LEMMA OneUser ==
  ASSUME NEW S, IsFiniteSet(S), NEW e
  PROVE  Cardinality(S) = Cardinality(S \ {e}) + (IF e \in S THEN 1 ELSE 0)
<1>1. CASE e \in S
  <2>1. Cardinality(S \ {e}) = Cardinality(S) - 1 /\ Cardinality(S) \in Nat
    BY <1>1, FS_RemoveElement, FS_CardinalityType
  <2> QED BY <1>1, <2>1
<1>2. CASE e \notin S
  <2>1. S \ {e} = S
    BY <1>2
  <2>2. Cardinality(S \ {e}) = Cardinality(S) /\ Cardinality(S) \in Nat
    BY <2>1, FS_CardinalityType
  <2> QED BY <1>2, <2>2
<1> QED BY <1>1, <1>2

LEMMA PutCounts ==
  ASSUME CatInv, NEW m \in Mails, NEW x \in States, JunkApart => FairTo(State(m), x), Put(m, x),
         content' = content, saves' = saves, stored' \in [Mails -> SUBSET AllCats],
         Sound(x.mail, content[m], x.mail.was)
  PROVE  CatInv'
<1> DEFINE s == content[m].store
<1>1. /\ content[m] \in MailContents /\ s \in Stores /\ State(m).mail = view[m] /\ State(m).refs = refs[s]
      /\ State(m) \in States
  BY StateOf
<1>2. /\ x.mail \in Objects /\ x.refs \in SomeBags /\ x.listed \in SUBSET AllCats
      /\ DOMAIN x.refs \subseteq x.listed
  BY DEF States
<1>3. /\ view' = [view EXCEPT ![m] = x.mail] /\ refs' = [refs EXCEPT ![s] = x.refs]
      /\ listed' = [listed EXCEPT ![s] = x.listed]
  BY DEF Put
<1> HIDE DEF s
<1>4. /\ view'[m] = x.mail /\ refs'[s] = x.refs
      /\ \A n \in Mails \ {m} : view'[n] = view[n]
      /\ \A t \in Stores \ {s} : refs'[t] = refs[t]
  BY <1>1, <1>3 DEF CatInv, TypeOK
<1>5. TypeOK'
  <2>1. /\ view' \in [Mails -> Objects] /\ refs' \in [Stores -> SomeBags]
        /\ listed' \in [Stores -> SUBSET AllCats]
    BY <1>2, <1>3 DEF CatInv, TypeOK
  <2>2. ASSUME NEW t \in Stores PROVE DOMAIN refs'[t] \subseteq listed'[t]
    BY <1>1, <1>2, <1>3 DEF CatInv, TypeOK
  <2> QED BY <2>1, <2>2 DEF CatInv, TypeOK
<1>6. AllSound'
  <2>1. Sound(view'[m], content'[m], view'[m].was)
    BY <1>4
  <2>2. ASSUME NEW n \in Mails \ {m} PROVE Sound(view'[n], content'[n], view'[n].was)
    BY <1>4 DEF CatInv, AllSound
  <2>3. \A n \in Mails : Sound(view'[n], content'[n], view'[n].was)
    BY <2>1, <2>2
  <2> QED BY <2>3 DEF AllSound
<1>7. Counted'
  <2> SUFFICES ASSUME JunkApart, NEW t \in Stores, NEW c
               PROVE  Cardinality(Users(t, c)') =< CopiesOf(c, refs'[t])
    BY DEF Counted
  <2> DEFINE U == Users(t, c)
             V == {n \in Mails : content'[n].store = t /\ Uses(view'[n], c)}
  <2>1. Users(t, c)' = V
    BY DEF Users
  <2>2. U \subseteq Mails /\ V \subseteq Mails
    BY DEF Users
  <2>3. /\ IsFiniteSet(U) /\ IsFiniteSet(V) /\ IsFiniteSet(U \ {m})
        /\ Cardinality(U) \in Nat /\ Cardinality(V) \in Nat /\ Cardinality(U \ {m}) \in Nat
    <3> HIDE DEF U, V
    <3>1. IsFiniteSet(U) /\ IsFiniteSet(V) /\ IsFiniteSet(U \ {m})
      BY <2>2, MailsAssumption, FS_Subset
    <3> QED BY <3>1, FS_CardinalityType
  <2>4. U \ {m} = V \ {m}
    BY <1>4 DEF Users
  <2>5. /\ m \in U <=> s = t /\ Uses(view[m], c)
        /\ m \in V <=> s = t /\ Uses(x.mail, c)
    BY <1>4 DEF Users, s
  <2>6. Cardinality(U) =< CopiesOf(c, refs[t])
    BY DEF CatInv, Counted
  <2>7. CopiesOf(c, refs[t]) \in Nat /\ CopiesOf(c, x.refs) \in Nat
    BY <1>2, Copies DEF CatInv, TypeOK
  <2> HIDE DEF U, V
  <2>8. /\ Cardinality(U) = Cardinality(U \ {m}) + (IF m \in U THEN 1 ELSE 0)
        /\ Cardinality(V) = Cardinality(V \ {m}) + (IF m \in V THEN 1 ELSE 0)
    BY <2>3, OneUser
  <2>9. CASE t = s
    <3>1. CopiesOf(c, x.refs) - Used(x.mail, c) >= CopiesOf(c, refs[s]) - Used(view[m], c)
      BY <1>1 DEF FairTo
    <3>2. /\ Used(x.mail, c) = (IF m \in V THEN 1 ELSE 0)
          /\ Used(view[m], c) = (IF m \in U THEN 1 ELSE 0)
      BY <2>5, <2>9 DEF Used
    <3> DEFINE u == IF m \in U THEN 1 ELSE 0
               v == IF m \in V THEN 1 ELSE 0
    <3>3. u \in Nat /\ v \in Nat
      OBVIOUS
    <3> HIDE DEF u, v
    <3>4. /\ Cardinality(U) = Cardinality(U \ {m}) + u
          /\ Cardinality(V) = Cardinality(U \ {m}) + v
          /\ CopiesOf(c, x.refs) - v >= CopiesOf(c, refs[s]) - u
      BY <2>4, <2>8, <3>1, <3>2 DEF u, v
    <3>5. Cardinality(V) =< CopiesOf(c, x.refs)
      BY <2>3, <2>6, <2>7, <2>9, <3>3, <3>4
    <3> QED BY <1>4, <2>1, <2>9, <3>5
  <2>10. CASE t # s
    BY <1>4, <2>1, <2>3, <2>4, <2>5, <2>6, <2>8, <2>10
  <2> QED BY <2>9, <2>10
<1> QED BY <1>5, <1>6, <1>7 DEF CatInv

-----------------------------------------------------------------------------
(* The steps.                                                              *)

LEMMA InitInv ==
  ASSUME Init
  PROVE  CatInv
<1>1. content \in [Mails -> MailContents] /\ \A m \in Mails : content[m] \in MayBe(m)
  BY ContentsAssumption DEF Init, MayBe
<1>2. stored \in [Mails -> SUBSET AllCats]
  BY DEF Init, AllCats
<1>3. \A m \in Mails : /\ content[m] \in MailContents /\ view[m] = Closed /\ Closed \in Objects
                       /\ Sound(Closed, content[m], Closed.was) /\ \A c : ~Uses(Closed, c)
  BY <1>1, ClosedSound DEF Init
<1>4. view \in [Mails -> Objects]
  BY <1>3 DEF Init
<1>5. EmptyBag \in SomeBags /\ DOMAIN EmptyBag = {}
  BY BagType DEF EmptyBag, SetToBag, IsABag
<1>6. TypeOK
  BY <1>1, <1>2, <1>4, <1>5 DEF Init, TypeOK
<1>7. AllSound
  BY <1>3 DEF AllSound
<1>8. Counted
  <2> SUFFICES ASSUME NEW s \in Stores, NEW c
               PROVE  Cardinality(Users(s, c)) =< CopiesOf(c, refs[s])
    BY DEF Counted
  <2>1. Users(s, c) = {}
    BY <1>3 DEF Users
  <2>2. Cardinality(Users(s, c)) = 0
    BY <2>1, FS_EmptySet
  <2>3. CopiesOf(c, refs[s]) \in Nat
    BY <1>6, Copies DEF TypeOK
  <2> QED BY <2>2, <2>3
<1> QED BY <1>6, <1>7, <1>8 DEF CatInv

LEMMA ParseStep ==
  ASSUME CatInv, NEW m \in Mails, NEW preview \in BOOLEAN, view[m].phase \in {"reading", "preview"},
         Put(m, ParsingDone(State(m), m, preview)), UNCHANGED <<content, stored, saves>>
  PROVE  CatInv'
<1> DEFINE x == ParsingDone(State(m), m, preview)
<1>1. /\ content[m] \in MailContents /\ State(m) \in States /\ State(m).mail = view[m]
      /\ Sound(view[m], content[m], view[m].was)
  BY StateOf
<1>2. ~content[m].junk /\ view[m].phase # "none"
  BY <1>1 DEF Sound
<1> DEFINE k == view[m].was
<1>3. x \in States /\ Sound(x.mail, content[m], k) /\ FairTo(State(m), x) /\ x.mail.was = k
  <2>1. Sound(State(m).mail, content[m], k) /\ State(m).mail.phase # "none" /\ State(m).mail.was = k
    BY <1>1, <1>2
  <2> HIDE DEF k
  <2> QED BY <1>1, <1>2, <2>1, ParsedSound
<1>4. stored' \in [Mails -> SUBSET AllCats]
  BY DEF CatInv, TypeOK
<1> HIDE DEF x
<1> QED BY <1>3, <1>4, PutCounts DEF x

LEMMA LoadStep ==
  ASSUME CatInv, NEW m \in Mails, NEW print \in BOOLEAN, Load(m, print)
  PROVE  CatInv'
<1> DEFINE cc == content[m]
           mm == [Closed EXCEPT !.phase = "reading", !.item = stored[m], !.was = stored[m],
                                !.print = print \/ m \in printing]
           w  == [State(m) EXCEPT !.mail = mm]
<1>1. /\ cc \in MailContents /\ cc.store \in Stores /\ cc.store # Null
      /\ State(m) \in States /\ State(m).mail = view[m] /\ State(m).refs = refs[cc.store]
      /\ Sound(view[m], cc, view[m].was)
  BY StateOf
<1>2. view[m] = Closed /\ \A c : ~Uses(view[m], c)
  BY <1>1, ClosedSound DEF Load, Open, Sound
<1>3. stored[m] \in SUBSET AllCats
  BY DEF CatInv, TypeOK
<1>4. /\ mm \in Objects /\ mm.phase = "reading" /\ mm.item = stored[m] /\ mm.store = Null
      /\ mm.was = stored[m] /\ mm.cat = NoCat /\ mm.junk = FALSE /\ mm.v = NoVerdict
  <2>1. Closed \in Objects
    BY <1>1, ClosedSound
  <2> QED BY <1>3, <2>1 DEF Closed, Objects
<1>6. w \in States /\ w.mail = mm /\ w.refs = refs[cc.store]
  BY <1>1, <1>4, WithMail
<1>7. \A c : ~Uses(mm, c)
  BY <1>4 DEF Uses
<1>8. \A c : CopiesOf(c, refs[cc.store]) \in Nat
  BY <1>1, Copies DEF CatInv, TypeOK
<1>9. content' = content /\ saves' = saves /\ stored' \in [Mails -> SUBSET AllCats]
  BY DEF Load, CatInv, TypeOK
<1>10. CASE /\ cc.junk
            /\ Put(m, [AddCategory(w, Junk) EXCEPT !.mail.junk = TRUE, !.mail.phase = "junk",
                                                   !.mail.store = cc.store])
  <2> DEFINE a == AddCategory(w, Junk)
             am == [a.mail EXCEPT !.junk = TRUE, !.phase = "junk", !.store = cc.store]
             x == [a EXCEPT !.mail.junk = TRUE, !.mail.phase = "junk", !.mail.store = cc.store]
  <2> HIDE DEF mm, w
  <2>1. Junk \in AllCats
    BY DEF AllCats
  <2>2. /\ a \in States /\ a.mail = [mm EXCEPT !.item = @ \cup {Junk}]
        /\ \A e : CopiesOf(e, a.refs) = CopiesOf(e, refs[cc.store]) + IF e = Junk THEN 1 ELSE 0
    <3>1. w \in States
      BY <1>6
    <3>2. /\ a \in States /\ a.mail = [w.mail EXCEPT !.item = @ \cup {Junk}]
          /\ \A e : CopiesOf(e, a.refs) = CopiesOf(e, w.refs) + IF e = Junk THEN 1 ELSE 0
      BY <2>1, <3>1, AddFields
    <3> HIDE DEF a
    <3> QED BY <1>6, <3>2
  <2> HIDE DEF a
  <2>3. a.mail \in Objects
    BY <2>2 DEF States
  <2>4. x = [a EXCEPT !.mail = am]
    BY <2>2, <2>3 DEF States, Objects
  <2>5. /\ am \in Objects /\ am.phase = "junk" /\ am.item = stored[m] \cup {Junk}
        /\ am.store = cc.store /\ am.cat = NoCat /\ am.junk /\ am.v = NoVerdict
        /\ am.print = mm.print /\ am.was = stored[m]
    BY <1>1, <1>4, <2>2, <2>3 DEF Objects
  <2> HIDE DEF am, x
  <2>6. x \in States /\ x.mail = am /\ x.refs = a.refs
    BY <2>2, <2>4, <2>5, WithMail
  <2>7. \A c : Uses(am, c) <=> c = Junk
    <3>1. ~NoVerdict.dec
      BY DEF NoVerdict
    <3> QED BY <1>1, <2>5, <3>1 DEF Uses
  <2>8. Sound(am, cc, am.was)
    BY <1>1, <1>10, <2>5, <2>7 DEF Sound, Counts
  <2>9. FairTo(State(m), x)
    BY <1>1, <1>2, <1>8, <2>2, <2>6, <2>7 DEF FairTo, Used
  <2>10. Put(m, x)
    BY <1>10 DEF x, a
  <2> QED BY <1>9, <2>6, <2>8, <2>9, <2>10, PutCounts
<1>11. CASE /\ ~cc.junk
            /\ Put(m, IF mm.print THEN ParsingDone(w, m, FALSE) ELSE w)
  <2> DEFINE x == IF mm.print THEN ParsingDone(w, m, FALSE) ELSE w
  <2> HIDE DEF mm, w
  <2>1. Sound(mm, cc, stored[m])
    BY <1>4, <1>11 DEF Sound, Counts
  <2>2. FairTo(w, w)
    BY <1>6, <1>8 DEF FairTo, Used
  <2>3. x \in States /\ Sound(x.mail, cc, stored[m]) /\ FairTo(w, x) /\ x.mail.was = stored[m]
    BY <1>1, <1>4, <1>6, <1>11, <2>1, <2>2, ParsedSound
  <2> HIDE DEF x
  <2>4. \A c : Used(w.mail, c) = 0 /\ Used(State(m).mail, c) = 0
    BY <1>1, <1>2, <1>6, <1>7 DEF Used
  <2>5. FairTo(State(m), x)
    BY <1>1, <1>6, <2>3, <2>4 DEF FairTo
  <2>6. Put(m, x)
    BY <1>11 DEF x
  <2> QED BY <1>9, <2>3, <2>5, <2>6, PutCounts
<1> QED BY <1>10, <1>11 DEF Load

LEMMA AgainStep ==
  ASSUME CatInv, ~Changes, NEW m \in Mails, Again(m)
  PROVE  CatInv'
<1> DEFINE mm == [view[m] EXCEPT !.phase = "reading", !.item = stored[m], !.was = stored[m]]
           x  == [State(m) EXCEPT !.mail = mm]
<1>1. /\ content[m].store \in Stores /\ State(m) \in States /\ State(m).mail = view[m]
      /\ State(m).refs = refs[content[m].store]
      /\ Sound(view[m], content[m], view[m].was) /\ view[m] \in Objects
  BY StateOf
<1>2. /\ mm \in Objects /\ mm.phase = "reading" /\ mm.item = stored[m] /\ mm.store = view[m].store
      /\ mm.was = stored[m]
      /\ mm.cat = view[m].cat /\ mm.junk = view[m].junk /\ mm.v = view[m].v
      /\ mm.print = view[m].print
  BY <1>1 DEF CatInv, TypeOK, Objects
<1>3. Sound(mm, content[m], mm.was)
  BY <1>1, <1>2 DEF Again, Sound, Counts
<1>4. \A c : Uses(mm, c) <=> Uses(view[m], c)
  BY <1>2 DEF Uses
<1> HIDE DEF mm
<1>5. x \in States /\ x.mail = mm /\ x.refs = refs[content[m].store]
  BY <1>1, <1>2, WithMail
<1>6. x.listed = listed[content[m].store]
  BY DEF State
<1>7. \A c : CopiesOf(c, refs[content[m].store]) \in Nat
  BY <1>1, Copies DEF CatInv, TypeOK
<1>8. FairTo(State(m), x)
  BY <1>1, <1>4, <1>5, <1>7 DEF FairTo, Used
<1>9. Put(m, x)
  <2>1. view' = [view EXCEPT ![m] = mm]
    BY <1>1 DEF Again, mm, CatInv, TypeOK, Objects
  <2>2. /\ refs' = [refs EXCEPT ![content[m].store] = refs[content[m].store]]
        /\ listed' = [listed EXCEPT ![content[m].store] = listed[content[m].store]]
    BY <1>1 DEF Again, CatInv, TypeOK
  <2> QED BY <1>5, <1>6, <2>1, <2>2 DEF Put
<1>10. content' = content /\ saves' = saves /\ stored' \in [Mails -> SUBSET AllCats]
  <2>1. content' = [content EXCEPT ![m] = content[m]]
    BY DEF Again
  <2> QED BY <2>1 DEF Again, CatInv, TypeOK
<1> HIDE DEF x
<1> QED BY <1>3, <1>5, <1>8, <1>9, <1>10, PutCounts

LEMMA UnloadStep ==
  ASSUME CatInv, NEW m \in Mails, Unload(m)
  PROVE  CatInv'
<1> DEFINE r == RemoveCategories(State(m))
           x == [r EXCEPT !.mail = Closed]
<1>1. /\ content[m] \in MailContents /\ content[m].store \in Stores /\ State(m) \in States
      /\ State(m).mail = view[m] /\ State(m).refs = refs[content[m].store]
  BY StateOf
<1>2. Closed \in Objects /\ Sound(Closed, content[m], Closed.was) /\ \A c : ~Uses(Closed, c)
  BY <1>1, ClosedSound
<1>3. r \in States /\ \A c : CopiesOf(c, r.refs) >= CopiesOf(c, State(m).refs) - Used(State(m).mail, c)
  BY <1>1, Removed
<1> HIDE DEF r
<1>4. x \in States /\ x.mail = Closed /\ x.refs = r.refs
  BY <1>2, <1>3, WithMail
<1>5. FairTo(State(m), x)
  <2>1. \A c : CopiesOf(c, r.refs) \in Nat
    BY <1>3, Copies DEF States
  <2>2. \A c : Used(Closed, c) = 0
    BY <1>2 DEF Used
  <2> QED BY <1>3, <1>4, <2>1, <2>2 DEF FairTo
<1>6. /\ content' = content /\ saves' = saves /\ stored' \in [Mails -> SUBSET AllCats]
      /\ Put(m, x)
  BY DEF Unload, counters, CatInv, TypeOK, r
<1> HIDE DEF x
<1> QED BY <1>2, <1>4, <1>5, <1>6, PutCounts

\* What an item was read with, or less, but all that is the user's
BareOf(m, cats) == cats \subseteq view[m].was /\ (User \in view[m].was => User \in cats)

LEMMA CloseStep ==
  ASSUME CatInv, NEW m \in Mails, Close(m)
  PROVE  /\ CatInv'
         /\ \A n \in Mails : stored'[n] # stored[n] => BareOf(n, stored'[n])
<1> DEFINE cc == content[m]
<1>1. /\ cc \in MailContents /\ cc.store \in Stores /\ cc.store # Null /\ State(m) \in States
      /\ State(m).mail = view[m] /\ State(m).refs = refs[cc.store]
      /\ Sound(view[m], cc, view[m].was) /\ view[m] \in Objects
  BY StateOf
<1>2. /\ stored \in [Mails -> SUBSET AllCats] /\ content' = content /\ saves' = saves
      /\ view[m].phase # "none"
  BY DEF Close, counters, CatInv, TypeOK, Open
<1>3. \A c : CopiesOf(c, refs[cc.store]) \in Nat
  BY <1>1, Copies DEF CatInv, TypeOK
<1>4. CASE ~cc.smime
  <2> DEFINE mm == [view[m] EXCEPT !.phase = "closed", !.item = stored[m], !.was = stored[m]]
             x  == [State(m) EXCEPT !.mail = mm]
  <2>1. /\ mm \in Objects /\ mm.phase = "closed" /\ mm.item = stored[m] /\ mm.store = view[m].store
        /\ mm.was = stored[m]
        /\ mm.cat = view[m].cat /\ mm.junk = view[m].junk /\ mm.v = view[m].v
        /\ mm.print = view[m].print
    BY <1>1, <1>2 DEF Objects
  <2>2. x = [State(m) EXCEPT !.mail.phase = "closed", !.mail.item = stored[m], !.mail.was = stored[m]]
    BY <1>1 DEF States, Objects
  <2>3. stored' = [stored EXCEPT ![m] = stored[m]] /\ Put(m, x)
    BY <1>4, <2>2 DEF Close
  <2>4. stored' = stored
    BY <1>2, <2>3
  <2> HIDE DEF mm
  <2>5. x \in States /\ x.mail = mm /\ x.refs = refs[cc.store]
    BY <1>1, <2>1, WithMail
  <2>6. Sound(mm, cc, mm.was)
    BY <1>1, <2>1 DEF Sound, Counts
  <2>7. \A c : Uses(mm, c) <=> Uses(view[m], c)
    BY <2>1 DEF Uses
  <2>8. FairTo(State(m), x)
    BY <1>1, <1>3, <2>5, <2>7 DEF FairTo, Used
  <2> HIDE DEF x
  <2>9. CatInv'
    BY <1>2, <2>3, <2>4, <2>5, <2>6, <2>8, PutCounts
  <2> QED BY <2>4, <2>9
<1>5. CASE cc.smime
  <2> DEFINE r == RemoveCategories(State(m))
             left == r.mail.item
             after == UpdateCategories(r, m)
             am == [after.mail EXCEPT !.phase = "closed", !.item = left, !.was = left]
             x == [after EXCEPT !.mail = am]
  <2>1. /\ r \in States
        /\ \A c : CopiesOf(c, r.refs) >= CopiesOf(c, refs[cc.store]) - Used(view[m], c)
    BY <1>1, Removed
  <2>2. PICK keep \in SUBSET view[m].item :
          /\ r.mail = [view[m] EXCEPT !.item = keep]
          /\ User \in view[m].item => User \in keep
          /\ \A c \in keep : ~Uses(view[m], c)
    BY <1>1, Removed
  <2> HIDE DEF r
  <2>3. /\ r.mail \in Objects /\ left = keep /\ r.mail.store = view[m].store
        /\ r.mail.cat = view[m].cat /\ r.mail.junk = view[m].junk /\ r.mail.v = view[m].v
        /\ r.mail.print = view[m].print /\ r.mail.phase = view[m].phase
    BY <1>1, <2>1, <2>2 DEF States, Objects
  <2>4. BareOf(m, left) /\ left \in SUBSET AllCats
    BY <1>1, <1>2, <2>2, <2>3 DEF Sound, Objects, BareOf
  <2>5. Counts(r.mail, cc)
    BY <1>1, <2>3 DEF Sound, Counts
  <2>6. \A c : Uses(r.mail, c) <=> Uses(view[m], c)
    BY <2>3 DEF Uses
  <2> HIDE DEF left
  <2>7. /\ after \in States /\ Counts(after.mail, cc)
        /\ JunkApart => \A c : CopiesOf(c, after.refs) - Used(after.mail, c) >= CopiesOf(c, r.refs)
    <3>0. \A c : CopiesOf(c, r.refs) \in Nat
      BY <2>1, Copies DEF States
    <3>1. CASE r.mail.print
      <4>1. after = r
        BY <3>1 DEF UpdateCategories
      <4>2. JunkApart => r.mail.store = Null
        BY <1>1, <1>5, <2>3, <2>5, <3>1 DEF JunkApart, Counts, CatInv, TypeOK
      <4>3. r.mail.store = Null => \A c : Used(r.mail, c) = 0
        BY DEF Used, Uses
      <4> HIDE DEF after
      <4> QED BY <2>1, <2>5, <3>0, <4>1, <4>2, <4>3
    <3>2. CASE ~r.mail.print /\ cc.junk
      <4>1. ~JunkApart
        BY <1>5, <3>2 DEF JunkApart, CatInv, TypeOK
      <4>2. ~r.mail.v.valid /\ ~r.mail.v.dec
        BY <2>5, <3>2 DEF Counts, NoVerdict
      <4>3. /\ after \in States
            /\ after.mail = [r.mail EXCEPT !.item = Showing(r.mail),
                               !.store = IF r.mail.v.valid \/ r.mail.v.dec THEN cc.store ELSE @,
                               !.cat = IF r.mail.v.valid THEN Says(r.mail.v) ELSE @]
        BY <1>1, <2>1, <3>2, Updated
      <4> HIDE DEF after
      <4>4. /\ after.mail.v = r.mail.v /\ after.mail.store = r.mail.store
            /\ after.mail.cat = r.mail.cat /\ after.mail.junk = r.mail.junk
            /\ after.mail.print = r.mail.print
        BY <2>3, <4>2, <4>3 DEF Objects
      <4>5. Counts(after.mail, cc)
        BY <2>5, <4>4 DEF Counts
      <4> QED BY <4>1, <4>3, <4>5
    <3>3. CASE ~r.mail.print /\ ~cc.junk
      <4>1. ~r.mail.junk
        BY <2>5, <3>3 DEF Counts
      <4> QED BY <1>1, <2>1, <2>5, <3>3, <4>1, UpdatedCounts
    <3> QED BY <3>1, <3>2, <3>3
  <2>8. x = [SavedBare(State(m), m).after EXCEPT !.mail.phase = "closed", !.mail.item = left,
                                                 !.mail.was = left]
    <3>1. SavedBare(State(m), m).after = after /\ SavedBare(State(m), m).saved = left
      BY DEF SavedBare, r, left
    <3> HIDE DEF after
    <3> QED BY <2>7, <3>1 DEF States, Objects
  <2>9. stored' = [stored EXCEPT ![m] = left] /\ Put(m, x)
    <3>1. SavedBare(State(m), m).saved = left
      BY DEF SavedBare, r, left
    <3> HIDE DEF x
    <3> QED BY <1>5, <2>8, <3>1 DEF Close
  <2> HIDE DEF after
  <2>10. /\ am \in Objects /\ am.phase = "closed" /\ am.item = left /\ am.store = after.mail.store
         /\ am.cat = after.mail.cat /\ am.junk = after.mail.junk /\ am.v = after.mail.v
         /\ am.print = after.mail.print /\ am.was = left
    BY <2>4, <2>7 DEF States, Objects
  <2> HIDE DEF am
  <2>11. x \in States /\ x.mail = am /\ x.refs = after.refs
    BY <2>7, <2>10, WithMail
  <2>12. Sound(am, cc, am.was)
    BY <2>7, <2>10 DEF Sound, Counts
  <2>13. \A c : Uses(am, c) <=> Uses(after.mail, c)
    BY <2>10 DEF Uses
  <2>14. JunkApart => FairTo(State(m), x)
    <3>1. \A c : /\ CopiesOf(c, after.refs) \in Nat /\ CopiesOf(c, r.refs) \in Nat
                 /\ Used(after.mail, c) \in Nat /\ Used(view[m], c) \in Nat
      BY <2>1, <2>7, Copies DEF States, Used
    <3>2. \A c : Used(am, c) = Used(after.mail, c)
      BY <2>13 DEF Used
    <3> HIDE DEF x
    <3>3. SUFFICES ASSUME JunkApart, NEW c
                   PROVE  CopiesOf(c, x.refs) - Used(x.mail, c)
                            >= CopiesOf(c, State(m).refs) - Used(State(m).mail, c)
      BY DEF FairTo
    <3>4. /\ CopiesOf(c, after.refs) - Used(after.mail, c) >= CopiesOf(c, r.refs)
          /\ CopiesOf(c, r.refs) >= CopiesOf(c, refs[cc.store]) - Used(view[m], c)
      BY <2>1, <2>7, <3>3
    <3>5. CopiesOf(c, refs[cc.store]) \in Nat
      BY <1>3
    <3>6. /\ CopiesOf(c, x.refs) = CopiesOf(c, after.refs) /\ Used(x.mail, c) = Used(after.mail, c)
          /\ CopiesOf(c, State(m).refs) = CopiesOf(c, refs[cc.store])
          /\ Used(State(m).mail, c) = Used(view[m], c)
      BY <1>1, <2>11, <3>2
    <3> QED BY <3>1, <3>4, <3>5, <3>6
  <2>15. /\ stored' \in [Mails -> SUBSET AllCats] /\ stored'[m] = left
         /\ \A n \in Mails \ {m} : stored'[n] = stored[n]
    BY <1>2, <2>4, <2>9
  <2> HIDE DEF x
  <2>16. CatInv'
    BY <1>2, <2>9, <2>11, <2>12, <2>14, <2>15, PutCounts
  <2> QED BY <2>4, <2>15, <2>16
<1> QED BY <1>4, <1>5

LEMMA RestartStep ==
  ASSUME CatInv, Restart
  PROVE  CatInv'
<1>1. content' = content /\ stored' = stored
  BY DEF Restart
<1>2. \A m \in Mails : /\ content[m] \in MailContents /\ view'[m] = Closed /\ Closed \in Objects
                       /\ Sound(Closed, content[m], Closed.was) /\ \A c : ~Uses(Closed, c)
  BY ClosedSound DEF Restart, CatInv, TypeOK
<1>3. view' \in [Mails -> Objects]
  BY <1>2 DEF Restart
<1>4. EmptyBag \in SomeBags /\ DOMAIN EmptyBag = {}
  BY BagType DEF EmptyBag, SetToBag, IsABag
<1>5. TypeOK'
  BY <1>1, <1>3, <1>4 DEF Restart, delete_all_categories, CatInv, TypeOK
<1>6. AllSound'
  BY <1>1, <1>2 DEF AllSound
<1>7. Counted'
  <2> SUFFICES ASSUME NEW s \in Stores, NEW c
               PROVE  Cardinality(Users(s, c)') =< CopiesOf(c, refs'[s])
    BY DEF Counted
  <2>1. Users(s, c)' = {}
    BY <1>1, <1>2 DEF Users
  <2>2. Cardinality(Users(s, c)') = 0
    BY <2>1, FS_EmptySet
  <2>3. CopiesOf(c, refs'[s]) \in Nat
    BY <1>5, Copies DEF TypeOK
  <2> QED BY <2>2, <2>3
<1> QED BY <1>5, <1>6, <1>7 DEF CatInv

LEMMA Stays ==
  ASSUME CatInv, UNCHANGED <<content, view, refs, listed>>, saves' \in Nat,
         stored' \in [Mails -> SUBSET AllCats]
  PROVE  CatInv'
<1>1. TypeOK' /\ AllSound'
  BY DEF CatInv, TypeOK, AllSound
<1>2. \A s, c : Users(s, c)' = Users(s, c)
  BY DEF Users
<1>3. Counted'
  BY <1>2 DEF CatInv, Counted
<1> QED BY <1>1, <1>3 DEF CatInv

LEMMA SaveStep ==
  ASSUME CatInv, NEW m \in Mails, Save(m)
  PROVE  CatInv' /\ saves' # saves
<1>1. view[m].item \in SUBSET AllCats
  BY DEF CatInv, TypeOK, Objects
<1>2. stored' \in [Mails -> SUBSET AllCats]
  BY <1>1 DEF Save, CatInv, TypeOK
<1>3. saves' = saves + 1 /\ saves \in Nat
  BY DEF Save, CatInv, TypeOK
<1>4. CatInv'
  BY <1>2, <1>3, Stays DEF Save
<1> QED BY <1>3, <1>4

LEMMA NextInv ==
  ASSUME CatInv, ~Changes, [Next]_vars
  PROVE  /\ CatInv'
         /\ \A m \in Mails : stored'[m] # stored[m] /\ saves' = saves => BareOf(m, stored'[m])
<1> DEFINE Same == \A m \in Mails : stored'[m] # stored[m] /\ saves' = saves
                                      => BareOf(m, stored'[m])
<1>1. stored' = stored => Same
  OBVIOUS
<1>2. ASSUME NEW m \in Mails, NEW print \in BOOLEAN, Load(m, print) PROVE CatInv' /\ Same
  BY <1>1, <1>2, LoadStep DEF Load
<1>3. ASSUME NEW m \in Mails, Preview(m) PROVE CatInv' /\ Same
  BY <1>1, <1>3, ParseStep DEF Preview, counters
<1>4. ASSUME NEW m \in Mails, Done(m) PROVE CatInv' /\ Same
  BY <1>1, <1>4, ParseStep DEF Done, counters
<1>5. ASSUME NEW m \in Mails, Again(m) PROVE CatInv' /\ Same
  BY <1>1, <1>5, AgainStep DEF Again
<1>6. ASSUME NEW m \in Mails, Close(m) PROVE CatInv' /\ Same
  BY <1>6, CloseStep
<1>11. ASSUME NEW m \in Mails, Save(m) PROVE CatInv' /\ Same
  BY <1>11, SaveStep
<1>7. ASSUME NEW m \in Mails, Unload(m) PROVE CatInv' /\ Same
  BY <1>1, <1>7, UnloadStep DEF Unload
<1>8. ASSUME Restart PROVE CatInv' /\ Same
  BY <1>1, <1>8, RestartStep DEF Restart
<1>9. CASE UNCHANGED vars
  <2>1. content' = content /\ view' = view /\ stored' = stored /\ refs' = refs /\ listed' = listed
    BY <1>9 DEF vars
  <2>2. stored' \in [Mails -> SUBSET AllCats] /\ saves' \in Nat
    BY <1>9, <2>1 DEF vars, counters, CatInv, TypeOK
  <2> QED BY <1>1, <2>1, <2>2, Stays
<1> HIDE DEF Same
<1>10. ASSUME Next PROVE CatInv' /\ Same
  <2> QED BY <1>2, <1>3, <1>4, <1>5, <1>6, <1>7, <1>8, <1>10, <1>11 DEF Next
<1> QED BY <1>9, <1>10 DEF Same

LEMMA AlwaysInv == ~Changes => (Spec => []CatInv)
<1> SUFFICES ASSUME ~Changes PROVE Spec => []CatInv
  OBVIOUS
<1>1. Init => CatInv
  BY InitInv
<1>2. CatInv /\ [Next]_vars => CatInv'
  BY NextInv
<1> QED BY <1>1, <1>2, PTL DEF Spec

-----------------------------------------------------------------------------
\* A mail that shows a category has counted it, so the store has copies of it
LEMMA InvListed ==
  ASSUME CatInv, JunkApart
  PROVE  ListedWhileShown
<1> SUFFICES ASSUME NEW m \in Mails, NEW c \in Ours(view[m].item \ view[m].was)
             PROVE  c \in listed[content[m].store]
  BY DEF ListedWhileShown
<1> DEFINE s == content[m].store
           U == Users(s, c)
<1>1. s \in Stores /\ Sound(view[m], content[m], view[m].was)
  BY StateOf
<1>2. m \in U
  BY <1>1 DEF Sound, Users, Ours
<1>3. IsFiniteSet(U) /\ Cardinality(U) =< CopiesOf(c, refs[s])
  <2>1. U \subseteq Mails
    BY DEF Users
  <2> QED BY <1>1, <2>1, MailsAssumption, FS_Subset DEF CatInv, Counted
<1>4. refs[s] \in SomeBags /\ DOMAIN refs[s] \subseteq listed[s]
  BY <1>1 DEF CatInv, TypeOK
<1> HIDE DEF U
<1>5. Cardinality(U) # 0 /\ Cardinality(U) \in Nat
  BY <1>2, <1>3, FS_EmptySet, FS_CardinalityType
<1>6. CopiesOf(c, refs[s]) # 0
  BY <1>3, <1>4, <1>5, Copies
<1> QED BY <1>4, <1>6, Copies

\* A level that a mail was not read with is the one of its verdict
LEMMA NewLevel ==
  ASSUME CatInv, NEW m \in Mails, NEW c \in view[m].item \ view[m].was, IsLevel(c)
  PROVE  Final(content[m]).valid /\ c = Says(Final(content[m])) /\ view[m].v = Final(content[m])
<1>1. Sound(view[m], content[m], view[m].was)
  BY StateOf
<1>2. Uses(view[m], c)
  BY <1>1 DEF Sound
<1>3. c # Enc /\ c # Junk
  BY DEF IsLevel, Enc, Junk
<1> QED BY <1>1, <1>2, <1>3 DEF Uses, Sound, Counts

\* A mail is valid in the end if one of its signatures is trusted
LEMMA FinalValid ==
  ASSUME NEW cc \in MailContents
  PROVE  Final(cc).valid = IsValid(cc)
<1> DEFINE b == Base(cc)
           T == TrustedAt(b, cc.from)
<1>1. /\ b \in Verdicts /\ cc.from \in Senders /\ b.sigs = cc.sigs /\ b.verify = cc.verify
      /\ b.valid = FALSE /\ cc.sigs \in Seq(Signatures)
  BY Verdict3 DEF Base, NoVerdict, MailContents
<1>2. T # {} <=> \E i \in DOMAIN cc.sigs : Trusted(cc.sigs[i], SenderUid(cc.sigs[i], cc.from))
  BY <1>1 DEF TrustedAt
<1>3. Final(cc) = IF cc.from.sender = Null \/ cc.verify # "done" THEN b
                  ELSE IF T # {} THEN FirstTrusted(b, cc.from) ELSE NoneTrusted(b, cc.from)
  BY <1>1, SigstateCases DEF Final
<1>4. FirstTrusted(b, cc.from).valid = TRUE /\ NoneTrusted(b, cc.from).valid = FALSE
  BY <1>1 DEF FirstTrusted, NoneTrusted, Verdicts
<1> HIDE DEF b, T
<1> QED BY <1>1, <1>2, <1>3, <1>4 DEF IsValid

LEMMA InvVerdict ==
  ASSUME CatInv
  PROVE  ShowsVerdict
<1> DEFINE Own(w) == IF w.v.valid THEN {LevelOf(Level(w.v), w.v.uid.addr)} ELSE {}
<1> SUFFICES ASSUME NEW m \in Mails, view[m].phase \in {"preview", "shown"}, ~view[m].print
             PROVE  /\ (Enc \in view[m].item) = content[m].dec
                    /\ Own(view[m]) \subseteq view[m].item
                    /\ LevelsIn(view[m].item \ IF view[m].v.valid THEN view[m].was ELSE {})
                         \subseteq Own(view[m])
                    /\ view[m].v.valid = (Summary(view[m].v)[1] \in {"Security", "Trust"})
                    /\ view[m].phase = "shown" => view[m].v.valid = IsValid(content[m])
  BY DEF ShowsVerdict
<1> DEFINE v == view[m].v
           cc == content[m]
<1>1. cc \in MailContents /\ Sound(view[m], cc, view[m].was) /\ view[m] \in Objects
  BY StateOf
<1>2. Tells(view[m]) /\ v \in Verdicts /\ v.dec \in BOOLEAN /\ v.valid \in BOOLEAN
  BY <1>1 DEF Sound, Objects, Verdicts
<1>3. cc.from \in Senders /\ (v.valid => Earned(v, cc.from))
  <2>1. v \in {NoVerdict, Pre(cc), Final(cc)}
    BY <1>1 DEF Sound, Counts
  <2> QED BY <1>1, <2>1, Verdict3
<1>4. v.valid <=> Summary(v)[1] \in {"Security", "Trust"}
  BY <1>2, <1>3, LevelOfVerdict
<1>5. v.valid = (Summary(v)[1] \in {"Security", "Trust"})
  BY <1>2, <1>4
<1>6. (Enc \in view[m].item) = cc.dec
  <2>1. Enc \in view[m].item <=> v.dec
    BY <1>2 DEF Tells
  <2>2. Pre(cc).dec = cc.dec
    BY DEF Pre, NoVerdict
  <2>3. v \in {Pre(cc), Final(cc)}
    BY <1>1 DEF Sound
  <2> HIDE DEF v
  <2>4. v.dec = cc.dec
    BY <1>1, <2>2, <2>3, Verdict3
  <2> QED BY <1>2, <2>1, <2>4
<1>7. Own(view[m]) \subseteq view[m].item
  BY <1>2 DEF Tells, Says
<1>8. LevelsIn(view[m].item \ IF v.valid THEN view[m].was ELSE {}) \subseteq Own(view[m])
  <2>1. CASE v.valid
    <3> SUFFICES ASSUME NEW c \in view[m].item \ view[m].was, IsLevel(c)
                 PROVE  c = LevelOf(Level(v), v.uid.addr)
      BY <2>1 DEF LevelsIn
    <3> QED BY NewLevel DEF Says
  <2>2. CASE ~v.valid
    BY <1>2, <2>2 DEF Tells, LevelsIn
  <2> QED BY <2>1, <2>2
<1>9. view[m].phase = "shown" => v.valid = IsValid(cc)
  BY <1>1, FinalValid DEF Sound
<1> QED BY <1>5, <1>6, <1>7, <1>8, <1>9

LEMMA InvEarned ==
  ASSUME CatInv
  PROVE  LevelEarned
<1> SUFFICES ASSUME NEW m \in Mails, NEW c \in view[m].item \ view[m].was, IsLevel(c)
             PROVE  \E s \in DOMAIN content[m].sigs :
                      LET sig == content[m].sigs[s]
                      IN \E i \in DOMAIN sig.uids :
                           /\ sig.uids[i].addr = c[3]
                           /\ c[3] \in {content[m].from.sender, content[m].from.behalf}
                           /\ Vouches(sig.uids[i], sig, c[2])
                           /\ c[2] \in {3, 4} /\ DeVsMode => sig.deVs
  BY DEF LevelEarned
<1> DEFINE cc == content[m]
           v == Final(cc)
<1>1. cc \in MailContents
  BY StateOf
<1>2. c = Says(v) /\ v.valid
  BY NewLevel
<1>3. /\ v \in Verdicts /\ Earned(v, cc.from) /\ v.sigs = cc.sigs /\ cc.from \in Senders
      /\ v.sig \in Signatures
  BY <1>1, <1>2, Verdict3 DEF Verdicts
<1> HIDE DEF v
<1>4. PICK s \in DOMAIN cc.sigs : v.sig = cc.sigs[s]
  BY <1>3 DEF Earned
<1>5. v.uid = SenderUid(v.sig, cc.from) /\ v.uid # NoUid /\ Trusted(v.sig, v.uid) /\ v.signed
  BY <1>3, NobodyTrusted DEF Earned
<1>6. PICK i \in DOMAIN v.sig.uids : /\ v.sig.uids[i] = v.uid
                                     /\ v.uid.addr \in {cc.from.sender, cc.from.behalf}
  BY <1>3, <1>5, SenderFound
<1>7. c[2] = Level(v) /\ c[3] = v.uid.addr
  BY <1>2 DEF Says, LevelOf
<1>8. Vouches(v.uid, v.sig, Level(v)) /\ (Level(v) \in {3, 4} /\ DeVsMode => v.sig.deVs)
  <2>1. CASE Level4(v.uid) # 0 /\ Approved(v)
    BY <1>2, <1>5, <2>1 DEF Level, Level4, Approved, Vouches
  <2>2. CASE ~(Level4(v.uid) # 0 /\ Approved(v)) /\ v.uid.validity = "full" /\ Approved(v)
    BY <1>2, <1>5, <2>2 DEF Level, Approved, Vouches
  <2>3. CASE ~(Level4(v.uid) # 0 /\ Approved(v)) /\ ~(v.uid.validity = "full" /\ Approved(v))
    <3>1. Level(v) = 2
      BY <1>2, <1>5, <2>3 DEF Level
    <3> QED BY <1>5, <3>1 DEF Vouches, Trusted, Known, Null
  <2> QED BY <2>1, <2>2, <2>3
<1> QED BY <1>4, <1>6, <1>7, <1>8

-----------------------------------------------------------------------------
(***************************************************************************)
(* The explanation of a level. For a mail with one signature the verdict   *)
(* keeps that signature, whether it is trusted or not, and one branch of   *)
(* getCryptoDetails_o names no reason: level 1 for an address whose        *)
(* history is neither short nor long, seen more than once.                 *)
(***************************************************************************)
Unexplained(v) == Level(v) = 1 /\ v.uid.tofu \in {"none", "conflict"} /\ ~v.uid.first

ProblemsIn(S) == {i \in 1..Len(KeyProblems) : KeyProblems[i] \in S}

LEMMA ProblemNamed ==
  ASSUME NEW S, ProblemsIn(S) # {}
  PROVE  Min(ProblemsIn(S)) # 0 /\ KeyProblems[Min(ProblemsIn(S))] # ""
<1>1. Len(KeyProblems) = 7
  BY DEF KeyProblems
<1>2. ProblemsIn(S) \in SUBSET Nat /\ ProblemsIn(S) \subseteq 1..7
  BY <1>1 DEF ProblemsIn
<1>3. Min(ProblemsIn(S)) \in 1..7
  BY <1>2, MinIn
<1>4. ASSUME NEW i \in 1..7 PROVE KeyProblems[i] # ""
  <2>1. /\ KeyProblems[1] # "" /\ KeyProblems[2] # "" /\ KeyProblems[3] # ""
        /\ KeyProblems[4] # "" /\ KeyProblems[5] # "" /\ KeyProblems[6] # ""
        /\ KeyProblems[7] # ""
    BY DEF KeyProblems
  <2>2. i = 1 \/ i = 2 \/ i = 3 \/ i = 4 \/ i = 5 \/ i = 6 \/ i = 7
    OBVIOUS
  <2> QED BY <2>1, <2>2
<1>5. Min(ProblemsIn(S)) # 0
  BY <1>3
<1> QED BY <1>3, <1>4, <1>5, Zenon

LEMMA KeyBlamed ==
  ASSUME NEW v \in Verdicts, v.sig.validity \in {"unknown", "never"} \/ v.uid = NoUid,
         General(v) = ""
  PROVE  OfKey(v) # ""
<1> DEFINE I == ProblemsIn(v.sig.summary)
           problem == IF I # {} THEN Min(I) ELSE 0
<1>3. OfKey(v) = IF problem # 0 THEN KeyProblems[problem]
                 ELSE IF v.uid.tofu = "conflict" THEN "TofuConflict"
                 ELSE IF v.uid = NoUid THEN "other address"
                 ELSE IF General(v) = "" /\ (v.sig.validity # "never" \/ v.sig.summary = {})
                      THEN "not certified"
                 ELSE IF v.uid.revoked THEN "address revoked"
                 ELSE IF v.sig.validity = "never" THEN "not trustworthy" ELSE ""
  BY DEF OfKey, SelectInSeq, ProblemsIn
<1>4. problem # 0 => KeyProblems[problem] # ""
  <2> HIDE DEF I
  <2> QED BY ProblemNamed DEF I
<1> HIDE DEF I, problem
<1> QED BY <1>3, <1>4

LEMMA Blamed ==
  ASSUME NEW v \in Verdicts, v.sig.validity \in {"unknown", "never"} \/ v.uid = NoUid
  PROVE  Blame(v) # {}
<1>1. CASE General(v) = ""
  <2>1. OfKey(v) \in {General(v), OfKey(v)} \ {""}
    BY <1>1, KeyBlamed
  <2> QED BY <1>1, <2>1 DEF Blame
<1>2. CASE General(v) # ""
  BY <1>2 DEF Blame
<1> QED BY <1>1, <1>2

LEMMA ReasonsOf ==
  ASSUME NEW v \in Verdicts, NEW from \in Senders, v.valid => Earned(v, from),
         v.valid \/ ~Trusted(v.sig, v.uid), v.signed \/ v.uid = NoUid
  PROVE  Reasons(v) = {} <=> Unexplained(v)
<1>0. v.sig \in Signatures /\ v.uid \in Uids /\ v.sig.validity \in Validities
  BY DEF Verdicts, Signatures
<1>1. Level(v) \in 0..4 /\ (v.valid <=> Level(v) >= 2)
  BY LevelOfVerdict
<1>2. CASE Level(v) = 4
  <2>1. Level4(v.uid) \in {1, 2}
    BY <1>2 DEF Level, Level4
  <2>2. Level4(v.uid) = 2 => Reasons(v) = {IF v.sig.secret THEN "you" ELSE "certifier"}
    BY <1>2 DEF Reasons
  <2>3. Level4(v.uid) = 1 => Reasons(v) = {"certified by you"}
    BY <1>2 DEF Reasons
  <2>4. Reasons(v) # {}
    BY <2>1, <2>2, <2>3
  <2>5. ~Unexplained(v)
    BY <1>2 DEF Unexplained
  <2> QED BY <2>4, <2>5
<1>3. CASE Level(v) = 3
  <2>1. Reasons(v) = {IF v.sig.smime THEN "issuer" ELSE "several people"}
    BY <1>3 DEF Reasons
  <2>2. Reasons(v) # {}
    BY <2>1
  <2>3. ~Unexplained(v)
    BY <1>3 DEF Unexplained
  <2> QED BY <2>2, <2>3
<1>4. CASE Level(v) = 2
  <2>1. Reasons(v) = {IF v.uid.wkd THEN "provider"
                      ELSE IF v.uid.tofu = Null THEN "some people" ELSE "history"}
    BY <1>4 DEF Reasons
  <2>2. Reasons(v) # {}
    BY <2>1
  <2>3. ~Unexplained(v)
    BY <1>4 DEF Unexplained
  <2> QED BY <2>2, <2>3
<1>5. CASE Level(v) = 1
  <2>1. ~v.valid /\ v.uid # NoUid /\ v.sig.validity = "marginal"
    BY <1>1, <1>5 DEF Level
  <2>2. v.uid.tofu \in {"none", "conflict", "little"}
    BY <1>0, <2>1 DEF Trusted, Known, Uids
  <2>3. Reasons(v) = (IF v.uid.first THEN {"first time"} ELSE {})
                       \cup (IF v.uid.tofu = "little" /\ ~v.uid.first THEN {"little history"} ELSE {})
    BY <1>5 DEF Reasons
  <2> QED BY <1>5, <2>2, <2>3 DEF Unexplained
<1>6. CASE Level(v) = 0
  <2>1. v.sig.validity \in {"unknown", "never"} \/ v.uid = NoUid
    <3> SUFFICES ASSUME v.uid # NoUid PROVE v.sig.validity \in {"unknown", "never"}
      OBVIOUS
    <3>1. ~v.valid /\ v.signed /\ v.sig.validity # "marginal"
      BY <1>1, <1>6 DEF Level
    <3> QED BY <1>0, <3>1 DEF Trusted, Validities
  <2>2. Reasons(v) = Blame(v)
    BY <1>6 DEF Reasons
  <2> QED BY <1>6, <2>1, <2>2, Blamed DEF Unexplained
<1> QED BY <1>1, <1>2, <1>3, <1>4, <1>5, <1>6

\* The verdict keeps the only signature of a mail
LEMMA OneSignature ==
  ASSUME NEW cc \in MailContents, cc.verify = "done", Len(cc.sigs) = 1
  PROVE  /\ Final(cc).valid \/ ~Trusted(Final(cc).sig, Final(cc).uid)
         /\ Final(cc).signed \/ Final(cc).uid = NoUid
         /\ Final(cc).uid # NoUid => Final(cc).sig = cc.sigs[1]
                                     /\ Final(cc).uid = SenderUid(cc.sigs[1], cc.from)
<1> DEFINE b == Base(cc)
           v == Final(cc)
<1>1. /\ b \in Verdicts /\ cc.from \in Senders
      /\ b.sigs = cc.sigs /\ b.verify = "done" /\ ~b.valid /\ ~b.signed
      /\ b.uid = NoUid /\ b.sig = NoSig
  BY Verdict3 DEF Base, NoVerdict
<1>2. v = IF cc.from.sender = Null THEN b
          ELSE IF TrustedAt(b, cc.from) # {} THEN FirstTrusted(b, cc.from)
          ELSE NoneTrusted(b, cc.from)
  BY <1>1, SigstateCases DEF Final
<1>3. TrustedAt(b, cc.from) \subseteq {1}
  BY <1>1 DEF TrustedAt
<1>4. TrustedAt(b, cc.from) # {} => Min(TrustedAt(b, cc.from)) = 1
  <2>1. TrustedAt(b, cc.from) \in SUBSET Nat
    BY <1>3
  <2> QED BY <1>3, <2>1, MinIn
<1>5. CASE cc.from.sender = Null
  <2>1. v = b
    BY <1>2, <1>5
  <2> HIDE DEF b, v
  <2> QED BY <1>1, <2>1, NobodyTrusted DEF v, Verdicts
<1>6. CASE cc.from.sender # Null /\ TrustedAt(b, cc.from) # {}
  <2>1. v = FirstTrusted(b, cc.from)
    BY <1>2, <1>6
  <2> HIDE DEF b, v
  <2>2. v.valid /\ v.signed /\ v.sig = cc.sigs[1] /\ v.uid = SenderUid(cc.sigs[1], cc.from)
    BY <1>1, <1>4, <1>6, <2>1 DEF FirstTrusted, Verdicts
  <2> QED BY <2>2 DEF v
<1>7. CASE cc.from.sender # Null /\ TrustedAt(b, cc.from) = {}
  <2>1. v = NoneTrusted(b, cc.from)
    BY <1>2, <1>7
  <2>2. ~Trusted(cc.sigs[1], SenderUid(cc.sigs[1], cc.from))
    <3> HIDE DEF b
    <3> QED BY <1>1, <1>7 DEF TrustedAt
  <2> HIDE DEF b, v
  <2>3. Len(b.sigs) = 1 /\ b.sigs = cc.sigs
    BY <1>1
  <2> DEFINE sig == cc.sigs[1]
             uid == SenderUid(cc.sigs[1], cc.from)
  <2> DEFINE c == b.signed \/ Len(b.sigs) > 0
  <2>4. v = [b EXCEPT !.signed = c, !.sig = sig, !.uid = uid]
    BY <2>1, <2>3 DEF NoneTrusted
  <2>5. c = TRUE
    BY <2>3
  <2> HIDE DEF sig, uid, c
  <2>6. v.sig = sig /\ v.uid = uid
    BY <1>1, <2>4 DEF Verdicts
  <2>7. v.signed
    BY <1>1, <2>4, <2>5 DEF Verdicts
  <2> QED BY <2>2, <2>6, <2>7 DEF v, sig, uid
<1> QED BY <1>5, <1>6, <1>7

OneSignatureShown(w) == /\ w.phase = "shown" /\ Signed(w.v) /\ w.v.verify = "done"
                        /\ Len(w.v.sigs) = 1

LEMMA InvReasons ==
  ASSUME CatInv, NEW m \in Mails, OneSignatureShown(view[m])
  PROVE  /\ Reasons(view[m].v) = {} <=> Unexplained(view[m].v)
         /\ view[m].v = Final(content[m]) /\ Len(content[m].sigs) = 1
         /\ content[m].verify = "done"
<1> DEFINE v == view[m].v
           cc == content[m]
<1>1. cc \in MailContents /\ Sound(view[m], cc, view[m].was)
  BY StateOf
<1>2. v \in {NoVerdict, Pre(cc), Final(cc)}
  BY <1>1 DEF Sound, Counts
<1>3. v = Final(cc)
  BY <1>2 DEF OneSignatureShown, Pre, NoVerdict, Null
<1>4. /\ cc.verify = "done" /\ Len(cc.sigs) = 1 /\ v \in Verdicts /\ cc.from \in Senders
      /\ v.valid => Earned(v, cc.from)
  <2> HIDE DEF v
  <2>1. /\ Final(cc).sigs = cc.sigs /\ Final(cc).verify = cc.verify /\ Final(cc) \in Verdicts
        /\ cc.from \in Senders /\ (Final(cc).valid => Earned(Final(cc), cc.from))
    BY <1>1, Verdict3
  <2> QED BY <1>3, <2>1 DEF v, OneSignatureShown
<1>5. (v.valid \/ ~Trusted(v.sig, v.uid)) /\ (v.signed \/ v.uid = NoUid)
  BY <1>1, <1>3, <1>4, OneSignature
<1> QED BY <1>3, <1>4, <1>5, ReasonsOf

\* What getCryptoDetails_o takes for granted at level 1 (mail.cpp:3564): marginal
\* trust goes with little history, if the mail is not the first one. It is for gpg
\* to keep to that
HistoriesGrow ==
  \A m \in Mails : \A c \in MayBe(m) : \A s \in DOMAIN c.sigs :
    c.sigs[s].validity = "marginal"
      => \A i \in DOMAIN c.sigs[s].uids :
           c.sigs[s].uids[i].tofu \in {"none", "conflict"} => c.sigs[s].uids[i].first

LEMMA InvExplained ==
  ASSUME CatInv, HistoriesGrow
  PROVE  Explained
<1> SUFFICES ASSUME NEW m \in Mails, OneSignatureShown(view[m])
             PROVE  Reasons(view[m].v) # {}
  BY DEF Explained, OneSignatureShown
<1> DEFINE v == view[m].v
           cc == content[m]
<1>1. /\ Reasons(v) = {} <=> Unexplained(v)
      /\ v = Final(cc) /\ Len(cc.sigs) = 1 /\ cc.verify = "done"
  BY InvReasons
<1>2. SUFFICES ASSUME Unexplained(v) PROVE FALSE
  BY <1>1
<1>3. v.uid # NoUid /\ v.sig.validity = "marginal"
  BY <1>2 DEF Unexplained, Level
<1>4. cc \in MailContents /\ cc \in MayBe(m) /\ cc.from \in Senders
  BY StateOf, Verdict3 DEF CatInv, TypeOK
<1>5. v.sig = cc.sigs[1] /\ v.uid = SenderUid(cc.sigs[1], cc.from)
  BY <1>1, <1>3, <1>4, OneSignature
<1>6. 1 \in DOMAIN cc.sigs /\ cc.sigs[1] \in Signatures
  <2>1. cc.sigs \in Seq(Signatures)
    BY <1>4 DEF MailContents
  <2> QED BY <1>1, <2>1
<1>7. PICK i \in DOMAIN cc.sigs[1].uids : cc.sigs[1].uids[i] = v.uid
  BY <1>3, <1>4, <1>5, <1>6, SenderFound
<1> HIDE DEF v
<1> QED BY <1>2, <1>3, <1>4, <1>5, <1>6, <1>7 DEF HistoriesGrow, Unexplained

-----------------------------------------------------------------------------
\* Whatever mails share a store and in whatever order they are read, closed and
\* unloaded, the categories GpgOL put on them stay in the list of their store,
\* if no S/MIME mail with attachments is in the Junk folder and a mail that is
\* read again is found to be what it was
THEOREM ListedAsLongAsShown == JunkApart /\ ~Changes => (Spec => []ListedWhileShown)
<1> SUFFICES ASSUME JunkApart, ~Changes PROVE Spec => []ListedWhileShown
  OBVIOUS
<1>1. CatInv => ListedWhileShown
  BY InvListed
<1> QED BY <1>1, AlwaysInv, PTL

\* A mail that is found to be the same whenever it is read shows its own level
\* exactly if one of its signatures makes it valid, and no level if none does;
\* of others' levels a valid mail shows those it was stored with
THEOREM VerdictShown == ~Changes => (Spec => []ShowsVerdict)
<1> SUFFICES ASSUME ~Changes PROVE Spec => []ShowsVerdict
  OBVIOUS
<1>1. CatInv => ShowsVerdict
  BY InvVerdict
<1> QED BY <1>1, AlwaysInv, PTL

\* A level that GpgOL adds to a mail rests on one of its signatures, by the
\* sender's key, that is good enough for the level, as long as a mail that is read
\* again is found to be what it was: without that the code is refuted by a run
THEOREM LevelsAreEarned == ~Changes => (Spec => []LevelEarned)
<1> SUFFICES ASSUME ~Changes PROVE Spec => []LevelEarned
  OBVIOUS
<1>1. CatInv => LevelEarned
  BY InvEarned
<1> QED BY <1>1, AlwaysInv, PTL

\* What Mail::close stores of an S/MIME mail has the user's categories and none
\* that GpgOL put on it since it was read, wherever Outlook saved it in between
THEOREM StoredClean == ~Changes => (Spec => SavedClean)
<1> SUFFICES ASSUME ~Changes PROVE Spec => SavedClean
  OBVIOUS
<1>1. CatInv /\ [Next]_vars
        => [\A m \in Mails : stored'[m] # stored[m] /\ saves' = saves
                               => /\ stored'[m] \subseteq view[m].was
                                  /\ User \in view[m].was => User \in stored'[m]]_vars
  BY NextInv DEF BareOf
<1> QED BY <1>1, AlwaysInv, PTL DEF Spec, SavedClean

\* What the details of a mail with one signature leave out is one case, whatever
\* gpg says of the signature
THEOREM OneBranchSaysNothing ==
  ~Changes => (Spec => [](\A m \in Mails :
                            OneSignatureShown(view[m])
                              => (Reasons(view[m].v) = {} <=> Unexplained(view[m].v))))
<1> SUFFICES ASSUME ~Changes
             PROVE  Spec => [](\A m \in Mails :
                                 OneSignatureShown(view[m])
                                   => (Reasons(view[m].v) = {} <=> Unexplained(view[m].v)))
  OBVIOUS
<1>1. CatInv => \A m \in Mails : OneSignatureShown(view[m])
                                   => (Reasons(view[m].v) = {} <=> Unexplained(view[m].v))
  BY InvReasons
<1> QED BY <1>1, AlwaysInv, PTL

\* Every level of a mail with one signature is explained, if an address that gpg
\* trusts marginally has been seen for the first time or has a history
THEOREM LevelsAreExplained == HistoriesGrow /\ ~Changes => (Spec => []Explained)
<1> SUFFICES ASSUME HistoriesGrow, ~Changes PROVE Spec => []Explained
  OBVIOUS
<1>1. CatInv => Explained
  BY InvExplained
<1> QED BY <1>1, AlwaysInv, PTL
=============================================================================
