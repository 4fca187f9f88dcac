----------------------------- MODULE Mime_proofs -----------------------------
(***************************************************************************)
(* Lemmas about the MIME modules, for the mails of RoundTrip: what the     *)
(* helpers on sequences return, what the lines that are written hold, and  *)
(* what the parser makes of them, from one line to a whole structure.      *)
(***************************************************************************)
EXTENDS RoundTrip, WellFoundedInduction, TLAPS

(***************************************************************************)
(* Induction, as the existence of a least counterexample.                  *)
(***************************************************************************)
LEMMA NatMin ==
  ASSUME NEW T, T \subseteq Nat, T # {}
  PROVE  \E x \in T : \A y \in T : x <= y
<1> DEFINE R == { ss \in Nat \X Nat : ss[1] < ss[2] }
<1>0. IsWellFoundedOn(R, Nat)
  BY NatLessThanWellFounded DEF OpToRel
<1> HIDE DEF R
<1>1. PICK x \in T : \A y \in T : ~ (<<y, x>> \in R)
  BY <1>0, WFMin
<1>2. \A y \in T : ~(y < x)
  BY <1>1 DEF R
<1> QED
  BY <1>2

\* A set of naturals with 0 and all successors up to n
LEMMA Induct ==
  ASSUME NEW n \in Nat, NEW T, 0 \in T, \A i \in 0..(n - 1) : i \in T => i + 1 \in T
  PROVE  0..n \subseteq T
<1>1. SUFFICES ASSUME (0..n) \ T # {} PROVE FALSE
  OBVIOUS
<1>0. (0..n) \ T \subseteq Nat
  OBVIOUS
<1>2. PICK x \in (0..n) \ T : \A y \in (0..n) \ T : x <= y
  BY <1>0, <1>1, NatMin
<1>3. x - 1 \in 0..(n - 1) /\ x - 1 \in T
  BY <1>2
<1> QED
  BY <1>2, <1>3

\* A set of sequences with the empty one, closed under one more element
LEMMA SeqInduct ==
  ASSUME NEW S, NEW T, <<>> \in T,
         \A s \in Seq(S), x \in S : s \in T => Append(s, x) \in T
  PROVE  Seq(S) \subseteq T
<1> SUFFICES ASSUME NEW s \in Seq(S) PROVE s \in T
  OBVIOUS
<1> DEFINE N == { i \in 0..Len(s) : SubSeq(s, 1, i) \in T }
<1>0. Len(s) \in Nat
  OBVIOUS
<1>1. 0 \in N
  <2>1. SubSeq(s, 1, 0) = <<>>
    OBVIOUS
  <2>2. SubSeq(s, 1, 0) \in T
    BY <2>1, Zenon
  <2> QED
    BY <1>0, <2>2
<1>2. ASSUME NEW i \in 0..(Len(s) - 1), i \in N PROVE i + 1 \in N
  <2>1. /\ SubSeq(s, 1, i) \in Seq(S) /\ s[i + 1] \in S
        /\ SubSeq(s, 1, i + 1) = Append(SubSeq(s, 1, i), s[i + 1])
    OBVIOUS
  <2>2. SubSeq(s, 1, i) \in T
    BY <1>2
  <2>3. SubSeq(s, 1, i + 1) \in T
    BY <2>1, <2>2
  <2> QED
    BY <1>0, <2>3
<1> HIDE DEF N
<1>3. 0..Len(s) \subseteq N
  BY <1>0, <1>1, <1>2, Induct
<1>4. SubSeq(s, 1, Len(s)) \in T
  BY <1>0, <1>3 DEF N
<1>5. SubSeq(s, 1, Len(s)) = s
  OBVIOUS
<1> QED
  BY <1>4, <1>5
-----------------------------------------------------------------------------
(* Flattened sequences.                                                    *)

\* What FlattenSeq computes step by step
Steps(ss, n, f) ==
  f = [i \in 1..n |-> IF i = 1 THEN ss[i] ELSE f[i - 1] \o ss[i]]

LEMMA StepsExist ==
  ASSUME NEW S, NEW ss \in Seq(Seq(S))
  PROVE  \E f : Steps(ss, Len(ss), f)
<1> DEFINE T == { n \in 0..Len(ss) : \E f : Steps(ss, n, f) }
<1>0. Len(ss) \in Nat
  OBVIOUS
<1>1. 0 \in T
  <2>1. Steps(ss, 0, [i \in 1..0 |-> ss[1]])
    BY DEF Steps
  <2> QED
    BY <1>0, <2>1
<1>2. ASSUME NEW n \in 0..(Len(ss) - 1), n \in T PROVE n + 1 \in T
  <2>1. PICK f : Steps(ss, n, f)
    BY <1>2
  <2> DEFINE g == [i \in 1..(n + 1) |-> IF i <= n THEN f[i] ELSE IF i = 1 THEN ss[i] ELSE f[i - 1] \o ss[i]]
             h == [i \in 1..(n + 1) |-> IF i = 1 THEN ss[i] ELSE g[i - 1] \o ss[i]]
  <2>2. ASSUME NEW i \in 1..(n + 1) PROVE g[i] = h[i]
    <3>1. CASE i <= n
      <4>1. i \in 1..n /\ g[i] = f[i]
        BY <3>1
      <4>2. f[i] = IF i = 1 THEN ss[i] ELSE f[i - 1] \o ss[i]
        BY <2>1, <4>1 DEF Steps
      <4>3. i # 1 => g[i - 1] = f[i - 1]
        BY <4>1
      <4> QED
        BY <4>1, <4>2, <4>3
    <3>2. CASE i = n + 1
      <4>1. i # 1 => g[i - 1] = f[i - 1]
        BY <3>2
      <4> QED
        BY <3>2, <4>1
    <3> QED
      BY <3>1, <3>2
  <2>3. g = h
    BY <2>2
  <2> HIDE DEF g
  <2>4. Steps(ss, n + 1, g)
    BY <2>3 DEF Steps
  <2>5. n + 1 \in 0..Len(ss)
    BY <1>0
  <2> QED
    BY <2>4, <2>5
<1> HIDE DEF T
<1>3. 0..Len(ss) \subseteq T
  BY <1>0, <1>1, <1>2, Induct
<1>4. Len(ss) \in T
  BY <1>0, <1>3
<1> QED
  BY <1>4 DEF T

LEMMA FlattenSteps ==
  ASSUME NEW S, NEW ss \in Seq(Seq(S)), Len(ss) > 0
  PROVE  \E f : Steps(ss, Len(ss), f) /\ FlattenSeq(ss) = f[Len(ss)]
<1> DEFINE g == CHOOSE f : Steps(ss, Len(ss), f)
<1>1. Steps(ss, Len(ss), g)
  BY StepsExist
<1>2. FlattenSeq(ss) = g[Len(ss)]
  BY DEF FlattenSeq, Steps
<1> QED
  BY <1>1, <1>2

LEMMA FlatNone == FlattenSeq(<<>>) = <<>>
  BY DEF FlattenSeq

\* The values of the steps, and that they do not depend on what comes after
LEMMA StepsType ==
  ASSUME NEW S, NEW ss \in Seq(Seq(S)), NEW n \in 0..Len(ss), NEW f, Steps(ss, n, f)
  PROVE  \A i \in 1..n : f[i] \in Seq(S)
<1> DEFINE T == { i \in 0..n : i = 0 \/ f[i] \in Seq(S) }
<1>0. n \in Nat /\ Len(ss) \in Nat
  OBVIOUS
<1>1. 0 \in T
  BY <1>0
<1>2. ASSUME NEW i \in 0..(n - 1), i \in T PROVE i + 1 \in T
  <2>0. i + 1 \in 1..n
    BY <1>0
  <2>1. f[i + 1] = IF i + 1 = 1 THEN ss[i + 1] ELSE f[(i + 1) - 1] \o ss[i + 1]
    BY <2>0 DEF Steps
  <2>2. ss[i + 1] \in Seq(S)
    BY <1>0
  <2>3. f[i + 1] \in Seq(S)
    BY <1>2, <2>1, <2>2
  <2> QED
    BY <1>0, <2>3
<1> HIDE DEF T
<1>3. 0..n \subseteq T
  BY <1>0, <1>1, <1>2, Induct
<1> QED
  BY <1>0, <1>3 DEF T

LEMMA StepsSame ==
  ASSUME NEW S, NEW ss \in Seq(Seq(S)), NEW t \in Seq(S),
         NEW f, Steps(ss, Len(ss), f), NEW g, Steps(Append(ss, t), Len(ss) + 1, g)
  PROVE  \A i \in 1..Len(ss) : f[i] = g[i]
<1> DEFINE n == Len(ss)
           u == Append(ss, t)
           T == { i \in 0..n : i = 0 \/ f[i] = g[i] }
<1>0. n \in Nat /\ \A i \in 1..n : u[i] = ss[i]
  OBVIOUS
<1>1. 0 \in T
  BY <1>0
<1>a. \A i \in 1..n : f[i] = IF i = 1 THEN ss[i] ELSE f[i - 1] \o ss[i]
  BY DEF Steps
<1>b. \A i \in 1..(n + 1) : g[i] = IF i = 1 THEN u[i] ELSE g[i - 1] \o u[i]
  BY DEF Steps
<1> HIDE DEF n, u
<1>2. ASSUME NEW i \in 0..(n - 1), i \in T PROVE i + 1 \in T
  <2>1. f[i + 1] = IF i + 1 = 1 THEN ss[i + 1] ELSE f[(i + 1) - 1] \o ss[i + 1]
    BY <1>0, <1>a
  <2>2. g[i + 1] = IF i + 1 = 1 THEN u[i + 1] ELSE g[(i + 1) - 1] \o u[i + 1]
    BY <1>0, <1>b
  <2>3. f[i + 1] = g[i + 1]
    BY <1>0, <1>2, <2>1, <2>2
  <2> QED
    BY <1>0, <2>3
<1> HIDE DEF T
<1>3. 0..n \subseteq T
  BY <1>0, <1>1, <1>2, Induct
<1> QED
  <2>1. \A i \in 1..n : i \in T
    BY <1>0, <1>3
  <2>2. \A i \in 1..n : i # 0 /\ f[i] = g[i]
    BY <1>0, <2>1 DEF T
  <2> QED
    BY <2>2 DEF n

\* One more sequence behind
LEMMA FlatAppend ==
  ASSUME NEW S, NEW ss \in Seq(Seq(S)), NEW t \in Seq(S)
  PROVE  FlattenSeq(Append(ss, t)) = FlattenSeq(ss) \o t
<1> DEFINE u == Append(ss, t)
           n == Len(ss)
<1>0. n \in Nat /\ u \in Seq(Seq(S)) /\ Len(u) = n + 1 /\ u[n + 1] = t /\ Len(u) > 0
  OBVIOUS
<1> HIDE DEF u
<1>a. \E g : Steps(u, Len(u), g) /\ FlattenSeq(u) = g[Len(u)]
  BY <1>0, FlattenSteps
<1>1. PICK g : Steps(u, n + 1, g) /\ FlattenSeq(u) = g[n + 1]
  BY <1>0, <1>a
<1>b. n + 1 \in 1..(n + 1)
  BY <1>0
<1>2. g[n + 1] = IF n + 1 = 1 THEN u[n + 1] ELSE g[(n + 1) - 1] \o u[n + 1]
  BY <1>b, <1>1 DEF Steps
<1>3. CASE n = 0
  <2>1. ss = <<>> /\ u[n + 1] = t
    BY <1>0, <1>3
  <2>2. FlattenSeq(ss) = <<>>
    BY <2>1, FlatNone
  <2>3. FlattenSeq(u) = t /\ <<>> \o t = t
    BY <1>1, <1>2, <1>3, <2>1
  <2> QED
    BY <2>2, <2>3 DEF u
<1>4. CASE n # 0
  <2>0. Len(ss) > 0 /\ n \in 1..Len(ss)
    BY <1>0, <1>4
  <2>1. PICK f : Steps(ss, n, f) /\ FlattenSeq(ss) = f[n]
    BY <2>0, FlattenSteps
  <2>2. f[n] = g[n]
    <3>1. Steps(Append(ss, t), Len(ss) + 1, g)
      BY <1>1 DEF u
    <3>2. \A i \in 1..Len(ss) : f[i] = g[i]
      BY <2>1, <3>1, StepsSame
    <3> QED
      BY <2>0, <3>2
  <2>3. (n + 1) - 1 = n /\ n + 1 # 1
    BY <1>0, <1>4
  <2>4. FlattenSeq(u) = FlattenSeq(ss) \o t
    BY <1>0, <1>1, <1>2, <2>1, <2>2, <2>3
  <2> QED
    BY <2>4 DEF u
<1> QED
  BY <1>3, <1>4

LEMMA FlatType ==
  ASSUME NEW S, NEW ss \in Seq(Seq(S))
  PROVE  FlattenSeq(ss) \in Seq(S)
<1>1. CASE Len(ss) = 0
  <2>1. ss = <<>>
    BY <1>1
  <2>2. FlattenSeq(ss) = <<>>
    BY <2>1, FlatNone
  <2> QED
    BY <2>2
<1>2. CASE Len(ss) # 0
  <2>1. PICK f : Steps(ss, Len(ss), f) /\ FlattenSeq(ss) = f[Len(ss)]
    BY <1>2, FlattenSteps
  <2> QED
    BY <1>2, <2>1, StepsType
<1> QED
  BY <1>1, <1>2

-----------------------------------------------------------------------------
(* A sequence made of a sequence for every element.                        *)

Spread(s, F) == FlattenSeq([i \in DOMAIN s |-> F[s[i]]])

LEMMA SpreadNone == ASSUME NEW F PROVE Spread(<<>>, F) = <<>>
<1>1. [i \in DOMAIN <<>> |-> F[<<>>[i]]] = <<>>
  OBVIOUS
<1> QED
  BY <1>1, FlatNone DEF Spread

LEMMA SpreadAppend ==
  ASSUME NEW S, NEW V, NEW F \in [S -> Seq(V)], NEW s \in Seq(S), NEW x \in S
  PROVE  Spread(Append(s, x), F) = Spread(s, F) \o F[x]
<1> DEFINE ss == [i \in DOMAIN s |-> F[s[i]]]
           u  == [i \in DOMAIN Append(s, x) |-> F[Append(s, x)[i]]]
<1>1. ss \in Seq(Seq(V))
  OBVIOUS
<1>2. F[x] \in Seq(V)
  OBVIOUS
<1>3. u = Append(ss, F[x])
  <2>1. DOMAIN u = 1..(Len(s) + 1) /\ Len(ss) = Len(s) /\ Len(s) \in Nat
    OBVIOUS
  <2>2. \A i \in 1..(Len(s) + 1) : u[i] = IF i = Len(s) + 1 THEN F[x] ELSE F[s[i]]
    OBVIOUS
  <2>3. u \in Seq(Seq(V))
    OBVIOUS
  <2>4. Append(ss, F[x]) \in Seq(Seq(V)) /\ Len(Append(ss, F[x])) = Len(s) + 1
    BY <1>1, <1>2, <2>1
  <2>5. \A i \in 1..(Len(s) + 1) :
          Append(ss, F[x])[i] = IF i = Len(s) + 1 THEN F[x] ELSE F[s[i]]
    BY <1>1, <1>2, <2>1
  <2> QED
    BY <2>1, <2>2, <2>3, <2>4, <2>5
<1> HIDE DEF ss
<1>4. FlattenSeq(Append(ss, F[x])) = FlattenSeq(ss) \o F[x]
  BY <1>1, <1>2, FlatAppend
<1> QED
  BY <1>3, <1>4 DEF Spread, ss

LEMMA SpreadType ==
  ASSUME NEW S, NEW V, NEW F \in [S -> Seq(V)], NEW s \in Seq(S)
  PROVE  Spread(s, F) \in Seq(V)
<1> DEFINE ss == [i \in DOMAIN s |-> F[s[i]]]
<1>0. Len(s) \in Nat /\ DOMAIN s = 1..Len(s) /\ \A i \in 1..Len(s) : F[s[i]] \in Seq(V)
  OBVIOUS
<1>1. ss \in Seq(Seq(V))
  BY <1>0
<1> QED
  BY <1>1, FlatType DEF Spread

LEMMA SpreadOne ==
  ASSUME NEW S, NEW V, NEW F \in [S -> Seq(V)], NEW x \in S
  PROVE  Spread(<<x>>, F) = F[x]
<1>1. <<>> \in Seq(S) /\ Append(<<>>, x) = <<x>> /\ F[x] \in Seq(V)
  OBVIOUS
<1>2. Spread(Append(<<>>, x), F) = Spread(<<>>, F) \o F[x]
  BY <1>1, SpreadAppend
<1>3. <<>> \o F[x] = F[x]
  BY <1>1
<1> QED
  BY <1>1, <1>2, <1>3, SpreadNone

\* Sequences behind each other
LEMMA ConcatType == ASSUME NEW S, NEW a \in Seq(S), NEW b \in Seq(S) PROVE a \o b \in Seq(S)
  OBVIOUS

LEMMA AppendType == ASSUME NEW S, NEW s \in Seq(S), NEW x \in S PROVE Append(s, x) \in Seq(S)
  OBVIOUS

LEMMA OneType == ASSUME NEW S, NEW x \in S PROVE <<x>> \in Seq(S)
  OBVIOUS

LEMMA NoneType == ASSUME NEW S PROVE <<>> \in Seq(S)
  OBVIOUS

LEMMA ConcatNone == ASSUME NEW S, NEW s \in Seq(S) PROVE s \o <<>> = s /\ <<>> \o s = s
  OBVIOUS

LEMMA ConcatAt ==
  ASSUME NEW S, NEW s \in Seq(S), NEW t \in Seq(S)
  PROVE  /\ s \o t \in Seq(S) /\ Len(s \o t) = Len(s) + Len(t)
         /\ \A i \in 1..Len(s \o t) : (s \o t)[i] = IF i <= Len(s) THEN s[i] ELSE t[i - Len(s)]
OBVIOUS

LEMMA ConcatAppend ==
  ASSUME NEW S, NEW a \in Seq(S), NEW b \in Seq(S), NEW x \in S
  PROVE  a \o Append(b, x) = Append(a \o b, x)
  OBVIOUS

LEMMA ConcatThree ==
  ASSUME NEW S, NEW a \in Seq(S), NEW b \in Seq(S), NEW c \in Seq(S)
  PROVE  (a \o b) \o c = a \o (b \o c)
  OBVIOUS

LEMMA AppendOne ==
  ASSUME NEW S, NEW s \in Seq(S), NEW x \in S
  PROVE  Append(s, x) = s \o <<x>>
  OBVIOUS

LEMMA SpreadConcat ==
  ASSUME NEW S, NEW V, NEW F \in [S -> Seq(V)], NEW a \in Seq(S), NEW b \in Seq(S)
  PROVE  Spread(a \o b, F) = Spread(a, F) \o Spread(b, F)
<1> DEFINE T == { t \in Seq(S) : Spread(a \o t, F) = Spread(a, F) \o Spread(t, F) }
<1>0. Spread(a, F) \in Seq(V)
  BY SpreadType
<1>1. <<>> \in T
  <2>1. a \o <<>> = a /\ Spread(a, F) \o <<>> = Spread(a, F)
    BY <1>0, ConcatNone
  <2>2. Spread(a \o <<>>, F) = Spread(a, F) \o Spread(<<>>, F)
    BY <2>1, SpreadNone
  <2> QED
    BY <2>2
<1>2. ASSUME NEW t \in Seq(S), NEW x \in S, t \in T PROVE Append(t, x) \in T
  <2>1. a \o Append(t, x) = Append(a \o t, x) /\ a \o t \in Seq(S)
    BY ConcatAppend
  <2>2. Spread(Append(a \o t, x), F) = Spread(a \o t, F) \o F[x]
    BY <2>1, SpreadAppend
  <2>3. Spread(Append(t, x), F) = Spread(t, F) \o F[x]
    BY SpreadAppend
  <2>4. Spread(t, F) \in Seq(V) /\ F[x] \in Seq(V)
    BY SpreadType
  <2>5. (Spread(a, F) \o Spread(t, F)) \o F[x] = Spread(a, F) \o (Spread(t, F) \o F[x])
    BY <1>0, <2>4, ConcatThree
  <2>6. Spread(a \o t, F) = Spread(a, F) \o Spread(t, F)
    BY <1>2
  <2>7. Spread(a \o Append(t, x), F) = Spread(a, F) \o Spread(Append(t, x), F)
    BY <2>1, <2>2, <2>3, <2>5, <2>6
  <2>8. Append(t, x) \in Seq(S)
    OBVIOUS
  <2> QED
    BY <2>7, <2>8
<1> HIDE DEF T
<1>3. Seq(S) \subseteq T
  BY <1>1, <1>2, SeqInduct
<1> QED
  BY <1>3 DEF T
-----------------------------------------------------------------------------
(* The elements of a sequence that are in a set.                           *)

Keep(s, P) == Only(s, { i \in DOMAIN s : s[i] \in P })
Keeps(S, P) == [x \in S |-> IF x \in P THEN <<x>> ELSE <<>>]

LEMMA KeepSpread ==
  ASSUME NEW S, NEW P, NEW s \in Seq(S)
  PROVE  Keep(s, P) = Spread(s, Keeps(S, P)) /\ Keeps(S, P) \in [S -> Seq(S)]
<1>1. \A i \in DOMAIN s : s[i] \in S
  OBVIOUS
<1>2. [i \in DOMAIN s |-> IF i \in { j \in DOMAIN s : s[j] \in P } THEN <<s[i]>> ELSE <<>>]
        = [i \in DOMAIN s |-> Keeps(S, P)[s[i]]]
  BY <1>1 DEF Keeps
<1>3. Keep(s, P) = Spread(s, Keeps(S, P))
  BY <1>2 DEF Keep, Only, Spread
<1> QED
  BY <1>3 DEF Keeps

LEMMA KeepNone == ASSUME NEW P PROVE Keep(<<>>, P) = <<>>
<1>1. <<>> \in Seq({})
  OBVIOUS
<1>2. Keep(<<>>, P) = Spread(<<>>, Keeps({}, P))
  BY <1>1, KeepSpread
<1> QED
  BY <1>2, SpreadNone

LEMMA KeepType == ASSUME NEW S, NEW P, NEW s \in Seq(S) PROVE Keep(s, P) \in Seq(S)
<1>1. Keep(s, P) = Spread(s, Keeps(S, P)) /\ Keeps(S, P) \in [S -> Seq(S)]
  BY KeepSpread
<1>2. Spread(s, Keeps(S, P)) \in Seq(S)
  BY <1>1, SpreadType
<1> QED
  BY <1>1, <1>2

LEMMA KeepAppend ==
  ASSUME NEW S, NEW P, NEW s \in Seq(S), NEW x \in S
  PROVE  Keep(Append(s, x), P) = IF x \in P THEN Append(Keep(s, P), x) ELSE Keep(s, P)
<1>1. Append(s, x) \in Seq(S) /\ Keep(s, P) \in Seq(S)
  BY KeepType
<1>a. Keep(s, P) = Spread(s, Keeps(S, P)) /\ Keeps(S, P) \in [S -> Seq(S)]
  BY KeepSpread
<1>b. Keep(Append(s, x), P) = Spread(Append(s, x), Keeps(S, P))
  BY <1>1, KeepSpread
<1>c. Spread(Append(s, x), Keeps(S, P)) = Spread(s, Keeps(S, P)) \o Keeps(S, P)[x]
  BY <1>a, SpreadAppend
<1>2. Keep(Append(s, x), P) = Keep(s, P) \o Keeps(S, P)[x]
  BY <1>a, <1>b, <1>c
<1>3. Keeps(S, P)[x] = IF x \in P THEN <<x>> ELSE <<>>
  BY DEF Keeps
<1>4. Keep(s, P) \o <<x>> = Append(Keep(s, P), x) /\ Keep(s, P) \o <<>> = Keep(s, P)
  BY <1>1, AppendOne, ConcatNone
<1> QED
  BY <1>2, <1>3, <1>4

LEMMA KeepConcat ==
  ASSUME NEW S, NEW P, NEW a \in Seq(S), NEW b \in Seq(S)
  PROVE  Keep(a \o b, P) = Keep(a, P) \o Keep(b, P)
<1>1. a \o b \in Seq(S)
  OBVIOUS
<1>2. /\ Keep(a, P) = Spread(a, Keeps(S, P)) /\ Keep(b, P) = Spread(b, Keeps(S, P))
      /\ Keeps(S, P) \in [S -> Seq(S)]
  BY KeepSpread
<1>3. Keep(a \o b, P) = Spread(a \o b, Keeps(S, P))
  BY <1>1, KeepSpread
<1>4. Spread(a \o b, Keeps(S, P)) = Spread(a, Keeps(S, P)) \o Spread(b, Keeps(S, P))
  BY <1>2, SpreadConcat
<1> QED
  BY <1>2, <1>3, <1>4

LEMMA SetAppend ==
  ASSUME NEW S, NEW s \in Seq(S), NEW x \in S
  PROVE  ToSet(Append(s, x)) = ToSet(s) \cup {x}
<1> DEFINE u == Append(s, x)
<1>1. /\ Len(s) \in Nat /\ DOMAIN s = 1..Len(s) /\ DOMAIN u = 1..(Len(s) + 1)
      /\ u[Len(s) + 1] = x /\ \A i \in 1..Len(s) : u[i] = s[i]
  OBVIOUS
<1> HIDE DEF u
<1>2. ASSUME NEW y \in ToSet(u) PROVE y \in ToSet(s) \cup {x}
  <2>1. PICK i \in 1..(Len(s) + 1) : y = u[i]
    BY <1>1 DEF ToSet
  <2>2. i = Len(s) + 1 \/ i \in 1..Len(s)
    BY <1>1
  <2> QED
    BY <1>1, <2>1, <2>2 DEF ToSet
<1>3. ASSUME NEW y \in ToSet(s) PROVE y \in ToSet(u)
  <2>1. PICK i \in 1..Len(s) : y = s[i]
    BY <1>1 DEF ToSet
  <2>2. i \in 1..(Len(s) + 1)
    BY <1>1
  <2> QED
    BY <1>1, <2>1, <2>2 DEF ToSet
<1>4. x \in ToSet(u)
  <2>1. Len(s) + 1 \in 1..(Len(s) + 1)
    BY <1>1
  <2> QED
    BY <1>1, <2>1 DEF ToSet
<1> QED
  BY <1>2, <1>3, <1>4 DEF u

LEMMA KeepAll ==
  ASSUME NEW S, NEW P, NEW s \in Seq(S), \A i \in DOMAIN s : s[i] \in P
  PROVE  Keep(s, P) = s
<1> DEFINE T == { t \in Seq(S) : ToSet(t) \subseteq P => Keep(t, P) = t }
<1>0. ASSUME NEW t \in Seq(S), NEW x \in S PROVE ToSet(Append(t, x)) = ToSet(t) \cup {x}
  BY SetAppend
<1>1. <<>> \in T
  BY KeepNone
<1>2. ASSUME NEW t \in Seq(S), NEW x \in S, t \in T PROVE Append(t, x) \in T
  <2>1. ASSUME ToSet(Append(t, x)) \subseteq P PROVE Keep(Append(t, x), P) = Append(t, x)
    <3>1. x \in P /\ ToSet(t) \subseteq P
      BY <1>0, <2>1
    <3>2. Keep(t, P) = t
      BY <1>2, <3>1
    <3> QED
      BY <3>1, <3>2, KeepAppend
  <2> QED
    BY <2>1
<1> HIDE DEF T
<1>3. Seq(S) \subseteq T
  BY <1>1, <1>2, SeqInduct
<1>4. ToSet(s) \subseteq P
  BY DEF ToSet
<1> QED
  BY <1>3, <1>4 DEF T

\* Twice is once
LEMMA KeepKeep ==
  ASSUME NEW S, NEW P, NEW Q, NEW s \in Seq(S)
  PROVE  Keep(Keep(s, P), Q) = Keep(s, P \cap Q)
<1> DEFINE T == { t \in Seq(S) : Keep(Keep(t, P), Q) = Keep(t, P \cap Q) }
<1>1. <<>> \in T
  BY KeepNone
<1>2. ASSUME NEW t \in Seq(S), NEW x \in S, t \in T PROVE Append(t, x) \in T
  <2>1. Keep(t, P) \in Seq(S)
    BY KeepType
  <2>2. Keep(Append(Keep(t, P), x), Q)
          = IF x \in Q THEN Append(Keep(Keep(t, P), Q), x) ELSE Keep(Keep(t, P), Q)
    BY <2>1, KeepAppend
  <2>3. Keep(Append(t, x), P \cap Q)
          = IF x \in P \cap Q THEN Append(Keep(t, P \cap Q), x) ELSE Keep(t, P \cap Q)
    BY KeepAppend
  <2>4. Keep(Append(t, x), P) = IF x \in P THEN Append(Keep(t, P), x) ELSE Keep(t, P)
    BY KeepAppend
  <2>5. Keep(Keep(t, P), Q) = Keep(t, P \cap Q)
    BY <1>2
  <2>6. Keep(Keep(Append(t, x), P), Q) = Keep(Append(t, x), P \cap Q)
    <3>1. CASE x \in P
      <4>1. x \in P \cap Q <=> x \in Q
        BY <3>1
      <4> QED
        BY <2>2, <2>3, <2>4, <2>5, <3>1, <4>1
    <3>2. CASE x \notin P
      <4>1. x \notin P \cap Q
        BY <3>2
      <4> QED
        BY <2>3, <2>4, <2>5, <3>2, <4>1
    <3> QED
      BY <3>1, <3>2
  <2> QED
    BY <2>6
<1> HIDE DEF T
<1>3. Seq(S) \subseteq T
  BY <1>1, <1>2, SeqInduct
<1> QED
  BY <1>3 DEF T

-----------------------------------------------------------------------------
(* The lines of a content.                                                 *)

SplitSteps(c, f) ==
  f = [i \in 0..Len(c) |-> IF i = 0 THEN [done |-> <<>>, cur |-> <<>>]
                           ELSE AddPiece(f[i - 1], c[i])]

LEMMA SplitOn ==
  ASSUME NEW S, NEW c \in Seq(S), NEW x \in S, NEW f, SplitSteps(c, f)
  PROVE  SplitSteps(Append(c, x),
           [i \in 0..(Len(c) + 1) |-> IF i <= Len(c) THEN f[i] ELSE AddPiece(f[Len(c)], x)])
<1> DEFINE n == Len(c)
           u == Append(c, x)
           g == [i \in 0..(n + 1) |-> IF i <= n THEN f[i] ELSE AddPiece(f[n], x)]
           h == [i \in 0..(n + 1) |-> IF i = 0 THEN [done |-> <<>>, cur |-> <<>>]
                                      ELSE AddPiece(g[i - 1], u[i])]
<1>1. /\ n \in Nat /\ Len(u) = n + 1 /\ u[n + 1] = x
      /\ \A i \in 1..n : u[i] = c[i]
  OBVIOUS
<1>2. \A i \in 0..n : f[i] = IF i = 0 THEN [done |-> <<>>, cur |-> <<>>]
                             ELSE AddPiece(f[i - 1], c[i])
  BY DEF SplitSteps
<1> HIDE DEF n, u
<1>3. ASSUME NEW i \in 0..(n + 1) PROVE g[i] = h[i]
  <2>1. CASE i = n + 1
    <3>1. i # 0 /\ i - 1 = n /\ ~(i <= n) /\ n \in 0..(n + 1) /\ n <= n
      BY <1>1, <2>1
    <3> QED
      BY <1>1, <2>1, <3>1
  <2>2. CASE i # n + 1 /\ i # 0
    <3>1. i \in 0..n /\ i \in 1..n /\ i <= n /\ i - 1 \in 0..(n + 1) /\ i - 1 <= n
      BY <1>1, <2>2
    <3>2. f[i] = AddPiece(f[i - 1], c[i])
      BY <1>2, <2>2, <3>1
    <3> QED
      BY <1>1, <2>2, <3>1, <3>2
  <2>3. CASE i = 0
    <3>1. 0 \in 0..n /\ 0 <= n
      BY <1>1
    <3> QED
      BY <1>2, <2>3, <3>1
  <2> QED
    BY <2>1, <2>2, <2>3
<1>4. g = h
  BY <1>3
<1> HIDE DEF g
<1> QED
  BY <1>1, <1>4 DEF SplitSteps, g, n, u

LEMMA SplitOnce ==
  ASSUME NEW S, NEW c \in Seq(S), NEW f, SplitSteps(c, f), NEW g, SplitSteps(c, g)
  PROVE  f = g
<1> DEFINE n == Len(c)
           T == { i \in 0..n : f[i] = g[i] }
<1>0. n \in Nat
  OBVIOUS
<1>a. \A i \in 0..n : f[i] = IF i = 0 THEN [done |-> <<>>, cur |-> <<>>]
                             ELSE AddPiece(f[i - 1], c[i])
  BY DEF SplitSteps
<1>b. \A i \in 0..n : g[i] = IF i = 0 THEN [done |-> <<>>, cur |-> <<>>]
                             ELSE AddPiece(g[i - 1], c[i])
  BY DEF SplitSteps
<1>c. /\ f = [i \in 0..n |-> f[i]]
      /\ g = [i \in 0..n |-> g[i]]
  BY DEF SplitSteps
<1> HIDE DEF n
<1>1. 0 \in T
  <2>1. 0 \in 0..n
    BY <1>0
  <2> QED
    BY <1>a, <1>b, <2>1
<1>2. ASSUME NEW i \in 0..(n - 1), i \in T PROVE i + 1 \in T
  <2>1. i + 1 \in 0..n /\ i + 1 # 0 /\ (i + 1) - 1 = i
    BY <1>0
  <2>2. f[i + 1] = AddPiece(f[i], c[i + 1]) /\ g[i + 1] = AddPiece(g[i], c[i + 1])
    BY <1>a, <1>b, <2>1
  <2>3. f[i + 1] = g[i + 1]
    BY <1>2, <2>2
  <2> QED
    BY <2>1, <2>3
<1> HIDE DEF T
<1>3. 0..n \subseteq T
  BY <1>0, <1>1, <1>2, Induct
<1>4. \A i \in 0..n : f[i] = g[i]
  BY <1>3 DEF T
<1> QED
  BY <1>c, <1>4

LEMMA SplitNone == Split(<<>>) = [done |-> <<>>, cur |-> <<>>]
<1> DEFINE f == [i \in 0..0 |-> [done |-> <<>>, cur |-> <<>>]]
           g == CHOOSE h : SplitSteps(<<>>, h)
<1>1. SplitSteps(<<>>, f)
  <2>1. Len(<<>>) = 0
    OBVIOUS
  <2>2. f = [i \in 0..0 |-> IF i = 0 THEN [done |-> <<>>, cur |-> <<>>]
                            ELSE AddPiece(f[i - 1], <<>>[i])]
    OBVIOUS
  <2> QED
    BY <2>1, <2>2 DEF SplitSteps
<1>2. SplitSteps(<<>>, g)
  BY <1>1
<1>3. Split(<<>>) = g[0]
  BY DEF Split, SplitSteps
<1> QED
  BY <1>2, <1>3 DEF SplitSteps

LEMMA SplitExist ==
  ASSUME NEW S, NEW c \in Seq(S)
  PROVE  \E f : SplitSteps(c, f) /\ Split(c) = f[Len(c)]
<1> DEFINE T == { t \in Seq(S) : \E f : SplitSteps(t, f) }
<1>1. <<>> \in T
  <2> DEFINE f == [i \in 0..0 |-> [done |-> <<>>, cur |-> <<>>]]
  <2>1. Len(<<>>) = 0
    OBVIOUS
  <2>2. f = [i \in 0..0 |-> IF i = 0 THEN [done |-> <<>>, cur |-> <<>>]
                            ELSE AddPiece(f[i - 1], <<>>[i])]
    OBVIOUS
  <2>3. SplitSteps(<<>>, f)
    BY <2>1, <2>2 DEF SplitSteps
  <2>4. <<>> \in Seq(S)
    OBVIOUS
  <2> QED
    BY <2>3, <2>4
<1>2. ASSUME NEW t \in Seq(S), NEW x \in S, t \in T PROVE Append(t, x) \in T
  <2>1. PICK f : SplitSteps(t, f)
    BY <1>2
  <2>2. Append(t, x) \in Seq(S)
    OBVIOUS
  <2> QED
    BY <2>1, <2>2, SplitOn
<1> HIDE DEF T
<1>3. c \in T
  BY <1>1, <1>2, SeqInduct
<1> DEFINE g == CHOOSE h : SplitSteps(c, h)
<1>4. SplitSteps(c, g)
  BY <1>3 DEF T
<1>5. Split(c) = g[Len(c)]
  BY DEF Split, SplitSteps
<1> QED
  BY <1>4, <1>5

LEMMA SplitAppend ==
  ASSUME NEW S, NEW c \in Seq(S), NEW x \in S
  PROVE  Split(Append(c, x)) = AddPiece(Split(c), x)
<1> DEFINE n == Len(c)
<1>0. n \in Nat /\ Append(c, x) \in Seq(S) /\ Len(Append(c, x)) = n + 1
  OBVIOUS
<1>1. PICK f : SplitSteps(c, f) /\ Split(c) = f[n]
  BY SplitExist
<1>2. PICK g : SplitSteps(Append(c, x), g) /\ Split(Append(c, x)) = g[n + 1]
  <2>1. \E g : SplitSteps(Append(c, x), g) /\ Split(Append(c, x)) = g[Len(Append(c, x))]
    BY <1>0, SplitExist
  <2> QED
    BY <1>0, <2>1
<1> DEFINE h == [i \in 0..(n + 1) |-> IF i <= n THEN f[i] ELSE AddPiece(f[n], x)]
<1>3. SplitSteps(Append(c, x), h)
  BY <1>1, SplitOn
<1>4. g = h
  BY <1>0, <1>2, <1>3, SplitOnce
<1>5. h[n + 1] = AddPiece(f[n], x)
  BY <1>0
<1> QED
  BY <1>1, <1>2, <1>4, <1>5

-----------------------------------------------------------------------------
(* Lines that are fed to the parser.                                       *)

FeedSteps(r, c, f) ==
  f = [i \in 0..Len(c) |-> IF i = 0 THEN r ELSE TakeLine(f[i - 1], c[i])]

LEMMA FeedOn ==
  ASSUME NEW S, NEW r, NEW c \in Seq(S), NEW x \in S, NEW f, FeedSteps(r, c, f)
  PROVE  FeedSteps(r, Append(c, x),
           [i \in 0..(Len(c) + 1) |-> IF i <= Len(c) THEN f[i] ELSE TakeLine(f[Len(c)], x)])
<1> DEFINE n == Len(c)
           u == Append(c, x)
           g == [i \in 0..(n + 1) |-> IF i <= n THEN f[i] ELSE TakeLine(f[n], x)]
           h == [i \in 0..(n + 1) |-> IF i = 0 THEN r ELSE TakeLine(g[i - 1], u[i])]
<1>1. /\ n \in Nat /\ Len(u) = n + 1 /\ u[n + 1] = x
      /\ \A i \in 1..n : u[i] = c[i]
  OBVIOUS
<1>2. \A i \in 0..n : f[i] = IF i = 0 THEN r ELSE TakeLine(f[i - 1], c[i])
  BY DEF FeedSteps
<1> HIDE DEF n, u
<1>3. ASSUME NEW i \in 0..(n + 1) PROVE g[i] = h[i]
  <2>1. CASE i = n + 1
    <3>1. i # 0 /\ i - 1 = n /\ ~(i <= n) /\ n \in 0..(n + 1) /\ n <= n
      BY <1>1, <2>1
    <3> QED
      BY <1>1, <2>1, <3>1
  <2>2. CASE i # n + 1 /\ i # 0
    <3>1. i \in 0..n /\ i \in 1..n /\ i <= n /\ i - 1 \in 0..(n + 1) /\ i - 1 <= n
      BY <1>1, <2>2
    <3>2. f[i] = TakeLine(f[i - 1], c[i])
      BY <1>2, <2>2, <3>1
    <3> QED
      BY <1>1, <2>2, <3>1, <3>2
  <2>3. CASE i = 0
    <3>1. 0 \in 0..n /\ 0 <= n
      BY <1>1
    <3> QED
      BY <1>2, <2>3, <3>1
  <2> QED
    BY <2>1, <2>2, <2>3
<1>4. g = h
  BY <1>3
<1> HIDE DEF g
<1> QED
  BY <1>1, <1>4 DEF FeedSteps, g, n, u

LEMMA FeedOnce ==
  ASSUME NEW S, NEW r, NEW c \in Seq(S), NEW f, FeedSteps(r, c, f), NEW g, FeedSteps(r, c, g)
  PROVE  f = g
<1> DEFINE n == Len(c)
           T == { i \in 0..n : f[i] = g[i] }
<1>0. n \in Nat
  OBVIOUS
<1>a. \A i \in 0..n : f[i] = IF i = 0 THEN r ELSE TakeLine(f[i - 1], c[i])
  BY DEF FeedSteps
<1>b. \A i \in 0..n : g[i] = IF i = 0 THEN r ELSE TakeLine(g[i - 1], c[i])
  BY DEF FeedSteps
<1>c. /\ f = [i \in 0..n |-> f[i]]
      /\ g = [i \in 0..n |-> g[i]]
  BY DEF FeedSteps
<1> HIDE DEF n
<1>1. 0 \in T
  <2>1. 0 \in 0..n
    BY <1>0
  <2> QED
    BY <1>a, <1>b, <2>1
<1>2. ASSUME NEW i \in 0..(n - 1), i \in T PROVE i + 1 \in T
  <2>1. i + 1 \in 0..n /\ i + 1 # 0 /\ (i + 1) - 1 = i
    BY <1>0
  <2>2. f[i + 1] = TakeLine(f[i], c[i + 1]) /\ g[i + 1] = TakeLine(g[i], c[i + 1])
    BY <1>a, <1>b, <2>1
  <2>3. f[i + 1] = g[i + 1]
    BY <1>2, <2>2
  <2> QED
    BY <2>1, <2>3
<1> HIDE DEF T
<1>3. 0..n \subseteq T
  BY <1>0, <1>1, <1>2, Induct
<1>4. \A i \in 0..n : f[i] = g[i]
  BY <1>3 DEF T
<1> QED
  BY <1>c, <1>4

LEMMA FeedNone == ASSUME NEW r PROVE Feed(r, <<>>) = r
<1> DEFINE f == [i \in 0..0 |-> r]
           g == CHOOSE h : FeedSteps(r, <<>>, h)
<1>1. FeedSteps(r, <<>>, f)
  <2>1. Len(<<>>) = 0
    OBVIOUS
  <2>2. f = [i \in 0..0 |-> IF i = 0 THEN r ELSE TakeLine(f[i - 1], <<>>[i])]
    OBVIOUS
  <2> QED
    BY <2>1, <2>2 DEF FeedSteps
<1>2. FeedSteps(r, <<>>, g)
  BY <1>1
<1>3. Feed(r, <<>>) = g[0]
  BY DEF Feed, FeedSteps
<1> QED
  BY <1>2, <1>3 DEF FeedSteps

LEMMA FeedExist ==
  ASSUME NEW S, NEW r, NEW c \in Seq(S)
  PROVE  \E f : FeedSteps(r, c, f) /\ Feed(r, c) = f[Len(c)]
<1> DEFINE T == { t \in Seq(S) : \E f : FeedSteps(r, t, f) }
<1>1. <<>> \in T
  <2> DEFINE f == [i \in 0..0 |-> r]
  <2>1. Len(<<>>) = 0
    OBVIOUS
  <2>2. f = [i \in 0..0 |-> IF i = 0 THEN r ELSE TakeLine(f[i - 1], <<>>[i])]
    OBVIOUS
  <2>3. FeedSteps(r, <<>>, f)
    BY <2>1, <2>2 DEF FeedSteps
  <2>4. <<>> \in Seq(S)
    OBVIOUS
  <2> QED
    BY <2>3, <2>4
<1>2. ASSUME NEW t \in Seq(S), NEW x \in S, t \in T PROVE Append(t, x) \in T
  <2>1. PICK f : FeedSteps(r, t, f)
    BY <1>2
  <2>2. Append(t, x) \in Seq(S)
    OBVIOUS
  <2> QED
    BY <2>1, <2>2, FeedOn
<1> HIDE DEF T
<1>3. c \in T
  BY <1>1, <1>2, SeqInduct
<1> DEFINE g == CHOOSE h : FeedSteps(r, c, h)
<1>4. FeedSteps(r, c, g)
  BY <1>3 DEF T
<1>5. Feed(r, c) = g[Len(c)]
  BY DEF Feed, FeedSteps
<1> QED
  BY <1>4, <1>5

LEMMA FeedAppend ==
  ASSUME NEW S, NEW r, NEW c \in Seq(S), NEW x \in S
  PROVE  Feed(r, Append(c, x)) = TakeLine(Feed(r, c), x)
<1> DEFINE n == Len(c)
<1>0. n \in Nat /\ Append(c, x) \in Seq(S) /\ Len(Append(c, x)) = n + 1
  OBVIOUS
<1>1. PICK f : FeedSteps(r, c, f) /\ Feed(r, c) = f[n]
  BY FeedExist
<1>2. PICK g : FeedSteps(r, Append(c, x), g) /\ Feed(r, Append(c, x)) = g[n + 1]
  <2>1. \E g : FeedSteps(r, Append(c, x), g) /\ Feed(r, Append(c, x)) = g[Len(Append(c, x))]
    BY <1>0, FeedExist
  <2> QED
    BY <1>0, <2>1
<1> DEFINE h == [i \in 0..(n + 1) |-> IF i <= n THEN f[i] ELSE TakeLine(f[n], x)]
<1>3. FeedSteps(r, Append(c, x), h)
  BY <1>1, FeedOn
<1>5. h[n + 1] = TakeLine(f[n], x)
  BY <1>0
<1> HIDE DEF h
<1>4. g = h
  BY <1>0, <1>2, <1>3, FeedOnce
<1> QED
  BY <1>1, <1>2, <1>4, <1>5

LEMMA FeedOne ==
  ASSUME NEW r, NEW x
  PROVE  Feed(r, <<x>>) = TakeLine(r, x)
<1>1. <<>> \in Seq({x}) /\ Append(<<>>, x) = <<x>>
  OBVIOUS
<1> DEFINE e == <<>>
<1>a. e \in Seq({x}) /\ x \in {x}
  BY <1>1
<1> HIDE DEF e
<1>b. Feed(r, Append(e, x)) = TakeLine(Feed(r, e), x)
  BY <1>a, FeedAppend
<1>2. Feed(r, Append(<<>>, x)) = TakeLine(Feed(r, <<>>), x)
  BY <1>b DEF e
<1>3. Feed(r, <<>>) = r
  BY FeedNone
<1> QED
  BY <1>1, <1>2, <1>3

LEMMA FeedConcat ==
  ASSUME NEW S, NEW r, NEW a \in Seq(S), NEW b \in Seq(S)
  PROVE  Feed(r, a \o b) = Feed(Feed(r, a), b)
<1> DEFINE T == { t \in Seq(S) : Feed(r, a \o t) = Feed(Feed(r, a), t) }
<1>1. <<>> \in T
  <2>1. a \o <<>> = a
    BY ConcatNone
  <2>2. Feed(r, a \o <<>>) = Feed(Feed(r, a), <<>>)
    BY <2>1, FeedNone
  <2> QED
    BY <2>2
<1>2. ASSUME NEW t \in Seq(S), NEW x \in S, t \in T PROVE Append(t, x) \in T
  <2>1. a \o Append(t, x) = Append(a \o t, x) /\ a \o t \in Seq(S) /\ Append(t, x) \in Seq(S)
    BY ConcatAppend
  <2>2. Feed(r, Append(a \o t, x)) = TakeLine(Feed(r, a \o t), x)
    <3> DEFINE d == a \o t
    <3>1. d \in Seq(S)
      BY <2>1
    <3> HIDE DEF d
    <3>2. Feed(r, Append(d, x)) = TakeLine(Feed(r, d), x)
      BY <3>1, FeedAppend
    <3> QED
      BY <3>2 DEF d
  <2>3. Feed(Feed(r, a), Append(t, x)) = TakeLine(Feed(Feed(r, a), t), x)
    BY FeedAppend
  <2>4. Feed(r, a \o t) = Feed(Feed(r, a), t)
    BY <1>2
  <2>5. Feed(r, a \o Append(t, x)) = Feed(Feed(r, a), Append(t, x))
    BY <2>1, <2>2, <2>3, <2>4
  <2> QED
    BY <2>1, <2>5
<1> HIDE DEF T
<1>3. Seq(S) \subseteq T
  BY <1>1, <1>2, SeqInduct
<1> QED
  BY <1>3 DEF T

-----------------------------------------------------------------------------
(* What the lines of a content hold.                                       *)

\* Lines without a line end, and the content they are the lines of
Ending       == [l \in Seq(Pieces) |-> l \o <<"nl">>]
Joined(ls)   == Spread(ls, Ending)
Within(P)    == P \ {"nl"}

LEMMA EndingType == Ending \in [Seq(Pieces) -> Seq(Pieces)]
<1>1. ASSUME NEW l \in Seq(Pieces) PROVE l \o <<"nl">> \in Seq(Pieces)
  <2>1. "nl" \in Pieces
    BY DEF Pieces
  <2>2. <<"nl">> \in Seq(Pieces)
    BY <2>1, OneType
  <2> QED
    BY <2>2, ConcatType
<1> QED
  BY <1>1 DEF Ending

LEMMA Seqs ==
  ASSUME NEW S, NEW T, S \subseteq T
  PROVE  Seq(S) \subseteq Seq(T)
  OBVIOUS

LEMMA JoinedType == ASSUME NEW ls \in Seq(Seq(Pieces)) PROVE Joined(ls) \in Seq(Pieces)
  BY EndingType, SpreadType DEF Joined

LEMMA JoinedAppend ==
  ASSUME NEW ls \in Seq(Seq(Pieces)), NEW l \in Seq(Pieces)
  PROVE  Joined(Append(ls, l)) = Joined(ls) \o (l \o <<"nl">>)
<1>1. Joined(Append(ls, l)) = Joined(ls) \o Ending[l]
  BY EndingType, SpreadAppend DEF Joined
<1>2. Ending[l] = l \o <<"nl">>
  BY DEF Ending
<1> QED
  BY <1>1, <1>2

\* A split content: its lines have no line end in them and join to it
SplitOk(c, P) ==
  /\ Split(c) = [done |-> Split(c).done, cur |-> Split(c).cur]
  /\ Split(c).done \in Seq(Seq(Within(P)))
  /\ Split(c).cur \in Seq(Within(P))
  /\ Joined(Split(c).done) \o Split(c).cur = c

LEMMA SplitStep ==
  ASSUME NEW P, P \subseteq Pieces, NEW c \in Seq(P), NEW x \in P, SplitOk(c, P)
  PROVE  SplitOk(Append(c, x), P)
<1> DEFINE d == Split(c).done
           l == Split(c).cur
           u == Append(c, x)
<1>1. /\ Split(c) = [done |-> d, cur |-> l]
      /\ d \in Seq(Seq(Within(P))) /\ l \in Seq(Within(P)) /\ Joined(d) \o l = c
  BY DEF SplitOk
<1>2. Split(u) = AddPiece(Split(c), x)
  BY SplitAppend
<1> HIDE DEF d, l
<1>3. Within(P) \subseteq Pieces
  BY DEF Within
<1>4. d \in Seq(Seq(Pieces)) /\ l \in Seq(Pieces) /\ Joined(d) \in Seq(Pieces) /\ x \in Pieces
  <2>1. Seq(Within(P)) \subseteq Seq(Pieces)
    BY <1>3, Seqs
  <2>2. d \in Seq(Seq(Pieces)) /\ l \in Seq(Pieces)
    BY <1>1, <2>1, Seqs
  <2> QED
    BY <2>2, JoinedType
<1>5. CASE x = "nl"
  <2>1. Split(u) = [done |-> Append(d, l), cur |-> <<>>]
    BY <1>1, <1>2, <1>5 DEF AddPiece
  <2>2. Append(d, l) \in Seq(Seq(Within(P))) /\ <<>> \in Seq(Within(P))
    BY <1>1
  <2>3. Joined(Append(d, l)) = Joined(d) \o (l \o <<"nl">>)
    BY <1>4, JoinedAppend
  <2>4. Joined(d) \o (l \o <<"nl">>) = Append(Joined(d) \o l, "nl")
    BY <1>4
  <2>5. Append(c, x) = Append(Joined(d) \o l, "nl")
    BY <1>1, <1>5
  <2>6. Joined(Append(d, l)) \in Seq(Pieces)
    BY <1>4, JoinedType, AppendType
  <2>7. Joined(Append(d, l)) \o <<>> = u
    BY <2>3, <2>4, <2>5, <2>6, ConcatNone
  <2> QED
    BY <2>1, <2>2, <2>7 DEF SplitOk
<1>6. CASE x # "nl"
  <2>1. Split(u) = [done |-> d, cur |-> Append(l, x)]
    <3>1. Split(u) = [Split(c) EXCEPT !.cur = Append(Split(c).cur, x)]
      BY <1>2, <1>6 DEF AddPiece
    <3>2. Split(c).cur = l /\ DOMAIN Split(c) = {"done", "cur"} /\ Split(c).done = d
      BY <1>1
    <3>3. Split(u) = [[done |-> d, cur |-> l] EXCEPT !.cur = Append(l, x)]
      BY <1>1, <3>1, <3>2
    <3> QED
      BY <3>3
  <2>2. Append(l, x) \in Seq(Within(P))
    BY <1>1, <1>6 DEF Within
  <2>a. Joined(d) \in Seq(Pieces) /\ l \in Seq(Pieces) /\ x \in Pieces
    BY <1>4
  <2>b. \A a \in Seq(Pieces) : a \o Append(l, x) = Append(a \o l, x)
    BY <2>a, ConcatAppend
  <2>3. Joined(d) \o Append(l, x) = Append(Joined(d) \o l, x)
    BY <2>a, <2>b
  <2> QED
    BY <1>1, <2>1, <2>2, <2>3 DEF SplitOk
<1> QED
  BY <1>5, <1>6

LEMMA SplitRight ==
  ASSUME NEW P, P \subseteq Pieces, NEW c \in Seq(P)
  PROVE  SplitOk(c, P)
<1> DEFINE T == { t \in Seq(P) : SplitOk(t, P) }
<1>1. <<>> \in T
  <2>1. Joined(<<>>) = <<>>
    BY SpreadNone DEF Joined
  <2>2. Split(<<>>).done = <<>> /\ Split(<<>>).cur = <<>>
    BY SplitNone
  <2>3. <<>> \in Seq(Seq(Within(P))) /\ <<>> \in Seq(Within(P)) /\ <<>> \in Seq(P)
    BY NoneType
  <2>4. <<>> \o <<>> = <<>>
    OBVIOUS
  <2>5. SplitOk(<<>>, P)
    BY <2>1, <2>2, <2>3, <2>4, SplitNone DEF SplitOk
  <2> QED
    BY <2>3, <2>5
<1>2. ASSUME NEW t \in Seq(P), NEW x \in P, t \in T PROVE Append(t, x) \in T
  <2>1. SplitOk(Append(t, x), P)
    BY <1>2, SplitStep
  <2>2. Append(t, x) \in Seq(P)
    BY AppendType
  <2> QED
    BY <2>1, <2>2
<1> HIDE DEF T
<1>3. c \in T
  BY <1>1, <1>2, SeqInduct
<1> QED
  BY <1>3 DEF T

\* A line end may be added
LEMMA LinesJoin ==
  ASSUME NEW P, P \subseteq Pieces, NEW c \in Seq(P)
  PROVE  /\ SplitLines(c) \in Seq(Seq(Within(P)))
         /\ SplitLines(c) \in Seq(Seq(Pieces))
         /\ Joined(SplitLines(c)) = c \/ Joined(SplitLines(c)) = c \o <<"nl">>
<1> DEFINE d == Split(c).done
           l == Split(c).cur
<1>1. /\ d \in Seq(Seq(Within(P))) /\ l \in Seq(Within(P)) /\ Joined(d) \o l = c
  BY SplitRight DEF SplitOk
<1>2. SplitLines(c) = IF l = <<>> THEN d ELSE Append(d, l)
  BY DEF SplitLines
<1> HIDE DEF d, l
<1>3. Within(P) \subseteq Pieces
  BY DEF Within
<1>4. d \in Seq(Seq(Pieces)) /\ l \in Seq(Pieces) /\ Joined(d) \in Seq(Pieces)
  <2>1. Seq(Within(P)) \subseteq Seq(Pieces)
    BY <1>3, Seqs
  <2>2. d \in Seq(Seq(Pieces)) /\ l \in Seq(Pieces)
    BY <1>1, <2>1, Seqs
  <2> QED
    BY <2>2, JoinedType
<1>5. SplitLines(c) \in Seq(Seq(Within(P))) /\ SplitLines(c) \in Seq(Seq(Pieces))
  <2>1. Append(d, l) \in Seq(Seq(Within(P))) /\ Append(d, l) \in Seq(Seq(Pieces))
    BY <1>1, <1>4, AppendType
  <2> QED
    BY <1>1, <1>2, <1>4, <2>1
<1>6. CASE l = <<>>
  <2>1. Joined(d) \o <<>> = Joined(d)
    BY <1>4, ConcatNone
  <2> QED
    BY <1>1, <1>2, <1>5, <1>6, <2>1
<1>7. CASE l # <<>>
  <2>1. Joined(Append(d, l)) = Joined(d) \o (l \o <<"nl">>)
    BY <1>4, JoinedAppend
  <2>2. Joined(d) \o (l \o <<"nl">>) = (Joined(d) \o l) \o <<"nl">>
    BY <1>4
  <2> QED
    BY <1>1, <1>2, <1>5, <1>7, <2>1, <2>2
<1> QED
  BY <1>6, <1>7

-----------------------------------------------------------------------------
(* The lines a content is written as, and what they are decoded to.        *)

DataLine == [k : {"data"}, p : Seq(Pieces), e : {"7bit", "qp", "b64"}, soft : BOOLEAN]

\* Lines of the pieces in P that are not taken for a boundary
Calm(P) == { x \in DataLine : x.p \in Seq(P) /\ ~(x.p = <<"dash">> /\ x.e = "7bit") }

Ended(x, qp, b64)  == IF b64 \/ (qp /\ x.soft) THEN <<>> ELSE <<"nl">>
Decoding(qp, b64)  == [x \in DataLine |-> x.p \o Ended(x, qp, b64)]
Decode(ls, qp, b64) == Spread(ls, Decoding(qp, b64))

LEMMA DataType ==
  ASSUME NEW p \in Seq(Pieces), NEW e \in {"7bit", "qp", "b64"}, NEW soft \in BOOLEAN
  PROVE  /\ Data(p, e, soft) \in DataLine
         /\ Data(p, e, soft).p = p /\ Data(p, e, soft).k = "data"
         /\ Data(p, e, soft).e = e /\ Data(p, e, soft).soft = soft
  BY DEF Data, DataLine

LEMMA DecodingType ==
  ASSUME NEW qp \in BOOLEAN, NEW b64 \in BOOLEAN
  PROVE  Decoding(qp, b64) \in [DataLine -> Seq(Pieces)]
<1>1. <<"nl">> \in Seq(Pieces) /\ <<>> \in Seq(Pieces)
  <2>1. "nl" \in Pieces
    BY DEF Pieces
  <2> QED
    BY <2>1, OneType, NoneType
<1>2. ASSUME NEW x \in DataLine PROVE x.p \o Ended(x, qp, b64) \in Seq(Pieces)
  <2>1. x.p \in Seq(Pieces)
    BY DEF DataLine
  <2>2. Ended(x, qp, b64) \in Seq(Pieces)
    BY <1>1 DEF Ended
  <2> QED
    BY <2>1, <2>2, ConcatType
<1> QED
  BY <1>2 DEF Decoding

LEMMA DecodeAppend ==
  ASSUME NEW qp \in BOOLEAN, NEW b64 \in BOOLEAN, NEW ls \in Seq(DataLine), NEW x \in DataLine
  PROVE  Decode(Append(ls, x), qp, b64) = Decode(ls, qp, b64) \o (x.p \o Ended(x, qp, b64))
<1>0. Decoding(qp, b64) \in [DataLine -> Seq(Pieces)]
  BY DecodingType
<1>1. Decode(Append(ls, x), qp, b64) = Decode(ls, qp, b64) \o Decoding(qp, b64)[x]
  BY <1>0, SpreadAppend DEF Decode
<1>2. Decoding(qp, b64)[x] = x.p \o Ended(x, qp, b64)
  BY DEF Decoding
<1> QED
  BY <1>1, <1>2

LEMMA DecodeNone == ASSUME NEW qp, NEW b64 PROVE Decode(<<>>, qp, b64) = <<>>
  BY SpreadNone DEF Decode

LEMMA DecodeConcat ==
  ASSUME NEW qp \in BOOLEAN, NEW b64 \in BOOLEAN,
         NEW a \in Seq(DataLine), NEW b \in Seq(DataLine)
  PROVE  Decode(a \o b, qp, b64) = Decode(a, qp, b64) \o Decode(b, qp, b64)
<1>1. Decoding(qp, b64) \in [DataLine -> Seq(Pieces)]
  BY DecodingType
<1> QED
  BY <1>1, SpreadConcat DEF Decode

LEMMA CalmType == ASSUME NEW P PROVE Calm(P) \subseteq DataLine /\ Seq(Calm(P)) \subseteq Seq(DataLine)
<1>1. Calm(P) \subseteq DataLine
  BY DEF Calm
<1> QED
  BY <1>1, Seqs
-----------------------------------------------------------------------------
(* Lines as they are.                                                      *)

PlainLine(l) == Data(l, "7bit", FALSE)
Plainly(ls)  == [i \in DOMAIN ls |-> PlainLine(ls[i])]

LEMMA PlainAppend ==
  ASSUME NEW S, NEW ls \in Seq(S), NEW l \in S
  PROVE  Plainly(Append(ls, l)) = Append(Plainly(ls), PlainLine(l))
<1> DEFINE T == { PlainLine(x) : x \in S }
<1>1. Plainly(ls) \in Seq(T) /\ Len(Plainly(ls)) = Len(ls) /\ Len(ls) \in Nat
  BY DEF Plainly
<1>2. Plainly(Append(ls, l)) \in Seq(T) /\ Len(Plainly(Append(ls, l))) = Len(ls) + 1
  BY DEF Plainly
<1>3. \A i \in 1..(Len(ls) + 1) :
        Plainly(Append(ls, l))[i] = IF i = Len(ls) + 1 THEN PlainLine(l) ELSE PlainLine(ls[i])
  BY DEF Plainly
<1>4. \A i \in 1..Len(ls) : Plainly(ls)[i] = PlainLine(ls[i])
  BY DEF Plainly
<1>5. PlainLine(l) \in T
  OBVIOUS
<1> HIDE DEF T
<1>6. /\ Append(Plainly(ls), PlainLine(l)) \in Seq(T)
      /\ Len(Append(Plainly(ls), PlainLine(l))) = Len(ls) + 1
  BY <1>1, <1>5
<1>7. \A i \in 1..(Len(ls) + 1) :
        Append(Plainly(ls), PlainLine(l))[i]
          = IF i = Len(ls) + 1 THEN PlainLine(l) ELSE PlainLine(ls[i])
  BY <1>1, <1>4, <1>5
<1> QED
  BY <1>1, <1>2, <1>3, <1>6, <1>7

\* In plain lines every line has its end
LEMMA PlainRead ==
  ASSUME NEW ls \in Seq(Seq(Pieces)), NEW qp \in BOOLEAN
  PROVE  Plainly(ls) \in Seq(DataLine) /\ Decode(Plainly(ls), qp, FALSE) = Joined(ls)
<1> DEFINE Ok(t) == Plainly(t) \in Seq(DataLine) /\ Decode(Plainly(t), qp, FALSE) = Joined(t)
           T == { t \in Seq(Seq(Pieces)) : Ok(t) }
<1>1. <<>> \in T
  <2>1. Plainly(<<>>) = <<>>
    BY DEF Plainly
  <2>2. Joined(<<>>) = <<>>
    BY SpreadNone DEF Joined
  <2>3. <<>> \in Seq(DataLine) /\ <<>> \in Seq(Seq(Pieces))
    BY NoneType
  <2>4. Ok(<<>>)
    BY <2>1, <2>2, <2>3, DecodeNone
  <2> QED
    BY <2>3, <2>4
<1>2. ASSUME NEW t \in Seq(Seq(Pieces)), NEW l \in Seq(Pieces), t \in T PROVE Append(t, l) \in T
  <2> DEFINE x == PlainLine(l)
  <2>0. Ok(t)
    BY <1>2
  <2>1. Plainly(Append(t, l)) = Append(Plainly(t), x)
    BY PlainAppend
  <2>2. x \in DataLine /\ x.p = l /\ x.soft = FALSE
    BY DEF PlainLine, Data, DataLine
  <2> HIDE DEF x
  <2>3. Decode(Append(Plainly(t), x), qp, FALSE) = Decode(Plainly(t), qp, FALSE) \o (x.p \o Ended(x, qp, FALSE))
    BY <2>0, <2>2, DecodeAppend
  <2>4. Ended(x, qp, FALSE) = <<"nl">>
    BY <2>2 DEF Ended
  <2>5. Joined(Append(t, l)) = Joined(t) \o (l \o <<"nl">>)
    BY JoinedAppend
  <2>6. Append(Plainly(t), x) \in Seq(DataLine) /\ Append(t, l) \in Seq(Seq(Pieces))
    BY <2>0, <2>2, AppendType
  <2>7. Ok(Append(t, l))
    BY <2>0, <2>1, <2>2, <2>3, <2>4, <2>5, <2>6
  <2> QED
    BY <2>6, <2>7
<1> HIDE DEF T
<1>3. Seq(Seq(Pieces)) \subseteq T
  BY <1>1, <1>2, SeqInduct
<1> QED
  BY <1>3 DEF T

LEMMA CalmLine ==
  ASSUME NEW P, P \subseteq Pieces, NEW p \in Seq(P), NEW e \in {"7bit", "qp", "b64"},
         NEW soft \in BOOLEAN, p # <<"dash">> \/ e # "7bit"
  PROVE  Data(p, e, soft) \in Calm(P)
<1>1. p \in Seq(Pieces)
  BY Seqs
<1>2. /\ Data(p, e, soft) \in DataLine
      /\ Data(p, e, soft).p = p /\ Data(p, e, soft).e = e
  BY <1>1, DataType
<1> HIDE DEF Data
<1> QED
  BY <1>2 DEF Calm

LEMMA PlainCalm ==
  ASSUME NEW P, P \subseteq Pieces, NEW ls \in Seq(Seq(P)),
         \A i \in DOMAIN ls : ls[i] # <<"dash">>
  PROVE  Plainly(ls) \in Seq(Calm(P))
<1>1. ASSUME NEW i \in 1..Len(ls) PROVE PlainLine(ls[i]) \in Calm(P)
  <2>0. i \in DOMAIN ls
    OBVIOUS
  <2>1. ls[i] \in Seq(P) /\ ls[i] # <<"dash">>
    BY <2>0
  <2> QED
    BY <2>1, CalmLine DEF PlainLine
<1>2. DOMAIN ls = 1..Len(ls) /\ Len(ls) \in Nat
  OBVIOUS
<1> QED
  BY <1>1, <1>2 DEF Plainly
-----------------------------------------------------------------------------
(* Quoted printable.                                                       *)

SoftLine(x) == Data(<<x>>, "qp", TRUE)
Soft(k)     == [i \in DOMAIN k |-> SoftLine(k[i])]

LEMMA SoftAppend ==
  ASSUME NEW S, NEW k \in Seq(S), NEW x \in S
  PROVE  Soft(Append(k, x)) = Append(Soft(k), SoftLine(x))
<1> DEFINE T == { SoftLine(y) : y \in S }
<1>1. Soft(k) \in Seq(T) /\ Len(Soft(k)) = Len(k) /\ Len(k) \in Nat
  BY DEF Soft
<1>2. Soft(Append(k, x)) \in Seq(T) /\ Len(Soft(Append(k, x))) = Len(k) + 1
  BY DEF Soft
<1>3. \A i \in 1..(Len(k) + 1) :
        Soft(Append(k, x))[i] = IF i = Len(k) + 1 THEN SoftLine(x) ELSE SoftLine(k[i])
  BY DEF Soft
<1>4. \A i \in 1..Len(k) : Soft(k)[i] = SoftLine(k[i])
  BY DEF Soft
<1>5. SoftLine(x) \in T
  OBVIOUS
<1> HIDE DEF T
<1>6. Append(Soft(k), SoftLine(x)) \in Seq(T) /\ Len(Append(Soft(k), SoftLine(x))) = Len(k) + 1
  BY <1>1, <1>5
<1>7. \A i \in 1..(Len(k) + 1) :
        Append(Soft(k), SoftLine(x))[i] = IF i = Len(k) + 1 THEN SoftLine(x) ELSE SoftLine(k[i])
  BY <1>1, <1>4, <1>5
<1> QED
  BY <1>1, <1>2, <1>3, <1>6, <1>7

LEMMA Prefix ==
  ASSUME NEW S, NEW s \in Seq(S), NEW m \in 0..Len(s)
  PROVE  /\ SubSeq(s, 1, m) \in Seq(S) /\ Len(SubSeq(s, 1, m)) = m
         /\ \A i \in 1..m : SubSeq(s, 1, m)[i] = s[i]
<1>1. SubSeq(s, 1, m) \in Seq(S)
  OBVIOUS
<1>2. Len(SubSeq(s, 1, m)) = m
  OBVIOUS
<1>3. \A i \in 1..m : SubSeq(s, 1, m)[i] = s[i]
  OBVIOUS
<1> QED
  BY <1>1, <1>2, <1>3

LEMMA NotLast ==
  ASSUME NEW n \in Nat, NEW i \in 1..n, i # n
  PROVE  i \in 1..(n - 1) /\ i < n
  OBVIOUS

LEMMA FrontLast ==
  ASSUME NEW S, NEW l \in Seq(S), l # <<>>
  PROVE  /\ Len(l) \in Nat \ {0} /\ l[Len(l)] \in S
         /\ SubSeq(l, 1, Len(l) - 1) \in Seq(S) /\ Len(SubSeq(l, 1, Len(l) - 1)) = Len(l) - 1
         /\ l = Append(SubSeq(l, 1, Len(l) - 1), l[Len(l)])
         /\ \A i \in 1..(Len(l) - 1) : SubSeq(l, 1, Len(l) - 1)[i] = l[i]
<1> DEFINE n == Len(l)
           k == SubSeq(l, 1, n - 1)
<1>1. n \in Nat \ {0} /\ l[n] \in S
  OBVIOUS
<1>a. n - 1 \in 0..n /\ n - 1 \in Nat
  BY <1>1
<1>2. k \in Seq(S) /\ Len(k) = n - 1
  BY <1>a, Prefix
<1>3. \A i \in 1..(n - 1) : k[i] = l[i]
  BY <1>1
<1> HIDE DEF k
<1>4. Append(k, l[n]) \in Seq(S) /\ Len(Append(k, l[n])) = n
  BY <1>1, <1>2
<1>5. ASSUME NEW i \in 1..n PROVE Append(k, l[n])[i] = l[i]
  <2>1. CASE i = n
    BY <1>1, <1>2, <2>1
  <2>2. CASE i # n
    <3>1. i \in 1..(n - 1)
      BY <1>1, <2>2
    <3> QED
      BY <1>1, <1>2, <1>3, <3>1
  <2> QED
    BY <2>1, <2>2
<1>6. l = Append(k, l[n])
  BY <1>1, <1>4, <1>5
<1> QED
  BY <1>1, <1>2, <1>3, <1>6 DEF k

LEMMA SoftRead ==
  ASSUME NEW k \in Seq(Pieces)
  PROVE  Soft(k) \in Seq(DataLine) /\ Decode(Soft(k), TRUE, FALSE) = k
<1> DEFINE Ok(t) == Soft(t) \in Seq(DataLine) /\ Decode(Soft(t), TRUE, FALSE) = t
           T == { t \in Seq(Pieces) : Ok(t) }
<1>1. <<>> \in T
  <2>1. Soft(<<>>) = <<>>
    BY DEF Soft
  <2>2. <<>> \in Seq(DataLine) /\ <<>> \in Seq(Pieces)
    BY NoneType
  <2>3. Ok(<<>>)
    BY <2>1, <2>2, DecodeNone
  <2> QED
    BY <2>2, <2>3
<1>2. ASSUME NEW t \in Seq(Pieces), NEW y \in Pieces, t \in T PROVE Append(t, y) \in T
  <2> DEFINE x == SoftLine(y)
  <2>0. Ok(t)
    BY <1>2
  <2>1. Soft(Append(t, y)) = Append(Soft(t), x)
    BY SoftAppend
  <2>2. <<y>> \in Seq(Pieces)
    BY OneType
  <2>3. x \in DataLine /\ x.p = <<y>> /\ x.soft = TRUE
    BY <2>2, DataType DEF SoftLine
  <2> HIDE DEF x
  <2>4. Decode(Append(Soft(t), x), TRUE, FALSE) = Decode(Soft(t), TRUE, FALSE) \o (x.p \o Ended(x, TRUE, FALSE))
    BY <2>0, <2>3, DecodeAppend
  <2>5. Ended(x, TRUE, FALSE) = <<>> /\ <<y>> \o <<>> = <<y>>
    BY <2>3 DEF Ended
  <2>6. t \o <<y>> = Append(t, y)
    BY AppendOne
  <2>7. Append(Soft(t), x) \in Seq(DataLine) /\ Append(t, y) \in Seq(Pieces)
    BY <2>0, <2>3, AppendType
  <2>8. Ok(Append(t, y))
    BY <2>0, <2>1, <2>3, <2>4, <2>5, <2>6, <2>7
  <2> QED
    BY <2>7, <2>8
<1> HIDE DEF T
<1>3. Seq(Pieces) \subseteq T
  BY <1>1, <1>2, SeqInduct
<1> QED
  BY <1>3 DEF T

\* A line is its pieces, with soft line breaks between them, and its end
LEMMA QpLineRead ==
  ASSUME NEW P, P \subseteq Pieces, NEW l \in Seq(P)
  PROVE  /\ QpLine(l) \in Seq(Calm(P))
         /\ Decode(QpLine(l), TRUE, FALSE) = l \o <<"nl">>
<1>0. <<"nl">> \in Seq(Pieces) /\ l \in Seq(Pieces) /\ <<>> \in Seq(P)
  <2>1. "nl" \in Pieces
    BY DEF Pieces
  <2> QED
    BY <2>1, OneType, Seqs, NoneType
<1>1. CASE l = <<>>
  <2> DEFINE x == Data(<<>>, "qp", FALSE)
  <2>1. QpLine(l) = <<x>>
    BY <1>1 DEF QpLine
  <2>2. x \in Calm(P)
    BY <1>0, CalmLine
  <2>3. x \in DataLine /\ x.p = <<>> /\ x.soft = FALSE
    BY NoneType DEF Data, DataLine
  <2> HIDE DEF x
  <2>4. <<x>> \in Seq(Calm(P))
    BY <2>2, OneType
  <2>5. Decode(<<x>>, TRUE, FALSE) = x.p \o Ended(x, TRUE, FALSE)
    <3>1. Decoding(TRUE, FALSE) \in [DataLine -> Seq(Pieces)]
      BY DecodingType
    <3>2. Decode(<<x>>, TRUE, FALSE) = Decoding(TRUE, FALSE)[x]
      BY <2>3, <3>1, SpreadOne DEF Decode
    <3> QED
      BY <2>3, <3>2 DEF Decoding
  <2>6. Ended(x, TRUE, FALSE) = <<"nl">>
    BY <2>3 DEF Ended
  <2> QED
    BY <1>1, <2>1, <2>3, <2>4, <2>5, <2>6
<1>2. CASE l # <<>>
  <2> DEFINE n == Len(l)
             k == SubSeq(l, 1, n - 1)
             x == Data(<<l[n]>>, "qp", FALSE)
             f == [i \in DOMAIN l |-> Data(<<l[i]>>, "qp", i < Len(l))]
  <2>1. QpLine(l) = f
    BY <1>2 DEF QpLine
  <2>2. /\ n \in Nat \ {0} /\ l[n] \in P /\ k \in Seq(P) /\ l = Append(k, l[n]) /\ Len(k) = n - 1
        /\ \A i \in 1..(n - 1) : k[i] = l[i]
    BY <1>2, FrontLast
  <2>3. f \in Seq(Calm(P))
    <3>1. ASSUME NEW i \in 1..n PROVE Data(<<l[i]>>, "qp", i < Len(l)) \in Calm(P)
      <4>1. l[i] \in P /\ (i < Len(l)) \in BOOLEAN
        OBVIOUS
      <4>2. <<l[i]>> \in Seq(P)
        BY <4>1, OneType
      <4> DEFINE p == <<l[i]>>
                 soft == (i < Len(l))
      <4>3. p \in Seq(P) /\ soft \in BOOLEAN
        BY <4>1, <4>2
      <4> HIDE DEF p, soft
      <4>4. Data(p, "qp", soft) \in Calm(P)
        BY <4>3, CalmLine
      <4> QED
        BY <4>4 DEF p, soft
    <3>2. DOMAIN l = 1..n /\ n \in Nat
      BY <2>2
    <3> QED
      BY <3>1, <3>2
  <2>4. l[n] \in Pieces /\ <<l[n]>> \in Seq(Pieces) /\ k \in Seq(Pieces)
    <3>1. l[n] \in Pieces
      BY <2>2
    <3>2. <<l[n]>> \in Seq(Pieces)
      BY <3>1, OneType
    <3> QED
      BY <2>2, <3>1, <3>2, Seqs
  <2>5. x \in DataLine /\ x.p = <<l[n]>> /\ x.soft = FALSE
    BY <2>4 DEF Data, DataLine
  <2> HIDE DEF x
  <2>6. Soft(k) \in Seq(DataLine) /\ Decode(Soft(k), TRUE, FALSE) = k
    BY <2>4, SoftRead
  <2>7. f = Append(Soft(k), x)
    <3>0. Len(Soft(k)) = n - 1
      BY <2>2 DEF Soft
    <3>1. Append(Soft(k), x) \in Seq(DataLine) /\ Len(Append(Soft(k), x)) = n
      BY <2>2, <2>5, <2>6, <3>0
    <3>2. ASSUME NEW i \in 1..n PROVE f[i] = Append(Soft(k), x)[i]
      <4>1. CASE i = n
        <5>1. Append(Soft(k), x)[i] = x
          BY <2>2, <2>5, <2>6, <3>0, <4>1
        <5>2. (i < Len(l)) = FALSE /\ i \in DOMAIN l
          BY <2>2, <4>1
        <5>3. f[i] = Data(<<l[i]>>, "qp", FALSE)
          BY <5>2
        <5> QED
          BY <4>1, <5>1, <5>3 DEF x
      <4>2. CASE i # n
        <5>b. n \in Nat \ {0} /\ DOMAIN l = 1..n
          BY <2>2
        <5>a. i \in 1..(n - 1) /\ i \in DOMAIN l /\ i < Len(l)
          BY <5>b, <4>2, NotLast
        <5>1. i \in 1..(n - 1) /\ i \in DOMAIN l /\ (i < Len(l)) = TRUE
          BY <5>a
        <5>2. Append(Soft(k), x)[i] = Soft(k)[i]
          BY <2>2, <2>5, <2>6, <3>0, <5>1
        <5>3. i \in DOMAIN k
          BY <2>2, <5>1
        <5>4. Soft(k)[i] = Data(<<l[i]>>, "qp", TRUE)
          BY <2>2, <5>1, <5>3 DEF Soft, SoftLine
        <5>5. f[i] = Data(<<l[i]>>, "qp", TRUE)
          BY <5>1
        <5> QED
          BY <5>2, <5>4, <5>5
      <4> QED
        BY <4>1, <4>2
    <3>3. Len(f) = n
      BY <2>2
    <3> HIDE DEF f, x
    <3> QED
      BY <2>2, <2>3, <3>1, <3>2, <3>3
  <2> HIDE DEF f, x, k
  <2>8. Decode(Append(Soft(k), x), TRUE, FALSE)
          = Decode(Soft(k), TRUE, FALSE) \o (x.p \o Ended(x, TRUE, FALSE))
    BY <2>5, <2>6, DecodeAppend
  <2>9. Ended(x, TRUE, FALSE) = <<"nl">>
    BY <2>5 DEF Ended
  <2>10. k \o (<<l[n]>> \o <<"nl">>) = (k \o <<l[n]>>) \o <<"nl">>
    BY <1>0, <2>4, ConcatThree
  <2>11. k \o <<l[n]>> = l
    BY <2>2, AppendOne
  <2> QED
    BY <2>1, <2>3, <2>5, <2>6, <2>7, <2>8, <2>9, <2>10, <2>11
<1> QED
  BY <1>1, <1>2

QpLines(P) == [l \in Seq(P) |-> QpLine(l)]

LEMMA QpRead ==
  ASSUME NEW P, P \subseteq Pieces, NEW ls \in Seq(Seq(P))
  PROVE  /\ Spread(ls, QpLines(P)) \in Seq(Calm(P))
         /\ Decode(Spread(ls, QpLines(P)), TRUE, FALSE) = Joined(ls)
<1> DEFINE W(t) == Spread(t, QpLines(P))
           Ok(t) == Decode(W(t), TRUE, FALSE) = Joined(t)
           T == { t \in Seq(Seq(P)) : Ok(t) }
<1>0. QpLines(P) \in [Seq(P) -> Seq(Calm(P))]
  BY QpLineRead DEF QpLines
<1>a. \A t \in Seq(Seq(P)) : W(t) \in Seq(Calm(P)) /\ W(t) \in Seq(DataLine)
  BY <1>0, SpreadType, CalmType
<1>b. Seq(P) \subseteq Seq(Pieces) /\ Seq(Seq(P)) \subseteq Seq(Seq(Pieces))
  <2>1. Seq(P) \subseteq Seq(Pieces)
    BY Seqs
  <2> QED
    BY <2>1, Seqs
<1>1. <<>> \in T
  <2>1. W(<<>>) = <<>>
    BY SpreadNone
  <2>2. Joined(<<>>) = <<>>
    BY SpreadNone DEF Joined
  <2>3. Ok(<<>>)
    BY <2>1, <2>2, DecodeNone
  <2> QED
    BY <2>3, NoneType
<1>2. ASSUME NEW t \in Seq(Seq(P)), NEW l \in Seq(P), t \in T PROVE Append(t, l) \in T
  <2>1. W(Append(t, l)) = W(t) \o QpLines(P)[l]
    BY <1>0, SpreadAppend
  <2>2. QpLines(P)[l] = QpLine(l)
    BY DEF QpLines
  <2>3. QpLine(l) \in Seq(DataLine) /\ Decode(QpLine(l), TRUE, FALSE) = l \o <<"nl">>
    BY QpLineRead, CalmType
  <2>4. W(t) \in Seq(DataLine)
    BY <1>a
  <2> HIDE DEF W
  <2>5. Decode(W(t) \o QpLine(l), TRUE, FALSE) = Decode(W(t), TRUE, FALSE) \o Decode(QpLine(l), TRUE, FALSE)
    BY <2>3, <2>4, DecodeConcat
  <2>6. Joined(Append(t, l)) = Joined(t) \o (l \o <<"nl">>)
    BY <1>b, JoinedAppend
  <2>7. Ok(Append(t, l))
    BY <1>2, <2>1, <2>2, <2>3, <2>5, <2>6
  <2> QED
    BY <2>7, AppendType
<1> HIDE DEF T
<1>3. Seq(Seq(P)) \subseteq T
  BY <1>1, <1>2, SeqInduct
<1>4. ls \in T
  BY <1>3
<1> QED
  BY <1>4, <1>a DEF T

-----------------------------------------------------------------------------
(* Base64.                                                                 *)

LEMMA Between ==
  ASSUME NEW S, NEW s \in Seq(S), NEW a \in 0..Len(s), NEW b \in a..Len(s)
  PROVE  /\ SubSeq(s, a + 1, b) \in Seq(S) /\ Len(SubSeq(s, a + 1, b)) = b - a
         /\ \A i \in 1..(b - a) : SubSeq(s, a + 1, b)[i] = s[a + i]
<1>0. /\ a \in Nat /\ b \in Nat /\ Len(s) \in Nat /\ a <= b /\ b <= Len(s)
      /\ a + 1 \in 1..(Len(s) + 1) /\ b \in a..Len(s)
  OBVIOUS
<1>1. SubSeq(s, a + 1, b) \in Seq(S)
  BY <1>0
<1>2. Len(SubSeq(s, a + 1, b)) = b - a
  BY <1>0
<1>3. \A i \in 1..(b - a) : SubSeq(s, a + 1, b)[i] = s[a + i]
  BY <1>0
<1> QED
  BY <1>1, <1>2, <1>3

LEMMA PrefixJoin ==
  ASSUME NEW S, NEW s \in Seq(S), NEW a \in 0..Len(s), NEW b \in a..Len(s)
  PROVE  SubSeq(s, 1, a) \o SubSeq(s, a + 1, b) = SubSeq(s, 1, b)
<1> DEFINE u == SubSeq(s, 1, a)
           v == SubSeq(s, a + 1, b)
           w == SubSeq(s, 1, b)
<1>0. a \in Nat /\ b \in Nat /\ a <= b /\ b \in 0..Len(s)
  OBVIOUS
<1>1. u \in Seq(S) /\ Len(u) = a /\ \A i \in 1..a : u[i] = s[i]
  BY Prefix
<1>2. v \in Seq(S) /\ Len(v) = b - a /\ \A i \in 1..(b - a) : v[i] = s[a + i]
  BY Between
<1>3. w \in Seq(S) /\ Len(w) = b /\ \A i \in 1..b : w[i] = s[i]
  BY <1>0, Prefix
<1> HIDE DEF u, v, w
<1>4. u \o v \in Seq(S) /\ Len(u \o v) = b
  BY <1>0, <1>1, <1>2
<1>6. \A i \in 1..b : (u \o v)[i] = IF i <= a THEN u[i] ELSE v[i - a]
  <2>1. u \in Seq(S) /\ v \in Seq(S) /\ Len(u) = a
    BY <1>1, <1>2
  <2> QED
    BY ONLY <2>1, <1>4, ConcatAt
<1>5. ASSUME NEW i \in 1..b PROVE (u \o v)[i] = w[i]
  <2>1. CASE i <= a
    <3>1. i \in 1..a
      BY <1>0, <2>1
    <3>2. (u \o v)[i] = u[i]
      BY ONLY <1>6, i \in 1..b, <2>1
    <3> QED
      BY <1>1, <1>3, <3>1, <3>2
  <2>2. CASE ~(i <= a)
    <3>1. i - a \in 1..(b - a) /\ a + (i - a) = i
      BY <1>0, <2>2
    <3>2. (u \o v)[i] = v[i - a]
      BY ONLY <1>6, i \in 1..b, <2>2
    <3>3. v[i - a] = s[a + (i - a)]
      BY <1>2, <3>1
    <3> QED
      BY <1>3, <3>1, <3>2, <3>3
  <2> QED
    BY <2>1, <2>2
<1>7. u \o v = w
  BY <1>3, <1>4, <1>5
<1> QED
  BY <1>7 DEF u, v, w

LEMMA Halves ==
  ASSUME NEW n \in Nat, NEW i \in Nat, i + 1 <= (n + 1) \div 2
  PROVE  2 * i < n /\ 2 * (i + 1) - 1 = 2 * i + 1 /\ 2 * (i + 1) - 1 <= n
  OBVIOUS

LEMMA HalvesAll ==
  ASSUME NEW n \in Nat
  PROVE  (n + 1) \div 2 \in Nat /\ ~(2 * ((n + 1) \div 2) < n)
  OBVIOUS

LEMMA B64Read ==
  ASSUME NEW P, P \subseteq Pieces, NEW c \in Seq(P)
  PROVE  /\ WriteB64(c) \in Seq(Calm(P))
         /\ Decode(WriteB64(c), FALSE, TRUE) = c
<1> DEFINE n == Len(c)
           m == (n + 1) \div 2
           End(i) == IF 2 * i > n THEN n ELSE 2 * i
           w == WriteB64(c)
           T == { i \in 0..m : Decode(SubSeq(w, 1, i), FALSE, TRUE) = SubSeq(c, 1, End(i)) }
<1>0. n \in Nat /\ m \in Nat
  BY HalvesAll
<1>1. c \in Seq(Pieces)
  BY Seqs
<1>a. w = [i \in 1..m |-> Data(SubSeq(c, 2 * i - 1, End(i)), "b64", FALSE)]
  BY DEF WriteB64
<1>2. ASSUME NEW i \in 0..(m - 1)
      PROVE  /\ i + 1 \in 1..m /\ 2 * i \in 0..n /\ End(i + 1) \in (2 * i)..n /\ End(i) = 2 * i
             /\ w[i + 1] = Data(SubSeq(c, 2 * i + 1, End(i + 1)), "b64", FALSE)
  <2>1. i \in Nat /\ i + 1 <= (n + 1) \div 2 /\ i + 1 \in 1..m
    BY <1>0
  <2>2. 2 * i < n /\ 2 * (i + 1) - 1 = 2 * i + 1
    BY <1>0, <2>1, Halves
  <2>3. 2 * i \in 0..n /\ End(i + 1) \in (2 * i)..n /\ End(i) = 2 * i
    BY <1>0, <2>1, <2>2
  <2>4. w[i + 1] = Data(SubSeq(c, 2 * (i + 1) - 1, End(i + 1)), "b64", FALSE)
    BY <1>a, <2>1
  <2> QED
    BY <2>1, <2>2, <2>3, <2>4
<1>b. w = [i \in 1..m |-> w[i]]
  BY <1>a
<1> HIDE DEF m, w, End
<1>3. ASSUME NEW i \in 0..(m - 1)
      PROVE  /\ SubSeq(c, 2 * i + 1, End(i + 1)) \in Seq(P)
             /\ SubSeq(c, 2 * i + 1, End(i + 1)) \in Seq(Pieces)
             /\ w[i + 1] \in Calm(P)
             /\ w[i + 1] \in DataLine
             /\ w[i + 1].p = SubSeq(c, 2 * i + 1, End(i + 1))
  <2> DEFINE p == SubSeq(c, 2 * i + 1, End(i + 1))
  <2>1. p \in Seq(P)
    BY <1>2, Between
  <2>2. p \in Seq(Pieces)
    BY <2>1, Seqs
  <2>3. w[i + 1] = Data(p, "b64", FALSE)
    BY <1>2
  <2> HIDE DEF p
  <2>4. Data(p, "b64", FALSE) \in Calm(P)
    BY <2>1, CalmLine
  <2>5. Data(p, "b64", FALSE) \in DataLine /\ Data(p, "b64", FALSE).p = p
    BY <2>2, DataType
  <2> QED
    BY <2>1, <2>2, <2>3, <2>4, <2>5 DEF p
<1>4. w \in Seq(Calm(P)) /\ Len(w) = m
  <2>1. ASSUME NEW i \in 1..m PROVE w[i] \in Calm(P)
    <3>1. i - 1 \in 0..(m - 1) /\ (i - 1) + 1 = i
      BY <1>0
    <3> QED
      BY <1>3, <3>1
  <2> QED
    BY <1>0, <1>b, <2>1
<1>5. w \in Seq(DataLine)
  BY <1>4, CalmType
<1>6. 0 \in T
  <2>1. SubSeq(w, 1, 0) = <<>> /\ SubSeq(c, 1, 0) = <<>>
    BY <1>1, <1>5
  <2>2. End(0) = 0
    BY <1>0 DEF End
  <2>3. Decode(SubSeq(w, 1, 0), FALSE, TRUE) = SubSeq(c, 1, End(0))
    BY <2>1, <2>2, DecodeNone
  <2>4. 0 \in 0..m
    BY <1>0
  <2> QED
    BY <2>3, <2>4
<1>7. ASSUME NEW i \in 0..(m - 1), i \in T PROVE i + 1 \in T
  <2> DEFINE p == SubSeq(c, 2 * i + 1, End(i + 1))
             x == w[i + 1]
             v == SubSeq(w, 1, i)
  <2>1. SubSeq(w, 1, i + 1) = Append(v, x) /\ v \in Seq(DataLine)
    BY <1>0, <1>4, <1>5
  <2>2. x \in DataLine /\ x.p = p /\ p \in Seq(Pieces)
    BY <1>3
  <2> HIDE DEF x, v
  <2>3. Decode(Append(v, x), FALSE, TRUE) = Decode(v, FALSE, TRUE) \o (x.p \o Ended(x, FALSE, TRUE))
    BY <2>1, <2>2, DecodeAppend
  <2>4. Ended(x, FALSE, TRUE) = <<>> /\ x.p \o <<>> = p
    <3>1. p \o <<>> = p
      BY <2>2, ConcatNone
    <3> QED
      BY <2>2, <3>1 DEF Ended
  <2>5. Decode(v, FALSE, TRUE) = SubSeq(c, 1, 2 * i)
    BY <1>2, <1>7 DEF v
  <2>6. SubSeq(c, 1, 2 * i) \o p = SubSeq(c, 1, End(i + 1))
    BY <1>1, <1>2, PrefixJoin
  <2>7. Decode(SubSeq(w, 1, i + 1), FALSE, TRUE) = SubSeq(c, 1, End(i + 1))
    BY <2>1, <2>3, <2>4, <2>5, <2>6
  <2>8. i + 1 \in 0..m
    BY <1>0
  <2> QED
    BY <2>7, <2>8
<1> HIDE DEF T
<1>8. 0..m \subseteq T
  BY <1>0, <1>6, <1>7, Induct
<1>9. m \in T
  BY <1>0, <1>8
<1>10. SubSeq(w, 1, m) = w
  BY <1>4
<1>11. End(m) = n
  BY <1>0, HalvesAll DEF End, m
<1>12. SubSeq(c, 1, n) = c
  BY <1>1
<1> QED
  BY <1>4, <1>9, <1>10, <1>11, <1>12 DEF T, w
-----------------------------------------------------------------------------
(* Any content, as write_part encodes it.                                  *)

Encodes == {"7bit", "qp", "b64"}

\* The encoding is one that part may get
Fits(c, enc) == enc = "b64" \/ enc = ContentEncoding(c)

LEMMA WritePlainIs == ASSUME NEW c PROVE WritePlain(c) = Plainly(SplitLines(c))
  BY DEF WritePlain, Plainly, PlainLine

LEMMA WriteQpIs ==
  ASSUME NEW P, NEW c, SplitLines(c) \in Seq(Seq(P))
  PROVE  WriteQp(c) = Spread(SplitLines(c), QpLines(P))
<1> DEFINE ls == SplitLines(c)
<1>1. \A i \in DOMAIN ls : QpLines(P)[ls[i]] = QpLine(ls[i])
  BY DEF QpLines
<1>2. [i \in DOMAIN ls |-> QpLine(ls[i])] = [i \in DOMAIN ls |-> QpLines(P)[ls[i]]]
  BY <1>1
<1> QED
  BY <1>2 DEF WriteQp, Spread

LEMMA PlainNoDash ==
  ASSUME NEW c, ContentEncoding(c) = "7bit"
  PROVE  \A i \in DOMAIN SplitLines(c) : SplitLines(c)[i] # <<"dash">>
<1>1. \A l \in ToSet(SplitLines(c)) : ~("dash" \in ToSet(l))
  BY DEF ContentEncoding
<1>2. "dash" \in ToSet(<<"dash">>)
  BY DEF ToSet
<1>3. \A i \in DOMAIN SplitLines(c) : SplitLines(c)[i] \in ToSet(SplitLines(c))
  BY DEF ToSet
<1> QED
  BY <1>1, <1>2, <1>3

LEMMA ContentRead ==
  ASSUME NEW P, P \subseteq Pieces, NEW c \in Seq(P), NEW enc \in Encodes, Fits(c, enc)
  PROVE  /\ WriteContent(c, enc) \in Seq(Calm(P))
         /\ \/ Decode(WriteContent(c, enc), enc = "qp", enc = "b64") = c
            \/ Decode(WriteContent(c, enc), enc = "qp", enc = "b64") = c \o <<"nl">>
<1> DEFINE ls == SplitLines(c)
<1>1. /\ ls \in Seq(Seq(Within(P))) /\ ls \in Seq(Seq(Pieces))
      /\ Joined(ls) = c \/ Joined(ls) = c \o <<"nl">>
  <2>1. P \subseteq Pieces
    OBVIOUS
  <2> QED
    BY <2>1, LinesJoin
<1>2. ls \in Seq(Seq(P))
  <2>1. Within(P) \subseteq P
    BY DEF Within
  <2>2. Seq(Within(P)) \subseteq Seq(P)
    BY <2>1, Seqs
  <2> QED
    BY <1>1, <2>2, Seqs
<1> HIDE DEF ls
<1>3. CASE enc = "b64"
  <2>1. WriteContent(c, enc) = WriteB64(c)
    BY <1>3 DEF WriteContent
  <2>2. (enc = "qp") = FALSE /\ (enc = "b64") = TRUE
    BY <1>3
  <2> QED
    BY <2>1, <2>2, B64Read
<1>4. CASE enc = "qp"
  <2>1. WriteContent(c, enc) = Spread(ls, QpLines(P))
    BY <1>2, <1>4, WriteQpIs DEF WriteContent, ls
  <2>2. (enc = "qp") = TRUE /\ (enc = "b64") = FALSE
    BY <1>4
  <2>3. /\ Spread(ls, QpLines(P)) \in Seq(Calm(P))
        /\ Decode(Spread(ls, QpLines(P)), TRUE, FALSE) = Joined(ls)
    BY <1>2, QpRead
  <2> QED
    BY <1>1, <2>1, <2>2, <2>3
<1>5. CASE enc = "7bit"
  <2>1. WriteContent(c, enc) = Plainly(ls)
    BY <1>5, WritePlainIs DEF WriteContent, ls
  <2>2. (enc = "qp") = FALSE /\ (enc = "b64") = FALSE
    BY <1>5
  <2>3. \A i \in DOMAIN ls : ls[i] # <<"dash">>
    BY <1>5, PlainNoDash DEF Fits, ls
  <2>4. Plainly(ls) \in Seq(Calm(P))
    BY <1>2, <2>3, PlainCalm
  <2>5. Decode(Plainly(ls), FALSE, FALSE) = Joined(ls)
    BY <1>1, PlainRead
  <2> QED
    BY <1>1, <2>1, <2>2, <2>4, <2>5
<1> QED
  BY <1>3, <1>4, <1>5 DEF Encodes

-----------------------------------------------------------------------------
(* Providers and what stays the same in them.                              *)

Fields ==
  { "inBody", "preamble", "path", "bnd", "nest", "inData", "bodySeen", "cbody", "chtml", "att",
    "crypto", "csig", "isEnc", "hash", "hashLevel", "checked", "qp", "b64", "inPh", "proto",
    "struct", "body", "html", "phBuf", "phVersion", "atts", "data", "open", "sig", "everything",
    "failed" }

IsProvider(r) == DOMAIN r = Fields

\* r became q, and only the fields in F may have changed
Same(q, r, F) == /\ IsProvider(r) /\ IsProvider(q)
                 /\ \A f \in Fields \ F : q[f] = r[f]

LEMMA ProviderIs == ASSUME NEW e PROVE IsProvider(Provider(e))
  BY DEF IsProvider, Provider, Fields

LEMMA SameTrans ==
  ASSUME NEW r, NEW q, NEW p, NEW F, NEW G, Same(q, r, F), Same(p, q, G)
  PROVE  Same(p, r, F \cup G)
  BY DEF Same

LEMMA SameMore ==
  ASSUME NEW r, NEW q, NEW F, NEW G, Same(q, r, F), F \subseteq G
  PROVE  Same(q, r, G)
  BY DEF Same

LEMMA SameRefl == ASSUME NEW r, NEW F, IsProvider(r) PROVE Same(r, r, F)
  BY DEF Same

Bounds  == {"", "outer", "inner", "alt", "sign", "enc"}
Elem(H) == [h : H, bnd : Bounds]

\* Where the parser is: inside the parts that have the boundaries of st
Top(st) == IF st = <<>> THEN "" ELSE st[Len(st)]
Frame(r, H, st) ==
  /\ IsProvider(r)
  /\ r.path \in Seq(Elem(H)) /\ Len(r.path) = Len(st) + 1
  /\ \A i \in 1..Len(st) : r.path[i].bnd = st[i]
  /\ r.nest = Len(st) /\ r.bnd = Top(st)

LEMMA FrameSame ==
  ASSUME NEW r, NEW q, NEW H, NEW st, NEW F, Same(q, r, F), Frame(r, H, st),
         "path" \notin F, "nest" \notin F, "bnd" \notin F
  PROVE  Frame(q, H, st)
<1>1. q.path = r.path /\ q.nest = r.nest /\ q.bnd = r.bnd /\ IsProvider(q)
  BY DEF Same, Fields
<1> QED
  BY <1>1 DEF Frame

\* Headers of parts that are neither signed nor encrypted
Ordinary(h) ==
  /\ h.ph = 0 /\ h.proto = "" /\ h.main \in {"", "text", "application", "multipart"}
  /\ h.sub \notin {"signed", "encrypted", "pgp-signature", "pkcs7-signature", "pkcs7-mime"}
-----------------------------------------------------------------------------
(* The tree of parts: what Insert does to it.                              *)

LEMMA InsertCalm ==
  ASSUME NEW r, r.inBody = TRUE, NEW ln, ln.k = "data", ~(ln.p = <<"dash">> /\ ln.e = "7bit")
  PROVE  Insert(r, ln) = r
  BY DEF Insert, InsertBody, IsBoundary, IsLast

\* A header line
LEMMA InsertHead ==
  ASSUME NEW r, NEW H, NEW st \in Seq(Bounds), Frame(r, H, st), r.inBody = FALSE, r.hash # 1,
         NEW ln \in H, ln.k = "hdr"
  PROVE  /\ Same(Insert(r, ln), r, {"path"})
         /\ Frame(Insert(r, ln), H, st)
         /\ Field(Insert(r, ln)) = ln
<1> DEFINE n == Len(r.path)
           e == [r.path[n] EXCEPT !.h = ln]
           q == [r EXCEPT !.path = [@ EXCEPT ![n] = e]]
<1>0. /\ r.path \in Seq(Elem(H)) /\ n = Len(st) + 1 /\ Len(st) \in Nat /\ IsProvider(r)
      /\ n \in Nat /\ n \in 1..n
  BY DEF Frame
<1>1. Insert(r, ln) = q
  <2>1. ~IsBlank(ln)
    BY DEF IsBlank
  <2>2. StartHashing(r) = r
    BY DEF StartHashing
  <2>3. Insert(r, ln) = [r EXCEPT !.path[Len(r.path)].h = ln]
    BY <2>1, <2>2 DEF Insert, InsertHeader
  <2> QED
    BY <2>3
<1>2. r.path[n] \in Elem(H)
  BY <1>0
<1>3. e \in Elem(H) /\ e.h = ln
  BY <1>2 DEF Elem
<1> HIDE DEF e
<1>4. Same(q, r, {"path"}) /\ q.path = [r.path EXCEPT ![n] = e]
  BY <1>0 DEF Same, IsProvider, Fields
<1>5. /\ q.path \in Seq(Elem(H)) /\ Len(q.path) = n /\ q.path[n] = e
      /\ \A i \in 1..(n - 1) : q.path[i] = r.path[i]
  <2>1. [r.path EXCEPT ![n] = e] \in Seq(Elem(H)) /\ Len([r.path EXCEPT ![n] = e]) = n
    BY <1>0, <1>3
  <2>2. [r.path EXCEPT ![n] = e][n] = e
    BY <1>0
  <2>3. \A i \in 1..(n - 1) : [r.path EXCEPT ![n] = e][i] = r.path[i]
    BY <1>0
  <2> QED
    BY <1>4, <2>1, <2>2, <2>3
<1>6. q.nest = r.nest /\ q.bnd = r.bnd /\ IsProvider(q)
  BY <1>4 DEF Same, Fields
<1> HIDE DEF q
<1>7. Frame(q, H, st)
  BY <1>0, <1>5, <1>6 DEF Frame
<1>8. Field(q) = ln
  BY <1>3, <1>5 DEF Field, Current
<1> QED
  BY <1>1, <1>4, <1>7, <1>8

\* The hashing does not end at the next boundary
NotAtEnd(r) == ~(r.hash = 2 /\ r.hashLevel = r.nest)
IsBound(b)  == b \in Bounds /\ b # ""

\* The boundary of the part it is in
LEMMA ToHeader ==
  ASSUME NEW b, NEW H, NoHeader \in H, NEW st \in Seq(Bounds), Frame(b, H, st),
         NEW q, q = TransitionToHeader(b)
  PROVE  /\ Same(q, b, {"path", "preamble"}) /\ Frame(q, H, st)
         /\ b.preamble = TRUE => q.path = b.path
<1> DEFINE n == Len(b.path)
<1>0. /\ b.path \in Seq(Elem(H)) /\ n = Len(st) + 1 /\ Len(st) \in Nat /\ IsProvider(b)
      /\ n \in Nat /\ n \in 1..n /\ b.bnd = Top(st)
  BY DEF Frame
<1>4. CASE b.preamble
  <2>1. q = [b EXCEPT !.preamble = FALSE]
    BY <1>4 DEF TransitionToHeader
  <2>2. Same(q, b, {"preamble"})
    BY <1>0, <2>1 DEF Same, IsProvider, Fields
  <2>3. Frame(q, H, st)
    BY <2>2, FrameSame
  <2>6. Same(q, b, {"path", "preamble"})
    BY <2>2, SameMore
  <2>7. q.path = b.path
    BY <2>2 DEF Same, Fields
  <2> QED
    BY <2>3, <2>6, <2>7
<1>5. CASE ~b.preamble
  <2>1. q = [b EXCEPT !.path = [@ EXCEPT ![n] = NewPart]]
    BY <1>5 DEF TransitionToHeader
  <2>2. Same(q, b, {"path"}) /\ q.path = [b.path EXCEPT ![n] = NewPart]
    BY <1>0, <2>1 DEF Same, IsProvider, Fields
  <2>3. NewPart \in Elem(H)
    BY DEF NewPart, Elem, Bounds
  <2>4. /\ q.path \in Seq(Elem(H)) /\ Len(q.path) = n
        /\ \A i \in 1..(n - 1) : q.path[i] = b.path[i]
    BY <1>0, <2>2, <2>3
  <2>5. q.nest = b.nest /\ q.bnd = b.bnd /\ IsProvider(q)
    BY <2>2 DEF Same, Fields
  <2>6. Frame(q, H, st)
    BY <1>0, <2>4, <2>5 DEF Frame
  <2>9. Same(q, b, {"path", "preamble"})
    BY <2>2, SameMore
  <2>10. b.preamble # TRUE
    BY <1>5
  <2> QED
    BY <2>6, <2>9, <2>10
<1> QED
  BY <1>4, <1>5

LEMMA InsertMark ==
  ASSUME NEW r, NEW H, NoHeader \in H, NEW st \in Seq(Bounds), Frame(r, H, st), r.inBody = TRUE,
         IsBound(Top(st)), NotAtEnd(r)
  PROVE  LET q == Insert(r, Boundary(Top(st)))
         IN /\ Same(q, r, {"path", "inData", "cbody", "inBody", "preamble"})
            /\ Frame(q, H, st) /\ q.inBody = FALSE /\ q.inData = FALSE /\ q.cbody = 0
            /\ r.preamble = TRUE => q.path = r.path
<1> DEFINE a == [r EXCEPT !.inData = FALSE, !.cbody = 0]
           b == [a EXCEPT !.inBody = FALSE]
           q == TransitionToHeader(b)
<1>1. Insert(r, Boundary(Top(st))) = q
  <2>1. IsBoundary(r, Boundary(Top(st)))
    BY DEF IsBoundary, Boundary, IsBound, Frame
  <2>2. AtBoundary(r) = a
    BY DEF AtBoundary, NotAtEnd
  <2> QED
    BY <2>1, <2>2 DEF Insert, InsertBody
<1>2. /\ Same(b, r, {"inData", "cbody", "inBody"})
      /\ b.inBody = FALSE /\ b.inData = FALSE /\ b.cbody = 0
  BY DEF Same, IsProvider, Fields, Frame
<1> HIDE DEF b
<1>3. Frame(b, H, st) /\ q = TransitionToHeader(b)
  BY <1>2, FrameSame
<1> HIDE DEF q
<1>4. /\ Same(q, b, {"path", "preamble"}) /\ Frame(q, H, st)
      /\ b.preamble = TRUE => q.path = b.path
  BY <1>3, ToHeader
<1>5. Same(q, r, {"inData", "cbody", "inBody"} \cup {"path", "preamble"})
  BY <1>2, <1>4, SameTrans
<1>6. Same(q, r, {"path", "inData", "cbody", "inBody", "preamble"})
  BY <1>5, SameMore
<1>7. q.inBody = FALSE /\ q.inData = FALSE /\ q.cbody = 0
  BY <1>2, <1>4 DEF Same, Fields
<1>8. b.preamble = r.preamble /\ b.path = r.path
  BY <1>2 DEF Same, Fields
<1> QED
  BY <1>1, <1>4, <1>6, <1>7, <1>8

\* The boundary after the part that is hashed
LEMMA InsertEnd ==
  ASSUME NEW r, NEW H, NoHeader \in H, NEW st \in Seq(Bounds), Frame(r, H, st), r.inBody = TRUE,
         IsBound(Top(st)), r.hash = 2, r.hashLevel = r.nest
  PROVE  LET q == Insert(r, Boundary(Top(st)))
         IN /\ Same(q, r, {"path", "inData", "cbody", "inBody", "preamble", "hash", "crypto"})
            /\ Frame(q, H, st) /\ q.inBody = FALSE /\ q.inData = FALSE /\ q.cbody = 0
            /\ q.hash = 3 /\ q.crypto = FALSE
<1> DEFINE a == [[r EXCEPT !.inData = FALSE, !.cbody = 0] EXCEPT !.hash = 3, !.crypto = FALSE]
           b == [a EXCEPT !.inBody = FALSE]
           q == TransitionToHeader(b)
           F == {"inData", "cbody", "inBody", "hash", "crypto"}
<1>1. Insert(r, Boundary(Top(st))) = q
  <2>1. IsBoundary(r, Boundary(Top(st)))
    BY DEF IsBoundary, Boundary, IsBound, Frame
  <2>2. AtBoundary(r) = a
    BY DEF AtBoundary
  <2> HIDE DEF a
  <2> QED
    BY <2>1, <2>2 DEF Insert, InsertBody
<1>2. /\ Same(b, r, F) /\ b.inBody = FALSE /\ b.inData = FALSE /\ b.cbody = 0
      /\ b.hash = 3 /\ b.crypto = FALSE
  BY DEF Same, IsProvider, Fields, Frame
<1> HIDE DEF b
<1>3. Frame(b, H, st) /\ q = TransitionToHeader(b)
  BY <1>2, FrameSame
<1> HIDE DEF q
<1>4. Same(q, b, {"path", "preamble"}) /\ Frame(q, H, st)
  BY <1>3, ToHeader
<1>5. Same(q, r, F \cup {"path", "preamble"})
  BY <1>2, <1>4, SameTrans
<1>6. Same(q, r, {"path", "inData", "cbody", "inBody", "preamble", "hash", "crypto"})
  BY <1>5, SameMore
<1>7. q.inBody = FALSE /\ q.inData = FALSE /\ q.cbody = 0 /\ q.hash = 3 /\ q.crypto = FALSE
  BY <1>2, <1>4 DEF Same, Fields
<1> QED
  BY <1>1, <1>4, <1>6, <1>7

\* The last boundary of the part it is in
LEMMA InsertLast ==
  ASSUME NEW r, NEW H, NEW st \in Seq(Bounds), NEW b, IsBound(b), Frame(r, H, Append(st, b)),
         r.inBody = TRUE, NotAtEnd(r)
  PROVE  LET q == Insert(r, LastBoundary(b))
         IN /\ Same(q, r, {"path", "inData", "cbody", "bnd", "nest"})
            /\ Frame(q, H, st) /\ q.inData = FALSE /\ q.cbody = 0
<1> DEFINE n == Len(r.path)
           s == Append(st, b)
           a == [r EXCEPT !.inData = FALSE, !.cbody = 0]
           c == ToParent(a)
           q == LevelUp(c)
<1>0. /\ Len(st) \in Nat /\ Len(s) = Len(st) + 1 /\ s[Len(st) + 1] = b
      /\ \A i \in 1..Len(st) : s[i] = st[i]
  <2>1. b \in Bounds
    BY DEF IsBound
  <2> QED
    BY <2>1
<1>a. s # <<>> /\ s[Len(s)] = b
  BY <1>0
<1>b. Frame(r, H, s)
  OBVIOUS
<1> HIDE DEF s
<1>1. Top(s) = b
  BY <1>a DEF Top
<1>2. /\ r.path \in Seq(Elem(H)) /\ n = Len(st) + 2 /\ IsProvider(r)
      /\ n \in Nat /\ r.bnd = b /\ r.nest = Len(st) + 1
      /\ \A i \in 1..Len(s) : r.path[i].bnd = s[i]
  BY <1>0, <1>1, <1>b DEF Frame
<1>3. Insert(r, LastBoundary(b)) = q
  <2>1. ~IsBoundary(r, LastBoundary(b)) /\ IsLast(r, LastBoundary(b))
    BY <1>2 DEF IsBoundary, IsLast, LastBoundary, IsBound
  <2>2. AtBoundary(r) = a
    BY DEF AtBoundary, NotAtEnd
  <2> QED
    BY <2>1, <2>2 DEF Insert, InsertBody
<1>4. /\ Same(a, r, {"inData", "cbody"})
      /\ a.inData = FALSE /\ a.cbody = 0 /\ a.path = r.path /\ a.nest = r.nest
  BY <1>2 DEF Same, IsProvider, Fields
<1> HIDE DEF a
<1>5. /\ Same(c, a, {"path", "bnd"})
      /\ c.path = SubSeq(r.path, 1, n - 1)
      /\ c.bnd = IF n > 2 THEN r.path[n - 2].bnd ELSE ""
  <2>1. c = [a EXCEPT !.path = SubSeq(@, 1, n - 1),
                      !.bnd = IF n > 2 THEN a.path[n - 2].bnd ELSE ""]
    <3>1. Len(a.path) = n /\ n # 1
      BY <1>0, <1>2, <1>4
    <3> QED
      BY <3>1 DEF ToParent
  <2> DEFINE d == IF n > 2 THEN a.path[n - 2].bnd ELSE ""
             t == SubSeq(a.path, 1, n - 1)
  <2>2. c = [a EXCEPT !.path = t, !.bnd = d]
    BY <2>1
  <2> HIDE DEF d, t, c
  <2>3. Same(c, a, {"path", "bnd"}) /\ c.path = t /\ c.bnd = d
    BY <1>4, <2>2 DEF Same, IsProvider, Fields
  <2> QED
    BY <1>4, <2>3 DEF d, t
<1> HIDE DEF c
<1>6. Same(q, c, {"nest"}) /\ q.nest = Len(st)
  <2>1. c.nest = Len(st) + 1
    BY <1>2, <1>4, <1>5 DEF Same, Fields
  <2>2. q = [c EXCEPT !.nest = @ - 1]
    BY <1>0, <2>1 DEF LevelUp
  <2>3. Same(q, c, {"nest"}) /\ q.nest = c.nest - 1
    BY <1>5, <2>2 DEF Same, IsProvider, Fields
  <2> QED
    BY <1>0, <2>1, <2>3
<1> HIDE DEF q
<1>7. Same(q, r, {"path", "inData", "cbody", "bnd", "nest"})
  <2>1. Same(c, r, {"inData", "cbody"} \cup {"path", "bnd"})
    BY <1>4, <1>5, SameTrans
  <2>2. Same(q, r, ({"inData", "cbody"} \cup {"path", "bnd"}) \cup {"nest"})
    BY <1>6, <2>1, SameTrans
  <2> QED
    BY <2>2, SameMore
<1>8. q.inData = FALSE /\ q.cbody = 0 /\ q.path = c.path /\ q.bnd = c.bnd /\ IsProvider(q)
  BY <1>4, <1>5, <1>6 DEF Same, Fields
<1>9. n - 1 \in 0..n /\ n - 1 = Len(st) + 1
  BY <1>0, <1>2
<1>10. /\ q.path \in Seq(Elem(H)) /\ Len(q.path) = Len(st) + 1
       /\ \A i \in 1..(n - 1) : q.path[i] = r.path[i]
  <2> DEFINE t == SubSeq(r.path, 1, n - 1)
  <2>1. t \in Seq(Elem(H)) /\ Len(t) = n - 1 /\ \A i \in 1..(n - 1) : t[i] = r.path[i]
    BY <1>2, <1>9, Prefix
  <2>2. q.path = t
    BY <1>5, <1>8
  <2> HIDE DEF t
  <2> QED
    BY <1>9, <2>1, <2>2
<1>11. \A i \in 1..Len(st) : q.path[i].bnd = st[i]
  BY <1>0, <1>2, <1>9, <1>10
<1>12. q.bnd = Top(st)
  <2>1. CASE st = <<>>
    <3>1. ~(n > 2)
      BY <1>2, <2>1
    <3>2. q.bnd = ""
      BY <1>5, <1>8, <3>1, Zenon
    <3> QED
      BY <2>1, <3>2 DEF Top
  <2>2. CASE st # <<>>
    <3>1. Len(st) # 0
      BY <2>2
    <3>2. n > 2 /\ n - 2 = Len(st) /\ Len(st) \in 1..Len(s)
      BY <1>0, <1>2, <3>1
    <3>3. q.bnd = s[Len(st)] /\ Len(st) \in 1..Len(st)
      BY <1>0, <1>2, <1>5, <1>8, <3>1, <3>2
    <3> QED
      BY <1>0, <2>2, <3>3 DEF Top
  <2> QED
    BY <2>1, <2>2
<1>13. Frame(q, H, st)
  BY <1>6, <1>8, <1>10, <1>11, <1>12 DEF Frame
<1> QED
  BY <1>3, <1>7, <1>8, <1>13

-----------------------------------------------------------------------------
(* The empty line after a header.                                          *)

LEMMA FieldSame ==
  ASSUME NEW r, NEW q, NEW F, Same(q, r, F), "path" \notin F
  PROVE  Field(q) = Field(r) /\ q.path = r.path
<1>1. q.path = r.path
  BY DEF Same, Fields
<1> QED
  BY <1>1 DEF Field, Current

Prepared == {"qp", "b64", "struct", "inData", "inPh"}

\* t2body of an ordinary part, up to the choice of what the data become
LEMMA T2Ordinary ==
  ASSUME NEW r, IsProvider(r), r.isEnc = FALSE, Ordinary(Field(r))
  PROVE  \E m : /\ Same(m, r, Prepared) /\ T2Body(r) = StartsBody(m)
                /\ m.qp = (Field(r).enc = "qp") /\ m.b64 = (Field(r).enc = "b64")
                /\ m.inData = TRUE /\ m.inPh = FALSE
<1> DEFINE h  == Field(r)
           qp == (h.enc = "qp")
           b64 == (h.enc = "b64")
           s  == Append(r.struct, MediaType(h))
           a  == [r EXCEPT !.qp = qp, !.b64 = b64]
           b  == [a EXCEPT !.struct = s]
           m  == [b EXCEPT !.inData = TRUE, !.inPh = FALSE]
<1>0. /\ h.ph = 0 /\ h.main \in {"", "text", "application", "multipart"}
      /\ h.sub \notin {"signed", "encrypted", "pgp-signature", "pkcs7-signature", "pkcs7-mime"}
  BY DEF Ordinary
<1>1. a = Encodings(r)
  BY DEF Encodings
<1> HIDE DEF qp, b64, s
<1>2. /\ Same(a, r, {"qp", "b64"}) /\ a.qp = qp /\ a.b64 = b64 /\ a.struct = r.struct
      /\ IsProvider(a)
  BY DEF Same, IsProvider, Fields
<1>3. b = [Encodings(r) EXCEPT !.struct = Append(@, MediaType(h))]
  BY <1>1, <1>2 DEF s
<1> HIDE DEF a
<1>4. Same(b, a, {"struct"}) /\ IsProvider(b)
  BY <1>2 DEF Same, IsProvider, Fields
<1>5. b.isEnc = FALSE /\ b.qp = qp /\ b.b64 = b64
  BY <1>2, <1>4 DEF Same, Fields
<1> HIDE DEF b
<1>6. ByType(b, h) = b
  <2>1. h.main = "multipart" => Multipart(b, h) = b
    BY <1>0 DEF Multipart
  <2>3. ~IsSignaturePart(b, h)
    BY <1>0 DEF IsSignaturePart
  <2>4. ~IsCipherPart(b, h)
    BY <1>0, <1>5 DEF IsCipherPart
  <2> QED
    BY <1>0, <2>1, <2>3, <2>4 DEF ByType
<1>7. Same(m, b, {"inData", "inPh"}) /\ m.inData = TRUE /\ m.inPh = FALSE
  BY <1>4 DEF Same, IsProvider, Fields
<1>8. (MediaType(h)[1] = "text" /\ h.ph # 0) = FALSE
  BY <1>0
<1>9. T2Body(r) = StartsBody(m)
  <2>1. T2Body(r) = StartsBody([ByType(b, h) EXCEPT !.inData = TRUE,
                                  !.inPh = (MediaType(h)[1] = "text" /\ h.ph # 0)])
    BY <1>3 DEF T2Body
  <2> QED
    BY <1>6, <1>8, <2>1
<1> HIDE DEF m
<1>10. Same(m, r, Prepared)
  <2>1. Same(b, r, {"qp", "b64"} \cup {"struct"})
    BY <1>2, <1>4, SameTrans
  <2>2. Same(m, r, ({"qp", "b64"} \cup {"struct"}) \cup {"inData", "inPh"})
    BY <1>7, <2>1, SameTrans
  <2>3. ({"qp", "b64"} \cup {"struct"}) \cup {"inData", "inPh"} \subseteq Prepared
    BY DEF Prepared
  <2> QED
    BY <2>2, <2>3, SameMore
<1>11. m.qp = qp /\ m.b64 = b64
  BY <1>5, <1>7 DEF Same, Fields
<1> QED
  BY <1>7, <1>9, <1>10, <1>11 DEF qp, b64

\* One part in another: its boundary counts from now on
LEMMA InsertBlank ==
  ASSUME NEW r, NEW H, NoHeader \in H, NEW st \in Seq(Bounds), Frame(r, H, st),
         r.inBody = FALSE, r.hash # 1,
         Field(r).main = "multipart" => IsBound(Field(r).bnd),
         NEW t, t = T2Body([r EXCEPT !.inBody = TRUE]), NEW F, Same(t, r, F),
         "path" \notin F, "nest" \notin F, "bnd" \notin F
  PROVE  /\ Field(r).main # "multipart" => Insert(r, Blank) = t /\ Frame(t, H, st)
         /\ Field(r).main = "multipart" =>
              /\ Same(Insert(r, Blank), t, {"path", "bnd", "nest", "preamble"})
              /\ Frame(Insert(r, Blank), H, Append(st, Field(r).bnd))
              /\ Field(Insert(r, Blank)) = NoHeader /\ Insert(r, Blank).preamble = TRUE
<1> DEFINE h == Field(r)
           n == Len(t.path)
           e == [t.path[n] EXCEPT !.bnd = h.bnd]
           p == Append([t.path EXCEPT ![n] = e], NewPart)
           q == [t EXCEPT !.path = p, !.bnd = h.bnd, !.nest = @ + 1, !.preamble = TRUE]
<1>1. Field(t) = h /\ t.path = r.path /\ Frame(t, H, st) /\ IsProvider(t)
  BY FieldSame, FrameSame DEF Same
<1>2. /\ t.path \in Seq(Elem(H)) /\ n = Len(st) + 1 /\ n \in Nat /\ t.nest = Len(st)
      /\ Len(st) \in Nat /\ n \in 1..n
  BY <1>1 DEF Frame
<1>3. Insert(r, Blank) = IF h.main = "multipart" /\ h.bnd # "" THEN q ELSE t
  <2>1. IsBlank(Blank)
    BY DEF IsBlank, Blank, Data
  <2>2. StartHashing([r EXCEPT !.inBody = TRUE]) = [r EXCEPT !.inBody = TRUE]
    <3> DEFINE u == [r EXCEPT !.inBody = TRUE]
    <3>1. u.hash = r.hash
      BY DEF Frame, IsProvider, Fields
    <3> HIDE DEF u
    <3>2. StartHashing(u) = u
      BY <3>1 DEF StartHashing
    <3> QED
      BY <3>2 DEF u
  <2>3. Insert(r, Blank) = TransitionToBody(r)
    BY <2>1 DEF Insert, InsertHeader
  <2>4. T2Body(StartHashing([r EXCEPT !.inBody = TRUE])) = t
    BY <2>2
  <2> HIDE DEF h
  <2>5. TransitionToBody(r) = IF h.main = "multipart" /\ h.bnd # "" THEN q ELSE t
    BY <1>1, <2>4 DEF TransitionToBody
  <2> QED
    BY <2>3, <2>5
<1>4. CASE h.main # "multipart"
  BY <1>1, <1>3, <1>4
<1>5. CASE h.main = "multipart"
  <2>1. IsBound(h.bnd)
    BY <1>5
  <2>2. Insert(r, Blank) = q
    BY <1>3, <1>5, <2>1 DEF IsBound
  <2>3. h.bnd \in Bounds
    BY <2>1 DEF IsBound
  <2>4. e \in Elem(H) /\ e.bnd = h.bnd
    <3>1. t.path[n] \in Elem(H)
      BY <1>2
    <3> QED
      BY <2>3, <3>1 DEF Elem
  <2>5. NewPart \in Elem(H)
    BY DEF NewPart, Elem, Bounds
  <2> DEFINE b == h.bnd
             s == Append(st, b)
             v == [t.path EXCEPT ![n] = e]
  <2>6. /\ s \in Seq(Bounds) /\ Len(s) = Len(st) + 1 /\ s[Len(st) + 1] = b
        /\ \A i \in 1..Len(st) : s[i] = st[i]
    BY <2>3
  <2>7. Top(s) = b
    <3>1. s # <<>> /\ s[Len(s)] = b
      BY <1>2, <2>6
    <3> HIDE DEF s
    <3> QED
      BY <3>1 DEF Top
  <2> HIDE DEF e, s, b
  <2>8. /\ v \in Seq(Elem(H)) /\ Len(v) = n /\ v[n] = e
        /\ \A i \in 1..Len(st) : v[i] = t.path[i]
    <3>1. v \in Seq(Elem(H)) /\ Len(v) = n
      BY <1>2, <2>4
    <3>2. v[n] = e
      BY <1>2
    <3>3. \A i \in 1..Len(st) : v[i] = t.path[i]
      BY <1>2
    <3> QED
      BY <3>1, <3>2, <3>3
  <2> HIDE DEF v
  <2>9. /\ p = Append(v, NewPart) /\ p \in Seq(Elem(H)) /\ Len(p) = n + 1 /\ p[n + 1] = NewPart
        /\ \A i \in 1..n : p[i] = v[i]
    <3>1. p = Append(v, NewPart)
      BY DEF v
    <3> DEFINE S == Elem(H)
               x == NewPart
    <3>2. v \in Seq(S) /\ x \in S /\ Len(v) = n
      BY <2>5, <2>8
    <3> HIDE DEF p, S, x
    <3>3. Append(v, x) \in Seq(S)
      BY <3>2
    <3>4. Len(Append(v, x)) = n + 1
      BY <3>2
    <3>5. \A i \in 1..n : Append(v, x)[i] = v[i]
      BY <3>2
    <3>7. Append(v, x)[n + 1] = x
      BY <3>2
    <3>6. p = Append(v, x)
      BY <3>1 DEF x
    <3> QED
      BY <3>1, <3>3, <3>4, <3>5, <3>6, <3>7 DEF S, x
  <2> HIDE DEF p
  <2>10. /\ Same(q, t, {"path", "bnd", "nest", "preamble"}) /\ q.path = p /\ q.bnd = b
         /\ q.nest = t.nest + 1 /\ q.preamble = TRUE
    BY <1>1 DEF Same, IsProvider, Fields, b
  <2> HIDE DEF q
  <2>11. \A i \in 1..Len(s) : q.path[i].bnd = s[i]
    <3> SUFFICES ASSUME NEW i \in 1..Len(s) PROVE q.path[i].bnd = s[i]
      OBVIOUS
    <3>0. i \in 1..n /\ q.path[i] = v[i]
      BY <1>2, <2>6, <2>9, <2>10
    <3>1. CASE i = n
      BY <1>2, <2>4, <2>6, <2>8, <3>0, <3>1 DEF b
    <3>2. CASE i # n
      <4>1. i \in 1..Len(st)
        BY <1>2, <3>0, <3>2
      <4>2. t.path[i].bnd = st[i]
        BY <1>1, <4>1 DEF Frame
      <4> QED
        BY <2>6, <2>8, <3>0, <4>1, <4>2
    <3> QED
      BY <3>1, <3>2
  <2>12. /\ Len(q.path) = Len(s) + 1 /\ q.nest = Len(s) /\ q.bnd = Top(s)
         /\ q.path \in Seq(Elem(H)) /\ IsProvider(q)
    BY <1>2, <2>6, <2>7, <2>9, <2>10 DEF Same
  <2>13. Frame(q, H, s)
    BY <2>11, <2>12 DEF Frame
  <2>14. Field(q) = NoHeader
    <3>1. q.path[Len(q.path)] = NewPart
      BY <2>9, <2>10
    <3>2. NewPart.h = NoHeader
      BY DEF NewPart
    <3> QED
      BY <3>1, <3>2 DEF Field, Current
  <2> QED
    BY <1>5, <2>2, <2>10, <2>13, <2>14 DEF s, b
<1> QED
  BY <1>4, <1>5

-----------------------------------------------------------------------------
(* What a mail is written as.                                              *)

UserAtts == [type : {"unknown"}, method : {"value", "ole", "embedded"}, cid : STRING,
             name : STRING, suffix : STRING, kind : {"file"}, data : Seq(Composed)]
TextParts == { BodyPart(k, c) : k \in {"plain", "html"}, c \in Seq(Composed) }
Parts     == UserAtts \cup TextParts

PartEnc(part) == IF ForceB64(part) THEN "b64" ELSE ContentEncoding(part.data)
PartHeader(part) ==
  [Header(ContentType(part)[1], ContentType(part)[2]) EXCEPT
     !.enc = PartEnc(part), !.name = Rfc2047(part.name), !.cid = part.cid,
     !.disp = IF part.cid = "" /\ Rfc2047(part.name) # "" THEN "attachment" ELSE "none"]
MultiHeader(sub, b) == [Header("multipart", sub) EXCEPT !.bnd = b]

InnerBounds == {"outer", "inner", "alt"}
MailBounds  == InnerBounds \cup {""}
PartHeaders  == { PartHeader(p) : p \in Parts }
MultiHeaders == { MultiHeader(s, b) : s \in {"mixed", "related", "alternative"}, b \in InnerBounds }
Headers      == PartHeaders \cup MultiHeaders
MailLines == Calm(Composed) \cup Headers
               \cup { Boundary(b) : b \in InnerBounds } \cup { LastBoundary(b) : b \in InnerBounds }

LEMMA ComposedPieces == Composed \subseteq Pieces
BY DEF Composed

LEMMA WritePartIs ==
  ASSUME NEW part, NEW b
  PROVE  WritePart(part, b) = WriteBoundary(b) \o <<PartHeader(part), Blank>>
                                \o WriteContent(part.data, PartEnc(part))
BY DEF WritePart, PartHeader, PartEnc

LEMMA PartsData ==
  ASSUME NEW part \in Parts
  PROVE  part.data \in Seq(Composed) /\ PartEnc(part) \in Encodes /\ Fits(part.data, PartEnc(part))
<1>1. part.data \in Seq(Composed)
  <2>1. CASE part \in UserAtts
    BY <2>1 DEF UserAtts
  <2>2. CASE part \in TextParts
    <3>1. PICK k \in {"plain", "html"}, c \in Seq(Composed) : part = BodyPart(k, c)
      BY <2>2 DEF TextParts
    <3>2. part.data = c
      BY <3>1 DEF BodyPart
    <3> QED
      BY <3>2
  <2> QED
    BY <2>1, <2>2 DEF Parts
<1>2. ContentEncoding(part.data) \in Encodes
  BY DEF ContentEncoding, Encodes
<1> QED
  BY <1>1, <1>2 DEF PartEnc, Encodes, Fits

LEMMA PartOrdinary ==
  ASSUME NEW part \in Parts
  PROVE  /\ Ordinary(PartHeader(part)) /\ PartHeader(part).main # "multipart"
         /\ PartHeader(part).bnd = "" /\ PartHeader(part).k = "hdr"
<1>1. ContentType(part) \in { <<"text", "plain">>, <<"application", "pdf">>, <<"text", "html">>,
                              <<"application", "octet-stream">> }
  BY DEF ContentType
<1> DEFINE ct == ContentType(part)
<1>2. /\ PartHeader(part).k = "hdr" /\ PartHeader(part).ph = 0 /\ PartHeader(part).proto = ""
      /\ PartHeader(part).main = ct[1] /\ PartHeader(part).sub = ct[2]
      /\ PartHeader(part).bnd = ""
  BY DEF PartHeader, Header
<1>3. ct[1] \in {"text", "application"} /\ ct[2] \in {"plain", "pdf", "html", "octet-stream"}
  BY <1>1
<1> HIDE DEF ct
<1> QED
  BY <1>2, <1>3 DEF Ordinary

LEMMA MultiOrdinary ==
  ASSUME NEW s \in {"mixed", "related", "alternative"}, NEW b \in InnerBounds
  PROVE  /\ Ordinary(MultiHeader(s, b)) /\ MultiHeader(s, b).main = "multipart"
         /\ MultiHeader(s, b).bnd = b /\ MultiHeader(s, b) \in Headers
         /\ MultiHeader(s, b).k = "hdr" /\ IsBound(b) /\ b # "sign"
<1>1. MultiHeader(s, b) \in Headers
  BY DEF Headers, MultiHeaders
<1> QED
  BY <1>1 DEF MultiHeader, Header, Ordinary, InnerBounds, IsBound, Bounds

\* Lines of each kind
LEMMA LineKinds ==
  /\ Calm(Composed) \subseteq MailLines /\ Headers \subseteq MailLines
  /\ Blank \in Calm(Composed)
  /\ \A b \in InnerBounds : Boundary(b) \in MailLines /\ LastBoundary(b) \in MailLines
<1>1. Blank \in Calm(Composed)
  <2>1. <<>> \in Seq(Composed) /\ <<>> # <<"dash">>
    OBVIOUS
  <2> DEFINE p == <<>>
  <2> HIDE DEF p
  <2>2. Data(p, "7bit", FALSE) \in Calm(Composed)
    BY <2>1, ComposedPieces, CalmLine DEF p
  <2> QED
    BY <2>2 DEF p, Blank
<1> QED
  BY <1>1 DEF MailLines

LEMMA TwoType == ASSUME NEW S, NEW x \in S, NEW y \in S PROVE <<x, y>> \in Seq(S)
OBVIOUS

LEMMA MarkLines ==
  ASSUME NEW b \in MailBounds
  PROVE  WriteBoundary(b) \in Seq(MailLines) /\ CloseBoundary(b) \in Seq(MailLines)
<1>1. CASE b = ""
  BY <1>1, NoneType DEF WriteBoundary, CloseBoundary
<1>2. CASE b \in InnerBounds
  <2>1. b # ""
    BY <1>2 DEF InnerBounds
  <2>2. Blank \in MailLines /\ Boundary(b) \in MailLines /\ LastBoundary(b) \in MailLines
    BY <1>2, LineKinds
  <2>3. <<Blank, Boundary(b)>> \in Seq(MailLines) /\ <<Blank, LastBoundary(b)>> \in Seq(MailLines)
    BY <2>2, TwoType
  <2> QED
    BY <2>1, <2>3 DEF WriteBoundary, CloseBoundary
<1> QED
  BY <1>1, <1>2 DEF MailBounds

LEMMA PartLines ==
  ASSUME NEW part \in Parts, NEW b \in MailBounds
  PROVE  /\ <<PartHeader(part), Blank>> \in Seq(MailLines)
         /\ WriteContent(part.data, PartEnc(part)) \in Seq(Calm(Composed))
         /\ WriteContent(part.data, PartEnc(part)) \in Seq(MailLines)
         /\ WritePart(part, b) \in Seq(MailLines)
<1>1. WriteContent(part.data, PartEnc(part)) \in Seq(Calm(Composed))
  BY PartsData, ComposedPieces, ContentRead
<1>2. WriteContent(part.data, PartEnc(part)) \in Seq(MailLines)
  BY <1>1, LineKinds, Seqs
<1>3. PartHeader(part) \in Headers
  <2>1. PartHeader(part) \in PartHeaders
    BY DEF PartHeaders
  <2> QED
    BY <2>1 DEF Headers
<1>4. <<PartHeader(part), Blank>> \in Seq(MailLines)
  <2>1. PartHeader(part) \in MailLines /\ Blank \in MailLines
    BY <1>3, LineKinds
  <2> QED
    BY <2>1, TwoType
<1>5. WritePart(part, b) \in Seq(MailLines)
  BY <1>2, <1>4, MarkLines, WritePartIs, ConcatType
<1> QED
  BY <1>1, <1>2, <1>4, <1>5

\* The files of one kind, each in a part
Chosen(which) == { a \in UserAtts : Selected(a, which) }
PartsIn(b)    == [p \in UserAtts |-> WritePart(p, b)]

LEMMA AttachmentsAre ==
  ASSUME NEW atts \in Seq(UserAtts), NEW b, NEW which
  PROVE  WriteAttachments(atts, b, which) = Spread(Keep(atts, Chosen(which)), PartsIn(b))
<1>1. { i \in DOMAIN atts : Selected(atts[i], which) } = { i \in DOMAIN atts : atts[i] \in Chosen(which) }
  BY DEF Chosen
<1> DEFINE sel == Only(atts, { i \in DOMAIN atts : Selected(atts[i], which) })
<1>2. sel = Keep(atts, Chosen(which))
  BY <1>1 DEF Keep
<1>3. Keep(atts, Chosen(which)) \in Seq(UserAtts)
  BY KeepType
<1> HIDE DEF sel
<1>4. [i \in DOMAIN sel |-> WritePart(sel[i], b)] = [i \in DOMAIN sel |-> PartsIn(b)[sel[i]]]
  <2>1. \A i \in DOMAIN sel : sel[i] \in UserAtts
    BY <1>2, <1>3
  <2> QED
    BY <2>1 DEF PartsIn
<1>5. WriteAttachments(atts, b, which) = FlattenSeq([i \in DOMAIN sel |-> WritePart(sel[i], b)])
  BY DEF WriteAttachments, sel
<1> QED
  BY <1>2, <1>4, <1>5 DEF Spread

LEMMA PartsInType ==
  ASSUME NEW b \in MailBounds
  PROVE  PartsIn(b) \in [UserAtts -> Seq(MailLines)]
<1>0. UserAtts \subseteq Parts
  BY DEF Parts
<1>1. \A p \in UserAtts : WritePart(p, b) \in Seq(MailLines)
  BY <1>0, PartLines
<1> QED
  BY <1>1 DEF PartsIn

LEMMA AttachmentLines ==
  ASSUME NEW atts \in Seq(UserAtts), NEW b \in MailBounds, NEW which
  PROVE  WriteAttachments(atts, b, which) \in Seq(MailLines)
<1> DEFINE F == PartsIn(b)
           s == Keep(atts, Chosen(which))
<1>1. s \in Seq(UserAtts)
  BY KeepType
<1>2. F \in [UserAtts -> Seq(MailLines)]
  BY PartsInType
<1>3. WriteAttachments(atts, b, which) = Spread(s, F)
  BY AttachmentsAre
<1> HIDE DEF F, s
<1> QED
  BY <1>1, <1>2, <1>3, SpreadType

\* Mails as MailsAssumption wants them
IsMail(m) == m \in [body : Seq(Composed), html : Seq(Composed), alt : BOOLEAN, atts : Seq(UserAtts)]

LEMMA MailIs == ASSUME NEW m \in Mails PROVE IsMail(m)
BY MailsAssumption DEF IsMail, UserAtts

LEMMA BodyParts ==
  ASSUME NEW m, IsMail(m)
  PROVE  BodyPart("plain", m.body) \in Parts /\ BodyPart("html", m.html) \in Parts
<1>1. m.body \in Seq(Composed) /\ m.html \in Seq(Composed)
  BY DEF IsMail
<1>2. BodyPart("plain", m.body) \in TextParts /\ BodyPart("html", m.html) \in TextParts
  BY <1>1 DEF TextParts
<1> QED
  BY <1>2 DEF Parts

AltHead == <<MultiHeader("alternative", "alt"), Blank>>

LEMMA HeadLines ==
  ASSUME NEW s \in {"mixed", "related", "alternative"}, NEW b \in InnerBounds
  PROVE  <<MultiHeader(s, b), Blank>> \in Seq(MailLines)
<1>1. MultiHeader(s, b) \in MailLines /\ Blank \in MailLines
  BY MultiOrdinary, LineKinds
<1> QED
  BY <1>1, TwoType

LEMMA BodyLines ==
  ASSUME NEW m, IsMail(m), NEW b \in MailBounds
  PROVE  AddBody(m, b) \in Seq(MailLines)
<1> DEFINE L == MailLines
           p == WritePart(BodyPart("plain", m.body), b)
           q == WritePart(BodyPart("plain", m.body), "alt")
           h == WritePart(BodyPart("html", m.html), "alt")
<1>1. p \in Seq(L) /\ q \in Seq(L) /\ h \in Seq(L)
  <2>1. "alt" \in MailBounds
    BY DEF InnerBounds, MailBounds
  <2> QED
    BY <2>1, BodyParts, PartLines
<1>2. AltHead \in Seq(L) /\ WriteBoundary(b) \in Seq(L) /\ CloseBoundary("alt") \in Seq(L)
  <2>1. "alt" \in InnerBounds
    BY DEF InnerBounds
  <2> QED
    <3> DEFINE s == "alternative"
               a == "alt"
    <3>1. s \in {"mixed", "related", "alternative"} /\ a \in InnerBounds /\ a \in MailBounds
      BY <2>1 DEF MailBounds
    <3> HIDE DEF s, a
    <3>2. <<MultiHeader(s, a), Blank>> \in Seq(L) /\ WriteBoundary(b) \in Seq(L)
          /\ CloseBoundary(a) \in Seq(L)
      BY <3>1, HeadLines, MarkLines
    <3> QED
      BY <3>2 DEF AltHead, s, a
<1>3. AddBody(m, b) = IF m.body = <<>> THEN <<>> ELSE IF ~m.alt THEN p
                      ELSE WriteBoundary(b) \o AltHead \o q \o h \o CloseBoundary("alt")
  BY DEF AddBody, AltHead, MultiHeader
<1> HIDE DEF L, p, q, h
<1>4. WriteBoundary(b) \o AltHead \o q \o h \o CloseBoundary("alt") \in Seq(L)
  BY <1>1, <1>2, ConcatType
<1>5. AddBody(m, b) \in Seq(L)
  BY <1>1, <1>3, <1>4, NoneType
<1> QED
  BY <1>5 DEF L

\* The pieces of the whole
Usables(m)  == Len(UsableAttachments(m.atts))
OuterOf(m)  == IF (m.body # <<>> /\ Usables(m) > 0) \/ Usables(m) > 1 THEN "outer" ELSE ""
InnerOf(m)  == IF OuterOf(m) # "" /\ IsRelated(m) = 2 THEN "inner" ELSE ""
WithinOf(m) == IF InnerOf(m) # "" THEN InnerOf(m) ELSE OuterOf(m)
OuterHead(m) == IF OuterOf(m) = "" THEN <<>>
                ELSE <<MultiHeader(IF IsRelated(m) = 1 THEN "related" ELSE "mixed", OuterOf(m)), Blank>>
InnerHead(m) == IF InnerOf(m) = "" THEN <<>>
                ELSE WriteBoundary(OuterOf(m)) \o <<MultiHeader("related", InnerOf(m)), Blank>>
RelatedFiles(m) == IF Usables(m) = 0 \/ IsRelated(m) = 0 THEN <<>>
                   ELSE WriteAttachments(m.atts, WithinOf(m), 1) \o CloseBoundary(InnerOf(m))
OtherFiles(m) == IF Usables(m) = 0 THEN <<>>
                 ELSE WriteAttachments(m.atts, OuterOf(m), IF IsRelated(m) = 0 THEN 2 ELSE 0)

LEMMA WholeIs ==
  ASSUME NEW m
  PROVE  AddBodyAndAttachments(m) =
           OuterHead(m) \o InnerHead(m) \o AddBody(m, WithinOf(m)) \o RelatedFiles(m) \o OtherFiles(m)
             \o CloseBoundary(OuterOf(m))
BY DEF AddBodyAndAttachments, OuterHead, InnerHead, RelatedFiles, OtherFiles, Usables, OuterOf,
       InnerOf, WithinOf, MultiHeader

LEMMA BoundsOf ==
  ASSUME NEW m
  PROVE  /\ OuterOf(m) \in MailBounds /\ InnerOf(m) \in MailBounds
         /\ WithinOf(m) \in MailBounds
         /\ OuterOf(m) \in {"", "outer"} /\ InnerOf(m) \in {"", "inner"}
BY DEF OuterOf, InnerOf, WithinOf, InnerBounds, MailBounds

LEMMA WholeLines ==
  ASSUME NEW m, IsMail(m)
  PROVE  /\ OuterHead(m) \in Seq(MailLines) /\ InnerHead(m) \in Seq(MailLines)
         /\ AddBody(m, WithinOf(m)) \in Seq(MailLines) /\ RelatedFiles(m) \in Seq(MailLines)
         /\ OtherFiles(m) \in Seq(MailLines) /\ CloseBoundary(OuterOf(m)) \in Seq(MailLines)
         /\ AddBodyAndAttachments(m) \in Seq(MailLines)
<1>1. OuterHead(m) \in Seq(MailLines)
  <2>1. CASE OuterOf(m) = ""
    BY <2>1, NoneType DEF OuterHead
  <2>2. CASE OuterOf(m) # ""
    <3>1. OuterOf(m) \in InnerBounds
      BY <2>2, BoundsOf DEF MailBounds
    <3> DEFINE s == IF IsRelated(m) = 1 THEN "related" ELSE "mixed"
    <3>2. s \in {"mixed", "related", "alternative"}
      OBVIOUS
    <3> HIDE DEF s
    <3>3. <<MultiHeader(s, OuterOf(m)), Blank>> \in Seq(MailLines)
      BY <3>1, <3>2, HeadLines
    <3> QED
      BY <2>2, <3>3 DEF OuterHead, s
  <2> QED
    BY <2>1, <2>2
<1>2. InnerHead(m) \in Seq(MailLines)
  <2>1. CASE InnerOf(m) = ""
    BY <2>1, NoneType DEF InnerHead
  <2>2. CASE InnerOf(m) # ""
    <3>1. InnerOf(m) \in InnerBounds
      BY <2>2, BoundsOf DEF MailBounds
    <3>2. <<MultiHeader("related", InnerOf(m)), Blank>> \in Seq(MailLines)
      BY <3>1, HeadLines
    <3>3. WriteBoundary(OuterOf(m)) \in Seq(MailLines)
      BY BoundsOf, MarkLines
    <3>4. WriteBoundary(OuterOf(m)) \o <<MultiHeader("related", InnerOf(m)), Blank>> \in Seq(MailLines)
      BY <3>2, <3>3, ConcatType
    <3> QED
      BY <2>2, <3>4 DEF InnerHead
  <2> QED
    BY <2>1, <2>2
<1>3. AddBody(m, WithinOf(m)) \in Seq(MailLines) /\ CloseBoundary(OuterOf(m)) \in Seq(MailLines)
  BY BoundsOf, BodyLines, MarkLines
<1>4. m.atts \in Seq(UserAtts)
  BY DEF IsMail
<1>5. RelatedFiles(m) \in Seq(MailLines)
  <2>1. WriteAttachments(m.atts, WithinOf(m), 1) \in Seq(MailLines)
    BY <1>4, BoundsOf, AttachmentLines
  <2>2. CloseBoundary(InnerOf(m)) \in Seq(MailLines)
    BY BoundsOf, MarkLines
  <2>3. WriteAttachments(m.atts, WithinOf(m), 1) \o CloseBoundary(InnerOf(m)) \in Seq(MailLines)
    BY <2>1, <2>2, ConcatType
  <2> QED
    BY <2>3, NoneType DEF RelatedFiles
<1>6. OtherFiles(m) \in Seq(MailLines)
  <2>1. WriteAttachments(m.atts, OuterOf(m), 2) \in Seq(MailLines)
    BY <1>4, BoundsOf, AttachmentLines
  <2>2. WriteAttachments(m.atts, OuterOf(m), 0) \in Seq(MailLines)
    BY <1>4, BoundsOf, AttachmentLines
  <2> QED
    BY <2>1, <2>2, NoneType DEF OtherFiles
<1>7. AddBodyAndAttachments(m) \in Seq(MailLines)
  BY <1>1, <1>2, <1>3, <1>5, <1>6, WholeIs, ConcatType
<1> QED
  BY <1>1, <1>2, <1>3, <1>5, <1>6, <1>7

-----------------------------------------------------------------------------
(* Lines that are hashed.                                                  *)

\* The signed data so far is d; what is inside makes no difference
HashState(r, d, proto) ==
  /\ r.hash = 2 /\ r.hashLevel = 1 /\ r.crypto = TRUE /\ r.csig = 0 /\ r.cbody \in {0, 1}
  /\ r.sig = <<>> /\ r.isEnc = FALSE /\ r.everything = FALSE /\ r.proto = proto
  /\ r.data = d /\ (d # <<>> => r.open = TRUE)

\* inb: the next line is one of a body
Hashing(r, H, st, d, proto, inb) ==
  Frame(r, H, st) /\ HashState(r, d, proto) /\ r.inBody = inb

\* What a line of signed data may change
Loose == { "inBody", "preamble", "path", "bnd", "nest", "inData", "bodySeen", "cbody", "chtml",
           "qp", "b64", "inPh", "struct" }

LEMMA HashSame ==
  ASSUME NEW r, NEW q, NEW d, NEW proto, HashState(r, d, proto), Same(q, r, Loose),
         q.cbody \in {0, 1}
  PROVE  HashState(q, d, proto)
BY DEF HashState, Same, Loose, Fields

\* A line is added once it is known where it belongs
LEMMA HashTaken ==
  ASSUME NEW r, NEW H, NEW st, NEW d, NEW proto, NEW ln, NEW q, q = Insert(r, ln),
         HashState(q, d, proto), Frame(q, H, st)
  PROVE  /\ HashState(TakeLine(r, ln), Append(d, ln), proto) /\ Frame(TakeLine(r, ln), H, st)
         /\ TakeLine(r, ln).inBody = q.inBody
<1> DEFINE w == [q EXCEPT !.data = Append(@, ln), !.open = TRUE]
<1>1. CheckMarker(q, ln) = q
  BY DEF CheckMarker, HashState
<1>2. HashLine(q, ln) = w
  BY DEF HashLine
<1>3. Collect(q, ln) = w
  <2>1. q.crypto = TRUE /\ q.hash = 2 /\ q.csig = 0
    BY DEF HashState
  <2> HIDE DEF w
  <2> QED
    BY <1>2, <2>1 DEF Collect
<1>4. TakeLine(r, ln) = w
  BY <1>1, <1>3 DEF TakeLine
<1>5. IsProvider(q)
  BY DEF Frame
<1>6. Same(w, q, {"data", "open"}) /\ w.data = Append(d, ln) /\ w.open = TRUE
  BY <1>5 DEF Same, IsProvider, Fields, HashState
<1> HIDE DEF w
<1>7. Frame(w, H, st)
  BY <1>6, FrameSame
<1>8. HashState(w, Append(d, ln), proto) /\ w.inBody = q.inBody
  BY <1>6 DEF HashState, Same, Fields
<1> QED
  BY <1>4, <1>7, <1>8

LEMMA HashCalm ==
  ASSUME NEW r, NEW H, NEW st, NEW d, NEW proto, Hashing(r, H, st, d, proto, TRUE),
         NEW ln, ln.k = "data", ~(ln.p = <<"dash">> /\ ln.e = "7bit")
  PROVE  Hashing(TakeLine(r, ln), H, st, Append(d, ln), proto, TRUE)
<1>1. Insert(r, ln) = r
  BY InsertCalm DEF Hashing
<1> QED
  BY <1>1, HashTaken DEF Hashing

LEMMA HashHead ==
  ASSUME NEW r, NEW H, NEW st \in Seq(Bounds), NEW d, NEW proto,
         Hashing(r, H, st, d, proto, FALSE), NEW ln \in H, ln.k = "hdr"
  PROVE  /\ Hashing(TakeLine(r, ln), H, st, Append(d, ln), proto, FALSE)
         /\ Field(TakeLine(r, ln)) = ln
<1> DEFINE q == Insert(r, ln)
<1>1. r.hash # 1 /\ r.cbody \in {0, 1}
  BY DEF Hashing, HashState
<1>2. Same(q, r, {"path"}) /\ Frame(q, H, st) /\ Field(q) = ln
  BY <1>1, InsertHead DEF Hashing
<1> HIDE DEF q
<1>3. Same(q, r, Loose) /\ q.cbody \in {0, 1} /\ q.inBody = FALSE
  <2>1. {"path"} \subseteq Loose
    BY DEF Loose
  <2>2. Same(q, r, Loose)
    BY <1>2, <2>1, SameMore
  <2>3. q.cbody = r.cbody /\ q.inBody = r.inBody
    BY <1>2 DEF Same, Fields
  <2> QED
    BY <1>1, <2>2, <2>3 DEF Hashing
<1>4. HashState(q, d, proto)
  BY <1>3, HashSame DEF Hashing
<1>5. Hashing(TakeLine(r, ln), H, st, Append(d, ln), proto, FALSE)
  BY <1>2, <1>3, <1>4, HashTaken DEF Hashing, q
<1>6. TakeLine(r, ln).path = q.path
  <2>1. q.cbody \in {0, 1} /\ q.crypto = TRUE /\ q.hash = 2 /\ q.csig = 0 /\ IsProvider(q)
    BY <1>2, <1>4 DEF HashState, Frame
  <2>2. CheckMarker(q, ln) = q
    BY <2>1 DEF CheckMarker
  <2>3. Collect(q, ln) = HashLine(q, ln)
    BY <2>1 DEF Collect, HashLine
  <2>4. HashLine(q, ln).path = q.path
    BY <2>1 DEF HashLine, IsProvider, Fields
  <2> QED
    BY <2>2, <2>3, <2>4 DEF TakeLine, q
<1> QED
  BY <1>2, <1>5, <1>6 DEF Field, Current

\* t2body when the data are signed: nothing but the choice of the sink changes
Signed2 == Prepared \cup {"inBody", "bodySeen", "chtml", "cbody"}

LEMMA HashT2 ==
  ASSUME NEW r, IsProvider(r), r.isEnc = FALSE, r.crypto = TRUE, r.cbody \in {0, 1},
         Ordinary(Field(r))
  PROVE  LET t == T2Body([r EXCEPT !.inBody = TRUE])
         IN Same(t, r, Signed2) /\ t.cbody \in {0, 1} /\ t.inBody = TRUE
<1> DEFINE u == [r EXCEPT !.inBody = TRUE]
           t == T2Body(u)
<1>1. Same(u, r, {"inBody"}) /\ u.inBody = TRUE /\ u.isEnc = FALSE /\ IsProvider(u)
      /\ u.crypto = TRUE /\ u.cbody = r.cbody
  BY DEF Same, IsProvider, Fields
<1> HIDE DEF u
<1>2. Field(u) = Field(r)
  BY <1>1, FieldSame
<1>3. PICK m : /\ Same(m, u, Prepared) /\ t = StartsBody(m)
               /\ m.qp = (Field(u).enc = "qp") /\ m.b64 = (Field(u).enc = "b64")
               /\ m.inData = TRUE /\ m.inPh = FALSE
  BY <1>1, <1>2, T2Ordinary
<1>4. m.inBody = TRUE /\ m.crypto = TRUE /\ m.cbody = r.cbody /\ IsProvider(m)
  BY <1>1, <1>3 DEF Same, Prepared, Fields
<1> HIDE DEF t
<1>5. Same(t, m, {"bodySeen", "chtml", "cbody"}) /\ t.cbody \in {0, 1}
  <2> DEFINE x == [m EXCEPT !.bodySeen = TRUE, !.chtml = 1, !.cbody = 0]
             y == [m EXCEPT !.bodySeen = TRUE, !.cbody = 1, !.chtml = 0]
  <2>1. t = x \/ t = y \/ t = m
    BY <1>3, <1>4 DEF StartsBody
  <2>2. Same(x, m, {"bodySeen", "chtml", "cbody"}) /\ x.cbody = 0
    BY <1>4 DEF Same, IsProvider, Fields
  <2>3. Same(y, m, {"bodySeen", "chtml", "cbody"}) /\ y.cbody = 1
    BY <1>4 DEF Same, IsProvider, Fields
  <2>4. Same(m, m, {"bodySeen", "chtml", "cbody"}) /\ m.cbody \in {0, 1}
    BY <1>4, SameRefl
  <2> HIDE DEF x, y
  <2> QED
    BY <2>1, <2>2, <2>3, <2>4
<1>6. Same(t, r, ({"inBody"} \cup Prepared) \cup {"bodySeen", "chtml", "cbody"})
  <2>1. Same(m, r, {"inBody"} \cup Prepared)
    BY <1>1, <1>3, SameTrans
  <2> QED
    BY <1>5, <2>1, SameTrans
<1>7. Same(t, r, Signed2)
  <2>1. ({"inBody"} \cup Prepared) \cup {"bodySeen", "chtml", "cbody"} \subseteq Signed2
    BY DEF Signed2
  <2> QED
    BY <1>6, <2>1, SameMore
<1>8. t.inBody = TRUE
  BY <1>4, <1>5 DEF Same, Fields
<1> QED
  BY <1>5, <1>7, <1>8 DEF t, u

\* The empty line after a header: a part with data, or one with parts in it
LEMMA HashBlank ==
  ASSUME NEW r, NEW H, NoHeader \in H, NEW st \in Seq(Bounds), NEW d, NEW proto,
         Hashing(r, H, st, d, proto, FALSE), Ordinary(Field(r)),
         Field(r).main = "multipart" => IsBound(Field(r).bnd)
  PROVE  Hashing(TakeLine(r, Blank), H,
                 IF Field(r).main = "multipart" THEN Append(st, Field(r).bnd) ELSE st,
                 Append(d, Blank), proto, TRUE)
<1> DEFINE t == T2Body([r EXCEPT !.inBody = TRUE])
           s == IF Field(r).main = "multipart" THEN Append(st, Field(r).bnd) ELSE st
           q == Insert(r, Blank)
<1>1. /\ r.hash # 1 /\ r.isEnc = FALSE /\ r.crypto = TRUE /\ r.cbody \in {0, 1} /\ IsProvider(r)
      /\ Frame(r, H, st) /\ r.inBody = FALSE
  BY DEF Hashing, HashState, Frame
<1>2. Same(t, r, Signed2) /\ t.cbody \in {0, 1} /\ t.inBody = TRUE
  BY <1>1, HashT2
<1>3. "path" \notin Signed2 /\ "nest" \notin Signed2 /\ "bnd" \notin Signed2
  BY DEF Signed2, Prepared
<1> HIDE DEF t
<1>4. /\ Field(r).main # "multipart" => q = t /\ Frame(t, H, st)
      /\ Field(r).main = "multipart" =>
           /\ Same(q, t, {"path", "bnd", "nest", "preamble"})
           /\ Frame(q, H, Append(st, Field(r).bnd))
  BY <1>1, <1>2, <1>3, InsertBlank DEF t
<1> HIDE DEF q
<1>5. Same(q, t, {"path", "bnd", "nest", "preamble"}) /\ Frame(q, H, s)
  <2>1. Same(t, t, {"path", "bnd", "nest", "preamble"})
    BY <1>2, SameRefl DEF Same
  <2> QED
    BY <1>4, <2>1
<1> HIDE DEF s
<1>6. q.cbody \in {0, 1} /\ q.inBody = TRUE
  BY <1>2, <1>5 DEF Same, Fields
<1>7. Same(q, r, Loose)
  <2>1. Same(q, r, Signed2 \cup {"path", "bnd", "nest", "preamble"})
    BY <1>2, <1>5, SameTrans
  <2>2. Signed2 \cup {"path", "bnd", "nest", "preamble"} \subseteq Loose
    BY DEF Signed2, Prepared, Loose
  <2> QED
    BY <2>1, <2>2, SameMore
<1>8. HashState(q, d, proto)
  BY <1>6, <1>7, HashSame DEF Hashing
<1>9. Hashing(TakeLine(r, Blank), H, s, Append(d, Blank), proto, TRUE)
  BY <1>5, <1>6, <1>8, HashTaken DEF Hashing, q
<1> QED
  BY <1>9 DEF s

\* The boundaries of the parts inside, which are not the one of the signed data
LEMMA HashMark ==
  ASSUME NEW r, NEW H, NoHeader \in H, NEW st \in Seq(Bounds), NEW d, NEW proto,
         Hashing(r, H, st, d, proto, TRUE), IsBound(Top(st)), Len(st) # 1
  PROVE  Hashing(TakeLine(r, Boundary(Top(st))), H, st, Append(d, Boundary(Top(st))), proto, FALSE)
<1> DEFINE ln == Boundary(Top(st))
           q == Insert(r, ln)
<1>1. Frame(r, H, st) /\ r.inBody = TRUE /\ HashState(r, d, proto)
  BY DEF Hashing
<1>2. NotAtEnd(r)
  BY <1>1 DEF NotAtEnd, HashState, Frame
<1>3. /\ Same(q, r, {"path", "inData", "cbody", "inBody", "preamble"})
      /\ Frame(q, H, st) /\ q.inBody = FALSE /\ q.cbody = 0
  BY <1>1, <1>2, InsertMark
<1> HIDE DEF q
<1>4. Same(q, r, Loose)
  <2>1. {"path", "inData", "cbody", "inBody", "preamble"} \subseteq Loose
    BY DEF Loose
  <2> QED
    BY <1>3, <2>1, SameMore
<1>5. HashState(q, d, proto)
  BY <1>1, <1>3, <1>4, HashSame
<1> HIDE DEF ln
<1>6. Hashing(TakeLine(r, ln), H, st, Append(d, ln), proto, FALSE)
  BY <1>3, <1>5, HashTaken DEF Hashing, q
<1> QED
  BY <1>6 DEF ln

LEMMA HashLast ==
  ASSUME NEW r, NEW H, NEW st \in Seq(Bounds), NEW b, IsBound(b), NEW d, NEW proto,
         Hashing(r, H, Append(st, b), d, proto, TRUE), Len(st) # 0
  PROVE  Hashing(TakeLine(r, LastBoundary(b)), H, st, Append(d, LastBoundary(b)), proto, TRUE)
<1> DEFINE ln == LastBoundary(b)
           q == Insert(r, ln)
           s == Append(st, b)
<1>0. Len(s) # 1
  <2>1. b \in Bounds
    BY DEF IsBound
  <2>2. Len(s) = Len(st) + 1 /\ Len(st) \in Nat
    BY <2>1
  <2> QED
    BY <2>2
<1>1. Frame(r, H, s) /\ r.inBody = TRUE /\ HashState(r, d, proto)
  BY DEF Hashing
<1>2. NotAtEnd(r)
  <2> HIDE DEF s
  <2> QED
    BY <1>0, <1>1 DEF NotAtEnd, HashState, Frame
<1>3. /\ Same(q, r, {"path", "inData", "cbody", "bnd", "nest"})
      /\ Frame(q, H, st) /\ q.cbody = 0
  BY <1>1, <1>2, InsertLast
<1> HIDE DEF q
<1>4. Same(q, r, Loose) /\ q.inBody = TRUE
  <2>1. {"path", "inData", "cbody", "bnd", "nest"} \subseteq Loose
    BY DEF Loose
  <2>2. q.inBody = r.inBody
    BY <1>3 DEF Same, Fields
  <2> QED
    BY <1>1, <1>3, <2>1, <2>2, SameMore
<1>5. HashState(q, d, proto)
  BY <1>1, <1>3, <1>4, HashSame
<1> HIDE DEF ln
<1>6. Hashing(TakeLine(r, ln), H, st, Append(d, ln), proto, TRUE)
  BY <1>3, <1>4, <1>5, HashTaken DEF Hashing, q
<1> QED
  BY <1>6 DEF ln

-----------------------------------------------------------------------------
(* The parts of signed data.                                               *)

\* The headers around what is written: SigningHeader, EncryptionHeader
SignHead(proto) == SigningHeader(proto)[1]
SigHead(proto)  ==
  IF proto = "pgp" THEN [Header("application", "pgp-signature") EXCEPT !.name = "sigfile"]
  ELSE [Header("application", "pkcs7-signature") EXCEPT
          !.enc = "b64", !.disp = "inline", !.name = "sigfile"]
EncHead    == [Header("multipart", "encrypted") EXCEPT
                 !.mime = TRUE, !.proto = "application/pgp-encrypted", !.bnd = "enc"]
CipherHead == [Header("application", "octet-stream") EXCEPT !.disp = "inline", !.name = "encfile"]
CmsHead    == [Header("application", "pkcs7-mime") EXCEPT
                 !.smt = "enveloped-data", !.name = "smime.p7m", !.disp = "attachment", !.enc = "b64"]
WrapHeads == { NoHeader, SignHead("pgp"), SignHead("cms"), SigHead("pgp"), SigHead("cms"),
               EncHead, Header("application", "pgp-encrypted"), CipherHead, CmsHead }
AllHeads  == Headers \cup WrapHeads

\* Hashing the lines of c leads from one place to another
Hashes(c, proto, st, a, su, b) ==
  \A r, d : Hashing(r, AllHeads, st, d, proto, a) /\ d \in Seq(MailLines)
              => Hashing(Feed(r, c), AllHeads, su, d \o c, proto, b)

LEMMA HeadsAll == NoHeader \in AllHeads /\ Headers \subseteq AllHeads
<1>1. NoHeader \in WrapHeads
  BY DEF WrapHeads
<1> QED
  BY <1>1 DEF AllHeads

LEMMA HashesNone ==
  ASSUME NEW proto, NEW st, NEW a
  PROVE  Hashes(<<>>, proto, st, a, st, a)
<1> SUFFICES ASSUME NEW r, NEW d, Hashing(r, AllHeads, st, d, proto, a), d \in Seq(MailLines)
             PROVE  Hashing(Feed(r, <<>>), AllHeads, st, d \o <<>>, proto, a)
  BY DEF Hashes
<1>1. Feed(r, <<>>) = r
  BY FeedNone
<1>2. d \o <<>> = d
  BY ConcatNone
<1> QED
  BY <1>1, <1>2

LEMMA HashesConcat ==
  ASSUME NEW x \in Seq(MailLines), NEW y \in Seq(MailLines), NEW proto,
         NEW s1, NEW s2, NEW s3, NEW a, NEW b, NEW c,
         Hashes(x, proto, s1, a, s2, b), Hashes(y, proto, s2, b, s3, c)
  PROVE  Hashes(x \o y, proto, s1, a, s3, c)
<1> SUFFICES ASSUME NEW r, NEW d, Hashing(r, AllHeads, s1, d, proto, a), d \in Seq(MailLines)
             PROVE  Hashing(Feed(r, x \o y), AllHeads, s3, d \o (x \o y), proto, c)
  BY DEF Hashes
<1> DEFINE q == Feed(r, x)
           e == d \o x
<1>1. Hashing(q, AllHeads, s2, e, proto, b)
  BY DEF Hashes
<1>2. e \in Seq(MailLines)
  BY ConcatType
<1>3. Feed(r, x \o y) = Feed(q, y)
  BY FeedConcat
<1>4. d \o (x \o y) = e \o y
  BY ConcatThree
<1> HIDE DEF q, e
<1>5. Hashing(Feed(q, y), AllHeads, s3, e \o y, proto, c)
  BY <1>1, <1>2 DEF Hashes
<1> QED
  BY <1>3, <1>4, <1>5

\* One line
LEMMA HashesLine ==
  ASSUME NEW ln \in MailLines, NEW proto, NEW s1, NEW s2, NEW a, NEW b,
         \A r, d : Hashing(r, AllHeads, s1, d, proto, a)
                     => Hashing(TakeLine(r, ln), AllHeads, s2, Append(d, ln), proto, b)
  PROVE  Hashes(<<ln>>, proto, s1, a, s2, b)
<1> SUFFICES ASSUME NEW r, NEW d, Hashing(r, AllHeads, s1, d, proto, a), d \in Seq(MailLines)
             PROVE  Hashing(Feed(r, <<ln>>), AllHeads, s2, d \o <<ln>>, proto, b)
  BY DEF Hashes
<1>1. Feed(r, <<ln>>) = TakeLine(r, ln)
  BY FeedOne
<1>2. d \o <<ln>> = Append(d, ln)
  BY AppendOne
<1> QED
  BY <1>1, <1>2

LEMMA CalmIs ==
  ASSUME NEW P, NEW ln \in Calm(P)
  PROVE  ln.k = "data" /\ ~(ln.p = <<"dash">> /\ ln.e = "7bit")
BY DEF Calm, DataLine

LEMMA HashesContent ==
  ASSUME NEW c \in Seq(Calm(Composed)), NEW proto, NEW st
  PROVE  Hashes(c, proto, st, TRUE, st, TRUE)
<1> DEFINE S == Calm(Composed)
           T == { x \in Seq(S) : Hashes(x, proto, st, TRUE, st, TRUE) }
<1>1. <<>> \in T
  BY HashesNone, NoneType
<1>2. ASSUME NEW s \in Seq(S), NEW x \in S, s \in T PROVE Append(s, x) \in T
  <2>1. x \in MailLines /\ s \in Seq(MailLines) /\ S \subseteq MailLines
    BY LineKinds, Seqs
  <2>2. \A r, d : Hashing(r, AllHeads, st, d, proto, TRUE)
                    => Hashing(TakeLine(r, x), AllHeads, st, Append(d, x), proto, TRUE)
    BY CalmIs, HashCalm
  <2>3. Hashes(<<x>>, proto, st, TRUE, st, TRUE)
    BY <2>1, <2>2, HashesLine
  <2>4. <<x>> \in Seq(MailLines)
    BY <2>1, OneType
  <2>5. Append(s, x) = s \o <<x>> /\ Append(s, x) \in Seq(S)
    BY AppendOne, AppendType
  <2>6. Hashes(s, proto, st, TRUE, st, TRUE)
    BY <1>2
  <2> DEFINE y == <<x>>
  <2> HIDE DEF y
  <2>7. Hashes(s \o y, proto, st, TRUE, st, TRUE)
    BY <2>1, <2>3, <2>4, <2>6, HashesConcat DEF y
  <2> QED
    BY <2>5, <2>7 DEF y
<1> HIDE DEF T, S
<1>3. Seq(S) \subseteq T
  BY <1>1, <1>2, SeqInduct
<1> QED
  BY <1>3 DEF T, S

LEMMA TwoOnes == ASSUME NEW S, NEW x \in S, NEW y \in S PROVE <<x, y>> = <<x>> \o <<y>>
<1> DEFINE s == <<x>>
<1>1. s \in Seq(S)
  BY OneType
<1>2. <<x, y>> = Append(s, y)
  OBVIOUS
<1> HIDE DEF s
<1>3. Append(s, y) = s \o <<y>>
  BY <1>1, AppendOne
<1> QED
  BY <1>2, <1>3 DEF s

\* A header and the empty line after it
LEMMA HashesHead ==
  ASSUME NEW h \in Headers, h.k = "hdr", Ordinary(h), h.main = "multipart" => IsBound(h.bnd),
         NEW proto, NEW st \in Seq(Bounds)
  PROVE  Hashes(<<h, Blank>>, proto, st, FALSE,
                IF h.main = "multipart" THEN Append(st, h.bnd) ELSE st, TRUE)
<1> DEFINE s == IF h.main = "multipart" THEN Append(st, h.bnd) ELSE st
<1> HIDE DEF s
<1> SUFFICES ASSUME NEW r, NEW d, Hashing(r, AllHeads, st, d, proto, FALSE), d \in Seq(MailLines)
             PROVE  Hashing(Feed(r, <<h, Blank>>), AllHeads, s, d \o <<h, Blank>>, proto, TRUE)
  BY DEF Hashes, s
<1> DEFINE q == TakeLine(r, h)
           e == Append(d, h)
           b == Blank
<1>1. h \in MailLines /\ b \in MailLines /\ h \in AllHeads
  BY LineKinds, HeadsAll
<1>2. Hashing(q, AllHeads, st, e, proto, FALSE) /\ Field(q) = h
  BY <1>1, HashHead
<1>3. Feed(r, <<h, b>>) = TakeLine(q, b)
  <2>1. <<h, b>> = Append(<<h>>, b) /\ <<h>> \in Seq(MailLines)
    BY <1>1
  <2> DEFINE y == <<h>>
  <2>2. Feed(r, y) = q /\ y \in Seq(MailLines) /\ b \in MailLines
    BY <1>1, <2>1, FeedOne
  <2> HIDE DEF y, q, b
  <2>3. Feed(r, Append(y, b)) = TakeLine(Feed(r, y), b)
    BY <2>2, FeedAppend
  <2> QED
    BY <2>1, <2>2, <2>3 DEF y
<1>4. d \o <<h, b>> = Append(e, b)
  <2> HIDE DEF b
  <2> QED
    BY <1>1
<1> HIDE DEF q, e
<1>5. Hashing(TakeLine(q, Blank), AllHeads, s, Append(e, Blank), proto, TRUE)
  BY <1>2, HeadsAll, HashBlank DEF s
<1> QED
  BY <1>3, <1>4, <1>5

LEMMA HashesPartHead ==
  ASSUME NEW p \in Parts, NEW proto, NEW st \in Seq(Bounds)
  PROVE  Hashes(<<PartHeader(p), Blank>>, proto, st, FALSE, st, TRUE)
<1> DEFINE h == PartHeader(p)
<1>1. h \in Headers
  BY DEF Headers, PartHeaders
<1>2. h.k = "hdr" /\ Ordinary(h) /\ h.main # "multipart"
  BY PartOrdinary
<1> HIDE DEF h
<1>3. Hashes(<<h, Blank>>, proto, st, FALSE,
             IF h.main = "multipart" THEN Append(st, h.bnd) ELSE st, TRUE)
  BY <1>1, <1>2, HashesHead
<1> QED
  BY <1>2, <1>3 DEF h

LEMMA HashesMultiHead ==
  ASSUME NEW s \in {"mixed", "related", "alternative"}, NEW b \in InnerBounds,
         NEW proto, NEW st \in Seq(Bounds)
  PROVE  Hashes(<<MultiHeader(s, b), Blank>>, proto, st, FALSE, Append(st, b), TRUE)
<1> DEFINE h == MultiHeader(s, b)
<1>2. h \in Headers /\ h.k = "hdr" /\ Ordinary(h) /\ h.main = "multipart" /\ h.bnd = b
      /\ IsBound(h.bnd)
  BY MultiOrdinary
<1> HIDE DEF h
<1>3. Hashes(<<h, Blank>>, proto, st, FALSE,
             IF h.main = "multipart" THEN Append(st, h.bnd) ELSE st, TRUE)
  BY <1>2, HashesHead
<1> QED
  BY <1>2, <1>3 DEF h

\* The places inside the signed data: in the part with the boundary b
Inside(st, b) == st \in Seq(Bounds) /\ Len(st) # 1 /\ Top(st) = b /\ b \in InnerBounds

LEMMA HashesBlank ==
  ASSUME NEW proto, NEW st
  PROVE  Hashes(<<Blank>>, proto, st, TRUE, st, TRUE)
<1> DEFINE x == <<Blank>>
<1>1. x \in Seq(Calm(Composed))
  BY LineKinds, OneType
<1> HIDE DEF x
<1> QED
  BY <1>1, HashesContent DEF x

LEMMA HashesBoundary ==
  ASSUME NEW proto, NEW st, NEW b, Inside(st, b)
  PROVE  Hashes(WriteBoundary(b), proto, st, TRUE, st, FALSE)
<1>1. b # "" /\ IsBound(b) /\ b \in InnerBounds
  BY DEF Inside, InnerBounds, IsBound, Bounds
<1>2. st \in Seq(Bounds) /\ Len(st) # 1 /\ Top(st) = b
  BY DEF Inside
<1> DEFINE x == <<Blank>>
           y == <<Boundary(b)>>
<1>3. x \in Seq(MailLines) /\ y \in Seq(MailLines) /\ Boundary(b) \in MailLines
  BY <1>1, LineKinds, OneType
<1>4. WriteBoundary(b) = x \o y
  <2>1. Blank \in MailLines /\ Boundary(b) \in MailLines
    BY <1>3, LineKinds
  <2>2. <<Blank, Boundary(b)>> = x \o y
    BY <2>1, TwoOnes
  <2> QED
    BY <1>1, <2>2 DEF WriteBoundary
<1>5. \A r, d : Hashing(r, AllHeads, st, d, proto, TRUE)
                  => Hashing(TakeLine(r, Boundary(b)), AllHeads, st, Append(d, Boundary(b)), proto, FALSE)
  BY <1>1, <1>2, HeadsAll, HashMark
<1>6. Hashes(y, proto, st, TRUE, st, FALSE)
  BY <1>3, <1>5, HashesLine
<1>7. Hashes(x, proto, st, TRUE, st, TRUE)
  BY HashesBlank
<1> HIDE DEF x, y
<1> QED
  BY <1>3, <1>4, <1>6, <1>7, HashesConcat

LEMMA HashesClose ==
  ASSUME NEW proto, NEW st \in Seq(Bounds), Len(st) # 0, NEW b \in InnerBounds
  PROVE  Hashes(CloseBoundary(b), proto, Append(st, b), TRUE, st, TRUE)
<1>1. b # "" /\ IsBound(b)
  BY DEF InnerBounds, IsBound, Bounds
<1> DEFINE x == <<Blank>>
           y == <<LastBoundary(b)>>
           s == Append(st, b)
<1>3. x \in Seq(MailLines) /\ y \in Seq(MailLines) /\ LastBoundary(b) \in MailLines
  BY LineKinds, OneType
<1>4. CloseBoundary(b) = x \o y
  <2>1. Blank \in MailLines /\ LastBoundary(b) \in MailLines
    BY <1>3, LineKinds
  <2>2. <<Blank, LastBoundary(b)>> = x \o y
    BY <2>1, TwoOnes
  <2> QED
    BY <1>1, <2>2 DEF CloseBoundary
<1>5. \A r, d : Hashing(r, AllHeads, s, d, proto, TRUE)
                  => Hashing(TakeLine(r, LastBoundary(b)), AllHeads, st, Append(d, LastBoundary(b)), proto, TRUE)
  BY <1>1, HashLast
<1> HIDE DEF s
<1>6. Hashes(y, proto, s, TRUE, st, TRUE)
  BY <1>3, <1>5, HashesLine
<1>7. Hashes(x, proto, s, TRUE, s, TRUE)
  BY HashesBlank
<1> HIDE DEF x, y
<1>8. Hashes(x \o y, proto, s, TRUE, st, TRUE)
  BY <1>3, <1>6, <1>7, HashesConcat
<1> QED
  BY <1>4, <1>8 DEF s

\* A part without a boundary, and one with its boundary
LEMMA HashesBare ==
  ASSUME NEW p \in Parts, NEW proto, NEW st \in Seq(Bounds)
  PROVE  Hashes(WritePart(p, ""), proto, st, FALSE, st, TRUE)
<1> DEFINE x == <<PartHeader(p), Blank>>
           y == WriteContent(p.data, PartEnc(p))
<1>1. x \in Seq(MailLines) /\ y \in Seq(MailLines) /\ y \in Seq(Calm(Composed))
  <2>1. "" \in MailBounds
    BY DEF MailBounds
  <2> QED
    BY <2>1, PartLines
<1>2. Hashes(x, proto, st, FALSE, st, TRUE)
  BY HashesPartHead
<1>3. Hashes(y, proto, st, TRUE, st, TRUE)
  BY <1>1, HashesContent
<1>4. WritePart(p, "") = WriteBoundary("") \o x \o y
  BY WritePartIs
<1>5. WriteBoundary("") = <<>>
  BY DEF WriteBoundary
<1> HIDE DEF x, y
<1>6. WritePart(p, "") = x \o y
  BY <1>1, <1>4, <1>5, ConcatNone
<1> QED
  BY <1>1, <1>2, <1>3, <1>6, HashesConcat

LEMMA HashesPart ==
  ASSUME NEW p \in Parts, NEW proto, NEW st, NEW b, Inside(st, b)
  PROVE  Hashes(WritePart(p, b), proto, st, TRUE, st, TRUE)
<1> DEFINE w == WriteBoundary(b)
           x == <<PartHeader(p), Blank>>
           y == WriteContent(p.data, PartEnc(p))
<1>0. st \in Seq(Bounds) /\ b \in MailBounds
  BY DEF Inside, MailBounds
<1>1. x \in Seq(MailLines) /\ y \in Seq(MailLines) /\ y \in Seq(Calm(Composed))
      /\ w \in Seq(MailLines)
  BY <1>0, PartLines, MarkLines
<1>2. Hashes(x, proto, st, FALSE, st, TRUE)
  BY <1>0, HashesPartHead
<1>3. Hashes(y, proto, st, TRUE, st, TRUE)
  BY <1>1, HashesContent
<1>4. WritePart(p, b) = w \o x \o y
  BY WritePartIs
<1>5. Hashes(w, proto, st, TRUE, st, FALSE)
  BY HashesBoundary
<1> HIDE DEF w, x, y
<1>6. w \o x \in Seq(MailLines) /\ Hashes(w \o x, proto, st, TRUE, st, TRUE)
  BY <1>1, <1>2, <1>5, HashesConcat, ConcatType
<1>7. Hashes((w \o x) \o y, proto, st, TRUE, st, TRUE)
  BY <1>1, <1>3, <1>6, HashesConcat
<1> QED
  BY <1>4, <1>7

LEMMA HashesFiles ==
  ASSUME NEW atts \in Seq(UserAtts), NEW which, NEW proto, NEW st, NEW b, Inside(st, b)
  PROVE  Hashes(WriteAttachments(atts, b, which), proto, st, TRUE, st, TRUE)
<1> DEFINE F == PartsIn(b)
           s == Keep(atts, Chosen(which))
           T == { x \in Seq(UserAtts) : Hashes(Spread(x, F), proto, st, TRUE, st, TRUE) }
<1>0. UserAtts \subseteq Parts /\ b \in MailBounds
  BY DEF Parts, Inside, MailBounds
<1>1. F \in [UserAtts -> Seq(MailLines)] /\ \A p \in UserAtts : F[p] = WritePart(p, b)
  BY <1>0, PartsInType DEF PartsIn
<1>2. s \in Seq(UserAtts) /\ WriteAttachments(atts, b, which) = Spread(s, F)
  BY KeepType, AttachmentsAre
<1> HIDE DEF F, s
<1>3. <<>> \in T
  BY SpreadNone, HashesNone, NoneType
<1>4. ASSUME NEW x \in Seq(UserAtts), NEW p \in UserAtts, x \in T PROVE Append(x, p) \in T
  <2>1. Spread(Append(x, p), F) = Spread(x, F) \o F[p]
    BY <1>1, SpreadAppend
  <2>2. Spread(x, F) \in Seq(MailLines) /\ F[p] \in Seq(MailLines)
    BY <1>1, SpreadType
  <2>3. Hashes(F[p], proto, st, TRUE, st, TRUE)
    BY <1>0, <1>1, HashesPart
  <2>4. Hashes(Spread(x, F), proto, st, TRUE, st, TRUE)
    BY <1>4
  <2>5. Hashes(Spread(x, F) \o F[p], proto, st, TRUE, st, TRUE)
    BY <2>2, <2>3, <2>4, HashesConcat
  <2>6. Append(x, p) \in Seq(UserAtts)
    BY AppendType
  <2> QED
    BY <2>1, <2>5, <2>6
<1> HIDE DEF T
<1>5. Seq(UserAtts) \subseteq T
  BY <1>3, <1>4, SeqInduct
<1> QED
  BY <1>2, <1>5 DEF T

\* The text and the HTML text in the part with the boundary "alt"
AltTexts(m, w) == w \o AltHead \o WritePart(BodyPart("plain", m.body), "alt")
                    \o WritePart(BodyPart("html", m.html), "alt") \o CloseBoundary("alt")

LEMMA AltLines ==
  ASSUME NEW m, IsMail(m)
  PROVE  /\ AltHead \in Seq(MailLines) /\ WritePart(BodyPart("plain", m.body), "alt") \in Seq(MailLines)
         /\ WritePart(BodyPart("html", m.html), "alt") \in Seq(MailLines)
         /\ CloseBoundary("alt") \in Seq(MailLines)
<1> DEFINE c == "alt"
           k == "alternative"
<1>1. c \in MailBounds /\ c \in InnerBounds /\ k \in {"mixed", "related", "alternative"}
  BY DEF InnerBounds, MailBounds
<1> HIDE DEF c, k
<1>2. <<MultiHeader(k, c), Blank>> \in Seq(MailLines)
  BY <1>1, HeadLines
<1>3. /\ WritePart(BodyPart("plain", m.body), c) \in Seq(MailLines)
      /\ WritePart(BodyPart("html", m.html), c) \in Seq(MailLines)
      /\ CloseBoundary(c) \in Seq(MailLines)
  BY <1>1, BodyParts, PartLines, MarkLines
<1> QED
  BY <1>2, <1>3 DEF AltHead, c, k

LEMMA HashesTexts ==
  ASSUME NEW m, IsMail(m), NEW proto, NEW st \in Seq(Bounds), Len(st) # 0, NEW w \in Seq(MailLines),
         NEW i, Hashes(w, proto, st, i, st, FALSE)
  PROVE  Hashes(AltTexts(m, w), proto, st, i, st, TRUE)
<1> DEFINE b == "alt"
           s == Append(st, b)
           q == WritePart(BodyPart("plain", m.body), b)
           h == WritePart(BodyPart("html", m.html), b)
           z == CloseBoundary(b)
           a == AltHead
<1>0. b \in InnerBounds /\ b \in MailBounds /\ b \in Bounds
  BY DEF InnerBounds, MailBounds, Bounds
<1>1. /\ a \in Seq(MailLines) /\ q \in Seq(MailLines) /\ h \in Seq(MailLines) /\ z \in Seq(MailLines)
      /\ Hashes(a, proto, st, FALSE, s, TRUE)
  <2> DEFINE k == "alternative"
  <2>1. k \in {"mixed", "related", "alternative"}
    OBVIOUS
  <2>2. a \in Seq(MailLines) /\ q \in Seq(MailLines) /\ h \in Seq(MailLines) /\ z \in Seq(MailLines)
    BY AltLines
  <2> HIDE DEF b, k
  <2>3. Hashes(<<MultiHeader(k, b), Blank>>, proto, st, FALSE, s, TRUE)
    BY <1>0, <2>1, HashesMultiHead
  <2> QED
    BY <2>2, <2>3 DEF AltHead, k, b
<1>2. Inside(s, b)
  <2> HIDE DEF b
  <2>1. s \in Seq(Bounds) /\ Len(s) = Len(st) + 1 /\ s[Len(s)] = b /\ s # <<>>
    BY <1>0
  <2>2. Len(s) # 1
    BY <2>1
  <2> HIDE DEF s
  <2> QED
    BY <1>0, <2>1, <2>2 DEF Inside, Top
<1> HIDE DEF b
<1>3. Hashes(q, proto, s, TRUE, s, TRUE) /\ Hashes(h, proto, s, TRUE, s, TRUE)
  BY <1>2, BodyParts, HashesPart
<1>4. Hashes(z, proto, s, TRUE, st, TRUE)
  BY <1>0, HashesClose
<1> HIDE DEF s, q, h, z, a
<1>5. w \o a \in Seq(MailLines) /\ Hashes(w \o a, proto, st, i, s, TRUE)
  BY <1>1, HashesConcat, ConcatType
<1> DEFINE x == w \o a
<1> HIDE DEF x
<1>6. x \o q \in Seq(MailLines) /\ Hashes(x \o q, proto, st, i, s, TRUE)
  BY <1>1, <1>3, <1>5, HashesConcat, ConcatType DEF x
<1> DEFINE y == x \o q
<1> HIDE DEF y
<1>7. y \o h \in Seq(MailLines) /\ Hashes(y \o h, proto, st, i, s, TRUE)
  BY <1>1, <1>3, <1>6, HashesConcat, ConcatType DEF y
<1> DEFINE v == y \o h
<1> HIDE DEF v
<1>8. Hashes(v \o z, proto, st, i, st, TRUE)
  BY <1>1, <1>4, <1>7, HashesConcat DEF v
<1> QED
  BY <1>8 DEF AltTexts, v, y, x, a, q, h, z, b

LEMMA AddBodyIs ==
  ASSUME NEW m, NEW b
  PROVE  AddBody(m, b) =
           IF m.body = <<>> THEN <<>>
           ELSE IF ~m.alt THEN WritePart(BodyPart("plain", m.body), b)
           ELSE AltTexts(m, WriteBoundary(b))
BY DEF AddBody, AltHead, AltTexts, MultiHeader

LEMMA HashesBody ==
  ASSUME NEW m, IsMail(m), NEW proto, NEW st, NEW b, Inside(st, b)
  PROVE  Hashes(AddBody(m, b), proto, st, TRUE, st, TRUE)
<1>1. Hashes(<<>>, proto, st, TRUE, st, TRUE)
  BY HashesNone
<1>2. Hashes(WritePart(BodyPart("plain", m.body), b), proto, st, TRUE, st, TRUE)
  BY BodyParts, HashesPart
<1>3. Hashes(AltTexts(m, WriteBoundary(b)), proto, st, TRUE, st, TRUE)
  <2>1. WriteBoundary(b) \in Seq(MailLines)
    BY MarkLines DEF Inside, MailBounds
  <2>2. Hashes(WriteBoundary(b), proto, st, TRUE, st, FALSE)
    BY HashesBoundary
  <2>3. st \in Seq(Bounds) /\ Len(st) # 0
    <3>1. b # ""
      BY DEF Inside, InnerBounds
    <3>2. st # <<>>
      BY <3>1 DEF Inside, Top
    <3> QED
      BY <3>2 DEF Inside
  <2> QED
    BY <2>1, <2>2, <2>3, HashesTexts
<1> QED
  BY <1>1, <1>2, <1>3, AddBodyIs

\* The text of a mail that has nothing else
LEMMA HashesBareBody ==
  ASSUME NEW m, IsMail(m), m.body # <<>>, NEW proto, NEW st \in Seq(Bounds), Len(st) # 0
  PROVE  Hashes(AddBody(m, ""), proto, st, FALSE, st, TRUE)
<1>1. Hashes(WritePart(BodyPart("plain", m.body), ""), proto, st, FALSE, st, TRUE)
  BY BodyParts, HashesBare
<1>2. Hashes(AltTexts(m, WriteBoundary("")), proto, st, FALSE, st, TRUE)
  <2> DEFINE w == WriteBoundary("")
  <2>1. w = <<>>
    BY DEF WriteBoundary
  <2>2. w \in Seq(MailLines) /\ Hashes(w, proto, st, FALSE, st, FALSE)
    BY <2>1, HashesNone, NoneType
  <2> HIDE DEF w
  <2>3. Hashes(AltTexts(m, w), proto, st, FALSE, st, TRUE)
    BY <2>2, HashesTexts
  <2> QED
    BY <2>3 DEF w
<1> QED
  BY <1>1, <1>2, AddBodyIs

\* All that a mail has is usable
LEMMA AllUsable ==
  ASSUME NEW m, IsMail(m)
  PROVE  UsableAttachments(m.atts) = m.atts /\ Usables(m) = Len(m.atts) /\ Len(m.atts) \in Nat
         /\ m.atts \in Seq(UserAtts)
<1>1. m.atts \in Seq(UserAtts)
  BY DEF IsMail
<1>2. \A a \in UserAtts : Usable(a)
  BY DEF Usable, UserAtts
<1>3. { i \in DOMAIN m.atts : Usable(m.atts[i]) } = { i \in DOMAIN m.atts : m.atts[i] \in UserAtts }
  BY <1>1, <1>2
<1>4. UsableAttachments(m.atts) = Keep(m.atts, UserAtts)
  BY <1>3 DEF UsableAttachments, Keep
<1>5. Keep(m.atts, UserAtts) = m.atts
  BY <1>1, KeepAll
<1> QED
  BY <1>1, <1>4, <1>5 DEF Usables

LEMMA InsideNext ==
  ASSUME NEW st \in Seq(Bounds), Len(st) # 0, NEW b \in InnerBounds
  PROVE  /\ Inside(Append(st, b), b) /\ Append(st, b) \in Seq(Bounds)
         /\ Len(Append(st, b)) = Len(st) + 1 /\ Len(Append(st, b)) # 0
<1> DEFINE s == Append(st, b)
<1>1. b \in Bounds
  BY DEF Bounds, InnerBounds
<1>2. s \in Seq(Bounds) /\ Len(s) = Len(st) + 1 /\ s[Len(s)] = b /\ s # <<>>
  BY <1>1
<1>3. Len(s) # 1 /\ Len(s) # 0
  BY <1>2
<1> HIDE DEF s
<1>4. Top(s) = b
  BY <1>2 DEF Top
<1>5. Inside(s, b)
  BY <1>2, <1>3, <1>4 DEF Inside
<1> QED
  BY <1>2, <1>3, <1>5 DEF s

LEMMA SignStack == <<"sign">> \in Seq(Bounds) /\ Len(<<"sign">>) = 1 /\ Len(<<"sign">>) # 0
<1> DEFINE x == "sign"
<1>1. x \in Bounds
  BY DEF Bounds
<1> HIDE DEF x
<1>2. <<x>> \in Seq(Bounds) /\ Len(<<x>>) = 1
  BY <1>1
<1> QED
  BY <1>2 DEF x

LEMMA NoInner == ASSUME NEW m, IsRelated(m) = 0 PROVE InnerOf(m) = ""
BY DEF InnerOf

\* A mail in parts
LEMMA HashesOuter ==
  ASSUME NEW m, IsMail(m), OuterOf(m) # "", NEW proto
  PROVE  Hashes(AddBodyAndAttachments(m), proto, <<"sign">>, FALSE, <<"sign">>, TRUE)
<1> DEFINE b == OuterOf(m)
           c == InnerOf(m)
           i == WithinOf(m)
           s0 == <<"sign">>
           s1 == Append(s0, b)
           s2 == IF c = "" THEN s1 ELSE Append(s1, c)
<1>1. /\ b \in InnerBounds /\ i \in InnerBounds /\ (c # "" => c \in InnerBounds) /\ (c = "" => i = b)
      /\ (c # "" => i = c)
  BY BoundsOf DEF WithinOf, MailBounds
<1>2. s0 \in Seq(Bounds) /\ Len(s0) # 0
  BY SignStack
<1> HIDE DEF b, c, i, s0
<1>3. s1 \in Seq(Bounds) /\ Len(s1) # 0 /\ Inside(s1, b)
  <2>1. b \in InnerBounds
    BY <1>1
  <2> QED
    BY <1>2, <2>1, InsideNext
<1> HIDE DEF s1
<1>4. s2 \in Seq(Bounds) /\ Inside(s2, i)
  <2>1. CASE c = ""
    BY <1>1, <1>3, <2>1
  <2>2. CASE c # ""
    <3>1. c \in InnerBounds /\ i = c
      BY <1>1, <2>2
    <3>2. Inside(Append(s1, c), c) /\ Append(s1, c) \in Seq(Bounds)
      BY <1>3, <3>1, InsideNext
    <3>3. s2 = Append(s1, c)
      BY <2>2
    <3> QED
      BY <3>1, <3>2, <3>3
  <2> QED
    BY <2>1, <2>2
<1>5. Hashes(OuterHead(m), proto, s0, FALSE, s1, TRUE)
  <2> DEFINE k == IF IsRelated(m) = 1 THEN "related" ELSE "mixed"
  <2>1. k \in {"mixed", "related", "alternative"}
    OBVIOUS
  <2> HIDE DEF k
  <2>2. Hashes(<<MultiHeader(k, b), Blank>>, proto, s0, FALSE, s1, TRUE)
    BY <1>1, <1>2, <2>1, HashesMultiHead DEF s1
  <2> QED
    BY <2>2 DEF OuterHead, k, b
<1>6. Hashes(InnerHead(m), proto, s1, TRUE, s2, TRUE)
  <2>1. CASE c = ""
    BY <2>1, HashesNone DEF InnerHead, c
  <2>2. CASE c # ""
    <3> DEFINE k == "related"
               w == WriteBoundary(b)
               x == <<MultiHeader(k, c), Blank>>
    <3>1. k \in {"mixed", "related", "alternative"}
      OBVIOUS
    <3> HIDE DEF k
    <3>2. Hashes(x, proto, s1, FALSE, s2, TRUE) /\ x \in Seq(MailLines)
      BY <1>1, <1>3, <2>2, <3>1, HashesMultiHead, HeadLines
    <3>3. Hashes(w, proto, s1, TRUE, s1, FALSE) /\ w \in Seq(MailLines)
      BY <1>1, <1>3, HashesBoundary, MarkLines DEF MailBounds
    <3>4. InnerHead(m) = w \o x
      BY <2>2 DEF InnerHead, k, c, b
    <3> HIDE DEF w, x, s2
    <3> QED
      BY <3>2, <3>3, <3>4, HashesConcat
  <2> QED
    BY <2>1, <2>2
<1>7. Hashes(AddBody(m, i), proto, s2, TRUE, s2, TRUE)
  BY <1>4, HashesBody
<1>8. m.atts \in Seq(UserAtts)
  BY DEF IsMail
<1>9. Hashes(RelatedFiles(m), proto, s2, TRUE, s1, TRUE)
  <2> DEFINE w == WriteAttachments(m.atts, i, 1)
             z == CloseBoundary(c)
  <2>0. w \in Seq(MailLines) /\ z \in Seq(MailLines)
    BY <1>8, BoundsOf, AttachmentLines, MarkLines DEF i, c
  <2>1. Hashes(w, proto, s2, TRUE, s2, TRUE)
    BY <1>4, <1>8, HashesFiles
  <2>2. Hashes(z, proto, s2, TRUE, s1, TRUE)
    <3>1. CASE c = ""
      BY <3>1, HashesNone DEF CloseBoundary
    <3>2. CASE c # ""
      <4>1. Len(s1) # 0 /\ s1 \in Seq(Bounds)
        BY <1>3
      <4>2. c \in InnerBounds
        BY <1>1, <3>2
      <4>3. s2 = Append(s1, c)
        BY <3>2
      <4> HIDE DEF s2
      <4> QED
        BY <4>1, <4>2, <4>3, HashesClose
    <3> QED
      BY <3>1, <3>2
  <2> HIDE DEF w, z
  <2>3. Hashes(w \o z, proto, s2, TRUE, s1, TRUE)
    BY <2>0, <2>1, <2>2, HashesConcat
  <2>4. CASE Usables(m) = 0 \/ IsRelated(m) = 0
    <3>1. Usables(m) # 0
      <4>1. Usables(m) \in Nat
        BY AllUsable
      <4> QED
        BY <4>1 DEF OuterOf
    <3>2. IsRelated(m) = 0
      BY <2>4, <3>1
    <3>4. c = ""
      BY <3>2, NoInner DEF c
    <3>3. RelatedFiles(m) = <<>>
      BY <2>4 DEF RelatedFiles
    <3> QED
      BY <3>4, <3>3, HashesNone
  <2>5. CASE ~(Usables(m) = 0 \/ IsRelated(m) = 0)
    <3>1. RelatedFiles(m) = w \o z
      BY <2>5 DEF RelatedFiles, w, z, i, c
    <3> QED
      BY <2>3, <3>1
  <2> QED
    BY <2>4, <2>5
<1>10. Hashes(OtherFiles(m), proto, s1, TRUE, s1, TRUE)
  <2>1. Hashes(WriteAttachments(m.atts, b, 2), proto, s1, TRUE, s1, TRUE)
        /\ Hashes(WriteAttachments(m.atts, b, 0), proto, s1, TRUE, s1, TRUE)
    BY <1>3, <1>8, HashesFiles
  <2>2. Hashes(<<>>, proto, s1, TRUE, s1, TRUE)
    BY HashesNone
  <2> QED
    BY <2>1, <2>2 DEF OtherFiles, b
<1>11. Hashes(CloseBoundary(b), proto, s1, TRUE, s0, TRUE)
  <2>1. b \in InnerBounds
    BY <1>1
  <2> QED
    BY <1>2, <2>1, HashesClose DEF s1
<1> DEFINE x1 == OuterHead(m)
           x2 == InnerHead(m)
           x3 == AddBody(m, i)
           x4 == RelatedFiles(m)
           x5 == OtherFiles(m)
           x6 == CloseBoundary(b)
<1>12. /\ x1 \in Seq(MailLines) /\ x2 \in Seq(MailLines) /\ x3 \in Seq(MailLines)
       /\ x4 \in Seq(MailLines) /\ x5 \in Seq(MailLines) /\ x6 \in Seq(MailLines)
       /\ AddBodyAndAttachments(m) = x1 \o x2 \o x3 \o x4 \o x5 \o x6
  BY WholeLines, WholeIs DEF b, i
<1> HIDE DEF x1, x2, x3, x4, x5, x6, s2
<1> DEFINE y2 == x1 \o x2
           y3 == y2 \o x3
           y4 == y3 \o x4
           y5 == y4 \o x5
<1>13. y2 \in Seq(MailLines) /\ Hashes(y2, proto, s0, FALSE, s2, TRUE)
  BY <1>5, <1>6, <1>12, HashesConcat, ConcatType DEF x1, x2
<1> HIDE DEF y2
<1>14. y3 \in Seq(MailLines) /\ Hashes(y3, proto, s0, FALSE, s2, TRUE)
  BY <1>7, <1>12, <1>13, HashesConcat, ConcatType DEF x3
<1> HIDE DEF y3
<1>15. y4 \in Seq(MailLines) /\ Hashes(y4, proto, s0, FALSE, s1, TRUE)
  BY <1>9, <1>12, <1>14, HashesConcat, ConcatType DEF x4
<1> HIDE DEF y4
<1>16. y5 \in Seq(MailLines) /\ Hashes(y5, proto, s0, FALSE, s1, TRUE)
  BY <1>10, <1>12, <1>15, HashesConcat, ConcatType DEF x5
<1> HIDE DEF y5
<1>17. Hashes(y5 \o x6, proto, s0, FALSE, s0, TRUE)
  BY <1>11, <1>12, <1>16, HashesConcat DEF x6
<1> QED
  BY <1>12, <1>17 DEF y5, y4, y3, y2, s0

-----------------------------------------------------------------------------
(* What GnuPG makes, and what is written around it.                        *)

WireLines == Calm(Pieces) \cup AllHeads
               \cup { Boundary(b) : b \in Bounds } \cup { LastBoundary(b) : b \in Bounds }

LEMMA WireKinds ==
  /\ Calm(Pieces) \subseteq WireLines /\ AllHeads \subseteq WireLines /\ Blank \in WireLines
  /\ \A b \in Bounds : Boundary(b) \in WireLines /\ LastBoundary(b) \in WireLines
<1>1. Blank \in Calm(Pieces)
  <2> DEFINE p == <<>>
             q == "7bit"
             w == FALSE
  <2>1. p \in Seq(Pieces) /\ p # <<"dash">> /\ q \in {"7bit", "qp", "b64"} /\ w \in BOOLEAN
    OBVIOUS
  <2> HIDE DEF p, q, w
  <2>2. Data(p, q, w) \in Calm(Pieces)
    BY <2>1, CalmLine
  <2> QED
    BY <2>2 DEF p, q, w, Blank
<1> QED
  BY <1>1 DEF WireLines

LEMMA MailWire == MailLines \subseteq WireLines /\ Seq(MailLines) \subseteq Seq(WireLines)
<1>1. Calm(Composed) \subseteq Calm(Pieces)
  <2>1. Seq(Composed) \subseteq Seq(Pieces)
    BY ComposedPieces, Seqs
  <2> QED
    BY <2>1 DEF Calm
<1>2. Headers \subseteq AllHeads /\ InnerBounds \subseteq Bounds
  BY DEF AllHeads, InnerBounds, Bounds
<1>3. MailLines \subseteq WireLines
  BY <1>1, <1>2 DEF MailLines, WireLines
<1> QED
  BY <1>3, Seqs

\* Short sequences
LEMMA Short1 ==
  ASSUME NEW S, NEW x \in S
  PROVE  Append(<<>>, x) = <<x>> /\ <<x>> \in Seq(S) /\ <<x>> # <<>>
OBVIOUS

LEMMA AppendIs ==
  ASSUME NEW S, NEW s \in Seq(S), NEW y \in S, NEW t \in Seq(S), Len(t) = Len(s) + 1,
         \A i \in 1..Len(s) : t[i] = s[i], t[Len(t)] = y
  PROVE  Append(s, y) = t
<1>1. Append(s, y) \in Seq(S) /\ Len(Append(s, y)) = Len(s) + 1
      /\ \A i \in 1..(Len(s) + 1) : Append(s, y)[i] = IF i = Len(s) + 1 THEN y ELSE s[i]
  OBVIOUS
<1> DEFINE u == Append(s, y)
<1> HIDE DEF u
<1>2. u \in Seq(S) /\ Len(u) = Len(t) /\ \A i \in 1..Len(u) : u[i] = t[i]
  BY <1>1 DEF u
<1>3. u = t
  BY <1>2
<1> QED
  BY <1>3 DEF u

LEMMA Short2 ==
  ASSUME NEW S, NEW x \in S, NEW y \in S
  PROVE  Append(<<x>>, y) = <<x, y>> /\ <<x, y>> \in Seq(S)
<1> DEFINE s == <<x>>
           t == <<x, y>>
<1>1. s \in Seq(S) /\ t \in Seq(S) /\ Len(s) = 1 /\ Len(t) = Len(s) + 1 /\ t[1] = s[1] /\ t[2] = y
  OBVIOUS
<1> HIDE DEF s, t
<1>2. Append(s, y) = t
  <2>1. (\A i \in 1..Len(s) : t[i] = s[i]) /\ t[Len(t)] = y
    BY <1>1
  <2> QED
    BY <1>1, <2>1, AppendIs
<1> QED
  BY <1>1, <1>2 DEF s, t

LEMMA Short3 ==
  ASSUME NEW S, NEW x \in S, NEW y \in S, NEW z \in S
  PROVE  Append(<<x, y>>, z) = <<x, y, z>> /\ <<x, y, z>> \in Seq(S)
<1> DEFINE s == <<x, y>>
           t == <<x, y, z>>
<1>1. s \in Seq(S) /\ t \in Seq(S) /\ Len(s) = 2 /\ Len(t) = Len(s) + 1
      /\ t[1] = s[1] /\ t[2] = s[2] /\ t[3] = z
  OBVIOUS
<1> HIDE DEF s, t
<1>2. Append(s, z) = t
  <2>1. (\A i \in 1..Len(s) : t[i] = s[i]) /\ t[Len(t)] = z
    BY <1>1
  <2> QED
    BY <1>1, <2>1, AppendIs
<1> QED
  BY <1>1, <1>2 DEF s, t

LEMMA Short4 ==
  ASSUME NEW S, NEW x \in S, NEW y \in S, NEW z \in S, NEW w \in S
  PROVE  Append(<<x, y, z>>, w) = <<x, y, z, w>> /\ <<x, y, z, w>> \in Seq(S)
<1> DEFINE s == <<x, y, z>>
           t == <<x, y, z, w>>
<1>1. s \in Seq(S) /\ t \in Seq(S) /\ Len(s) = 3 /\ Len(t) = Len(s) + 1
      /\ t[1] = s[1] /\ t[2] = s[2] /\ t[3] = s[3] /\ t[4] = w
  OBVIOUS
<1> HIDE DEF s, t
<1>2. Append(s, w) = t
  <2>1. (\A i \in 1..Len(s) : t[i] = s[i]) /\ t[Len(t)] = w
    BY <1>1
  <2> QED
    BY <1>1, <2>1, AppendIs
<1> QED
  BY <1>1, <1>2 DEF s, t

LEMMA ShortSub == ASSUME NEW S, NEW s \in Seq(S), Len(s) = 1 PROVE SubSeq(s, 1, 1) = s
OBVIOUS

LEMMA ShortLines ==
  ASSUME NEW S, NEW l \in S, NEW k \in S
  PROVE  Plainly(<<l>>) = <<PlainLine(l)>> /\ Plainly(<<l, k>>) = <<PlainLine(l), PlainLine(k)>>
BY DEF Plainly

\* One line of one piece
Only1(x) == Data(<<x>>, "7bit", FALSE)

LEMMA SplitTwo ==
  ASSUME NEW x \in Within(Pieces)
  PROVE  /\ Split(<<x>>) = [done |-> <<>>, cur |-> <<x>>]
         /\ Split(<<x, "nl">>) = [done |-> << <<x>> >>, cur |-> <<>>]
<1> DEFINE e == <<>>
           n == "nl"
<1>1. x # "nl" /\ x \in Pieces /\ n \in Pieces
  BY DEF Within, Pieces
<1>2. e \in Seq(Pieces) /\ Split(e) = [done |-> <<>>, cur |-> <<>>]
  BY SplitNone
<1> HIDE DEF e
<1>3. Split(Append(e, x)) = AddPiece(Split(e), x)
  BY <1>1, <1>2, SplitAppend
<1>4. Append(e, x) = <<x>>
  BY DEF e
<1>5. AddPiece([done |-> <<>>, cur |-> <<>>], x) = [done |-> <<>>, cur |-> <<x>>]
  BY <1>1 DEF AddPiece
<1>6. Split(<<x>>) = [done |-> <<>>, cur |-> <<x>>]
  BY <1>2, <1>3, <1>4, <1>5
<1> DEFINE s == <<x>>
<1>7. s \in Seq(Pieces) /\ Split(s) = [done |-> <<>>, cur |-> <<x>>]
  BY <1>1, <1>6
<1> HIDE DEF s, n
<1>8. Split(Append(s, n)) = AddPiece(Split(s), n)
  BY <1>1, <1>7, SplitAppend
<1>9. AddPiece([done |-> <<>>, cur |-> <<x>>], n) = [done |-> << <<x>> >>, cur |-> <<>>]
  BY DEF AddPiece, n
<1>10. Append(s, n) = <<x, "nl">>
  <2>1. Append(<<x>>, n) = <<x, n>>
    BY <1>1, Short2
  <2> QED
    BY <2>1 DEF s, n
<1> QED
  BY <1>6, <1>7, <1>8, <1>9, <1>10

LEMMA SplitFour ==
  ASSUME NEW x \in Within(Pieces), NEW y \in Within(Pieces)
  PROVE  Split(<<x, "nl", y, "nl">>) = [done |-> << <<x>>, <<y>> >>, cur |-> <<>>]
<1> DEFINE n == "nl"
           s == <<x, "nl">>
           t == <<x, "nl", y>>
<1>0. y # "nl" /\ y \in Pieces /\ n \in Pieces /\ x \in Pieces
  BY DEF Within, Pieces
<1>1. s \in Seq(Pieces) /\ t \in Seq(Pieces)
  <2> HIDE DEF n
  <2>1. <<x, n>> \in Seq(Pieces) /\ <<x, n, y>> \in Seq(Pieces)
    BY <1>0, Short2, Short3
  <2> QED
    BY <2>1 DEF n
<1>2. Append(s, y) = t /\ Append(t, n) = <<x, "nl", y, "nl">>
  <2> HIDE DEF n
  <2>1. Append(<<x, n>>, y) = <<x, n, y>> /\ Append(<<x, n, y>>, n) = <<x, n, y, n>>
    BY <1>0, Short3, Short4
  <2> QED
    BY <2>1 DEF n
<1>3. Split(s) = [done |-> << <<x>> >>, cur |-> <<>>]
  BY SplitTwo
<1> HIDE DEF s, t, n
<1>4. Split(t) = AddPiece(Split(s), y)
  BY <1>0, <1>1, <1>2, SplitAppend
<1>5. AddPiece([done |-> << <<x>> >>, cur |-> <<>>], y) = [done |-> << <<x>> >>, cur |-> <<y>>]
  BY <1>0 DEF AddPiece
<1>6. Split(<<x, "nl", y, "nl">>) = AddPiece(Split(t), n)
  BY <1>0, <1>1, <1>2, SplitAppend
<1>7. AddPiece([done |-> << <<x>> >>, cur |-> <<y>>], n) = [done |-> << <<x>>, <<y>> >>, cur |-> <<>>]
  BY DEF AddPiece, n
<1> QED
  BY <1>3, <1>4, <1>5, <1>6, <1>7

\* What is short is written in one way
LEMMA ShortPlain ==
  ASSUME NEW x \in Within(Pieces), NEW y \in Within(Pieces)
  PROVE  /\ WritePlain(<<x>>) = <<Only1(x)>>
         /\ WritePlain(<<x, "nl">>) = <<Only1(x)>>
         /\ WritePlain(<<x, "nl", y, "nl">>) = <<Only1(x), Only1(y)>>
<1>0. Plainly(<< <<x>> >>) = <<Only1(x)>> /\ Plainly(<< <<x>>, <<y>> >>) = <<Only1(x), Only1(y)>>
  <2> DEFINE l == <<x>>
             k == <<y>>
  <2>1. l \in Seq(Within(Pieces)) /\ k \in Seq(Within(Pieces))
    OBVIOUS
  <2> HIDE DEF l, k
  <2>2. Plainly(<<l>>) = <<PlainLine(l)>> /\ Plainly(<<l, k>>) = <<PlainLine(l), PlainLine(k)>>
    BY <2>1, ShortLines
  <2> QED
    BY <2>2 DEF l, k, PlainLine, Only1
<1>1. WritePlain(<<x>>) = <<Only1(x)>>
  <2>1. SplitLines(<<x>>) = << <<x>> >>
    <3> DEFINE l == <<x>>
    <3>0a. l \in Seq(Within(Pieces)) /\ l # <<>>
      BY Short1
    <3>0b. Split(l) = [done |-> <<>>, cur |-> l]
      BY SplitTwo
    <3>0. l \in Seq(Within(Pieces)) /\ l # <<>> /\ Split(l) = [done |-> <<>>, cur |-> l]
      BY <3>0a, <3>0b
    <3> HIDE DEF l
    <3>1. Split(l).cur = l /\ Split(l).done = <<>>
      BY <3>0
    <3>2. Append(<<>>, l) = <<l>>
      BY <3>0, Short1
    <3>3. SplitLines(l) = <<l>>
      BY <3>0, <3>1, <3>2 DEF SplitLines
    <3> QED
      BY <3>3 DEF l
  <2> QED
    BY <2>1, <1>0, WritePlainIs
<1>2. WritePlain(<<x, "nl">>) = <<Only1(x)>>
  <2>1. SplitLines(<<x, "nl">>) = << <<x>> >>
    <3> DEFINE l == <<x, "nl">>
               k == << <<x>> >>
    <3>0. Split(l) = [done |-> k, cur |-> <<>>]
      BY SplitTwo
    <3> HIDE DEF l, k
    <3>1. SplitLines(l) = k
      BY <3>0 DEF SplitLines
    <3> QED
      BY <3>1 DEF l, k
  <2> QED
    BY <2>1, <1>0, WritePlainIs
<1>3. WritePlain(<<x, "nl", y, "nl">>) = <<Only1(x), Only1(y)>>
  <2>1. SplitLines(<<x, "nl", y, "nl">>) = << <<x>>, <<y>> >>
    <3> DEFINE l == <<x, "nl", y, "nl">>
               k == << <<x>>, <<y>> >>
    <3>0. Split(l) = [done |-> k, cur |-> <<>>]
      BY SplitFour
    <3> HIDE DEF l, k
    <3>1. SplitLines(l) = k
      BY <3>0 DEF SplitLines
    <3> QED
      BY <3>1 DEF l, k
  <2> QED
    BY <2>1, <1>0, WritePlainIs
<1> QED
  BY <1>1, <1>2, <1>3

LEMMA ShortB64 ==
  ASSUME NEW x \in Within(Pieces)
  PROVE  WriteB64(<<x>>) = <<Data(<<x>>, "b64", FALSE)>>
<1>1. Len(<<x>>) = 1 /\ (Len(<<x>>) + 1) \div 2 = 1 /\ 1..1 = {1}
  OBVIOUS
<1>2. SubSeq(<<x>>, 1, 1) = <<x>>
  <2>1. <<x>> \in Seq(Within(Pieces)) /\ Len(<<x>>) = 1
    OBVIOUS
  <2> DEFINE l == <<x>>
  <2> HIDE DEF l
  <2>2. SubSeq(l, 1, 1) = l
    BY <2>1, ShortSub DEF l
  <2> QED
    BY <2>2 DEF l
<1> DEFINE g(i) == Data(SubSeq(<<x>>, 2 * i - 1, IF 2 * i > Len(<<x>>) THEN Len(<<x>>) ELSE 2 * i),
                        "b64", FALSE)
<1>3. WriteB64(<<x>>) = [i \in 1..1 |-> g(i)]
  BY <1>1 DEF WriteB64
<1>4. g(1) = Data(<<x>>, "b64", FALSE)
  <2>1. 2 * 1 - 1 = 1 /\ (IF 2 * 1 > Len(<<x>>) THEN Len(<<x>>) ELSE 2 * 1) = 1
    OBVIOUS
  <2> QED
    BY <1>2, <2>1
<1> HIDE DEF g
<1>5. [i \in 1..1 |-> g(i)] = <<g(1)>>
  OBVIOUS
<1> QED
  BY <1>3, <1>4, <1>5

LEMMA Only1Is ==
  ASSUME NEW x \in Within(Pieces), x # "dash"
  PROVE  /\ Only1(x) \in Calm(Pieces) /\ Only1(x).k = "data" /\ Only1(x).p = <<x>>
         /\ Data(<<x>>, "b64", FALSE) \in Calm(Pieces)
<1> DEFINE p == <<x>>
           q == "7bit"
           b == "b64"
           w == FALSE
<1>1. p \in Seq(Pieces) /\ p # <<"dash">> /\ q \in {"7bit", "qp", "b64"} /\ w \in BOOLEAN
      /\ b \in {"7bit", "qp", "b64"}
  BY DEF Within
<1> HIDE DEF p, q, w, b
<1>2. Data(p, q, w) \in Calm(Pieces) /\ Data(p, b, w) \in Calm(Pieces)
  BY <1>1, CalmLine
<1> QED
  BY <1>2 DEF p, q, w, b, Only1, Data

-----------------------------------------------------------------------------
(* The structures around what GnuPG made.                                  *)

SigLines(proto, sig) == IF proto = "pgp" THEN WritePlain(sig) ELSE WriteB64(sig)
SigPart(proto, sig)  == <<SigHead(proto), Blank>> \o SigLines(proto, sig)
TypePart             == <<Header("application", "pgp-encrypted"), Blank, Only1("text")>>

LEMMA SignIs ==
  ASSUME NEW proto, NEW sig, NEW s
  PROVE  CreateSignAttach(proto, sig, s) =
           <<SignHead(proto), Blank>> \o WriteBoundary("sign") \o s \o WriteBoundary("sign")
             \o SigPart(proto, sig) \o <<Blank>> \o CloseBoundary("sign")
<1>1. SigningHeader(proto) = <<SignHead(proto), Blank>>
  BY DEF SigningHeader, SignHead
<1>2. SigPart(proto, sig) =
        IF proto = "pgp"
        THEN <<[Header("application", "pgp-signature") EXCEPT !.name = "sigfile"], Blank>>
               \o WritePlain(sig)
        ELSE <<[Header("application", "pkcs7-signature") EXCEPT
                  !.enc = "b64", !.disp = "inline", !.name = "sigfile"], Blank>> \o WriteB64(sig)
  BY DEF SigPart, SigHead, SigLines
<1> QED
  BY <1>1, <1>2 DEF CreateSignAttach

LEMMA PgpIs ==
  ASSUME NEW o, NEW e
  PROVE  CreateEncryptAttach("pgp", o, e) =
           (<<EncHead>> \o WriteBoundary("enc") \o TypePart \o WriteBoundary("enc")
              \o <<CipherHead, Blank>>) \o WritePlain(o) \o CloseBoundary("enc")
BY DEF CreateEncryptAttach, EncryptionHeader, EncHead, CipherHead, TypePart, Only1

LEMMA CmsIs ==
  ASSUME NEW o, NEW e
  PROVE  CreateEncryptAttach("cms", o, e) =
           (IF e THEN <<>> ELSE <<CmsHead, Blank>>)
             \o (IF e THEN WritePlain(o) ELSE WriteB64(o)) \o <<>>
BY DEF CreateEncryptAttach, EncryptionHeader, CmsHead, CloseBoundary

\* The types of the pieces
LEMMA WrapLines ==
  /\ \A p \in {"pgp", "cms"} : <<SignHead(p), Blank>> \in Seq(WireLines)
                                /\ <<SigHead(p), Blank>> \in Seq(WireLines)
  /\ \A b \in {"sign", "enc"} : WriteBoundary(b) \in Seq(WireLines)
                                 /\ CloseBoundary(b) \in Seq(WireLines)
  /\ <<EncHead>> \in Seq(WireLines) /\ <<CipherHead, Blank>> \in Seq(WireLines)
  /\ <<CmsHead, Blank>> \in Seq(WireLines) /\ TypePart \in Seq(WireLines)
  /\ <<Blank>> \in Seq(WireLines)
<1>1. Blank \in WireLines
  BY WireKinds
<1>2. ASSUME NEW p \in {"pgp", "cms"}
      PROVE  <<SignHead(p), Blank>> \in Seq(WireLines) /\ <<SigHead(p), Blank>> \in Seq(WireLines)
  <2>1. SignHead(p) \in WrapHeads /\ SigHead(p) \in WrapHeads
    BY <1>2 DEF WrapHeads
  <2>2. SignHead(p) \in WireLines /\ SigHead(p) \in WireLines
    BY <2>1, WireKinds DEF AllHeads
  <2> QED
    BY <1>1, <2>2, TwoType
<1>3. ASSUME NEW b \in {"sign", "enc"}
      PROVE  WriteBoundary(b) \in Seq(WireLines) /\ CloseBoundary(b) \in Seq(WireLines)
  <2>1. b # "" /\ b \in Bounds
    BY <1>3 DEF Bounds
  <2>2. Boundary(b) \in WireLines /\ LastBoundary(b) \in WireLines
    BY <2>1, WireKinds
  <2>3. <<Blank, Boundary(b)>> \in Seq(WireLines) /\ <<Blank, LastBoundary(b)>> \in Seq(WireLines)
    BY <1>1, <2>2, TwoType
  <2> QED
    BY <2>1, <2>3 DEF WriteBoundary, CloseBoundary
<1> DEFINE h == Header("application", "pgp-encrypted")
<1>4. EncHead \in WireLines /\ CipherHead \in WireLines /\ CmsHead \in WireLines /\ h \in WireLines
  <2>1. EncHead \in WrapHeads /\ CipherHead \in WrapHeads /\ CmsHead \in WrapHeads /\ h \in WrapHeads
    BY DEF WrapHeads
  <2> QED
    BY <2>1, WireKinds DEF AllHeads
<1>5. Only1("text") \in WireLines
  <2> DEFINE x == "text"
  <2>1. x \in Within(Pieces) /\ x # "dash"
    BY DEF Within, Pieces
  <2> HIDE DEF x
  <2>2. Only1(x) \in WireLines
    BY <2>1, Only1Is, WireKinds
  <2> QED
    BY <2>2 DEF x
<1> DEFINE t == Only1("text")
<1> HIDE DEF h, t
<1>6. /\ <<EncHead>> \in Seq(WireLines) /\ <<CipherHead, Blank>> \in Seq(WireLines)
      /\ <<CmsHead, Blank>> \in Seq(WireLines) /\ <<Blank>> \in Seq(WireLines)
  BY <1>1, <1>4, TwoType, OneType
<1>7. <<h, Blank, t>> \in Seq(WireLines)
  BY <1>1, <1>4, <1>5, Short3 DEF t
<1> QED
  BY <1>2, <1>3, <1>6, <1>7 DEF TypePart, h, t

\* A sequence that begins with h
Begins(s, h) == s \in Seq(WireLines) /\ s # <<>> /\ s[1] = h

LEMMA BeginsConcat ==
  ASSUME NEW s, NEW h, Begins(s, h), NEW t \in Seq(WireLines)
  PROVE  Begins(s \o t, h)
<1>1. s \in Seq(WireLines) /\ Len(s) > 0
  BY DEF Begins
<1>2. (s \o t)[1] = s[1] /\ s \o t \in Seq(WireLines) /\ Len(s \o t) > 0
  BY <1>1
<1> QED
  BY <1>2 DEF Begins

LEMMA SignBegins ==
  ASSUME NEW proto \in {"pgp", "cms"}, NEW sig, SigLines(proto, sig) \in Seq(WireLines),
         NEW s \in Seq(WireLines)
  PROVE  Begins(CreateSignAttach(proto, sig, s), SignHead(proto))
<1> DEFINE a == <<SignHead(proto), Blank>>
           b == WriteBoundary("sign")
           c == <<SigHead(proto), Blank>>
           d == SigLines(proto, sig)
           e == <<Blank>>
           f == CloseBoundary("sign")
           h == SignHead(proto)
           g == SigPart(proto, sig)
<1>1. /\ a \in Seq(WireLines) /\ b \in Seq(WireLines) /\ c \in Seq(WireLines)
      /\ d \in Seq(WireLines) /\ e \in Seq(WireLines) /\ f \in Seq(WireLines)
  BY WrapLines
<1>2. a # <<>> /\ a[1] = h
  OBVIOUS
<1>3. g = c \o d
  BY DEF SigPart
<1>4. CreateSignAttach(proto, sig, s) = a \o b \o s \o b \o g \o e \o f
  BY SignIs
<1> HIDE DEF a, b, c, d, e, f, g, h
<1>5. g \in Seq(WireLines)
  BY <1>1, <1>3, ConcatType
<1>6. Begins(a, h)
  BY <1>1, <1>2 DEF Begins
<1>7. Begins(a \o b, h)
  BY <1>1, <1>6, BeginsConcat
<1>8. Begins(a \o b \o s, h)
  BY <1>7, BeginsConcat
<1>9. Begins(a \o b \o s \o b, h)
  BY <1>1, <1>8, BeginsConcat
<1>10. Begins(a \o b \o s \o b \o g, h)
  BY <1>5, <1>9, BeginsConcat
<1>11. Begins(a \o b \o s \o b \o g \o e, h)
  BY <1>1, <1>10, BeginsConcat
<1>12. Begins(a \o b \o s \o b \o g \o e \o f, h)
  BY <1>1, <1>11, BeginsConcat
<1> QED
  BY <1>4, <1>12 DEF h

LEMMA PgpBegins ==
  ASSUME NEW o, WritePlain(o) \in Seq(WireLines), NEW e
  PROVE  Begins(CreateEncryptAttach("pgp", o, e), EncHead)
<1> DEFINE a == <<EncHead>>
           b == WriteBoundary("enc")
           c == TypePart
           d == <<CipherHead, Blank>>
           p == WritePlain(o)
           f == CloseBoundary("enc")
<1>1. /\ a \in Seq(WireLines) /\ b \in Seq(WireLines) /\ c \in Seq(WireLines)
      /\ d \in Seq(WireLines) /\ p \in Seq(WireLines) /\ f \in Seq(WireLines)
  BY WrapLines
<1>2. a # <<>> /\ a[1] = EncHead
  OBVIOUS
<1>4. CreateEncryptAttach("pgp", o, e) = (a \o b \o c \o b \o d) \o p \o f
  BY PgpIs
<1> HIDE DEF a, b, c, d, f, p
<1>6. Begins(a, EncHead)
  BY <1>1, <1>2 DEF Begins
<1>7. Begins(a \o b, EncHead)
  BY <1>1, <1>6, BeginsConcat
<1>8. Begins(a \o b \o c, EncHead)
  BY <1>1, <1>7, BeginsConcat
<1>9. Begins(a \o b \o c \o b, EncHead)
  BY <1>1, <1>8, BeginsConcat
<1>10. Begins(a \o b \o c \o b \o d, EncHead)
  BY <1>1, <1>9, BeginsConcat
<1>11. Begins(a \o b \o c \o b \o d \o p, EncHead)
  BY <1>1, <1>10, BeginsConcat
<1>12. Begins(a \o b \o c \o b \o d \o p \o f, EncHead)
  BY <1>1, <1>11, BeginsConcat
<1> QED
  BY <1>4, <1>12

-----------------------------------------------------------------------------
(* A signed structure is read: the way to the part that was signed.        *)

\* Nothing was found yet
Early(r, hash, proto) ==
  /\ r.hash = hash /\ r.proto = proto /\ r.crypto = FALSE /\ r.csig = 0 /\ r.sig = <<>>
  /\ r.isEnc = FALSE /\ r.everything = FALSE /\ r.data = <<>> /\ r.open = FALSE
  /\ r.cbody = 0 /\ r.chtml = 0 /\ r.att = 0 /\ r.bodySeen = FALSE
Touched == { "inBody", "preamble", "path", "bnd", "nest", "inData", "qp", "b64", "inPh", "struct" }

Fresh(r) == /\ Frame(r, AllHeads, <<>>) /\ Early(r, 0, "none") /\ r.inBody = FALSE
            /\ r.inData = FALSE

LEMMA EarlySame ==
  ASSUME NEW r, NEW q, NEW hash, NEW proto, Early(r, hash, proto), Same(q, r, Touched \cup {"cbody"}),
         q.cbody = 0
  PROVE  Early(q, hash, proto)
BY DEF Early, Same, Touched, Fields

LEMMA FrameNone ==
  ASSUME NEW r, NEW H, IsProvider(r), r.path \in Seq(Elem(H)), Len(r.path) = 1, r.nest = 0,
         r.bnd = "", NEW S, NEW st \in Seq(S), st = <<>>
  PROVE  Frame(r, H, st)
<1>0. Len(st) = 0
  OBVIOUS
<1>5. Len(r.path) = 1
  OBVIOUS
<1>1. Len(r.path) = Len(st) + 1
  BY ONLY <1>0, <1>5
<1>2. 1..Len(st) = {}
  BY ONLY <1>0
<1>3. \A i \in 1..Len(st) : r.path[i].bnd = st[i]
  BY <1>2
<1>4. r.nest = Len(st) /\ r.bnd = Top(st)
  BY <1>0 DEF Top
<1> QED
  BY <1>1, <1>3, <1>4 DEF Frame

LEMMA FreshProvider == Fresh(Provider(FALSE))
<1>1. IsProvider(Provider(FALSE))
  BY ProviderIs
<1>2. NewPart \in Elem(AllHeads)
  BY HeadsAll DEF NewPart, Elem, Bounds
<1>3. Provider(FALSE).path = <<NewPart>> /\ Provider(FALSE).nest = 0 /\ Provider(FALSE).bnd = ""
  BY DEF Provider
<1>4. <<NewPart>> \in Seq(Elem(AllHeads)) /\ Len(<<NewPart>>) = 1 /\ Len(<<>>) = 0
  BY <1>2
<1>5. Frame(Provider(FALSE), AllHeads, <<>>)
  <2> DEFINE r == Provider(FALSE)
  <2>1. IsProvider(r) /\ r.path = <<NewPart>> /\ r.nest = 0 /\ r.bnd = ""
    BY <1>1, <1>3

  <2> HIDE DEF r
  <2>4. Top(<<>>) = ""
    BY DEF Top
  <2>5. r.path \in Seq(Elem(AllHeads)) /\ Len(r.path) = 1
    BY <2>1, <1>4
  <2>3. Frame(r, AllHeads, <<>>)
    <3> DEFINE st == <<>>
    <3>1. st = <<>> /\ st \in Seq(Bounds)
      BY NoneType
    <3> HIDE DEF st
    <3>2. Frame(r, AllHeads, st)
      BY <2>1, <2>5, <3>1, FrameNone
    <3> QED
      BY <3>1, <3>2
  <2> QED
    BY <2>3 DEF r
<1>6. Early(Provider(FALSE), 0, "none") /\ Provider(FALSE).inBody = FALSE
      /\ Provider(FALSE).inData = FALSE
  BY DEF Early, Provider
<1> QED
  BY <1>5, <1>6 DEF Fresh

LEMMA ReadFirst ==
  ASSUME NEW e \in BOOLEAN, NEW ln
  PROVE  /\ ln.k = "hdr" => FirstRead(Provider(e), ln) = Provider(FALSE)
         /\ ln.k # "hdr" => FirstRead(Provider(e), ln) = Provider(e)
<1>1. [Provider(e) EXCEPT !.everything = FALSE] = Provider(FALSE)
  <2> DEFINE p == Provider(e)
             q == Provider(FALSE)
  <2>1. p = [x \in Fields |-> p[x]] /\ q = [x \in Fields |-> q[x]] /\ q.everything = FALSE
    BY DEF Provider, Fields
  <2>2. \A x \in Fields \ {"everything"} : p[x] = q[x]
    <3>1. /\ p.inBody = q.inBody /\ p.preamble = q.preamble /\ p.path = q.path /\ p.bnd = q.bnd
          /\ p.nest = q.nest /\ p.inData = q.inData /\ p.bodySeen = q.bodySeen
          /\ p.cbody = q.cbody /\ p.chtml = q.chtml /\ p.att = q.att /\ p.crypto = q.crypto
          /\ p.csig = q.csig /\ p.isEnc = q.isEnc /\ p.hash = q.hash
          /\ p.hashLevel = q.hashLevel /\ p.checked = q.checked /\ p.qp = q.qp
          /\ p.b64 = q.b64 /\ p.inPh = q.inPh /\ p.proto = q.proto /\ p.struct = q.struct
          /\ p.body = q.body /\ p.html = q.html /\ p.phBuf = q.phBuf
          /\ p.phVersion = q.phVersion /\ p.atts = q.atts /\ p.data = q.data
          /\ p.open = q.open /\ p.sig = q.sig /\ p.failed = q.failed
      BY DEF Provider
    <3> HIDE DEF p, q
    <3> QED
      BY <3>1 DEF Fields
  <2>3. "everything" \in Fields
    BY DEF Fields
  <2> HIDE DEF p, q
  <2>4. [p EXCEPT !.everything = FALSE] = q
    BY <2>1, <2>2, <2>3
  <2> QED
    BY <2>4 DEF p, q
<1> QED
  BY <1>1 DEF FirstRead, ExpectsHeaders

\* Nobody collects the line
LEMMA Unheard ==
  ASSUME NEW r, NEW ln, NEW q, q = Insert(r, ln), q.crypto = FALSE, q.cbody = 0, q.csig = 0,
         q.inData = FALSE \/ (q.chtml = 0 /\ q.att = 0)
  PROVE  TakeLine(r, ln) = q
<1>1. CheckMarker(q, ln) = q
  BY DEF CheckMarker
<1>2. Collect(q, ln) = q
  BY DEF Collect, CollectPart
<1> QED
  BY <1>1, <1>2 DEF TakeLine

LEMMA EarlyHead ==
  ASSUME NEW r, NEW st \in Seq(Bounds), Frame(r, AllHeads, st), NEW hash, hash # 1, NEW proto,
         Early(r, hash, proto), r.inBody = FALSE, r.inData = FALSE, NEW h \in AllHeads, h.k = "hdr"
  PROVE  /\ Frame(TakeLine(r, h), AllHeads, st) /\ Early(TakeLine(r, h), hash, proto)
         /\ TakeLine(r, h).inBody = FALSE /\ TakeLine(r, h).inData = FALSE
         /\ Field(TakeLine(r, h)) = h
<1> DEFINE q == Insert(r, h)
<1>1. Same(q, r, {"path"}) /\ Frame(q, AllHeads, st) /\ Field(q) = h
  <2>1. r.hash # 1
    BY DEF Early
  <2> QED
    BY <2>1, InsertHead
<1> HIDE DEF q
<1>2. Same(q, r, Touched \cup {"cbody"}) /\ q.cbody = r.cbody /\ q.inBody = FALSE /\ q.inData = FALSE
  <2>1. {"path"} \subseteq Touched \cup {"cbody"}
    BY DEF Touched
  <2>2. Same(q, r, Touched \cup {"cbody"})
    BY <1>1, <2>1, SameMore
  <2> QED
    BY <1>1, <2>2 DEF Same, Fields
<1>3. Early(q, hash, proto)
  <2>1. q.cbody = 0
    BY <1>2 DEF Early
  <2> QED
    BY <1>2, <2>1, EarlySame
<1>4. TakeLine(r, h) = q
  BY <1>2, <1>3, Unheard DEF q, Early
<1> QED
  BY <1>1, <1>2, <1>3, <1>4

LEMMA SignHeadIs ==
  ASSUME NEW proto \in {"pgp", "cms"}
  PROVE  LET h == SignHead(proto)
         IN /\ h \in AllHeads /\ h.k = "hdr" /\ h.main = "multipart" /\ h.sub = "signed"
            /\ h.bnd = "sign" /\ h.enc = "7bit" /\ h.ph = 0
            /\ h.proto = IF proto = "pgp" THEN "application/pgp-signature"
                                          ELSE "application/pkcs7-signature"
<1>1. SignHead(proto) \in AllHeads
  BY DEF AllHeads, WrapHeads
<1> QED
  BY <1>1 DEF SignHead, SigningHeader, Header

\* The multipart header of a signed structure
LEMMA SignedT2 ==
  ASSUME NEW proto \in {"pgp", "cms"}, NEW r, IsProvider(r), Early(r, 0, "none"),
         Field(r) = SignHead(proto), r.nest = 0, NEW u, u = [r EXCEPT !.inBody = TRUE]
  PROVE  LET t == T2Body(u)
         IN /\ Same(t, r, {"inBody", "inData", "qp", "b64", "inPh", "struct", "hash", "proto"})
            /\ t.hash = 1 /\ t.proto = proto /\ t.inBody = TRUE
<1> DEFINE h == SignHead(proto)
           a == [Encodings(u) EXCEPT !.struct = Append(@, MediaType(h))]
           b == [a EXCEPT !.hash = 1, !.proto = proto]
           c == [b EXCEPT !.inData = TRUE, !.inPh = FALSE]
<1>1. Same(u, r, {"inBody"}) /\ u.inBody = TRUE
  BY DEF Same, IsProvider, Fields
<1>2. Field(u) = h
  BY <1>1, FieldSame
<1>3. Same(a, u, {"qp", "b64", "struct"})
  <2> HIDE DEF h
  <2> QED
    BY <1>1 DEF Encodings, Same, IsProvider, Fields
<1>4. a.sig = <<>> /\ a.crypto = FALSE /\ a.nest = 0 /\ IsProvider(a)
  <2> HIDE DEF a
  <2> QED
    BY <1>1, <1>3 DEF Same, Fields, Early
<1>5. ByType(a, h) = b
  <2> HIDE DEF a
  <2>3. h.main = "multipart"
    BY SignHeadIs
  <2>1. ByType(a, h) = Multipart(a, h)
    <3> HIDE DEF h
    <3> QED
      BY <2>3 DEF ByType, MediaType, IsSignaturePart, IsCipherPart
  <2>2. Multipart(a, h) = b
    BY <1>4, SignHeadIs DEF Multipart
  <2> QED
    BY <2>1, <2>2
<1>6. (MediaType(h)[1] = "text" /\ h.ph # 0) = FALSE /\ MediaType(h)[1] = "multipart"
  BY SignHeadIs DEF MediaType
<1>7. T2Body(u) = StartsBody(c)
  <2> HIDE DEF h, b
  <2> QED
    BY <1>2, <1>5, <1>6 DEF T2Body
<1>8. Same(b, a, {"hash", "proto"}) /\ b.hash = 1 /\ b.proto = proto
  <2> HIDE DEF a
  <2> QED
    BY <1>4 DEF Same, IsProvider, Fields
<1>9. Same(c, b, {"inData", "inPh"})
  <2> HIDE DEF b
  <2> QED
    BY <1>8 DEF Same, IsProvider, Fields
<1> HIDE DEF h, a, b, c
<1>10. Same(c, r, {"inBody", "inData", "qp", "b64", "inPh", "struct", "hash", "proto"})
       /\ c.hash = 1 /\ c.proto = proto /\ c.inBody = TRUE /\ c.nest = 0 /\ c.crypto = FALSE
  <2>1. Same(a, r, {"inBody"} \cup {"qp", "b64", "struct"})
    BY <1>1, <1>3, SameTrans
  <2>2. Same(c, a, {"hash", "proto"} \cup {"inData", "inPh"})
    BY <1>8, <1>9, SameTrans
  <2>3. Same(c, r, ({"inBody"} \cup {"qp", "b64", "struct"})
                      \cup ({"hash", "proto"} \cup {"inData", "inPh"}))
    BY <2>1, <2>2, SameTrans
  <2>4. Same(c, r, {"inBody", "inData", "qp", "b64", "inPh", "struct", "hash", "proto"})
    BY <2>3, SameMore
  <2>5. c.hash = 1 /\ c.proto = proto
    BY <1>8, <1>9 DEF Same, Fields
  <2>6. c.inBody = TRUE
    BY <1>1, <1>3, <2>2 DEF Same, Fields
  <2>7. c.nest = 0 /\ c.crypto = FALSE
    BY <1>4, <2>2 DEF Same, Fields
  <2> QED
    BY <2>4, <2>5, <2>6, <2>7
<1>11. Field(c) = h
  <2>1. c.path = r.path
    BY <1>10 DEF Same, Fields
  <2> QED
    BY <2>1 DEF Field, Current, h
<1>12. StartsBody(c) = c
  BY <1>6, <1>10, <1>11 DEF StartsBody
<1> QED
  BY <1>7, <1>10, <1>12

LEMMA SignedBlank ==
  ASSUME NEW proto \in {"pgp", "cms"}, NEW r, Frame(r, AllHeads, <<>>), Early(r, 0, "none"),
         r.inBody = FALSE, Field(r) = SignHead(proto)
  PROVE  LET q == TakeLine(r, Blank)
         IN /\ Frame(q, AllHeads, <<"sign">>) /\ Early(q, 1, proto) /\ q.inBody = TRUE
            /\ q.preamble = TRUE /\ Field(q) = NoHeader
<1> DEFINE u == [r EXCEPT !.inBody = TRUE]
           t == T2Body(u)
           q == Insert(r, Blank)
           F == {"inBody", "inData", "qp", "b64", "inPh", "struct", "hash", "proto"}
           st == <<>>
<1>0. /\ IsProvider(r) /\ r.nest = 0 /\ r.hash # 1 /\ NoHeader \in AllHeads
      /\ st \in Seq(Bounds) /\ Frame(r, AllHeads, st) /\ st = <<>>
  BY HeadsAll, NoneType DEF Frame, Early
<1>1. Same(t, r, F) /\ t.hash = 1 /\ t.proto = proto /\ t.inBody = TRUE
  BY <1>0, SignedT2
<1>2. Field(r).main = "multipart" /\ Field(r).bnd = "sign" /\ IsBound(Field(r).bnd)
  BY SignHeadIs DEF IsBound, Bounds
<1>3. "path" \notin F /\ "nest" \notin F /\ "bnd" \notin F
  OBVIOUS
<1>4. t = T2Body([r EXCEPT !.inBody = TRUE])
  OBVIOUS
<1> HIDE DEF t, u, F, q, st
<1>5. /\ Same(q, t, {"path", "bnd", "nest", "preamble"})
      /\ Frame(q, AllHeads, Append(st, Field(r).bnd))
      /\ Field(q) = NoHeader /\ q.preamble = TRUE
  BY <1>0, <1>1, <1>2, <1>3, <1>4, InsertBlank DEF q
<1>6. Append(st, Field(r).bnd) = <<"sign">>
  BY <1>0, <1>2
<1>7. Same(q, r, F \cup {"path", "bnd", "nest", "preamble"})
  BY <1>1, <1>5, SameTrans
<1>8. q.hash = 1 /\ q.proto = proto /\ q.inBody = TRUE
  BY <1>1, <1>5 DEF Same, Fields
<1>9. Early(q, 1, proto)
  BY <1>7, <1>8 DEF Same, Fields, F, Early
<1>10. TakeLine(r, Blank) = q
  BY <1>9, Unheard DEF Early, q
<1> QED
  BY <1>5, <1>6, <1>8, <1>9, <1>10

LEMMA EarlyCalm ==
  ASSUME NEW r, NEW hash, NEW proto, Early(r, hash, proto), r.inBody = TRUE, NEW ln,
         ln.k = "data", ~(ln.p = <<"dash">> /\ ln.e = "7bit")
  PROVE  TakeLine(r, ln) = r
<1>1. Insert(r, ln) = r
  BY InsertCalm
<1> QED
  BY <1>1, Unheard DEF Early

\* The first part begins, and nobody knows yet whether it has headers
Awaiting(r, proto) ==
  /\ Frame(r, AllHeads, <<"sign">>) /\ Early(r, 1, proto) /\ r.inBody = FALSE
  /\ Field(r) = NoHeader

LEMMA SignedMark ==
  ASSUME NEW proto \in {"pgp", "cms"}, NEW r, Frame(r, AllHeads, <<"sign">>), Early(r, 1, proto),
         r.inBody = TRUE, r.preamble = TRUE, Field(r) = NoHeader
  PROVE  Awaiting(TakeLine(r, Boundary("sign")), proto)
<1> DEFINE st == <<"sign">>
           q  == Insert(r, Boundary(Top(st)))
<1>1. Top(st) = "sign" /\ st \in Seq(Bounds) /\ IsBound(Top(st)) /\ NoHeader \in AllHeads
  BY SignStack, HeadsAll DEF Top, IsBound, Bounds
<1>2. NotAtEnd(r)
  BY DEF NotAtEnd, Early
<1> HIDE DEF st
<1>3. /\ Same(q, r, {"path", "inData", "cbody", "inBody", "preamble"})
      /\ Frame(q, AllHeads, st) /\ q.inBody = FALSE /\ q.inData = FALSE /\ q.cbody = 0
      /\ q.path = r.path
  BY <1>1, <1>2, InsertMark DEF st
<1> HIDE DEF q
<1>4. Same(q, r, Touched \cup {"cbody"})
  BY <1>3, SameMore DEF Touched
<1>5. Early(q, 1, proto)
  BY <1>3, <1>4, EarlySame
<1>6. TakeLine(r, Boundary("sign")) = q
  BY <1>1, <1>3, <1>5, Unheard DEF Early, q
<1>7. Field(q) = NoHeader
  BY <1>3 DEF Field, Current
<1> QED
  BY <1>3, <1>5, <1>6, <1>7 DEF Awaiting, st

SignStart(proto) == <<SignHead(proto), Blank>> \o WriteBoundary("sign")

LEMMA FeedTwo ==
  ASSUME NEW S, NEW x \in S, NEW y \in S, NEW r
  PROVE  Feed(r, <<x, y>>) = TakeLine(TakeLine(r, x), y)
<1> DEFINE a == <<x>>
<1>1. <<x, y>> = Append(a, y) /\ a \in Seq(S)
  BY Short1, Short2
<1>3. Feed(r, a) = TakeLine(r, x)
  BY FeedOne
<1> HIDE DEF a
<1>2. Feed(r, Append(a, y)) = TakeLine(Feed(r, a), y)
  BY <1>1, FeedAppend
<1> QED
  BY <1>1, <1>2, <1>3

LEMMA BlankIs == Blank.k = "data" /\ Blank.p = <<>> /\ Blank.e = "7bit" /\ Blank.soft = FALSE
                 /\ ~(Blank.p = <<"dash">> /\ Blank.e = "7bit") /\ IsBlank(Blank)
BY DEF Blank, Data, IsBlank

LEMMA SignedStarts ==
  ASSUME NEW proto \in {"pgp", "cms"}
  PROVE  Awaiting(Feed(Provider(FALSE), SignStart(proto)), proto)
<1> DEFINE p == Provider(FALSE)
           h == SignHead(proto)
           a == TakeLine(p, h)
           b == TakeLine(a, Blank)
           c == TakeLine(b, Blank)
           d == TakeLine(c, Boundary("sign"))
           L == WireLines
<1>0. h \in L /\ Blank \in L /\ Boundary("sign") \in L /\ h \in AllHeads /\ h.k = "hdr"
  BY SignHeadIs, WireKinds DEF Bounds
<1>1. Feed(p, SignStart(proto)) = d
  <2>1. <<h, Blank>> \in Seq(L) /\ <<Blank, Boundary("sign")>> \in Seq(L)
    BY <1>0, TwoType
  <2> DEFINE u == <<h, Blank>>
             v == <<Blank, Boundary("sign")>>
  <2>2. SignStart(proto) = u \o v
    BY DEF SignStart, WriteBoundary
  <2> HIDE DEF L, h, p
  <2>3. Feed(p, u) = b
    BY <1>0, FeedTwo
  <2>4. Feed(b, v) = d
    <3> HIDE DEF b
    <3> QED
      BY <1>0, FeedTwo
  <2> HIDE DEF u, v, b, d
  <2>5. u \in Seq(L) /\ v \in Seq(L)
    BY <2>1 DEF u, v
  <2>6. Feed(p, u \o v) = Feed(Feed(p, u), v)
    BY <2>5, FeedConcat
  <2> QED
    BY <2>2, <2>3, <2>4, <2>6
<1>2. Frame(p, AllHeads, <<>>) /\ Early(p, 0, "none") /\ p.inBody = FALSE /\ p.inData = FALSE
  BY FreshProvider DEF Fresh
<1>3. Frame(a, AllHeads, <<>>) /\ Early(a, 0, "none") /\ a.inBody = FALSE /\ Field(a) = h
  <2> DEFINE st == <<>>
             z  == 0
             no == "none"
  <2>1. st \in Seq(Bounds) /\ Frame(p, AllHeads, st) /\ z # 1 /\ Early(p, z, no)
        /\ p.inBody = FALSE /\ p.inData = FALSE
    <3> HIDE DEF p
    <3>1. st \in Seq(Bounds) /\ z # 1
      BY NoneType
    <3> QED
      BY <1>2, <3>1
  <2> HIDE DEF p, h, st, z, no
  <2>2. Frame(a, AllHeads, st) /\ Early(a, z, no) /\ a.inBody = FALSE /\ Field(a) = h
    BY <2>1, <1>0, EarlyHead
  <2> QED
    BY <2>2 DEF st, z, no
<1> HIDE DEF a, p
<1>4. /\ Frame(b, AllHeads, <<"sign">>) /\ Early(b, 1, proto) /\ b.inBody = TRUE
      /\ b.preamble = TRUE /\ Field(b) = NoHeader
  BY <1>3, SignedBlank
<1> HIDE DEF b
<1>5. c = b
  BY <1>4, BlankIs, EarlyCalm
<1> HIDE DEF c
<1>6. Awaiting(d, proto)
  BY <1>4, <1>5, SignedMark
<1> QED
  BY <1>1, <1>6 DEF p

LEMMA TwoChanges ==
  ASSUME NEW r, NEW n
  PROVE  [[r EXCEPT !.inBody = TRUE] EXCEPT !.hash = 2, !.hashLevel = n, !.crypto = TRUE]
           = [[r EXCEPT !.hash = 2, !.hashLevel = n, !.crypto = TRUE] EXCEPT !.inBody = TRUE]
OBVIOUS

\* The part a multipart header opens
Nested(r1) ==
  LET h == Field(r1)
      n == Len(r1.path)
  IN IF h.main = "multipart" /\ h.bnd # ""
     THEN [r1 EXCEPT !.path = Append([@ EXCEPT ![n].bnd = h.bnd], NewPart),
                     !.bnd = h.bnd, !.nest = @ + 1, !.preamble = TRUE]
     ELSE r1

\* Where the hashing begins, with the first line
LEMMA StartSame ==
  ASSUME NEW proto, NEW r, Awaiting(r, proto), NEW x, x.k = "hdr" \/ x = Blank
  PROVE  TakeLine(r, x) = TakeLine(StartHashing(r), x)
<1> DEFINE s == StartHashing(r)
<1>1. s = [r EXCEPT !.hash = 2, !.hashLevel = r.nest, !.crypto = TRUE]
  BY DEF StartHashing, Awaiting, Early
<1>2. s.hash = 2 /\ s.path = r.path /\ s.inBody = FALSE /\ r.inBody = FALSE /\ IsProvider(r)
      /\ r.hash = 1 /\ IsProvider(s)
  BY <1>1 DEF Awaiting, Frame, Early, IsProvider, Fields
<1>3. Field(s) = NoHeader /\ Field(r) = NoHeader
  BY <1>2 DEF Field, Current, Awaiting
<1>4. StartHashing(s) = s
  <2> HIDE DEF s
  <2> QED
    BY <1>2 DEF StartHashing
<1>5. Insert(r, x) = Insert(s, x)
  <2>1. CASE x.k = "hdr"
    <3>1. ~IsBlank(x)
      BY <2>1 DEF IsBlank
    <3>2. Insert(r, x) = [s EXCEPT !.path[Len(s.path)].h = x]
      <4>1. (IF Field(r) = NoHeader THEN StartHashing(r) ELSE r) = s
        BY <1>3
      <4> HIDE DEF s
      <4> QED
        BY <1>2, <2>1, <3>1, <4>1 DEF Insert, InsertHeader
    <3>3. Insert(s, x) = [s EXCEPT !.path[Len(s.path)].h = x]
      <4>1. (IF Field(s) = NoHeader THEN StartHashing(s) ELSE s) = s
        BY <1>4
      <4> HIDE DEF s
      <4> QED
        BY <1>2, <2>1, <3>1, <4>1 DEF Insert, InsertHeader
    <3> QED
      BY <3>2, <3>3
  <2>2. CASE x = Blank
    <3> DEFINE a == [r EXCEPT !.inBody = TRUE]
               b == [s EXCEPT !.inBody = TRUE]
    <3>1. StartHashing(a) = b
      <4>1. a.hash = 1 /\ a.nest = r.nest /\ b.hash = 2
        BY <1>2 DEF IsProvider, Fields
      <4>2. StartHashing(a) = [a EXCEPT !.hash = 2, !.hashLevel = r.nest, !.crypto = TRUE]
        <5> HIDE DEF a
        <5> QED
          BY <4>1 DEF StartHashing
      <4>3. b = [[r EXCEPT !.hash = 2, !.hashLevel = r.nest, !.crypto = TRUE] EXCEPT !.inBody = TRUE]
        BY <1>1
      <4> QED
        BY <4>2, <4>3, TwoChanges
    <3>2. StartHashing(b) = b
      <4>1. b.hash = 2
        <5> HIDE DEF s
        <5> QED
          BY <1>2 DEF IsProvider, Fields
      <4> HIDE DEF b
      <4> QED
        BY <4>1 DEF StartHashing
    <3>3. TransitionToBody(r) = TransitionToBody(s)
      <4>1. StartHashing(a) = StartHashing(b)
        BY <3>1, <3>2
      <4>2. TransitionToBody(r) = Nested(T2Body(StartHashing(a)))
        BY DEF TransitionToBody, Nested
      <4>3. TransitionToBody(s) = Nested(T2Body(StartHashing(b)))
        BY DEF TransitionToBody, Nested
      <4> HIDE DEF a, b, s
      <4> QED
        BY ONLY <4>1, <4>2, <4>3
    <3>4. Insert(r, x) = TransitionToBody(r) /\ Insert(s, x) = TransitionToBody(s)
      <4> HIDE DEF s
      <4> QED
        BY <1>2, <2>2, BlankIs DEF Insert, InsertHeader
    <3> QED
      BY <3>3, <3>4
  <2> QED
    BY <2>1, <2>2
<1> HIDE DEF s
<1>6. TakeLine(r, x) = TakeLine(s, x)
  BY <1>5 DEF TakeLine
<1> QED
  BY <1>6 DEF s

LEMMA StartFeed ==
  ASSUME NEW proto, NEW r, Awaiting(r, proto), NEW S, NEW s \in Seq(S), s # <<>>,
         s[1].k = "hdr" \/ s[1] = Blank
  PROVE  Feed(r, s) = Feed(StartHashing(r), s)
<1> DEFINE q == StartHashing(r)
           x == s[1]
           t == SubSeq(s, 1 + 1, Len(s))
<1>1. SubSeq(s, 1, 1) \o t = s /\ t \in Seq(S) /\ SubSeq(s, 1, 1) = <<x>> /\ x \in S
  <2>1. 1 \in 0..Len(s) /\ Len(s) \in 1..Len(s)
    OBVIOUS
  <2>2. SubSeq(s, 1, 1) \o t = SubSeq(s, 1, Len(s)) /\ t \in Seq(S)
    BY <2>1, PrefixJoin, Between
  <2> HIDE DEF t
  <2>3. SubSeq(s, 1, Len(s)) = s
    OBVIOUS
  <2>4. SubSeq(s, 1, 1) = <<s[1]>>
    <3> DEFINE v == SubSeq(s, 1, 1)
               e == <<>>
               y == s[1]
    <3>1. v \in Seq(S) /\ Len(v) = 1 /\ \A i \in 1..1 : v[i] = s[i]
      BY <2>1, Prefix
    <3>2. y \in S /\ v[1] = y
      BY <3>1
    <3>3. e \in Seq(S) /\ Len(e) = 0 /\ Append(e, y) = <<y>>
      BY <3>2, Short1, NoneType
    <3> HIDE DEF v, e, y
    <3>4. Len(v) = Len(e) + 1 /\ v[Len(v)] = y /\ \A i \in 1..Len(e) : v[i] = e[i]
      BY <3>1, <3>2, <3>3
    <3>5. Append(e, y) = v
      BY <3>1, <3>2, <3>3, <3>4, AppendIs
    <3> QED
      BY <3>3, <3>5 DEF v, y
  <2>5. s[1] \in S
    OBVIOUS
  <2> QED
    BY <2>2, <2>3, <2>4, <2>5
<1> DEFINE u == <<x>>
<1>2. u \in Seq(S) /\ s = u \o t
  BY <1>1
<1>3. TakeLine(r, x) = TakeLine(q, x)
  BY StartSame
<1> HIDE DEF t, x, q
<1>5. Feed(r, u) = Feed(q, u)
  BY <1>3, FeedOne
<1> HIDE DEF u
<1>7. t \in Seq(S)
  BY <1>1
<1>4. Feed(r, u \o t) = Feed(Feed(r, u), t) /\ Feed(q, u \o t) = Feed(Feed(q, u), t)
  BY <1>7, <1>2, FeedConcat
<1>6. Feed(r, s) = Feed(q, s)
  BY <1>2, <1>4, <1>5
<1> QED
  BY <1>6 DEF q

LEMMA AwaitingHashes ==
  ASSUME NEW proto, NEW r, Awaiting(r, proto)
  PROVE  LET q == StartHashing(r)
         IN Hashing(q, AllHeads, <<"sign">>, <<>>, proto, FALSE) /\ Field(q) = NoHeader
<1> DEFINE q == StartHashing(r)
<1>1. q = [r EXCEPT !.hash = 2, !.hashLevel = r.nest, !.crypto = TRUE]
  BY DEF StartHashing, Awaiting, Early
<1>2. IsProvider(r) /\ r.nest = 1
  BY SignStack DEF Awaiting, Frame
<1>3. Same(q, r, {"hash", "hashLevel", "crypto"}) /\ q.hash = 2 /\ q.hashLevel = 1 /\ q.crypto = TRUE
  BY <1>1, <1>2 DEF Same, IsProvider, Fields
<1> HIDE DEF q
<1>4. Frame(q, AllHeads, <<"sign">>)
  BY <1>3, FrameSame DEF Awaiting
<1>5. HashState(q, <<>>, proto) /\ q.inBody = FALSE
  BY <1>3 DEF Same, Fields, HashState, Awaiting, Early
<1>6. Field(q) = NoHeader
  BY <1>3, FieldSame DEF Awaiting
<1> QED
  BY <1>4, <1>5, <1>6 DEF Hashing, q

-----------------------------------------------------------------------------
(* The signature, after the signed data.                                   *)

\* The signed data are t and nothing is added to them
Past(r, t, proto) ==
  /\ Frame(r, AllHeads, <<"sign">>)
  /\ r.hash = 3 /\ r.crypto = FALSE /\ r.proto = proto /\ r.everything = FALSE
  /\ r.data = t /\ r.open = TRUE /\ r.cbody = 0
Later == { "path", "inBody", "preamble", "inData", "qp", "b64", "struct", "inPh", "csig", "atts",
           "att", "cbody", "chtml", "sig" }
Heard(r, csig, on) == r.csig = csig /\ r.inBody = on /\ r.inData = on

LEMMA PastSame ==
  ASSUME NEW r, NEW q, NEW t, NEW proto, Past(r, t, proto), Same(q, r, Later), q.cbody = 0,
         Frame(q, AllHeads, <<"sign">>)
  PROVE  Past(q, t, proto)
BY DEF Past, Same, Later, Fields

LEMMA SigHeadIs ==
  ASSUME NEW proto \in {"pgp", "cms"}
  PROVE  LET h == SigHead(proto)
         IN /\ h \in AllHeads /\ h.k = "hdr" /\ h.main = "application" /\ h.ph = 0
            /\ h.sub = IF proto = "pgp" THEN "pgp-signature" ELSE "pkcs7-signature"
BY DEF SigHead, Header, AllHeads, WrapHeads

LEMMA EndMark ==
  ASSUME NEW proto, NEW t, t # <<>>, NEW r, Hashing(r, AllHeads, <<"sign">>, t, proto, TRUE)
  PROVE  LET q == TakeLine(r, Boundary("sign"))
         IN Past(q, t, proto) /\ Heard(q, 0, FALSE) /\ q.sig = <<>>
<1> DEFINE st == <<"sign">>
           q  == Insert(r, Boundary(Top(st)))
<1>1. Top(st) = "sign" /\ st \in Seq(Bounds) /\ IsBound(Top(st)) /\ NoHeader \in AllHeads /\ Len(st) = 1
  BY SignStack, HeadsAll DEF Top, IsBound, Bounds
<1>2. /\ Frame(r, AllHeads, st) /\ r.inBody = TRUE /\ r.hash = 2 /\ r.hashLevel = 1
      /\ r.csig = 0 /\ r.sig = <<>> /\ r.everything = FALSE /\ r.proto = proto /\ r.data = t
      /\ r.open = TRUE
  BY DEF Hashing, HashState
<1> HIDE DEF st
<1>3. r.hashLevel = r.nest
  BY <1>1, <1>2 DEF Frame
<1>4. /\ Same(q, r, {"path", "inData", "cbody", "inBody", "preamble", "hash", "crypto"})
      /\ Frame(q, AllHeads, st) /\ q.inBody = FALSE /\ q.inData = FALSE /\ q.cbody = 0
      /\ q.hash = 3 /\ q.crypto = FALSE
  BY <1>1, <1>2, <1>3, InsertEnd
<1>5. q = Insert(r, Boundary("sign"))
  BY <1>1
<1> HIDE DEF q
<1>6. /\ q.csig = 0 /\ q.sig = <<>> /\ q.everything = FALSE /\ q.proto = proto /\ q.data = t
      /\ q.open = TRUE
  BY <1>2, <1>4 DEF Same, Fields
<1>7. TakeLine(r, Boundary("sign")) = q
  BY <1>4, <1>5, <1>6, Unheard
<1> QED
  BY <1>4, <1>6, <1>7 DEF Past, Heard, st

LEMMA EndHead ==
  ASSUME NEW proto \in {"pgp", "cms"}, NEW t, NEW r, Past(r, t, proto), Heard(r, 0, FALSE),
         r.sig = <<>>
  PROVE  LET q == TakeLine(r, SigHead(proto))
         IN /\ Past(q, t, proto) /\ Heard(q, 0, FALSE) /\ q.sig = <<>>
            /\ Field(q) = SigHead(proto)
<1> DEFINE st == <<"sign">>
           h  == SigHead(proto)
           q  == Insert(r, h)
<1>1. st \in Seq(Bounds) /\ h \in AllHeads /\ h.k = "hdr"
  BY SignStack, SigHeadIs
<1>2. Frame(r, AllHeads, st) /\ r.inBody = FALSE /\ r.hash # 1 /\ r.cbody = 0
  BY DEF Past, Heard
<1> HIDE DEF st, h
<1>3. Same(q, r, {"path"}) /\ Frame(q, AllHeads, st) /\ Field(q) = h
  BY <1>1, <1>2, InsertHead
<1>5. q = Insert(r, h)
  OBVIOUS
<1> HIDE DEF q
<1>4. q.cbody = 0 /\ q.csig = 0 /\ q.inData = FALSE /\ q.inBody = FALSE /\ q.sig = <<>>
  BY <1>2, <1>3 DEF Same, Fields, Heard
<1>6. Same(q, r, Later)
  BY <1>3, SameMore DEF Later
<1>7. Past(q, t, proto)
  BY <1>3, <1>4, <1>6, PastSame DEF st
<1>8. q.crypto = FALSE
  BY <1>7 DEF Past
<1>9. TakeLine(r, h) = q
  BY <1>4, <1>5, <1>8, Unheard
<1> QED
  BY <1>3, <1>4, <1>7, <1>9 DEF Heard, h

\* The signature part is an attachment too
SigFields == {"inBody", "inData", "qp", "b64", "inPh", "struct", "csig", "atts", "att", "cbody", "chtml"}
LEMMA SigT2 ==
  ASSUME NEW proto \in {"pgp", "cms"}, NEW r, IsProvider(r), r.sig = <<>>, r.crypto = FALSE,
         r.proto = proto, r.nest = 1, Field(r) = SigHead(proto),
         NEW u, u = [r EXCEPT !.inBody = TRUE]
  PROVE  LET t == T2Body(u)
         IN /\ Same(t, r, SigFields)
            /\ t.csig = 1 /\ t.inBody = TRUE /\ t.inData = TRUE /\ t.cbody = 0
<1> DEFINE h == SigHead(proto)
           a == [Encodings(u) EXCEPT !.struct = Append(@, MediaType(h))]
           b == [a EXCEPT !.csig = 1]
           c == [b EXCEPT !.inData = TRUE, !.inPh = FALSE]
           d == CreateAttachment(c)
<1>1. Same(u, r, {"inBody"}) /\ u.inBody = TRUE
  BY DEF Same, IsProvider, Fields
<1>2. Field(u) = h
  BY <1>1, FieldSame
<1>3. Same(a, u, {"qp", "b64", "struct"})
  <2> HIDE DEF h
  <2> QED
    BY <1>1 DEF Encodings, Same, IsProvider, Fields
<1>4. a.sig = <<>> /\ a.crypto = FALSE /\ a.nest = 1 /\ a.proto = proto /\ a.inBody = TRUE /\ IsProvider(a)
  <2> HIDE DEF a
  <2> QED
    BY <1>1, <1>3 DEF Same, Fields
<1>5. ByType(a, h) = b
  <2> HIDE DEF a
  <2>1. h.main = "application" /\ h.sub = IF proto = "pgp" THEN "pgp-signature" ELSE "pkcs7-signature"
    BY SigHeadIs
  <2>2. IsSignaturePart(a, h)
    <3> HIDE DEF h
    <3> QED
      BY <1>4, <2>1 DEF IsSignaturePart
  <2>3. h.main # "" /\ h.main # "multipart" /\ MediaType(h)[1] # "text"
    <3> HIDE DEF h
    <3> QED
      BY <2>1 DEF MediaType
  <2>4. ~IsCipherPart(a, h)
    <3> HIDE DEF h
    <3> QED
      BY <1>4, <2>1 DEF IsCipherPart
  <2> HIDE DEF h
  <2> QED
    BY <2>2, <2>3, <2>4 DEF ByType
<1>6. MediaType(h)[1] # "text" /\ (MediaType(h)[1] = "text" /\ h.ph # 0) = FALSE
  BY SigHeadIs DEF MediaType
<1>7. T2Body(u) = StartsBody(c)
  <2> HIDE DEF h, b
  <2> QED
    BY <1>2, <1>5, <1>6 DEF T2Body
<1>8. Same(b, a, {"csig"}) /\ b.csig = 1
  <2> HIDE DEF a
  <2> QED
    BY <1>4 DEF Same, IsProvider, Fields
<1>9. Same(c, b, {"inData", "inPh"}) /\ c.inData = TRUE
  <2> HIDE DEF b
  <2> QED
    BY <1>8 DEF Same, IsProvider, Fields
<1> HIDE DEF h, a, b, c
<1>10. Same(c, r, {"inBody", "inData", "qp", "b64", "inPh", "struct", "csig"})
       /\ c.csig = 1 /\ c.inData = TRUE /\ c.inBody = TRUE /\ c.nest = 1 /\ c.crypto = FALSE
       /\ IsProvider(c)
  <2>1. Same(a, r, {"inBody"} \cup {"qp", "b64", "struct"})
    BY <1>1, <1>3, SameTrans
  <2>2. Same(c, a, {"csig"} \cup {"inData", "inPh"})
    BY <1>8, <1>9, SameTrans
  <2>3. Same(c, r, ({"inBody"} \cup {"qp", "b64", "struct"})
                      \cup ({"csig"} \cup {"inData", "inPh"}))
    BY <2>1, <2>2, SameTrans
  <2>4. Same(c, r, {"inBody", "inData", "qp", "b64", "inPh", "struct", "csig"})
    BY <2>3, SameMore
  <2>5. c.csig = 1 /\ c.inData = TRUE
    BY <1>8, <1>9 DEF Same, Fields
  <2>6. c.inBody = TRUE /\ c.nest = 1 /\ c.crypto = FALSE /\ IsProvider(c)
    BY <1>4, <2>2 DEF Same, Fields
  <2> QED
    BY <2>4, <2>5, <2>6
<1>11. Field(c) = h
  <2>1. c.path = r.path
    BY <1>10 DEF Same, Fields
  <2> QED
    BY <2>1 DEF Field, Current, h
<1>12. StartsBody(c) = d
  BY <1>6, <1>10, <1>11 DEF StartsBody
<1>13. Same(d, c, {"atts", "att", "cbody", "chtml"}) /\ d.cbody = 0
  BY <1>10 DEF CreateAttachment, Same, IsProvider, Fields
<1> HIDE DEF d
<1>14. Same(d, r, {"inBody", "inData", "qp", "b64", "inPh", "struct", "csig"}
                    \cup {"atts", "att", "cbody", "chtml"})
  BY <1>10, <1>13, SameTrans
<1>15. Same(d, r, SigFields)
  BY <1>14, SameMore DEF SigFields
<1>16. d.csig = 1 /\ d.inData = TRUE /\ d.inBody = TRUE
  BY <1>10, <1>13 DEF Same, Fields
<1> QED
  BY <1>7, <1>12, <1>13, <1>15, <1>16

LEMMA EndBlank ==
  ASSUME NEW proto \in {"pgp", "cms"}, NEW t, NEW r, Past(r, t, proto), Heard(r, 0, FALSE),
         r.sig = <<>>, Field(r) = SigHead(proto)
  PROVE  LET q == TakeLine(r, Blank)
         IN Past(q, t, proto) /\ Heard(q, 2, TRUE) /\ q.sig = <<>>
<1> DEFINE st == <<"sign">>
           u == [r EXCEPT !.inBody = TRUE]
           b == T2Body(u)
           q == [b EXCEPT !.csig = 2]
<1>1. st \in Seq(Bounds) /\ NoHeader \in AllHeads /\ Len(st) = 1
  BY SignStack, HeadsAll
<1>2. /\ Frame(r, AllHeads, st) /\ r.inBody = FALSE /\ r.hash # 1 /\ IsProvider(r)
      /\ r.crypto = FALSE /\ r.proto = proto
  BY DEF Past, Heard, Frame
<1>3. r.nest = 1
  BY <1>1, <1>2 DEF Frame
<1>4. Same(b, r, SigFields) /\ b.csig = 1 /\ b.inBody = TRUE /\ b.inData = TRUE /\ b.cbody = 0
  BY <1>2, <1>3, SigT2
<1>5. "path" \notin SigFields /\ "nest" \notin SigFields /\ "bnd" \notin SigFields
  BY DEF SigFields
<1>6. Field(r).main # "multipart"
  BY SigHeadIs
<1>7. b = T2Body([r EXCEPT !.inBody = TRUE])
  OBVIOUS
<1> HIDE DEF b, u, st
<1>8. Insert(r, Blank) = b /\ Frame(b, AllHeads, st)
  <2> DEFINE F == SigFields
             H == AllHeads
  <2>1. NoHeader \in H /\ Frame(r, H, st) /\ Same(b, r, F)
        /\ "path" \notin F /\ "nest" \notin F /\ "bnd" \notin F
    BY <1>1, <1>2, <1>4, <1>5
  <2>2. Field(r).main = "multipart" => IsBound(Field(r).bnd)
    BY <1>6
  <2> HIDE DEF F, H
  <2> QED
    BY <1>1, <1>2, <1>6, <1>7, <2>1, <2>2, InsertBlank DEF H
<1>9. CheckMarker(b, Blank) = b
  BY <1>4 DEF CheckMarker
<1>10. b.crypto = FALSE /\ b.sig = <<>>
  BY <1>2, <1>4 DEF Same, Fields, SigFields
<1>11. Collect(b, Blank) = q
  BY <1>4, <1>10 DEF Collect, CollectSignature
<1>12. TakeLine(r, Blank) = q
  BY <1>8, <1>9, <1>11 DEF TakeLine
<1>13. Same(q, b, {"csig"}) /\ q.csig = 2
  BY <1>4 DEF Same, IsProvider, Fields
<1> HIDE DEF q
<1>14. Frame(q, AllHeads, st)
  BY <1>8, <1>13, FrameSame
<1>15. Same(q, r, SigFields \cup {"csig"})
  BY <1>4, <1>13, SameTrans
<1>16. Same(q, r, Later)
  BY <1>15, SameMore DEF SigFields, Later
<1>17. q.cbody = 0 /\ q.inBody = TRUE /\ q.inData = TRUE /\ q.sig = <<>>
  BY <1>4, <1>10, <1>13 DEF Same, Fields
<1>18. Past(q, t, proto)
  BY <1>14, <1>16, <1>17, PastSame DEF st
<1> QED
  BY <1>12, <1>13, <1>17, <1>18 DEF Heard

\* What the signature consists of, apart from the ends of lines
NotNl == Pieces \ {"nl"}
SigSeen(r, k) == r.sig \in Seq(Pieces) /\ Keep(r.sig, NotNl) = k

LEMMA KeepNl == Keep(<<"nl">>, NotNl) = <<>> /\ Keep(<<>>, NotNl) = <<>>
<1> DEFINE S == Pieces
           e == <<>>
           x == "nl"
           P == NotNl
<1>1. x \in S /\ x \notin P /\ e \in Seq(S) /\ Append(e, x) = <<x>>
  BY Short1, NoneType DEF Pieces, NotNl
<1> HIDE DEF S, e, x, P
<1>2. Keep(Append(e, x), P) = Keep(e, P)
  <2>1. x \in S /\ e \in Seq(S)
    BY <1>1
  <2>2. Keep(Append(e, x), P) = IF x \in P THEN Append(Keep(e, P), x) ELSE Keep(e, P)
    BY ONLY <2>1, KeepAppend
  <2>3. x \notin P
    BY <1>1
  <2> QED
    BY ONLY <2>2, <2>3
<1>3. Keep(e, P) = <<>>
  BY KeepNone DEF e
<1> QED
  BY <1>1, <1>2, <1>3 DEF x, e, P

LEMMA SigLine ==
  ASSUME NEW t, NEW proto, NEW r, Past(r, t, proto), Heard(r, 2, TRUE), NEW k, SigSeen(r, k),
         NEW ln \in Calm(Pieces)
  PROVE  LET q == TakeLine(r, ln)
         IN Past(q, t, proto) /\ Heard(q, 2, TRUE) /\ SigSeen(q, k \o Keep(ln.p, NotNl))
<1> DEFINE q == [r EXCEPT !.sig = @ \o Text(r, ln)]
           e == IF r.b64 \/ (r.qp /\ ln.soft) THEN <<>> ELSE <<"nl">>
<1>1. ln.k = "data" /\ ~(ln.p = <<"dash">> /\ ln.e = "7bit") /\ ln.p \in Seq(Pieces)
  BY CalmIs DEF Calm
<1>2. /\ r.inBody = TRUE /\ r.cbody = 0 /\ r.crypto = FALSE /\ r.inData = TRUE /\ r.csig = 2
      /\ IsProvider(r) /\ Frame(r, AllHeads, <<"sign">>)
  BY DEF Past, Heard, Frame
<1>3. Insert(r, ln) = r
  BY <1>1, <1>2, InsertCalm
<1>4. CheckMarker(r, ln) = r
  BY <1>2 DEF CheckMarker
<1>5. TakeLine(r, ln) = q
  <2>1. Collect(r, ln) = q
    <3> HIDE DEF q
    <3>1. Collect(r, ln) = CollectSignature(r, ln)
      BY <1>2 DEF Collect
    <3>2. CollectSignature(r, ln) = [r EXCEPT !.sig = @ \o Text(r, ln)]
      <4>1. r.csig # 1
        BY <1>2
      <4> QED
        BY ONLY <4>1 DEF CollectSignature
    <3> QED
      BY ONLY <3>1, <3>2 DEF q
  <2> HIDE DEF q
  <2> QED
    BY ONLY <1>3, <1>4, <2>1 DEF TakeLine
<1>6. Text(r, ln) = ln.p \o e
  BY <1>1 DEF Text, PiecesOf
<1>7. e \in Seq(Pieces) /\ Keep(e, NotNl) = <<>>
  BY KeepNl, OneType, NoneType DEF Pieces
<1>8. r.sig \in Seq(Pieces) /\ Keep(r.sig, NotNl) = k
  BY DEF SigSeen
<1>9. Same(q, r, {"sig"}) /\ q.sig = r.sig \o (ln.p \o e)
  <2> HIDE DEF e
  <2> QED
    BY <1>2, <1>6 DEF Same, IsProvider, Fields
<1> HIDE DEF q, e
<1>10. ln.p \o e \in Seq(Pieces) /\ q.sig \in Seq(Pieces)
  BY <1>1, <1>7, <1>8, <1>9, ConcatType
<1>11. Keep(ln.p \o e, NotNl) = Keep(ln.p, NotNl)
  <2>1. Keep(ln.p \o e, NotNl) = Keep(ln.p, NotNl) \o Keep(e, NotNl)
    BY <1>1, <1>7, KeepConcat
  <2>2. Keep(ln.p, NotNl) \in Seq(Pieces)
    BY <1>1, KeepType
  <2> QED
    BY <1>7, <2>1, <2>2, ConcatNone
<1>12. Keep(q.sig, NotNl) = k \o Keep(ln.p, NotNl)
  <2> DEFINE y == ln.p \o e
  <2>1. y \in Seq(Pieces)
    BY <1>10
  <2> HIDE DEF y
  <2>2. Keep(r.sig \o y, NotNl) = Keep(r.sig, NotNl) \o Keep(y, NotNl)
    BY <1>8, <2>1, KeepConcat
  <2> QED
    BY <1>8, <1>9, <1>11, <2>2 DEF y
<1>13. Frame(q, AllHeads, <<"sign">>)
  <2> DEFINE st == <<"sign">>
  <2>1. Frame(r, AllHeads, st)
    BY <1>2
  <2> HIDE DEF st
  <2>2. Frame(q, AllHeads, st)
    BY <1>9, <2>1, FrameSame
  <2> QED
    BY <2>2 DEF st
<1>14. Same(q, r, Later) /\ q.cbody = 0 /\ Heard(q, 2, TRUE)
  <2>1. Same(q, r, Later)
    BY <1>9, SameMore DEF Later
  <2> QED
    BY <1>2, <1>9, <2>1 DEF Same, Fields, Heard
<1>15. Past(q, t, proto)
  BY <1>13, <1>14, PastSame
<1> QED
  BY <1>5, <1>10, <1>12, <1>14, <1>15 DEF SigSeen

LEMMA EndLast ==
  ASSUME NEW t, NEW proto, NEW r, Past(r, t, proto), Heard(r, 2, TRUE), NEW k, SigSeen(r, k)
  PROVE  LET q == TakeLine(r, LastBoundary("sign"))
         IN q.data = t /\ q.open = TRUE /\ q.everything = FALSE /\ SigSeen(q, k)
<1> DEFINE b  == "sign"
           e  == <<>>
           q  == Insert(r, LastBoundary(b))
<1>1. IsBound(b) /\ e \in Seq(Bounds) /\ Append(e, b) = <<b>>
  BY Short1, NoneType DEF IsBound, Bounds
<1>2. Frame(r, AllHeads, <<b>>) /\ r.inBody = TRUE /\ r.hash = 3 /\ r.crypto = FALSE /\ r.cbody = 0
  BY DEF Past, Heard
<1>3. NotAtEnd(r)
  BY <1>2 DEF NotAtEnd
<1> HIDE DEF b, e
<1>4. Frame(r, AllHeads, Append(e, b))
  BY <1>1, <1>2
<1>5. Same(q, r, {"path", "inData", "cbody", "bnd", "nest"}) /\ q.inData = FALSE /\ q.cbody = 0
  BY <1>1, <1>2, <1>3, <1>4, InsertLast
<1>6. q = Insert(r, LastBoundary(b))
  OBVIOUS
<1> HIDE DEF q
<1>7. /\ q.crypto = FALSE /\ q.data = t /\ q.open = TRUE /\ q.everything = FALSE /\ q.sig = r.sig
  BY <1>2, <1>5 DEF Same, Fields, Past
<1>8. CheckMarker(q, LastBoundary(b)) = q
  BY <1>5 DEF CheckMarker
<1>9. Collect(q, LastBoundary(b)) = q
  BY <1>5, <1>7 DEF Collect
<1>10. TakeLine(r, LastBoundary(b)) = q
  BY <1>6, <1>8, <1>9 DEF TakeLine
<1> QED
  BY <1>7, <1>10 DEF SigSeen, b

-----------------------------------------------------------------------------
(* What is not signed is not taken for something signed.                   *)

\* The headers a mail has, and those of a part without
TameHeads == Headers \cup {NoHeader, Header("", "")}

\* Nothing was said of a signature
Tame(r) ==
  /\ IsProvider(r) /\ r.csig = 0 /\ r.sig = <<>> /\ r.proto = "none"
  /\ r.path \in Seq(Elem(TameHeads)) /\ Len(r.path) > 0
Wild == Fields \ {"csig", "sig", "proto", "path"}

LEMMA TameHeadsAre ==
  ASSUME NEW h \in TameHeads
  PROVE  h.proto = "" /\ h.bnd \in Bounds
<1>1. \A p \in Parts : PartHeader(p).proto = "" /\ PartHeader(p).bnd = ""
  BY PartOrdinary DEF Ordinary
<1>2. \A x \in MultiHeaders : x.proto = "" /\ x.bnd \in Bounds
  <2> SUFFICES ASSUME NEW x \in MultiHeaders PROVE x.proto = "" /\ x.bnd \in Bounds
    OBVIOUS
  <2>1. PICK s \in {"mixed", "related", "alternative"}, b \in InnerBounds : x = MultiHeader(s, b)
    BY DEF MultiHeaders
  <2>2. Ordinary(x) /\ x.bnd = b /\ b \in Bounds
    <3>1. /\ Ordinary(MultiHeader(s, b)) /\ MultiHeader(s, b).bnd = b /\ IsBound(b)
      BY MultiOrdinary
    <3> QED
      BY ONLY <2>1, <3>1 DEF IsBound
  <2> QED
    BY <2>2 DEF Ordinary
<1>3. NoHeader.proto = "" /\ NoHeader.bnd = "" /\ Header("", "").proto = "" /\ Header("", "").bnd = ""
  BY DEF NoHeader, Header
<1> HIDE DEF NoHeader, Header
<1> QED
  BY <1>1, <1>2, <1>3 DEF TameHeads, Headers, PartHeaders, Bounds

LEMMA TameSame ==
  ASSUME NEW r, Tame(r), NEW q, Same(q, r, Wild)
  PROVE  Tame(q)
BY DEF Tame, Same, Wild, Fields

LEMMA TamePath ==
  ASSUME NEW r, Tame(r), NEW q, Same(q, r, Fields \ {"csig", "sig", "proto"}),
         q.path \in Seq(Elem(TameHeads)), Len(q.path) > 0
  PROVE  Tame(q)
BY DEF Tame, Same, Fields

LEMMA TameField ==
  ASSUME NEW r, Tame(r)
  PROVE  /\ Current(r) \in Elem(TameHeads) /\ Field(r) \in TameHeads /\ Field(r).proto = ""
         /\ Field(r).bnd \in Bounds /\ Len(r.path) \in 1..Len(r.path)
<1>1. Len(r.path) \in Nat /\ Len(r.path) \in 1..Len(r.path) /\ r.path[Len(r.path)] \in Elem(TameHeads)
  BY DEF Tame
<1>2. Field(r) \in TameHeads
  BY <1>1 DEF Field, Current, Elem
<1> QED
  BY <1>1, <1>2, TameHeadsAre DEF Current

LEMMA WildByType ==
  ASSUME NEW r, IsProvider(r), r.proto = "none", NEW h, h.proto = ""
  PROVE  Same(ByType(r, h), r, Wild)
<1>1. Multipart(r, h) = r
  BY DEF Multipart
<1>2. ~IsSignaturePart(r, h)
  BY DEF IsSignaturePart
<1>3. Same(r, r, Wild) /\ Same([r EXCEPT !.phVersion = h.ph], r, Wild)
      /\ Same([r EXCEPT !.crypto = TRUE], r, Wild)
  BY DEF Same, IsProvider, Wild, Fields
<1> QED
  BY <1>1, <1>2, <1>3 DEF ByType

LEMMA WildStarts ==
  ASSUME NEW r, IsProvider(r)
  PROVE  Same(StartsBody(r), r, Wild)
<1>1. Same(CreateAttachment(r), r, Wild) /\ Same(r, r, Wild)
  BY SameRefl DEF CreateAttachment, Same, IsProvider, Wild, Fields
<1>2. /\ Same([r EXCEPT !.bodySeen = TRUE, !.chtml = 1, !.cbody = 0], r, Wild)
      /\ Same([r EXCEPT !.bodySeen = TRUE, !.cbody = 1, !.chtml = 0], r, Wild)
  BY DEF Same, IsProvider, Wild, Fields
<1> QED
  BY <1>1, <1>2 DEF StartsBody

LEMMA WildT2 ==
  ASSUME NEW r, IsProvider(r), r.proto = "none", Field(r).proto = ""
  PROVE  Same(T2Body(r), r, Wild)
<1> DEFINE h  == Field(r)
           r1 == [Encodings(r) EXCEPT !.struct = Append(@, MediaType(h))]
           r2 == ByType(r1, h)
           r3 == [r2 EXCEPT !.inData = TRUE, !.inPh = (MediaType(h)[1] = "text" /\ h.ph # 0)]
<1>1. Same(r1, r, Wild)
  BY DEF Encodings, Same, IsProvider, Wild, Fields
<1>2. Same(r2, r1, Wild)
  <2>1. r1.proto = "none" /\ IsProvider(r1) /\ h.proto = ""
    BY <1>1 DEF Same, Wild, Fields
  <2> HIDE DEF r1, h
  <2> QED
    BY <2>1, WildByType
<1>3. Same(r3, r2, Wild)
  <2> HIDE DEF r2, h
  <2> QED
    BY <1>2 DEF Same, IsProvider, Wild, Fields
<1>4. Same(StartsBody(r3), r3, Wild)
  <2> HIDE DEF r3
  <2> QED
    BY <1>3, WildStarts DEF Same
<1>5. T2Body(r) = StartsBody(r3)
  BY DEF T2Body
<1> HIDE DEF r1, r2, r3
<1> QED
  BY <1>1, <1>2, <1>3, <1>4, <1>5 DEF Same

LEMMA WildHashing ==
  ASSUME NEW r, IsProvider(r)
  PROVE  Same(StartHashing(r), r, Wild)
BY DEF StartHashing, Same, IsProvider, Wild, Fields

LEMMA NewPartTame == NewPart \in Elem(TameHeads)
BY DEF NewPart, Elem, TameHeads, Bounds

LEMMA TameBody ==
  ASSUME NEW r, Tame(r)
  PROVE  Tame(TransitionToBody(r))
<1> DEFINE a == [r EXCEPT !.inBody = TRUE]
           b == StartHashing(a)
           t == T2Body(b)
           h == Field(t)
           n == Len(t.path)
           e == [t.path[n] EXCEPT !.bnd = h.bnd]
           p == Append([t.path EXCEPT ![n] = e], NewPart)
           q == [t EXCEPT !.path = p, !.bnd = h.bnd, !.nest = @ + 1, !.preamble = TRUE]
<1>1. Same(a, r, Wild)
  BY DEF Tame, Same, IsProvider, Wild, Fields
<1>2. Tame(a)
  <2> HIDE DEF a
  <2> QED
    BY <1>1, TameSame
<1>3. Tame(b)
  <2> HIDE DEF a
  <2>1. Same(b, a, Wild)
    BY <1>2, WildHashing DEF Tame
  <2> HIDE DEF b
  <2> QED
    BY <1>2, <2>1, TameSame
<1>4. Tame(t)
  <2> HIDE DEF b
  <2>1. Same(t, b, Wild)
    BY <1>3, TameField, WildT2 DEF Tame
  <2> HIDE DEF t
  <2> QED
    BY <1>3, <2>1, TameSame
<1>5. TransitionToBody(r) = IF h.main = "multipart" /\ h.bnd # "" THEN q ELSE t
  BY DEF TransitionToBody
<1> HIDE DEF a, b, t
<1>6. t.path[n] \in Elem(TameHeads) /\ h.bnd \in Bounds /\ n \in 1..n /\ n \in Nat
      /\ t.path \in Seq(Elem(TameHeads)) /\ IsProvider(t)
  <2>1. t.path \in Seq(Elem(TameHeads)) /\ IsProvider(t) /\ Len(t.path) > 0
    BY <1>4 DEF Tame
  <2>2. n \in Nat /\ n \in 1..n
    BY <2>1
  <2>3. t.path[n] \in Elem(TameHeads)
    BY <2>1, <2>2
  <2>4. h \in TameHeads
    BY <1>4, TameField
  <2>5. h.bnd \in Bounds
    BY <2>4, TameHeadsAre
  <2> QED
    BY <2>1, <2>2, <2>3, <2>5
<1>7. e \in Elem(TameHeads)
  <2> HIDE DEF h
  <2> QED
    BY <1>6 DEF Elem
<1>8. p \in Seq(Elem(TameHeads)) /\ Len(p) > 0
  <2> DEFINE u == [t.path EXCEPT ![n] = e]
  <2>1. u \in Seq(Elem(TameHeads)) /\ Len(u) = n
    <3> HIDE DEF e
    <3> QED
      BY <1>6, <1>7
  <2> DEFINE E == Elem(TameHeads)
             z == NewPart
  <2>2. u \in Seq(E) /\ z \in E
    BY <2>1, NewPartTame
  <2> HIDE DEF u, E, z
  <2>3. Append(u, z) \in Seq(E) /\ Len(Append(u, z)) = Len(u) + 1
    BY ONLY <2>2
  <2>4. n + 1 > 0
    BY <1>6
  <2> QED
    BY <2>1, <2>3, <2>4 DEF u, E, z
<1> HIDE DEF e, p, h
<1>9. Same(q, t, Fields \ {"csig", "sig", "proto"}) /\ q.path = p
  BY <1>6 DEF Same, IsProvider, Fields
<1> HIDE DEF q
<1>10. Tame(q)
  BY <1>4, <1>8, <1>9, TamePath
<1> QED
  BY <1>4, <1>5, <1>10

LEMMA TameHead ==
  ASSUME NEW r, Tame(r), NEW ln \in MailLines
  PROVE  Tame(InsertHeader(r, ln))
<1> DEFINE b == IF Field(r) = NoHeader THEN StartHashing(r) ELSE r
           n == Len(b.path)
           x == IF ln.k = "hdr" THEN ln ELSE Header("", "")
           e == [b.path[n] EXCEPT !.h = x]
           p == [b.path EXCEPT ![n] = e]
           q == [b EXCEPT !.path = p]
<1>1. Tame(b)
  <2>1. Same(StartHashing(r), r, Wild)
    BY WildHashing DEF Tame
  <2>2. Tame(StartHashing(r))
    BY <2>1, TameSame
  <2> QED
    BY <2>2
<1>2. InsertHeader(r, ln) = IF IsBlank(ln) THEN TransitionToBody(r) ELSE q
  BY DEF InsertHeader
<1> HIDE DEF b
<1>3. x \in TameHeads
  <2>1. ln.k = "hdr" => ln \in Headers
    <3>1. \A y \in Calm(Composed) : y.k = "data"
      BY CalmIs
    <3>2. \A c \in InnerBounds : Boundary(c).k = "bound" /\ LastBoundary(c).k = "bound"
      BY DEF Boundary, LastBoundary
    <3> QED
      BY <3>1, <3>2 DEF MailLines
  <2> QED
    BY <2>1 DEF TameHeads
<1>4. b.path[n] \in Elem(TameHeads) /\ n \in 1..n /\ n \in Nat
      /\ b.path \in Seq(Elem(TameHeads)) /\ IsProvider(b)
  <2>1. b.path \in Seq(Elem(TameHeads)) /\ IsProvider(b) /\ Len(b.path) > 0
    BY <1>1 DEF Tame
  <2>2. n \in Nat /\ n \in 1..n
    BY <2>1
  <2> QED
    BY <2>1, <2>2
<1> HIDE DEF x
<1>5. e \in Elem(TameHeads)
  BY <1>3, <1>4 DEF Elem
<1> HIDE DEF e
<1>6. p \in Seq(Elem(TameHeads)) /\ Len(p) > 0
  BY <1>4, <1>5
<1> HIDE DEF p
<1>7. Same(q, b, Fields \ {"csig", "sig", "proto"}) /\ q.path = p
  BY <1>4 DEF Same, IsProvider, Fields
<1> HIDE DEF q
<1>8. Tame(q)
  BY <1>1, <1>6, <1>7, TamePath
<1> QED
  BY <1>2, <1>8, TameBody

LEMMA TameLater ==
  ASSUME NEW r, Tame(r), NEW ln
  PROVE  Tame(InsertBody(r, ln))
<1> DEFINE a == AtBoundary(r)
           b == [a EXCEPT !.inBody = FALSE]
           n == Len(b.path)
           s == [b.path EXCEPT ![n] = NewPart]
           k == Len(a.path)
           t == SubSeq(a.path, 1, k - 1)
           u == IF k > 2 THEN a.path[k - 2].bnd ELSE ""
           p == ToParent(a)
<1>1. Tame(a)
  <2>1. Same(a, r, Wild)
    BY DEF AtBoundary, Tame, Same, IsProvider, Wild, Fields
  <2> HIDE DEF a
  <2> QED
    BY <2>1, TameSame
<1>2. InsertBody(r, ln) \in {TransitionToHeader(b), LevelUp(p), r}
  BY DEF InsertBody
<1> HIDE DEF a
<1>3. Tame(b)
  <2>1. Same(b, a, Wild)
    BY <1>1 DEF Tame, Same, IsProvider, Wild, Fields
  <2> HIDE DEF b
  <2> QED
    BY <1>1, <2>1, TameSame
<1>4. TransitionToHeader(b) = [b EXCEPT !.preamble = FALSE]
      \/ TransitionToHeader(b) = [b EXCEPT !.path = s]
  BY DEF TransitionToHeader
<1> HIDE DEF b
<1>5. Tame([b EXCEPT !.preamble = FALSE])
  <2> DEFINE q == [b EXCEPT !.preamble = FALSE]
  <2>1. Same(q, b, Wild)
    BY <1>3 DEF Tame, Same, IsProvider, Wild, Fields
  <2> HIDE DEF q
  <2>2. Tame(q)
    BY <1>3, <2>1, TameSame
  <2> QED
    BY <2>2 DEF q
<1>6. Tame([b EXCEPT !.path = s])
  <2> DEFINE q == [b EXCEPT !.path = s]
  <2>1. s \in Seq(Elem(TameHeads)) /\ Len(s) > 0
    BY <1>3, NewPartTame DEF Tame
  <2> HIDE DEF s
  <2>2. Same(q, b, Fields \ {"csig", "sig", "proto"}) /\ q.path = s
    BY <1>3 DEF Tame, Same, IsProvider, Fields
  <2> HIDE DEF q
  <2>3. Tame(q)
    BY <1>3, <2>1, <2>2, TamePath
  <2> QED
    BY <2>3 DEF q
<1>7. p = IF k = 1 THEN [a EXCEPT !.bnd = ""] ELSE [a EXCEPT !.path = t, !.bnd = u]
  BY DEF ToParent
<1> HIDE DEF u
<1>8. Tame(p)
  <2>1. CASE k = 1
    <3>1. Same(p, a, Wild)
      BY <1>1, <1>7, <2>1 DEF Tame, Same, IsProvider, Wild, Fields
    <3> HIDE DEF p
    <3> QED
      BY <1>1, <3>1, TameSame
  <2>2. CASE k # 1
    <3>1. k \in Nat /\ k > 1 /\ a.path \in Seq(Elem(TameHeads)) /\ IsProvider(a)
      <4>1. a.path \in Seq(Elem(TameHeads)) /\ IsProvider(a) /\ Len(a.path) > 0
        BY <1>1 DEF Tame
      <4>2. k \in Nat /\ k > 0
        BY <4>1
      <4> HIDE DEF k
      <4> QED
        BY ONLY <2>2, <4>1, <4>2
    <3>2. t \in Seq(Elem(TameHeads)) /\ Len(t) > 0
      <4>1. k - 1 \in 0..k /\ k - 1 > 0
        BY <3>1
      <4> DEFINE j == k - 1
      <4> HIDE DEF j
      <4>2. SubSeq(a.path, 1, j) \in Seq(Elem(TameHeads)) /\ Len(SubSeq(a.path, 1, j)) = j
        BY <3>1, <4>1, Prefix DEF j
      <4> QED
        BY <4>1, <4>2 DEF j
    <3>3. p = [a EXCEPT !.path = t, !.bnd = u]
      BY <1>7, <2>2
    <3> HIDE DEF t, p
    <3>4. Same(p, a, Fields \ {"csig", "sig", "proto"}) /\ p.path = t
      BY <3>1, <3>3 DEF Same, IsProvider, Fields
    <3> QED
      BY <1>1, <3>2, <3>4, TamePath
  <2> QED
    BY <2>1, <2>2
<1> HIDE DEF p, s
<1>9. Tame(LevelUp(p))
  <2> DEFINE q == LevelUp(p)
  <2>1. Same(q, p, Wild)
    BY <1>8 DEF LevelUp, Tame, Same, IsProvider, Wild, Fields
  <2> HIDE DEF q
  <2>2. Tame(q)
    BY <1>8, <2>1, TameSame
  <2> QED
    BY <2>2 DEF q
<1> QED
  BY <1>2, <1>4, <1>5, <1>6, <1>9

LEMMA WildCollect ==
  ASSUME NEW r, IsProvider(r), r.csig = 0, NEW ln
  PROVE  Same(Collect(r, ln), r, Wild)
<1> DEFINE h == IF r.crypto /\ r.hash # 0 THEN HashLine(r, ln) ELSE r
<1>1. Same(h, r, Wild)
  BY DEF HashLine, Same, IsProvider, Wild, Fields
<1>2. Collect(r, ln) \in {h, CollectPart(h, ln), CollectCipher(h, ln)}
  BY DEF Collect
<1> HIDE DEF h
<1>3. Same(CollectPart(h, ln), h, Wild)
  <2>1. Same(CollectBody(h, ln), h, Wild)
    BY <1>1 DEF CollectBody, Same, IsProvider, Wild, Fields
  <2>2. Same(CollectHtml(h, ln), h, Wild)
    BY <1>1 DEF CollectHtml, Same, IsProvider, Wild, Fields
  <2>3. Same(CollectAttachment(h, ln), h, Wild)
    BY <1>1 DEF CollectAttachment, Same, IsProvider, Wild, Fields
  <2>4. Same(h, h, Wild)
    BY <1>1 DEF Same
  <2> QED
    BY <2>1, <2>2, <2>3, <2>4 DEF CollectPart
<1>4. Same(CollectCipher(h, ln), h, Wild)
  BY <1>1 DEF CollectCipher, Same, IsProvider, Wild, Fields
<1> QED
  BY <1>1, <1>2, <1>3, <1>4 DEF Same

LEMMA TameLine ==
  ASSUME NEW r, Tame(r), NEW ln \in MailLines
  PROVE  Tame(TakeLine(r, ln))
<1> DEFINE i == Insert(r, ln)
           c == CheckMarker(i, ln)
           q == Collect(c, ln)
<1>1. Tame(i)
  BY TameHead, TameLater DEF Insert
<1> HIDE DEF i
<1>2. Same(c, i, Wild)
  BY <1>1 DEF CheckMarker, Tame, Same, IsProvider, Wild, Fields
<1> HIDE DEF c
<1>3. Tame(c)
  BY <1>1, <1>2, TameSame
<1>4. Same(q, c, Wild)
  BY <1>3, WildCollect DEF Tame
<1> HIDE DEF q
<1>5. Tame(q)
  BY <1>3, <1>4, TameSame
<1>6. TakeLine(r, ln) = q
  BY DEF TakeLine, q, c, i
<1> QED
  BY <1>5, <1>6

LEMMA TameProvider == Tame(Provider(FALSE))
<1> DEFINE r == Provider(FALSE)
<1>1. r.path = <<NewPart>> /\ r.csig = 0 /\ r.sig = <<>> /\ r.proto = "none"
  BY DEF Provider
<1>2. <<NewPart>> \in Seq(Elem(TameHeads)) /\ Len(<<NewPart>>) > 0
  BY NewPartTame, OneType
<1> QED
  BY <1>1, <1>2, ProviderIs DEF Tame

LEMMA TameFeed ==
  ASSUME NEW s \in Seq(MailLines)
  PROVE  Feed(Provider(FALSE), s).sig = <<>>
<1> DEFINE p == Provider(FALSE)
           T == { x \in Seq(MailLines) : Tame(Feed(p, x)) }
<1>1. <<>> \in T
  <2>1. <<>> \in Seq(MailLines)
    BY NoneType
  <2>2. Tame(Feed(p, <<>>))
    BY FeedNone, TameProvider
  <2> HIDE DEF p
  <2> QED
    BY <2>1, <2>2
<1>2. \A x \in Seq(MailLines), y \in MailLines : x \in T => Append(x, y) \in T
  <2> SUFFICES ASSUME NEW x \in Seq(MailLines), NEW y \in MailLines, x \in T
               PROVE  Append(x, y) \in T
    OBVIOUS
  <2> HIDE DEF p
  <2>1. Feed(p, Append(x, y)) = TakeLine(Feed(p, x), y)
    BY FeedAppend
  <2>2. Tame(Feed(p, x))
    OBVIOUS
  <2>3. Tame(TakeLine(Feed(p, x), y))
    BY <2>2, TameLine
  <2> QED
    BY <2>1, <2>3, AppendType
<1> HIDE DEF T
<1>3. Seq(MailLines) \subseteq T
  BY <1>1, <1>2, SeqInduct
<1>4. Tame(Feed(p, s))
  BY <1>3 DEF T
<1> QED
  BY <1>4 DEF Tame

-----------------------------------------------------------------------------
(* An encrypted structure is read: the way to the ciphertext, and what is  *)
(* taken for it.                                                           *)

\* On the way
Opening(r, inb) ==
  /\ Frame(r, AllHeads, <<"enc">>) /\ r.hash = 0 /\ r.proto = "pgp" /\ r.isEnc = TRUE
  /\ r.csig = 0 /\ r.crypto = FALSE /\ r.data = <<>> /\ r.everything = FALSE
  /\ r.cbody = 0 /\ r.chtml = 0 /\ r.inBody = inb

\* There: every line is one of the ciphertext
Ciphering(r, st, d) ==
  /\ Frame(r, AllHeads, st) /\ r.hash = 0 /\ r.csig = 0 /\ r.crypto = TRUE
  /\ r.everything = FALSE /\ r.cbody = 0 /\ r.inBody = TRUE /\ r.inData = TRUE
  /\ r.data = d /\ r.open = FALSE

TypeHead == Header("application", "pgp-encrypted")

LEMMA EncHeadsAre ==
  /\ EncHead \in AllHeads /\ EncHead.k = "hdr" /\ EncHead.main = "multipart"
  /\ EncHead.sub = "encrypted" /\ EncHead.bnd = "enc" /\ EncHead.ph = 0
  /\ EncHead.proto = "application/pgp-encrypted"
  /\ TypeHead \in AllHeads /\ TypeHead.k = "hdr" /\ TypeHead.main = "application"
  /\ TypeHead.sub = "pgp-encrypted" /\ TypeHead.ph = 0
  /\ CipherHead \in AllHeads /\ CipherHead.k = "hdr" /\ CipherHead.main = "application"
  /\ CipherHead.sub = "octet-stream" /\ CipherHead.ph = 0
  /\ CmsHead \in AllHeads /\ CmsHead.k = "hdr" /\ CmsHead.main = "application"
  /\ CmsHead.sub = "pkcs7-mime" /\ CmsHead.ph = 0
<1>1. EncHead \in AllHeads /\ TypeHead \in AllHeads /\ CipherHead \in AllHeads /\ CmsHead \in AllHeads
  BY DEF AllHeads, WrapHeads, TypeHead
<1>2. /\ EncHead.k = "hdr" /\ EncHead.main = "multipart"
      /\ EncHead.sub = "encrypted" /\ EncHead.bnd = "enc" /\ EncHead.ph = 0
      /\ EncHead.proto = "application/pgp-encrypted"
  BY DEF EncHead, Header
<1>3. /\ TypeHead.k = "hdr" /\ TypeHead.main = "application"
      /\ TypeHead.sub = "pgp-encrypted" /\ TypeHead.ph = 0
  BY DEF TypeHead, Header
<1>4. /\ CipherHead.k = "hdr" /\ CipherHead.main = "application"
      /\ CipherHead.sub = "octet-stream" /\ CipherHead.ph = 0
  BY DEF CipherHead, Header
<1>5. /\ CmsHead.k = "hdr" /\ CmsHead.main = "application"
      /\ CmsHead.sub = "pkcs7-mime" /\ CmsHead.ph = 0
  BY DEF CmsHead, Header
<1> QED
  BY <1>1, <1>2, <1>3, <1>4, <1>5

EncStack == <<"enc">>
LEMMA EncStackIs ==
  /\ EncStack \in Seq(Bounds) /\ Len(EncStack) = 1 /\ Top(EncStack) = "enc" /\ IsBound("enc")
  /\ Append(<<>>, "enc") = EncStack /\ EncStack = <<"enc">>
<1>1. "enc" \in Bounds
  BY DEF Bounds
<1>2. <<"enc">> \in Seq(Bounds) /\ Append(<<>>, "enc") = <<"enc">>
  BY <1>1, Short1
<1>3. Len(<<"enc">>) = 1 /\ Top(<<"enc">>) = "enc"
  BY DEF Top
<1> QED
  BY <1>1, <1>2, <1>3 DEF EncStack, IsBound

\* What the header of a part may change, before its lines are taken
Announced == {"inBody", "inData", "qp", "b64", "inPh", "struct"}

\* The state in which the type of a part is looked at
Typed(r, h) == [Encodings([r EXCEPT !.inBody = TRUE]) EXCEPT !.struct = Append(@, MediaType(h))]

\* The three steps every header goes through: b is what the type made of it
TypeSeen(r, b) ==
  /\ IsProvider(r) /\ Field(r).ph = 0 /\ MediaType(Field(r))[1] # "text"
  /\ b = ByType(Typed(r, Field(r)), Field(r))
TypeLeaves(r, b, F) ==
  Same(b, Typed(r, Field(r)), F) /\ "path" \notin F /\ "nest" \notin F /\ "inBody" \notin F
PartStarts(r, b, F) ==
  \E c : /\ T2Body([r EXCEPT !.inBody = TRUE])
              = IF ~c.crypto /\ c.nest > 0 THEN CreateAttachment(c) ELSE c
         /\ Same(c, r, Announced \cup F) /\ c.inBody = TRUE /\ c.inData = TRUE
         /\ c.crypto = b.crypto /\ c.isEnc = b.isEnc /\ c.proto = b.proto
LEMMA T2Steps ==
  ASSUME NEW r, NEW b, NEW F, TypeSeen(r, b), TypeLeaves(r, b, F)
  PROVE  PartStarts(r, b, F)
<1> DEFINE h == Field(r)
           u == [r EXCEPT !.inBody = TRUE]
           a == Typed(r, h)
<1>0. /\ h = Field(r) /\ h.ph = 0 /\ MediaType(h)[1] # "text" /\ u = [r EXCEPT !.inBody = TRUE]
      /\ a = [Encodings(u) EXCEPT !.struct = Append(@, MediaType(h))]
      /\ b = ByType(a, h) /\ Same(b, a, F) /\ IsProvider(r)
      /\ "path" \notin F /\ "nest" \notin F /\ "inBody" \notin F
  BY DEF Typed, TypeSeen, TypeLeaves
<1> HIDE DEF h, u, a
<1> DEFINE c == [b EXCEPT !.inData = TRUE, !.inPh = FALSE]
<1>1. Same(u, r, {"inBody"}) /\ u.inBody = TRUE
  BY <1>0 DEF Same, IsProvider, Fields
<1>2. Field(u) = h
  <2>1. u.path = r.path
    BY <1>1 DEF Same, Fields
  <2> QED
    BY <1>0, <2>1 DEF Field, Current
<1>3. Same(a, u, {"qp", "b64", "struct"})
  BY <1>0, <1>1 DEF Encodings, Same, IsProvider, Fields
<1>4. Same(c, b, {"inData", "inPh"}) /\ c.inData = TRUE
  BY <1>0 DEF Same, IsProvider, Fields
<1>5. (MediaType(h)[1] = "text" /\ h.ph # 0) = FALSE
  BY <1>0
<1>6. T2Body(u) = StartsBody(c)
  BY <1>0, <1>2, <1>5 DEF T2Body
<1> HIDE DEF c
<1>7. Same(a, r, {"inBody"} \cup {"qp", "b64", "struct"})
  BY <1>1, <1>3, SameTrans
<1>8. Same(b, r, ({"inBody"} \cup {"qp", "b64", "struct"}) \cup F)
  BY <1>0, <1>7, SameTrans
<1>9. Same(c, r, (({"inBody"} \cup {"qp", "b64", "struct"}) \cup F) \cup {"inData", "inPh"})
  BY <1>4, <1>8, SameTrans
<1>10. Same(c, r, Announced \cup F)
  BY <1>9, SameMore DEF Announced
<1>11. c.path = r.path /\ c.nest = r.nest
  BY <1>0, <1>10 DEF Same, Fields, Announced
<1>12. Field(c) = h
  BY <1>0, <1>11 DEF Field, Current
<1>13. c.crypto = b.crypto /\ c.isEnc = b.isEnc /\ c.proto = b.proto
  BY <1>4 DEF Same, Fields
<1>14. c.inBody = TRUE
  <2>1. a.inBody = u.inBody
    BY <1>3 DEF Same, Fields
  <2>2. b.inBody = a.inBody
    <3>1. Same(b, a, F) /\ "inBody" \notin F
      BY <1>0
    <3> QED
      BY ONLY <3>1 DEF Same, Fields
  <2>3. c.inBody = b.inBody
    BY <1>4 DEF Same, Fields
  <2> QED
    BY <1>1, <2>1, <2>2, <2>3
<1>15. StartsBody(c) = IF ~c.crypto /\ c.nest > 0 THEN CreateAttachment(c) ELSE c
  BY <1>0, <1>12 DEF StartsBody
<1>16. /\ T2Body(u) = IF ~c.crypto /\ c.nest > 0 THEN CreateAttachment(c) ELSE c
       /\ Same(c, r, Announced \cup F) /\ c.inBody = TRUE /\ c.inData = TRUE
       /\ c.crypto = b.crypto /\ c.isEnc = b.isEnc /\ c.proto = b.proto
  BY <1>4, <1>6, <1>10, <1>13, <1>14, <1>15
<1> QED
  BY <1>16 DEF u, PartStarts

LEMMA TypedIs ==
  ASSUME NEW r, IsProvider(r), NEW h
  PROVE  Same(Typed(r, h), r, {"inBody", "qp", "b64", "struct"}) /\ Typed(r, h).inBody = TRUE
<1> DEFINE u == [r EXCEPT !.inBody = TRUE]
           a == Typed(r, h)
<1>1. Same(u, r, {"inBody"}) /\ u.inBody = TRUE
  BY DEF Same, IsProvider, Fields
<1>2. a = [Encodings(u) EXCEPT !.struct = Append(@, MediaType(h))]
  BY DEF Typed
<1> HIDE DEF u, a
<1>3. Same(a, u, {"qp", "b64", "struct"})
  BY <1>1, <1>2 DEF Encodings, Same, IsProvider, Fields
<1>4. Same(a, r, {"inBody"} \cup {"qp", "b64", "struct"})
  BY <1>1, <1>3, SameTrans
<1>5. a.inBody = TRUE
  BY <1>1, <1>3 DEF Same, Fields
<1> QED
  BY <1>4, <1>5, SameMore DEF a

LEMMA HeadMedia ==
  /\ MediaType(EncHead)[1] = "multipart" /\ MediaType(TypeHead)[1] = "application"
  /\ MediaType(CipherHead)[1] = "application" /\ MediaType(CmsHead)[1] = "application"
BY EncHeadsAre DEF MediaType

LEMMA ByEncHead ==
  ASSUME NEW a, IsProvider(a), a.sig = <<>>, NEW b, b = ByType(a, EncHead)
  PROVE  Same(b, a, {"isEnc", "proto"}) /\ b.isEnc = TRUE /\ b.proto = "pgp"
<1> DEFINE h == EncHead
<1>1. h.main = "multipart" /\ h.sub = "encrypted" /\ h.proto = "application/pgp-encrypted"
  BY EncHeadsAre
<1> HIDE DEF h
<1>2. ByType(a, h) = Multipart(a, h)
  BY <1>1, HeadMedia DEF ByType, MediaType, IsSignaturePart, IsCipherPart, h
<1>3. Multipart(a, h) = [a EXCEPT !.isEnc = TRUE, !.proto = "pgp"]
  BY <1>1 DEF Multipart
<1>4. b = [a EXCEPT !.isEnc = TRUE, !.proto = "pgp"]
  BY <1>2, <1>3 DEF h
<1> QED
  BY <1>4 DEF Same, IsProvider, Fields

LEMMA ByTypeHead ==
  ASSUME NEW a
  PROVE  ByType(a, TypeHead) = a
<1> DEFINE h == TypeHead
<1>1. h.main = "application" /\ h.sub = "pgp-encrypted" /\ MediaType(h)[1] = "application"
  BY EncHeadsAre, HeadMedia
<1> HIDE DEF h
<1>2. ~IsSignaturePart(a, h) /\ ~IsCipherPart(a, h)
  BY <1>1 DEF IsSignaturePart, IsCipherPart
<1>3. h.main # "multipart" /\ MediaType(h)[1] # "text"
  BY <1>1
<1>4. ByType(a, h) = a
  BY <1>2, <1>3 DEF ByType
<1> QED
  BY <1>4 DEF h

LEMMA ByCipherHead ==
  ASSUME NEW a, IsProvider(a), NEW h,
         h = CmsHead \/ (h = CipherHead /\ a.nest = 1 /\ a.isEnc = TRUE /\ a.proto = "pgp"),
         NEW b, b = ByType(a, h)
  PROVE  Same(b, a, {"crypto"}) /\ b.crypto = TRUE
<1>1. h.main = "application" /\ MediaType(h)[1] = "application"
      /\ h.sub = (IF h = CmsHead THEN "pkcs7-mime" ELSE "octet-stream")
  BY EncHeadsAre, HeadMedia
<1>2. ~IsSignaturePart(a, h)
  BY <1>1 DEF IsSignaturePart
<1>3. IsCipherPart(a, h)
  <2>1. CASE h = CmsHead
    BY <1>1, <2>1 DEF IsCipherPart
  <2>2. CASE h = CipherHead /\ a.nest = 1 /\ a.isEnc = TRUE /\ a.proto = "pgp"
    <3>1. h.sub = "octet-stream" /\ h.main = "application"
      BY <2>2, EncHeadsAre
    <3> QED
      BY <2>2, <3>1 DEF IsCipherPart
  <2> QED
    BY <2>1, <2>2
<1>4. h.main # "multipart" /\ MediaType(h)[1] # "text"
  BY <1>1
<1>5. ByType(a, h) = [a EXCEPT !.crypto = TRUE]
  BY <1>2, <1>3, <1>4 DEF ByType
<1>6. b = [a EXCEPT !.crypto = TRUE]
  BY <1>5
<1> QED
  BY <1>6 DEF Same, IsProvider, Fields

LEMMA EncT2 ==
  ASSUME NEW r, IsProvider(r), r.sig = <<>>, r.crypto = FALSE, r.nest = 0, Field(r) = EncHead
  PROVE  LET t == T2Body([r EXCEPT !.inBody = TRUE])
         IN Same(t, r, Announced \cup {"isEnc", "proto"}) /\ t.isEnc = TRUE /\ t.proto = "pgp"
            /\ t.inBody = TRUE
<1> DEFINE h == EncHead
           u == [r EXCEPT !.inBody = TRUE]
           F == {"isEnc", "proto"}
           a == Typed(r, h)
           b == ByType(a, h)
<1>1. Same(a, r, {"inBody", "qp", "b64", "struct"}) /\ a = [Encodings(u) EXCEPT !.struct = Append(@, MediaType(h))]
  BY TypedIs DEF Typed
<1>2. IsProvider(a) /\ a.sig = <<>>
  <2> HIDE DEF a
  <2> QED
    BY <1>1 DEF Same, Fields
<1>3. Same(b, a, F) /\ b.isEnc = TRUE /\ b.proto = "pgp"
  <2> HIDE DEF a
  <2> QED
    BY <1>2, ByEncHead
<1>4. h = Field(r) /\ h.ph = 0 /\ MediaType(h)[1] # "text"
      /\ "path" \notin F /\ "nest" \notin F /\ "inBody" \notin F /\ u = [r EXCEPT !.inBody = TRUE]
      /\ b = ByType(a, h)
  BY EncHeadsAre, HeadMedia
<1> HIDE DEF h, u, F, a, b
<1>5. PartStarts(r, b, F)
  <2>1. TypeSeen(r, b) /\ TypeLeaves(r, b, F)
    BY <1>3, <1>4 DEF a, TypeSeen, TypeLeaves
  <2> QED
    BY ONLY <2>1, T2Steps
<1>6. PICK c : /\ T2Body(u) = IF ~c.crypto /\ c.nest > 0 THEN CreateAttachment(c) ELSE c
               /\ Same(c, r, Announced \cup F) /\ c.inBody = TRUE /\ c.inData = TRUE
               /\ c.crypto = b.crypto /\ c.isEnc = b.isEnc /\ c.proto = b.proto
  BY <1>5 DEF u, PartStarts
<1>7. T2Body(u) = c
  <2>1. c.nest = 0
    BY <1>6 DEF Same, Fields, Announced, F
  <2> QED
    BY <1>6, <2>1
<1> QED
  BY <1>3, <1>6, <1>7 DEF u, F

LEMMA TypeT2 ==
  ASSUME NEW r, IsProvider(r), r.crypto = FALSE, r.nest = 1, Field(r) = TypeHead
  PROVE  LET t == T2Body([r EXCEPT !.inBody = TRUE])
         IN /\ Same(t, r, Announced \cup {"atts", "att", "cbody", "chtml"})
            /\ t.inBody = TRUE /\ t.cbody = 0 /\ t.chtml = 0
<1> DEFINE h == TypeHead
           u == [r EXCEPT !.inBody = TRUE]
           F == {}
           a == Typed(r, h)
           b == ByType(a, h)
<1>1. Same(a, r, {"inBody", "qp", "b64", "struct"}) /\ a = [Encodings(u) EXCEPT !.struct = Append(@, MediaType(h))]
  BY TypedIs DEF Typed
<1>2. b = a
  BY ByTypeHead
<1>3. Same(b, a, F) /\ b.crypto = FALSE
  <2> HIDE DEF a, b
  <2>1. IsProvider(a) /\ a.crypto = FALSE
    BY <1>1 DEF Same, Fields
  <2> QED
    BY <1>2, <2>1, SameRefl
<1>4. h = Field(r) /\ h.ph = 0 /\ MediaType(h)[1] # "text"
      /\ "path" \notin F /\ "nest" \notin F /\ "inBody" \notin F /\ u = [r EXCEPT !.inBody = TRUE]
      /\ b = ByType(a, h)
  BY EncHeadsAre, HeadMedia
<1> HIDE DEF h, u, F, a, b
<1>5. PartStarts(r, b, F)
  <2>1. TypeSeen(r, b) /\ TypeLeaves(r, b, F)
    BY <1>3, <1>4 DEF a, TypeSeen, TypeLeaves
  <2> QED
    BY ONLY <2>1, T2Steps
<1>6. PICK c : /\ T2Body(u) = IF ~c.crypto /\ c.nest > 0 THEN CreateAttachment(c) ELSE c
               /\ Same(c, r, Announced \cup F) /\ c.inBody = TRUE /\ c.inData = TRUE
               /\ c.crypto = b.crypto /\ c.isEnc = b.isEnc /\ c.proto = b.proto
  BY <1>5 DEF u, PartStarts
<1> DEFINE d == CreateAttachment(c)
<1>7. T2Body(u) = d
  <2>1. c.nest = 1
    BY <1>6 DEF Same, Fields, Announced, F
  <2> QED
    BY <1>3, <1>6, <2>1
<1>8. Same(d, c, {"atts", "att", "cbody", "chtml"}) /\ d.cbody = 0 /\ d.chtml = 0
  BY <1>6 DEF CreateAttachment, Same, IsProvider, Fields
<1> HIDE DEF d
<1>9. Same(d, r, (Announced \cup F) \cup {"atts", "att", "cbody", "chtml"})
  BY <1>6, <1>8, SameTrans
<1>10. Same(d, r, Announced \cup {"atts", "att", "cbody", "chtml"})
  BY <1>9, SameMore DEF F
<1>11. d.inBody = TRUE
  BY <1>6, <1>8 DEF Same, Fields
<1> QED
  BY <1>7, <1>8, <1>10, <1>11 DEF u

LEMMA CipherT2 ==
  ASSUME NEW r, IsProvider(r), NEW h, h = Field(r),
         h = CmsHead \/ (h = CipherHead /\ r.nest = 1 /\ r.isEnc = TRUE /\ r.proto = "pgp")
  PROVE  LET t == T2Body([r EXCEPT !.inBody = TRUE])
         IN /\ Same(t, r, Announced \cup {"crypto"}) /\ t.crypto = TRUE /\ t.inBody = TRUE
            /\ t.inData = TRUE
<1> DEFINE u == [r EXCEPT !.inBody = TRUE]
           F == {"crypto"}
           a == Typed(r, h)
           b == ByType(a, h)
<1>1. Same(a, r, {"inBody", "qp", "b64", "struct"}) /\ a = [Encodings(u) EXCEPT !.struct = Append(@, MediaType(h))]
  BY TypedIs DEF Typed
<1>2. IsProvider(a) /\ a.nest = r.nest /\ a.isEnc = r.isEnc /\ a.proto = r.proto
  <2> HIDE DEF a
  <2> QED
    BY <1>1 DEF Same, Fields
<1>3. Same(b, a, F) /\ b.crypto = TRUE
  <2> HIDE DEF a
  <2>1. h = CmsHead \/ (h = CipherHead /\ a.nest = 1 /\ a.isEnc = TRUE /\ a.proto = "pgp")
    BY <1>2
  <2> QED
    BY <1>2, <2>1, ByCipherHead
<1>4. h.ph = 0 /\ MediaType(h)[1] # "text"
  BY EncHeadsAre, HeadMedia
<1>5. /\ "path" \notin F /\ "nest" \notin F /\ "inBody" \notin F /\ u = [r EXCEPT !.inBody = TRUE]
      /\ b = ByType(a, h)
  OBVIOUS
<1> HIDE DEF u, F, a, b
<1>6. PICK c : /\ T2Body(u) = IF ~c.crypto /\ c.nest > 0 THEN CreateAttachment(c) ELSE c
               /\ Same(c, r, Announced \cup F) /\ c.inBody = TRUE /\ c.inData = TRUE
               /\ c.crypto = b.crypto /\ c.isEnc = b.isEnc /\ c.proto = b.proto
  <2>1. TypeSeen(r, b) /\ TypeLeaves(r, b, F)
    BY <1>3, <1>4, <1>5 DEF a, TypeSeen, TypeLeaves
  <2>3. PartStarts(r, b, F)
    BY ONLY <2>1, T2Steps
  <2> QED
    BY <2>3 DEF u, PartStarts
<1>7. T2Body(u) = c
  BY <1>3, <1>6
<1> QED
  BY <1>3, <1>6, <1>7 DEF u, F

\* What may change on the way
Roaming == { "inBody", "preamble", "path", "bnd", "nest", "inData", "qp", "b64", "inPh", "struct",
             "atts", "att", "cbody", "chtml" }

LEMMA OpeningSame ==
  ASSUME NEW r, NEW q, NEW a, Opening(r, a), Same(q, r, Roaming), q.cbody = 0, q.chtml = 0,
         Frame(q, AllHeads, EncStack), NEW inb, q.inBody = inb
  PROVE  Opening(q, inb)
BY EncStackIs DEF Opening, Same, Roaming, Fields

LEMMA EncBlank ==
  ASSUME NEW r, NEW st, st = <<>>, Frame(r, AllHeads, st), Early(r, 0, "none"), r.inBody = FALSE,
         Field(r) = EncHead
  PROVE  Opening(TakeLine(r, Blank), TRUE)
<1> DEFINE t == T2Body([r EXCEPT !.inBody = TRUE])
           q == Insert(r, Blank)
           F == Announced \cup {"isEnc", "proto"}
<1>0. /\ IsProvider(r) /\ r.nest = 0 /\ r.hash # 1 /\ NoHeader \in AllHeads
      /\ st \in Seq(Bounds) /\ r.sig = <<>> /\ r.crypto = FALSE
  BY HeadsAll, NoneType DEF Frame, Early
<1>1. Same(t, r, F) /\ t.isEnc = TRUE /\ t.proto = "pgp" /\ t.inBody = TRUE
  BY <1>0, EncT2
<1>2. Field(r).main = "multipart" /\ Field(r).bnd = "enc" /\ IsBound(Field(r).bnd)
  BY EncHeadsAre, EncStackIs
<1>3. "path" \notin F /\ "nest" \notin F /\ "bnd" \notin F
  BY DEF Announced
<1>4. t = T2Body([r EXCEPT !.inBody = TRUE])
  OBVIOUS
<1> HIDE DEF t, F, q
<1>5. /\ Same(q, t, {"path", "bnd", "nest", "preamble"})
      /\ Frame(q, AllHeads, Append(st, Field(r).bnd))
  BY <1>0, <1>1, <1>2, <1>3, <1>4, InsertBlank DEF q
<1>6. Append(st, Field(r).bnd) = EncStack
  BY <1>2, EncStackIs
<1>7. Same(q, r, F \cup {"path", "bnd", "nest", "preamble"})
  BY <1>1, <1>5, SameTrans
<1>8. q.isEnc = TRUE /\ q.proto = "pgp" /\ q.inBody = TRUE
  BY <1>1, <1>5 DEF Same, Fields
<1>9. q.hash = 0 /\ q.csig = 0 /\ q.crypto = FALSE /\ q.data = <<>> /\ q.everything = FALSE
      /\ q.cbody = 0 /\ q.chtml = 0 /\ q.att = 0
  BY <1>7 DEF Same, Fields, F, Announced, Early
<1>10. TakeLine(r, Blank) = q
  BY <1>9, Unheard DEF q
<1> QED
  BY <1>5, <1>6, <1>8, <1>9, <1>10, EncStackIs DEF Opening

LEMMA EncMark ==
  ASSUME NEW r, Opening(r, TRUE)
  PROVE  LET q == TakeLine(r, Boundary("enc"))
         IN Opening(q, FALSE) /\ q.inData = FALSE
<1> DEFINE st == EncStack
           q  == Insert(r, Boundary(Top(st)))
<1>1. Top(st) = "enc" /\ st \in Seq(Bounds) /\ IsBound(Top(st)) /\ NoHeader \in AllHeads
  BY EncStackIs, HeadsAll
<1>2. NotAtEnd(r) /\ Frame(r, AllHeads, st) /\ r.inBody = TRUE
  BY EncStackIs DEF NotAtEnd, Opening
<1>5. q = Insert(r, Boundary("enc"))
  BY <1>1
<1> HIDE DEF st
<1>3. /\ Same(q, r, {"path", "inData", "cbody", "inBody", "preamble"})
      /\ Frame(q, AllHeads, st) /\ q.inBody = FALSE /\ q.inData = FALSE /\ q.cbody = 0
  BY <1>1, <1>2, InsertMark
<1> HIDE DEF q
<1>4. Same(q, r, Roaming)
  BY <1>3, SameMore DEF Roaming
<1>6. q.chtml = 0 /\ q.crypto = FALSE /\ q.csig = 0
  BY <1>3 DEF Same, Fields, Opening
<1>7. Opening(q, FALSE)
  BY <1>3, <1>4, <1>6, OpeningSame DEF st
<1>8. TakeLine(r, Boundary("enc")) = q
  BY <1>3, <1>5, <1>6, Unheard
<1> QED
  BY <1>3, <1>7, <1>8

LEMMA EncHeadLine ==
  ASSUME NEW r, Opening(r, FALSE), r.inData = FALSE, NEW h \in AllHeads, h.k = "hdr"
  PROVE  LET q == TakeLine(r, h)
         IN Opening(q, FALSE) /\ q.inData = FALSE /\ Field(q) = h
<1> DEFINE st == EncStack
           q  == Insert(r, h)
<1>1. st \in Seq(Bounds) /\ Frame(r, AllHeads, st) /\ r.inBody = FALSE /\ r.hash # 1
  BY EncStackIs DEF Opening
<1> HIDE DEF st
<1>3. Same(q, r, {"path"}) /\ Frame(q, AllHeads, st) /\ Field(q) = h
  BY <1>1, InsertHead
<1>5. q = Insert(r, h)
  OBVIOUS
<1> HIDE DEF q
<1>4. Same(q, r, Roaming)
  BY <1>3, SameMore DEF Roaming
<1>6. q.chtml = 0 /\ q.crypto = FALSE /\ q.csig = 0 /\ q.inData = FALSE /\ q.cbody = 0 /\ q.inBody = FALSE
  BY <1>3 DEF Same, Fields, Opening
<1>7. Opening(q, FALSE)
  BY <1>3, <1>4, <1>6, OpeningSame DEF st
<1>8. TakeLine(r, h) = q
  BY <1>5, <1>6, Unheard
<1> QED
  BY <1>3, <1>6, <1>7, <1>8

\* The empty attachment the first part becomes, and its line
LEMMA AttachmentOnly ==
  ASSUME NEW r, Opening(r, TRUE), NEW ln
  PROVE  LET q == Collect(r, ln)
         IN Opening(q, TRUE)
<1> DEFINE q == Collect(r, ln)
<1>0. IsProvider(r) /\ r.crypto = FALSE /\ r.csig = 0 /\ r.cbody = 0 /\ r.chtml = 0
      /\ Frame(r, AllHeads, EncStack) /\ r.inBody = TRUE
  BY EncStackIs DEF Opening, Frame
<1>1. q = r \/ q = CollectPart(r, ln)
  BY <1>0 DEF Collect
<1> HIDE DEF q
<1>2. CollectPart(r, ln) = r \/ CollectPart(r, ln) = CollectAttachment(r, ln)
  BY <1>0 DEF CollectPart
<1>3. Same(CollectAttachment(r, ln), r, {"atts"})
  BY <1>0 DEF CollectAttachment, Same, IsProvider, Fields
<1>4. Same(q, r, {"atts"})
  <2>1. CASE q = r
    BY <1>0, <2>1, SameRefl
  <2>2. CASE q = CollectAttachment(r, ln)
    BY <1>3, <2>2
  <2> QED
    BY <1>1, <1>2, <2>1, <2>2
<1>5. Same(q, r, Roaming)
  BY <1>4, SameMore DEF Roaming
<1>6. Frame(q, AllHeads, EncStack)
  <2> DEFINE st == EncStack
             G == {"atts"}
  <2>1. Frame(r, AllHeads, st) /\ Same(q, r, G) /\ "path" \notin G /\ "nest" \notin G /\ "bnd" \notin G
    BY <1>0, <1>4
  <2> HIDE DEF st, G
  <2> QED
    BY <2>1, FrameSame DEF st
<1>7. q.cbody = 0 /\ q.chtml = 0 /\ q.inBody = TRUE
  BY <1>0, <1>4 DEF Same, Fields
<1>8. Opening(q, TRUE)
  BY <1>5, <1>6, <1>7, OpeningSame
<1> QED
  BY <1>8 DEF q

LEMMA EncCalm ==
  ASSUME NEW r, Opening(r, TRUE), NEW ln, ln.k = "data", ~(ln.p = <<"dash">> /\ ln.e = "7bit")
  PROVE  Opening(TakeLine(r, ln), TRUE)
<1>1. r.inBody = TRUE /\ r.cbody = 0
  BY DEF Opening
<1>2. Insert(r, ln) = r
  BY <1>1, InsertCalm
<1>3. CheckMarker(r, ln) = r
  BY <1>1 DEF CheckMarker
<1>4. TakeLine(r, ln) = Collect(r, ln)
  BY <1>2, <1>3 DEF TakeLine
<1> QED
  BY <1>4, AttachmentOnly

LEMMA TypeBlank ==
  ASSUME NEW r, Opening(r, FALSE), Field(r) = TypeHead
  PROVE  Opening(TakeLine(r, Blank), TRUE)
<1> DEFINE st == EncStack
           t  == T2Body([r EXCEPT !.inBody = TRUE])
           F  == Announced \cup {"atts", "att", "cbody", "chtml"}
<1>1. /\ IsProvider(r) /\ Frame(r, AllHeads, st) /\ r.inBody = FALSE /\ r.hash # 1
      /\ r.crypto = FALSE /\ st \in Seq(Bounds) /\ NoHeader \in AllHeads
  BY EncStackIs, HeadsAll DEF Opening, Frame
<1>2. r.nest = 1
  BY <1>1, EncStackIs DEF Frame
<1>3. Same(t, r, F) /\ t.inBody = TRUE /\ t.cbody = 0 /\ t.chtml = 0
  BY <1>1, <1>2, TypeT2
<1>4. "path" \notin F /\ "nest" \notin F /\ "bnd" \notin F /\ Field(r).main # "multipart"
      /\ t = T2Body([r EXCEPT !.inBody = TRUE])
  BY EncHeadsAre DEF Announced
<1> HIDE DEF t, st, F
<1>5. Insert(r, Blank) = t /\ Frame(t, AllHeads, st)
  <2> DEFINE H == AllHeads
  <2>1. NoHeader \in H /\ Frame(r, H, st)
    BY <1>1
  <2>2. Field(r).main = "multipart" => IsBound(Field(r).bnd)
    BY <1>4
  <2> HIDE DEF H
  <2> QED
    BY <1>1, <1>3, <1>4, <2>1, <2>2, InsertBlank DEF H
<1>6. Same(t, r, Roaming)
  BY <1>3, SameMore DEF F, Announced, Roaming
<1>7. Opening(t, TRUE)
  BY <1>3, <1>5, <1>6, OpeningSame DEF st
<1>8. CheckMarker(t, Blank) = t
  BY <1>3 DEF CheckMarker
<1>9. TakeLine(r, Blank) = Collect(t, Blank)
  BY <1>5, <1>8 DEF TakeLine
<1> QED
  BY <1>7, <1>9, AttachmentOnly

\* A line of ciphertext is taken as it is
LEMMA CipherTaken ==
  ASSUME NEW r, NEW st, NEW d, Frame(r, AllHeads, st), r.hash = 0, r.csig = 0, r.crypto = TRUE,
         r.everything = FALSE, r.cbody = 0, r.inBody = TRUE, r.inData = TRUE, r.data = d, NEW ln
  PROVE  Ciphering(Collect(r, ln), st, Append(d, Data(PiecesOf(ln), "7bit", FALSE)))
<1> DEFINE q == Collect(r, ln)
           x == Data(PiecesOf(ln), "7bit", FALSE)
<1>1. IsProvider(r)
  BY DEF Frame
<1>2. q = CollectCipher(r, ln)
  BY DEF Collect
<1>3. CollectCipher(r, ln) = [r EXCEPT !.data = Append(@, x), !.open = FALSE]
  BY DEF CollectCipher
<1> HIDE DEF q, x
<1>4. Same(q, r, {"data", "open"}) /\ q.data = Append(d, x) /\ q.open = FALSE
  BY <1>1, <1>2, <1>3 DEF Same, IsProvider, Fields
<1>5. Frame(q, AllHeads, st)
  BY <1>4, FrameSame
<1>6. /\ q.hash = 0 /\ q.csig = 0 /\ q.crypto = TRUE /\ q.everything = FALSE /\ q.cbody = 0
      /\ q.inBody = TRUE /\ q.inData = TRUE
  BY <1>4 DEF Same, Fields
<1> QED
  BY <1>4, <1>5, <1>6 DEF Ciphering, q, x

LEMMA CipherLine ==
  ASSUME NEW r, NEW st, NEW d, Ciphering(r, st, d), NEW ln, ln.k = "data",
         ~(ln.p = <<"dash">> /\ ln.e = "7bit")
  PROVE  Ciphering(TakeLine(r, ln), st, Append(d, Data(ln.p, "7bit", FALSE)))
<1>1. Insert(r, ln) = r
  BY InsertCalm DEF Ciphering
<1>2. CheckMarker(r, ln) = r
  BY DEF CheckMarker, Ciphering
<1>3. TakeLine(r, ln) = Collect(r, ln)
  BY <1>1, <1>2 DEF TakeLine
<1>4. PiecesOf(ln) = ln.p
  BY DEF PiecesOf
<1>5. Ciphering(Collect(r, ln), st, Append(d, Data(PiecesOf(ln), "7bit", FALSE)))
  <2>1. /\ Frame(r, AllHeads, st) /\ r.hash = 0 /\ r.csig = 0 /\ r.crypto = TRUE
        /\ r.everything = FALSE /\ r.cbody = 0 /\ r.inBody = TRUE /\ r.inData = TRUE /\ r.data = d
    BY DEF Ciphering
  <2> QED
    BY <2>1, CipherTaken
<1> QED
  BY <1>3, <1>4, <1>5

\* The empty line after the header of the part is taken too
LEMMA CipherBlank ==
  ASSUME NEW r, NEW st \in Seq(Bounds), Frame(r, AllHeads, st), r.inBody = FALSE, r.hash = 0,
         r.csig = 0, r.everything = FALSE, r.cbody = 0, r.data = <<>>,
         Field(r) = CmsHead \/ (Field(r) = CipherHead /\ r.nest = 1 /\ r.isEnc = TRUE /\ r.proto = "pgp")
  PROVE  Ciphering(TakeLine(r, Blank), st, <<Blank>>)
<1> DEFINE t == T2Body([r EXCEPT !.inBody = TRUE])
           F == Announced \cup {"crypto"}
<1>1. IsProvider(r) /\ NoHeader \in AllHeads /\ r.hash # 1
  BY HeadsAll DEF Frame
<1>2. Same(t, r, F) /\ t.crypto = TRUE /\ t.inBody = TRUE /\ t.inData = TRUE
  BY <1>1, CipherT2
<1>3. "path" \notin F /\ "nest" \notin F /\ "bnd" \notin F /\ t = T2Body([r EXCEPT !.inBody = TRUE])
  BY DEF Announced
<1>4. Field(r).main # "multipart"
  BY EncHeadsAre
<1> HIDE DEF t, F
<1>5. Insert(r, Blank) = t /\ Frame(t, AllHeads, st)
  <2> DEFINE H == AllHeads
  <2>1. NoHeader \in H /\ Frame(r, H, st)
    BY <1>1
  <2>2. Field(r).main = "multipart" => IsBound(Field(r).bnd)
    BY <1>4
  <2> HIDE DEF H
  <2> QED
    BY <1>1, <1>2, <1>3, <1>4, <2>1, <2>2, InsertBlank DEF H
<1>6. t.hash = 0 /\ t.csig = 0 /\ t.everything = FALSE /\ t.cbody = 0 /\ t.data = <<>>
  BY <1>2 DEF Same, Fields, F, Announced
<1>7. CheckMarker(t, Blank) = t
  BY <1>6 DEF CheckMarker
<1>8. TakeLine(r, Blank) = Collect(t, Blank)
  BY <1>5, <1>7 DEF TakeLine
<1> DEFINE e == <<>>
           x == Data(PiecesOf(Blank), "7bit", FALSE)
<1>9. x = Blank
  BY BlankIs DEF PiecesOf, Blank
<1>10. t.data = e
  BY <1>6
<1>11. Append(e, x) = <<x>>
  BY Short1
<1> HIDE DEF e
<1>12. Ciphering(Collect(t, Blank), st, Append(e, x))
  BY <1>2, <1>5, <1>6, <1>10, CipherTaken
<1> QED
  BY <1>8, <1>9, <1>11, <1>12

LEMMA CipherLast ==
  ASSUME NEW r, NEW d, Ciphering(r, EncStack, d)
  PROVE  LET q == TakeLine(r, LastBoundary("enc"))
         IN q.data = d /\ q.open = FALSE /\ q.everything = FALSE
<1> DEFINE b  == "enc"
           e  == <<>>
           q  == Insert(r, LastBoundary(b))
<1>1. IsBound(b) /\ e \in Seq(Bounds) /\ Append(e, b) = EncStack
  BY EncStackIs, NoneType
<1>2. Frame(r, AllHeads, EncStack) /\ r.inBody = TRUE /\ r.hash = 0 /\ r.csig = 0 /\ r.cbody = 0
  BY DEF Ciphering
<1>3. NotAtEnd(r)
  BY <1>2 DEF NotAtEnd
<1> HIDE DEF b, e
<1>4. Frame(r, AllHeads, Append(e, b))
  BY <1>1, <1>2
<1>5. Same(q, r, {"path", "inData", "cbody", "bnd", "nest"}) /\ q.inData = FALSE /\ q.cbody = 0
  BY <1>1, <1>2, <1>3, <1>4, InsertLast
<1>6. q = Insert(r, LastBoundary(b))
  OBVIOUS
<1> HIDE DEF q
<1>7. q.hash = 0 /\ q.data = d /\ q.open = FALSE /\ q.everything = FALSE
  BY <1>2, <1>5 DEF Same, Fields, Ciphering
<1>8. CheckMarker(q, LastBoundary(b)) = q
  BY <1>5 DEF CheckMarker
<1>9. Collect(q, LastBoundary(b)) = q
  BY <1>5, <1>7 DEF Collect
<1>10. TakeLine(r, LastBoundary(b)) = q
  BY <1>6, <1>8, <1>9 DEF TakeLine
<1> QED
  BY <1>7, <1>10 DEF b
==============================================================================
