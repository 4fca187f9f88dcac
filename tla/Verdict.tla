------------------------------ MODULE Verdict -------------------------------
(***************************************************************************)
(* What GpgOL says of a verified mail: Mail::updateSigstate picks the      *)
(* signature that counts, get_signature_level gives it a level from 0 to   *)
(* 4, and getCryptoDetails_o explains it.                                  *)
(*                                                                         *)
(* A uid is [addr, validity, wkd, own, tofu, first, revoked]: own when it  *)
(* is certified by one of the user's ultimately trusted keys, first when   *)
(* one signature was seen. A signature is [uids, validity, status, deVs,   *)
(* secret, smime, summary]: the uids of its key, and what gpg says of it.  *)
(***************************************************************************)
EXTENDS Naturals, Sequences, SequencesExt

CONSTANTS
  DeVsMode,     \* in_de_vs_mode
  Addresses     \* mail addresses

Null  == "null"
NoUid == [addr |-> Null, validity |-> "unknown", wkd |-> FALSE, own |-> FALSE,
          tofu |-> Null, first |-> FALSE, revoked |-> FALSE]
NoSig == [uids |-> <<>>, validity |-> "unknown", status |-> "good", deVs |-> FALSE,
          secret |-> FALSE, smime |-> FALSE, summary |-> {}]

Validities == {"unknown", "never", "marginal", "full", "ultimate"}
Uids == [addr : Addresses \cup {Null}, validity : Validities, wkd : BOOLEAN, own : BOOLEAN,
         tofu : {Null, "conflict", "none", "little", "basic", "large"}, first : BOOLEAN,
         revoked : BOOLEAN]
Signatures ==
  [uids : Seq(Uids), validity : Validities, deVs : BOOLEAN, secret : BOOLEAN, smime : BOOLEAN,
   status : {"good", "bad signature", "no key", "sig expired", "key expired", "general"},
   summary : SUBSET {"Red", "SysError", "SigExpired", "KeyMissing", "KeyRevoked", "KeyExpired",
                     "BadPolicy", "CrlMissing", "CrlTooOld", "TofuConflict"}]

\* What a Mail remembers of its verification: verify is Null, "done" or "error"
NoVerdict == [dec |-> FALSE, verify |-> Null, sigs |-> <<>>,
              signed |-> FALSE, valid |-> FALSE, uid |-> NoUid, sig |-> NoSig]

\* get_uid_for_sender: the last uid with the address
UidFor(sig, addr) ==
  LET i == SelectLastInSeq(sig.uids, LAMBDA u : u.addr = addr)
  IN IF i = 0 THEN NoUid ELSE sig.uids[i]

\* The sender's uid, or that of whom the mail was sent for
SenderUid(sig, from) ==
  IF UidFor(sig, from.sender) = NoUid /\ from.behalf # Null
  THEN UidFor(sig, from.behalf) ELSE UidFor(sig, from.sender)

Known(tofu)  == tofu \in {Null, "basic", "large"}

\* Mutant: marginal trust is enough, however short the history
TrustedAtOnce(sig, uid) ==
  \/ sig.status = "good" /\ uid.wkd /\ sig.validity \in {"unknown", "marginal"}
  \/ uid # NoUid /\ sig.validity \in {"marginal", "full", "ultimate"}

\* Is the signature good enough to say that the mail is from its sender?
Trusted(sig, uid) ==
  \/ sig.status = "good" /\ uid.wkd /\ sig.validity \in {"unknown", "marginal"}
  \/ uid # NoUid /\ sig.validity \in {"full", "ultimate"}
  \/ uid # NoUid /\ sig.validity = "marginal" /\ Known(uid.tofu)

\* updateSigstate: the first trusted signature; else the first one, with the
\* uid of the last. That the mail is valid is never taken back
UpdateSigstate(v, from) ==
  IF from.sender = Null \/ v.verify # "done" THEN v
  ELSE LET first == SelectInSeq(v.sigs, LAMBDA s : Trusted(s, SenderUid(s, from)))
           n == Len(v.sigs)
       IN IF first # 0
          THEN [v EXCEPT !.signed = TRUE, !.valid = TRUE, !.sig = v.sigs[first],
                         !.uid = SenderUid(v.sigs[first], from)]
          ELSE [v EXCEPT !.signed = @ \/ n > 0,
                         !.sig = IF n = 0 THEN NoSig ELSE v.sigs[1],
                         !.uid = IF n = 0 THEN @ ELSE SenderUid(v.sigs[n], from)]

\* level_4_check: 2 for ultimate trust, 1 if certified by the user
Level4(uid) ==
  CASE uid.validity = "ultimate" -> 2
    [] uid.validity = "full" /\ uid.own -> 1
    [] OTHER -> 0

Approved(v) == ~DeVsMode \/ v.sig.deVs

\* Mutant: full trust is as good as a certification by the user
LevelOfFull(v) ==
  IF ~v.signed \/ v.uid = NoUid THEN 0
  ELSE IF v.valid /\ v.uid.validity \in {"full", "ultimate"} /\ Approved(v) THEN 4
  ELSE IF v.valid THEN 2
  ELSE IF v.sig.validity = "marginal" THEN 1 ELSE 0

\* get_signature_level
Level(v) ==
  IF ~v.signed \/ v.uid = NoUid THEN 0
  ELSE IF v.valid /\ Level4(v.uid) # 0 /\ Approved(v) THEN 4
  ELSE IF v.valid /\ v.uid.validity = "full" /\ Approved(v) THEN 3
  ELSE IF v.valid THEN 2
  ELSE IF v.sig.validity = "marginal" THEN 1 ELSE 0

Encrypted(v) == v.dec
Signed(v)    == v.sigs # <<>>

\* getCryptoSummary: "Security Level" or "Trust Level"
Summary(v) ==
  IF Level(v) >= 2 THEN <<IF Encrypted(v) THEN "Security" ELSE "Trust", Level(v)>>
  ELSE IF Encrypted(v) THEN <<"Encrypted">> ELSE <<"Insecure">>

KeyProblems == <<"KeyMissing", "KeyRevoked", "KeyExpired", "BadPolicy", "CrlMissing",
                 "CrlTooOld", "TofuConflict">>

\* What is wrong with the signature or with the key, at level 0
General(v) ==
  IF "Red" \in v.sig.summary THEN "invalid"
  ELSE IF "SysError" \in v.sig.summary \/ ~Signed(v) THEN "error"
  ELSE IF "SigExpired" \in v.sig.summary THEN "expired" ELSE ""
OfKey(v) ==
  LET problem == SelectInSeq(KeyProblems, LAMBDA p : p \in v.sig.summary)
  IN IF problem # 0 THEN KeyProblems[problem]
     ELSE IF v.uid.tofu = "conflict" THEN "TofuConflict"
     ELSE IF v.uid = NoUid THEN "other address"
     ELSE IF General(v) = "" /\ (v.sig.validity # "never" \/ v.sig.summary = {})
          THEN "not certified"
     ELSE IF v.uid.revoked THEN "address revoked"
     ELSE IF v.sig.validity = "never" THEN "not trustworthy" ELSE ""
Blame(v) ==
  IF General(v) = "invalid" /\ v.sig.status = "bad signature" THEN {"invalid"}
  ELSE {General(v), OfKey(v)} \ {""}

\* getCryptoDetails_o: the reasons it names, for a mail that is signed
Reasons(v) ==
  LET l == Level(v) IN
  CASE l = 4 -> CASE Level4(v.uid) = 2 -> {IF v.sig.secret THEN "you" ELSE "certifier"}
                  [] Level4(v.uid) = 1 -> {"certified by you"}
                  [] OTHER -> {}
    [] l = 3 -> {IF v.sig.smime THEN "issuer" ELSE "several people"}
    [] l = 2 -> {IF v.uid.wkd THEN "provider"
                 ELSE IF v.uid.tofu = Null THEN "some people" ELSE "history"}
    [] l = 1 -> (IF v.uid.first THEN {"first time"} ELSE {})
                  \cup (IF v.uid.tofu = "little" /\ ~v.uid.first THEN {"little history"} ELSE {})
    [] OTHER -> Blame(v)
=============================================================================
