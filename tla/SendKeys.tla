------------------------------ MODULE SendKeys ------------------------------
(***************************************************************************)
(* To whom a composed mail is encrypted and sent: the recipients read from *)
(* Outlook (oomhelp.cpp, Mail::updateOOMData_o), the keys found for them   *)
(* (CryptController::resolve_keys) and the split of mails with BCC         *)
(* recipients (Mail::splitAndSend_o). MailSend has the protocol of Send    *)
(* and the crypto threads; here a Send, the crypto of a mail and the split *)
(* are one step each.                                                      *)
(*                                                                         *)
(* External: Outlook's recipients, the resolver dialog (resolver.exe).     *)
(***************************************************************************)
EXTENDS Naturals, Sequences, FiniteSets, SequencesExt

CONSTANTS
  Entries,    \* what Outlook knows a recipient as, besides the lists
  Sources,    \* entry -> its addresses in the order they are looked up: its
              \* SMTP address, Exchange's proxy address and the Exchange user's
  Groups,     \* distribution lists
  Members,    \* list -> the sequence of what is in it
  EncKeys,    \* <<address, protocol>> of the usable encryption keys in the cache
  SigKeys,    \* ... of the usable signing keys
  Settings,   \* the options [smime, preferSmime, auto, split]
  Composed,   \* mails: [oom, encrypt, sign, account, identity]; the identity
              \* is the addresses found for it, in the order of the lookup
  CurrentUser,
  MaxCopies,  \* bound: copies of the mail
  MaxCancels  \* how often the user cancels and writes the recipients anew

Entered == {"to", "cc", "bcc"}     \* what the user makes of a recipient
Types == Entered \cup {"orig"}      \* the sender is added as the originator

ASSUME ListAssumption ==      \* a list is not in itself
  /\ Entries \cap Groups = {} /\ IsFiniteSet(Groups)
  /\ \A g \in Groups : Members[g] \in Seq(Entries \cup Groups)
  /\ \E depth \in [Groups -> 0..Cardinality(Groups)] : \A g \in Groups :
       \A i \in DOMAIN Members[g] : Members[g][i] \in Groups => depth[Members[g][i]] < depth[g]
ASSUME ComposedAssumption ==
  \A c \in Composed :
    c.oom \in Seq([addr : Entries \cup Groups, type : Entered]) /\ c.encrypt \in BOOLEAN /\ c.sign \in BOOLEAN
ASSUME CopiesAssumption == MaxCopies \in Nat

VARIABLES
  opt,
  mail,       \* 0 is the mail the user writes, the others are copies of it
  cancels,
  meant       \* ghost: the addresses the user sent the mail to

vars == <<opt, mail, cancels, meant>>

Mails  == 0..MaxCopies
Protos == {"pgp", "cms"}
NoAddr == ""
Unresolved == "/o=ex"      \* what Exchange gives for an address
NoKey == <<NoAddr, "none">>
NoMail == [state |-> "absent"]
-----------------------------------------------------------------------------
(* Recipients in the object model.                                         *)

\* The SMTP address, or the fallbacks; of lists and of senders as well
FirstKnown(addresses) ==
  LET i == SelectInSeq(addresses, LAMBDA a : a # NoAddr)
  IN IF i = 0 THEN NoAddr ELSE addresses[i]
Address == [e \in Entries |-> FirstKnown(Sources[e])]

\* try_resolve_group: lists are resolved recursively; a member without an
\* address is left out
try_resolve_group[e \in Entries \cup Groups] ==
  IF e \in Groups
  THEN FlattenSeq([i \in DOMAIN Members[e] |-> try_resolve_group[Members[e][i]]])
  ELSE IF Address[e] = NoAddr THEN <<>> ELSE <<Address[e]>>
resolved == [g \in Groups |-> try_resolve_group[g]]

Recipient(mbox, type, index) == [mbox |-> mbox, type |-> type, keys |-> {}, index |-> index]

\* get_oom_recipients: members of a list have no index of their own. A
\* recipient without an address stays one
GetRecipients(oom) ==
  FlattenSeq([i \in DOMAIN oom |->
    IF oom[i].addr \notin Groups THEN <<Recipient(Address[oom[i].addr], oom[i].type, i)>>
    ELSE LET as == resolved[oom[i].addr]
         IN [j \in DOMAIN as |-> Recipient(as[j], oom[i].type, 0)]])

Addresses(oom) == { r.mbox : r \in ToSet(GetRecipients(oom)) }

\* remove_oom_recipient: the first recipient with the address, if it has an index
Removable(oom, mbox) ==
  { r.index : r \in { x \in ToSet(GetRecipients(oom)) : x.mbox = mbox /\ x.index # 0 } }
FirstOf(S) == CHOOSE i \in S : \A j \in S : i <= j

\* Mutant: the recipients are counted from zero
RemoveFromZero(oom, mbox) ==
  LET n == FirstOf(Removable(oom, mbox)) - 1
  IN IF n = 0 THEN oom ELSE RemoveAt(oom, n)

RemoveRecipient(oom, mbox) == RemoveAt(oom, FirstOf(Removable(oom, mbox)))

\* Outlook finds who has an address
Entry == [a \in { Address[e] : e \in Entries } |-> CHOOSE e \in Entries : Address[e] = a]

\* The recipients at these positions, in their order
Kept(recps, I) ==
  FlattenSeq([i \in DOMAIN recps |-> IF i \in I THEN <<recps[i]>> ELSE <<>>])
OfTypes(recps, types) == { i \in DOMAIN recps : recps[i].type \in types }

\* set_oom_recipients: the originator is only known to GpgOL
SetRecipients(recps) ==
  LET them == Kept(recps, OfTypes(recps, Entered))
  IN [i \in DOMAIN them |-> [addr |-> Entry[them[i].mbox], type |-> them[i].type]]
-----------------------------------------------------------------------------
(* Mail::updateOOMData_o.                                                  *)

\* The account the mail is sent from, or another identity chosen for it: with
\* S/MIME the identity is taken whether or not there is a key for it
ChooseSender(account, addresses) ==
  LET identity == FirstKnown(addresses) IN
  IF account \notin {NoAddr, Unresolved} /\ identity \notin {NoAddr, Unresolved}
  THEN IF <<identity, "pgp">> \in SigKeys \/ opt.smime THEN identity ELSE account
  ELSE IF account = Unresolved /\ identity \notin {NoAddr, Unresolved} THEN identity
  ELSE IF account # NoAddr THEN account
  ELSE IF identity # NoAddr THEN identity
  ELSE CurrentUser

\* Recipients that were set explicitly are kept; the sender is one of them
UpdateOOMData(m) ==
  LET sender == ChooseSender(m.account, m.identity)
      recps == IF m.set THEN m.cached ELSE GetRecipients(m.oom)
  IN [m EXCEPT !.sender = sender,
               !.cached = IF \E r \in ToSet(recps) : r.mbox = sender THEN recps
                          ELSE Append(recps, Recipient(sender, "orig", 0))]
-----------------------------------------------------------------------------
(* CryptController: the keys.                                              *)

Proto(k) == k[2]
EncryptionKeys(a, p) == {<<a, p>>} \cap EncKeys
SigningKey(a, p) == IF <<a, p>> \in SigKeys THEN <<a, p>> ELSE NoKey

Op(m) == [recps |-> m.cached, signers |-> m.signers, proto |-> "unknown", asked |-> FALSE]
Signs(o, p) == \E k \in o.signers : Proto(k) = p

\* Mutant: a signing key of any protocol will do
IsResolvedAnySigner(m, o) ==
  m.encrypt => \A r \in ToSet(o.recps) :
    r.keys # {} /\ (m.sign => o.signers \ {NoKey} # {})

\* is_resolved
IsResolved(m, o) ==
  m.encrypt => \A r \in ToSet(o.recps) :
    r.keys # {} /\ (m.sign => \A k \in r.keys : Signs(o, Proto(k)))

\* get_resolved_protocol: one protocol for all keys that were set before
ResolvedProtocol(m, o) ==
  LET fits(p) == \A r \in ToSet(o.recps) :
                   r.keys # {} /\ (\A k \in r.keys : Proto(k) = p) /\ (m.sign => Signs(o, p))
  IN IF m.encrypt /\ o.recps # <<>> /\ \E p \in Protos : fits(p)
     THEN CHOOSE p \in Protos : fits(p) ELSE "unknown"

\* resolve_through_protocol: a signing key of another protocol is kept
ThroughProtocol(m, o, p) ==
  LET key == SigningKey(m.sender, p)
  IN [recps   |-> [i \in DOMAIN o.recps |->
                     IF m.encrypt THEN [o.recps[i] EXCEPT !.keys = EncryptionKeys(o.recps[i].mbox, p)]
                     ELSE o.recps[i]],
      signers |-> IF m.sign /\ (o.signers = {} \/ \E k \in o.signers : Proto(k) # p)
                  THEN o.signers \cup {key} ELSE o.signers,
      proto   |-> p,
      asked   |-> o.asked]

\* resolve_keys_cached: the preferred protocol, then the other
ResolveCached(m, o) ==
  LET cms1 == ThroughProtocol(m, o, "cms")
      try1 == opt.smime /\ opt.preferSmime
      pgp  == ThroughProtocol(m, IF try1 THEN cms1 ELSE o, "pgp")
      cms2 == ThroughProtocol(m, pgp, "cms")
  IN IF try1 /\ IsResolved(m, cms1) THEN {cms1}
     ELSE IF IsResolved(m, pgp) THEN {pgp}
     ELSE IF opt.smime /\ ~opt.preferSmime /\ IsResolved(m, cms2) THEN {cms2}
     ELSE {}

\* parse_output and lookup_fingerprints, for what the resolver prints when the
\* user approved keys: one protocol, a key for everybody. Without a signing
\* key the mail is not signed
FromResolver(m, o) ==
  LET protos == IF opt.smime THEN Protos ELSE {"pgp"}
      all(p) == m.encrypt => \A r \in ToSet(o.recps) : EncryptionKeys(r.mbox, p) # {}
  IN { [ThroughProtocol(m, [o EXCEPT !.signers = {}, !.asked = TRUE], p)
          EXCEPT !.signers = @ \ {NoKey}] : p \in { x \in protos : all(x) } }

\* resolve_keys without drafts: what was resolved before is not resolved again
ResolveKeys(m) ==
  LET o == Op(m)
      p == ResolvedProtocol(m, o)
      cached == IF opt.auto THEN ResolveCached(m, o) ELSE {}
  IN IF p # "unknown" THEN {[o EXCEPT !.proto = p]}
     ELSE IF cached # {} THEN cached
     ELSE FromResolver(m, o)

\* Mutant: a hidden recipient alone is enough to split
NeedsSplitHidden(o) ==
  opt.split /\ \E i \in 1..(Len(o.recps) - 1) : o.recps[i].type = "bcc"

\* do_crypto: are there BCC and other recipients? The last one is not looked at
NeedsSplit(o) ==
  LET seen == { o.recps[i].type : i \in 1..(Len(o.recps) - 1) }
  IN opt.split /\ "bcc" \in seen /\ {"to", "cc"} \cap seen # {}
-----------------------------------------------------------------------------
\* The addresses of the mail and of the copies there are of it
Delivered ==
  UNION { Addresses(mail[x].oom) : x \in { y \in Mails : mail[y] # NoMail } }

Init ==
  /\ opt \in Settings
  /\ \E c \in Composed :
       /\ mail = [x \in Mails |-> IF x # 0 THEN NoMail
                    ELSE [oom |-> c.oom, encrypt |-> c.encrypt, sign |-> c.sign,
                          account |-> c.account, identity |-> c.identity, sender |-> NoAddr,
                          cached |-> <<>>, set |-> FALSE, signers |-> {},
                          state |-> "compose", proto |-> "unknown", asked |-> FALSE,
                          to |-> {}, by |-> {}]]
       /\ meant = Addresses(c.oom)
  /\ cancels = 0

\* The user sends the mail
Send ==
  /\ mail[0].state = "compose"
  /\ mail' = [mail EXCEPT ![0] = [UpdateOOMData(@) EXCEPT !.state = "crypto"]]
  /\ meant' = Delivered
  /\ UNCHANGED <<opt, cancels>>

\* resolving_done: the keys are stored with the recipients in the mail. Those
\* from the resolver are not, when the mail is only signed
Done(m, o) ==
  IF o.asked /\ ~m.encrypt THEN m
  ELSE [m EXCEPT !.cached = o.recps, !.set = (o.recps # <<>>), !.signers = o.signers]

\* do_crypto: encrypts and signs with the keys of its protocol
Encrypted(m, o) ==
  [Done(m, o) EXCEPT
     !.state = "sent", !.proto = o.proto, !.asked = o.asked,
     !.to = IF m.encrypt THEN UNION { r.keys : r \in ToSet(o.recps) } ELSE {},
     !.by = IF m.sign THEN { k \in o.signers : Proto(k) = o.proto } ELSE {}]

Crypto(x) ==
  /\ mail[x].state = "crypto"
  /\ \E o \in ResolveKeys(mail[x]) :
       mail' = [mail EXCEPT ![x] = IF NeedsSplit(o) THEN [Done(@, o) EXCEPT !.state = "split"]
                                   ELSE Encrypted(@, o)]
  /\ UNCHANGED <<opt, cancels, meant>>

\* Mutant: the recipients stay set
KeepRecipients(m) == m

\* resetRecipients
ResetRecipients(m) == [m EXCEPT !.cached = <<>>, !.signers = {}, !.set = FALSE]

\* The resolver or the crypto is cancelled, or fails. The mail can be sent
\* again, after its recipients were changed; a copy stays unsent
Cancel(x) ==
  /\ mail[x].state = "crypto" /\ cancels < MaxCancels
  /\ cancels' = cancels + 1
  /\ mail' = [mail EXCEPT ![x] = [ResetRecipients(@)
                EXCEPT !.state = IF x = 0 THEN "compose" ELSE "unsent"]]
  /\ UNCHANGED <<opt, meant>>

NoKeysCancel(x) ==
  /\ mail[x].state = "crypto" /\ ResolveKeys(mail[x]) = {}
  /\ mail' = [mail EXCEPT ![x] = [ResetRecipients(@)
                EXCEPT !.state = IF x = 0 THEN "given up" ELSE "unsent"]]
  /\ UNCHANGED <<opt, cancels, meant>>

\* The user edits the recipients after a cancelled Send
Edit ==
  /\ mail[0].state = "compose" /\ cancels > 0
  /\ \E oom \in { c.oom : c \in Composed } : mail' = [mail EXCEPT ![0].oom = oom]
  /\ UNCHANGED <<opt, cancels, meant>>

OfProto(keys, p) == { k \in keys : Proto(k) = p }

\* The first BCC recipient with keys, or 0
FirstBcc(recps) == SelectInSeq(recps, LAMBDA r : r.type = "bcc" /\ r.keys # {})

\* newRecipientsForUs: BCC recipients before the first with keys are dropped,
\* and all when there is none
ForUs(m) ==
  LET n == FirstBcc(m.cached)
  IN Kept(m.cached, OfTypes(m.cached, Types \ {"bcc"})
                    \cup { i \in DOMAIN m.cached : n # 0 /\ i > n })
\* newRecipientsForCopy
ForCopy(m) == Kept(m.cached, OfTypes(m.cached, {"orig"}) \cup {FirstBcc(m.cached)})

\* splitCopyMailCallback: a member of a list cannot be removed; then all
\* recipients are set
Split(m, us, theirs) ==
  LET n == FirstBcc(m.cached)
      signers == IF n = 0 THEN m.signers
                 ELSE OfProto(m.signers, Proto(CHOOSE k \in m.cached[n].keys : TRUE))
  IN [us   |-> [m EXCEPT !.cached = us, !.set = (us # <<>>),
                         !.oom = IF n = 0 THEN @
                                 ELSE IF Removable(@, m.cached[n].mbox) = {} THEN SetRecipients(us)
                                 ELSE RemoveRecipient(@, m.cached[n].mbox)],
      copy |-> [m EXCEPT !.cached = theirs, !.set = (theirs # <<>>), !.signers = signers,
                         !.oom = SetRecipients(theirs)]]

\* SEND_MULTIPLE_MAILS, splitAndSend_o: the copy is sent, then the mail itself
SplitAndSend ==
  /\ mail[0].state = "split"
  /\ \E c \in Mails :
       /\ mail[c] = NoMail /\ \A x \in 0..(c - 1) : mail[x] # NoMail
       /\ \E us \in {ForUs(mail[0])}, theirs \in {ForCopy(mail[0])} :
          \E s \in {Split(mail[0], us, theirs)} :
            mail' = [mail EXCEPT ![c] = [UpdateOOMData(s.copy) EXCEPT !.state = "crypto"],
                                 ![0] = [UpdateOOMData(s.us) EXCEPT !.state = "crypto"]]
  /\ UNCHANGED <<opt, cancels, meant>>

System == SplitAndSend \/ \E x \in Mails : Crypto(x) \/ NoKeysCancel(x)

Next == Send \/ Edit \/ System \/ \E x \in Mails : Cancel(x)

\* Crypto threads run, and the UI thread handles what is posted
Fairness == WF_vars(System)

Spec == Init /\ [][Next]_vars /\ Fairness
-----------------------------------------------------------------------------
Sent == { x \in Mails : mail[x].state = "sent" }
Owner(k) == k[1]

\* Whoever an encrypted mail is delivered to can read it, and nobody else can,
\* but its sender: the recipients as Outlook has them and the keys the mail is
\* encrypted to do not come apart, although the keys were found for an earlier
\* list of recipients, lists were resolved, the mail was split, or a Send was
\* cancelled and the recipients edited.
ReadableByRecipients ==
  \A x \in Sent : mail[x].encrypt =>
    { Owner(k) : k \in mail[x].to } = Addresses(mail[x].oom) \cup {mail[x].sender}

\* Nobody is forgotten and nobody added: the mail and its copies, sent, under
\* way or left unsent, have the recipients the user sent the mail to.
NobodyForgotten ==
  mail[0].state # "compose" => meant = Delivered

\* An encrypted mail uses keys of one protocol. If it is also to be signed, and
\* the user was not asked, then the sender's key of that protocol signs it:
\* the fallbacks from one protocol to the other leave no signer out, and no
\* keys of the first protocol behind.
OneProtocol ==
  \A x \in Sent : mail[x].encrypt =>
    /\ \A k \in mail[x].to : Proto(k) = mail[x].proto
    /\ mail[x].sign /\ ~mail[x].asked => mail[x].by = {<<mail[x].sender, mail[x].proto>>}

\* Splitting ends: a mail that was sent, with however many hidden recipients,
\* is at last sent, given up, or back with the user; it does not come back to
\* be split again for recipients that have their copy.
Settles ==
  mail[0].state \in {"crypto", "split"} ~>
    \A x \in Mails : mail[x].state \notin {"crypto", "split"}

\* common_indep.h:208, splitBCCMails: "Split BCC recipients in their own
\* mails." With the option, an encrypted mail that goes to a BCC recipient
\* goes to nobody else.
BccAlone ==
  opt.split => \A x \in Sent : \A i, j \in DOMAIN mail[x].oom :
    mail[x].encrypt /\ mail[x].oom[i].type = "bcc" => i = j
=============================================================================
