----------------------------- MODULE Categories -----------------------------
(***************************************************************************)
(* The Outlook categories by which GpgOL shows what it found out about a   *)
(* mail (categorymanager.cpp, Mail::updateCategories_o). They stand in the *)
(* open item and must not be stored with it; a category an item shows must *)
(* be in the list of its store, where GpgOL keeps it as long as it counts  *)
(* mails that use it. Verdict has the category itself.                     *)
(*                                                                         *)
(* All of it runs in the UI thread: a handler is one step. External:       *)
(* Outlook, which loads, saves, closes and unloads items, and the parser.  *)
(***************************************************************************)
EXTENDS Verdict, FiniteSets

CONSTANTS
  Mails,
  Stores,
  Contents,    \* what the mails may be: mail -> [store, from, junk, smime, draft, dec,
               \* sigs, verify], smime is TRUE for an S/MIME mail with attachments
  Leftovers,   \* the sets of categories an item may be stored with
  Changes,     \* may a parse find something else than the one before it?
  MaxSaves,    \* bound: saves of mails as they are shown
  MaxReads,    \* bound: parses of a mail
  MaxPrints,   \* bound: mails that are loaded to be printed
  MaxRestarts  \* bound: ends of Outlook without a shutdown

MailContents == [store : Stores, from : [sender : Addresses \cup {Null},
                                         behalf : Addresses \cup {Null}],
                 junk : BOOLEAN, smime : BOOLEAN, draft : BOOLEAN, dec : BOOLEAN,
                 sigs : Seq(Signatures), verify : {Null, "done", "error"}]

ASSUME MailsAssumption    == IsFiniteSet(Mails)
ASSUME StoresAssumption   == Null \notin Stores
ASSUME ContentsAssumption == Contents \subseteq [Mails -> MailContents]

MayBe(m) == {c[m] : c \in Contents}

VARIABLES
  content,     \* mail -> what it is, with what its last parse finds
  view,        \* mail -> the Mail object of the open item
  stored,      \* mail -> the categories in the store
  refs,        \* store -> mCategoryStoreMap[store], a bag
  listed,      \* store -> GpgOL's categories in the store's list
  printing,    \* s_entry_ids_printing
  saves, reads, prints, restarts

counters == <<saves, reads, prints, restarts>>
vars == <<content, view, stored, refs, listed, printing, counters>>

User == <<"user">>         \* a category that is not GpgOL's
Enc  == <<"encrypted">>
Junk == <<"junk">>
NoCat == <<>>
LevelOf(l, addr) == <<"level", l, addr>>
IsLevel(c) == c[1] = "level"
Ours(cats) == {c \in cats : c # User}

\* The Mail object with its item: was is what the item was read with
Closed == [phase |-> "none", item |-> {}, was |-> {}, print |-> FALSE, junk |-> FALSE,
           store |-> Null, cat |-> NoCat, v |-> NoVerdict]
Open(m) == view[m].phase # "none"

\* The state a handler of m works on: its Mail object, and its store's lists
State(m) == LET s == content[m].store
            IN [mail |-> view[m], refs |-> refs[s], listed |-> listed[s]]
Put(m, w) == LET s == content[m].store
             IN /\ view' = [view EXCEPT ![m] = w.mail]
                /\ refs' = [refs EXCEPT ![s] = w.refs]
                /\ listed' = [listed EXCEPT ![s] = w.listed]
-----------------------------------------------------------------------------
(* The category manager.                                                   *)

\* In the store's list
create_category(w, c) == [w EXCEPT !.listed = @ \cup {c}]
delete_category(w, c) == [w EXCEPT !.listed = @ \ {c}]
delete_all_categories == [s \in Stores |-> {}]

\* In the item, with exactMatch and by the prefix "GpgOL: "
add_category(w, c) == [w EXCEPT !.mail.item = @ \cup {c}]
remove_category(w, c) == [w EXCEPT !.mail.item = @ \ {c}]
remove_prefixed(w) == [w EXCEPT !.mail.item = @ \ Ours(@)]

\* addCategoryToMail: a category nobody uses is put into the store's list
registerCategory(w, c) == [w EXCEPT !.refs = @ (+) SetToBag({c})]
AddCategory(w, c) ==
  add_category(registerCategory(IF BagIn(c, w.refs) THEN w ELSE create_category(w, c), c), c)

\* Mutant: the category goes when one mail still uses it
UnregisterEarly(w, c) ==
  LET fewer == [w EXCEPT !.refs = @ (-) SetToBag({c})]
  IN IF BagIn(c, w.refs) /\ w.refs[c] =< 2 THEN delete_category(fewer, c) ELSE fewer

\* unregisterCategory: the last user takes it from the list
unregisterCategory(w, c) ==
  LET fewer == [w EXCEPT !.refs = @ (-) SetToBag({c})]
  IN IF BagIn(c, w.refs) /\ w.refs[c] = 1 THEN delete_category(fewer, c) ELSE fewer

\* removeCategory; a mail that knows no store has registered nothing
RemoveCategory(w, c) ==
  LET bare == remove_category(w, c)
  IN IF w.mail.store = Null THEN bare ELSE unregisterCategory(bare, c)

\* removeCategories_o
RemoveCategories(w) ==
  LET known == w.mail.store # Null
      one == IF known /\ w.mail.cat # NoCat THEN RemoveCategory(w, w.mail.cat) ELSE w
      two == IF known /\ w.mail.v.dec THEN RemoveCategory(one, Enc) ELSE one
  IN IF w.mail.junk THEN RemoveCategory(two, Junk) ELSE two
-----------------------------------------------------------------------------
(* What a mail shows.                                                      *)

ShowLevel(w, m) ==
  LET c == LevelOf(Level(w.mail.v), w.mail.v.uid.addr)
  IN [AddCategory(w, c) EXCEPT !.mail.store = content[m].store, !.mail.cat = c]

\* Mutant: a level of an earlier time stays
HideNothing(w) == w
HideOurs(w) == remove_prefixed(w)

\* updateCategories_o
UpdateCategories(w, m) ==
  LET level == IF w.mail.v.valid THEN ShowLevel(w, m) ELSE HideOurs(w)
      enc == IF w.mail.v.dec
             THEN [AddCategory(level, Enc) EXCEPT !.mail.store = content[m].store]
             ELSE remove_category(level, Enc)
  IN IF w.mail.print THEN w ELSE enc

\* parsingDone_o: the results so far, their verdict, the categories
ParsingDone(w, m, preview) ==
  LET dec == [w.mail.v EXCEPT !.dec = content[m].dec]
      all == IF preview THEN dec
             ELSE [dec EXCEPT !.sigs = content[m].sigs, !.verify = content[m].verify]
  IN UpdateCategories([w EXCEPT !.mail.v = UpdateSigstate(all, content[m].from),
                                !.mail.phase = IF preview THEN "preview" ELSE "shown"], m)

\* A mail is loaded and read: print after BeforePrint. A junk mail whose
\* attachments are blocked is not parsed, one to be printed at once
Load(m, print) ==
  LET mm == [Closed EXCEPT !.phase = "reading", !.item = stored[m], !.was = stored[m],
                           !.print = print \/ m \in printing]
      w == [State(m) EXCEPT !.mail = mm]
  IN /\ ~Open(m) /\ reads[m] < MaxReads
     /\ print => prints < MaxPrints
     /\ \/ /\ content[m].junk
           /\ Put(m, [AddCategory(w, Junk) EXCEPT !.mail.junk = TRUE, !.mail.phase = "junk",
                                                  !.mail.store = content[m].store])
           /\ UNCHANGED printing
        \/ /\ ~content[m].junk
           /\ Put(m, IF mm.print THEN ParsingDone(w, m, FALSE) ELSE w)
           /\ printing' = IF print THEN printing \cup {m} ELSE printing
     /\ reads' = [reads EXCEPT ![m] = @ + 1]
     /\ prints' = IF print THEN prints + 1 ELSE prints
     /\ UNCHANGED <<content, stored, saves, restarts>>

\* The parser has decrypted, and goes on to verify
Preview(m) ==
  /\ view[m].phase = "reading" /\ content[m].dec
  /\ Put(m, ParsingDone(State(m), m, TRUE))
  /\ UNCHANGED <<content, stored, printing, counters>>

Done(m) ==
  /\ view[m].phase \in {"reading", "preview"}
  /\ Put(m, ParsingDone(State(m), m, FALSE))
  /\ UNCHANGED <<content, stored, printing, counters>>

\* The same mail with other results
Alike(c, d) ==
  \A field \in {"store", "from", "junk", "smime", "draft"} : c[field] = d[field]

\* A mail that was closed, or a draft that was closed without changes, is read
\* again before it is unloaded: the same Mail object
Again(m) ==
  /\ view[m].phase = "closed" \/ (view[m].phase = "shown" /\ content[m].draft)
  /\ ~content[m].junk /\ ~view[m].print
  /\ reads[m] < MaxReads
  /\ \E c \in MayBe(m) : /\ Alike(c, content[m]) /\ (Changes \/ c = content[m])
                         /\ content' = [content EXCEPT ![m] = c]
  /\ view' = [view EXCEPT ![m].phase = "reading", ![m].item = stored[m], ![m].was = stored[m]]
  /\ reads' = [reads EXCEPT ![m] = @ + 1]
  /\ UNCHANGED <<stored, refs, listed, printing, saves, prints, restarts>>

\* Outlook saves an open mail, and the Write event lets it store what it shows:
\* for a forward in the same loop, then in the Save of the revert that follows,
\* or of the shutdown, where the plaintext is gone but the categories are not
Save(m) ==
  /\ Open(m) /\ saves < MaxSaves
  /\ stored' = [stored EXCEPT ![m] = view[m].item]
  /\ saves' = saves + 1
  /\ UNCHANGED <<content, view, refs, listed, printing, reads, prints, restarts>>

\* Mutant: saved as it is shown
SavedAsShown(w, m) == [saved |-> w.mail.item, after |-> UpdateCategories(RemoveCategories(w), m)]

\* An S/MIME mail with attachments is saved without its categories
SavedBare(w, m) == LET bare == RemoveCategories(w)
                   IN [saved |-> bare.mail.item, after |-> UpdateCategories(bare, m)]

\* Mail::close, with the changes discarded
Close(m) ==
  /\ Open(m) /\ view[m].phase # "closed" /\ ~content[m].draft
  /\ LET save == SavedBare(State(m), m)
         left == IF content[m].smime THEN save.saved ELSE stored[m]
     IN /\ stored' = [stored EXCEPT ![m] = left]
        /\ Put(m, [(IF content[m].smime THEN save.after ELSE State(m))
                     EXCEPT !.mail.phase = "closed", !.mail.item = left, !.mail.was = left])
  /\ printing' = printing \ {m}
  /\ UNCHANGED <<content, counters>>

\* Unload: the destructor of Mail
Unload(m) ==
  /\ Open(m)
  /\ Put(m, [RemoveCategories(State(m)) EXCEPT !.mail = Closed])
  /\ UNCHANGED <<content, stored, printing, counters>>

\* Outlook ends without a shutdown; its next start clears GpgOL's categories
\* from the lists
Restart ==
  /\ restarts < MaxRestarts
  /\ restarts' = restarts + 1
  /\ view' = [m \in Mails |-> Closed]
  /\ refs' = [s \in Stores |-> EmptyBag]
  /\ listed' = delete_all_categories
  /\ printing' = {}
  /\ UNCHANGED <<content, stored, saves, reads, prints>>

Init ==
  /\ content \in Contents
  /\ stored \in [Mails -> Leftovers]
  /\ view = [m \in Mails |-> Closed]
  /\ refs = [s \in Stores |-> EmptyBag]
  /\ listed = [s \in Stores |-> {}]
  /\ printing = {}
  /\ saves = 0 /\ reads = [m \in Mails |-> 0] /\ prints = 0 /\ restarts = 0

Next == \/ \E m \in Mails : \/ \E print \in BOOLEAN : Load(m, print)
                            \/ Preview(m) \/ Done(m) \/ Again(m) \/ Save(m)
                            \/ Close(m) \/ Unload(m)
        \/ Restart
Spec == Init /\ [][Next]_vars
-----------------------------------------------------------------------------
\* A category that GpgOL put on an open mail is in the list of the store, how
\* ever many mails share it and in whatever order they are closed: Outlook
\* shows the other ones without a color (unregisterCategory)
ListedWhileShown ==
  \A m \in Mails :
    Open(m) => Ours(view[m].item \ view[m].was) \subseteq listed[content[m].store]

\* What its parse found makes a mail valid
IsValid(c) == /\ c.from.sender # Null /\ c.verify = "done"
              /\ \E i \in DOMAIN c.sigs : Trusted(c.sigs[i], SenderUid(c.sigs[i], c.from))

LevelsIn(cats) == {c \in cats : IsLevel(c)}

\* After a parse a mail says that it was encrypted exactly if the parse undid an
\* encryption. It shows its own level exactly if a signature makes it valid, the
\* only level that GpgOL adds; without one it shows no level at all, not even
\* one it was stored with (updateCategories_o). The tooltip says the same
\* (getCryptoSummary). That a valid mail keeps a level it was stored with, of
\* whatever sender, is what the code does
ShowsVerdict ==
  \A m \in Mails :
    LET w   == view[m]
        own == IF w.v.valid THEN {LevelOf(Level(w.v), w.v.uid.addr)} ELSE {}
    IN w.phase \in {"preview", "shown"} /\ ~w.print
       => /\ (Enc \in w.item) = content[m].dec
          /\ own \subseteq w.item
          /\ LevelsIn(w.item \ IF w.v.valid THEN w.was ELSE {}) \subseteq own
          /\ w.v.valid = (Summary(w.v)[1] \in {"Security", "Trust"})
          /\ w.phase = "shown" => w.v.valid = IsValid(content[m])

\* The signature and the address that a category vouches for
Vouches(u, sig, l) ==
  CASE l = 4 -> u.validity = "ultimate" \/ (u.validity = "full" /\ u.own)
    [] l = 3 -> u.validity = "full"
    [] l = 2 -> \/ u.wkd /\ sig.status = "good"
                \/ sig.validity \in {"full", "ultimate"}
                \/ sig.validity = "marginal" /\ u.tofu \notin {"little", "conflict"}
    [] OTHER -> FALSE

\* A level names the sender, or whom the mail was sent for, and rests on one
\* signature of the mail, by a key with that address, that is good for the
\* level: the signature and the user id are never those of two signatures
\* (updateSigstate sets m_sig and m_uid in a loop that it leaves early)
LevelEarned ==
  \A m \in Mails :
    \A c \in view[m].item \ view[m].was :
      IsLevel(c) =>
        \E s \in DOMAIN content[m].sigs :
          LET sig == content[m].sigs[s]
          IN \E i \in DOMAIN sig.uids :
               /\ sig.uids[i].addr = c[3]
               /\ c[3] \in {content[m].from.sender, content[m].from.behalf}
               /\ Vouches(sig.uids[i], sig, c[2])
               /\ c[2] \in {3, 4} /\ DeVsMode => sig.deVs

\* GpgOL has an explanation for the level of every mail with one signature:
\* none of the branches that fall through is reached (getCryptoDetails_o)
Explained ==
  \A m \in Mails :
    view[m].phase = "shown" /\ Signed(view[m].v) /\ view[m].v.verify = "done" /\ Len(view[m].v.sigs) = 1
      => Reasons(view[m].v) # {}

\* What GpgOL itself stores, with the save in which Mail::close ends an S/MIME
\* mail, has none of the categories that it has put on the item since the item
\* was read, and the user's; though Outlook may have saved the item with them
\* in between (Save)
SavedClean ==
  [][\A m \in Mails : stored'[m] # stored[m] /\ saves' = saves
                        => /\ stored'[m] \subseteq view[m].was
                           /\ User \in view[m].was => User \in stored'[m]]_vars
=============================================================================
