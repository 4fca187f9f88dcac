---------------------------- MODULE AddressBook ----------------------------
(***************************************************************************)
(* Keys that are configured in the contacts of Outlook: addressbook.cpp.   *)
(* The user opens the key editor, a program of its own, from a contact;    *)
(* what it gives back is stored in the contact, and the recipients of a    *)
(* mail are looked up there for keys to import (KeyCache).                 *)
(***************************************************************************)
EXTENDS Naturals, Sequences, SequencesExt

CONSTANTS
  Contacts,     \* addresses there is a contact for
  Configurable, \* what the editor may give back: keys, "garbage" or "empty"
  MaxEdits      \* how often the editor may be opened

VARIABLES
  contact,      \* address -> what is in its "OpenPGP Key" property
  checked,      \* s_checked_entries
  opened,       \* s_opened_contacts_vec
  editors,      \* address -> what its open_keyadder thread does
  edits         \* how often the editor was opened

bookVars == <<contact, checked, opened, editors, edits>>

BookInit(content, planned) ==
  /\ contact = [a \in Contacts |-> content]
  /\ checked = {} /\ opened = <<>>
  /\ editors = [a \in Contacts |-> "none"] /\ edits = MaxEdits - planned

\* std::remove_if without erase: what is kept moves to the front, and the
\* vector has its length; a place that was moved from is empty
RemoveIf(s, id) ==
  LET kept == SelectSeq(s, LAMBDA x : x # id)
      moved(i) == s[i] # id /\ \E j \in 1..(i - 1) : s[j] = id
  IN [i \in DOMAIN s |-> IF i <= Len(kept) THEN kept[i] ELSE IF moved(i) THEN "" ELSE s[i]]

\* edit_key_o: one editor per contact
EditKey(a) ==
  /\ edits < MaxEdits
  /\ a \notin ToSet(opened)
  /\ opened' = Append(opened, a)
  /\ editors' = [editors EXCEPT ![a] = "open"]
  /\ edits' = edits + 1
  /\ UNCHANGED <<contact, checked>>

\* open_keyadder, when the program ended: with an error or cancelled, or
\* with a result that waits for the UI thread
EditorClosed(a) ==
  /\ editors[a] = "open"
  /\ opened' = RemoveIf(opened, a)
  /\ \E r \in {"none", "result"} : editors' = [editors EXCEPT ![a] = r]
  /\ UNCHANGED <<contact, checked, edits>>

\* update_key_o, for CONFIG_KEY_DONE: all contacts are looked up again
UpdateKey(a) ==
  /\ editors[a] = "result"
  /\ \E data \in Configurable : contact' = [contact EXCEPT ![a] = data]
  /\ checked' = {}
  /\ editors' = [editors EXCEPT ![a] = "none"]
  /\ UNCHANGED <<opened, edits>>

\* check_o: the contacts among the recipients that were not looked at
ToCheck(recips) == (recips \cap Contacts) \ checked
ToImport(recips) == { a \in ToCheck(recips) : contact[a] # "empty" }
=============================================================================
