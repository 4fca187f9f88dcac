----------------------------- MODULE SecureSend -----------------------------
(***************************************************************************)
(* What sending a mail promises its author, whatever the event order of    *)
(* Outlook: the mail leaves once and after the author asked for it, it     *)
(* leaves open only if no protection was chosen, and an attempt to protect *)
(* it comes to an end. MailSend is shown to implement this.                *)
(***************************************************************************)
VARIABLES
  choice,     \* the protection the author chose
  requested,  \* the author pressed Send
  phase,      \* composing, protecting or over
  left        \* what left for the recipients

vars == <<choice, requested, phase, left>>

Choices == {"none", "sign", "encrypt"}

TypeOK ==
  /\ choice \in Choices
  /\ requested \in BOOLEAN
  /\ phase \in {"composing", "protecting", "over"}
  /\ left \in {"no", "open", "protected"}

Init ==
  /\ choice = "none"
  /\ requested = FALSE
  /\ phase = "composing"
  /\ left = "no"

Choose ==
  /\ phase = "composing"
  /\ choice' \in Choices
  /\ UNCHANGED <<requested, phase, left>>

Request ==
  /\ phase = "composing"
  /\ requested' = TRUE
  /\ UNCHANGED <<choice, phase, left>>

Protect ==
  /\ phase = "composing" /\ requested /\ choice # "none"
  /\ phase' = "protecting"
  /\ UNCHANGED <<choice, requested, left>>

GiveUp ==
  /\ phase = "protecting"
  /\ phase' = "composing"
  /\ UNCHANGED <<choice, requested, left>>

LeaveProtected ==
  /\ phase = "protecting"
  /\ phase' = "over" /\ left' = "protected"
  /\ UNCHANGED <<choice, requested>>

LeaveOpen ==
  /\ phase = "composing" /\ requested /\ choice = "none"
  /\ phase' = "over" /\ left' = "open"
  /\ UNCHANGED <<choice, requested>>

Discard ==
  /\ phase # "over"
  /\ phase' = "over"
  /\ UNCHANGED <<choice, requested, left>>

EndProtect == GiveUp \/ LeaveProtected \/ (phase = "protecting" /\ Discard)

Next ==
  \/ Choose \/ Request \/ Protect \/ LeaveOpen \/ Discard \/ EndProtect

Spec == Init /\ [][Next]_vars /\ WF_vars(EndProtect)
=============================================================================
