----------------------------- MODULE MCMailSend -----------------------------
(***************************************************************************)
(* MailSend for TLC. Crypto threads are interchangeable.                   *)
(***************************************************************************)
EXTENDS MailSend, TLC

Symmetry == Permutations(Threads)
=============================================================================
