----------------------------- MODULE MCMailView -----------------------------
(***************************************************************************)
(* MailView for TLC. Parsers are interchangeable.                          *)
(***************************************************************************)
EXTENDS MailView, TLC

Symmetry == Permutations(Parsers)
=============================================================================
