---------------------------- MODULE MCTranslation ----------------------------
(***************************************************************************)
(* Narrow numbers and low stacks for Translation.                          *)
(***************************************************************************)
EXTENDS Translation

\* A program reaches the other numbers by computing.
SomeValues == {-1, 0, 3}
=============================================================================
