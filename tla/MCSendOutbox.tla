---------------------------- MODULE MCSendOutbox ----------------------------
(***************************************************************************)
(* TLC instances of SendOutbox.                                            *)
(***************************************************************************)
EXTENDS SendOutbox, TLC

Symmetry == Permutations(Senders)
==============================================================================
