------------------------------ MODULE MCYaffsOne ------------------------------
(***************************************************************************)
(* Instances of YaffsOne for TLC.                                          *)
(***************************************************************************)
EXTENDS YaffsOne

Symmetric == Permutations(Names) \cup Permutations(Vals)
=============================================================================
