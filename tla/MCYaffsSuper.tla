----------------------------- MODULE MCYaffsSuper -----------------------------
(***************************************************************************)
(* Instances of YaffsSuper for TLC.                                        *)
(***************************************************************************)
EXTENDS YaffsSuper
=============================================================================
