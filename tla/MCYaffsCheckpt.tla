---------------------------- MODULE MCYaffsCheckpt ----------------------------
(***************************************************************************)
(* Instances of YaffsCheckpt for TLC.  What becomes of a device that a     *)
(* save without room has spoilt is not followed: nothing is claimed of it. *)
(***************************************************************************)
EXTENDS YaffsCheckpt

Symmetric == Permutations(Ids)

NotSpoilt == ~spoilt
=============================================================================
