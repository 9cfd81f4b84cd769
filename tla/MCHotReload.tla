----------------------------- MODULE MCHotReload -----------------------------
(***************************************************************************)
(* HotReload and its history for TLC: administrators are interchangeable.   *)
(***************************************************************************)
EXTENDS HotReloadDrain, TLC

Symmetry == Permutations(Admins)
=============================================================================
