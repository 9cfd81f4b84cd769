------------------------------- MODULE MCFiles -------------------------------
(***************************************************************************)
(* Files for TLC: the cfg gives every value.                                *)
(***************************************************************************)
EXTENDS Files
=============================================================================
