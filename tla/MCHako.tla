------------------------------- MODULE MCHako --------------------------------
(***************************************************************************)
(* Hako for TLC: clients are interchangeable; documents are not, since a     *)
(* liveness property follows each of them.                                  *)
(***************************************************************************)
EXTENDS Hako, TLC

Symmetry == Permutations(Clients)
=============================================================================
