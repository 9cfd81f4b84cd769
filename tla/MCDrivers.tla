----------------------------- MODULE MCDrivers ------------------------------
(***************************************************************************)
(* Drivers for TLC: clients and subcollections are interchangeable.         *)
(***************************************************************************)
EXTENDS Drivers, TLC

Symmetry == Permutations(Clients) \cup Permutations(Subs)
=============================================================================
