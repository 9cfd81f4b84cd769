----------------------------- MODULE MCSessions ------------------------------
(***************************************************************************)
(* Sessions, the login guard and the history of revocations for TLC.        *)
(***************************************************************************)
EXTENDS Revocation, TLC

Symmetry == Permutations(Clients) \cup Permutations(Users)
=============================================================================
