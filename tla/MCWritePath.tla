----------------------------- MODULE MCWritePath -----------------------------
(***************************************************************************)
(* WritePath on one document: two concurrent requests, the flusher and the  *)
(* reload drain.                                                            *)
(***************************************************************************)
EXTENDS WritePath, TLC

ClientSymmetry == Permutations(Clients)
FieldSymmetry  == Permutations(Fields)
Symmetry == ClientSymmetry \cup FieldSymmetry
=============================================================================
