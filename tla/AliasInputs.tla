----------------------------- MODULE AliasInputs ------------------------------
(***************************************************************************)
(* A table of aliases, the segments of a path and the query of a request.    *)
(***************************************************************************)
EXTENDS Inputs

L == INSTANCE Aliases WITH None <- Absent

\* L!AliasKeepsItsWord of a table and a request.
AliasKeepsItsWord == Is("alias") => L!AliasKeepsItsWord(input[2], input[3], input[4])
=============================================================================
