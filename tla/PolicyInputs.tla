----------------------------- MODULE PolicyInputs -----------------------------
(***************************************************************************)
(* The patterns of a policy file and a collection; a text and a write.       *)
(***************************************************************************)
EXTENDS Inputs

P == INSTANCE Policies WITH None <- Absent

\* P!RulesAreLocal and P!StrangersNeedOpenRules.
RulesAreLocal == Is("rules") => P!RulesAreLocal(input[2], input[3], input[4])
StrangersNeedOpenRules ==
    Is("text") => P!StrangersNeedOpenRules(input[2], input[3], input[4],
                                             input[5], input[6])
=============================================================================
