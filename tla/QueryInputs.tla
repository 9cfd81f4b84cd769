----------------------------- MODULE QueryInputs ------------------------------
(***************************************************************************)
(* A comparison of a field with a value, and a query of a list.              *)
(***************************************************************************)
EXTENDS Inputs

Q == INSTANCE Queries WITH None <- Absent

\* Q!FilterAgrees and Q!PageAgrees of every driver that asks another engine.
FiltersAgree ==
    Is("filter") => \A e \in Q!AllEngines : Q!FilterAgrees(e, input[2], input[3], input[4])
PagesAgree ==
    Is("page") => \A e \in Q!AllEngines : Q!PageAgrees(e, input[2], input[3])
=============================================================================
