--------------------------------- MODULE MCBatch ---------------------------------
(* Batch for TLC: one request of two operations beside requests of one. *)
EXTENDS Batch, TLC

CONSTANTS c1, c2, d1

MCLongest == c1 :> 2 @@ c2 :> 1
MCWords == c1 :> Types @@ c2 :> {"merge", "delete"}

\* The first client's uid is the id of one document, the second is nobody's.
MCOwn == c1 :> {d1} @@ c2 :> {}

Public == [m \in Methods |-> "public"]
MCRules == {Public, [Public EXCEPT !["create"] = "deny"], [Public EXCEPT !["update"] = "deny"],
            [Public EXCEPT !["update"] = "uid-self"],
            [Public EXCEPT !["delete"] = "uid-self", !["create"] = "uid-self"],
            [Public EXCEPT !["create"] = "fields", !["update"] = "fields"]}
==================================================================================
