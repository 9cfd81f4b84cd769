----------------------------- MODULE RetryBudget -----------------------------
(***************************************************************************)
(* Coalescer between reloads, with a history of failed writes per document. *)
(***************************************************************************)
EXTENDS Coalescer

VARIABLE tries          \* [Docs -> failed writes since the last good one]

bvars == <<vars, tries>>

BInit == Init /\ tries = [k \in Docs |-> 0]

CountTries ==
    tries' = [k \in Docs |->
       IF FlushFails(k) THEN tries[k] + 1
       ELSE IF FlushStores(k) \/ GiveUp(k) THEN 0
       ELSE tries[k]]

BNext == SteadyNext /\ CountTries

BSpec == BInit /\ [][BNext]_bvars /\ FlusherFairness

\* A body is dropped only after the first attempt and MaxFails retries have
\* all failed, however merges and failures interleave (the "retry budget" of
\* coalesce.rs:10-11, which an earlier version did not have).
DropsOnlyAfterBudget ==
    [][\A k \in Docs : GiveUp(k) => tries[k] > MaxFails]_bvars
=============================================================================
