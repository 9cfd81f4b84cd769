--------------------------- MODULE HotReloadDrain ----------------------------
(***************************************************************************)
(* HotReload with a history variable that notes which reloads shared their  *)
(* invalidation with a refresh or with another reload.                      *)
(***************************************************************************)
EXTENDS HotReload

VARIABLE overlapped     \* the reloads that were not alone

dvars == <<vars, overlapped>>

Busy(a) == pc[a] # "idle"

Overlaps ==
    {a \in Admins :
        \/ \E b \in Admins \ {a} : Busy(a)' /\ Busy(b)'
        \/ /\ pc[a] = "invalidate" /\ pc'[a] # "invalidate"
           /\ \E h \in Handlers \ {a} : pc[h] = "fetch"}

DInit == Init /\ overlapped = {}

DNext == /\ Next
         /\ overlapped' = {a \in overlapped : Busy(a)'} \cup Overlaps

DSpec == DInit /\ [][DNext]_dvars /\ Fairness

\* "Drain coalesced PATCHes into the fresh driver before serving it": a reload
\* drains into the databases it has just opened, unless a refresh was already
\* reading AppState when it invalidated, or another reload ran beside it.
DrainsIntoFreshDriver ==
    \A a \in Admins :
        pc[a] = "drain" /\ a \notin overlapped => loc[a].snap["dbs"] = loc[a].gen
=============================================================================
