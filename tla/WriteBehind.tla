----------------------------- MODULE WriteBehind -----------------------------
(***************************************************************************)
(* What a write-behind buffer promises its clients, with no buffer in it.   *)
(* Each document has the value the clients were told they have (doc) and    *)
(* the value on disk (durable).  Fields carry the version number of the     *)
(* acknowledged write that set them; 0 is a field nobody has written.       *)
(*                                                                         *)
(* The disk may lag but only moves forward, never past an acknowledged      *)
(* write, and what the clients see changes in two ways only: a PATCH is     *)
(* acknowledged, or the buffer gives a document up and says so.             *)
(***************************************************************************)
EXTENDS Naturals

CONSTANTS Docs,         \* the documents, each a (collection, id) key
          Fields,       \* the top-level fields of a document
          MaxClock      \* bound: acknowledged writes in a behaviour

VARIABLES doc,          \* [Docs -> [Fields -> version]]: what GET should show
          durable,      \* [Docs -> [Fields -> version]]: what the driver has
          clock         \* the version of the last acknowledged write

vars == <<doc, durable, clock>>

Init == /\ doc \in [Docs -> [Fields -> {0}]]
        /\ durable = doc
        /\ clock = 0

\* An acknowledged PATCH of the fields F: last write wins, field by field.
Patch(k, F) ==
    /\ clock < MaxClock
    /\ clock' = clock + 1
    /\ doc' = [doc EXCEPT ![k] =
                 [f \in Fields |-> IF f \in F THEN clock + 1 ELSE @[f]]]
    /\ UNCHANGED durable

\* The disk catches up: no field goes back, none overtakes the clients' view.
Persist(k) ==
    /\ \A f \in Fields : /\ durable[k][f] <= durable'[k][f]
                         /\ durable'[k][f] <= doc[k][f]
    /\ \A j \in Docs \ {k} : durable'[j] = durable[j]
    /\ UNCHANGED <<doc, clock>>

\* The driver refused the document for too long: the clients' view falls
\* back to what the disk has.
GiveUp(k) ==
    /\ doc' = [doc EXCEPT ![k] = durable[k]]
    /\ UNCHANGED <<durable, clock>>

Next == \E k \in Docs : \/ \E F \in SUBSET Fields : Patch(k, F)
                        \/ Persist(k)
                        \/ GiveUp(k)

Spec == Init /\ [][Next]_vars
=============================================================================
