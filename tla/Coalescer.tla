------------------------------ MODULE Coalescer ------------------------------
(***************************************************************************)
(* The PATCH coalescer of the gateway (coalesce.rs): PATCH bodies fold into *)
(* one pending entry per document, are acknowledged there, and a background *)
(* flusher stores them once per window; a reload drains the buffer.         *)
(*                                                                         *)
(* A body is a function from Fields to versions: the version is the number  *)
(* of the acknowledged write that supplied the field, 0 is a field that the *)
(* body (or the stored document) does not have.  Versions stand for values: *)
(* two writes are told apart, their payloads are not.                       *)
(***************************************************************************)
EXTENDS Naturals

CONSTANTS Docs,         \* the documents, each a (collection, id) key
          Fields,       \* the top-level fields of a document
          MaxFails,     \* MAX_FLUSH_FAILS, 10 in the code
          MaxClock,     \* bound: acknowledged writes in a behaviour
          None          \* no entry

ASSUME MaxFailsAssumption == MaxFails \in Nat \ {0}
ASSUME MaxClockAssumption == MaxClock \in Nat

VARIABLES stored,       \* [Docs -> Body]: the documents the driver holds
          pending,      \* [Docs -> Entry or None]: Coalescer.pending
          inflight,     \* [Docs -> Item or None]: the local `due` of flush_due
          draining,     \* [Docs -> Body or None]: the local `all` of flush_all
          clock         \* the version of the last acknowledged write

vars == <<stored, pending, inflight, draining, clock>>

Body  == [Fields -> Nat]

\* due: the entry's first_at is at least COALESCE_WINDOW ago.
Entry == [body : Body, due : BOOLEAN, fails : Nat]

\* failed: the write of this item returned Err and its outcome is not
\* handled yet.
Item  == [body : Body, fails : Nat, failed : BOOLEAN]

ASSUME NoneAssumption == None \notin Entry \cup Item \cup Body

EmptyBody == [f \in Fields |-> 0]

\* HashMap::extend: the fields of `over` win.
Extend(base, over) ==
    [f \in Fields |-> IF over[f] # 0 THEN over[f] ELSE base[f]]

\* The body a PATCH of the fields F carries when it is write number n.
Stamp(F, n) == [f \in Fields |-> IF f \in F THEN n ELSE 0]

Init == /\ stored = [k \in Docs |-> EmptyBody]
        /\ pending = [k \in Docs |-> None]
        /\ inflight = [k \in Docs |-> None]
        /\ draining = [k \in Docs |-> None]
        /\ clock = 0

-----------------------------------------------------------------------------
\* Mutated form of Fresh: the failure counter is not initialised.
FreshWithoutBudget(b) == [body |-> b, due |-> FALSE]

\* A new pending entry: HashMap::entry(..).or_insert_with.
Fresh(b) == [body |-> b, due |-> FALSE, fails |-> 0]

\* A PATCH body joins the document's pending entry, which is created with a
\* fresh window and no failures, and the client is acknowledged.
Merge(k, F) ==
    /\ clock < MaxClock
    /\ clock' = clock + 1
    /\ pending' =
         IF pending[k] = None
           THEN [pending EXCEPT ![k] = Fresh(Stamp(F, clock + 1))]
           ELSE [pending EXCEPT ![k].body = Extend(@, Stamp(F, clock + 1))]
    /\ UNCHANGED <<stored, inflight, draining>>

\* The window of a pending entry runs out.
WindowEnds(k) ==
    /\ pending[k] # None
    /\ ~pending[k].due
    /\ pending' = [pending EXCEPT ![k].due = TRUE]
    /\ UNCHANGED <<stored, inflight, draining, clock>>

Due == {k \in Docs : pending[k] # None /\ pending[k].due}

\* Mutated form of TakeDue: the due entries are copied and stay in the buffer.
TakeDueCopies ==
    /\ \A k \in Docs : inflight[k] = None
    /\ Due # {}
    /\ inflight' = [k \in Docs |->
         IF k \in Due /\ pending[k].body # EmptyBody
           THEN [body |-> pending[k].body, fails |-> pending[k].fails,
                 failed |-> FALSE]
           ELSE None]
    /\ UNCHANGED <<stored, pending, draining, clock>>

\* A tick of the flusher takes every due entry out of the buffer in one
\* critical section.  It runs again only when the previous batch is done.
TakeDue ==
    /\ \A k \in Docs : inflight[k] = None
    /\ Due # {}
    /\ inflight' = [k \in Docs |->
         IF k \in Due /\ pending[k].body # EmptyBody
           THEN [body |-> pending[k].body, fails |-> pending[k].fails,
                 failed |-> FALSE]
           ELSE None]
    /\ pending' = [k \in Docs |-> IF k \in Due THEN None ELSE pending[k]]
    /\ UNCHANGED <<stored, draining, clock>>

\* The flusher is about to write: it handles one item at a time.
Writing(k) == inflight[k] # None
              /\ \A j \in Docs : inflight[j] # None => ~inflight[j].failed

\* db.set(merge = true) of the item succeeds.
FlushStores(k) ==
    /\ Writing(k)
    /\ stored' = [stored EXCEPT ![k] = Extend(@, inflight[k].body)]
    /\ inflight' = [inflight EXCEPT ![k] = None]
    /\ UNCHANGED <<pending, draining, clock>>

\* db.set returns Err; the buffer is not locked again yet.
FlushFails(k) ==
    /\ Writing(k)
    /\ inflight' = [inflight EXCEPT ![k].failed = TRUE]
    /\ UNCHANGED <<stored, pending, draining, clock>>

\* Mutated form of Refold: the failed body wins over the newer merges.
RefoldOnTop(k) ==
    /\ inflight[k] # None /\ inflight[k].failed
    /\ pending[k] # None
    /\ pending' = [pending EXCEPT
         ![k] = [body |-> Extend(pending[k].body, inflight[k].body),
                 due |-> pending[k].due, fails |-> pending[k].fails + 1]]
    /\ inflight' = [inflight EXCEPT ![k] = None]
    /\ UNCHANGED <<stored, draining, clock>>

\* Merges arrived meanwhile: the failed body goes back underneath them.
Refold(k) ==
    /\ inflight[k] # None /\ inflight[k].failed
    /\ pending[k] # None
    /\ pending' = [pending EXCEPT
         ![k] = [body |-> Extend(inflight[k].body, pending[k].body),
                 due |-> pending[k].due, fails |-> pending[k].fails + 1]]
    /\ inflight' = [inflight EXCEPT ![k] = None]
    /\ UNCHANGED <<stored, draining, clock>>

\* Mutated form of Requeue: one try too many.
RequeueOnceMore(k) ==
    /\ inflight[k] # None /\ inflight[k].failed
    /\ pending[k] = None
    /\ inflight[k].fails <= MaxFails
    /\ pending' = [pending EXCEPT
         ![k] = [Fresh(inflight[k].body) EXCEPT !.fails = inflight[k].fails + 1]]
    /\ inflight' = [inflight EXCEPT ![k] = None]
    /\ UNCHANGED <<stored, draining, clock>>

\* Nothing arrived and the budget allows another try, a window later.
Requeue(k) ==
    /\ inflight[k] # None /\ inflight[k].failed
    /\ pending[k] = None
    /\ inflight[k].fails < MaxFails
    /\ pending' = [pending EXCEPT
         ![k] = [Fresh(inflight[k].body) EXCEPT !.fails = inflight[k].fails + 1]]
    /\ inflight' = [inflight EXCEPT ![k] = None]
    /\ UNCHANGED <<stored, draining, clock>>

\* Mutated form of GiveUp: the first failed write drops the body.
GiveUpAtOnce(k) ==
    /\ inflight[k] # None /\ inflight[k].failed
    /\ pending[k] = None
    /\ inflight' = [inflight EXCEPT ![k] = None]
    /\ UNCHANGED <<stored, pending, draining, clock>>

\* The budget is spent: the acknowledged body is dropped with a log line.
GiveUp(k) ==
    /\ inflight[k] # None /\ inflight[k].failed
    /\ pending[k] = None
    /\ inflight[k].fails >= MaxFails
    /\ inflight' = [inflight EXCEPT ![k] = None]
    /\ UNCHANGED <<stored, pending, draining, clock>>

-----------------------------------------------------------------------------
\* flush_all, called by reload: everything pending leaves the buffer, due or
\* not.  What the flusher holds in flight is not in the buffer and stays.
DrainTake ==
    /\ \A k \in Docs : draining[k] = None
    /\ \E k \in Docs : pending[k] # None
    /\ draining' = [k \in Docs |->
         IF pending[k] # None /\ pending[k].body # EmptyBody
           THEN pending[k].body ELSE None]
    /\ pending' = [k \in Docs |-> None]
    /\ UNCHANGED <<stored, inflight, clock>>

DrainStores(k) ==
    /\ draining[k] # None
    /\ stored' = [stored EXCEPT ![k] = Extend(@, draining[k])]
    /\ draining' = [draining EXCEPT ![k] = None]
    /\ UNCHANGED <<pending, inflight, clock>>

\* A failed write of the drain is not counted, and not put back.
DrainLoses(k) ==
    /\ draining[k] # None
    /\ draining' = [draining EXCEPT ![k] = None]
    /\ UNCHANGED <<stored, pending, inflight, clock>>

-----------------------------------------------------------------------------
FlushEnds(k) == Refold(k) \/ Requeue(k) \/ GiveUp(k)

Flusher == \/ TakeDue
           \/ \E k \in Docs : \/ FlushStores(k)
                              \/ FlushFails(k)
                              \/ FlushEnds(k)

Reload == \/ DrainTake
          \/ \E k \in Docs : DrainStores(k) \/ DrainLoses(k)

\* Between two reloads: clients, time and the flusher.
SteadyNext == \/ \E k \in Docs : \/ \E F \in SUBSET Fields : Merge(k, F)
                                 \/ WindowEnds(k)
              \/ Flusher

Next == SteadyNext \/ Reload

\* The flusher is a spawned task on an interval timer, so time passes and an
\* enabled flusher step is eventually taken; clients and reloads are free.
FlusherFairness ==
    /\ \A k \in Docs : /\ WF_vars(WindowEnds(k))
                       /\ WF_vars(FlushStores(k) \/ FlushFails(k))
                       /\ WF_vars(FlushEnds(k))
    /\ WF_vars(TakeDue)

SteadySpec == Init /\ [][SteadyNext]_vars /\ FlusherFairness
Spec == Init /\ [][Next]_vars /\ FlusherFairness

-----------------------------------------------------------------------------
BodyOf(e) == IF e = None THEN EmptyBody ELSE e.body

\* Everything acknowledged for a document, oldest layer first: what is on
\* disk, what the flusher holds, what is still pending.
View(k) == Extend(Extend(stored[k], BodyOf(inflight[k])), BodyOf(pending[k]))

TypeOK ==
    /\ stored \in [Docs -> Body]
    /\ pending \in [Docs -> Entry \cup {None}]
    /\ inflight \in [Docs -> Item \cup {None}]
    /\ draining \in [Docs -> Body \cup {None}]
    /\ clock \in 0..MaxClock

\* The retry counter never passes the budget (coalesce.rs MAX_FLUSH_FAILS),
\* although Refold bumps it without looking: an entry created while its
\* predecessor is in flight has not failed yet.
RetriesWithinBudget ==
    \A k \in Docs :
      /\ pending[k] # None => /\ pending[k].fails <= MaxFails
                              /\ inflight[k] # None => pending[k].fails = 0
      /\ inflight[k] # None => inflight[k].fails <= MaxFails

\* The layers of a document are ordered by age: a field in flight is newer
\* than the same field on disk, a pending one newer than both.  This is what
\* lets the flusher store the oldest layer first and never put an old value
\* over a new one (coalesce.rs "newer merges win on clash").
LayersOrdered ==
    \A k \in Docs, f \in Fields :
      LET s == stored[k][f]
          i == BodyOf(inflight[k])[f]
          p == BodyOf(pending[k])[f]
      IN /\ s <= clock
         /\ i # 0 => s < i /\ i <= clock
         /\ p # 0 => s < p /\ i < p /\ p <= clock

\* The exactness contract (coalesce.rs:4-8): between reloads the clients see
\* the PATCHes in the order they were acknowledged, whatever the flusher does.
WB == INSTANCE WriteBehind WITH doc <- [k \in Docs |-> View(k)],
                                durable <- stored
ImplementsWriteBehind == WB!Spec

\* Every acknowledged PATCH leaves the buffer for good, stored or given up,
\* once the clients stop patching the document (MaxClock makes them stop).
Settled(k) == pending[k] = None /\ inflight[k] = None
BufferDrains == \A k \in Docs : ~Settled(k) ~> Settled(k)
=============================================================================
