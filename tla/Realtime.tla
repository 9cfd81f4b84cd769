------------------------------- MODULE Realtime -------------------------------
(***************************************************************************)
(* One realtime subscription to one collection (realtime.rs: emit,          *)
(* bus_stream, shared_poll_stream, subscribe, run_source, apply_diff,       *)
(* ingest_change, deliver_in).  Two lanes feed the subscription's snapshot: *)
(* the bus of the gateway's own commits, and either the driver's feed (a    *)
(* driver with watch) or the lists of the shared poller (a driver without). *)
(*                                                                         *)
(* A document is a value with the number of the write that stored it: a     *)
(* write path stamps updatedAt, so two writes never store equal data.       *)
(***************************************************************************)
EXTENDS Naturals, Sequences

CONSTANTS Docs,             \* the ids of the collection
          Values,           \* the values of a document
          Fitting,          \* those that match the filters and the cursor
          Readable,         \* those the policy lets the subscriber get
          Writers,          \* requests that write: each commits, then emits
          Watches,          \* whether the driver may push changes, and may not
          Floods,           \* the RateGate may trip
          BusCap, TickCap,  \* capacities of the broadcast channels (256, 4)
          MaxWrites,        \* bound: commits in a behaviour
          None              \* no document

ASSUME ValueAssumption == Fitting \subseteq Values /\ Readable \subseteq Values
ASSUME BoundAssumption == MaxWrites \in Nat /\ BusCap \in Nat \ {0} /\ TickCap \in Nat \ {0}
ASSUME FlagAssumption == Watches \subseteq BOOLEAN /\ Floods \in BOOLEAN

VARIABLES store,        \* [Docs -> Doc or None]: the driver's collection
          writes,       \* commits so far
          owed,         \* [Writers -> Change or None]: committed, not emitted
          bus,          \* the subscription's receiver of the write-path bus
          feed,         \* its receiver of the driver's feed, and lag
          watch,        \* the driver's capability supports_watch
          polled,       \* the list the poller holds, or None
          ticks,        \* the subscription's receiver of the poller
          pc,           \* the step run_source is at
          todo,         \* the candidate removes of apply_diff, not verified yet
          snapshot,     \* [Docs -> Doc or None]
          view,         \* history: the documents as the subscriber knows them
          silent,       \* history: documents that moved without an event
          events        \* history: the events of the last step

storeVars == <<store, writes, owed>>
laneVars == <<watch, bus, feed, polled, ticks>>
subVars == <<pc, todo, snapshot, view, silent>>
vars == <<storeVars, laneVars, subVars, events>>

Doc == [val : Values, ver : 1..MaxWrites]
ASSUME NoneAssumption == None \notin Doc

Empty == [k \in Docs |-> None]

Init == /\ store = Empty /\ writes = 0
        /\ owed = [w \in Writers |-> None]
        /\ bus = <<>> /\ ticks = <<>> /\ polled = None
        /\ feed = [items |-> <<>>, lagged |-> FALSE]
        /\ watch \in Watches
        /\ pc = "off" /\ todo = {}
        /\ snapshot = Empty /\ view = Empty
        /\ silent = {} /\ events = {}

-----------------------------------------------------------------------------
\* matches_full, and the document as the filters show it.
Fits(d) == d # None /\ d.val \in Fitting
Shown(d) == IF Fits(d) THEN d ELSE None

\* transition.
Kind(old, new) == CASE Fits(old) /\ Fits(new) -> "change"
                    [] ~Fits(old) /\ Fits(new) -> "add"
                    [] OTHER -> "remove"

\* deliver_in: there is a transition, and the policy lets the subscriber get
\* the document it is about.
Transits(old, new) == Fits(old) \/ Fits(new)
Heard(old, new) == /\ Transits(old, new)
                   /\ (IF Fits(new) THEN new ELSE old).val \in Readable

\* The documents of K go from the snapshot to `image`, each with its event.
Tell(K, image) ==
    LET heard == {k \in K : Heard(snapshot[k], image[k])}
        denied == {k \in K : Transits(snapshot[k], image[k])} \ heard
    IN /\ events' = {[kind |-> Kind(snapshot[k], image[k]), doc |-> k,
                      new |-> Shown(image[k])] : k \in heard}
       /\ view' = [k \in Docs |-> IF k \in heard THEN Shown(image[k]) ELSE view[k]]
       /\ silent' = (silent \ heard) \cup denied

\* The snapshot takes over `image` for the documents of K without an event.
Converge(K, image) ==
    /\ snapshot' = [k \in Docs |-> IF k \in K THEN image[k] ELSE snapshot[k]]
    /\ silent' = silent \cup {k \in K : Shown(snapshot[k]) # Shown(image[k])}
    /\ events' = {}
    /\ UNCHANGED view

\* A full broadcast channel loses its oldest message; the receiver is told.
Push(q, x, cap) == Append(IF Len(q) < cap THEN q ELSE Tail(q), x)

-----------------------------------------------------------------------------
\* A commit in the driver, which pushes it to the receivers of its feed.
Commit(k, d) ==
    /\ writes < MaxWrites
    /\ writes' = writes + 1
    /\ store' = [store EXCEPT ![k] = d]
    /\ feed' = IF watch /\ pc \notin {"off", "listed"}
                 THEN [items |-> Push(feed.items, [doc |-> k, new |-> d], BusCap),
                       lagged |-> feed.lagged \/ Len(feed.items) = BusCap]
                 ELSE feed
    /\ events' = {}
    /\ UNCHANGED <<watch, bus, polled, ticks, subVars>>

NewDoc(v) == [val |-> v, ver |-> writes + 1]

\* A handler of the gateway commits; its emit is a later step.
CommitsToEmit(w, k, d) ==
    /\ owed[w] = None
    /\ Commit(k, d)
    /\ owed' = [owed EXCEPT ![w] = [doc |-> k, new |-> d]]

Write(w, k, v) == CommitsToEmit(w, k, NewDoc(v))
Delete(w, k) == store[k] # None /\ CommitsToEmit(w, k, None)

\* A write that goes past the gateway.
Foreign(k) == /\ \/ \E v \in Values : Commit(k, NewDoc(v))
                 \/ store[k] # None /\ Commit(k, None)
              /\ UNCHANGED owed

\* emit: nobody waits for a receiver that is not there yet.  A bus that lags
\* is a gap and nothing else: run_source ignores it (poll), or lists a
\* collection of the name "bus\0...", which there is not (watch).
Emit(w) ==
    /\ owed[w] # None
    /\ bus' = IF pc \in {"off", "listed", "half"} THEN bus
              ELSE Push(bus, owed[w], BusCap)
    /\ owed' = [owed EXCEPT ![w] = None]
    /\ events' = {}
    /\ UNCHANGED <<store, writes, watch, feed, polled, ticks, subVars>>

-----------------------------------------------------------------------------
\* The shared poller lists the collection (an error is an empty list), and
\* sends the list to whoever subscribes to it by then.
PollList == /\ ~watch
            /\ polled = None
            /\ polled' = store
            /\ events' = {}
            /\ UNCHANGED <<storeVars, watch, bus, feed, ticks, subVars>>

PollFails == /\ ~watch
             /\ polled = None
             /\ store # Empty
             /\ polled' = Empty
             /\ events' = {}
             /\ UNCHANGED <<storeVars, watch, bus, feed, ticks, subVars>>

PollSend == /\ polled # None
            /\ ticks' = IF pc \in {"off", "listed"} THEN ticks
                        ELSE Push(ticks, polled, TickCap)
            /\ polled' = None
            /\ events' = {}
            /\ UNCHANGED <<storeVars, watch, bus, feed, subVars>>

-----------------------------------------------------------------------------
\* subscribe lists what the filters select.  The client GETs first: it is
\* taken to know what it may read of that list.
Subscribe ==
    /\ pc = "off"
    /\ pc' = "listed"
    /\ snapshot' = [k \in Docs |-> Shown(store[k])]
    /\ view' = [k \in Docs |-> IF Fits(store[k]) /\ store[k].val \in Readable
                                 THEN store[k] ELSE None]
    /\ silent' = {k \in Docs : view'[k] # snapshot'[k]}
    /\ events' = {}
    /\ UNCHANGED <<storeVars, laneVars, todo>>

\* run_source registers with the feed or the poller, then with the bus.
Register ==
    /\ \/ pc = "listed" /\ pc' = "half"
       \/ pc = "half" /\ pc' = "run"
    /\ events' = {}
    /\ UNCHANGED <<storeVars, laneVars, todo, snapshot, view, silent>>

\* The RateGate may trip after a delivery: the burst is replaced by a resync.
Gate == pc' \in {"run"} \cup (IF Floods /\ events' # {} THEN {"resync"} ELSE {})

\* Mutated form of Ingest: a change that is in the snapshot is told again.
IngestAgain(c) ==
    LET k == c.doc  image == [snapshot EXCEPT ![k] = c.new] IN
    /\ Tell({k}, image)
    /\ snapshot' = image
    /\ Gate

\* ingest_change.  What the snapshot has already is not told again.
Ingest(c) ==
    LET k == c.doc  image == [snapshot EXCEPT ![k] = c.new] IN
    /\ Tell(IF snapshot[k] = c.new THEN {} ELSE {k}, image)
    /\ snapshot' = image
    /\ Gate

TakeBus ==
    /\ pc = "run"
    /\ bus # <<>>
    /\ Ingest(Head(bus))
    /\ bus' = Tail(bus)
    /\ UNCHANGED <<storeVars, watch, feed, polled, ticks, todo>>

TakeFeed ==
    /\ pc = "run"
    /\ ~feed.lagged
    /\ feed.items # <<>>
    /\ Ingest(Head(feed.items))
    /\ feed' = [feed EXCEPT !.items = Tail(feed.items)]
    /\ UNCHANGED <<storeVars, watch, bus, polled, ticks, todo>>

FeedLagged ==
    /\ pc = "run"
    /\ feed.lagged
    /\ feed' = [feed EXCEPT !.lagged = FALSE]
    /\ pc' = "resync"
    /\ events' = {}
    /\ UNCHANGED <<storeVars, watch, bus, polled, ticks, todo, snapshot, view, silent>>

\* resync_collection: a new list replaces the snapshot; no events.
Resync ==
    /\ pc = "resync"
    /\ pc' = "run"
    /\ Converge(Docs, [k \in Docs |-> Shown(store[k])])
    /\ UNCHANGED <<storeVars, laneVars, todo>>

ResyncFails ==
    /\ pc = "resync"
    /\ pc' = "run"
    /\ events' = {}
    /\ UNCHANGED <<storeVars, laneVars, todo, snapshot, view, silent>>

-----------------------------------------------------------------------------
\* apply_diff.  What the list has is told and taken over; what it lacks is
\* verified first, one get after the other.
TakeTick ==
    LET list == Head(ticks)
        present == {k \in Docs : list[k] # None}
        missing == {k \in Docs \ present : snapshot[k] # None}
    IN /\ pc = "run"
       /\ ticks # <<>>
       /\ ticks' = Tail(ticks)
       /\ Tell({k \in present : list[k] # snapshot[k]}, list)
       /\ snapshot' = [k \in Docs |-> IF k \in present THEN list[k] ELSE snapshot[k]]
       /\ todo' = missing
       /\ pc' = IF missing = {} THEN "run" ELSE "verify"
       /\ UNCHANGED <<storeVars, watch, bus, feed, polled>>

NextCandidate(k) == /\ pc = "verify"
                    /\ k \in todo
                    /\ todo' = todo \ {k}
                    /\ pc' = IF todo' = {} THEN "run" ELSE "verify"
                    /\ UNCHANGED <<storeVars, laneVars>>

\* The document is there after all: taken over, not told.
VerifyFound(k) == /\ NextCandidate(k)
                  /\ store[k] # None
                  /\ Converge({k}, store)

\* Mutated forms of VerifyGone: removed without an event; kept.
VerifyGoneUntold(k) == /\ NextCandidate(k)
                       /\ store[k] = None
                       /\ snapshot' = [snapshot EXCEPT ![k] = None]
                       /\ events' = {}
                       /\ UNCHANGED <<view, silent>>

VerifyGoneKept(k) == /\ NextCandidate(k)
                     /\ store[k] = None
                     /\ events' = {}
                     /\ UNCHANGED <<snapshot, view, silent>>

VerifyGone(k) == /\ NextCandidate(k)
                 /\ store[k] = None
                 /\ Tell({k}, store)
                 /\ snapshot' = [snapshot EXCEPT ![k] = None]

\* The get fails: the entry stays for the next tick.
VerifyFails(k) == /\ NextCandidate(k)
                  /\ events' = {}
                  /\ UNCHANGED <<snapshot, view, silent>>

-----------------------------------------------------------------------------
Gateway == \E w \in Writers : \/ \E k \in Docs : \/ \E v \in Values : Write(w, k, v)
                                                 \/ Delete(w, k)
                              \/ Emit(w)

Subscription == \/ Subscribe \/ Register
                \/ TakeBus \/ TakeFeed \/ FeedLagged \/ Resync \/ ResyncFails
                \/ TakeTick
                \/ \E k \in Docs : VerifyFound(k) \/ VerifyGone(k) \/ VerifyFails(k)

Next == \/ Gateway
        \/ \E k \in Docs : Foreign(k)
        \/ PollList \/ PollFails \/ PollSend
        \/ Subscription

\* Tasks of a runtime are polled when they can run, an interval timer ticks,
\* StreamMap starts at a random lane, and not every get and list of a driver
\* fails.
Fairness == /\ \A w \in Writers : WF_vars(Emit(w))
            /\ WF_vars(PollList \/ PollFails) /\ WF_vars(PollSend)
            /\ WF_vars(Register)
            /\ SF_vars(TakeBus) /\ SF_vars(TakeTick) /\ SF_vars(TakeFeed)
            /\ WF_vars(FeedLagged) /\ SF_vars(Resync)
            /\ \A k \in Docs : /\ SF_vars(VerifyFound(k)) /\ SF_vars(VerifyGone(k))
                               /\ WF_vars(VerifyFails(k))

Spec == Init /\ [][Next]_vars /\ Fairness

-----------------------------------------------------------------------------
\* The snapshot is "the single source of truth" (realtime.rs:18-20): whatever
\* the order of the lanes, what a subscriber has been told adds up to what the
\* snapshot shows, except for the documents that the code moved without a
\* word: a candidate remove that converged, a resync, a denied delivery.
ViewFollowsSnapshot ==
    pc # "off" => \A k \in Docs \ silent : view[k] = Shown(snapshot[k])

\* Nothing is told twice and every event fits (realtime.rs:14-15): an add is
\* of a document the subscriber does not have, a change gives one it has
\* another content, a remove is of one it has, although all three lanes are
\* classified by the snapshot and carry the same commits.
EventsFitTheView ==
    [][\A e \in events' :
         e.doc \notin silent =>
           CASE e.kind = "add"    -> view[e.doc] = None /\ e.new # None
             [] e.kind = "change" -> view[e.doc] # None /\ e.new \notin {None, view[e.doc]}
             [] OTHER             -> view[e.doc] # None /\ e.new = None]_vars

\* From some moment on, no list of the poller fails.
ListsRecover == <>[][~PollFails]_vars

\* The poll lane heals the snapshot (a driver with watch has no such lane):
\* once the writes are over and its lists succeed, it shows what the store
\* has, whatever the bus lost or brought out of order.
SnapshotHeals == ListsRecover =>
    <>[](~watch /\ pc = "run" => \A k \in Docs : Shown(snapshot[k]) = Shown(store[k]))

=============================================================================
