--------------------------- MODULE RealtimeProofs ----------------------------
(***************************************************************************)
(* What a subscriber is told adds up to its snapshot, and no event is out of *)
(* place, for any documents, values, filters, policies, writers, capacities  *)
(* and bounds.                                                              *)
(***************************************************************************)
EXTENDS Realtime, TLAPS

Stored == Doc \cup {None}
Change == [doc : Docs, new : Stored]
List == [Docs -> Stored]

Typed ==
    /\ store \in List /\ writes \in Nat
    /\ owed \in [Writers -> Change \cup {None}]
    /\ bus \in Seq(Change)
    /\ feed \in [items : Seq(Change), lagged : BOOLEAN]
    /\ polled \in List \cup {None}
    /\ ticks \in Seq(List)
    /\ todo \in SUBSET Docs
    /\ snapshot \in List /\ view \in List

IInv == Typed /\ ViewFollowsSnapshot

\* An event is in its place.
InPlace(e) ==
    e.doc \notin silent =>
      CASE e.kind = "add"    -> view[e.doc] = None /\ e.new # None
        [] e.kind = "change" -> view[e.doc] # None /\ e.new \notin {None, view[e.doc]}
        [] OTHER             -> view[e.doc] # None /\ e.new = None

\* None does not fit, so an old and a new document that fit are documents.
LEMMA NoneIsHidden == ~Fits(None) /\ Shown(None) = None
BY DEF Fits, Shown

LEMMA ShownIsStored == ASSUME NEW d \in Stored PROVE Shown(d) \in Stored
BY DEF Shown, Stored

\* A message on a channel of any capacity above zero.
LEMMA PushTyped ==
    ASSUME NEW S, NEW q \in Seq(S), NEW x \in S, NEW cap \in Nat \ {0}
    PROVE  Push(q, x, cap) \in Seq(S)
<1>1. CASE Len(q) < cap
  BY <1>1 DEF Push
<1>2. CASE ~(Len(q) < cap)
  <2>1. q # <<>>
    BY <1>2
  <2>2. Tail(q) \in Seq(S)
    BY <2>1
  <2> QED BY <1>2, <2>2 DEF Push
<1> QED BY <1>1, <1>2

\* What Tell does for the documents of K, whose image is another one or none: the view
\* follows the image where it was true before, and every event is in its place.
LEMMA TellFollows ==
    ASSUME IInv, pc # "off", NEW K \in SUBSET Docs, NEW image \in List,
           \A k \in K : image[k] = None \/ image[k] # snapshot[k],
           Tell(K, image)
    PROVE  /\ view' \in List
           /\ \A k \in K : k \notin silent' => view'[k] = Shown(image[k])
           /\ \A k \in Docs \ K : view'[k] = view[k] /\ (k \in silent' <=> k \in silent)
           /\ \A e \in events' : InPlace(e)
<1> DEFINE heard == {k \in K : Heard(snapshot[k], image[k])}
           denied == {k \in K : Transits(snapshot[k], image[k])} \ heard
<1>1. /\ view' = [k \in Docs |-> IF k \in heard THEN Shown(image[k]) ELSE view[k]]
      /\ silent' = (silent \ heard) \cup denied
      /\ events' = {[kind |-> Kind(snapshot[k], image[k]), doc |-> k,
                     new |-> Shown(image[k])] : k \in heard}
  BY DEF Tell
<1>2. \A k \in Docs : k \notin silent => view[k] = Shown(snapshot[k])
  BY DEF IInv, ViewFollowsSnapshot
<1>3. view' \in List
  BY <1>1, ShownIsStored DEF List, IInv, Typed
<1>4. ASSUME NEW k \in K, k \notin silent' PROVE view'[k] = Shown(image[k])
  <2>1. CASE k \in heard
    BY <1>1, <2>1
  <2>2. CASE k \notin heard
    <3>1. ~Transits(snapshot[k], image[k]) /\ k \notin silent
      BY <1>1, <1>4, <2>2
    <3>2. Shown(snapshot[k]) = None /\ Shown(image[k]) = None
      BY <3>1 DEF Transits, Shown
    <3> QED BY <1>1, <1>2, <2>2, <3>1, <3>2
  <2> QED BY <2>1, <2>2
<1>5. ASSUME NEW k \in Docs \ K PROVE view'[k] = view[k] /\ (k \in silent' <=> k \in silent)
  BY <1>1
<1>6. ASSUME NEW e \in events' PROVE InPlace(e)
  <2>1. PICK k \in heard : e = [kind |-> Kind(snapshot[k], image[k]), doc |-> k,
                                new |-> Shown(image[k])]
    BY <1>1
  <2>2. /\ e.doc = k /\ e.kind = Kind(snapshot[k], image[k]) /\ e.new = Shown(image[k])
        /\ k \in Docs /\ Transits(snapshot[k], image[k])
        /\ image[k] = None \/ image[k] # snapshot[k]
    BY <2>1 DEF Heard
  <2> SUFFICES ASSUME k \notin silent PROVE InPlace(e)
      BY <2>2 DEF InPlace
  <2>3. view[k] = Shown(snapshot[k])
    BY <1>2, <2>2
  <2>4. CASE Fits(snapshot[k]) /\ Fits(image[k])
    <3>1. e.kind = "change" /\ view[k] = snapshot[k] /\ e.new = image[k]
      <4>1. Kind(snapshot[k], image[k]) = "change"
        BY <2>4 DEF Kind, Fits
      <4>2. Shown(snapshot[k]) = snapshot[k] /\ Shown(image[k]) = image[k]
        BY <2>4 DEF Shown
      <4> QED BY <2>2, <2>3, <4>1, <4>2
    <3>2. snapshot[k] # None /\ image[k] # None
      BY <2>4, NoneIsHidden
    <3> QED BY <2>2, <3>1, <3>2 DEF InPlace
  <2>5. CASE ~Fits(snapshot[k]) /\ Fits(image[k])
    BY <2>2, <2>3, <2>5 DEF InPlace, Kind, Shown, Fits
  <2>6. CASE Fits(snapshot[k]) /\ ~Fits(image[k])
    BY <2>2, <2>3, <2>6 DEF InPlace, Kind, Shown, Fits
  <2> QED BY <2>2, <2>4, <2>5, <2>6 DEF Transits
<1> QED BY <1>3, <1>4, <1>5, <1>6

\* The snapshot of the subscription has taken over the image of K, and the rest
\* is what it was.
LEMMA ViewKept ==
    ASSUME IInv, NEW K \in SUBSET Docs, NEW image \in List,
           \A k \in K : k \notin silent' => view'[k] = Shown(image[k]),
           \A k \in Docs \ K : view'[k] = view[k] /\ (k \in silent' <=> k \in silent),
           snapshot' \in List, pc # "off",
           \A k \in K : snapshot'[k] = image[k],
           \A k \in Docs \ K : snapshot'[k] = snapshot[k]
    PROVE  ViewFollowsSnapshot'
<1> SUFFICES ASSUME NEW k \in Docs, k \notin silent' PROVE view'[k] = Shown(snapshot'[k])
    BY DEF ViewFollowsSnapshot, Shown, Fits
<1>1. CASE k \in K
  BY <1>1
<1>2. CASE k \notin K
  BY <1>2 DEF IInv, ViewFollowsSnapshot
<1> QED BY <1>1, <1>2

\* A step that leaves the subscription alone.
LEMMA SubscriptionAlone ==
    ASSUME IInv, UNCHANGED subVars, events' = {}
    PROVE  ViewFollowsSnapshot' /\ \A e \in events' : InPlace(e)
BY DEF IInv, ViewFollowsSnapshot, subVars, Shown, Fits

\* Commits and their feed.
LEMMA CommitTyped ==
    ASSUME IInv, NEW k \in Docs, NEW d \in Stored, Commit(k, d)
    PROVE  /\ store' \in List /\ writes' \in Nat
           /\ feed' \in [items : Seq(Change), lagged : BOOLEAN]
           /\ UNCHANGED <<watch, bus, polled, ticks, subVars>>
           /\ ViewFollowsSnapshot' /\ \A e \in events' : InPlace(e)
<1>1. store' \in List /\ writes' \in Nat
  BY DEF Commit, IInv, Typed, List
<1>2. feed' \in [items : Seq(Change), lagged : BOOLEAN]
  <2>1. [doc |-> k, new |-> d] \in Change
    BY DEF Change
  <2>2. feed.items \in Seq(Change) /\ feed.lagged \in BOOLEAN
    BY DEF IInv, Typed
  <2>3. Push(feed.items, [doc |-> k, new |-> d], BusCap) \in Seq(Change)
    BY <2>1, <2>2, PushTyped, BoundAssumption
  <2>4. \A lag \in BOOLEAN :
          [items |-> Push(feed.items, [doc |-> k, new |-> d], BusCap), lagged |-> lag]
            \in [items : Seq(Change), lagged : BOOLEAN]
    BY <2>3
  <2>5. (feed.lagged \/ Len(feed.items) = BusCap) \in BOOLEAN
    OBVIOUS
  <2>6. [items |-> Push(feed.items, [doc |-> k, new |-> d], BusCap),
         lagged |-> feed.lagged \/ Len(feed.items) = BusCap]
            \in [items : Seq(Change), lagged : BOOLEAN]
    BY <2>4, <2>5, Zenon
  <2>7. feed \in [items : Seq(Change), lagged : BOOLEAN]
    BY DEF IInv, Typed
  <2>8. CASE watch /\ pc \notin {"off", "listed"}
    BY <2>6, <2>8, Zenon DEF Commit
  <2>9. CASE ~(watch /\ pc \notin {"off", "listed"})
    BY <2>7, <2>9, Zenon DEF Commit
  <2> QED BY <2>8, <2>9
<1>3. UNCHANGED <<watch, bus, polled, ticks, subVars>> /\ events' = {}
  BY DEF Commit
<1> QED BY <1>1, <1>2, <1>3, SubscriptionAlone

LEMMA GatewayKeeps ==
    ASSUME IInv, Gateway \/ (\E k \in Docs : Foreign(k))
    PROVE  IInv' /\ \A e \in events' : InPlace(e)
<1>1. ASSUME NEW w \in Writers, NEW k \in Docs, NEW d \in Stored, CommitsToEmit(w, k, d)
      PROVE  IInv' /\ \A e \in events' : InPlace(e)
  <2>1. [doc |-> k, new |-> d] \in Change
    BY DEF Change
  <2>2. owed' \in [Writers -> Change \cup {None}]
    BY <1>1, <2>1 DEF CommitsToEmit, IInv, Typed
  <2>3. Commit(k, d)
    BY <1>1 DEF CommitsToEmit
  <2> QED BY <2>2, <2>3, CommitTyped DEF IInv, Typed, subVars
<1>2. \A v \in Values : writes < MaxWrites => NewDoc(v) \in Stored
  BY BoundAssumption DEF NewDoc, Stored, Doc, IInv, Typed
<1>3. None \in Stored
  BY DEF Stored
<1>4. ASSUME NEW k \in Docs, Foreign(k) PROVE IInv' /\ \A e \in events' : InPlace(e)
  <2>1. PICK d \in Stored : Commit(k, d) /\ UNCHANGED owed
    BY <1>2, <1>3, <1>4 DEF Foreign, Commit
  <2> QED BY <2>1, CommitTyped DEF IInv, Typed, subVars
<1>5. ASSUME NEW w \in Writers, NEW k \in Docs, Delete(w, k) \/ \E v \in Values : Write(w, k, v)
      PROVE  IInv' /\ \A e \in events' : InPlace(e)
  <2>1. PICK d \in Stored : CommitsToEmit(w, k, d)
    BY <1>2, <1>3, <1>5 DEF Write, Delete, CommitsToEmit, Commit
  <2> QED BY <2>1, <1>1
<1>6. ASSUME NEW w \in Writers, Emit(w) PROVE IInv' /\ \A e \in events' : InPlace(e)
  <2>1. owed[w] \in Change
    BY <1>6 DEF Emit, IInv, Typed
  <2>2. Push(bus, owed[w], BusCap) \in Seq(Change)
    BY <2>1, PushTyped, BoundAssumption DEF IInv, Typed
  <2>3. /\ bus' \in Seq(Change) /\ owed' \in [Writers -> Change \cup {None}]
        /\ UNCHANGED <<store, writes, watch, feed, polled, ticks, subVars>> /\ events' = {}
    BY <1>6, <2>2 DEF Emit, IInv, Typed
  <2> QED BY <2>3, SubscriptionAlone DEF IInv, Typed, subVars
<1> QED BY <1>4, <1>5, <1>6 DEF Gateway

LEMMA PollerKeeps ==
    ASSUME IInv, PollList \/ PollFails \/ PollSend
    PROVE  IInv' /\ \A e \in events' : InPlace(e)
<1>1. ASSUME PollList \/ PollFails PROVE IInv' /\ \A e \in events' : InPlace(e)
  <2>1. Empty \in List
    BY DEF Empty, List, Stored
  <2>2. /\ polled' \in List /\ UNCHANGED <<storeVars, watch, bus, feed, ticks, subVars>>
        /\ events' = {}
    BY <1>1, <2>1 DEF PollList, PollFails, IInv, Typed
  <2> QED BY <2>2, SubscriptionAlone DEF IInv, Typed, subVars, storeVars
<1>2. ASSUME PollSend PROVE IInv' /\ \A e \in events' : InPlace(e)
  <2>1. polled \in List
    BY <1>2 DEF PollSend, IInv, Typed
  <2>2. Push(ticks, polled, TickCap) \in Seq(List)
    BY <2>1, PushTyped, BoundAssumption DEF IInv, Typed
  <2>3. /\ ticks' \in Seq(List) /\ polled' = None
        /\ UNCHANGED <<storeVars, watch, bus, feed, subVars>> /\ events' = {}
    BY <1>2, <2>2 DEF PollSend, IInv, Typed
  <2> QED BY <2>3, SubscriptionAlone DEF IInv, Typed, subVars, storeVars
<1> QED BY <1>1, <1>2

\* A change from one of the lanes.
LEMMA IngestKeeps ==
    ASSUME IInv, pc = "run", NEW c \in Change, Ingest(c)
    PROVE  /\ snapshot' \in List /\ view' \in List /\ ViewFollowsSnapshot'
           /\ \A e \in events' : InPlace(e)
<1> DEFINE k == c.doc
           K == IF snapshot[k] = c.new THEN {} ELSE {k}
           image == [snapshot EXCEPT ![k] = c.new]
<1>1. k \in Docs /\ c.new \in Stored
  BY DEF Change
<1>2. image \in List /\ image[k] = c.new /\ \A j \in Docs \ {k} : image[j] = snapshot[j]
  BY <1>1 DEF IInv, Typed, List
<1>3. Tell(K, image) /\ snapshot' = image /\ K \in SUBSET Docs /\ pc # "off"
  BY <1>1 DEF Ingest
<1>4. \A j \in K : image[j] = None \/ image[j] # snapshot[j]
  BY <1>2
<1>5. \A j \in Docs \ K : image[j] = snapshot[j]
  BY <1>2
<1> HIDE DEF k, K, image
<1>6. /\ view' \in List
      /\ \A j \in K : j \notin silent' => view'[j] = Shown(image[j])
      /\ \A j \in Docs \ K : view'[j] = view[j] /\ (j \in silent' <=> j \in silent)
      /\ \A e \in events' : InPlace(e)
  BY <1>2, <1>3, <1>4, TellFollows
<1>7. ViewFollowsSnapshot'
  BY <1>2, <1>3, <1>5, <1>6, ViewKept
<1> QED BY <1>2, <1>3, <1>6, <1>7

\* The snapshot moves without a word, and the documents that show it are noted.
LEMMA ConvergeKeeps ==
    ASSUME IInv, pc # "off", NEW K \in SUBSET Docs, NEW image \in List, Converge(K, image)
    PROVE  /\ snapshot' \in List /\ view' \in List /\ ViewFollowsSnapshot'
           /\ \A e \in events' : InPlace(e)
<1>1. /\ snapshot' = [k \in Docs |-> IF k \in K THEN image[k] ELSE snapshot[k]]
      /\ silent' = silent \cup {k \in K : Shown(snapshot[k]) # Shown(image[k])}
      /\ events' = {} /\ view' = view
  BY DEF Converge
<1>2. snapshot' \in List /\ view' \in List
  BY <1>1 DEF IInv, Typed, List
<1>3. \A k \in Docs : k \notin silent' => view'[k] = Shown(snapshot'[k])
  BY <1>1 DEF IInv, ViewFollowsSnapshot
<1>4. ViewFollowsSnapshot'
  BY <1>3 DEF ViewFollowsSnapshot, Shown, Fits
<1> QED BY <1>1, <1>2, <1>4

\* One candidate of apply_diff after the other.
LEMMA VerifyKeeps ==
    ASSUME IInv, NEW k \in Docs, VerifyFound(k) \/ VerifyGone(k) \/ VerifyFails(k)
    PROVE  IInv' /\ \A e \in events' : InPlace(e)
<1>1. /\ pc = "verify" /\ UNCHANGED <<storeVars, laneVars>> /\ todo' \in SUBSET Docs
      /\ store \in List /\ snapshot \in List /\ view \in List
  BY DEF VerifyFound, VerifyGone, VerifyFails, NextCandidate, IInv, Typed
<1>2. ASSUME snapshot' \in List, view' \in List, ViewFollowsSnapshot',
             \A e \in events' : InPlace(e)
      PROVE  IInv' /\ \A e \in events' : InPlace(e)
  BY <1>1, <1>2 DEF IInv, Typed, storeVars, laneVars
<1>3. CASE VerifyFound(k)
  BY <1>1, <1>2, <1>3, ConvergeKeeps DEF VerifyFound
<1>4. CASE VerifyGone(k)
  <2>1. /\ store[k] = None /\ Tell({k}, store) /\ snapshot' = [snapshot EXCEPT ![k] = None]
        /\ None \in Stored
    BY <1>4 DEF VerifyGone, Stored
  <2>2. /\ snapshot' \in List /\ pc # "off" /\ {k} \in SUBSET Docs
        /\ \A j \in {k} : snapshot'[j] = store[j]
        /\ \A j \in Docs \ {k} : snapshot'[j] = snapshot[j]
    BY <1>1, <2>1 DEF List
  <2>3. /\ view' \in List
        /\ \A j \in {k} : j \notin silent' => view'[j] = Shown(store[j])
        /\ \A j \in Docs \ {k} : view'[j] = view[j] /\ (j \in silent' <=> j \in silent)
        /\ \A e \in events' : InPlace(e)
    BY <1>1, <2>1, <2>2, TellFollows
  <2>4. ViewFollowsSnapshot'
    BY <1>1, <2>2, <2>3, ViewKept
  <2> QED BY <1>2, <2>2, <2>3, <2>4
<1>5. CASE VerifyFails(k)
  <2>1. UNCHANGED <<snapshot, view, silent>> /\ events' = {}
    BY <1>5 DEF VerifyFails
  <2>2. ViewFollowsSnapshot'
    BY <1>1, <2>1 DEF IInv, ViewFollowsSnapshot, Shown, Fits
  <2> QED BY <1>1, <1>2, <2>1, <2>2
<1> QED BY <1>3, <1>4, <1>5

\* A list of the poller: what it has is told, what it lacks is left for later.
LEMMA TickKeeps == ASSUME IInv, TakeTick PROVE IInv' /\ \A e \in events' : InPlace(e)
<1> DEFINE list == Head(ticks)
           present == {k \in Docs : list[k] # None}
           K == {k \in present : list[k] # snapshot[k]}
<1>1. list \in List /\ ticks' \in Seq(List)
  BY DEF TakeTick, IInv, Typed
<1>2. /\ pc = "run" /\ pc # "off" /\ Tell(K, list)
      /\ snapshot' = [k \in Docs |-> IF k \in present THEN list[k] ELSE snapshot[k]]
      /\ UNCHANGED <<storeVars, watch, bus, feed, polled>>
  BY DEF TakeTick
<1>3. todo' \in SUBSET Docs
  BY DEF TakeTick
<1>4. /\ K \in SUBSET Docs /\ \A k \in K : list[k] = None \/ list[k] # snapshot[k]
      /\ snapshot' \in List
      /\ \A k \in K : snapshot'[k] = list[k]
      /\ \A k \in Docs \ K : snapshot'[k] = snapshot[k]
  BY <1>1, <1>2 DEF IInv, Typed, List
<1> HIDE DEF list, present, K
<1>5. /\ view' \in List
      /\ \A j \in K : j \notin silent' => view'[j] = Shown(list[j])
      /\ \A j \in Docs \ K : view'[j] = view[j] /\ (j \in silent' <=> j \in silent)
      /\ \A e \in events' : InPlace(e)
  BY <1>1, <1>2, <1>4, TellFollows
<1>6. ViewFollowsSnapshot'
  <2>1. K \in SUBSET Docs /\ list \in List /\ snapshot' \in List /\ pc # "off"
    BY <1>1, <1>2, <1>4
  <2>2. /\ \A k \in K : k \notin silent' => view'[k] = Shown(list[k])
        /\ \A k \in K : snapshot'[k] = list[k]
    BY <1>4, <1>5
  <2>3. \A k \in Docs \ K : /\ view'[k] = view[k] /\ (k \in silent' <=> k \in silent)
                           /\ snapshot'[k] = snapshot[k]
    BY <1>4, <1>5
  <2> QED BY <2>1, <2>2, <2>3, ViewKept
<1> QED BY <1>1, <1>2, <1>3, <1>4, <1>5, <1>6 DEF IInv, Typed, storeVars

\* The other steps of the subscription.
LEMMA SubscriptionKeeps ==
    ASSUME IInv, Subscribe \/ Register \/ TakeBus \/ TakeFeed \/ FeedLagged \/ Resync
                   \/ ResyncFails
    PROVE  IInv' /\ \A e \in events' : InPlace(e)
<1>1. CASE Subscribe
  <2>1. /\ snapshot' = [k \in Docs |-> Shown(store[k])]
        /\ view' = [k \in Docs |-> IF Fits(store[k]) /\ store[k].val \in Readable
                                     THEN store[k] ELSE None]
        /\ silent' = {k \in Docs : view'[k] # snapshot'[k]}
        /\ events' = {} /\ UNCHANGED <<storeVars, laneVars, todo>>
    BY <1>1 DEF Subscribe
  <2>2. \A k \in Docs : store[k] \in Stored /\ Shown(store[k]) \in Stored /\ None \in Stored
    BY ShownIsStored DEF IInv, Typed, List, Stored
  <2>3. snapshot' \in List /\ view' \in List
    BY <2>1, <2>2 DEF List
  <2>4. \A k \in Docs : Shown(Shown(store[k])) = Shown(store[k])
    BY DEF Shown, Fits
  <2>5. ViewFollowsSnapshot'
    BY <2>1, <2>4 DEF ViewFollowsSnapshot, Shown, Fits
  <2> QED BY <2>1, <2>3, <2>5 DEF IInv, Typed, storeVars, laneVars
<1>2. CASE Register \/ FeedLagged \/ ResyncFails
  <2>1. /\ UNCHANGED <<storeVars, watch, bus, polled, ticks, todo, snapshot, view, silent>>
        /\ pc # "off" /\ events' = {}
        /\ feed' \in [items : Seq(Change), lagged : BOOLEAN]
    BY <1>2 DEF Register, FeedLagged, ResyncFails, laneVars, IInv, Typed
  <2>2. ViewFollowsSnapshot'
    BY <2>1 DEF IInv, ViewFollowsSnapshot, Shown, Fits
  <2> QED BY <2>1, <2>2 DEF IInv, Typed, storeVars
<1>3. CASE TakeBus
  <2>1. Head(bus) \in Change /\ bus' \in Seq(Change)
    BY <1>3 DEF TakeBus, IInv, Typed
  <2> QED BY <1>3, <2>1, IngestKeeps DEF TakeBus, IInv, Typed, storeVars
<1>4. CASE TakeFeed
  <2>1. /\ Head(feed.items) \in Change
        /\ feed' \in [items : Seq(Change), lagged : BOOLEAN]
    <3>1. feed.items \in Seq(Change) /\ feed.items # <<>>
      BY <1>4 DEF TakeFeed, IInv, Typed
    <3>2. Head(feed.items) \in Change /\ Tail(feed.items) \in Seq(Change)
      BY <3>1
    <3>3. feed' = [feed EXCEPT !.items = Tail(feed.items)]
      BY <1>4 DEF TakeFeed
    <3> QED BY <3>2, <3>3 DEF IInv, Typed
  <2> QED BY <1>4, <2>1, IngestKeeps DEF TakeFeed, IInv, Typed, storeVars
<1>5. CASE Resync
  <2>1. [k \in Docs |-> Shown(store[k])] \in List
    BY ShownIsStored DEF IInv, Typed, List
  <2>2. /\ snapshot' \in List /\ view' \in List /\ ViewFollowsSnapshot'
        /\ \A e \in events' : InPlace(e)
    BY <1>5, <2>1, ConvergeKeeps DEF Resync
  <2> QED BY <1>5, <2>2 DEF Resync, IInv, Typed, storeVars, laneVars
<1> QED BY <1>1, <1>2, <1>3, <1>4, <1>5

\* The invariant holds when the subscription is made, and every step keeps it and
\* sends events that are in their place.
LEMMA InitKeeps == Init => IInv
<1> SUFFICES ASSUME Init PROVE IInv
    OBVIOUS
<1>1. Empty \in List
  BY DEF Empty, List, Stored
<1>2. store \in List /\ snapshot \in List /\ view \in List /\ writes \in Nat
  BY <1>1 DEF Init
<1>3. owed \in [Writers -> Change \cup {None}] /\ todo \in SUBSET Docs
      /\ polled \in List \cup {None}
  BY DEF Init
<1>4. bus \in Seq(Change) /\ ticks \in Seq(List)
      /\ feed \in [items : Seq(Change), lagged : BOOLEAN]
  BY DEF Init
<1>5. ViewFollowsSnapshot
  BY DEF Init, ViewFollowsSnapshot
<1> QED BY <1>2, <1>3, <1>4, <1>5 DEF IInv, Typed

LEMMA StepKeeps == ASSUME IInv, Next PROVE IInv' /\ \A e \in events' : InPlace(e)
BY GatewayKeeps, PollerKeeps, SubscriptionKeeps, TickKeeps, VerifyKeeps DEF Next, Subscription

LEMMA StutterKeeps == ASSUME IInv, UNCHANGED vars PROVE IInv'
BY DEF IInv, Typed, ViewFollowsSnapshot, Shown, Fits, vars, storeVars, laneVars, subVars

\* realtime.rs:18-20, "the single source of truth": whatever the order of the lanes, what the
\* subscriber was told is what the snapshot shows, except for what the code moved
\* without a word.
THEOREM ViewAlwaysFollows == Spec => []ViewFollowsSnapshot
<1>1. Init => IInv
  BY InitKeeps
<1>2. IInv /\ [Next]_vars => IInv'
  BY StepKeeps, StutterKeeps
<1>3. IInv => ViewFollowsSnapshot
  BY DEF IInv
<1> QED BY <1>1, <1>2, <1>3, PTL DEF Spec

\* Every event that is sent tells the subscriber something new that fits what it knows.
THEOREM EventsAlwaysFit == Spec => EventsFitTheView
<1> DEFINE Fit == \A e \in events' : InPlace(e)
<1>1. Init => IInv
  BY InitKeeps
<1>2. IInv /\ [Next]_vars => IInv'
  BY StepKeeps, StutterKeeps
<1>3. IInv /\ [Next]_vars => [Fit]_vars
  BY StepKeeps
<1>4. Spec => [][Fit]_vars
  BY <1>1, <1>2, <1>3, PTL DEF Spec
<1>5. [][Fit]_vars <=> EventsFitTheView
  BY DEF EventsFitTheView, InPlace
<1> QED BY <1>4, <1>5
=============================================================================
