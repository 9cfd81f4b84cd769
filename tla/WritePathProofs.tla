--------------------------- MODULE WritePathProofs ---------------------------
(***************************************************************************)
(* Theorems about the coalescer and about the handlers that write through   *)
(* it, for every set of documents, fields and concurrent requests, every    *)
(* retry budget and every bound on writes: first Coalescer, RetryBudget and *)
(* the refinement of WriteBehind, then the exactness of WritePath.          *)
(***************************************************************************)
EXTENDS WritePath, RetryBudget, TLAPS


USE DEF Body, Entry, Item

\* HashMap::extend of two bodies is a body, the one it overlays winning.
LEMMA ExtendBody ==
    ASSUME NEW base \in Body, NEW over \in Body
    PROVE  /\ Extend(base, over) \in Body
           /\ \A f \in Fields : Extend(base, over)[f] =
                                  IF over[f] # 0 THEN over[f] ELSE base[f]
  BY DEF Extend

LEMMA StampBody ==
    ASSUME NEW F \in SUBSET Fields, NEW n \in Nat
    PROVE  /\ Stamp(F, n) \in Body
           /\ \A f \in Fields : Stamp(F, n)[f] = IF f \in F THEN n ELSE 0
  BY DEF Stamp

LEMMA EmptyBodyBody == EmptyBody \in Body /\ \A f \in Fields : EmptyBody[f] = 0
  BY DEF EmptyBody

-----------------------------------------------------------------------------
\* Type correctness of the coalescer, reloads included.
LEMMA TypeInit == Init => TypeOK
  BY EmptyBodyBody, MaxClockAssumption DEF Init, TypeOK

LEMMA TypeStep == TypeOK /\ [Next]_vars => TypeOK'
<1> SUFFICES ASSUME TypeOK, [Next]_vars PROVE TypeOK'
  OBVIOUS
<1> USE DEF TypeOK
<1>1. ASSUME NEW k \in Docs, NEW F \in SUBSET Fields, Merge(k, F) PROVE TypeOK'
  <2> DEFINE b == Stamp(F, clock + 1)
  <2>1. clock + 1 \in 0..MaxClock /\ clock' = clock + 1
    BY <1>1, MaxClockAssumption DEF Merge
  <2>2. b \in Body
    <3>1. clock + 1 \in Nat
      BY <2>1, MaxClockAssumption
    <3> QED
      BY <3>1, StampBody
  <2>3. Fresh(b) \in Entry
    BY <2>2 DEF Fresh
  <2>4. ASSUME pending[k] # None
        PROVE  Extend(pending[k].body, b) \in Body
    BY <2>2, <2>4, ExtendBody
  <2> HIDE DEF b
  <2>5. pending' \in [Docs -> Entry \cup {None}]
    BY <1>1, <2>3, <2>4 DEF Merge, b
  <2> QED
    BY <1>1, <2>1, <2>5 DEF Merge
<1>2. ASSUME NEW k \in Docs, WindowEnds(k) PROVE TypeOK'
  BY <1>2 DEF WindowEnds
<1>3. CASE TakeDue
  BY <1>3, NoneAssumption DEF TakeDue, Due
<1>4. ASSUME NEW k \in Docs, FlushStores(k) PROVE TypeOK'
  <2>1. inflight[k].body \in Body
    BY <1>4 DEF FlushStores, Writing
  <2>2. Extend(stored[k], inflight[k].body) \in Body
    BY <2>1, ExtendBody
  <2> QED
    BY <1>4, <2>2 DEF FlushStores
<1>5. ASSUME NEW k \in Docs, FlushFails(k) PROVE TypeOK'
  BY <1>5 DEF FlushFails, Writing
<1>6. ASSUME NEW k \in Docs, Refold(k) PROVE TypeOK'
  <2>1. inflight[k].body \in Body /\ pending[k].body \in Body
    BY <1>6 DEF Refold
  <2>2. Extend(inflight[k].body, pending[k].body) \in Body
    BY <2>1, ExtendBody
  <2> QED
    BY <1>6, <2>2 DEF Refold
<1>7. ASSUME NEW k \in Docs, Requeue(k) PROVE TypeOK'
  <2>1. inflight[k].body \in Body /\ inflight[k].fails + 1 \in Nat
    BY <1>7 DEF Requeue
  <2>2. [Fresh(inflight[k].body) EXCEPT !.fails = inflight[k].fails + 1] \in Entry
    BY <2>1 DEF Fresh
  <2> QED
    BY <1>7, <2>2 DEF Requeue
<1>8. ASSUME NEW k \in Docs, GiveUp(k) PROVE TypeOK'
  BY <1>8 DEF GiveUp
<1>9. CASE DrainTake
  BY <1>9, NoneAssumption DEF DrainTake
<1>10. ASSUME NEW k \in Docs, DrainStores(k) PROVE TypeOK'
  <2>1. Extend(stored[k], draining[k]) \in Body
    BY <1>10, ExtendBody DEF DrainStores
  <2> QED
    BY <1>10, <2>1 DEF DrainStores
<1>11. ASSUME NEW k \in Docs, DrainLoses(k) PROVE TypeOK'
  BY <1>11 DEF DrainLoses
<1>12. CASE UNCHANGED vars
  BY <1>12 DEF vars
<1> QED
  BY <1>1, <1>2, <1>3, <1>4, <1>5, <1>6, <1>7, <1>8, <1>9, <1>10, <1>11, <1>12
     DEF Next, SteadyNext, Flusher, FlushEnds, Reload

THEOREM TypeCorrect == Spec => []TypeOK
  BY TypeInit, TypeStep, PTL DEF Spec

-----------------------------------------------------------------------------
\* The retry counter stays within the budget, reloads included.  The second
\* conjunct of RetriesWithinBudget is what makes the first inductive.
LEMMA RetriesStep ==
    TypeOK /\ RetriesWithinBudget /\ [Next]_vars => RetriesWithinBudget'
<1> SUFFICES ASSUME TypeOK, RetriesWithinBudget, [Next]_vars
             PROVE  RetriesWithinBudget'
  OBVIOUS
<1> USE MaxFailsAssumption DEF TypeOK, RetriesWithinBudget
<1>1. ASSUME NEW k \in Docs, NEW F \in SUBSET Fields, Merge(k, F)
      PROVE  RetriesWithinBudget'
  BY <1>1 DEF Merge, Fresh
<1>2. ASSUME NEW k \in Docs, WindowEnds(k) PROVE RetriesWithinBudget'
  BY <1>2 DEF WindowEnds
<1>3. CASE TakeDue
  BY <1>3 DEF TakeDue, Due
<1>4. ASSUME NEW k \in Docs, FlushStores(k) PROVE RetriesWithinBudget'
  BY <1>4 DEF FlushStores
<1>5. ASSUME NEW k \in Docs, FlushFails(k) PROVE RetriesWithinBudget'
  BY <1>5 DEF FlushFails, Writing
<1>6. ASSUME NEW k \in Docs, Refold(k) PROVE RetriesWithinBudget'
  BY <1>6 DEF Refold
<1>7. ASSUME NEW k \in Docs, Requeue(k) PROVE RetriesWithinBudget'
  BY <1>7 DEF Requeue, Fresh
<1>8. ASSUME NEW k \in Docs, GiveUp(k) PROVE RetriesWithinBudget'
  BY <1>8 DEF GiveUp
<1>9. CASE DrainTake
  BY <1>9 DEF DrainTake
<1>10. ASSUME NEW k \in Docs, DrainStores(k) PROVE RetriesWithinBudget'
  BY <1>10 DEF DrainStores
<1>11. ASSUME NEW k \in Docs, DrainLoses(k) PROVE RetriesWithinBudget'
  BY <1>11 DEF DrainLoses
<1>12. CASE UNCHANGED vars
  BY <1>12 DEF vars
<1> QED
  BY <1>1, <1>2, <1>3, <1>4, <1>5, <1>6, <1>7, <1>8, <1>9, <1>10, <1>11, <1>12
     DEF Next, SteadyNext, Flusher, FlushEnds, Reload

\* The retry counter never passes MAX_FLUSH_FAILS, reloads included.
THEOREM RetriesBounded == Spec => []RetriesWithinBudget
<1>1. Init => RetriesWithinBudget
  BY DEF Init, RetriesWithinBudget
<1>2. TypeOK /\ RetriesWithinBudget /\ [Next]_vars => RetriesWithinBudget'
  BY RetriesStep
<1> QED
  BY <1>1, <1>2, TypeCorrect, PTL DEF Spec

-----------------------------------------------------------------------------
\* Between reloads the coalescer is type correct as well.
LEMMA SteadyTypeCorrect == SteadySpec => []TypeOK
<1>1. [SteadyNext]_vars => [Next]_vars
  BY DEF Next
<1> QED
  BY <1>1, TypeInit, TypeStep, PTL DEF SteadySpec

LEMMA NotNone ==
    /\ \A e \in Entry : e # None
    /\ \A i \in Item : i # None
  BY NoneAssumption

\* The bodies a document has in flight and pending.
I(k) == BodyOf(inflight[k])
P(k) == BodyOf(pending[k])

LEMMA LayerBodies ==
    ASSUME TypeOK, NEW k \in Docs
    PROVE  stored[k] \in Body /\ I(k) \in Body /\ P(k) \in Body
  BY EmptyBodyBody DEF TypeOK, BodyOf, I, P

\* What each step of SteadyNext does to the layers of every document.
LEMMA MergeLayers ==
    ASSUME TypeOK, NEW k \in Docs, NEW F \in SUBSET Fields, Merge(k, F)
    PROVE  /\ stored' = stored /\ clock' = clock + 1
           /\ \A j \in Docs : I(j)' = I(j)
           /\ \A j \in Docs \ {k} : P(j)' = P(j)
           /\ P(k)' = Extend(P(k), Stamp(F, clock + 1))
<1> DEFINE b == Stamp(F, clock + 1)
<1>1. b \in Body
  <2>1. clock + 1 \in Nat
    BY MaxClockAssumption DEF TypeOK
  <2> QED
    BY <2>1, StampBody
<1>2. stored' = stored /\ clock' = clock + 1 /\ inflight' = inflight
  BY DEF Merge
<1>3. CASE pending[k] = None
  <2> HIDE DEF b
  <2>1. Fresh(b) \in Entry /\ Fresh(b).body = b
    BY <1>1 DEF Fresh
  <2>2. pending' = [pending EXCEPT ![k] = Fresh(b)]
    BY <1>3 DEF Merge, b
  <2>3. pending'[k] = Fresh(b) /\ \A j \in Docs \ {k} : pending'[j] = pending[j]
    BY <2>2 DEF TypeOK
  <2>4. P(k)' = b
    BY <2>1, <2>3, NotNone DEF P, BodyOf
  <2>5. P(k) = EmptyBody
    BY <1>3 DEF P, BodyOf
  <2>6. Extend(EmptyBody, b) = b
    BY <1>1 DEF Extend, EmptyBody
  <2> QED
    BY <1>2, <2>3, <2>4, <2>5, <2>6 DEF b, P, I, BodyOf
<1>4. CASE pending[k] # None
  <2> HIDE DEF b
  <2> DEFINE e == [pending[k] EXCEPT !.body = Extend(pending[k].body, b)]
  <2>1. pending[k] \in Entry
    BY <1>4 DEF TypeOK
  <2>2. Extend(pending[k].body, b) \in Body
    BY <1>1, <2>1, ExtendBody
  <2>3. e \in Entry /\ e.body = Extend(pending[k].body, b)
    BY <2>1, <2>2
  <2>4. pending' = [pending EXCEPT ![k] = e]
    BY <1>4 DEF Merge, b
  <2> HIDE DEF e
  <2>5. pending'[k] = e /\ \A j \in Docs \ {k} : pending'[j] = pending[j]
    BY <2>4 DEF TypeOK
  <2>6. P(k)' = Extend(pending[k].body, b)
    BY <2>3, <2>5, NotNone DEF P, BodyOf
  <2>7. P(k) = pending[k].body
    BY <1>4 DEF P, BodyOf
  <2> QED
    BY <1>2, <2>5, <2>6, <2>7 DEF b, P, I, BodyOf
<1> QED
  BY <1>3, <1>4

LEMMA WindowLayers ==
    ASSUME TypeOK, NEW k \in Docs, WindowEnds(k)
    PROVE  /\ stored' = stored /\ clock' = clock
           /\ \A j \in Docs : I(j)' = I(j) /\ P(j)' = P(j)
<1> DEFINE e == [pending[k] EXCEPT !.due = TRUE]
<1>1. pending[k] \in Entry /\ pending[k] # None
  BY DEF TypeOK, WindowEnds
<1>2. e \in Entry /\ e.body = pending[k].body
  BY <1>1
<1>3. pending' = [pending EXCEPT ![k] = e]
  BY DEF WindowEnds
<1> HIDE DEF e
<1>4. pending'[k] = e /\ \A j \in Docs \ {k} : pending'[j] = pending[j]
  BY <1>3 DEF TypeOK
<1>5. P(k)' = P(k)
  BY <1>1, <1>2, <1>4, NotNone DEF P, BodyOf
<1> QED
  BY <1>4, <1>5 DEF WindowEnds, P, I, BodyOf

LEMMA TakeLayers ==
    ASSUME TypeOK, TakeDue
    PROVE  /\ stored' = stored /\ clock' = clock
           /\ \A j \in Docs : /\ I(j) = EmptyBody
                             /\ \/ I(j)' = P(j) /\ P(j)' = EmptyBody
                                \/ I(j)' = EmptyBody /\ P(j)' = P(j)
<1>1. stored' = stored /\ clock' = clock
  BY DEF TakeDue
<1>2. ASSUME NEW j \in Docs
      PROVE  I(j) = EmptyBody
    BY DEF TakeDue, I, BodyOf
<1>3. ASSUME NEW j \in Docs, j \in Due
      PROVE  I(j)' = P(j) /\ P(j)' = EmptyBody
  <2>1. pending[j] \in Entry /\ pending[j] # None
    BY <1>3 DEF TypeOK, Due
  <2>2. P(j) = pending[j].body
    BY <2>1 DEF P, BodyOf
  <2>3. P(j)' = EmptyBody
    BY <1>3 DEF TakeDue, P, BodyOf
  <2>4. CASE pending[j].body = EmptyBody
    <3>1. inflight'[j] = None
      BY <2>4 DEF TakeDue
    <3> QED
      BY <2>2, <2>3, <2>4, <3>1 DEF I, BodyOf
  <2>5. CASE pending[j].body # EmptyBody
    <3> DEFINE i == [body |-> pending[j].body, fails |-> pending[j].fails,
                     failed |-> FALSE]
    <3>1. inflight'[j] = i
      BY <1>3, <2>5 DEF TakeDue
    <3>2. i \in Item /\ i.body = pending[j].body
      BY <2>1
    <3> HIDE DEF i
    <3> QED
      BY <2>2, <2>3, <3>1, <3>2, NotNone DEF I, BodyOf
  <2> QED
    BY <2>4, <2>5
<1>4. ASSUME NEW j \in Docs, j \notin Due
      PROVE  I(j)' = EmptyBody /\ P(j)' = P(j)
  BY <1>4 DEF TakeDue, I, P, BodyOf
<1> QED
  BY <1>1, <1>2, <1>3, <1>4

LEMMA StoreLayers ==
    ASSUME TypeOK, NEW k \in Docs, FlushStores(k)
    PROVE  /\ clock' = clock
           /\ \A j \in Docs : P(j)' = P(j)
           /\ \A j \in Docs \ {k} : stored'[j] = stored[j] /\ I(j)' = I(j)
           /\ stored'[k] = Extend(stored[k], I(k)) /\ I(k)' = EmptyBody
<1>1. inflight[k] # None
  BY DEF FlushStores, Writing
<1> QED
  BY <1>1 DEF FlushStores, TypeOK, P, I, BodyOf

LEMMA FailLayers ==
    ASSUME TypeOK, NEW k \in Docs, FlushFails(k)
    PROVE  /\ stored' = stored /\ clock' = clock
           /\ \A j \in Docs : I(j)' = I(j) /\ P(j)' = P(j)
<1> DEFINE i == [inflight[k] EXCEPT !.failed = TRUE]
<1>1. inflight[k] \in Item /\ inflight[k] # None
  BY DEF TypeOK, FlushFails, Writing
<1>2. i \in Item /\ i.body = inflight[k].body
  BY <1>1
<1>3. inflight' = [inflight EXCEPT ![k] = i]
  BY DEF FlushFails
<1> HIDE DEF i
<1>4. inflight'[k] = i /\ \A j \in Docs \ {k} : inflight'[j] = inflight[j]
  BY <1>3 DEF TypeOK
<1>5. I(k)' = I(k)
  BY <1>1, <1>2, <1>4, NotNone DEF I, BodyOf
<1> QED
  BY <1>4, <1>5 DEF FlushFails, P, I, BodyOf

LEMMA RefoldLayers ==
    ASSUME TypeOK, NEW k \in Docs, Refold(k)
    PROVE  /\ stored' = stored /\ clock' = clock
           /\ \A j \in Docs \ {k} : I(j)' = I(j) /\ P(j)' = P(j)
           /\ I(k)' = EmptyBody /\ P(k)' = Extend(I(k), P(k))
<1> DEFINE e == [body |-> Extend(inflight[k].body, pending[k].body),
                 due |-> pending[k].due, fails |-> pending[k].fails + 1]
<1>1. /\ pending[k] \in Entry /\ pending[k] # None
      /\ inflight[k] \in Item /\ inflight[k] # None
  BY DEF TypeOK, Refold
<1>2. Extend(inflight[k].body, pending[k].body) \in Body
  BY <1>1, ExtendBody
<1>3. e \in Entry /\ e.body = Extend(inflight[k].body, pending[k].body)
  <2>1. pending[k].fails + 1 \in Nat /\ pending[k].due \in BOOLEAN
    BY <1>1
  <2> QED
    BY <1>2, <2>1
<1>4. pending' = [pending EXCEPT ![k] = e]
  BY DEF Refold
<1> HIDE DEF e
<1>5. pending'[k] = e /\ \A j \in Docs \ {k} : pending'[j] = pending[j]
  BY <1>4 DEF TypeOK
<1>6. P(k)' = Extend(I(k), P(k))
  BY <1>1, <1>3, <1>5, NotNone DEF P, I, BodyOf
<1>7. I(k)' = EmptyBody /\ \A j \in Docs \ {k} : I(j)' = I(j)
  BY DEF Refold, TypeOK, I, BodyOf
<1>8. stored' = stored /\ clock' = clock
  BY DEF Refold
<1>9. \A j \in Docs \ {k} : P(j)' = P(j)
  BY <1>5 DEF P, BodyOf
<1> QED
  BY <1>6, <1>7, <1>8, <1>9

LEMMA RequeueLayers ==
    ASSUME TypeOK, NEW k \in Docs, Requeue(k)
    PROVE  /\ stored' = stored /\ clock' = clock
           /\ \A j \in Docs \ {k} : I(j)' = I(j) /\ P(j)' = P(j)
           /\ I(k)' = EmptyBody /\ P(k)' = I(k) /\ P(k) = EmptyBody
<1> DEFINE e == [Fresh(inflight[k].body) EXCEPT !.fails = inflight[k].fails + 1]
<1>1. inflight[k] \in Item /\ inflight[k] # None /\ pending[k] = None
  BY DEF TypeOK, Requeue
<1>2. e \in Entry /\ e.body = inflight[k].body
  <2>1. inflight[k].body \in Body /\ inflight[k].fails + 1 \in Nat
    BY <1>1
  <2> QED
    BY <2>1 DEF Fresh
<1>3. pending' = [pending EXCEPT ![k] = e]
  BY DEF Requeue
<1> HIDE DEF e
<1>4. pending'[k] = e /\ \A j \in Docs \ {k} : pending'[j] = pending[j]
  BY <1>3 DEF TypeOK
<1>5. P(k)' = I(k) /\ P(k) = EmptyBody
  BY <1>1, <1>2, <1>4, NotNone DEF P, I, BodyOf
<1>6. I(k)' = EmptyBody /\ \A j \in Docs \ {k} : I(j)' = I(j)
  BY DEF Requeue, TypeOK, I, BodyOf
<1>7. stored' = stored /\ clock' = clock
  BY DEF Requeue
<1>8. \A j \in Docs \ {k} : P(j)' = P(j)
  BY <1>4 DEF P, BodyOf
<1> QED
  BY <1>5, <1>6, <1>7, <1>8

LEMMA GiveUpLayers ==
    ASSUME TypeOK, NEW k \in Docs, GiveUp(k)
    PROVE  /\ stored' = stored /\ clock' = clock
           /\ \A j \in Docs \ {k} : I(j)' = I(j)
           /\ \A j \in Docs : P(j)' = P(j)
           /\ I(k)' = EmptyBody /\ P(k) = EmptyBody
  BY DEF GiveUp, TypeOK, I, P, BodyOf

LEMMA IdleLayers ==
    ASSUME UNCHANGED vars
    PROVE  /\ stored' = stored /\ clock' = clock
           /\ \A j \in Docs : I(j)' = I(j) /\ P(j)' = P(j)
  BY DEF vars, I, P, BodyOf

-----------------------------------------------------------------------------
\* The layers stay ordered by age between reloads.
LEMMA LayersStep ==
    TypeOK /\ LayersOrdered /\ [SteadyNext]_vars => LayersOrdered'
<1> SUFFICES ASSUME TypeOK, LayersOrdered, [SteadyNext]_vars
             PROVE  LayersOrdered'
  OBVIOUS
<1> DEFINE Ordered(s, i, p, n) ==
      /\ s <= n
      /\ i # 0 => s < i /\ i <= n
      /\ p # 0 => s < p /\ i < p /\ p <= n
<1> SUFFICES ASSUME NEW j \in Docs, NEW f \in Fields
             PROVE  Ordered(stored'[j][f], I(j)'[f], P(j)'[f], clock')
  BY DEF LayersOrdered, I, P
<1>o. Ordered(stored[j][f], I(j)[f], P(j)[f], clock)
  BY DEF LayersOrdered, I, P
<1>n. /\ stored[j] \in Body /\ I(j) \in Body /\ P(j) \in Body
      /\ clock \in Nat /\ EmptyBody[f] = 0
  BY LayerBodies, EmptyBodyBody DEF TypeOK
<1>1. ASSUME NEW k \in Docs, NEW F \in SUBSET Fields, Merge(k, F)
      PROVE  Ordered(stored'[j][f], I(j)'[f], P(j)'[f], clock')
  <2>1. CASE j # k
    BY <1>1, <1>o, <1>n, <2>1, MergeLayers
  <2>2. CASE j = k
    <3>1. Stamp(F, clock + 1) \in Body
          /\ Stamp(F, clock + 1)[f] = IF f \in F THEN clock + 1 ELSE 0
      BY <1>n, StampBody
    <3>2. P(j)'[f] = IF f \in F THEN clock + 1 ELSE P(j)[f]
      BY <1>1, <1>n, <2>2, <3>1, MergeLayers, ExtendBody
    <3>3. stored' = stored /\ clock' = clock + 1 /\ I(j)' = I(j)
      BY <1>1, <2>2, MergeLayers
    <3> QED
      BY <1>o, <1>n, <3>2, <3>3
  <2> QED
    BY <2>1, <2>2
<1>2. ASSUME NEW k \in Docs, WindowEnds(k)
      PROVE  Ordered(stored'[j][f], I(j)'[f], P(j)'[f], clock')
  BY <1>2, <1>o, WindowLayers
<1>3. CASE TakeDue
  <2>1. I(j) = EmptyBody /\ stored' = stored /\ clock' = clock
    BY <1>3, TakeLayers
  <2>2. \/ I(j)' = P(j) /\ P(j)' = EmptyBody
        \/ I(j)' = EmptyBody /\ P(j)' = P(j)
    BY <1>3, TakeLayers
  <2> QED
    BY <1>o, <1>n, <2>1, <2>2
<1>4. ASSUME NEW k \in Docs, FlushStores(k)
      PROVE  Ordered(stored'[j][f], I(j)'[f], P(j)'[f], clock')
  <2>1. CASE j # k
    BY <1>4, <1>o, <2>1, StoreLayers
  <2>2. CASE j = k
    <3>1. stored'[j][f] = IF I(j)[f] # 0 THEN I(j)[f] ELSE stored[j][f]
      BY <1>4, <1>n, <2>2, StoreLayers, ExtendBody
    <3>2. I(j)' = EmptyBody /\ P(j)' = P(j) /\ clock' = clock
      BY <1>4, <2>2, StoreLayers
    <3> QED
      BY <1>o, <1>n, <3>1, <3>2
  <2> QED
    BY <2>1, <2>2
<1>5. ASSUME NEW k \in Docs, FlushFails(k)
      PROVE  Ordered(stored'[j][f], I(j)'[f], P(j)'[f], clock')
  BY <1>5, <1>o, FailLayers
<1>6. ASSUME NEW k \in Docs, Refold(k)
      PROVE  Ordered(stored'[j][f], I(j)'[f], P(j)'[f], clock')
  <2>1. CASE j # k
    BY <1>6, <1>o, <2>1, RefoldLayers
  <2>2. CASE j = k
    <3>1. P(j)'[f] = IF P(j)[f] # 0 THEN P(j)[f] ELSE I(j)[f]
      BY <1>6, <1>n, <2>2, RefoldLayers, ExtendBody
    <3>2. I(j)' = EmptyBody /\ stored' = stored /\ clock' = clock
      BY <1>6, <2>2, RefoldLayers
    <3> QED
      BY <1>o, <1>n, <3>1, <3>2
  <2> QED
    BY <2>1, <2>2
<1>7. ASSUME NEW k \in Docs, Requeue(k)
      PROVE  Ordered(stored'[j][f], I(j)'[f], P(j)'[f], clock')
  <2>1. CASE j # k
    BY <1>7, <1>o, <2>1, RequeueLayers
  <2>2. CASE j = k
    <3>1. /\ I(j)' = EmptyBody /\ P(j)' = I(j)
          /\ stored' = stored /\ clock' = clock
      BY <1>7, <2>2, RequeueLayers
    <3> QED
      BY <1>o, <1>n, <3>1
  <2> QED
    BY <2>1, <2>2
<1>8. ASSUME NEW k \in Docs, GiveUp(k)
      PROVE  Ordered(stored'[j][f], I(j)'[f], P(j)'[f], clock')
  <2>1. stored' = stored /\ clock' = clock /\ P(j)' = P(j)
    BY <1>8, GiveUpLayers
  <2>2. I(j)' = I(j) \/ I(j)' = EmptyBody
    BY <1>8, GiveUpLayers
  <2>3. I(j)' = EmptyBody => P(j)[f] = 0 \/ I(j)[f] < P(j)[f]
    BY <1>o
  <2> QED
    BY <1>o, <1>n, <2>1, <2>2
<1>9. CASE UNCHANGED vars
  BY <1>9, <1>o, IdleLayers
<1> QED
  BY <1>1, <1>2, <1>3, <1>4, <1>5, <1>6, <1>7, <1>8, <1>9
     DEF SteadyNext, Flusher, FlushEnds

\* Between reloads an old value is never in a layer above a newer one, for
\* any number of documents, fields, writes and failures.
THEOREM LayersAlwaysOrdered == SteadySpec => []LayersOrdered
<1>1. Init => LayersOrdered
  BY EmptyBodyBody DEF Init, LayersOrdered, BodyOf
<1> QED
  BY <1>1, LayersStep, SteadyTypeCorrect, PTL DEF SteadySpec

-----------------------------------------------------------------------------
\* Refinement: between reloads the coalescer is a write-behind buffer.
LEMMA Overlay ==
    ASSUME NEW s \in Body, NEW i \in Body, NEW p \in Body
    PROVE  /\ Extend(Extend(s, i), p) \in Body
           /\ \A f \in Fields :
                Extend(Extend(s, i), p)[f] =
                  IF p[f] # 0 THEN p[f] ELSE IF i[f] # 0 THEN i[f] ELSE s[f]
<1>1. Extend(s, i) \in Body
  BY ExtendBody
<1> QED
  BY <1>1, ExtendBody

LEMMA ViewValue ==
    ASSUME TypeOK, NEW k \in Docs
    PROVE  /\ View(k) \in Body
           /\ \A f \in Fields :
                View(k)[f] = IF P(k)[f] # 0 THEN P(k)[f]
                             ELSE IF I(k)[f] # 0 THEN I(k)[f] ELSE stored[k][f]
<1>1. stored[k] \in Body /\ I(k) \in Body /\ P(k) \in Body
  BY LayerBodies
<1>2. View(k) = Extend(Extend(stored[k], I(k)), P(k))
  BY DEF View, I, P
<1> QED
  BY <1>1, <1>2, Overlay

LEMMA NextViewValue ==
    ASSUME TypeOK', NEW k \in Docs
    PROVE  /\ stored'[k] \in Body /\ View(k)' \in Body
           /\ \A f \in Fields :
                View(k)'[f] = IF P(k)'[f] # 0 THEN P(k)'[f]
                              ELSE IF I(k)'[f] # 0 THEN I(k)'[f]
                              ELSE stored'[k][f]
<1>1. stored'[k] \in Body /\ I(k)' \in Body /\ P(k)' \in Body
  BY EmptyBodyBody DEF TypeOK, BodyOf, I, P
<1>2. View(k)' = Extend(Extend(stored'[k], I(k)'), P(k)')
  BY DEF View, I, P
<1> QED
  BY <1>1, <1>2, Overlay

\* Two bodies with the same fields are the same body.
LEMMA SameBody ==
    ASSUME NEW a \in Body, NEW b \in Body, \A f \in Fields : a[f] = b[f]
    PROVE  a = b
  OBVIOUS

\* A step that keeps every view and the disk is a stutter of WriteBehind.
LEMMA SameViews ==
    ASSUME TypeOK, TypeOK', stored' = stored, clock' = clock,
           \A j \in Docs, f \in Fields : View(j)'[f] = View(j)[f]
    PROVE  UNCHANGED WB!vars
<1>1. ASSUME NEW j \in Docs PROVE View(j)' = View(j)
  <2>1. View(j) \in Body /\ View(j)' \in Body
    BY ViewValue, NextViewValue
  <2> QED
    BY <2>1, SameBody
<1> QED
  BY <1>1 DEF WB!vars

LEMMA RefinementStep ==
    TypeOK /\ TypeOK' /\ LayersOrdered /\ [SteadyNext]_vars => [WB!Next]_(WB!vars)
<1> SUFFICES ASSUME TypeOK, TypeOK', LayersOrdered, [SteadyNext]_vars
             PROVE  WB!Next \/ UNCHANGED WB!vars
  OBVIOUS
<1>n. ASSUME NEW j \in Docs
      PROVE  /\ stored[j] \in Body /\ I(j) \in Body /\ P(j) \in Body
             /\ clock \in Nat /\ EmptyBody \in Body
             /\ \A f \in Fields : EmptyBody[f] = 0
  BY LayerBodies, EmptyBodyBody DEF TypeOK
<1>1. ASSUME NEW k \in Docs, NEW F \in SUBSET Fields, Merge(k, F)
      PROVE  WB!Patch(k, F)
  <2> DEFINE new == [f \in Fields |-> IF f \in F THEN clock + 1 ELSE View(k)[f]]
  <2>1. stored' = stored /\ clock' = clock + 1 /\ clock < MaxClock
    BY <1>1, MergeLayers DEF Merge
  <2>2. ASSUME NEW j \in Docs \ {k} PROVE View(j)' = View(j)
    BY <1>1, <2>1, MergeLayers DEF View, I, P
  <2>3. View(k)' = new
    <3>1. clock + 1 \in Nat /\ clock + 1 # 0
      BY <1>n
    <3>2. View(k)' \in Body /\ View(k) \in Body
      BY NextViewValue, ViewValue
    <3>3. new \in Body
      BY <3>1, <3>2
    <3>4. ASSUME NEW f \in Fields PROVE View(k)'[f] = new[f]
      <4>1. Stamp(F, clock + 1) \in Body
            /\ Stamp(F, clock + 1)[f] = IF f \in F THEN clock + 1 ELSE 0
        <5>1. F \in SUBSET Fields /\ f \in Fields /\ clock + 1 \in Nat
          BY <3>1
        <5> HIDE DEF new
        <5> QED
          BY <5>1, StampBody
      <4>2. P(k)'[f] = IF f \in F THEN clock + 1 ELSE P(k)[f]
        BY <1>1, <1>n, <3>1, <4>1, MergeLayers, ExtendBody
      <4>3. I(k)'[f] = I(k)[f]
        BY <1>1, MergeLayers
      <4> QED
        BY <2>1, <3>1, <4>2, <4>3, NextViewValue, ViewValue
    <3> HIDE DEF new
    <3> QED
      BY <3>2, <3>3, <3>4, SameBody
  <2> QED
    BY <2>1, <2>2, <2>3 DEF WB!Patch
<1>2. ASSUME NEW k \in Docs, WindowEnds(k) PROVE UNCHANGED WB!vars
  BY <1>2, WindowLayers, SameViews DEF View, I, P
<1>3. CASE TakeDue
  <2>1. ASSUME NEW j \in Docs, NEW f \in Fields PROVE View(j)'[f] = View(j)[f]
    <3>1. I(j)[f] = 0 /\ EmptyBody[f] = 0 /\ stored' = stored
      BY <1>3, <1>n, TakeLayers
    <3>2. \/ I(j)'[f] = P(j)[f] /\ P(j)'[f] = 0
          \/ I(j)'[f] = 0 /\ P(j)'[f] = P(j)[f]
      BY <1>3, <3>1, TakeLayers
    <3> QED
      BY <3>1, <3>2, ViewValue, NextViewValue
  <2> QED
    BY <1>3, <2>1, TakeLayers, SameViews
<1>4. ASSUME NEW k \in Docs, FlushStores(k) PROVE WB!Persist(k)
  <2>1. clock' = clock /\ \A j \in Docs \ {k} : stored'[j] = stored[j]
    BY <1>4, StoreLayers
  <2>2. ASSUME NEW f \in Fields
        PROVE  stored'[k][f] = IF I(k)[f] # 0 THEN I(k)[f] ELSE stored[k][f]
    BY <1>4, <1>n, StoreLayers, ExtendBody
  <2>3. ASSUME NEW j \in Docs PROVE View(j)' = View(j)
    <3>1. CASE j # k
      BY <1>4, <3>1, StoreLayers DEF View, I, P
    <3>2. CASE j = k
      <4>1. I(k)' = EmptyBody /\ P(k)' = P(k)
        BY <1>4, StoreLayers
      <4>2. ASSUME NEW f \in Fields PROVE View(k)'[f] = View(k)[f]
        BY <1>n, <2>2, <4>1, ViewValue, NextViewValue
      <4>3. View(k) \in Body /\ View(k)' \in Body
        BY ViewValue, NextViewValue
      <4> QED
        BY <3>2, <4>2, <4>3, SameBody
    <3> QED
      BY <3>1, <3>2
  <2>4. ASSUME NEW f \in Fields
        PROVE  stored[k][f] <= stored'[k][f] /\ stored'[k][f] <= View(k)[f]
    <3>1. /\ I(k)[f] # 0 => stored[k][f] < I(k)[f]
          /\ P(k)[f] # 0 => stored[k][f] < P(k)[f] /\ I(k)[f] < P(k)[f]
      BY DEF LayersOrdered, I, P
    <3> QED
      BY <1>n, <2>2, <3>1, ViewValue
  <2> QED
    BY <2>1, <2>3, <2>4 DEF WB!Persist
<1>5. ASSUME NEW k \in Docs, FlushFails(k) PROVE UNCHANGED WB!vars
  BY <1>5, FailLayers, SameViews DEF View, I, P
<1>6. ASSUME NEW k \in Docs, Refold(k) PROVE UNCHANGED WB!vars
  <2>1. stored' = stored /\ clock' = clock
    BY <1>6, RefoldLayers
  <2>2. ASSUME NEW j \in Docs, NEW f \in Fields PROVE View(j)'[f] = View(j)[f]
    <3>1. CASE j # k
      BY <1>6, <2>1, <3>1, RefoldLayers DEF View, I, P
    <3>2. CASE j = k
      <4>1. I(j)'[f] = 0
        BY <1>6, <1>n, <3>2, RefoldLayers
      <4>2. P(j)'[f] = IF P(j)[f] # 0 THEN P(j)[f] ELSE I(j)[f]
        BY <1>6, <1>n, <3>2, RefoldLayers, ExtendBody
      <4> QED
        BY <2>1, <4>1, <4>2, ViewValue, NextViewValue
    <3> QED
      BY <3>1, <3>2
  <2> QED
    BY <2>1, <2>2, SameViews
<1>7. ASSUME NEW k \in Docs, Requeue(k) PROVE UNCHANGED WB!vars
  <2>1. stored' = stored /\ clock' = clock
    BY <1>7, RequeueLayers
  <2>2. ASSUME NEW j \in Docs, NEW f \in Fields PROVE View(j)'[f] = View(j)[f]
    <3>1. CASE j # k
      BY <1>7, <2>1, <3>1, RequeueLayers DEF View, I, P
    <3>2. CASE j = k
      <4>1. I(j)'[f] = 0 /\ P(j)'[f] = I(j)[f] /\ P(j)[f] = 0
        BY <1>7, <1>n, <3>2, RequeueLayers
      <4> QED
        BY <2>1, <4>1, ViewValue, NextViewValue
    <3> QED
      BY <3>1, <3>2
  <2> QED
    BY <2>1, <2>2, SameViews
<1>8. ASSUME NEW k \in Docs, GiveUp(k) PROVE WB!GiveUp(k)
  <2>1. stored' = stored /\ clock' = clock
    BY <1>8, GiveUpLayers
  <2>2. ASSUME NEW j \in Docs \ {k} PROVE View(j)' = View(j)
    BY <1>8, <2>1, GiveUpLayers DEF View, I, P
  <2>3. View(k)' = stored[k]
    <3>1. I(k)' = EmptyBody /\ P(k)' = EmptyBody
      BY <1>8, GiveUpLayers
    <3>2. ASSUME NEW f \in Fields PROVE View(k)'[f] = stored[k][f]
      BY <1>n, <2>1, <3>1, NextViewValue
    <3>3. View(k)' \in Body /\ stored[k] \in Body
      BY <1>n, NextViewValue
    <3> QED
      BY <3>2, <3>3, SameBody
  <2> QED
    BY <2>1, <2>2, <2>3 DEF WB!GiveUp
<1>9. CASE UNCHANGED vars
  BY <1>9, IdleLayers, SameViews DEF View, I, P
<1> QED
  BY <1>1, <1>2, <1>3, <1>4, <1>5, <1>6, <1>7, <1>8, <1>9
     DEF SteadyNext, Flusher, FlushEnds, WB!Next

\* Between reloads the coalescer implements the write-behind promise: every
\* acknowledged PATCH takes effect in order and at once in what the clients
\* see, the disk follows without ever going back, and a PATCH is undone only
\* by an explicit give-up (coalesce.rs:4-12).
THEOREM CoalescerImplementsWriteBehind == SteadySpec => ImplementsWriteBehind
<1>1. Init => WB!Init
  <2> SUFFICES ASSUME Init PROVE WB!Init
    OBVIOUS
  <2>1. TypeOK
    BY TypeInit
  <2>2. ASSUME NEW k \in Docs PROVE View(k) = EmptyBody /\ stored[k] = EmptyBody
    <3>1. stored[k] = EmptyBody /\ I(k) = EmptyBody /\ P(k) = EmptyBody
      BY DEF Init, I, P, BodyOf
    <3>2. View(k) \in Body /\ EmptyBody \in Body
      BY <2>1, ViewValue, EmptyBodyBody
    <3>3. ASSUME NEW f \in Fields PROVE View(k)[f] = EmptyBody[f]
      BY <2>1, <3>1, ViewValue, EmptyBodyBody
    <3> QED
      BY <3>1, <3>2, <3>3, SameBody
  <2>3. stored = [k \in Docs |-> View(k)] /\ clock = 0
    BY <2>2 DEF Init
  <2>4. EmptyBody \in [Fields -> {0}]
    BY DEF EmptyBody
  <2> QED
    BY <2>2, <2>3, <2>4 DEF WB!Init
<1>2. SteadySpec => []TypeOK /\ []LayersOrdered
  BY SteadyTypeCorrect, LayersAlwaysOrdered
<1> QED
  BY <1>1, <1>2, RefinementStep, PTL DEF SteadySpec, ImplementsWriteBehind, WB!Spec

-----------------------------------------------------------------------------
\* What a document's counter knows, its writes have really failed that often:
\* the counter is carried from the buffer to the flusher and back, and a merge
\* that arrives meanwhile starts a new one.
Counted(k) ==
    /\ pending[k] # None /\ inflight[k] = None => tries[k] >= pending[k].fails
    /\ inflight[k] # None =>
         tries[k] >= inflight[k].fails + (IF inflight[k].failed THEN 1 ELSE 0)

BInv == /\ TypeOK
        /\ RetriesWithinBudget
        /\ tries \in [Docs -> Nat]
        /\ \A k \in Docs : Counted(k)

\* A failure counts, and only a store or the end of the budget forgets.
LEMMA Counts ==
    ASSUME TypeOK, tries \in [Docs -> Nat], CountTries, NEW k \in Docs
    PROVE  /\ tries'[k] \in Nat
           /\ FlushFails(k) => tries'[k] = tries[k] + 1
           /\ tries'[k] >= tries[k] \/ FlushStores(k) \/ GiveUp(k)
<1>1. tries'[k] = IF FlushFails(k) THEN tries[k] + 1
                  ELSE IF FlushStores(k) \/ GiveUp(k) THEN 0
                  ELSE tries[k]
  BY Zenon DEF CountTries
<1>2. tries[k] \in Nat
  OBVIOUS
<1> QED
  BY <1>1, <1>2

\* A step on another document, or one that leaves this one where it is.
LEMMA CountStands ==
    ASSUME BInv, CountTries, NEW k \in Docs,
           pending'[k] = pending[k] \/ pending'[k] = None
             \/ (pending[k] # None /\ pending'[k].fails = pending[k].fails)
             \/ pending'[k].fails = 0,
           inflight'[k] = inflight[k],
           ~FlushStores(k), ~GiveUp(k)
    PROVE  Counted(k)'
<1>1. tries[k] \in Nat /\ tries'[k] \in Nat /\ tries'[k] >= tries[k] /\ Counted(k)
  BY Counts DEF BInv
<1>2. /\ pending[k] # None => pending[k].fails \in Nat
      /\ inflight[k] # None => inflight[k].fails \in Nat
  BY DEF BInv, TypeOK
<1> QED
  BY <1>1, <1>2 DEF Counted

\* A body that goes back is an entry again.
LEMMA RequeuedEntry ==
    ASSUME TypeOK, NEW k \in Docs, Requeue(k)
    PROVE  pending'[k] # None
<1> DEFINE e == [Fresh(inflight[k].body) EXCEPT !.fails = inflight[k].fails + 1]
<1>1. inflight[k].body \in Body /\ inflight[k].fails + 1 \in Nat
  BY DEF TypeOK, Requeue
<1>2. e \in Entry
  BY <1>1 DEF Fresh
<1>3. pending' = [pending EXCEPT ![k] = e]
  BY DEF Requeue
<1> HIDE DEF e
<1> QED
  BY <1>2, <1>3, NotNone DEF TypeOK

LEMMA CountedStep ==
    ASSUME BInv, TypeOK', CountTries, SteadyNext, NEW k \in Docs
    PROVE  Counted(k)'
<1> USE DEF TypeOK
<1>0. TypeOK /\ Counted(k) /\ tries[k] \in Nat /\ tries'[k] \in Nat
      /\ (pending[k] # None => pending[k].fails \in Nat)
      /\ (inflight[k] # None => inflight[k].fails \in Nat)
      /\ (pending[k] # None /\ inflight[k] # None => pending[k].fails = 0)
  BY Counts DEF BInv, RetriesWithinBudget
<1>1. ASSUME NEW j \in Docs, NEW F \in SUBSET Fields, Merge(j, F)
      PROVE  Counted(k)'
  <2>1. inflight' = inflight /\ clock' # clock
    BY <1>0, <1>1 DEF Merge
  <2>2. ~FlushStores(k) /\ ~GiveUp(k)
    BY <2>1 DEF FlushStores, GiveUp
  <2>3. \/ pending'[k] = pending[k]
        \/ pending[k] # None /\ pending'[k].fails = pending[k].fails
        \/ pending'[k].fails = 0
    BY <1>0, <1>1 DEF Merge, Fresh
  <2> QED
    BY <2>1, <2>2, <2>3, CountStands
<1>2. ASSUME NEW j \in Docs, WindowEnds(j) PROVE Counted(k)'
  <2>1. /\ inflight' = inflight
        /\ \/ pending'[k] = pending[k]
           \/ pending[k] # None /\ pending'[k].fails = pending[k].fails
    BY <1>0, <1>2 DEF WindowEnds
  <2>2. ~FlushStores(k) /\ ~GiveUp(k)
    <3>1. FlushStores(k) \/ GiveUp(k) => inflight[k] # None /\ inflight'[k] = None
      BY <1>0 DEF FlushStores, Writing, GiveUp
    <3> QED
      BY <2>1, <3>1
  <2> QED
    BY <2>1, <2>2, CountStands
<1>3. CASE TakeDue
  <2>1. inflight[k] = None
    BY <1>3 DEF TakeDue
  <2>2. tries'[k] >= tries[k]
    BY <1>0, <2>1, Counts DEF FlushStores, Writing, GiveUp, BInv
  <2>3. pending'[k] # None => pending'[k] = pending[k]
    BY <1>3 DEF TakeDue
  <2>4. inflight'[k] # None =>
          /\ pending[k] # None /\ inflight'[k].fails = pending[k].fails
          /\ ~inflight'[k].failed
    BY <1>0, <1>3 DEF TakeDue, Due
  <2> QED
    BY <1>0, <2>1, <2>2, <2>3, <2>4 DEF Counted
<1>4. ASSUME NEW j \in Docs \ {k},
             FlushStores(j) \/ FlushFails(j) \/ Refold(j) \/ Requeue(j) \/ GiveUp(j)
      PROVE  Counted(k)'
  <2>1. inflight'[k] = inflight[k] /\ pending'[k] = pending[k]
    BY <1>0, <1>4 DEF FlushStores, FlushFails, Refold, Requeue, GiveUp
  <2>2. ~FlushStores(k) /\ ~GiveUp(k)
    <3>1. FlushStores(k) \/ GiveUp(k) => inflight[k] # None /\ inflight'[k] = None
      BY <1>0 DEF FlushStores, Writing, GiveUp
    <3> QED
      BY <2>1, <3>1
  <2> QED
    BY <2>1, <2>2, CountStands
<1>5. CASE FlushStores(k) \/ GiveUp(k)
  <2>1. inflight[k] # None /\ inflight'[k] = None /\ pending'[k] = pending[k]
    BY <1>0, <1>5 DEF FlushStores, Writing, GiveUp
  <2> QED
    BY <1>0, <2>1 DEF Counted
<1>6. CASE FlushFails(k)
  <2>1. /\ pending' = pending /\ inflight[k] # None /\ ~inflight[k].failed
        /\ inflight'[k] = [inflight[k] EXCEPT !.failed = TRUE]
    BY <1>0, <1>6 DEF FlushFails, Writing
  <2>2. inflight'[k].fails = inflight[k].fails /\ inflight'[k].failed
        /\ inflight'[k] # None
    <3>1. \A i \in Item : LET j == [i EXCEPT !.failed = TRUE]
                         IN j \in Item /\ j.fails = i.fails /\ j.failed = TRUE
      OBVIOUS
    <3>2. inflight[k] \in Item
      BY <1>0, <2>1
    <3> QED
      BY <2>1, <3>1, <3>2, NotNone
  <2>3. tries'[k] = tries[k] + 1
    BY <1>6, Counts DEF BInv
  <2> QED
    BY <1>0, <2>1, <2>2, <2>3 DEF Counted
<1>7. CASE Refold(k) \/ Requeue(k)
  <2>1. /\ inflight[k] # None /\ inflight[k].failed /\ inflight'[k] = None
        /\ pending'[k].fails \in {1, inflight[k].fails + 1}
    BY <1>0, <1>7 DEF Refold, Requeue, Fresh
  <2>2. ~FlushStores(k) /\ ~GiveUp(k)
    <3>1. CASE Refold(k)
      <4>1. pending'[k].fails = pending[k].fails + 1 /\ pending[k].fails \in Nat
        BY <1>0, <3>1 DEF Refold
      <4> QED
        BY <4>1 DEF FlushStores, GiveUp
    <3>2. CASE Requeue(k)
      <4>1. pending[k] = None /\ pending'[k].fails = inflight[k].fails + 1
        BY <1>0, <3>2 DEF Requeue, Fresh
      <4>2. pending'[k] # None
        BY <1>0, <2>1, <3>2, RequeuedEntry
      <4> QED
        BY <4>1, <4>2 DEF FlushStores, GiveUp
    <3> QED
      BY <1>7, <3>1, <3>2
  <2>3. tries'[k] >= tries[k]
    BY <2>2, Counts DEF BInv
  <2> QED
    BY <1>0, <2>1, <2>3 DEF Counted
<1> QED
  BY <1>1, <1>2, <1>3, <1>4, <1>5, <1>6, <1>7 DEF SteadyNext, Flusher, FlushEnds

\* An acknowledged PATCH body is given up only when the first attempt and
\* MaxFails retries have failed (coalesce.rs:10-11), whatever merges arrive
\* while it is being retried, for any number of documents and any budget.
THEOREM DropsKeepToTheBudget == BSpec => DropsOnlyAfterBudget
<1>1. BInit => BInv
  BY TypeInit, MaxFailsAssumption
     DEF BInit, BInv, Init, RetriesWithinBudget, Counted
<1>2. BInv /\ [BNext]_bvars => BInv'
  <2> SUFFICES ASSUME BInv, [BNext]_bvars PROVE BInv'
    OBVIOUS
  <2>1. [Next]_vars
    BY DEF BNext, bvars, Next
  <2>2. TypeOK' /\ RetriesWithinBudget'
    BY <2>1, TypeStep, RetriesStep DEF BInv
  <2>3. CASE UNCHANGED bvars
    BY <2>2, <2>3 DEF BInv, bvars, vars, Counted
  <2>4. CASE BNext
    <3>1. tries' \in [Docs -> Nat]
      <4>1. tries' = [k \in Docs |-> tries'[k]]
        BY <2>4 DEF BNext, CountTries
      <4> QED
        BY <2>4, <4>1, Counts DEF BNext, BInv
    <3> QED
      BY <2>2, <2>4, <3>1, CountedStep DEF BNext, BInv
  <2> QED
    BY <2>3, <2>4
<1>3. BInv => \A k \in Docs : GiveUp(k) => tries[k] > MaxFails
  BY MaxFailsAssumption DEF BInv, Counted, GiveUp, TypeOK
<1>4. BInv /\ [BNext]_bvars => [\A k \in Docs : GiveUp(k) => tries[k] > MaxFails]_bvars
  BY <1>3
<1> QED
  BY <1>1, <1>2, <1>4, PTL DEF BSpec, DropsOnlyAfterBudget

-----------------------------------------------------------------------------
\* The handlers of WritePath.

\* The drain's layer of a document.
D(k) == IF draining[k] = None THEN EmptyBody ELSE draining[k]

\* The flusher and a drain hold the document at the same time.
Racing(k) == inflight[k] # None /\ draining[k] # None

\* What makes ExactUnlessOverlapped inductive: nothing is buffered for a
\* document that is gone, which is why a flush never brings one back, and a
\* document whose requests did not overlap is in one hand at a time, which is
\* why a store puts the oldest layer first.
Exact(k) ==
    clean[k] => /\ FullView(k) = acked[k].body
                /\ exists[k] = acked[k].live
                /\ Buffered(k) => exists[k]
                /\ ~Racing(k)

\* The handlers and the history have their types.
WTypes == /\ TypeOK
          /\ exists \in [Docs -> BOOLEAN]
          /\ acked \in [Docs -> Snapshot]
          /\ clean \in [Docs -> BOOLEAN]
          /\ req \in [Clients -> Request]
          /\ tag \in [Clients -> [doc : Docs \cup {None}, seen : Snapshot]]

WInv == WTypes /\ \A k \in Docs : Exact(k)

-----------------------------------------------------------------------------
\* HashMap::extend has the empty body as its unit and is associative.
LEMMA ExtendEmpty ==
    ASSUME NEW b \in Body
    PROVE  Extend(b, EmptyBody) = b /\ Extend(EmptyBody, b) = b
  BY DEF Extend, EmptyBody

LEMMA ExtendTwice ==
    ASSUME NEW a \in Body, NEW b \in Body, NEW c \in Body
    PROVE  Extend(Extend(a, b), c) = Extend(a, Extend(b, c))
<1>1. Extend(a, b) \in Body /\ Extend(b, c) \in Body
  BY ExtendBody
<1>2. Extend(Extend(a, b), c) \in Body /\ Extend(a, Extend(b, c)) \in Body
  BY <1>1, ExtendBody
<1>3. ASSUME NEW f \in Fields
      PROVE  Extend(Extend(a, b), c)[f] = Extend(a, Extend(b, c))[f]
  BY <1>1, ExtendBody
<1> QED
  BY <1>2, <1>3

\* The view of a document is its four layers, the oldest at the bottom.
Layers(s, i, d, p) == Extend(Extend(Extend(s, i), d), p)

LEMMA ViewIsLayers ==
    ASSUME NEW k \in Docs
    PROVE  /\ FullView(k) = Layers(stored[k], I(k), D(k), P(k))
           /\ FullView(k)' = Layers(stored'[k], I(k)', D(k)', P(k)')
  BY DEF FullView, Layers, I, D, P, BodyOf

LEMMA LayersTyped ==
    ASSUME TypeOK, NEW k \in Docs
    PROVE  stored[k] \in Body /\ I(k) \in Body /\ D(k) \in Body /\ P(k) \in Body
<1>1. D(k) \in Body
  BY EmptyBodyBody DEF TypeOK, D
<1> QED
  BY <1>1, LayerBodies

LEMMA NextViewTyped ==
    ASSUME TypeOK', NEW k \in Docs
    PROVE  FullView(k)' \in Body
<1>1. stored'[k] \in Body /\ I(k)' \in Body /\ D(k)' \in Body /\ P(k)' \in Body
  BY EmptyBodyBody DEF TypeOK, BodyOf, I, D, P
<1>2. Extend(stored'[k], I(k)') \in Body
  BY <1>1, ExtendBody
<1>3. Layers(stored'[k], I(k)', D(k)', P(k)') \in Body
  BY <1>1, <1>2, Overlay DEF Layers
<1> QED
  BY <1>3, ViewIsLayers

\* A document nothing is buffered for is what the driver holds.
LEMMA Unbuffered ==
    ASSUME TypeOK, NEW k \in Docs, ~Buffered(k)
    PROVE  /\ FullView(k) = stored[k]
           /\ stored'[k] \in Body /\ pending' = pending /\ inflight' = inflight
              /\ draining' = draining
              => FullView(k)' = stored'[k] /\ ~Buffered(k)' /\ ~Racing(k)'
<1>1. I(k) = EmptyBody /\ D(k) = EmptyBody /\ P(k) = EmptyBody
  BY DEF Buffered, I, D, P, BodyOf
<1>2. stored[k] \in Body
  BY DEF TypeOK
<1>3. FullView(k) = stored[k]
  BY <1>1, <1>2, ExtendEmpty, ViewIsLayers DEF Layers
<1>4. ASSUME stored'[k] \in Body, pending' = pending, inflight' = inflight,
             draining' = draining
      PROVE  FullView(k)' = stored'[k] /\ ~Buffered(k)' /\ ~Racing(k)'
  <2>1. I(k)' = EmptyBody /\ D(k)' = EmptyBody /\ P(k)' = EmptyBody
    BY <1>1, <1>4 DEF I, D, P, BodyOf
  <2>2. FullView(k)' = stored'[k]
    BY <1>4, <2>1, ExtendEmpty, ViewIsLayers DEF Layers
  <2> QED
    BY <1>4, <2>2 DEF Buffered, Racing
<1> QED
  BY <1>3, <1>4

\* What a step must show that lets the clients see what they saw.
LEMMA SameView ==
    ASSUME NEW k \in Docs, Exact(k), clean'[k] => clean[k],
           clean'[k] => /\ FullView(k)' = FullView(k)
                        /\ exists'[k] = exists[k]
                        /\ acked'[k] = acked[k]
                        /\ Buffered(k)' => Buffered(k)
                        /\ ~Racing(k)'
    PROVE  Exact(k)'
  BY DEF Exact

\* A document that the step does not concern.
LEMMA Untouched ==
    ASSUME NEW k \in Docs, Exact(k),
           stored'[k] = stored[k], pending'[k] = pending[k],
           inflight'[k] = inflight[k], draining'[k] = draining[k],
           exists'[k] = exists[k], acked'[k] = acked[k], clean'[k] = clean[k]
    PROVE  Exact(k)'
<1>1. FullView(k)' = FullView(k)
  BY DEF FullView, BodyOf
<1>2. Buffered(k)' = Buffered(k) /\ Racing(k)' = Racing(k)
  BY DEF Buffered, Racing
<1> QED
  BY <1>1, <1>2 DEF Exact

-----------------------------------------------------------------------------
\* Types.
LEMMA RequestTypes ==
    /\ Gone \in Snapshot /\ NoRequest \in Request
    /\ NoTag \in [doc : Docs \cup {None}, seen : Snapshot]
    /\ TypeOK /\ exists \in [Docs -> BOOLEAN] => \A k \in Docs : Read(k) \in Snapshot
<1>1. Gone \in Snapshot
  BY EmptyBodyBody DEF Gone, Snapshot
<1>2. (CHOOSE k \in Docs : TRUE) \in Docs
  BY DocsAssumption
<1>3. NoRequest \in Request
  BY <1>1, <1>2 DEF NoRequest, Request, Writes
<1>4. NoTag \in [doc : Docs \cup {None}, seen : Snapshot]
  BY <1>1 DEF NoTag
<1>5. TypeOK /\ exists \in [Docs -> BOOLEAN] => \A k \in Docs : Read(k) \in Snapshot
  BY DEF TypeOK, Read, Snapshot
<1> QED
  BY <1>1, <1>3, <1>4, <1>5

LEMMA WTypesInit == WInit => WTypes
<1>1. [live |-> TRUE, body |-> EmptyBody] \in Snapshot
  BY EmptyBodyBody DEF Snapshot
<1> QED
  BY <1>1, RequestTypes, TypeInit DEF WInit, WTypes

\* The steps of a GET move no document.
Reading(c) ==
    \/ \E k \in Docs, conditional \in BOOLEAN : StartGet(c, k, conditional)
    \/ RouteGet(c) \/ GetFast(c) \/ GetOwned(c) \/ GetOverlay(c) \/ EndGet(c)

LEMMA ReadingTypes ==
    ASSUME WTypes, NEW c \in Clients, Reading(c)
    PROVE  /\ UNCHANGED <<vars, docVars>>
           /\ req' \in [Clients -> Request]
           /\ tag' \in [Clients -> [doc : Docs \cup {None}, seen : Snapshot]]
<1> USE RequestTypes DEF WTypes
<1>1. ASSUME NEW k \in Docs, NEW conditional \in BOOLEAN, StartGet(c, k, conditional)
      PROVE  /\ UNCHANGED <<vars, docVars>>
             /\ req' \in [Clients -> Request] /\ tag' = tag
  <2> DEFINE unchanged == conditional /\ tag[c].seen = Read(k)
             r == [kind |-> IF unchanged THEN "getif" ELSE "get", doc |-> k,
                   fields |-> {}, seen |-> IF unchanged THEN tag[c].seen ELSE Gone]
  <2>1. tag[c].seen \in Snapshot /\ Gone \in Snapshot
    OBVIOUS
  <2>2. r \in Request
    BY <2>1 DEF Request
  <2>3. req' = [req EXCEPT ![c] = r]
    BY <1>1 DEF StartGet
  <2> QED
    BY <1>1, <2>2, <2>3 DEF StartGet
<1>2. CASE RouteGet(c)
  BY <1>2 DEF RouteGet
<1>3. CASE GetFast(c)
  <2>1. req[c].doc \in Docs
    BY DEF Request
  <2>2. Read(req[c].doc) \in Snapshot
    BY <2>1
  <2>3. [req[c] EXCEPT !.seen = Read(req[c].doc)] \in Request
    BY <2>2 DEF Request
  <2>4. [doc |-> req[c].doc, seen |-> Read(req[c].doc)]
          \in [doc : Docs \cup {None}, seen : Snapshot]
    BY <2>1, <2>2
  <2> QED
    BY <1>3, <2>3, <2>4 DEF GetFast
<1>4. CASE GetOwned(c)
  <2>1. Read(req[c].doc) \in Snapshot
    BY DEF Request
  <2>2. [req[c] EXCEPT !.seen = Read(req[c].doc)] \in Request
    BY <2>1 DEF Request
  <2> QED
    BY <1>4, <2>2 DEF GetOwned
<1>5. CASE GetOverlay(c)
  <2> DEFINE e == pending[req[c].doc]
             s == [live |-> TRUE, body |-> Extend(req[c].seen.body, e.body)]
  <2>1. ASSUME e # None PROVE [req[c] EXCEPT !.seen = s] \in Request
    <3>1. req[c] \in Request /\ req[c].seen.body \in Body
      BY DEF Request, Snapshot
    <3>2. e.body \in Body
      BY <2>1, <3>1 DEF Request, TypeOK
    <3>3. s \in Snapshot
      BY <3>1, <3>2, ExtendBody DEF Snapshot
    <3> HIDE DEF s
    <3> QED
      BY <3>1, <3>3 DEF Request
  <2>2. req' = IF e = None THEN req ELSE [req EXCEPT ![c].seen = s]
    BY <1>5 DEF GetOverlay
  <2> HIDE DEF e, s
  <2>3. req' \in [Clients -> Request]
    BY <2>1, <2>2
  <2> QED
    BY <1>5, <2>3 DEF GetOverlay
<1>6. CASE EndGet(c)
  BY <1>6 DEF EndGet
<1> QED
  BY <1>1, <1>2, <1>3, <1>4, <1>5, <1>6 DEF Reading

\* A handler that ends leaves its request in its type.
LEMMA FinishTypes ==
    ASSUME WTypes, NEW c \in Clients, Finish(c)
    PROVE  /\ req' \in [Clients -> Request]
           /\ tag' \in [Clients -> [doc : Docs \cup {None}, seen : Snapshot]]
  BY RequestTypes DEF WTypes, Finish

\* The write that a PUT or a PATCH past the buffer makes.
LEMMA NewBodyTypes ==
    ASSUME WTypes, NEW c \in Clients
    PROVE  /\ req[c].doc \in Docs /\ req[c].fields \in SUBSET Fields
           /\ Stamp(req[c].fields, clock + 1) \in Body
           /\ NewBody(c) \in Body /\ AckedBody(c) \in Body
<1>1. /\ req[c].doc \in Docs /\ req[c].fields \in SUBSET Fields
      /\ req[c].seen.body \in Body
  BY DEF WTypes, Request, Snapshot
<1>2. acked[req[c].doc].body \in Body
  BY <1>1 DEF WTypes, Snapshot
<1>3. clock + 1 \in Nat
  BY MaxClockAssumption DEF WTypes, TypeOK
<1>4. Stamp(req[c].fields, clock + 1) \in Body
  BY <1>1, <1>3, StampBody
<1>5. /\ Extend(req[c].seen.body, Stamp(req[c].fields, clock + 1)) \in Body
      /\ Extend(acked[req[c].doc].body, Stamp(req[c].fields, clock + 1)) \in Body
  BY <1>1, <1>2, <1>4, ExtendBody
<1> QED
  BY <1>1, <1>4, <1>5 DEF NewBody, AckedBody

-----------------------------------------------------------------------------
\* The handlers.  A step that moves no document keeps the invariant.
LEMMA StillKeeps ==
    ASSUME WInv, UNCHANGED <<vars, docVars>>,
           req' \in [Clients -> Request],
           tag' \in [Clients -> [doc : Docs \cup {None}, seen : Snapshot]]
    PROVE  WInv'
<1>1. WTypes'
  BY DEF WInv, WTypes, TypeOK, vars, docVars
<1>2. ASSUME NEW j \in Docs PROVE Exact(j)'
  <2>1. Exact(j)
    BY DEF WInv
  <2> QED
    BY <2>1, Untouched DEF vars, docVars
<1> QED
  BY <1>1, <1>2 DEF WInv

LEMMA StartWriteKeeps ==
    ASSUME WInv, NEW c \in Clients, NEW k \in Docs, NEW kind \in Writes,
           NEW F \in SUBSET Fields, StartWrite(c, kind, k, F)
    PROVE  WInv'
<1> DEFINE r == [kind |-> kind, doc |-> k, fields |-> F, seen |-> Read(k)]
<1>1. Read(k) \in Snapshot
  BY RequestTypes DEF WInv, WTypes
<1>2. r \in Request
  BY <1>1 DEF Request
<1>3. req' = [req EXCEPT ![c] = r] /\ tag' = tag /\ UNCHANGED <<vars, docVars>>
  BY DEF StartWrite
<1> HIDE DEF r
<1> QED
  BY <1>2, <1>3, StillKeeps DEF WInv, WTypes

LEMMA PatchKeeps ==
    ASSUME WInv, NEW c \in Clients, PatchCoalesced(c)
    PROVE  WInv'
<1>0. PICK k \in Docs, F \in SUBSET Fields : k = req[c].doc /\ F = req[c].fields
  BY NewBodyTypes DEF WInv
<1> DEFINE new == Stamp(F, clock + 1)
<1>1. new \in Body /\ WTypes /\ TypeOK
  BY <1>0, NewBodyTypes DEF WInv, WTypes
<1>2. /\ Merge(k, F) /\ Finish(c) /\ exists' = exists
      /\ acked' = [acked EXCEPT ![k].body = Extend(@, new)]
      /\ clean' = [clean EXCEPT ![k] = @ /\ exists[k]]
  BY <1>0 DEF PatchCoalesced
<1>3. TypeOK'
  BY <1>1, <1>2, TypeStep DEF Next, SteadyNext
<1>4. acked[k] \in Snapshot /\ Extend(acked[k].body, new) \in Body
  BY <1>1, ExtendBody DEF WTypes, Snapshot
<1>5. acked' \in [Docs -> Snapshot] /\ clean' \in [Docs -> BOOLEAN]
  BY <1>1, <1>2, <1>4 DEF WTypes, Snapshot
<1>6. WTypes'
  BY <1>1, <1>2, <1>3, <1>5, FinishTypes DEF WTypes
<1>7. ASSUME NEW j \in Docs \ {k} PROVE Exact(j)'
  <2>1. Exact(j)
    BY DEF WInv
  <2>2. /\ stored'[j] = stored[j] /\ pending'[j] = pending[j]
        /\ inflight'[j] = inflight[j] /\ draining'[j] = draining[j]
    BY <1>1, <1>2 DEF Merge, TypeOK
  <2>3. acked'[j] = acked[j] /\ clean'[j] = clean[j] /\ exists'[j] = exists[j]
    BY <1>1, <1>2 DEF WTypes
  <2> QED
    BY <2>1, <2>2, <2>3, Untouched
<1>8. Exact(k)'
  <2> SUFFICES ASSUME clean'[k]
               PROVE  /\ FullView(k)' = acked'[k].body
                      /\ exists'[k] = acked'[k].live
                      /\ Buffered(k)' => exists'[k]
                      /\ ~Racing(k)'
    BY DEF Exact
  <2>1. clean[k] /\ exists[k]
    BY <1>1, <1>2 DEF WTypes
  <2>2. /\ FullView(k) = acked[k].body /\ exists[k] = acked[k].live
        /\ ~Racing(k)
    BY <1>1, <2>1 DEF WInv, Exact
  <2>3. /\ stored'[k] = stored[k] /\ I(k)' = I(k) /\ D(k)' = D(k)
        /\ P(k)' = Extend(P(k), new)
    BY <1>1, <1>2, MergeLayers DEF Merge, D
  <2> DEFINE under == Extend(Extend(stored[k], I(k)), D(k))
  <2>4. under \in Body /\ P(k) \in Body
    BY <1>1, LayersTyped, Overlay
  <2>5. FullView(k) = Extend(under, P(k)) /\ FullView(k)' = Extend(under, Extend(P(k), new))
    BY <1>1, <2>3, ViewIsLayers DEF Layers
  <2> HIDE DEF under, new
  <2>6. FullView(k)' = Extend(FullView(k), new)
    BY <1>1, <2>4, <2>5, ExtendTwice
  <2>7. acked'[k].body = Extend(acked[k].body, new) /\ acked'[k].live = acked[k].live
    BY <1>1, <1>2, <1>4 DEF WTypes, Snapshot
  <2>8. ~Racing(k)'
    BY <1>2, <2>2 DEF Merge, Racing
  <2> QED
    BY <1>2, <2>1, <2>2, <2>6, <2>7, <2>8
<1> QED
  BY <1>6, <1>7, <1>8 DEF WInv

LEMMA StoreDirectKeeps ==
    ASSUME WInv, NEW c \in Clients, StoreDirect(c)
    PROVE  WInv'
<1>0. PICK k \in Docs : k = req[c].doc
  BY NewBodyTypes DEF WInv
<1> DEFINE a == [live |-> TRUE, body |-> AckedBody(c)]
<1>1. /\ WTypes /\ TypeOK
      /\ NewBody(c) \in Body /\ AckedBody(c) \in Body
  BY NewBodyTypes DEF WInv, WTypes
<1>2. /\ clock' = clock + 1 /\ clock < MaxClock
      /\ stored' = [stored EXCEPT ![k] = NewBody(c)]
      /\ exists' = [exists EXCEPT ![k] = TRUE]
      /\ acked' = [acked EXCEPT ![k] = a]
      /\ clean' = [clean EXCEPT ![k] =
           @ /\ ~Buffered(k) /\ (req[c].kind = "direct" => req[c].seen = Read(k))]
      /\ Finish(c) /\ UNCHANGED <<pending, inflight, draining>>
  BY <1>0 DEF StoreDirect
<1>3. a \in Snapshot /\ a.live = TRUE /\ a.body = AckedBody(c)
  BY <1>1 DEF Snapshot
<1> HIDE DEF a
<1>4. WTypes'
  <2>1. clock' \in 0..MaxClock
    BY <1>1, <1>2, MaxClockAssumption DEF TypeOK
  <2>2. TypeOK'
    BY <1>1, <1>2, <2>1 DEF TypeOK
  <2>3. /\ acked' \in [Docs -> Snapshot] /\ exists' \in [Docs -> BOOLEAN]
        /\ clean' \in [Docs -> BOOLEAN]
    BY <1>1, <1>2, <1>3 DEF WTypes
  <2> QED
    BY <1>1, <1>2, <2>2, <2>3, FinishTypes DEF WTypes
<1>5. ASSUME NEW j \in Docs \ {k} PROVE Exact(j)'
  <2>1. Exact(j)
    BY DEF WInv
  <2>2. /\ stored'[j] = stored[j] /\ exists'[j] = exists[j]
        /\ acked'[j] = acked[j] /\ clean'[j] = clean[j]
    BY <1>1, <1>2 DEF WTypes, TypeOK
  <2> QED
    BY <1>2, <2>1, <2>2, Untouched
<1>6. Exact(k)'
  <2> SUFFICES ASSUME clean'[k]
               PROVE  /\ FullView(k)' = acked'[k].body
                      /\ exists'[k] = acked'[k].live
                      /\ Buffered(k)' => exists'[k]
                      /\ ~Racing(k)'
    BY DEF Exact
  <2>1. /\ clean[k] /\ ~Buffered(k)
        /\ req[c].kind = "direct" => req[c].seen = Read(k)
    BY <1>1, <1>2 DEF WTypes
  <2>2. stored'[k] = NewBody(c) /\ exists'[k] = TRUE /\ acked'[k] = a
    BY <1>1, <1>2 DEF WTypes, TypeOK
  <2>3. FullView(k) = stored[k] /\ FullView(k)' = NewBody(c) /\ ~Racing(k)'
    BY <1>1, <1>2, <2>1, <2>2, Unbuffered
  <2>4. stored[k] = acked[k].body
    BY <1>1, <2>1, <2>3 DEF WInv, Exact
  <2>5. NewBody(c) = AckedBody(c)
    <3>1. req[c].kind = "direct" => req[c].seen.body = stored[k]
      BY <2>1 DEF Read
    <3> QED
      BY <1>0, <2>4, <3>1 DEF NewBody, AckedBody
  <2> QED
    BY <1>3, <2>2, <2>3, <2>5
<1> QED
  BY <1>4, <1>5, <1>6 DEF WInv

LEMMA RemoveKeeps ==
    ASSUME WInv, NEW c \in Clients, Remove(c)
    PROVE  WInv'
<1>0. PICK k \in Docs : k = req[c].doc
  BY NewBodyTypes DEF WInv
<1>1. WTypes /\ TypeOK
  BY DEF WInv, WTypes
<1>2. /\ stored' = [stored EXCEPT ![k] = EmptyBody]
      /\ exists' = [exists EXCEPT ![k] = FALSE]
      /\ acked' = [acked EXCEPT ![k] = Gone]
      /\ clean' = [clean EXCEPT ![k] = @ /\ ~Buffered(k)]
      /\ Finish(c) /\ UNCHANGED <<pending, inflight, draining, clock>>
  BY <1>0 DEF Remove
<1>3. EmptyBody \in Body /\ Gone \in Snapshot /\ Gone.live = FALSE /\ Gone.body = EmptyBody
  BY EmptyBodyBody, RequestTypes DEF Gone
<1>4. WTypes'
  <2>1. TypeOK'
    BY <1>1, <1>2, <1>3 DEF TypeOK
  <2>2. /\ acked' \in [Docs -> Snapshot] /\ exists' \in [Docs -> BOOLEAN]
        /\ clean' \in [Docs -> BOOLEAN]
    BY <1>1, <1>2, <1>3 DEF WTypes
  <2> QED
    BY <1>1, <1>2, <2>1, <2>2, FinishTypes DEF WTypes
<1>5. ASSUME NEW j \in Docs \ {k} PROVE Exact(j)'
  <2>1. Exact(j)
    BY DEF WInv
  <2>2. /\ stored'[j] = stored[j] /\ exists'[j] = exists[j]
        /\ acked'[j] = acked[j] /\ clean'[j] = clean[j]
    BY <1>1, <1>2 DEF WTypes, TypeOK
  <2> QED
    BY <1>2, <2>1, <2>2, Untouched
<1>6. Exact(k)'
  <2>1. stored'[k] = EmptyBody /\ exists'[k] = FALSE /\ acked'[k] = Gone
    BY <1>1, <1>2 DEF WTypes, TypeOK
  <2>2. ASSUME clean'[k] PROVE ~Buffered(k)
    BY <1>1, <1>2, <2>2 DEF WTypes
  <2>3. ASSUME clean'[k]
        PROVE  FullView(k)' = EmptyBody /\ ~Buffered(k)' /\ ~Racing(k)'
    BY <1>1, <1>2, <1>3, <2>1, <2>2, <2>3, Unbuffered
  <2> QED
    BY <1>3, <2>1, <2>3 DEF Exact
<1> QED
  BY <1>4, <1>5, <1>6 DEF WInv

-----------------------------------------------------------------------------
\* The flusher and the drain.
LEMMA BackgroundTypes ==
    ASSUME WTypes, Next, exists' \in [Docs -> BOOLEAN],
           acked' \in [Docs -> Snapshot], clean' \in [Docs -> BOOLEAN],
           UNCHANGED reqVars
    PROVE  WTypes'
<1>1. TypeOK'
  BY TypeStep DEF WTypes
<1> QED
  BY <1>1 DEF WTypes, reqVars

\* A batch or a drain that takes a document only moves its pending body one
\* layer down.
LEMMA TakeKeeps ==
    ASSUME WInv, Take
    PROVE  WInv'
<1>1. /\ WTypes /\ TypeOK /\ UNCHANGED <<exists, acked, reqVars>>
      /\ clean' = [k \in Docs |-> clean[k] /\ ~Raced(k)]
  BY DEF WInv, WTypes, Take
<1>2. WTypes'
  <2>1. Next
    BY DEF Take, Next, SteadyNext, Flusher, Reload
  <2>2. clean' \in [Docs -> BOOLEAN]
    BY <1>1 DEF WTypes
  <2>3. exists' \in [Docs -> BOOLEAN] /\ acked' \in [Docs -> Snapshot]
    BY <1>1 DEF WTypes
  <2> QED
    BY <1>1, <2>1, <2>2, <2>3, BackgroundTypes
<1>3. ASSUME NEW k \in Docs, clean'[k]
      PROVE  FullView(k)' = FullView(k) /\ (Buffered(k)' => Buffered(k))
  <2> DEFINE s == stored[k]
             i == I(k)
             d == D(k)
             p == P(k)
  <2>1. /\ s \in Body /\ i \in Body /\ d \in Body /\ p \in Body
        /\ EmptyBody \in Body /\ Extend(s, i) \in Body
    BY <1>1, LayersTyped, EmptyBodyBody, ExtendBody
  <2>2. ~(inflight'[k] # None /\ draining'[k] # None)
    BY <1>1, <1>3 DEF Raced
  <2>3. CASE TakeDue
    <3>1. draining' = draining
      BY <2>3 DEF TakeDue
    <3>2. /\ stored'[k] = s /\ i = EmptyBody /\ D(k)' = d
          /\ \/ I(k)' = p /\ P(k)' = EmptyBody
             \/ I(k)' = EmptyBody /\ P(k)' = p
      BY <1>1, <2>3, <3>1, TakeLayers DEF D
    <3>3. d = EmptyBody \/ I(k)' = EmptyBody
      BY <2>2, <3>1 DEF D, I, BodyOf
    <3>4. Buffered(k)' => Buffered(k)
      <4>1. /\ inflight'[k] # None => pending[k] # None
            /\ pending'[k] # None => pending[k] # None
        BY <2>3 DEF TakeDue, Due
      <4> QED
        BY <3>1, <4>1 DEF Buffered
    <3>5. Layers(s, i, d, p) = Layers(s, I(k)', d, P(k)')
      <4>1. CASE I(k)' = EmptyBody /\ P(k)' = p
        BY <3>2, <4>1
      <4>2. CASE I(k)' = p /\ P(k)' = EmptyBody /\ p # EmptyBody
        <5>1. d = EmptyBody
          BY <3>3, <4>2
        <5>2. Layers(s, EmptyBody, EmptyBody, p) = Extend(s, p)
          BY <2>1, ExtendEmpty DEF Layers
        <5>3. Extend(s, p) \in Body
          BY <2>1, ExtendBody
        <5>4. Layers(s, p, EmptyBody, EmptyBody) = Extend(s, p)
          BY <5>3, ExtendEmpty DEF Layers
        <5> QED
          BY <3>2, <4>2, <5>1, <5>2, <5>4
      <4> QED
        BY <3>2, <4>1, <4>2
    <3> QED
      BY <3>2, <3>4, <3>5, ViewIsLayers
  <2>4. CASE DrainTake
    <3>1. stored'[k] = s /\ I(k)' = i /\ P(k)' = EmptyBody /\ d = EmptyBody
      BY <2>4 DEF DrainTake, I, P, D, BodyOf
    <3>2. D(k)' = p
      <4>1. CASE pending[k] = None \/ pending[k].body = EmptyBody
        BY <2>4, <4>1 DEF DrainTake, D, P, BodyOf
      <4>2. CASE pending[k] # None /\ pending[k].body # EmptyBody
        <5>1. pending[k].body \in Body
          BY <1>1, <4>2 DEF TypeOK
        <5>2. draining'[k] = pending[k].body
          BY <2>4, <4>2 DEF DrainTake
        <5> QED
          BY <4>2, <5>1, <5>2, NoneAssumption DEF D, P, BodyOf
      <4> QED
        BY <4>1, <4>2
    <3>3. Buffered(k)' => Buffered(k)
      BY <2>4 DEF DrainTake, Buffered
    <3>4. Extend(Extend(s, i), p) \in Body
      BY <2>1, Overlay
    <3>5. Layers(s, i, EmptyBody, p) = Layers(s, i, p, EmptyBody)
      BY <2>1, <3>4, ExtendEmpty DEF Layers
    <3> QED
      BY <3>1, <3>2, <3>3, <3>5, ViewIsLayers
  <2> QED
    BY <2>3, <2>4 DEF Take
<1>4. ASSUME NEW k \in Docs PROVE Exact(k)'
  <2>1. clean'[k] => clean[k] /\ ~Racing(k)'
    BY <1>1 DEF Raced, Racing
  <2>2. Exact(k) /\ exists'[k] = exists[k] /\ acked'[k] = acked[k]
    BY <1>1 DEF WInv
  <2> QED
    BY <1>3, <2>1, <2>2, SameView
<1> QED
  BY <1>2, <1>4 DEF WInv

\* The steps of the background on one document leave the others alone.
LEMMA OthersKept ==
    ASSUME WTypes, NEW k \in Docs,
           \/ WindowEnds(k) \/ FlushStores(k) \/ FlushFails(k) \/ Refold(k)
           \/ Requeue(k) \/ GiveUp(k) \/ DrainStores(k) \/ DrainLoses(k),
           NEW j \in Docs \ {k}, Exact(j), exists'[j] = exists[j],
           acked'[j] = acked[j], clean' = clean
    PROVE  Exact(j)'
<1>1. /\ stored'[j] = stored[j] /\ pending'[j] = pending[j]
      /\ inflight'[j] = inflight[j] /\ draining'[j] = draining[j]
  BY DEF WTypes, TypeOK, WindowEnds, FlushStores, FlushFails, Refold, Requeue,
         GiveUp, DrainStores, DrainLoses
<1> QED
  BY <1>1, Untouched

\* A failed batch that goes back, and time, change what the clients see of no
\* document.
LEMMA KeptKeeps ==
    ASSUME WInv, NEW k \in Docs, Kept(k)
    PROVE  WInv'
<1>1. WTypes /\ TypeOK /\ UNCHANGED <<exists, acked, clean, reqVars>>
  BY DEF WInv, WTypes, Kept, docVars
<1>2. WTypes'
  <2>1. Next
    BY DEF Kept, Next, SteadyNext, Flusher, FlushEnds
  <2>2. /\ exists' \in [Docs -> BOOLEAN] /\ acked' \in [Docs -> Snapshot]
        /\ clean' \in [Docs -> BOOLEAN]
    BY <1>1 DEF WTypes
  <2> QED
    BY <1>1, <2>1, <2>2, BackgroundTypes
<1>3. ASSUME NEW j \in Docs \ {k} PROVE Exact(j)'
  <2>1. Exact(j)
    BY DEF WInv
  <2> QED
    BY <1>1, <2>1, OthersKept DEF Kept
<1>4. ASSUME clean[k]
      PROVE  /\ FullView(k)' = FullView(k)
             /\ Buffered(k)' => Buffered(k)
             /\ ~Racing(k)'
  <2>1. /\ stored[k] \in Body /\ I(k) \in Body /\ D(k) \in Body /\ P(k) \in Body
        /\ ~Racing(k)
    BY <1>1, <1>4, LayersTyped DEF WInv, Exact
  <2>2. CASE WindowEnds(k) \/ FlushFails(k)
    <3>1. stored'[k] = stored[k] /\ I(k)' = I(k) /\ P(k)' = P(k)
      BY <1>1, <2>2, WindowLayers, FailLayers
    <3>2. draining' = draining /\ D(k)' = D(k)
      BY <2>2 DEF WindowEnds, FlushFails, D
    <3>3. /\ pending'[k] # None => pending[k] # None
          /\ inflight'[k] # None => inflight[k] # None
      BY <2>2 DEF WindowEnds, FlushFails, Writing
    <3> QED
      BY <2>1, <3>1, <3>2, <3>3, ViewIsLayers DEF Buffered, Racing
  <2>3. CASE Refold(k) \/ Requeue(k)
    <3>1. inflight[k] # None /\ draining' = draining /\ inflight'[k] = None
      BY <1>1, <2>3 DEF Refold, Requeue, TypeOK
    <3>2. D(k) = EmptyBody /\ D(k)' = EmptyBody
      BY <2>1, <3>1 DEF Racing, D
    <3>3. stored'[k] = stored[k] /\ I(k)' = EmptyBody /\ P(k)' = Extend(I(k), P(k))
      <4>1. CASE Refold(k)
        BY <1>1, <4>1, RefoldLayers
      <4>2. CASE Requeue(k)
        BY <1>1, <2>1, <4>2, RequeueLayers, ExtendEmpty
      <4> QED
        BY <2>3, <4>1, <4>2
    <3>4. Layers(stored[k], I(k), EmptyBody, P(k))
            = Extend(Extend(stored[k], I(k)), P(k))
      BY <2>1, ExtendBody, ExtendEmpty DEF Layers
    <3>5. Layers(stored[k], EmptyBody, EmptyBody, Extend(I(k), P(k)))
            = Extend(stored[k], Extend(I(k), P(k)))
      BY <2>1, ExtendBody, ExtendEmpty DEF Layers
    <3>6. FullView(k)' = FullView(k)
      BY <2>1, <3>2, <3>3, <3>4, <3>5, ExtendTwice, ViewIsLayers
    <3> QED
      BY <3>1, <3>6 DEF Buffered, Racing
  <2> QED
    BY <2>2, <2>3 DEF Kept
<1>5. Exact(k)'
  <2>1. Exact(k)
    BY DEF WInv
  <2> QED
    BY <1>1, <1>4, <2>1, SameView
<1> QED
  BY <1>2, <1>3, <1>5 DEF WInv

\* A store of the only hand that holds the document: its layer joins the disk.
LEMMA FlushedKeeps ==
    ASSUME WInv, NEW k \in Docs, Flushed(k)
    PROVE  WInv'
<1>1. /\ WTypes /\ TypeOK /\ UNCHANGED <<acked, clean, reqVars>>
      /\ exists' = [exists EXCEPT ![k] = TRUE]
  BY DEF WInv, WTypes, Flushed
<1>2. WTypes'
  <2>1. Next
    BY DEF Flushed, Next, SteadyNext, Flusher, Reload
  <2>2. /\ exists' \in [Docs -> BOOLEAN] /\ acked' \in [Docs -> Snapshot]
        /\ clean' \in [Docs -> BOOLEAN]
    BY <1>1 DEF WTypes
  <2> QED
    BY <1>1, <2>1, <2>2, BackgroundTypes
<1>3. ASSUME NEW j \in Docs \ {k} PROVE Exact(j)'
  <2>1. Exact(j) /\ exists'[j] = exists[j]
    BY <1>1 DEF WInv, WTypes
  <2> QED
    BY <1>1, <2>1, OthersKept DEF Flushed
<1>4. ASSUME clean[k]
      PROVE  /\ FullView(k)' = FullView(k)
             /\ exists'[k] = exists[k]
             /\ Buffered(k)' => Buffered(k)
             /\ ~Racing(k)'
  <2>1. /\ stored[k] \in Body /\ I(k) \in Body /\ D(k) \in Body /\ P(k) \in Body
        /\ ~Racing(k)
        /\ Buffered(k) => exists[k]
    BY <1>1, <1>4, LayersTyped DEF WInv, Exact
  <2>2. Buffered(k)
    BY DEF Flushed, FlushStores, Writing, DrainStores, Buffered
  <2>3. exists'[k] = exists[k]
    BY <1>1, <2>1, <2>2 DEF WTypes
  <2>4. CASE FlushStores(k)
    <3>1. inflight[k] # None /\ draining' = draining /\ inflight'[k] = None
      BY <1>1, <2>4 DEF FlushStores, Writing, TypeOK
    <3>2. D(k) = EmptyBody /\ D(k)' = EmptyBody
      BY <2>1, <3>1 DEF Racing, D
    <3>3. /\ stored'[k] = Extend(stored[k], I(k)) /\ I(k)' = EmptyBody
          /\ P(k)' = P(k)
      BY <1>1, <2>4, StoreLayers
    <3>4. Layers(Extend(stored[k], I(k)), EmptyBody, EmptyBody, P(k))
            = Layers(stored[k], I(k), EmptyBody, P(k))
      BY <2>1, ExtendBody, ExtendEmpty DEF Layers
    <3> QED
      BY <2>2, <2>3, <3>1, <3>2, <3>3, <3>4, ViewIsLayers DEF Racing
  <2>5. CASE DrainStores(k)
    <3>1. /\ draining[k] # None /\ inflight' = inflight /\ draining'[k] = None
          /\ pending' = pending /\ stored'[k] = Extend(stored[k], draining[k])
      BY <1>1, <2>5 DEF DrainStores, TypeOK
    <3>2. /\ I(k) = EmptyBody /\ I(k)' = EmptyBody /\ D(k) = draining[k]
          /\ D(k)' = EmptyBody /\ P(k)' = P(k)
      BY <2>1, <3>1 DEF Racing, D, I, P, BodyOf
    <3>3. Layers(Extend(stored[k], D(k)), EmptyBody, EmptyBody, P(k))
            = Layers(stored[k], EmptyBody, D(k), P(k))
      BY <2>1, ExtendBody, ExtendEmpty DEF Layers
    <3> QED
      BY <2>2, <2>3, <3>1, <3>2, <3>3, ViewIsLayers DEF Racing
  <2> QED
    BY <2>4, <2>5 DEF Flushed
<1>5. Exact(k)'
  <2>1. Exact(k) /\ clean'[k] = clean[k] /\ acked'[k] = acked[k]
    BY <1>1 DEF WInv
  <2> QED
    BY <1>4, <2>1, SameView
<1> QED
  BY <1>2, <1>3, <1>5 DEF WInv

\* An admitted loss is taken out of the history too.
LEMMA LostKeeps ==
    ASSUME WInv, NEW k \in Docs, Lost(k)
    PROVE  WInv'
<1>1. /\ WTypes /\ TypeOK /\ UNCHANGED <<exists, clean, reqVars>>
      /\ acked' = [acked EXCEPT ![k].body = FullView(k)']
  BY DEF WInv, WTypes, Lost
<1>2. Next
  BY DEF Lost, Next, SteadyNext, Flusher, FlushEnds, Reload
<1>3. TypeOK'
  BY <1>1, <1>2, TypeStep
<1>4. FullView(k)' \in Body
  BY <1>3, NextViewTyped
<1>5. WTypes'
  <2>1. acked' \in [Docs -> Snapshot]
    BY <1>1, <1>4 DEF WTypes, Snapshot
  <2>2. exists' \in [Docs -> BOOLEAN] /\ clean' \in [Docs -> BOOLEAN]
    BY <1>1 DEF WTypes
  <2> QED
    BY <1>1, <1>2, <2>1, <2>2, BackgroundTypes
<1>6. ASSUME NEW j \in Docs \ {k} PROVE Exact(j)'
  <2>1. Exact(j) /\ exists'[j] = exists[j] /\ acked'[j] = acked[j]
    BY <1>1 DEF WInv, WTypes
  <2> QED
    BY <1>1, <2>1, OthersKept DEF Lost
<1>7. Exact(k)'
  <2>1. acked'[k].body = FullView(k)' /\ acked'[k].live = acked[k].live
    BY <1>1 DEF WTypes, Snapshot
  <2>2. Buffered(k) /\ ~Racing(k)'
    BY <1>1 DEF Lost, GiveUp, DrainLoses, Buffered, Racing, TypeOK
  <2>3. Exact(k)
    BY DEF WInv
  <2> QED
    BY <1>1, <2>1, <2>2, <2>3 DEF Exact
<1> QED
  BY <1>5, <1>6, <1>7 DEF WInv

-----------------------------------------------------------------------------
LEMMA WInvInit == WInit => WInv
<1> SUFFICES ASSUME WInit PROVE WInv
  OBVIOUS
<1>1. WTypes
  BY WTypesInit
<1>2. ASSUME NEW k \in Docs PROVE Exact(k)
  <2>1. ~Buffered(k) /\ ~Racing(k) /\ stored[k] = EmptyBody
    BY DEF WInit, Init, Buffered, Racing
  <2>2. FullView(k) = EmptyBody
    BY <1>1, <2>1, Unbuffered DEF WTypes
  <2> QED
    BY <2>1, <2>2 DEF WInit, Exact
<1> QED
  BY <1>1, <1>2 DEF WInv

LEMMA WInvStep == WInv /\ [WNext]_wvars => WInv'
<1> SUFFICES ASSUME WInv, [WNext]_wvars PROVE WInv'
  OBVIOUS
<1>1. ASSUME NEW c \in Clients, Handler(c) PROVE WInv'
  <2>1. ASSUME NEW k \in Docs, NEW kind \in Writes, NEW F \in SUBSET Fields,
               StartWrite(c, kind, k, F)
        PROVE  WInv'
    BY <2>1, StartWriteKeeps
  <2>2. CASE Refuse(c)
    <3>1. UNCHANGED <<vars, docVars>> /\ Finish(c)
      BY <2>2 DEF Refuse
    <3> QED
      BY <3>1, FinishTypes, StillKeeps DEF WInv
  <2>3. CASE PatchCoalesced(c)
    BY <2>3, PatchKeeps
  <2>4. CASE StoreDirect(c)
    BY <2>4, StoreDirectKeeps
  <2>5. CASE Remove(c)
    BY <2>5, RemoveKeeps
  <2>6. CASE Reading(c)
    BY <2>6, ReadingTypes, StillKeeps DEF WInv
  <2> QED
    BY <1>1, <2>1, <2>2, <2>3, <2>4, <2>5, <2>6 DEF Handler, Reading
<1>2. CASE Background
  BY <1>2, TakeKeeps, KeptKeeps, FlushedKeeps, LostKeeps DEF Background
<1>3. CASE UNCHANGED wvars
  BY <1>3, StillKeeps DEF wvars, reqVars, WInv, WTypes
<1> QED
  BY <1>1, <1>2, <1>3 DEF WNext

\* What is acknowledged and not given up is on disk or in a layer over it, in
\* order, unless requests of the document overlapped in one of the three ways
\* clean names: for any number of documents, fields and requests (write_doc,
\* remove, flush_due and flush_all together).
THEOREM ExactUntilOverlapped == WSpec => []ExactUnlessOverlapped
<1>1. WInv => ExactUnlessOverlapped
  BY DEF WInv, Exact, ExactUnlessOverlapped
<1> QED
  BY <1>1, WInvInit, WInvStep, PTL DEF WSpec

-----------------------------------------------------------------------------
\* What a GET may answer.  A field of value v is current when it is a value the
\* acknowledged document had during the GET.
Asking == GetSteps \ {"done"}
Current(c, f, v) == \E a \in watch[c].during : v = a.body[f]
Alive(c) == \E a \in watch[c].during : req[c].seen.live = a.live

\* What makes GetIsCurrent inductive: while nothing is in flight the disk holds
\* every field the buffer does not, and a field that has entered the buffer
\* stays there, so what the overlay lacks was read when it was acknowledged.
Answers(c) ==
    LET k == req[c].doc IN
    /\ pc[c] \in Asking =>
         /\ acked[k] \in watch[c].during
         /\ ~watch[c].flown => inflight[k] = None /\ draining[k] = None
    /\ clean[k] /\ ~watch[c].flown =>
         /\ pc[c] = "fast" => \A f \in Fields : Current(c, f, stored[k][f])
         /\ pc[c] = "overlay" =>
              /\ Alive(c)
              /\ \A f \in Fields : P(k)[f] # 0 \/ Current(c, f, req[c].seen.body[f])
         /\ pc[c] = "done" /\ req[c].kind = "get" =>
              /\ Alive(c)
              /\ \A f \in Fields : Current(c, f, req[c].seen.body[f])

GInv == /\ WInv
        /\ pc \in [Clients -> Steps]
        /\ \A c \in Clients : Answers(c)

\* A step that the flusher and the drain have no part in leaves a document on
\* disk as it was or as it is acknowledged, and takes no field out of the
\* buffer.
Calm(k) == /\ stored'[k] = stored[k] \/ stored'[k] = acked'[k].body
           /\ \A f \in Fields : P(k)[f] # 0 => P(k)'[f] # 0

Idle(k) == inflight[k] = None /\ draining[k] = None

\* A clean document nothing of which is on its way to the driver is the disk
\* under the pending body.
LEMMA IdleView ==
    ASSUME WInv, NEW k \in Docs, clean[k], Idle(k)
    PROVE  /\ exists[k] = acked[k].live
           /\ acked[k].body = Extend(stored[k], P(k))
           /\ \A f \in Fields :
                acked[k].body[f] = IF P(k)[f] # 0 THEN P(k)[f] ELSE stored[k][f]
           /\ pending[k] # None => exists[k]
<1>1. stored[k] \in Body /\ P(k) \in Body
  BY LayerBodies DEF WInv, WTypes
<1>2. I(k) = EmptyBody /\ D(k) = EmptyBody
  BY DEF Idle, I, D, BodyOf
<1>3. FullView(k) = Extend(stored[k], P(k))
  BY <1>1, <1>2, ExtendEmpty, ViewIsLayers DEF Layers
<1>4. /\ FullView(k) = acked[k].body /\ exists[k] = acked[k].live
      /\ Buffered(k) => exists[k]
  BY DEF WInv, Exact
<1>5. acked[k].body = Extend(stored[k], P(k))
  BY <1>3, <1>4
<1>6. \A f \in Fields :
        Extend(stored[k], P(k))[f] = IF P(k)[f] # 0 THEN P(k)[f] ELSE stored[k][f]
  BY <1>1, ExtendBody
<1>7. pending[k] # None => exists[k]
  BY <1>4 DEF Buffered
<1> QED
  BY <1>4, <1>5, <1>6, <1>7

LEMMA CalmMerge ==
    ASSUME WInv, NEW c \in Clients, PatchCoalesced(c), NEW k \in Docs
    PROVE  Calm(k) /\ (clean'[k] => clean[k])
<1>0. PICK j \in Docs, F \in SUBSET Fields : j = req[c].doc /\ F = req[c].fields
  BY NewBodyTypes DEF WInv
<1>1. /\ TypeOK /\ Merge(j, F) /\ clean' = [clean EXCEPT ![j] = @ /\ exists[j]]
      /\ Stamp(F, clock + 1) \in Body
  BY <1>0, NewBodyTypes DEF WInv, WTypes, PatchCoalesced
<1>2. clean'[k] => clean[k]
  BY <1>1 DEF WInv, WTypes
<1>3. stored' = stored
  BY <1>1 DEF Merge
<1>4. ASSUME NEW f \in Fields, P(k)[f] # 0 PROVE P(k)'[f] # 0
  <2>1. CASE k # j
    <3>1. pending'[k] = pending[k]
      BY <1>1, <2>1 DEF Merge, TypeOK
    <3> QED
      BY <1>4, <3>1 DEF P, BodyOf
  <2>2. CASE k = j
    <3>1. P(k)' = Extend(P(k), Stamp(F, clock + 1))
      BY <1>1, <2>2, MergeLayers
    <3>2. P(k) \in Body
      BY <1>1, LayerBodies
    <3> QED
      BY <1>1, <1>4, <3>1, <3>2, ExtendBody
  <2> QED
    BY <2>1, <2>2
<1> QED
  BY <1>2, <1>3, <1>4 DEF Calm

\* A write past the buffer of a clean document met nothing buffered.
LEMMA CalmWrite ==
    ASSUME WInv, WInv', NEW c \in Clients, StoreDirect(c) \/ Remove(c),
           NEW k \in Docs, clean'[k]
    PROVE  Calm(k) /\ clean[k]
<1>0. PICK j \in Docs : j = req[c].doc
  BY NewBodyTypes DEF WInv
<1>1. /\ UNCHANGED <<pending, inflight, draining>>
      /\ \A i \in Docs \ {j} : stored'[i] = stored[i]
      /\ clean'[k] => clean[k]
      /\ clean'[j] => ~Buffered(j)
  BY <1>0 DEF WInv, WTypes, TypeOK, StoreDirect, Remove
<1>2. P(k)' = P(k)
  BY <1>1 DEF P, BodyOf
<1>3. CASE k = j
  <2>1. TypeOK /\ stored'[k] \in Body
    BY DEF WInv, WTypes, TypeOK
  <2>2. FullView(k)' = stored'[k]
    BY <1>1, <1>3, <2>1, Unbuffered
  <2>3. FullView(k)' = acked'[k].body
    BY DEF WInv, Exact
  <2> QED
    BY <1>1, <1>2, <2>2, <2>3 DEF Calm
<1> QED
  BY <1>1, <1>2, <1>3 DEF Calm

\* The background stores only what it holds.
LEMMA CalmBackground ==
    ASSUME WInv, Background, NEW k \in Docs, clean'[k]
    PROVE  clean[k] /\ (Idle(k) /\ Idle(k)' => Calm(k))
<1>0. TypeOK
  BY DEF WInv, WTypes
<1>1. CASE Take
  <2>1. stored' = stored /\ clean[k]
    BY <1>1 DEF Take, TakeDue, DrainTake
  <2>2. ASSUME Idle(k)', NEW f \in Fields, P(k)[f] # 0 PROVE P(k)'[f] # 0
    <3>1. pending[k] # None /\ pending[k].body[f] # 0
      BY <2>2, EmptyBodyBody DEF P, BodyOf
    <3>2. pending[k].body \in Body /\ pending[k].body # EmptyBody
      BY <1>0, <3>1, EmptyBodyBody DEF TypeOK
    <3>3. ~DrainTake
      BY <2>2, <3>1, <3>2, NoneAssumption DEF DrainTake, Idle
    <3>4. TakeDue /\ k \notin Due
      <4>1. TakeDue
        BY <1>1, <3>3 DEF Take
      <4>2. ASSUME k \in Due PROVE FALSE
        <5>1. inflight'[k] = [body |-> pending[k].body, fails |-> pending[k].fails,
                              failed |-> FALSE]
          BY <3>2, <4>1, <4>2 DEF TakeDue
        <5>2. inflight'[k] \in Item
          BY <1>0, <3>1, <3>2, <5>1 DEF TypeOK
        <5> QED
          BY <2>2, <5>2, NotNone DEF Idle
      <4> QED
        BY <4>1, <4>2
    <3>5. pending'[k] = pending[k]
      BY <3>4 DEF TakeDue
    <3> QED
      BY <2>2, <3>5 DEF P, BodyOf
  <2> QED
    BY <2>1, <2>2 DEF Calm
<1>2. ASSUME NEW j \in Docs, Flushed(j) \/ Kept(j) \/ Lost(j) PROVE clean[k]
  BY <1>2 DEF Flushed, Kept, Lost, docVars
<1>3. ASSUME NEW j \in Docs, Flushed(j) \/ Kept(j) \/ Lost(j),
             Idle(k), Idle(k)'
      PROVE  stored'[k] = stored[k] /\ P(k)' = P(k)
  <2>1. CASE j # k
    <3>1. stored'[k] = stored[k] /\ pending'[k] = pending[k]
      BY <1>0, <1>3, <2>1 DEF TypeOK, Flushed, Kept, Lost, WindowEnds, FlushStores,
         FlushFails, Refold, Requeue, GiveUp, DrainStores, DrainLoses
    <3> QED
      BY <3>1 DEF P, BodyOf
  <2>2. CASE j = k
    <3>1. WindowEnds(k)
      BY <1>3, <2>2 DEF Flushed, Kept, Lost, FlushStores, Writing, FlushFails,
         Refold, Requeue, GiveUp, DrainStores, DrainLoses, Idle
    <3> QED
      BY <1>0, <3>1, WindowLayers
  <2> QED
    BY <2>1, <2>2
<1> QED
  BY <1>1, <1>2, <1>3 DEF Background, Calm

-----------------------------------------------------------------------------
LEMMA PcTypes ==
    ASSUME pc \in [Clients -> Steps], [WNext]_wvars
    PROVE  pc' \in [Clients -> Steps]
<1>1. ASSUME NEW c \in Clients, Handler(c) PROVE pc' \in [Clients -> Steps]
  <2>1. \E step \in Steps : pc' = [pc EXCEPT ![c] = step]
    <3>1. {"idle", "write"} \cup GetSteps \subseteq Steps
      BY DEF Steps
    <3> QED
      BY <1>1, <3>1 DEF Handler, StartWrite, Refuse, PatchCoalesced, StoreDirect,
         Remove, StartGet, RouteGet, GetFast, GetOwned, GetOverlay, EndGet, Finish,
         GetSteps
  <2> QED
    BY <2>1
<1>2. CASE Background
  BY <1>2 DEF Background, Take, Flushed, Kept, Lost, reqVars
<1>3. CASE UNCHANGED wvars
  BY <1>3 DEF wvars, reqVars
<1> QED
  BY <1>1, <1>2, <1>3 DEF WNext

\* What is noted of a GET that has no answer yet.
LEMMA Noted ==
    ASSUME Observe, NEW c \in Clients, NEW k, req'[c].doc = k,
           pc'[c] \in GetSteps, pc[c] # "done"
    PROVE  /\ watch'[c].during = watch[c].during \cup {acked'[k]}
           /\ watch'[c].flown = (watch[c].flown \/ ~Idle(k)')
  BY DEF Observe, Idle

\* A client that waits while another step is taken.
LEMMA WaitingKeeps ==
    ASSUME WInv, WInv', NEW c \in Clients, Answers(c), Observe,
           pc'[c] = pc[c], req'[c] = req[c],
           \A k \in Docs : clean'[k] => /\ clean[k]
                                        /\ Idle(k) /\ Idle(k)' => Calm(k)
    PROVE  Answers(c)'
<1>0. PICK k \in Docs : k = req[c].doc
  BY DEF WInv, WTypes, Request
<1>1. req'[c].doc = k
  BY <1>0
<1>2. CASE pc[c] \in Asking
  <2>1. /\ watch'[c].during = watch[c].during \cup {acked'[k]}
        /\ watch'[c].flown = (watch[c].flown \/ ~Idle(k)')
    BY <1>1, <1>2, Noted DEF Asking, GetSteps
  <2>2. ~watch'[c].flown => ~watch[c].flown /\ Idle(k) /\ Idle(k)'
    BY <1>0, <1>2, <2>1 DEF Answers, Idle
  <2>3. ASSUME clean'[k], ~watch'[c].flown
        PROVE  clean[k] /\ Calm(k)
    BY <2>2, <2>3
  <2>4. \A f \in Fields : \A v : Current(c, f, v) => Current(c, f, v)'
    BY <2>1 DEF Current
  <2>5. ASSUME clean'[k], ~watch'[c].flown, pc[c] = "fast", NEW f \in Fields
        PROVE  Current(c, f, stored[k][f])'
    <3>1. Current(c, f, stored[k][f])
      BY <1>0, <2>2, <2>3, <2>5 DEF Answers
    <3>2. CASE stored'[k] = stored[k]
      BY <2>1, <3>1, <3>2 DEF Current
    <3>3. CASE stored'[k] = acked'[k].body
      BY <2>1, <3>3 DEF Current
    <3> QED
      BY <2>3, <2>5, <3>2, <3>3 DEF Calm
  <2>6. ASSUME clean'[k], ~watch'[c].flown, pc[c] = "overlay"
        PROVE  /\ Alive(c)'
               /\ \A f \in Fields :
                    P(k)'[f] # 0 \/ Current(c, f, req[c].seen.body[f])'
    <3>1. /\ Alive(c)
          /\ \A f \in Fields : P(k)[f] # 0 \/ Current(c, f, req[c].seen.body[f])
      BY <1>0, <2>2, <2>3, <2>6 DEF Answers
    <3>2. Alive(c)'
      BY <2>1, <3>1 DEF Alive
    <3>3. \A f \in Fields : P(k)[f] # 0 => P(k)'[f] # 0
      BY <2>3, <2>6 DEF Calm
    <3>4. \A f \in Fields : Current(c, f, req[c].seen.body[f])
                              => Current(c, f, req[c].seen.body[f])'
      BY <2>1 DEF Current
    <3> QED
      BY <3>1, <3>2, <3>3, <3>4
  <2>7. acked'[k] \in watch'[c].during /\ (~watch'[c].flown => Idle(k)')
    BY <2>1, <2>2
  <2> QED
    BY <1>0, <1>1, <1>2, <2>5, <2>6, <2>7 DEF Answers, Asking, Idle
<1>3. CASE pc[c] = "done"
  <2>1. watch'[c] = watch[c]
    BY <1>3 DEF Observe, GetSteps
  <2>2. clean'[k] => clean[k]
    OBVIOUS
  <2>3. \A f \in Fields : Current(c, f, req[c].seen.body[f])
                            => Current(c, f, req[c].seen.body[f])'
    BY <2>1 DEF Current
  <2>4. Alive(c) => Alive(c)'
    BY <2>1 DEF Alive
  <2> QED
    BY <1>0, <1>1, <1>3, <2>1, <2>2, <2>3, <2>4 DEF Answers, Asking
<1>4. CASE pc[c] \notin GetSteps
  BY <1>4 DEF Answers, Asking, GetSteps
<1> QED
  BY <1>2, <1>3, <1>4 DEF Asking

\* The steps of the GET itself move no document.
LEMMA AskingKeeps ==
    ASSUME WInv, pc \in [Clients -> Steps], NEW c \in Clients, Answers(c),
           Observe, Reading(c)
    PROVE  Answers(c)'
<1>0. /\ UNCHANGED <<vars, docVars>> /\ req \in [Clients -> Request]
      /\ req' \in [Clients -> Request]
  BY ReadingTypes DEF WInv, WTypes
<1>1. PICK k \in Docs : k = req'[c].doc
  BY <1>0 DEF Request
<1>2. /\ stored'[k] = stored[k] /\ acked'[k] = acked[k] /\ clean'[k] = clean[k]
      /\ P(k)' = P(k) /\ Idle(k)' = Idle(k)
  BY <1>0 DEF vars, docVars, P, Idle
<1> DEFINE Starts == \E j \in Docs, conditional \in BOOLEAN :
                       StartGet(c, j, conditional)
<1>3. CASE pc'[c] = "idle"
  BY <1>3 DEF Answers, Asking, GetSteps
<1>4. CASE Starts /\ pc'[c] = "done"
  <2>1. req'[c].kind = "getif"
    BY <1>0, <1>4 DEF StartGet
  <2> QED
    BY <1>4, <2>1 DEF Answers, Asking
<1>5. ASSUME pc'[c] \in GetSteps, pc[c] # "done"
      PROVE  /\ acked'[k] \in watch'[c].during
             /\ ~watch'[c].flown => ~watch[c].flown /\ Idle(k) /\ Idle(k)'
             /\ watch[c].during \subseteq watch'[c].during
             /\ acked[k] \in watch'[c].during
  BY <1>1, <1>2, <1>5, Noted
<1>6. CASE Starts /\ pc'[c] = "route"
  BY <1>1, <1>5, <1>6 DEF Starts, StartGet, Answers, Asking, GetSteps, Idle
<1>7. CASE pc[c] \in Asking /\ pc'[c] = "owned"
  BY <1>1, <1>5, <1>7 DEF Answers, Asking, GetSteps, Idle
<1>8. CASE RouteGet(c) /\ pc'[c] = "fast"
  <2>1. pc[c] = "route" /\ req' = req /\ pending[k] = None
    BY <1>1, <1>8 DEF RouteGet
  <2>2. P(k) = EmptyBody
    BY <2>1 DEF P, BodyOf
  <2>3. ASSUME clean'[k], ~watch'[c].flown, NEW f \in Fields
        PROVE  Current(c, f, stored[k][f])'
    <3>1. acked[k].body[f] = stored[k][f]
      BY <1>2, <1>5, <1>8, <2>1, <2>2, <2>3, IdleView, EmptyBodyBody DEF GetSteps
    <3>2. acked[k] \in watch'[c].during
      BY <1>5, <1>8, <2>1 DEF GetSteps
    <3> QED
      BY <1>2, <3>1, <3>2 DEF Current
  <2> QED
    BY <1>1, <1>5, <1>8, <2>1, <2>3 DEF Answers, Asking, GetSteps, Idle
<1>9. CASE GetFast(c) /\ pc'[c] = "done"
  <2>1. /\ pc[c] = "fast" /\ req'[c].doc = req[c].doc
        /\ req'[c].seen = Read(k)
    BY <1>0, <1>1, <1>9 DEF GetFast, Request
  <2>2. ASSUME clean'[k], ~watch'[c].flown
        PROVE  Alive(c)'
    <3>0. req'[c].seen.live = exists[k]
      BY <2>1 DEF Read
    <3>1. exists[k] = acked[k].live
      BY <1>2, <1>5, <1>9, <2>1, <2>2, IdleView DEF GetSteps
    <3>2. acked[k] \in watch'[c].during
      BY <1>5, <1>9, <2>1 DEF GetSteps
    <3> QED
      BY <3>0, <3>1, <3>2 DEF Alive
  <2>3. ASSUME clean'[k], ~watch'[c].flown, NEW f \in Fields
        PROVE  Current(c, f, req[c].seen.body[f])'
    <3>1. Current(c, f, stored[k][f])
      BY <1>1, <1>2, <1>5, <1>9, <2>1, <2>3 DEF Answers, GetSteps
    <3>2. req'[c].seen.body[f] = stored[k][f]
      BY <2>1 DEF Read
    <3>3. watch[c].during \subseteq watch'[c].during
      BY <1>5, <1>9, <2>1 DEF GetSteps
    <3> QED
      BY <3>1, <3>2, <3>3 DEF Current
  <2> QED
    BY <1>1, <1>9, <2>2, <2>3 DEF Answers, Asking
<1>10. CASE GetOwned(c)
  <2>1. /\ pc[c] = "owned" /\ pc'[c] = "overlay" /\ req'[c].seen = Read(k)
    BY <1>0, <1>1, <1>10 DEF GetOwned, Request
  <2>2. acked[k] \in watch'[c].during
    BY <1>5, <2>1 DEF GetSteps
  <2>3. ASSUME clean'[k], ~watch'[c].flown
        PROVE  /\ Alive(c)'
               /\ \A f \in Fields :
                    P(k)'[f] # 0 \/ Current(c, f, req[c].seen.body[f])'
    <3>1. /\ exists[k] = acked[k].live
          /\ \A f \in Fields : P(k)[f] # 0 \/ acked[k].body[f] = stored[k][f]
      BY <1>2, <1>5, <2>1, <2>3, IdleView DEF GetSteps
    <3>2. req'[c].seen.live = exists[k] /\ req'[c].seen.body = stored[k]
      BY <2>1 DEF Read
    <3> QED
      BY <1>2, <2>2, <3>1, <3>2 DEF Alive, Current
  <2> QED
    BY <1>1, <1>5, <2>1, <2>3 DEF Answers, Asking, GetSteps, Idle
<1>11. CASE GetOverlay(c)
  <2>1. /\ pc[c] = "overlay" /\ pc'[c] = "done" /\ k = req[c].doc
    BY <1>0, <1>1, <1>11 DEF GetOverlay, Request
  <2>2. acked[k] \in watch'[c].during /\ watch[c].during \subseteq watch'[c].during
    BY <1>5, <2>1 DEF GetSteps
  <2>3. ASSUME clean'[k], ~watch'[c].flown
        PROVE  Alive(c)' /\ \A f \in Fields : Current(c, f, req[c].seen.body[f])'
    <3>1. /\ exists[k] = acked[k].live /\ (pending[k] # None => exists[k])
          /\ \A f \in Fields : P(k)[f] # 0 => acked[k].body[f] = P(k)[f]
      BY <1>2, <1>5, <2>1, <2>3, IdleView DEF GetSteps
    <3>2. /\ Alive(c)
          /\ \A f \in Fields : P(k)[f] # 0 \/ Current(c, f, req[c].seen.body[f])
      BY <1>2, <1>5, <2>1, <2>3 DEF Answers, GetSteps
    <3>3. CASE pending[k] = None
      <4>1. req' = req /\ P(k) = EmptyBody
        BY <1>11, <2>1, <3>3 DEF GetOverlay, P, BodyOf
      <4>2. \A f \in Fields : Current(c, f, req[c].seen.body[f])
        BY <3>2, <4>1, EmptyBodyBody
      <4> QED
        BY <2>2, <3>2, <4>1, <4>2 DEF Current, Alive
    <3>4. CASE pending[k] # None
      <4>1. /\ req'[c].seen.live = TRUE
            /\ req'[c].seen.body = Extend(req[c].seen.body, P(k))
        BY <1>0, <1>11, <2>1, <3>4 DEF GetOverlay, P, BodyOf, Request
      <4>2. req[c].seen.body \in Body /\ P(k) \in Body
        BY <1>0, LayerBodies DEF Request, Snapshot, WInv, WTypes
      <4>3. \A f \in Fields : req'[c].seen.body[f] =
              IF P(k)[f] # 0 THEN P(k)[f] ELSE req[c].seen.body[f]
        BY <4>1, <4>2, ExtendBody
      <4>4. acked[k].live = TRUE
        <5>1. exists[k] \in BOOLEAN
          BY DEF WInv, WTypes
        <5> QED
          BY <3>1, <3>4, <5>1
      <4>5. Alive(c)'
        BY <2>2, <4>1, <4>4 DEF Alive
      <4>6. ASSUME NEW f \in Fields PROVE Current(c, f, req[c].seen.body[f])'
        <5>1. CASE P(k)[f] # 0
          <6>1. req'[c].seen.body[f] = acked[k].body[f]
            BY <3>1, <4>3, <5>1
          <6> QED
            BY <2>2, <6>1 DEF Current
        <5>2. CASE P(k)[f] = 0
          <6>1. req'[c].seen.body[f] = req[c].seen.body[f]
            BY <4>3, <5>2
          <6>2. Current(c, f, req[c].seen.body[f])
            BY <3>2, <5>2
          <6> QED
            BY <2>2, <6>1, <6>2 DEF Current
        <5> QED
          BY <5>1, <5>2
      <4> QED
        BY <4>5, <4>6
    <3> QED
      BY <3>3, <3>4
  <2> QED
    BY <1>1, <2>1, <2>3 DEF Answers, Asking
<1> QED
  <2>1. CASE Starts
    BY <1>4, <1>6, <2>1 DEF StartGet
  <2>2. CASE RouteGet(c)
    BY <1>7, <1>8, <2>2 DEF RouteGet, Asking, GetSteps
  <2>3. CASE GetFast(c)
    BY <1>7, <1>9, <2>3 DEF GetFast, Asking, GetSteps
  <2>4. CASE EndGet(c)
    BY <1>3, <2>4 DEF EndGet
  <2> QED
    BY <1>10, <1>11, <2>1, <2>2, <2>3, <2>4 DEF Reading

-----------------------------------------------------------------------------
LEMMA GInvInit == WInit => GInv
<1> SUFFICES ASSUME WInit PROVE GInv
  OBVIOUS
<1>1. \A c \in Clients : pc[c] = "idle" /\ "idle" \in Steps
  BY DEF WInit, Steps
<1>2. pc \in [Clients -> Steps]
  BY DEF WInit, Steps
<1> QED
  BY <1>1, <1>2, WInvInit DEF GInv, Answers, Asking, GetSteps

LEMMA GInvStep == GInv /\ [WNext]_wvars => GInv'
<1> SUFFICES ASSUME GInv, [WNext]_wvars PROVE GInv'
  OBVIOUS
<1>1. WInv /\ WInv' /\ pc \in [Clients -> Steps] /\ pc' \in [Clients -> Steps]
  BY WInvStep, PcTypes DEF GInv
<1>2. ASSUME Observe, NEW c \in Clients, Handler(c), NEW x \in Clients
      PROVE  Answers(x)'
  <2>1. CASE x # c
    <3>1. pc'[x] = pc[x] /\ req'[x] = req[x]
      BY <1>1, <1>2, <2>1 DEF Handler, StartWrite, Refuse, PatchCoalesced,
         StoreDirect, Remove, StartGet, RouteGet, GetFast, GetOwned, GetOverlay,
         EndGet, Finish, WInv, WTypes
    <3>2. ASSUME NEW k \in Docs, clean'[k]
          PROVE  clean[k] /\ (Idle(k) /\ Idle(k)' => Calm(k))
      <4>1. CASE PatchCoalesced(c)
        BY <1>1, <3>2, <4>1, CalmMerge
      <4>2. CASE StoreDirect(c) \/ Remove(c)
        BY <1>1, <3>2, <4>2, CalmWrite
      <4>3. CASE UNCHANGED <<vars, docVars>>
        BY <3>2, <4>3 DEF vars, docVars, Calm, P
      <4>4. (\E j \in Docs, kind \in Writes, F \in SUBSET Fields :
               StartWrite(c, kind, j, F)) \/ Refuse(c) \/ Reading(c)
            => UNCHANGED <<vars, docVars>>
        BY <1>1, ReadingTypes DEF StartWrite, Refuse, WInv
      <4> QED
        BY <1>2, <4>1, <4>2, <4>3, <4>4 DEF Handler, Reading
    <3> QED
      BY <1>1, <1>2, <3>1, <3>2, WaitingKeeps DEF GInv
  <2>2. CASE x = c
    <3>1. CASE Reading(c)
      BY <1>1, <1>2, <2>2, <3>1, AskingKeeps DEF GInv
    <3>2. CASE pc'[c] \notin GetSteps
      BY <2>2, <3>2 DEF Answers, Asking, GetSteps
    <3>3. ~Reading(c) => pc'[c] \notin GetSteps
      BY <1>1, <1>2 DEF Handler, Reading, StartWrite, Refuse, PatchCoalesced,
         StoreDirect, Remove, Finish, GetSteps
    <3> QED
      BY <3>1, <3>2, <3>3
  <2> QED
    BY <2>1, <2>2
<1>3. ASSUME Observe, Background, NEW x \in Clients PROVE Answers(x)'
  <2>1. pc'[x] = pc[x] /\ req'[x] = req[x]
    BY <1>3 DEF Background, Take, Flushed, Kept, Lost, reqVars
  <2>2. \A k \in Docs : clean'[k] => clean[k] /\ (Idle(k) /\ Idle(k)' => Calm(k))
    BY <1>1, <1>3, CalmBackground
  <2> QED
    BY <1>1, <1>3, <2>1, <2>2, WaitingKeeps DEF GInv
<1>4. ASSUME UNCHANGED wvars, NEW x \in Clients PROVE Answers(x)'
  BY <1>4 DEF wvars, vars, docVars, reqVars, GInv, Answers, Current, Alive, P
<1> QED
  BY <1>1, <1>2, <1>3, <1>4 DEF WNext, GInv

\* Every field of a plain GET's answer had its acknowledged value at some
\* moment of the GET, whatever the other requests did meanwhile, as long as the
\* flusher and a drain left the document alone and its requests did not overlap
\* (main.rs get_or_list and get_owned): for any number of documents, fields and
\* requests.
THEOREM GetsAreCurrent == WSpec => []GetIsCurrent
<1>1. GInv => GetIsCurrent
  <2> SUFFICES ASSUME GInv, NEW c \in Clients,
                      pc[c] = "done", req[c].kind = "get",
                      clean[req[c].doc], ~watch[c].flown
               PROVE  /\ \E a \in watch[c].during : req[c].seen.live = a.live
                      /\ \A f \in Fields : \E a \in watch[c].during :
                           req[c].seen.body[f] = a.body[f]
    BY DEF GetIsCurrent
  <2> QED
    BY DEF GInv, Answers, Alive, Current
<1> QED
  BY <1>1, GInvInit, GInvStep, PTL DEF WSpec
=============================================================================
