----------------------------- MODULE HakoProofs -----------------------------
(***************************************************************************)
(* What the HakoDB driver keeps for any number of documents, fields, values,  *)
(* clients, requests and restarts: the shadows of a promised field say what   *)
(* the documents hold, force leaves no trace, an undisturbed count is exact.  *)
(*                                                                         *)
(* The invariant HInv ties three things the code never looks at together: the *)
(* registry in memory and the step every writer is at (Kept), what a task     *)
(* that was not overtaken still knows (Purged, Current), and the shadows.     *)
(***************************************************************************)
EXTENDS Hako, FiniteSetTheorems, TLAPS

Asked == {"none", "insert", "merge", "replace", "delete", "force", "restore",
          "declare", "count"}
Steps == {"idle", "exists", "base", "plain", "tx", "purge", "erase",
          "available", "restore", "declare", "count"}
Locals == [do : Asked, id : Ids \cup {None}, body : Doc \cup {None},
           field : Fields \cup {None}, total : Nat,
           late : BOOLEAN, over : BOOLEAN]

Typed ==
    /\ docs \in [Ids -> Doc \cup {None}]
    /\ bin \in [Ids -> Doc \cup {None}]
    /\ shadow \in [Keys -> Ids \cup {None}]
    /\ schema \in Fields \cup {None}
    /\ unique \in Fields \cup {None}
    /\ promised \in Fields \cup {None}
    /\ pc \in [Tasks -> Steps]
    /\ loc \in [Tasks -> Locals]
    /\ found \subseteq Ids
    /\ restarts \in Nat

\* What a task at a step brings along.
OnDocument == {"exists", "base", "plain", "tx", "purge", "erase", "available",
               "restore"}
Ready(t) ==
    /\ pc[t] \in OnDocument => loc[t].id \in Ids
    /\ pc[t] \in {"exists", "base", "plain", "tx"} =>
         loc[t].do \in Drops \/ (loc[t].do \in Writes /\ loc[t].body \in Doc)
    /\ pc[t] = "base" => loc[t].do = "merge"
    /\ pc[t] = "declare" => loc[t].field \in Fields

\* While values are unique by right, every writer goes through the shadows.
Kept ==
    promised # None =>
        /\ unique = promised
        /\ \A t \in Tasks : /\ pc[t] \notin {"base", "plain"}
                            /\ pc[t] = "tx" => loc[t].field = promised

\* What a task nobody overtook may still rely on.
Purged(t) == pc[t] = "erase" /\ ~loc[t].over => docs[loc[t].id] = None
Stored == {i \in Ids : docs[i] # None}
Current(t) == pc[t] = "count" /\ ~loc[t].late => loc[t].total = Cardinality(Stored)

Knows(t) == Ready(t) /\ Purged(t) /\ Current(t)

HInv == Typed /\ Kept /\ ShadowsAreTrue /\ \A t \in Tasks : Knows(t)

USE DEF Doc, Tasks, Keys

------------------------------------------------------------------------------
(* Operators *)

\* The keys of a document under a field are the values it has in it.
LEMMA KeysMeaning ==
    ASSUME NEW f \in Fields, NEW d \in Doc \cup {None}
    PROVE  /\ KeysOf(f, d) \subseteq Keys
           /\ \A g \in Fields, v \in Values :
                <<g, v>> \in KeysOf(f, d) <=> g = f /\ d # None /\ d.val[f] = v
  <1>1. f # None
    BY NoneAssumption
  <1>2. KeysOf(f, d) = {k \in {f} \X Values : d # None /\ d.val[f] = k[2]}
    BY <1>1, Zenon DEF KeysOf
  <1>3. QED BY <1>2

\* A shallow merge gives a document.
LEMMA MergedType ==
    ASSUME NEW d \in Doc \cup {None}, NEW b \in Doc
    PROVE  Merged(d, b) \in Doc
  <1>1. CASE d = None
    BY <1>1 DEF Merged
  <1>2. CASE d # None
    <2>1. d \in Doc
      BY <1>2
    <2>2. [f \in Fields |-> IF b.val[f] # None THEN b.val[f] ELSE d.val[f]]
            \in [Fields -> Values \cup {None}]
      BY <2>1
    <2>3. QED BY <1>2, <2>1, <2>2 DEF Merged
  <1>3. QED BY <1>1, <1>2

LEMMA IdleType == Idle \in Locals /\ ~Idle.late /\ ~Idle.over
  BY DEF Idle, Locals, Asked

\* The locals of the tasks in flight keep what they were asked; what they must
\* forget is marked.
LEMMA TouchMeans ==
    ASSUME Typed, NEW t \in Tasks, NEW i, NEW l \in Locals, Touch(t, i, l)
    PROVE  /\ loc' \in [Tasks -> Locals]
           /\ loc'[t] = l
           /\ \A u \in Tasks \ {t} :
                /\ loc'[u].do = loc[u].do /\ loc'[u].id = loc[u].id
                /\ loc'[u].body = loc[u].body /\ loc'[u].field = loc[u].field
                /\ loc'[u].total = loc[u].total
                /\ pc[u] # "idle" => loc'[u].late /\ (loc[u].id = i => loc'[u].over)
                /\ ~loc'[u].over => ~loc[u].over
  <1> DEFINE M(u) == [loc[u] EXCEPT !.late = TRUE, !.over = @ \/ loc[u].id = i]
  <1>1. ASSUME NEW u \in Tasks
        PROVE  /\ M(u) \in Locals
               /\ M(u).do = loc[u].do /\ M(u).id = loc[u].id
               /\ M(u).body = loc[u].body /\ M(u).field = loc[u].field
               /\ M(u).total = loc[u].total
               /\ M(u).late
               /\ loc[u].id = i => M(u).over
               /\ ~M(u).over => ~loc[u].over
    <2>1. loc[u] \in Locals
      BY DEF Typed
    <2>2. (loc[u].over \/ loc[u].id = i) \in BOOLEAN
      OBVIOUS
    <2>3. QED BY <2>1, <2>2 DEF Locals
  <1>2. loc' = [u \in Tasks |-> IF u = t THEN l
                                ELSE IF pc[u] = "idle" THEN loc[u] ELSE M(u)]
    BY Zenon DEF Touch
  <1>3. loc \in [Tasks -> Locals]
    BY DEF Typed
  <1> HIDE DEF M
  <1>4. loc' \in [Tasks -> Locals]
    BY <1>1, <1>2, <1>3
  <1>5. loc'[t] = l
    BY <1>2
  <1>6. ASSUME NEW u \in Tasks \ {t}
        PROVE  loc'[u] = IF pc[u] = "idle" THEN loc[u] ELSE M(u)
    BY <1>2
  <1>7. QED BY <1>1, <1>4, <1>5, <1>6

------------------------------------------------------------------------------
(* What a step of one task leaves to the others *)

\* A step that writes a document: the others keep what they were asked, and
\* whoever relied on that document knows better.
LEMMA OthersTouched ==
    ASSUME HInv, NEW t \in Tasks, NEW i \in Ids, NEW l \in Locals,
           NEW d \in Doc \cup {None},
           docs' = [docs EXCEPT ![i] = d], Touch(t, i, l),
           \A u \in Tasks \ {t} : pc'[u] = pc[u]
    PROVE  /\ docs' \in [Ids -> Doc \cup {None}]
           /\ loc' \in [Tasks -> Locals]
           /\ loc'[t] = l
           /\ \A u \in Tasks \ {t} : Knows(u)' /\ loc'[u].field = loc[u].field
  <1>1. Typed
    BY DEF HInv
  <1>2. docs \in [Ids -> Doc \cup {None}]
    BY <1>1 DEF Typed
  <1>3. /\ loc' \in [Tasks -> Locals]
        /\ loc'[t] = l
        /\ \A u \in Tasks \ {t} :
             /\ loc'[u].do = loc[u].do /\ loc'[u].id = loc[u].id
             /\ loc'[u].body = loc[u].body /\ loc'[u].field = loc[u].field
             /\ loc'[u].total = loc[u].total
             /\ pc[u] # "idle" => loc'[u].late /\ (loc[u].id = i => loc'[u].over)
             /\ ~loc'[u].over => ~loc[u].over
    BY <1>1, TouchMeans
  <1>4. ASSUME NEW u \in Tasks \ {t} PROVE Knows(u)'
    <2>1. pc'[u] = pc[u] /\ Knows(u)
      BY DEF HInv
    <2>2. Ready(u)'
      BY <1>3, <2>1 DEF Knows, Ready
    <2>3. Purged(u)'
      <3>1. SUFFICES ASSUME pc'[u] = "erase", ~loc'[u].over
                     PROVE  docs'[loc'[u].id] = None
        BY DEF Purged
      <3>2. /\ pc[u] = "erase" /\ ~loc[u].over
            /\ loc'[u].id = loc[u].id /\ loc[u].id # i
        BY <1>3, <2>1, <3>1
      <3>3. loc[u].id \in Ids /\ docs[loc[u].id] = None
        BY <2>1, <3>2 DEF Knows, Ready, Purged, OnDocument
      <3>4. QED BY <1>2, <3>2, <3>3
    <2>4. Current(u)'
      BY <1>3, <2>1 DEF Current
    <2>5. QED BY <2>2, <2>3, <2>4 DEF Knows
  <1>5. docs' \in [Ids -> Doc \cup {None}]
    BY <1>2
  <1>6. QED BY <1>3, <1>4, <1>5

\* A step that writes no document leaves everything to the others.
LEMMA OthersLeft ==
    ASSUME HInv, NEW t \in Tasks, NEW l \in Locals,
           docs' = docs, loc' = [loc EXCEPT ![t] = l],
           \A u \in Tasks \ {t} : pc'[u] = pc[u]
    PROVE  /\ loc' \in [Tasks -> Locals]
           /\ loc'[t] = l
           /\ \A u \in Tasks \ {t} : Knows(u)' /\ loc'[u].field = loc[u].field
  <1>1. loc \in [Tasks -> Locals]
    BY DEF HInv, Typed
  <1>2. loc' \in [Tasks -> Locals] /\ loc'[t] = l
    BY <1>1
  <1>3. ASSUME NEW u \in Tasks \ {t}
        PROVE  Knows(u)' /\ loc'[u].field = loc[u].field
    <2>1. loc'[u] = loc[u] /\ pc'[u] = pc[u] /\ Knows(u)
      BY <1>1 DEF HInv
    <2>2. QED
      BY <2>1 DEF Knows, Ready, Purged, Current, Stored
  <1>4. QED BY <1>2, <1>3

\* Kept depends on the registry and on where the writers are.
LEMMA KeptLeft ==
    ASSUME Kept, NEW t \in Tasks,
           unique' = unique, promised' \in {promised, None},
           \A u \in Tasks \ {t} : pc'[u] = pc[u] /\ loc'[u].field = loc[u].field,
           promised # None => /\ pc'[t] \notin {"base", "plain"}
                              /\ pc'[t] = "tx" => loc'[t].field = promised
    PROVE  Kept'
  BY DEF Kept

------------------------------------------------------------------------------
(* The shadows *)

\* A write past the shadows of a document without a value, or one that ends the
\* promise.
LEMMA ShadowsBypassed ==
    ASSUME Typed, ShadowsAreTrue, NEW i \in Ids, NEW d \in Doc \cup {None},
           docs' = [docs EXCEPT ![i] = d], shadow' = shadow,
           \/ promised' = None
           \/ /\ promised' = promised
              /\ KeysOf(promised, docs[i]) = {} /\ KeysOf(promised, d) = {}
    PROVE  ShadowsAreTrue'
  <1>1. SUFFICES ASSUME promised' # None, NEW v \in Values, NEW j \in Ids
                 PROVE  shadow'[<<promised', v>>] = j <=> Holds(j, <<promised, v>>)'
    BY Zenon DEF ShadowsAreTrue
  <1>2. /\ promised' = promised /\ promised \in Fields
        /\ KeysOf(promised, docs[i]) = {} /\ KeysOf(promised, d) = {}
        /\ docs \in [Ids -> Doc \cup {None}]
    BY <1>1 DEF Typed
  <1>3. shadow[<<promised, v>>] = j <=> docs[j] # None /\ docs[j].val[promised] = v
    BY <1>1, <1>2, NoneAssumption DEF ShadowsAreTrue, Holds
  <1>4. Holds(j, <<promised, v>>)' <=> docs'[j] # None /\ docs'[j].val[promised] = v
    BY <1>2 DEF Holds
  <1>5. j # i => docs'[j] = docs[j]
    BY <1>2
  <1>6. j = i => /\ docs'[j] = d
                 /\ ~(docs[j] # None /\ docs[j].val[promised] = v)
                 /\ ~(d # None /\ d.val[promised] = v)
    <2>1. docs'[i] = d /\ docs[i] \in Doc \cup {None}
      BY <1>2
    <2>2. ASSUME NEW e \in Doc \cup {None}, KeysOf(promised, e) = {}
          PROVE  ~(e # None /\ e.val[promised] = v)
      <3>1. <<promised, v>> \in KeysOf(promised, e) <=> e # None /\ e.val[promised] = v
        BY <1>2, KeysMeaning
      <3>2. <<promised, v>> \notin KeysOf(promised, e)
        BY <2>2, Zenon
      <3>3. QED BY <3>1, <3>2, Zenon
    <2>3. ~(docs[i] # None /\ docs[i].val[promised] = v)
      BY <1>2, <2>1, <2>2, Zenon
    <2>4. ~(d # None /\ d.val[promised] = v)
      BY <1>2, <2>2, Zenon
    <2>5. QED BY <2>1, <2>3, <2>4, Zenon
  <1>7. docs'[j] # None /\ docs'[j].val[promised] = v
          <=> docs[j] # None /\ docs[j].val[promised] = v
    BY <1>5, <1>6, Zenon
  <1>8. shadow'[<<promised', v>>] = shadow[<<promised, v>>]
    BY <1>2, Zenon
  <1>9. QED BY <1>3, <1>4, <1>7, <1>8, Zenon

\* A transaction that finds no key of the new document with another holder.
LEMMA ShadowsClaimed ==
    ASSUME Typed, ShadowsAreTrue, NEW i \in Ids, NEW d \in Doc \cup {None},
           NEW f, promised # None => f = promised,
           ~Taken(f, i, d), docs' = [docs EXCEPT ![i] = d],
           shadow' = Claimed(f, i, docs[i], d), promised' = promised
    PROVE  ShadowsAreTrue'
  <1>1. SUFFICES ASSUME promised # None, NEW v \in Values, NEW j \in Ids
                 PROVE  shadow'[<<promised, v>>] = j <=> Holds(j, <<promised, v>>)'
    BY DEF ShadowsAreTrue
  <1>2. /\ f = promised /\ f \in Fields
        /\ docs \in [Ids -> Doc \cup {None}] /\ docs[i] \in Doc \cup {None}
        /\ shadow \in [Keys -> Ids \cup {None}]
    BY <1>1 DEF Typed
  <1> DEFINE k == <<f, v>>
  <1>3. k \in Keys
    BY <1>2
  <1>4. k \in KeysOf(f, d) <=> d # None /\ d.val[f] = v
    BY <1>2, KeysMeaning
  <1>5. k \in KeysOf(f, docs[i]) <=> docs[i] # None /\ docs[i].val[f] = v
    BY <1>2, KeysMeaning
  <1>6. /\ k \in KeysOf(f, d) => shadow'[k] = i
        /\ k \notin KeysOf(f, d) /\ k \in KeysOf(f, docs[i]) => shadow'[k] = None
        /\ k \notin KeysOf(f, d) /\ k \notin KeysOf(f, docs[i])
             => shadow'[k] = shadow[k]
    <2>1. shadow'[k] = IF k \in KeysOf(f, d) THEN i
                       ELSE IF k \in KeysOf(f, docs[i]) THEN None ELSE shadow[k]
      BY <1>3, Zenon DEF Claimed
    <2> HIDE DEF k
    <2>2. QED BY <2>1
  <1>7. \A h \in Ids : shadow[k] = h <=> docs[h] # None /\ docs[h].val[f] = v
    BY <1>1, <1>2 DEF ShadowsAreTrue, Holds
  <1>8. k \in KeysOf(f, d) => shadow[k] \in {None, i}
    BY DEF Taken
  <1>9. Holds(j, <<promised, v>>)' <=> docs'[j] # None /\ docs'[j].val[f] = v
    BY <1>2 DEF Holds
  <1>10. docs'[i] = d /\ (j # i => docs'[j] = docs[j])
    BY <1>2
  <1>11. None # i /\ None # j
    BY NoneAssumption
  <1> HIDE DEF k
  <1>12. CASE k \in KeysOf(f, d)
    <2>1. shadow'[k] = i
      BY <1>6, <1>12
    <2>2. j # i => ~(docs[j] # None /\ docs[j].val[f] = v)
      BY <1>7, <1>8, <1>11, <1>12
    <2>3. shadow'[k] = j <=> docs'[j] # None /\ docs'[j].val[f] = v
      BY <1>4, <1>10, <1>12, <2>1, <2>2
    <2>4. QED BY <1>2, <1>9, <2>3 DEF k
  <1>13. CASE k \notin KeysOf(f, d) /\ k \in KeysOf(f, docs[i])
    <2>1. shadow'[k] = None
      BY <1>6, <1>13
    <2>2. shadow[k] = i
      BY <1>5, <1>7, <1>13
    <2>3. shadow'[k] = j <=> docs'[j] # None /\ docs'[j].val[f] = v
      BY <1>4, <1>7, <1>10, <1>11, <1>13, <2>1, <2>2
    <2>4. QED BY <1>2, <1>9, <2>3 DEF k
  <1>14. CASE k \notin KeysOf(f, d) /\ k \notin KeysOf(f, docs[i])
    <2>1. shadow'[k] = shadow[k]
      BY <1>6, <1>14
    <2>2. shadow[k] # i
      BY <1>5, <1>7, <1>14
    <2>3. shadow'[k] = j <=> docs'[j] # None /\ docs'[j].val[f] = v
      BY <1>4, <1>7, <1>10, <1>14, <2>1, <2>2
    <2>4. QED BY <1>2, <1>9, <2>3 DEF k
  <1>15. QED BY <1>12, <1>13, <1>14

LEMMA ShadowsLeft ==
    ASSUME ShadowsAreTrue, docs' = docs, shadow' = shadow, promised' = promised
    PROVE  ShadowsAreTrue'
  BY DEF ShadowsAreTrue, Holds

\* Nothing stored and no shadow: any field may be promised.
LEMMA ShadowsEmpty ==
    ASSUME Typed, docs' = docs, shadow' = shadow, promised' \in Fields \cup {None},
           promised' # None =>
             (\A i \in Ids : docs[i] = None) /\ \A k \in Keys : shadow[k] = None
    PROVE  ShadowsAreTrue'
  <1>1. SUFFICES ASSUME promised' # None, NEW v \in Values, NEW j \in Ids
                 PROVE  shadow'[<<promised', v>>] = j <=> Holds(j, <<promised, v>>)'
    BY Zenon DEF ShadowsAreTrue
  <1>2. <<promised', v>> \in Keys
    BY <1>1
  <1>3. shadow'[<<promised', v>>] = None /\ docs'[j] = None /\ j # None
    BY <1>1, <1>2, NoneAssumption
  <1>4. ~Holds(j, <<promised, v>>)'
    BY <1>3 DEF Holds
  <1>5. QED BY <1>3, <1>4

------------------------------------------------------------------------------
(* Two kinds of steps *)

\* What a task that gets to a step must have in hand.
Fit(s, l) ==
    /\ s \in OnDocument => l.id \in Ids
    /\ s \in {"exists", "base", "plain", "tx"} =>
         l.do \in Drops \/ (l.do \in Writes /\ l.body \in Doc)
    /\ s = "base" => l.do = "merge"
    /\ s = "declare" => l.field \in Fields
    /\ s = "erase" => l.over
    /\ s = "count" => l.total = Cardinality(Stored)
    /\ promised # None => /\ s \notin {"base", "plain"}
                          /\ s = "tx" => l.field = promised

\* A step of one task that writes no document.
LEMMA QuietStep ==
    ASSUME HInv, NEW t \in Tasks, NEW s \in Steps, NEW l \in Locals, Fit(s, l),
           docs' = docs, shadow' = shadow, unique' = unique, promised' = promised,
           restarts' = restarts,
           bin' \in [Ids -> Doc \cup {None}], schema' \in Fields \cup {None},
           found' \subseteq Ids,
           pc' = [pc EXCEPT ![t] = s], loc' = [loc EXCEPT ![t] = l]
    PROVE  HInv'
  <1>1. /\ docs \in [Ids -> Doc \cup {None}]
        /\ shadow \in [Keys -> Ids \cup {None}]
        /\ unique \in Fields \cup {None} /\ promised \in Fields \cup {None}
        /\ pc \in [Tasks -> Steps]
        /\ restarts \in Nat
        /\ Kept /\ ShadowsAreTrue
    BY DEF HInv, Typed
  <1>2. /\ pc' \in [Tasks -> Steps] /\ pc'[t] = s
        /\ \A u \in Tasks \ {t} : pc'[u] = pc[u]
    BY <1>1
  <1>3. /\ loc' \in [Tasks -> Locals]
        /\ loc'[t] = l
        /\ \A u \in Tasks \ {t} : Knows(u)' /\ loc'[u].field = loc[u].field
    BY <1>2, OthersLeft
  <1>4. Typed'
    BY <1>1, <1>2, <1>3 DEF Typed
  <1>5. Kept'
    BY <1>1, <1>2, <1>3, KeptLeft DEF Fit
  <1>6. ShadowsAreTrue'
    BY <1>1, ShadowsLeft
  <1>7. Knows(t)'
    <2>1. Ready(t)'
      BY <1>2, <1>3 DEF Ready, Fit
    <2>2. Purged(t)'
      BY <1>2, <1>3 DEF Purged, Fit
    <2>3. Current(t)'
      BY <1>2, <1>3 DEF Current, Fit, Stored
    <2>4. QED BY <2>1, <2>2, <2>3 DEF Knows
  <1>8. QED BY <1>3, <1>4, <1>5, <1>6, <1>7 DEF HInv

\* A step of one task that writes a document, through the shadows or past them.
LEMMA LoudStep ==
    ASSUME HInv, NEW t \in Tasks, NEW s \in {"idle", "purge", "erase"},
           NEW l \in Locals, NEW i \in Ids, NEW d \in Doc \cup {None},
           s # "idle" => l.id = i, s = "erase" => d = None,
           docs' = [docs EXCEPT ![i] = d], Touch(t, i, l),
           pc' = [pc EXCEPT ![t] = s],
           ShadowsAreTrue', promised' \in {promised, None},
           shadow' \in [Keys -> Ids \cup {None}],
           bin' \in [Ids -> Doc \cup {None}],
           unique' = unique, schema' = schema, found' = found, restarts' = restarts
    PROVE  HInv'
  <1>1. /\ docs \in [Ids -> Doc \cup {None}]
        /\ unique \in Fields \cup {None} /\ promised \in Fields \cup {None}
        /\ schema \in Fields \cup {None}
        /\ pc \in [Tasks -> Steps]
        /\ found \subseteq Ids
        /\ restarts \in Nat
        /\ Kept
    BY DEF HInv, Typed
  <1>2. /\ pc' \in [Tasks -> Steps] /\ pc'[t] = s
        /\ \A u \in Tasks \ {t} : pc'[u] = pc[u]
    BY <1>1 DEF Steps
  <1>3. /\ docs' \in [Ids -> Doc \cup {None}]
        /\ loc' \in [Tasks -> Locals]
        /\ loc'[t] = l
        /\ \A u \in Tasks \ {t} : Knows(u)' /\ loc'[u].field = loc[u].field
    BY <1>2, OthersTouched
  <1>4. Typed'
    BY <1>1, <1>2, <1>3 DEF Typed
  <1>5. Kept'
    BY <1>1, <1>2, <1>3, KeptLeft
  <1>6. Knows(t)'
    <2>1. Ready(t)'
      BY <1>2, <1>3 DEF Ready, OnDocument
    <2>2. Purged(t)'
      <3>1. docs'[i] = d
        BY <1>1
      <3>2. QED BY <1>2, <1>3, <3>1 DEF Purged
    <2>3. Current(t)'
      BY <1>2 DEF Current
    <2>4. QED BY <2>1, <2>2, <2>3 DEF Knows
  <1>7. QED BY <1>3, <1>4, <1>5, <1>6 DEF HInv

------------------------------------------------------------------------------
(* Requests and the steps that read *)

\* A request starts at a step it is fit for: with a unique field every write
\* starts with the transaction or will go to it.
LEMMA StartsFit ==
    ASSUME HInv, NEW do \in Writes \cup Drops \cup {"restore"}, NEW i \in Ids,
           NEW b \in Doc \cup {None}, do \in Writes => b \in Doc,
           NEW l \in Locals,
           l.do = do /\ l.id = i /\ l.body = b /\ l.field = unique
    PROVE  FirstStep(do) \in Steps /\ Fit(FirstStep(do), l)
  <1>1. promised # None => unique = promised
    BY DEF HInv, Kept
  <1>2. /\ FirstStep(do) \in {"exists", "available", "tx", "base", "plain"}
        /\ FirstStep(do) \in {"exists", "tx", "base", "plain"} => do # "restore"
        /\ FirstStep(do) \in {"base", "plain"} => unique = None
        /\ FirstStep(do) = "base" => do = "merge"
    BY DEF FirstStep, Writes, Drops
  <1> DEFINE s == FirstStep(do)
  <1> HIDE DEF s
  <1>3. s \in {"exists", "available", "tx", "base", "plain"} /\ s \in Steps
    BY <1>2 DEF Steps, s
  <1>4. s \in {"exists", "base", "plain", "tx"} =>
          l.do \in Drops \/ (l.do \in Writes /\ l.body \in Doc)
    <2>1. s \in {"exists", "base", "plain", "tx"} => do # "restore"
      BY <1>2 DEF s
    <2>2. do = "restore" \/ do \in Drops \/ do \in Writes
      OBVIOUS
    <2>3. l.do = do /\ (do \in Writes => l.body \in Doc)
      OBVIOUS
    <2>4. QED BY <2>1, <2>2, <2>3, Zenon
  <1>5. s = "base" => l.do = "merge"
    BY <1>2 DEF s
  <1>6. promised # None => s \notin {"base", "plain"} /\ l.field = promised
    BY <1>1, <1>2, NoneAssumption DEF s
  <1>7. Fit(s, l)
    BY <1>3, <1>4, <1>5, <1>6 DEF Fit
  <1>8. QED BY <1>3, <1>7 DEF s

LEMMA RequestKeeps ==
    ASSUME HInv, NEW c \in Clients, NEW do \in Writes \cup Drops \cup {"restore"},
           NEW i \in Ids, NEW b \in Doc \cup {None}, do \in Writes => b \in Doc,
           Request(c, do, i, b)
    PROVE  HInv'
  <1> DEFINE l == [Idle EXCEPT !.do = do, !.id = i, !.body = b, !.field = unique]
  <1>1. Typed
    BY DEF HInv
  <1>2. l \in Locals /\ l.do = do /\ l.id = i /\ l.body = b /\ l.field = unique
    BY <1>1 DEF Idle, Locals, Asked, Typed, Writes, Drops
  <1>3. loc' = [loc EXCEPT ![c] = l]
    BY DEF Request
  <1> HIDE DEF l
  <1>4. FirstStep(do) \in Steps /\ Fit(FirstStep(do), l)
    BY <1>2, StartsFit
  <1>5. /\ docs' = docs /\ shadow' = shadow /\ unique' = unique
        /\ promised' = promised /\ restarts' = restarts
        /\ bin' \in [Ids -> Doc \cup {None}] /\ schema' \in Fields \cup {None}
        /\ found' \subseteq Ids /\ pc' = [pc EXCEPT ![c] = FirstStep(do)]
    BY <1>1 DEF Request, store, registry, Typed
  <1>6. QED BY <1>2, <1>3, <1>4, <1>5, QuietStep

LEMMA ExistsKeeps ==
    ASSUME HInv, NEW t \in Tasks, Exists(t)
    PROVE  HInv'
  <1>1. /\ Typed /\ Ready(t) /\ pc[t] = "exists"
        /\ promised # None => unique = promised
    BY DEF HInv, Knows, Exists, Kept
  <1>2. /\ docs' = docs /\ shadow' = shadow /\ unique' = unique
        /\ promised' = promised /\ restarts' = restarts
        /\ bin' \in [Ids -> Doc \cup {None}] /\ schema' \in Fields \cup {None}
        /\ found' \subseteq Ids
    BY <1>1 DEF Exists, store, registry, Typed
  <1>3. CASE docs[loc[t].id] # None
    <2>1. pc' = [pc EXCEPT ![t] = "idle"] /\ loc' = [loc EXCEPT ![t] = Idle]
      BY <1>3 DEF Exists, Leave, Finish
    <2>2. "idle" \in Steps /\ Fit("idle", Idle)
      BY DEF Steps, Fit, OnDocument
    <2>3. QED BY <1>2, <2>1, <2>2, IdleType, QuietStep
  <1>4. CASE docs[loc[t].id] = None
    <2> DEFINE s == IF unique # None THEN "tx" ELSE "plain"
               l == [loc[t] EXCEPT !.field = unique]
    <2>1. /\ l \in Locals
          /\ l.id = loc[t].id /\ l.do = loc[t].do /\ l.body = loc[t].body
          /\ l.field = unique
      <3>1. loc[t] \in Locals /\ unique \in Fields \cup {None}
        BY <1>1 DEF Typed
      <3>2. QED BY <3>1 DEF Locals
    <2>2. pc' = [pc EXCEPT ![t] = s] /\ loc' = [loc EXCEPT ![t] = l]
      BY <1>4 DEF Exists
    <2> HIDE DEF l
    <2>3. s \in Steps /\ Fit(s, l)
      BY <1>1, <2>1 DEF Steps, Fit, Ready, OnDocument
    <2> HIDE DEF s
    <2>4. QED BY <1>2, <2>1, <2>2, <2>3, QuietStep
  <1>5. QED BY <1>3, <1>4

LEMMA BaseKeeps ==
    ASSUME HInv, NEW t \in Tasks, Base(t)
    PROVE  HInv'
  <1>1. Typed /\ Ready(t) /\ pc[t] = "base" /\ promised = None
    BY DEF HInv, Knows, Base, Kept
  <1>2. /\ docs' = docs /\ shadow' = shadow /\ unique' = unique
        /\ promised' = promised /\ restarts' = restarts
        /\ bin' \in [Ids -> Doc \cup {None}] /\ schema' \in Fields \cup {None}
        /\ found' \subseteq Ids /\ pc' = [pc EXCEPT ![t] = "plain"]
    BY <1>1 DEF Base, store, registry, Typed
  <1>3. loc[t] \in Locals /\ loc[t].id \in Ids /\ docs[loc[t].id] \in Doc \cup {None}
    BY <1>1 DEF Typed, Ready, OnDocument
  <1> DEFINE m == Merged(docs[loc[t].id], loc[t].body)
             l == [loc[t] EXCEPT !.body = m]
  <1>4. loc' = [loc EXCEPT ![t] = l]
    BY DEF Base
  <1>5. m \in Doc
    BY <1>1, <1>3, MergedType DEF Ready, Writes, Drops
  <1> HIDE DEF m
  <1>6. l \in Locals /\ l.id = loc[t].id /\ l.do = loc[t].do /\ l.body = m
    BY <1>3, <1>5 DEF Locals
  <1> HIDE DEF l
  <1>7. "plain" \in Steps /\ Fit("plain", l)
    BY <1>1, <1>3, <1>5, <1>6 DEF Steps, Fit, Ready, OnDocument
  <1>8. QED BY <1>2, <1>4, <1>6, <1>7, QuietStep

\* A transaction that fails has changed nothing.
LEMMA LeavingKeeps ==
    ASSUME HInv, NEW t \in Tasks, Leave(t),
           docs' = docs, shadow' = shadow, unique' = unique, promised' = promised,
           restarts' = restarts, bin' \in [Ids -> Doc \cup {None}],
           schema' = schema, found' = found
    PROVE  HInv'
  <1>1. "idle" \in Steps /\ Fit("idle", Idle)
    BY DEF Steps, Fit, OnDocument
  <1>2. pc' = [pc EXCEPT ![t] = "idle"] /\ loc' = [loc EXCEPT ![t] = Idle]
    BY DEF Leave, Finish
  <1>3. schema' \in Fields \cup {None} /\ found' \subseteq Ids
    BY DEF HInv, Typed
  <1>4. QED BY <1>1, <1>2, <1>3, IdleType, QuietStep

LEMMA TransactFailsKeeps ==
    ASSUME HInv, NEW t \in Tasks, TransactFails(t)
    PROVE  HInv'
  <1>1. bin \in [Ids -> Doc \cup {None}]
    BY DEF HInv, Typed
  <1>2. QED BY <1>1, LeavingKeeps DEF TransactFails, store, registry

\* The retention record of the document goes.
LEMMA EraseKeeps ==
    ASSUME HInv, NEW t \in Tasks, Erase(t)
    PROVE  HInv'
  <1>1. bin' \in [Ids -> Doc \cup {None}]
    BY DEF HInv, Typed, Erase, EraseRecord
  <1>2. QED BY <1>1, LeavingKeeps DEF Erase, registry

LEMMA AvailableKeeps ==
    ASSUME HInv, NEW t \in Tasks, Available(t)
    PROVE  HInv'
  <1>1. Typed /\ Ready(t) /\ pc[t] = "available"
    BY DEF HInv, Knows, Available
  <1>2. CASE Leave(t)
    BY <1>1, <1>2, LeavingKeeps DEF Available, store, registry, Typed
  <1>3. CASE pc' = [pc EXCEPT ![t] = "restore"] /\ loc' = loc
    <2>1. loc[t] \in Locals /\ loc' = [loc EXCEPT ![t] = loc[t]]
      BY <1>1, <1>3 DEF Typed
    <2>2. "restore" \in Steps /\ Fit("restore", loc[t])
      BY <1>1 DEF Steps, Fit, Ready, OnDocument
    <2>3. /\ docs' = docs /\ shadow' = shadow /\ unique' = unique
          /\ promised' = promised /\ restarts' = restarts
          /\ bin' \in [Ids -> Doc \cup {None}] /\ schema' \in Fields \cup {None}
          /\ found' \subseteq Ids
      BY <1>1 DEF Available, store, registry, Typed
    <2>4. QED BY <1>3, <2>1, <2>2, <2>3, QuietStep
  <1>4. QED BY <1>2, <1>3 DEF Available

LEMMA CountDeadKeeps ==
    ASSUME HInv, NEW t \in Tasks, CountDead(t)
    PROVE  HInv'
  <1>1. bin \in [Ids -> Doc \cup {None}]
    BY DEF HInv, Typed
  <1>2. QED BY <1>1, LeavingKeeps DEF CountDead, store, registry

LEMMA CountAllKeeps ==
    ASSUME HInv, NEW t \in Clients, CountAll(t)
    PROVE  HInv'
  <1> DEFINE l == [Idle EXCEPT !.do = "count", !.total = Cardinality(Stored)]
  <1>1. Typed
    BY DEF HInv
  <1>2. Cardinality(Stored) \in Nat
    BY IdsAssumption, FS_Subset, FS_CardinalityType DEF Stored
  <1>3. l \in Locals /\ l.total = Cardinality(Stored)
    BY <1>2 DEF Idle, Locals, Asked
  <1>4. loc' = [loc EXCEPT ![t] = l]
    BY DEF CountAll, Stored
  <1> HIDE DEF l
  <1>5. "count" \in Steps /\ Fit("count", l)
    BY <1>3 DEF Steps, Fit, OnDocument
  <1>6. /\ docs' = docs /\ shadow' = shadow /\ unique' = unique
        /\ promised' = promised /\ restarts' = restarts
        /\ bin' \in [Ids -> Doc \cup {None}] /\ schema' \in Fields \cup {None}
        /\ found' \subseteq Ids /\ pc' = [pc EXCEPT ![t] = "count"]
    BY <1>1 DEF CountAll, store, registry, Typed
  <1>7. QED BY <1>3, <1>4, <1>5, <1>6, QuietStep

\* The sweeper takes its next document; its delete goes the way of any other.
LEMMA SweepNextKeeps ==
    ASSUME HInv, SweepNext
    PROVE  HInv'
  <1>1. Typed
    BY DEF HInv
  <1>2. PICK i \in found :
          /\ found' = found \ {i}
          /\ pc' = [pc EXCEPT ![Sweeper] = FirstStep("delete")]
          /\ loc' = [loc EXCEPT ![Sweeper] = [Idle EXCEPT !.do = "delete", !.id = i,
                                                          !.field = unique]]
    BY DEF SweepNext
  <1> DEFINE l == [Idle EXCEPT !.do = "delete", !.id = i, !.field = unique]
  <1>3. i \in Ids
    BY <1>1 DEF Typed
  <1>4. /\ l \in Locals /\ l.do = "delete" /\ l.id = i /\ l.body = None
        /\ l.field = unique
    BY <1>1, <1>3 DEF Idle, Locals, Asked, Typed
  <1>5. loc' = [loc EXCEPT ![Sweeper] = l]
    BY <1>2
  <1> HIDE DEF l
  <1>6. FirstStep("delete") \in Steps /\ Fit(FirstStep("delete"), l)
    BY <1>3, <1>4, StartsFit DEF Drops, Writes
  <1>7. /\ docs' = docs /\ shadow' = shadow /\ unique' = unique
        /\ promised' = promised /\ restarts' = restarts
        /\ bin' \in [Ids -> Doc \cup {None}] /\ schema' \in Fields \cup {None}
        /\ found' \subseteq Ids
    BY <1>1, <1>2 DEF SweepNext, store, registry, Typed
  <1>8. QED BY <1>2, <1>4, <1>5, <1>6, <1>7, QuietStep

\* A declaration is stored; the registry does not know it yet.
LEMMA DeclareKeeps ==
    ASSUME HInv, NEW t \in Clients, NEW f \in Fields, Declare(t, f)
    PROVE  HInv'
  <1> DEFINE l == [Idle EXCEPT !.do = "declare", !.field = f]
  <1>1. Typed
    BY DEF HInv
  <1>2. l \in Locals /\ l.field = f
    BY DEF Idle, Locals, Asked
  <1>3. loc' = [loc EXCEPT ![t] = l]
    BY DEF Declare
  <1> HIDE DEF l
  <1>4. "declare" \in Steps /\ Fit("declare", l)
    BY <1>2 DEF Steps, Fit, OnDocument
  <1>5. /\ docs' = docs /\ shadow' = shadow /\ unique' = unique
        /\ promised' = promised /\ restarts' = restarts
        /\ bin' \in [Ids -> Doc \cup {None}] /\ schema' \in Fields \cup {None}
        /\ found' \subseteq Ids /\ pc' = [pc EXCEPT ![t] = "declare"]
    BY <1>1 DEF Declare, store, Typed
  <1>6. QED BY <1>2, <1>3, <1>4, <1>5, QuietStep

------------------------------------------------------------------------------
(* The steps that write *)

LEMMA PlainKeeps ==
    ASSUME HInv, NEW t \in Tasks, Plain(t)
    PROVE  HInv'
  <1> DEFINE i == loc[t].id
             d == IF loc[t].do \in Drops THEN None ELSE loc[t].body
  <1>1. /\ Typed /\ Ready(t) /\ pc[t] = "plain" /\ promised = None
        /\ loc[t] \in Locals /\ i \in Ids /\ d \in Doc \cup {None}
    <2>1. Typed /\ Ready(t) /\ pc[t] = "plain" /\ promised = None
      BY DEF HInv, Knows, Plain, Kept
    <2>2. QED BY <2>1 DEF Typed, Ready, OnDocument
  <1>2. docs' = [docs EXCEPT ![i] = d] /\ Touch(t, i, Over(t))
    BY DEF Plain
  <1>3. bin' \in [Ids -> Doc \cup {None}]
    BY <1>1 DEF Plain, Binned, Typed
  <1>4. /\ pc' = [pc EXCEPT ![t] = After(t)]
        /\ shadow' = shadow /\ shadow \in [Keys -> Ids \cup {None}]
        /\ unique' = unique /\ schema' = schema /\ found' = found
        /\ restarts' = restarts /\ promised' = promised
    BY <1>1 DEF Plain, registry, Typed
  <1> HIDE DEF d
  <1>5. /\ After(t) \in {"idle", "purge", "erase"} /\ After(t) # "erase"
        /\ Over(t) \in Locals
        /\ After(t) # "idle" => Over(t).id = i
    BY <1>1, IdleType DEF After, Over
  <1>6. ShadowsAreTrue'
    BY <1>1, <1>4 DEF ShadowsAreTrue
  <1> HIDE DEF i
  <1>7. QED BY <1>1, <1>2, <1>3, <1>4, <1>5, <1>6, LoudStep

\* The one step that goes through the shadows.
LEMMA TransactKeeps ==
    ASSUME HInv, NEW t \in Tasks, Transact(t)
    PROVE  HInv'
  <1> DEFINE i == loc[t].id
             d == New(t)
             f == loc[t].field
  <1>1. /\ Typed /\ Ready(t) /\ pc[t] = "tx" /\ ShadowsAreTrue
        /\ promised # None => f = promised
        /\ loc[t] \in Locals /\ i \in Ids /\ docs[i] \in Doc \cup {None}
    <2>1. /\ Typed /\ Ready(t) /\ pc[t] = "tx" /\ ShadowsAreTrue
          /\ promised # None => f = promised
      BY DEF HInv, Knows, Transact, Kept
    <2>2. QED BY <2>1 DEF Typed, Ready, OnDocument
  <1>2. d \in Doc \cup {None}
    <2>1. CASE loc[t].do \in Drops
      BY <2>1 DEF New, Drops
    <2>2. CASE loc[t].do \in Writes /\ loc[t].body \in Doc
      <3>1. Merged(docs[i], loc[t].body) \in Doc
        BY <1>1, <2>2, MergedType
      <3>2. QED BY <2>2, <3>1 DEF New, Drops, Writes
    <2>3. QED BY <1>1, <2>1, <2>2 DEF Ready
  <1>3. /\ docs' = [docs EXCEPT ![i] = d] /\ Touch(t, i, Over(t))
        /\ ~Taken(f, i, d) /\ shadow' = Claimed(f, i, docs[i], d)
    BY DEF Transact
  <1>4. bin' \in [Ids -> Doc \cup {None}]
    BY <1>1 DEF Transact, Binned, Typed
  <1>5. /\ pc' = [pc EXCEPT ![t] = After(t)]
        /\ unique' = unique /\ schema' = schema /\ found' = found
        /\ restarts' = restarts /\ promised' = promised
    BY DEF Transact, registry
  <1> HIDE DEF d, f
  <1>6. /\ After(t) \in {"idle", "purge", "erase"} /\ After(t) # "erase"
        /\ Over(t) \in Locals
        /\ After(t) # "idle" => Over(t).id = i
    BY <1>1, IdleType DEF After, Over
  <1> HIDE DEF i
  <1>7. ShadowsAreTrue'
    BY <1>1, <1>2, <1>3, <1>5, ShadowsClaimed
  <1>8. shadow' \in [Keys -> Ids \cup {None}]
    <2>1. shadow \in [Keys -> Ids \cup {None}]
      BY <1>1 DEF Typed
    <2>2. QED BY <1>1, <1>3, <2>1 DEF Claimed
  <1>9. QED BY <1>1, <1>2, <1>3, <1>4, <1>5, <1>6, <1>7, <1>8, LoudStep

\* The tombstone goes, and whatever stands in its place by now.
LEMMA PurgeKeeps ==
    ASSUME HInv, NEW t \in Tasks, Purge(t)
    PROVE  HInv'
  <1> DEFINE i == loc[t].id
  <1>1. /\ Typed /\ ShadowsAreTrue /\ pc[t] = "purge"
        /\ loc[t] \in Locals /\ i \in Ids
    <2>1. Typed /\ Ready(t) /\ pc[t] = "purge" /\ ShadowsAreTrue
      BY DEF HInv, Knows, Purge
    <2>2. QED BY <2>1 DEF Typed, Ready, OnDocument
  <1>2. /\ docs' = [docs EXCEPT ![i] = None] /\ Touch(t, i, loc[t])
        /\ promised' = IF KeysOf(promised, docs[i]) = {} THEN promised ELSE None
        /\ pc' = [pc EXCEPT ![t] = "erase"]
        /\ unique' = unique /\ schema' = schema /\ found' = found
        /\ restarts' = restarts /\ shadow' = shadow /\ bin' = bin
    BY DEF Purge, Bypassed, registry
  <1>3. KeysOf(promised, None) = {}
    BY DEF KeysOf
  <1>4. promised' \in {promised, None}
    BY <1>2
  <1>5. ShadowsAreTrue'
    BY <1>1, <1>2, <1>3, ShadowsBypassed
  <1>6. shadow' \in [Keys -> Ids \cup {None}] /\ bin' \in [Ids -> Doc \cup {None}]
    BY <1>1, <1>2 DEF Typed
  <1> HIDE DEF i
  <1>7. loc[t].id = i
    BY DEF i
  <1>8. QED BY <1>1, <1>2, <1>4, <1>5, <1>6, <1>7, LoudStep

\* A document comes back with values its transaction had freed: the promise holds
\* only if it has none.
LEMMA RestoreKeeps ==
    ASSUME HInv, NEW t \in Tasks, Restore(t)
    PROVE  HInv'
  <1> DEFINE i == loc[t].id
             d == bin[i]
  <1>1. /\ Typed /\ ShadowsAreTrue
        /\ loc[t] \in Locals /\ i \in Ids /\ d \in Doc \cup {None}
    <2>1. Typed /\ Ready(t) /\ pc[t] = "restore" /\ ShadowsAreTrue
      BY DEF HInv, Knows, Restore
    <2>2. QED BY <2>1 DEF Typed, Ready, OnDocument
  <1>2. CASE d = None \/ docs[i] # None
    BY <1>1, <1>2, LeavingKeeps DEF Restore, store, registry, Typed
  <1>3. CASE d # None /\ docs[i] = None
    <2>1. /\ docs' = [docs EXCEPT ![i] = d] /\ Touch(t, i, Idle)
          /\ promised' = IF KeysOf(promised, d) = {} THEN promised ELSE None
          /\ pc' = [pc EXCEPT ![t] = "idle"]
          /\ bin' = [bin EXCEPT ![i] = None]
          /\ unique' = unique /\ schema' = schema /\ found' = found
          /\ restarts' = restarts /\ shadow' = shadow
      BY <1>3 DEF Restore, Bypassed, Finish, registry
    <2>2. KeysOf(promised, docs[i]) = {}
      BY <1>3 DEF KeysOf
    <2>3. promised' \in {promised, None}
      BY <2>1
    <2>4. shadow' \in [Keys -> Ids \cup {None}] /\ bin' \in [Ids -> Doc \cup {None}]
      BY <1>1, <2>1 DEF Typed
    <2> HIDE DEF d, i
    <2>5. ShadowsAreTrue'
      BY <1>1, <2>1, <2>2, ShadowsBypassed
    <2>6. QED BY <1>1, <2>1, <2>3, <2>4, <2>5, IdleType, LoudStep
  <1>4. QED BY <1>2, <1>3

LEMMA RelocateKeeps ==
    ASSUME HInv, NEW c \in Clients, NEW i \in Ids, NEW d \in Doc \cup {None},
           Relocate(c, i, d)
    PROVE  HInv'
  <1>1. Typed /\ ShadowsAreTrue /\ c \in Tasks
    BY DEF HInv
  <1>2. /\ docs' = [docs EXCEPT ![i] = d] /\ Touch(c, i, Idle)
        /\ promised' = IF KeysOf(promised, docs[i]) \cup KeysOf(promised, d) = {}
                         THEN promised ELSE None
        /\ pc[c] = "idle" /\ pc' = pc
        /\ unique' = unique /\ schema' = schema /\ found' = found
        /\ restarts' = restarts /\ shadow' = shadow /\ bin' = bin
    BY DEF Relocate, registry
  <1>3. pc' = [pc EXCEPT ![c] = "idle"]
    BY <1>1, <1>2 DEF Typed
  <1>4. \/ promised' = None
        \/ /\ promised' = promised
           /\ KeysOf(promised, docs[i]) = {} /\ KeysOf(promised, d) = {}
    <2>1. \A A, B : A \cup B = {} => A = {} /\ B = {}
      OBVIOUS
    <2>2. QED BY <1>2, <2>1, Zenon
  <1>5. ShadowsAreTrue'
    BY <1>1, <1>2, <1>4, ShadowsBypassed
  <1>6. /\ shadow' \in [Keys -> Ids \cup {None}] /\ bin' \in [Ids -> Doc \cup {None}]
        /\ promised' \in {promised, None}
    BY <1>1, <1>2 DEF Typed
  <1>7. QED BY <1>1, <1>2, <1>3, <1>5, <1>6, IdleType, LoudStep

------------------------------------------------------------------------------
(* The registry, the retention sweeper, the clock *)

\* The declaration enters the registry: what it promises, nothing contradicts.
LEMMA RegisterKeeps ==
    ASSUME HInv, NEW t \in Tasks, Register(t)
    PROVE  HInv'
  <1> DEFINE f == loc[t].field
  <1>1. Typed /\ Kept /\ ShadowsAreTrue /\ Ready(t) /\ pc[t] = "declare"
    BY DEF HInv, Knows, Register
  <1>2. f \in Fields
    BY <1>1 DEF Ready
  <1>3. /\ docs' = docs /\ shadow' = shadow /\ bin' = bin /\ schema' = schema
        /\ found' = found /\ restarts' = restarts
        /\ unique' = f
        /\ promised' = IF f = unique THEN promised
                       ELSE IF InOrder(t) THEN f ELSE None
        /\ pc' = [pc EXCEPT ![t] = "idle"] /\ loc' = [loc EXCEPT ![t] = Idle]
    BY DEF Register, Promise, Leave, Finish, store
  <1> HIDE DEF f
  <1>4. /\ pc' \in [Tasks -> Steps] /\ pc'[t] = "idle"
        /\ \A u \in Tasks \ {t} : pc'[u] = pc[u]
    BY <1>1, <1>3 DEF Typed, Steps
  <1>5. /\ loc' \in [Tasks -> Locals]
        /\ loc'[t] = Idle
        /\ \A u \in Tasks \ {t} : Knows(u)' /\ loc'[u].field = loc[u].field
    BY <1>3, <1>4, IdleType, OthersLeft
  <1>6. Typed'
    BY <1>1, <1>2, <1>3, <1>4, <1>5 DEF Typed
  <1>7. Knows(t)'
    BY <1>4 DEF Knows, Ready, Purged, Current, OnDocument
  <1>8. Kept' /\ ShadowsAreTrue'
    <2>1. CASE f = unique
      <3>1. promised' = promised /\ unique' = unique
        BY <1>3, <2>1
      <3>2. QED BY <1>1, <1>3, <1>4, <1>5, <3>1, KeptLeft, ShadowsLeft
    <2>2. CASE f # unique /\ InOrder(t)
      <3>1. promised' = f /\ unique' = f
        BY <1>3, <2>2
      <3>2. \A u \in Tasks : pc'[u] \in {"idle", "declare"}
        BY <1>4, <2>2 DEF InOrder
      <3>3. Kept'
        BY <3>1, <3>2 DEF Kept
      <3>4. ShadowsAreTrue'
        BY <1>1, <1>2, <1>3, <2>2, <3>1, ShadowsEmpty DEF InOrder
      <3>5. QED BY <3>3, <3>4
    <2>3. CASE f # unique /\ ~InOrder(t)
      BY <1>3, <2>3 DEF Kept, ShadowsAreTrue
    <2>4. QED BY <2>1, <2>2, <2>3
  <1>9. QED BY <1>5, <1>6, <1>7, <1>8 DEF HInv

LEMMA RestartKeeps ==
    ASSUME HInv, Restart
    PROVE  HInv'
  <1>1. Typed /\ Kept /\ ShadowsAreTrue
    BY DEF HInv
  <1>2. /\ docs' = docs /\ shadow' = shadow /\ bin' = bin /\ schema' = schema
        /\ unique' = schema /\ restarts' = restarts + 1 /\ found' = {}
        /\ promised' = IF schema = unique THEN promised
                       ELSE IF /\ \A i \in Ids : docs[i] = None
                               /\ \A k \in Keys : shadow[k] = None
                       THEN schema ELSE None
        /\ pc' = [t \in Tasks |-> "idle"] /\ loc' = [t \in Tasks |-> Idle]
    BY DEF Restart, store
  <1>3. \A t \in Tasks : pc'[t] = "idle"
    BY <1>2
  <1>4. Typed'
    BY <1>1, <1>2, IdleType DEF Typed, Steps
  <1>5. Kept'
    BY <1>1, <1>2, <1>3 DEF Kept
  <1>6. ShadowsAreTrue'
    <2>1. CASE promised' = promised
      BY <1>1, <1>2, <2>1, ShadowsLeft
    <2>2. CASE promised' # promised
      <3>1. promised' # None => (\A i \in Ids : docs[i] = None)
                                /\ \A k \in Keys : shadow[k] = None
        BY <1>2, <2>2
      <3>2. promised' \in Fields \cup {None}
        BY <1>4 DEF Typed
      <3>3. QED BY <1>1, <1>2, <3>1, <3>2, ShadowsEmpty
    <2>3. QED BY <2>1, <2>2
  <1>7. ASSUME NEW t \in Tasks PROVE Knows(t)'
    BY <1>3 DEF Knows, Ready, Purged, Current, OnDocument
  <1>8. QED BY <1>4, <1>5, <1>6, <1>7 DEF HInv

\* A step that changes no more than the retention records, the list of the
\* sweeper, the clock or the counters.
LEMMA AsideKeeps ==
    ASSUME HInv, docs' = docs, shadow' = shadow, registry' = registry,
           promised' = promised, pc' = pc, loc' = loc, restarts' = restarts,
           bin' \in [Ids -> Doc \cup {None}], found' \subseteq Ids
    PROVE  HInv'
  <1>1. unique' = unique /\ schema' = schema
    BY DEF registry
  <1>2. Typed'
    BY <1>1 DEF HInv, Typed
  <1>3. Kept'
    BY <1>1 DEF HInv, Kept
  <1>4. ShadowsAreTrue'
    BY ShadowsLeft DEF HInv
  <1>5. ASSUME NEW t \in Tasks PROVE Knows(t)'
    BY DEF HInv, Knows, Ready, Purged, Current, Stored
  <1>6. QED BY <1>2, <1>3, <1>4, <1>5 DEF HInv

------------------------------------------------------------------------------
(* The invariant *)

LEMMA HInvInit == Init => HInv
  <1> SUFFICES ASSUME Init PROVE HInv
    OBVIOUS
  <1>1. \A t \in Tasks : pc[t] = "idle"
    BY DEF Init
  <1>2. Typed
    BY IdleType DEF Init, Typed, Steps
  <1>3. Kept
    BY <1>1 DEF Init, Kept
  <1>4. ShadowsAreTrue
    <2>1. SUFFICES ASSUME promised # None, NEW v \in Values, NEW i \in Ids
                   PROVE  shadow[<<promised, v>>] = i <=> Holds(i, <<promised, v>>)
      BY Zenon DEF ShadowsAreTrue
    <2>2. <<promised, v>> \in Keys
      BY <1>2, <2>1 DEF Typed
    <2>3. shadow[<<promised, v>>] = None /\ docs[i] = None /\ i # None
      BY <2>2, NoneAssumption DEF Init
    <2>4. QED BY <2>3 DEF Holds
  <1>5. ASSUME NEW t \in Tasks PROVE Knows(t)
    BY <1>1 DEF Knows, Ready, Purged, Current, OnDocument
  <1>6. QED BY <1>2, <1>3, <1>4, <1>5 DEF HInv

LEMMA HInvStep == HInv /\ [Next]_vars => HInv'
  <1> SUFFICES ASSUME HInv, [Next]_vars PROVE HInv'
    OBVIOUS
  <1>1. ASSUME NEW c \in Clients, Ask(c) PROVE HInv'
    <2>1. CASE Storing(c)
      <3>1. PICK i \in Ids, do \in Writes, b \in Doc : Request(c, do, i, b)
        BY <2>1 DEF Storing
      <3>2. QED BY <3>1, RequestKeeps
    <2>2. CASE Removing(c)
      <3>1. PICK i \in Ids, do \in Drops : Request(c, do, i, None)
        BY <2>2 DEF Removing
      <3>2. do \notin Writes
        BY DEF Drops, Writes
      <3>3. QED BY <3>1, <3>2, RequestKeeps
    <2>3. CASE Restoring(c)
      <3>1. PICK i \in Ids : Request(c, "restore", i, None)
        BY <2>3 DEF Restoring
      <3>2. "restore" \notin Writes
        BY DEF Writes
      <3>3. QED BY <3>1, <3>2, RequestKeeps
    <2>4. CASE Relocating(c)
      BY <2>4, RelocateKeeps DEF Relocating
    <2>5. CASE Declaring(c)
      BY <2>5, DeclareKeeps DEF Declaring
    <2>6. CASE CountAll(c)
      BY <2>6, CountAllKeeps
    <2>7. QED BY <1>1, <2>1, <2>2, <2>3, <2>4, <2>5, <2>6 DEF Ask
  <1>2. ASSUME NEW t \in Tasks, Write(t) PROVE HInv'
    BY <1>2, PlainKeeps, TransactKeeps, TransactFailsKeeps DEF Write
  <1>3. ASSUME NEW c \in Clients, Step(c) PROVE HInv'
    BY <1>2, <1>3, ExistsKeeps, BaseKeeps, PurgeKeeps, EraseKeeps, AvailableKeeps,
       RestoreKeeps, RegisterKeeps, CountDeadKeeps DEF Step
  <1>4. CASE Sweep
    <2>1. CASE SweepList
      <3>1. found' \subseteq Ids
        BY <2>1 DEF SweepList, Listed, DeadAt
      <3>2. bin \in [Ids -> Doc \cup {None}]
        BY DEF HInv, Typed
      <3>3. QED BY <2>1, <3>1, <3>2, AsideKeeps DEF SweepList, store
    <2>2. QED BY <1>2, <1>4, <2>1, SweepNextKeeps DEF Sweep
  <1>5. ASSUME NEW i \in Ids, Retire(i) PROVE HInv'
    <2>1. bin' \in [Ids -> Doc \cup {None}] /\ found' \subseteq Ids
      BY <1>5 DEF Retire, HInv, Typed
    <2>2. QED BY <1>5, <2>1, AsideKeeps DEF Retire
  <1>6. CASE Restart
    BY <1>6, RestartKeeps
  <1>7. CASE Tick \/ UNCHANGED vars
    <2>1. bin \in [Ids -> Doc \cup {None}] /\ found \subseteq Ids
      BY DEF HInv, Typed
    <2>2. QED BY <1>7, <2>1, AsideKeeps DEF Tick, vars, store, registry
  <1>8. QED BY <1>1, <1>3, <1>4, <1>5, <1>6, <1>7 DEF Next

THEOREM HakoInvariant == Spec => []HInv
  <1>1. QED BY HInvInit, HInvStep, PTL DEF Spec

\* Whatever writers, transactions, restores, relocations, declarations and
\* restarts come between, the shadows of a promised field are the documents'
\* values, no more and no less: two documents never share one.
THEOREM ShadowsStayTrue == Spec => []ShadowsAreTrue
  <1>1. HInv => ShadowsAreTrue
    BY DEF HInv
  <1>2. QED BY <1>1, HakoInvariant, PTL

------------------------------------------------------------------------------
(* Force *)

\* The only step from erase to idle, but for a restart, is the end of force.
LEMMA OnlyErase ==
    ASSUME HInv, Next, NEW c \in Clients, pc[c] = "erase", pc'[c] = "idle",
           restarts' = restarts
    PROVE  Erase(c)
  <1>0. pc \in [Tasks -> Steps] /\ restarts \in Nat /\ c \in Tasks
    BY DEF HInv, Typed
  <1>1. ASSUME NEW u \in Tasks, NEW s, pc' = [pc EXCEPT ![u] = s], pc[u] # "erase"
        PROVE  FALSE
    <2>1. u # c
      BY <1>1
    <2>2. pc'[c] = "erase"
      BY <1>0, <1>1, <2>1
    <2>3. QED BY <2>2
  <1>2. pc' # pc
    OBVIOUS
  <1>3. ~Restart
    BY <1>0 DEF Restart
  <1>4. ~Tick /\ ~SweepList /\ ~(\E i \in Ids : Retire(i))
    BY <1>2 DEF Tick, SweepList, Retire
  <1>5. ASSUME NEW u \in Tasks PROVE ~Write(u)
    <2>1. ~Plain(u) /\ ~Transact(u)
      BY <1>1 DEF Plain, Transact
    <2>2. ~TransactFails(u)
      BY <1>1 DEF TransactFails, Leave, Finish
    <2>3. QED BY <2>1, <2>2 DEF Write
  <1>6. ~SweepNext
    BY <1>1 DEF SweepNext
  <1>7. ASSUME NEW u \in Clients PROVE ~Ask(u)
    <2>1. ~Storing(u) /\ ~Removing(u) /\ ~Restoring(u)
      <3>1. ASSUME NEW i, NEW do, NEW b PROVE ~Request(u, do, i, b)
        BY <1>1 DEF Request
      <3>2. QED BY <3>1 DEF Storing, Removing, Restoring
    <2>2. ~Relocating(u)
      BY <1>2 DEF Relocating, Relocate
    <2>3. ~Declaring(u) /\ ~CountAll(u)
      BY <1>1 DEF Declaring, Declare, CountAll
    <2>4. QED BY <2>1, <2>2, <2>3 DEF Ask
  <1>8. ASSUME NEW u \in Clients, Step(u) PROVE Erase(u)
    <2>1. ~Exists(u)
      BY <1>1 DEF Exists, Leave, Finish
    <2>2. ~Base(u) /\ ~Purge(u)
      BY <1>1 DEF Base, Purge
    <2>3. ~Available(u)
      BY <1>1 DEF Available, Leave, Finish
    <2>4. ~Restore(u)
      BY <1>1 DEF Restore, Leave, Finish
    <2>5. ~Register(u) /\ ~CountDead(u)
      BY <1>1 DEF Register, CountDead, Leave, Finish
    <2>6. QED BY <1>5, <1>8, <2>1, <2>2, <2>3, <2>4, <2>5 DEF Step
  <1>9. PICK u \in Clients : Erase(u)
    BY <1>3, <1>4, <1>5, <1>6, <1>7, <1>8 DEF Next, Sweep
  <1>10. u = c
    <2>1. pc' = [pc EXCEPT ![u] = "idle"]
      BY <1>9 DEF Erase, Leave, Finish
    <2>2. QED BY <1>0, <2>1
  <1>11. QED BY <1>9, <1>10

\* The tombstone pass leaves no document, the last pass no retention record, and
\* a shadow that names the document would say it is there.
LEMMA EraseLeavesNothing ==
    ASSUME HInv, NEW c \in Clients, Erase(c), ~loc[c].over
    PROVE  /\ docs'[loc[c].id] = None /\ bin'[loc[c].id] = None
           /\ loc[c].field # None =>
                \A v \in Values : promised # None
                   => shadow'[<<promised, v>>] # loc[c].id
  <1>1. Typed /\ ShadowsAreTrue /\ Ready(c) /\ Purged(c) /\ pc[c] = "erase"
    BY DEF HInv, Knows, Erase
  <1>2. loc[c].id \in Ids /\ docs[loc[c].id] = None
    BY <1>1 DEF Ready, Purged, OnDocument
  <1>3. docs' = docs /\ shadow' = shadow /\ bin' = [bin EXCEPT ![loc[c].id] = None]
    BY DEF Erase, EraseRecord
  <1>4. bin'[loc[c].id] = None
    BY <1>1, <1>2, <1>3 DEF Typed
  <1>5. ASSUME NEW v \in Values, promised # None
        PROVE  shadow[<<promised, v>>] # loc[c].id
    <2>1. ~Holds(loc[c].id, <<promised, v>>)
      BY <1>2 DEF Holds
    <2>2. QED BY <1>1, <1>2, <1>5, <2>1 DEF ShadowsAreTrue
  <1>6. QED BY <1>2, <1>3, <1>4, <1>5

\* "Force = no restoreable trace" for every collection and every interleaving: a
\* delete_force that nobody overtook leaves neither document nor retention
\* record, nor a shadow that names it.
THEOREM ForcedLeaveNoTrace == Spec => ForceLeavesNoTrace
  <1> DEFINE A == \A c \in Clients :
         pc[c] = "erase" /\ pc'[c] = "idle" /\ ~loc[c].over /\ restarts' = restarts =>
            /\ docs'[loc[c].id] = None /\ bin'[loc[c].id] = None
            /\ loc[c].field # None =>
                 \A v \in Values : promised # None
                    => shadow'[<<promised, v>>] # loc[c].id
  <1>1. HInv /\ [Next]_vars => [A]_vars
    BY OnlyErase, EraseLeavesNothing
  <1>2. QED BY <1>1, HakoInvariant, PTL DEF Spec, ForceLeavesNoTrace

------------------------------------------------------------------------------
(* Counting *)

\* What is left of the total when the dead are counted out are the living.
LEMMA LivingAreLeft ==
    ASSUME HInv, NEW c \in Clients, pc[c] = "count", ~loc[c].late
    PROVE  Answer(c) = Cardinality({i \in Ids : docs[i] # None
                                                /\ ~Dead(docs[i], now)})
  <1> DEFINE D == DeadAt(now)
             L == {i \in Ids : docs[i] # None /\ ~Dead(docs[i], now)}
  <1>1. loc[c].total = Cardinality(Stored)
    BY DEF HInv, Knows, Current
  <1>2. D \subseteq Stored /\ L = Stored \ D /\ Stored \subseteq Ids
    BY DEF DeadAt, Dead, Stored
  <1>3. IsFiniteSet(Stored) /\ IsFiniteSet(D) /\ IsFiniteSet(L)
    BY <1>2, IdsAssumption, FS_Subset
  <1>4. /\ Cardinality(Stored) \in Nat /\ Cardinality(D) \in Nat
        /\ Cardinality(L) \in Nat
    BY <1>3, FS_CardinalityType
  <1>5. Cardinality(L) = Cardinality(Stored) - Cardinality(D)
    <2>1. Stored \cap D = D
      BY <1>2
    <2>2. QED BY <1>2, <1>3, <2>1, FS_Difference
  <1>6. Answer(c) = Monus(Cardinality(Stored), Cardinality(D))
    BY <1>1 DEF Answer, Expired
  <1> HIDE DEF D, L
  <1>7. Answer(c) = Cardinality(L)
    BY <1>4, <1>5, <1>6 DEF Monus
  <1>8. QED BY <1>7 DEF L

\* A count that no write overtook tells how many documents a reader sees, at any
\* time and whatever is dead and unswept.
THEOREM CountsAreCurrent == Spec => CountIsCurrent
  <1> DEFINE A == \A c \in Clients :
         pc[c] = "count" /\ pc'[c] = "idle" /\ ~loc[c].late =>
            Answer(c) = Cardinality({i \in Ids : docs[i] # None
                                                 /\ ~Dead(docs[i], now)})
  <1>1. HInv /\ [Next]_vars => [A]_vars
    BY LivingAreLeft
  <1>2. QED BY <1>1, HakoInvariant, PTL DEF Spec, CountIsCurrent
=============================================================================
