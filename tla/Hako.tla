-------------------------------- MODULE Hako --------------------------------
(***************************************************************************)
(* One collection of the HakoDB driver under TtlDb: plain writes and         *)
(* serializable transactions, the shadow documents that enforce a unique     *)
(* field, soft delete, restore and force, relocation, expiry (__ttl_at),     *)
(* the TTL sweeper, counting, and the restart that reloads the registry.     *)
(*                                                                         *)
(* The engine is external: a put, a delete or a commit takes effect at one    *)
(* point; a transaction that other writes overtook may fail to commit.        *)
(***************************************************************************)
EXTENDS Naturals, FiniteSets, FiniteSetsExt

CONSTANTS Ids,          \* documents of the collection
          Fields,       \* fields that may be declared unique
          Values,       \* what they may hold
          Clients,      \* concurrent callers of the driver
          Sweeper,      \* the task of spawn_sweeper
          Cap,          \* documents one pass of the sweeper deletes at most
          MaxTime,      \* bound: the last instant
          MaxRequests,  \* bound: requests
          MaxRestarts,  \* bound: restarts of the process
          None          \* no document, no value, no field

ASSUME CapAssumption == Cap \in Nat \ {0}
ASSUME SweeperAssumption == Sweeper \notin Clients
ASSUME IdsAssumption == IsFiniteSet(Ids)

Doc == [val : [Fields -> Values \cup {None}], ttl : 0..MaxTime]
ASSUME NoneAssumption ==
    /\ None \notin Ids /\ None \notin Fields
    /\ None \notin Values /\ None \notin Doc

Keys == Fields \X Values
Tasks == Clients \cup {Sweeper}

VARIABLES now,          \* the clock
          docs,         \* [Ids -> Doc or None]
          bin,          \* [Ids -> Doc or None]: what restore would bring back
          shadow,       \* [Keys -> Ids or None]: __uniq_<collection>
          schema,       \* the field of the stored declaration, or None
          unique,       \* the field of the registry in memory, or None
          pc,           \* [Tasks -> step]
          loc,          \* [Tasks -> locals]
          found,        \* the sweeper's list of expired documents
          requests, restarts,
          promised      \* history: the field whose values are unique by right

vars == <<now, docs, bin, shadow, schema, unique, pc, loc, found, requests,
          restarts, promised>>

store == <<docs, bin, shadow>>
registry == <<schema, unique>>

------------------------------------------------------------------------------
(* Documents and keys *)

Dead(d, t) == d # None /\ d.ttl > 0 /\ d.ttl <= t
DeadAt(t) == {i \in Ids : Dead(docs[i], t)}

KeysOf(f, d) == IF f = None \/ d = None THEN {}
                ELSE {k \in {f} \X Values : d.val[f] = k[2]}

\* A shallow merge: what the body does not name stays, __ttl_at included.
Merged(old, body) ==
    IF old = None THEN body
    ELSE [val |-> [f \in Fields |-> IF body.val[f] # None THEN body.val[f]
                                    ELSE old.val[f]],
          ttl |-> IF body.ttl > 0 THEN body.ttl ELSE old.ttl]

Idle == [do |-> "none", id |-> None, body |-> None, field |-> None, total |-> 0,
         late |-> FALSE, over |-> FALSE]

\* The document under i changes by a step of t: every other task in flight is
\* late, and overtaken if it works on the same document.
Touch(t, i, l) ==
    loc' = [u \in Tasks |->
              IF u = t THEN l
              ELSE IF pc[u] = "idle" THEN loc[u]
              ELSE [loc[u] EXCEPT !.late = TRUE, !.over = @ \/ loc[u].id = i]]

Finish(t) == pc' = [pc EXCEPT ![t] = "idle"]
Leave(t) == Finish(t) /\ loc' = [loc EXCEPT ![t] = Idle]

\* A step that goes past the shadows ends the promise for a document with a value.
Bypassed(d) == promised' = IF KeysOf(promised, d) = {} THEN promised ELSE None

------------------------------------------------------------------------------
(* Requests *)

Writes == {"insert", "merge", "replace"}
Drops == {"delete", "force"}

\* insert asks whether the document is there; merge reads what it merges into;
\* with a unique field both go to a transaction, and so do replace and delete.
FirstStep(do) ==
    IF do = "insert" THEN "exists"
    ELSE IF do = "restore" THEN "available"
    ELSE IF unique # None THEN "tx"
    ELSE IF do = "merge" THEN "base"
    ELSE "plain"

Request(c, do, i, b) ==
    /\ pc[c] = "idle" /\ requests < MaxRequests
    /\ requests' = requests + 1
    /\ pc' = [pc EXCEPT ![c] = FirstStep(do)]
    /\ loc' = [loc EXCEPT ![c] = [Idle EXCEPT !.do = do, !.id = i, !.body = b,
                                              !.field = unique]]
    /\ UNCHANGED <<now, store, registry, found, restarts, promised>>

Exists(c) ==
    /\ pc[c] = "exists"
    /\ IF docs[loc[c].id] # None
         THEN Leave(c)
         ELSE /\ pc' = [pc EXCEPT ![c] = IF unique # None THEN "tx" ELSE "plain"]
              /\ loc' = [loc EXCEPT ![c].field = unique]
    /\ UNCHANGED <<now, store, registry, found, requests, restarts, promised>>

Base(c) ==
    /\ pc[c] = "base"
    /\ pc' = [pc EXCEPT ![c] = "plain"]
    /\ loc' = [loc EXCEPT ![c].body = Merged(docs[loc[c].id], @)]
    /\ UNCHANGED <<now, store, registry, found, requests, restarts, promised>>

\* What a deleted document leaves to restore.
Binned(i) == bin' = [bin EXCEPT ![i] = IF docs[i] = None THEN @ ELSE docs[i]]

\* delete_force goes on with the tombstone and the retention record; the
\* sweeper takes its next document.
After(t) == IF loc[t].do = "force" THEN "purge" ELSE "idle"
Over(t) == IF loc[t].do = "force" THEN loc[t] ELSE Idle

Plain(t) ==
    LET i == loc[t].id IN
    /\ pc[t] = "plain"
    /\ IF loc[t].do \in Drops
         THEN docs' = [docs EXCEPT ![i] = None] /\ Binned(i)
         ELSE docs' = [docs EXCEPT ![i] = loc[t].body] /\ UNCHANGED bin
    /\ pc' = [pc EXCEPT ![t] = After(t)]
    /\ Touch(t, i, Over(t))
    /\ UNCHANGED <<now, shadow, registry, found, requests, restarts, promised>>

------------------------------------------------------------------------------
(* run_transaction of one operation *)

New(t) == CASE loc[t].do \in Drops -> None
            [] loc[t].do = "merge" -> Merged(docs[loc[t].id], loc[t].body)
            [] OTHER -> loc[t].body

\* Mutant: the keys of the old document stay with it.
ClaimOnly(f, i, old, new) ==
    [k \in Keys |-> IF k \in KeysOf(f, new) THEN i ELSE shadow[k]]

\* claim: keys the document no longer has are freed, its new ones are its own.
Claimed(f, i, old, new) ==
    [k \in Keys |-> IF k \in KeysOf(f, new) THEN i
                    ELSE IF k \in KeysOf(f, old) THEN None
                    ELSE shadow[k]]

\* A key of the new document has another holder: AlreadyExists.
Taken(f, i, new) == \E k \in KeysOf(f, new) : shadow[k] \notin {None, i}

Transact(t) ==
    LET l == loc[t]
        i == l.id
        new == New(t)
    IN /\ pc[t] = "tx"
       /\ ~Taken(l.field, i, new)
       /\ docs' = [docs EXCEPT ![i] = new]
       /\ IF new = None THEN Binned(i) ELSE UNCHANGED bin
       /\ shadow' = Claimed(l.field, i, docs[i], new)
       /\ pc' = [pc EXCEPT ![t] = After(t)]
       /\ Touch(t, i, Over(t))
       /\ UNCHANGED <<now, registry, found, requests, restarts, promised>>

\* The value is taken, or the commit is in conflict with one that overtook it.
TransactFails(t) ==
    /\ pc[t] = "tx"
    /\ Taken(loc[t].field, loc[t].id, New(t)) \/ loc[t].late
    /\ Leave(t)
    /\ UNCHANGED <<now, store, registry, found, requests, restarts, promised>>

------------------------------------------------------------------------------
(* force, restore, relocation, retention *)

\* Mutant: the record of the soft pass stays.
EraseNothing(c) == UNCHANGED bin

EraseRecord(c) == bin' = [bin EXCEPT ![loc[c].id] = None]

\* delete_force of the engine: whatever is there by now goes.
Purge(c) ==
    LET i == loc[c].id IN
    /\ pc[c] = "purge"
    /\ docs' = [docs EXCEPT ![i] = None]
    /\ Bypassed(docs[i])
    /\ pc' = [pc EXCEPT ![c] = "erase"]
    /\ Touch(c, i, loc[c])
    /\ UNCHANGED <<now, bin, shadow, registry, found, requests, restarts>>

Erase(c) ==
    /\ pc[c] = "erase"
    /\ EraseRecord(c)
    /\ Leave(c)
    /\ UNCHANGED <<now, docs, shadow, registry, found, requests, restarts, promised>>

Available(c) ==
    /\ pc[c] = "available"
    /\ IF bin[loc[c].id] = None
         THEN Leave(c)                          \* 404
         ELSE pc' = [pc EXCEPT ![c] = "restore"] /\ UNCHANGED loc
    /\ UNCHANGED <<now, store, registry, found, requests, restarts, promised>>

\* The engine refuses when the document is there again (409) or the record gone.
Restore(c) ==
    LET i == loc[c].id IN
    /\ pc[c] = "restore"
    /\ IF bin[i] = None \/ docs[i] # None
         THEN Leave(c) /\ UNCHANGED <<store, promised>>
         ELSE /\ docs' = [docs EXCEPT ![i] = bin[i]]
              /\ bin' = [bin EXCEPT ![i] = None]
              /\ Bypassed(bin[i])
              /\ Finish(c) /\ Touch(c, i, Idle)
              /\ UNCHANGED shadow
    /\ UNCHANGED <<now, registry, found, requests, restarts>>

\* The engine moves documents between collections; the shadows do not follow.
Relocate(c, i, d) ==
    /\ pc[c] = "idle" /\ requests < MaxRequests
    /\ docs[i] # None \/ d # None
    /\ docs' = [docs EXCEPT ![i] = d]
    /\ promised' = IF KeysOf(promised, docs[i]) \cup KeysOf(promised, d) = {}
                     THEN promised ELSE None
    /\ requests' = requests + 1
    /\ Touch(c, i, Idle)
    /\ UNCHANGED <<now, bin, shadow, registry, pc, found, restarts>>

\* A pass of the engine's retention sweeper (sweep_now) over a due record.
Retire(i) ==
    /\ bin[i] # None
    /\ bin' = [bin EXCEPT ![i] = None]
    /\ UNCHANGED <<now, docs, shadow, registry, pc, loc, found, requests,
                   restarts, promised>>

------------------------------------------------------------------------------
(* Declaring a unique field, and the restart that reads the declaration *)

\* The declaration is made in good order: nothing is stored, no write that has
\* seen another registry is under way.
InOrder(t) ==
    /\ \A i \in Ids : docs[i] = None
    /\ \A k \in Keys : shadow[k] = None
    /\ \A u \in Tasks \ {t} : pc[u] \in {"idle", "declare"}

Promise(t, f) == promised' = IF f = unique THEN promised
                             ELSE IF InOrder(t) THEN f
                             ELSE None

\* create_index stores the declaration of one field, over any other...
Declare(c, f) ==
    /\ pc[c] = "idle" /\ requests < MaxRequests
    /\ requests' = requests + 1
    /\ schema' = f
    /\ pc' = [pc EXCEPT ![c] = "declare"]
    /\ loc' = [loc EXCEPT ![c] = [Idle EXCEPT !.do = "declare", !.field = f]]
    /\ UNCHANGED <<now, store, unique, found, restarts, promised>>

\* ...and then enters it into the registry.
Register(c) ==
    /\ pc[c] = "declare"
    /\ unique' = loc[c].field
    /\ Promise(c, loc[c].field)
    /\ Leave(c)
    /\ UNCHANGED <<now, store, schema, found, requests, restarts>>

\* from_db: load_unique_registry.
Restart ==
    /\ restarts < MaxRestarts
    /\ restarts' = restarts + 1
    /\ unique' = schema
    /\ promised' = IF schema = unique THEN promised
                   ELSE IF /\ \A i \in Ids : docs[i] = None
                           /\ \A k \in Keys : shadow[k] = None
                   THEN schema
                   ELSE None
    /\ pc' = [t \in Tasks |-> "idle"]
    /\ loc' = [t \in Tasks |-> Idle]
    /\ found' = {}
    /\ UNCHANGED <<now, store, schema, requests>>

------------------------------------------------------------------------------
(* Expiry: the clock, TtlDb::count, the sweeper *)

Tick ==
    /\ now < MaxTime
    /\ now' = now + 1
    /\ UNCHANGED <<store, registry, pc, loc, found, requests, restarts, promised>>

\* The total of the driver, less the expired documents of a second query.
CountAll(c) ==
    /\ pc[c] = "idle" /\ requests < MaxRequests
    /\ requests' = requests + 1
    /\ pc' = [pc EXCEPT ![c] = "count"]
    /\ loc' = [loc EXCEPT ![c] = [Idle EXCEPT !.do = "count",
                                  !.total = Cardinality({i \in Ids : docs[i] # None})]]
    /\ UNCHANGED <<now, store, registry, found, restarts, promised>>

\* Mutant: what expires at this very instant is not counted out.
DeadBefore(t) == {i \in Ids : docs[i] # None /\ docs[i].ttl > 0 /\ docs[i].ttl < t}

Expired(t) == DeadAt(t)

Monus(a, b) == IF a > b THEN a - b ELSE 0

Answer(c) == Monus(loc[c].total, Cardinality(Expired(now)))

CountDead(c) ==
    /\ pc[c] = "count"
    /\ Leave(c)
    /\ UNCHANGED <<now, store, registry, found, requests, restarts, promised>>

\* Mutant: the pass lists through TtlDb, which hides the dead.
ListedLive(t) == {i \in DeadAt(t) : ~Dead(docs[i], t)}

\* sweep_expired lists past the filter of TtlDb.
Listed(t) == DeadAt(t)

SweepList ==
    /\ pc[Sweeper] = "idle" /\ found = {}
    /\ Listed(now) # {}
    /\ found' \in {S \in SUBSET Listed(now) :
                     Cardinality(S) = Min({Cap, Cardinality(Listed(now))})}
    /\ UNCHANGED <<now, store, registry, pc, loc, requests, restarts, promised>>

\* delete of the driver, without looking at the document again.
SweepNext ==
    /\ pc[Sweeper] = "idle"
    /\ \E i \in found :
         /\ found' = found \ {i}
         /\ pc' = [pc EXCEPT ![Sweeper] = FirstStep("delete")]
         /\ loc' = [loc EXCEPT ![Sweeper] = [Idle EXCEPT !.do = "delete", !.id = i,
                                                         !.field = unique]]
    /\ UNCHANGED <<now, store, registry, requests, restarts, promised>>

------------------------------------------------------------------------------

\* An empty collection, with a declared field or without.
Init ==
    /\ now = 0
    /\ docs = [i \in Ids |-> None]
    /\ bin = [i \in Ids |-> None]
    /\ shadow = [k \in Keys |-> None]
    /\ schema \in Fields \cup {None}
    /\ unique = schema /\ promised = schema
    /\ pc = [t \in Tasks |-> "idle"]
    /\ loc = [t \in Tasks |-> Idle]
    /\ found = {}
    /\ requests = 0 /\ restarts = 0

Write(t) == Plain(t) \/ Transact(t) \/ TransactFails(t)

Step(c) == \/ Exists(c) \/ Base(c) \/ Write(c) \/ Purge(c) \/ Erase(c)
           \/ Available(c) \/ Restore(c) \/ Register(c)
           \/ CountDead(c)

\* The handlers PUT, POST and PATCH, DELETE with its mode, restore, relocate
\* and create index; what they check first changes no state.
Storing(c) == \E i \in Ids, do \in Writes, b \in Doc : Request(c, do, i, b)
Removing(c) == \E i \in Ids, do \in Drops : Request(c, do, i, None)
Restoring(c) == \E i \in Ids : Request(c, "restore", i, None)
Relocating(c) == \E i \in Ids, d \in Doc \cup {None} : Relocate(c, i, d)
Declaring(c) == \E f \in Fields : Declare(c, f)

Ask(c) == \/ Storing(c) \/ Removing(c) \/ Restoring(c)
          \/ Relocating(c) \/ Declaring(c) \/ CountAll(c)

Sweep == SweepList \/ SweepNext \/ Write(Sweeper)

Next == \/ \E c \in Clients : Ask(c) \/ Step(c)
        \/ Sweep
        \/ \E i \in Ids : Retire(i)
        \/ Restart
        \/ Tick

Spec == Init /\ [][Next]_vars /\ WF_vars(Sweep)

------------------------------------------------------------------------------
(* Properties *)

Holds(i, k) == docs[i] # None /\ docs[i].val[k[1]] = k[2]

\* While a field was declared over an empty collection and nothing has gone past
\* the shadows since, a document has a value of the field exactly if its shadow
\* names it: no two documents share one, and none is blocked by a dead entry.
ShadowsAreTrue ==
    promised # None =>
        \A v \in Values, i \in Ids :
            shadow[<<promised, v>>] = i <=> Holds(i, <<promised, v>>)

\* "Force = no restoreable trace": when delete_force returns and no other task
\* has worked on the document since it began, the document, its retention record
\* and every shadow of the transaction are gone.
ForceLeavesNoTrace ==
    [][\A c \in Clients :
         pc[c] = "erase" /\ pc'[c] = "idle" /\ ~loc[c].over /\ restarts' = restarts =>
            /\ docs'[loc[c].id] = None /\ bin'[loc[c].id] = None
            /\ loc[c].field # None =>
                 \A v \in Values : promised # None
                    => shadow'[<<promised, v>>] # loc[c].id]_vars

\* A count that no write overtook is the number of the documents a reader sees.
CountIsCurrent ==
    [][\A c \in Clients :
         pc[c] = "count" /\ pc'[c] = "idle" /\ ~loc[c].late =>
            Answer(c) = Cardinality({i \in Ids : docs[i] # None
                                                 /\ ~Dead(docs[i], now)})]_vars

\* An expired document does not stay: it is swept, or somebody replaces it.
DeadAreSwept ==
    \A i \in Ids : Dead(docs[i], now) ~> ~Dead(docs[i], now)
=============================================================================
