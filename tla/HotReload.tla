------------------------------ MODULE HotReload ------------------------------
(***************************************************************************)
(* Hot reload (main.rs reload) against the two caches in front of the       *)
(* configuration: the hot snapshot (HotCache) and the token cache           *)
(* (tokcache.rs).  A reload opens the new world, swaps the parts of AppState*)
(* one lock at a time, then flushes both caches; a request that misses reads*)
(* the parts one lock at a time and publishes what it read.                 *)
(*                                                                         *)
(* A part is the number of the reload that installed it, 0 at boot; a cached*)
(* authentication context is the number of the chain that resolved it.      *)
(* Time is the event that an entry's lifetime ends.                         *)
(***************************************************************************)
EXTENDS Naturals, Sequences

CONSTANTS Requests,     \* requests with a token, one at a time each
          Admins,       \* administrators: reload takes no lock against another
          Tokens,       \* bearer tokens
          MaxReloads,   \* bound: reloads in a behaviour
          None          \* no entry

ASSUME MaxReloadsAssumption == MaxReloads \in Nat
ASSUME NoneAssumption == None \notin Nat

\* What HotCache::get reads, in the order it reads it.  "dbs" stands for db
\* and dbs, "auth" for auth and local: each pair is swapped back to back.
HotParts == <<"dbs", "auth", "service">>

\* What reload swaps before it flushes the caches, in its order.
Swaps == <<"dbs", "auth">>

VARIABLES app,          \* AppState: the parts, each behind its own lock
          level,        \* the audit level, a static of audit.rs
          hot,          \* HotCache.inner: [fresh, snap]
          tokens,       \* TokenCache: per token the cached verdict
          started,      \* reloads begun: how often the config has been edited
          failed,       \* history: the reloads answered with 400
          pc,           \* per handler, the step it is at
          loc           \* per handler, its locals

vars == <<app, level, hot, tokens, started, failed, pc, loc>>

Part == {HotParts[i] : i \in 1..Len(HotParts)}
Handlers == Requests \cup Admins
Boot == [p \in Part |-> 0]
NoLocals == [token |-> None, gen |-> 0, step |-> 1, snap |-> Boot, then |-> "idle"]

Init == /\ app = Boot
        /\ level = 0
        /\ hot = [fresh |-> TRUE, snap |-> Boot]
        /\ tokens = [t \in Tokens |-> None]
        /\ started = 0
        /\ failed = {}
        /\ pc = [h \in Handlers |-> "idle"]
        /\ loc = [h \in Handlers |-> NoLocals]

-----------------------------------------------------------------------------
\* A handler moves to a step with these locals; it answers and forgets them.
Goto(h, step, locals) == /\ pc' = [pc EXCEPT ![h] = step]
                         /\ loc' = [loc EXCEPT ![h] = locals]

Answer(h) == Goto(h, "idle", NoLocals)

\* To call hot() and to go on at the step `next`; those that use the snapshot
\* find it in `snap`.
CallHot(h, next, locals) ==
    Goto(h, "hot", [locals EXCEPT !.then = next, !.step = 1])

ReturnHot(h, snap) ==
    LET used == loc[h].then \in {"resolve", "drain"} IN
    Goto(h, loc[h].then, [loc[h] EXCEPT !.snap = IF used THEN snap ELSE Boot,
                                        !.step = 1, !.then = "idle"])

\* HotCache::get.  A fresh snapshot is returned under the read guard.
HotHit(h) ==
    /\ pc[h] = "hot"
    /\ hot.fresh
    /\ ReturnHot(h, hot.snap)
    /\ UNCHANGED <<app, level, hot, tokens, started, failed>>

HotMiss(h) ==
    /\ pc[h] = "hot"
    /\ ~hot.fresh
    /\ Goto(h, "fetch", loc[h])
    /\ UNCHANGED <<app, level, hot, tokens, started, failed>>

\* The parts are read one after the other with no guard held.
FetchPart(h) ==
    LET i == loc[h].step IN
    /\ pc[h] = "fetch"
    /\ i <= Len(HotParts)
    /\ Goto(h, "fetch", [loc[h] EXCEPT !.snap[HotParts[i]] = app[HotParts[i]],
                                       !.step = i + 1])
    /\ UNCHANGED <<app, level, hot, tokens, started, failed>>

\* Mutated form of Publish: the time stamp is renewed, the snapshot is not.
PublishTimeOnly(snap) == [hot EXCEPT !.fresh = TRUE]

\* Under the write guard: publish only if still stale, else take the other's.
Publish(snap) == IF hot.fresh THEN hot ELSE [fresh |-> TRUE, snap |-> snap]

FetchEnds(h) ==
    /\ pc[h] = "fetch"
    /\ loc[h].step > Len(HotParts)
    /\ hot' = Publish(loc[h].snap)
    /\ ReturnHot(h, IF hot.fresh THEN hot.snap ELSE loc[h].snap)
    /\ UNCHANGED <<app, level, tokens, started, failed>>

GetHot(h) == HotHit(h) \/ HotMiss(h) \/ FetchPart(h) \/ FetchEnds(h)

\* SNAP_TTL is over.
SnapshotAges ==
    /\ hot.fresh
    /\ hot' = [hot EXCEPT !.fresh = FALSE]
    /\ UNCHANGED <<app, level, tokens, started, failed, pc, loc>>

-----------------------------------------------------------------------------
\* auth_mw: the service keys of a first snapshot are looked at before the
\* token is resolved.
StartRequest(r, t) ==
    /\ pc[r] = "idle"
    /\ CallHot(r, "lookup", [NoLocals EXCEPT !.token = t])
    /\ UNCHANGED <<app, level, hot, tokens, started, failed>>

\* resolve_token: a cached context (or a cached rejection) answers at once.
TokenHit(r) ==
    /\ pc[r] = "lookup"
    /\ tokens[loc[r].token] # None
    /\ Answer(r)
    /\ UNCHANGED <<app, level, hot, tokens, started, failed>>

TokenMiss(r) ==
    /\ pc[r] = "lookup"
    /\ tokens[loc[r].token] = None
    /\ CallHot(r, "resolve", loc[r])
    /\ UNCHANGED <<app, level, hot, tokens, started, failed>>

\* The chain of the snapshot has its verdict, and the verdict is cached.
Resolve(r) ==
    /\ pc[r] = "resolve"
    /\ tokens' = [tokens EXCEPT ![loc[r].token] = loc[r].snap["auth"]]
    /\ Answer(r)
    /\ UNCHANGED <<app, level, hot, started, failed>>

\* An entry reaches exp_at (MAX_TTL at most) and reads as a miss.
TokenExpires(t) ==
    /\ tokens[t] # None
    /\ tokens' = [tokens EXCEPT ![t] = None]
    /\ UNCHANGED <<app, level, hot, started, failed, pc, loc>>

-----------------------------------------------------------------------------
\* The reload handler: resolve(&s.cli) reads the configuration as it is now.
StartReload(a) ==
    /\ pc[a] = "idle"
    /\ started < MaxReloads
    /\ started' = started + 1
    /\ Goto(a, "open", [NoLocals EXCEPT !.gen = started + 1])
    /\ UNCHANGED <<app, level, hot, tokens, failed>>

Refuse400(a) == /\ failed' = failed \cup {loc[a].gen}
                /\ Answer(a)
                /\ UNCHANGED <<app, level, hot, tokens, started>>

OpenFails(a) == pc[a] = "open" /\ Refuse400(a)

\* The databases are open; hot() is asked for the identity mapping.
Opened(a) ==
    /\ pc[a] = "open"
    /\ CallHot(a, "level", loc[a])
    /\ UNCHANGED <<app, level, hot, tokens, started, failed>>

\* Mutated form of SetLevel: the databases are swapped before the chain opens.
SetLevelAndSwap(a) ==
    /\ pc[a] = "level"
    /\ level' = loc[a].gen
    /\ app' = [app EXCEPT !["dbs"] = loc[a].gen]
    /\ Goto(a, "chain", loc[a])
    /\ UNCHANGED <<hot, tokens, started, failed>>

SetLevel(a) ==
    /\ pc[a] = "level"
    /\ level' = loc[a].gen
    /\ Goto(a, "chain", loc[a])
    /\ UNCHANGED <<app, hot, tokens, started, failed>>

ChainFails(a) == pc[a] = "chain" /\ Refuse400(a)

ChainOpens(a) ==
    /\ pc[a] = "chain"
    /\ Goto(a, "swap", loc[a])
    /\ UNCHANGED <<app, level, hot, tokens, started, failed>>

Swap(a) ==
    LET i == loc[a].step IN
    /\ pc[a] = "swap"
    /\ app' = [app EXCEPT ![Swaps[i]] = loc[a].gen]
    /\ IF i < Len(Swaps) THEN Goto(a, "swap", [loc[a] EXCEPT !.step = i + 1])
                         ELSE Goto(a, "clear", loc[a])
    /\ UNCHANGED <<level, hot, tokens, started, failed>>

ClearTokens(a) ==
    /\ pc[a] = "clear"
    /\ tokens' = [t \in Tokens |-> None]
    /\ Goto(a, "invalidate", loc[a])
    /\ UNCHANGED <<app, level, hot, started, failed>>

\* Mutated form of Invalidate: it is forgotten.
InvalidateForgotten(a) ==
    /\ pc[a] = "invalidate"
    /\ CallHot(a, "drain", loc[a])
    /\ UNCHANGED <<app, level, hot, tokens, started, failed>>

Invalidate(a) ==
    /\ pc[a] = "invalidate"
    /\ hot' = [hot EXCEPT !.fresh = FALSE]
    /\ CallHot(a, "drain", loc[a])
    /\ UNCHANGED <<app, level, tokens, started, failed>>

\* The coalescer is drained into the databases of the snapshot just taken
\* (what the drain does is Coalescer's DrainTake, DrainStores, DrainLoses).
Drain(a) ==
    /\ pc[a] = "drain"
    /\ Goto(a, "service", [loc[a] EXCEPT !.snap = Boot])
    /\ UNCHANGED <<app, level, hot, tokens, started, failed>>

\* The service keys are swapped last; a snapshot is taken for
\* provisioning, and 200 is answered.
SwapService(a) ==
    /\ pc[a] = "service"
    /\ app' = [app EXCEPT !["service"] = loc[a].gen]
    /\ CallHot(a, "idle", [loc[a] EXCEPT !.gen = 0])
    /\ UNCHANGED <<level, hot, tokens, started, failed>>

-----------------------------------------------------------------------------
RequestSteps(r) == GetHot(r) \/ TokenHit(r) \/ TokenMiss(r) \/ Resolve(r)

ReloadSteps(a) == \/ GetHot(a)
                  \/ OpenFails(a) \/ Opened(a) \/ SetLevel(a)
                  \/ ChainFails(a) \/ ChainOpens(a) \/ Swap(a)
                  \/ ClearTokens(a) \/ Invalidate(a) \/ Drain(a)
                  \/ SwapService(a)

Next == \/ \E r \in Requests : \/ \E t \in Tokens : StartRequest(r, t)
                               \/ RequestSteps(r)
        \/ \E a \in Admins : StartReload(a) \/ ReloadSteps(a)
        \/ SnapshotAges
        \/ \E t \in Tokens : TokenExpires(t)

\* Handlers are tasks of a runtime that polls whatever is ready, and the
\* clock runs.  Whether requests and reloads come is up to the clients.
Fairness == /\ \A r \in Requests : WF_vars(RequestSteps(r))
            /\ \A a \in Admins : WF_vars(ReloadSteps(a))
            /\ WF_vars(SnapshotAges)
            /\ \A t \in Tokens : WF_vars(TokenExpires(t))

Spec == Init /\ [][Next]_vars /\ Fairness

-----------------------------------------------------------------------------
\* "Failure at any step = 400 and the old config is fully retained", for what
\* requests are served from: whatever else is going on, no database, chain or
\* key of a reload that was refused is in AppState, in the hot snapshot, in a
\* snapshot a handler works with, or behind a cached context.
RefusedReloadLeavesNoTrace ==
    /\ \A p \in Part : {app[p], hot.snap[p]} \cap failed = {}
    /\ \A h \in Handlers, p \in Part : loc[h].snap[p] \notin failed
    /\ \A t \in Tokens : tokens[t] \notin failed

\* Whatever the interleaving of reloads, refreshes and cached verdicts, the
\* old world dies out: from some moment on every snapshot served is AppState
\* as it is, and every cached context was resolved by the chain in place.
OldWorldDies ==
    <>[](/\ hot.fresh => hot.snap = app
         /\ \A t \in Tokens : tokens[t] \in {None, app["auth"]})
=============================================================================
