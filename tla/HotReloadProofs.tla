--------------------------- MODULE HotReloadProofs ---------------------------
(***************************************************************************)
(* A reload that is refused leaves no trace, for any number of requests,     *)
(* administrators, tokens and reloads.                                      *)
(*                                                                         *)
(* The property speaks of reloads that have failed.  What makes it inductive  *)
(* is that it holds of every reload that may still fail: the number of a     *)
(* handler before its swaps, which no other handler has, is in no part, no   *)
(* snapshot and behind no context.                                          *)
(*                                                                         *)
(* Then what a reload installs: the report of the settings, the rules of a   *)
(* policy file and the table of aliases, for every input.                    *)
(***************************************************************************)
EXTENDS HotReloadDrain, SettingInputs, PolicyInputs, AliasInputs,
        FiniteSetTheorems, WellFoundedInduction, TLAPS

\* The handler works on a reload that may still be refused.
Early(h) == \/ pc[h] \in {"open", "level", "chain"}
            \/ pc[h] \in {"hot", "fetch"} /\ loc[h].then = "level"

\* What a part may be: a reload that was begun, has not failed, and cannot.
Safe(n) == /\ n \in 0..started
           /\ n \notin failed
           /\ \A h \in Handlers : Early(h) => loc[h].gen # n

Steps == {"idle", "hot", "fetch", "lookup", "resolve", "open", "level", "chain",
          "swap", "clear", "invalidate", "drain", "service"}

\* Where hot() is called from.
Callers == {"idle", "lookup", "resolve", "level", "drain"}

Locals == [token : Tokens \cup {None}, gen : Nat, step : Nat,
           snap : [Part -> Nat], then : Callers]

Typed ==
    /\ app \in [Part -> Nat]
    /\ hot \in [fresh : BOOLEAN, snap : [Part -> Nat]]
    /\ tokens \in [Tokens -> Nat \cup {None}]
    /\ started \in Nat
    /\ failed \in SUBSET Nat
    /\ pc \in [Handlers -> Steps]
    /\ loc \in [Handlers -> Locals]

\* Every number is begun, and is one handler's.
Numbered ==
    /\ \A n \in failed : n \in 1..started
    /\ \A h \in Handlers : /\ loc[h].gen \in 0..started
                           /\ loc[h].gen \notin failed
                           /\ Early(h) => loc[h].gen # 0
    /\ \A g, h \in Handlers : g # h /\ loc[g].gen = loc[h].gen => loc[g].gen = 0

Clean ==
    /\ \A p \in Part : Safe(app[p]) /\ Safe(hot.snap[p])
    /\ \A h \in Handlers, p \in Part : Safe(loc[h].snap[p])
    /\ \A t \in Tokens : tokens[t] # None => Safe(tokens[t])

IInv == Typed /\ Numbered /\ Clean

\* There are three parts.
LEMMA Parts == /\ Part = {"dbs", "auth", "service"}
               /\ Len(HotParts) = 3 /\ \A i \in 1..3 : HotParts[i] \in Part
               /\ Len(Swaps) = 2 /\ \A i \in 1..2 : Swaps[i] \in Part
BY DEF Part, HotParts, Swaps

\* The invariant holds when the process has started.
LEMMA InitKeeps == Init => IInv
<1> SUFFICES ASSUME Init PROVE IInv
    OBVIOUS
<1> USE Parts
<1>1. Typed
  <2>1. Boot \in [Part -> Nat]
    BY DEF Boot
  <2>2. NoLocals \in Locals
    BY <2>1 DEF NoLocals, Locals, Callers
  <2>3. pc \in [Handlers -> Steps] /\ loc \in [Handlers -> Locals]
    BY <2>2 DEF Init, Steps
  <2>4. hot \in [fresh : BOOLEAN, snap : [Part -> Nat]]
    BY <2>1 DEF Init
  <2>5. app \in [Part -> Nat] /\ tokens \in [Tokens -> Nat \cup {None}]
    BY <2>1 DEF Init
  <2> QED BY <2>3, <2>4, <2>5 DEF Init, Typed
<1>2. Numbered
  BY DEF Init, Numbered, Early, Boot, NoLocals
<1>3. Clean
  BY DEF Init, Clean, Safe, Early, Boot, NoLocals
<1> QED BY <1>1, <1>2, <1>3 DEF IInv

\* A step of one handler that keeps its number, or drops it, and installs nothing
\* but what was safe: the parts stay, the handler does not become early.
LEMMA QuietStep ==
    ASSUME IInv, NEW h \in Handlers, NEW step \in Steps, NEW l \in Locals,
           Goto(h, step, l), UNCHANGED <<app, started, failed>>,
           l.gen \in {loc[h].gen, 0},
           step \in {"open", "level", "chain"} \/ (step \in {"hot", "fetch"} /\ l.then = "level")
               => Early(h) /\ l.gen = loc[h].gen,
           \A p \in Part : Safe(l.snap[p]),
           hot' \in [fresh : BOOLEAN, snap : [Part -> Nat]],
           \A p \in Part : Safe(hot'.snap[p]),
           tokens' \in [Tokens -> Nat \cup {None}],
           \A t \in Tokens : tokens'[t] # None => Safe(tokens'[t])
    PROVE  IInv'
<1> USE DEF IInv
<1>1. /\ pc' \in [Handlers -> Steps] /\ pc' = [pc EXCEPT ![h] = step]
      /\ loc' \in [Handlers -> Locals] /\ loc' = [loc EXCEPT ![h] = l]
  BY DEF Goto, Typed
<1>2. /\ pc'[h] = step /\ loc'[h] = l
      /\ \A g \in Handlers : g # h => pc'[g] = pc[g] /\ loc'[g] = loc[g]
  BY <1>1 DEF Typed
<1>3. \A g \in Handlers : Early(g)' => Early(g) /\ loc'[g].gen = loc[g].gen
  <2> SUFFICES ASSUME NEW g \in Handlers, Early(g)' PROVE Early(g) /\ loc'[g].gen = loc[g].gen
      OBVIOUS
  <2>1. CASE g = h BY <2>1, <1>2 DEF Early
  <2>2. CASE g # h BY <2>2, <1>2 DEF Early
  <2> QED BY <2>1, <2>2
<1>4. ASSUME NEW n, Safe(n) PROVE Safe(n)'
  BY <1>3, <1>4 DEF Safe
<1>5. Typed'
  BY <1>1 DEF Typed
<1>6. Numbered'
  <2>1. \A g \in Handlers : loc'[g].gen \in {loc[g].gen, 0}
    BY <1>2
  <2>2. 0 \notin failed /\ started \in Nat
    BY DEF Typed, Numbered
  <2> QED BY <1>3, <2>1, <2>2 DEF Numbered
<1>7. Clean'
  <2>1. \A p \in Part : Safe(app[p])' /\ Safe(hot.snap[p])'
    BY <1>4 DEF Clean
  <2>2. \A g \in Handlers, p \in Part : Safe(loc[g].snap[p])'
    BY <1>2, <1>4 DEF Clean
  <2>3. \A t \in Tokens : (tokens[t] # None => Safe(tokens[t]))'
    BY <1>4 DEF Clean
  <2> QED BY <2>1, <2>2, <2>3 DEF Clean
<1> QED BY <1>5, <1>6, <1>7

\* CallHot and ReturnHot are such steps.
LEMMA CallHotIsQuiet ==
    ASSUME IInv, NEW h \in Handlers, NEW next \in Callers, NEW l \in Locals,
           CallHot(h, next, l), UNCHANGED <<app, started, failed, tokens>>,
           l.gen \in {loc[h].gen, 0},
           next = "level" => Early(h) /\ l.gen = loc[h].gen,
           \A p \in Part : Safe(l.snap[p]),
           hot' \in {hot, [hot EXCEPT !.fresh = FALSE]}
    PROVE  IInv'
<1> DEFINE m == [l EXCEPT !.then = next, !.step = 1]
<1>1. m \in Locals /\ m.gen = l.gen /\ m.snap = l.snap /\ m.then = next
  BY DEF Locals
<1>2. Goto(h, "hot", m) /\ "hot" \in Steps
  BY DEF CallHot, Steps
<1>3. /\ hot' \in [fresh : BOOLEAN, snap : [Part -> Nat]] /\ hot'.snap = hot.snap
      /\ tokens' \in [Tokens -> Nat \cup {None}]
  BY DEF IInv, Typed
<1>4. /\ \A p \in Part : Safe(hot'.snap[p])
      /\ \A t \in Tokens : tokens'[t] # None => Safe(tokens'[t])
  BY <1>3 DEF IInv, Clean
<1> HIDE DEF m
<1> QED BY <1>1, <1>2, <1>3, <1>4, QuietStep

LEMMA ReturnHotIsQuiet ==
    ASSUME IInv, NEW h \in Handlers, NEW snap \in [Part -> Nat],
           pc[h] \in {"hot", "fetch"},
           ReturnHot(h, snap), UNCHANGED <<app, started, failed, tokens>>,
           \A p \in Part : Safe(snap[p]),
           hot' \in [fresh : BOOLEAN, snap : [Part -> Nat]],
           \A p \in Part : Safe(hot'.snap[p])
    PROVE  IInv'
<1> DEFINE used == loc[h].then \in {"resolve", "drain"}
           m == [loc[h] EXCEPT !.snap = IF used THEN snap ELSE Boot, !.step = 1, !.then = "idle"]
<1>1. loc[h] \in Locals /\ Boot \in [Part -> Nat]
  BY DEF IInv, Typed, Boot
<1>2. /\ m \in Locals /\ m.gen = loc[h].gen /\ m.snap \in {snap, Boot} /\ m.then = "idle"
      /\ loc[h].then \in Steps
  BY <1>1 DEF Locals, Callers, Steps
<1>3. Goto(h, loc[h].then, m)
  BY DEF ReturnHot
<1>4. \A p \in Part : Safe(Boot[p])
  BY DEF Boot, Safe, IInv, Typed, Numbered
<1>5. loc[h].then \in {"open", "level", "chain"} => Early(h)
  BY <1>1 DEF Early, Locals, Callers
<1>8. loc[h].then \notin {"hot", "fetch"}
  BY <1>1 DEF Locals, Callers
<1>6. /\ tokens' \in [Tokens -> Nat \cup {None}]
      /\ \A t \in Tokens : tokens'[t] # None => Safe(tokens'[t])
  BY DEF IInv, Typed, Clean
<1>7. \A p \in Part : Safe(m.snap[p])
  BY <1>2, <1>4
<1> HIDE DEF m
<1> QED BY <1>2, <1>3, <1>5, <1>6, <1>7, <1>8, QuietStep

\* hot() is quiet: it hands out what was read from AppState, or from the snapshot.
LEMMA GetHotKeeps == ASSUME IInv, NEW h \in Handlers, GetHot(h) PROVE IInv'
<1>1. /\ loc[h] \in Locals /\ hot \in [fresh : BOOLEAN, snap : [Part -> Nat]]
      /\ app \in [Part -> Nat]
      /\ tokens \in [Tokens -> Nat \cup {None}]
  BY DEF IInv, Typed
<1>2. /\ \A p \in Part : Safe(app[p]) /\ Safe(hot.snap[p]) /\ Safe(loc[h].snap[p])
      /\ \A t \in Tokens : tokens[t] # None => Safe(tokens[t])
  BY DEF IInv, Clean
<1>3. ASSUME HotHit(h) PROVE IInv'
  BY <1>1, <1>2, <1>3, ReturnHotIsQuiet DEF HotHit
<1>4. ASSUME HotMiss(h) PROVE IInv'
  BY <1>1, <1>2, <1>4, QuietStep DEF HotMiss, Early, Steps
<1>5. ASSUME FetchPart(h) PROVE IInv'
  <2> DEFINE i == loc[h].step
             l == [loc[h] EXCEPT !.snap[HotParts[i]] = app[HotParts[i]], !.step = i + 1]
  <2>1. i \in Nat /\ i <= 3
    BY <1>1, <1>5, Parts DEF FetchPart, Locals
  <2>2. HotParts[i] \in Part \/ i = 0
    BY <2>1, Parts
  <2>3. l.snap = [loc[h].snap EXCEPT ![HotParts[i]] = app[HotParts[i]]]
    BY <1>1 DEF Locals
  <2>4. \A p \in Part : l.snap[p] \in {loc[h].snap[p], app[p]}
    BY <1>1, <2>2, <2>3 DEF Locals
  <2>5. l \in Locals /\ l.gen = loc[h].gen /\ l.then = loc[h].then
    <3>1. l.snap \in [Part -> Nat]
      BY <1>1, <2>3, <2>4 DEF Locals
    <3>2. l = [loc[h] EXCEPT !.snap = l.snap, !.step = i + 1]
      BY <1>1, <2>3 DEF Locals
    <3>3. \A s \in [Part -> Nat], n \in Nat :
            LET m == [loc[h] EXCEPT !.snap = s, !.step = n]
            IN m \in Locals /\ m.gen = loc[h].gen /\ m.then = loc[h].then
      BY <1>1 DEF Locals
    <3>4. i + 1 \in Nat
      BY <2>1
    <3> HIDE DEF l
    <3> QED BY <3>1, <3>2, <3>3, <3>4
  <2>6. \A p \in Part : Safe(l.snap[p])
    BY <1>2, <2>4
  <2>7. /\ Goto(h, "fetch", l) /\ "fetch" \in Steps /\ pc[h] = "fetch"
        /\ UNCHANGED <<app, hot, tokens, started, failed>>
    BY <1>5 DEF FetchPart, Steps
  <2>8. l.then = "level" => Early(h)
    BY <2>5, <2>7 DEF Early
  <2> HIDE DEF l
  <2> QED BY <1>1, <1>2, <2>5, <2>6, <2>7, <2>8, QuietStep
<1>6. ASSUME FetchEnds(h) PROVE IInv'
  <2> DEFINE snap == IF hot.fresh THEN hot.snap ELSE loc[h].snap
  <2>1. /\ snap \in [Part -> Nat] /\ \A p \in Part : Safe(snap[p])
        /\ pc[h] \in {"hot", "fetch"} /\ ReturnHot(h, snap)
        /\ UNCHANGED <<app, started, failed, tokens>>
    BY <1>1, <1>2, <1>6 DEF FetchEnds, Locals
  <2>2. hot' = Publish(loc[h].snap)
    BY <1>6 DEF FetchEnds
  <2>3. /\ hot' \in [fresh : BOOLEAN, snap : [Part -> Nat]]
        /\ \A p \in Part : Safe(hot'.snap[p])
    BY <1>1, <1>2, <2>2 DEF Publish, Locals
  <2> HIDE DEF snap
  <2> QED BY <2>1, <2>3, ReturnHotIsQuiet
<1> QED BY <1>3, <1>4, <1>5, <1>6 DEF GetHot

\* A handler that starts or has answered has no number, and what it knows of AppState
\* is what was there at boot.
LEMMA NoLocalsFit ==
    ASSUME IInv
    PROVE  /\ NoLocals \in Locals /\ NoLocals.gen = 0 /\ NoLocals.then = "idle"
           /\ \A p \in Part : Safe(NoLocals.snap[p])
<1>1. Boot \in [Part -> Nat] /\ \A p \in Part : Boot[p] = 0
  BY DEF Boot
<1>2. NoLocals \in Locals /\ NoLocals.gen = 0 /\ NoLocals.then = "idle" /\ NoLocals.snap = Boot
  BY <1>1 DEF NoLocals, Locals, Callers
<1>3. Safe(0)
  BY DEF Safe, IInv, Typed, Numbered
<1> QED BY <1>1, <1>2, <1>3

\* What the quiet steps take for granted of the handler and of the caches.
LEMMA Known ==
    ASSUME IInv, NEW h \in Handlers
    PROVE  /\ loc[h] \in Locals /\ pc[h] \in Steps
           /\ hot \in [fresh : BOOLEAN, snap : [Part -> Nat]]
           /\ tokens \in [Tokens -> Nat \cup {None}]
           /\ \A p \in Part : /\ Safe(app[p]) /\ Safe(hot.snap[p])
                              /\ Safe(loc[h].snap[p])
           /\ \A t \in Tokens : tokens[t] # None => Safe(tokens[t])
BY DEF IInv, Typed, Clean

\* Answering is quiet.
LEMMA AnswerKeeps ==
    ASSUME IInv, NEW h \in Handlers, Answer(h), UNCHANGED <<app, hot, started, failed>>,
           tokens' \in [Tokens -> Nat \cup {None}],
           \A t \in Tokens : tokens'[t] # None => Safe(tokens'[t])
    PROVE  IInv'
BY Known, NoLocalsFit, QuietStep DEF Answer, Steps

\* No step of a request has a number of its own.
LEMMA RequestKeeps ==
    ASSUME IInv, NEW r \in Requests,
           \/ \E t \in Tokens : StartRequest(r, t)
           \/ TokenHit(r) \/ TokenMiss(r) \/ Resolve(r)
    PROVE  IInv'
<1> r \in Handlers
  BY DEF Handlers
<1>1. ASSUME NEW t \in Tokens, StartRequest(r, t) PROVE IInv'
  <2> DEFINE l == [NoLocals EXCEPT !.token = t]
  <2>1. l \in Locals /\ l.gen = 0 /\ l.snap = NoLocals.snap
    BY NoLocalsFit DEF Locals
  <2>2. CallHot(r, "lookup", l) /\ UNCHANGED <<app, hot, tokens, started, failed>>
    BY <1>1 DEF StartRequest
  <2> HIDE DEF l
  <2> QED BY <2>1, <2>2, NoLocalsFit, CallHotIsQuiet DEF Callers
<1>2. ASSUME TokenHit(r) PROVE IInv'
  BY <1>2, Known, AnswerKeeps DEF TokenHit
<1>3. ASSUME TokenMiss(r) PROVE IInv'
  BY <1>3, Known, CallHotIsQuiet DEF TokenMiss, Callers
<1>4. ASSUME Resolve(r) PROVE IInv'
  <2>1. "auth" \in Part /\ loc[r].snap \in [Part -> Nat]
    BY Known, Parts DEF Locals
  <2>2. /\ tokens' \in [Tokens -> Nat \cup {None}]
        /\ \A u \in Tokens : tokens'[u] \in {tokens[u], loc[r].snap["auth"]}
    BY <1>4, <2>1, Known DEF Resolve
  <2> QED BY <1>4, <2>1, <2>2, Known, AnswerKeeps DEF Resolve
<1> QED BY <1>1, <1>2, <1>3, <1>4

\* A reload begins under a number that nothing in the system has yet.
LEMMA StartReloadKeeps == ASSUME IInv, NEW a \in Admins, StartReload(a) PROVE IInv'
<1> DEFINE l == [NoLocals EXCEPT !.gen = started + 1]
<1> a \in Handlers
  BY DEF Handlers
<1>1. /\ l \in Locals /\ l.gen = started + 1 /\ l.snap = NoLocals.snap /\ started \in Nat
      /\ l.then = "idle"
  <2>1. started \in Nat /\ started + 1 \in Nat
    BY DEF IInv, Typed
  <2>2. NoLocals \in Locals /\ NoLocals.then = "idle"
    BY NoLocalsFit
  <2> QED BY <2>1, <2>2 DEF Locals
<1>2. /\ Goto(a, "open", l) /\ started' = started + 1
      /\ UNCHANGED <<app, hot, tokens, failed>>
  BY <1>1 DEF StartReload
<1> HIDE DEF l
<1>3. /\ pc' \in [Handlers -> Steps] /\ loc' \in [Handlers -> Locals]
      /\ pc'[a] = "open" /\ loc'[a] = l
      /\ \A g \in Handlers : g # a => pc'[g] = pc[g] /\ loc'[g] = loc[g]
  BY <1>1, <1>2 DEF Goto, IInv, Typed, Steps
<1>4. \A g \in Handlers \ {a} : Early(g)' <=> Early(g)
  BY <1>3 DEF Early
<1>5. ASSUME NEW n, Safe(n) PROVE Safe(n)'
  <2>1. n \in 0..started /\ n # started + 1 /\ n \in 0..(started + 1)
    BY <1>1, <1>5 DEF Safe
  <2> QED BY <1>1, <1>2, <1>3, <1>4, <1>5, <2>1 DEF Safe
<1>6. Typed'
  BY <1>1, <1>2, <1>3 DEF IInv, Typed
<1>7. Numbered'
  <2>1. \A n \in failed : n \in 1..(started + 1) /\ n # started + 1
    BY <1>1 DEF IInv, Numbered
  <2>2. \A g \in Handlers \ {a} : /\ loc[g].gen \in 0..(started + 1)
                                  /\ loc[g].gen # started + 1
                                  /\ loc[g].gen \notin failed
                                  /\ Early(g) => loc[g].gen # 0
    BY <1>1 DEF IInv, Numbered
  <2>3. \A g, h \in Handlers : g # h /\ loc'[g].gen = loc'[h].gen => loc'[g].gen = 0
    BY <1>1, <1>3, <2>2 DEF IInv, Numbered
  <2> QED BY <1>1, <1>2, <1>3, <1>4, <2>1, <2>2, <2>3 DEF Numbered
<1>8. Clean'
  <2>1. \A p \in Part : Safe(app[p])' /\ Safe(hot.snap[p])'
    BY <1>2, <1>5 DEF IInv, Clean
  <2>2. \A g \in Handlers, p \in Part : Safe(loc[g].snap[p])'
    BY <1>1, <1>3, <1>5, NoLocalsFit DEF IInv, Clean
  <2>3. \A t \in Tokens : (tokens[t] # None => Safe(tokens[t]))'
    BY <1>2, <1>5 DEF IInv, Clean
  <2> QED BY <2>1, <2>2, <2>3 DEF Clean
<1> QED BY <1>6, <1>7, <1>8 DEF IInv

\* A refused reload: its number joins the failed ones, and is nowhere.
LEMMA RefuseKeeps ==
    ASSUME IInv, NEW a \in Admins, pc[a] \in {"open", "chain"}, Refuse400(a)
    PROVE  IInv'
<1> DEFINE n == loc[a].gen
<1> a \in Handlers
  BY DEF Handlers
<1>1. Early(a)
  BY DEF Early
<1>2. /\ failed' = failed \cup {n} /\ Goto(a, "idle", NoLocals)
      /\ UNCHANGED <<app, level, hot, tokens, started>>
  BY DEF Refuse400, Answer
<1>3. /\ pc' \in [Handlers -> Steps] /\ loc' \in [Handlers -> Locals]
      /\ pc'[a] = "idle" /\ loc'[a] = NoLocals
      /\ \A g \in Handlers : g # a => pc'[g] = pc[g] /\ loc'[g] = loc[g]
  BY <1>2, NoLocalsFit DEF Goto, IInv, Typed, Steps
<1>4. \A g \in Handlers : Early(g)' => g # a /\ Early(g)
  BY <1>3 DEF Early
<1>5. ASSUME NEW m, Safe(m) PROVE Safe(m)'
  BY <1>1, <1>2, <1>3, <1>4, <1>5 DEF Safe
<1>6. n \in 1..started /\ started \in Nat
  BY <1>1 DEF IInv, Numbered, Typed
<1>7. Typed'
  <2>1. n \in Nat
    BY <1>6
  <2>2. failed' \in SUBSET Nat
    BY <1>2, <2>1 DEF IInv, Typed
  <2> HIDE DEF n
  <2> QED BY <1>2, <1>3, <2>2 DEF IInv, Typed
<1>8. Numbered'
  <2>1. \A g \in Handlers : g # a => loc[g].gen # n
    BY <1>6 DEF IInv, Numbered
  <2>2. 0 \notin failed \cup {n} /\ 0 \in 0..started
    BY <1>6 DEF IInv, Numbered
  <2>3. \A g \in Handlers : /\ loc'[g].gen \in 0..started
                            /\ loc'[g].gen \notin failed \cup {n}
                            /\ Early(g)' => loc'[g].gen # 0
    BY <1>3, <1>4, <2>1, <2>2, NoLocalsFit DEF IInv, Numbered
  <2>4. \A g, h \in Handlers : g # h /\ loc'[g].gen = loc'[h].gen => loc'[g].gen = 0
    BY <1>3, NoLocalsFit DEF IInv, Numbered
  <2> QED BY <1>2, <1>6, <2>3, <2>4 DEF IInv, Numbered
<1>9. Clean'
  <2>1. \A p \in Part : Safe(app[p])' /\ Safe(hot.snap[p])'
    BY <1>2, <1>5 DEF IInv, Clean
  <2>2. \A g \in Handlers, p \in Part : Safe(loc[g].snap[p])'
    BY <1>3, <1>5, NoLocalsFit DEF IInv, Clean
  <2>3. \A t \in Tokens : (tokens[t] # None => Safe(tokens[t]))'
    BY <1>2, <1>5 DEF IInv, Clean
  <2> QED BY <2>1, <2>2, <2>3 DEF Clean
<1> QED BY <1>7, <1>8, <1>9 DEF IInv

\* A part is swapped by a reload that cannot fail any more.
LEMMA InstallKeeps ==
    ASSUME IInv, NEW a \in Handlers, ~Early(a), NEW q \in Part,
           app' = [app EXCEPT ![q] = loc[a].gen], UNCHANGED <<hot, tokens, started, failed>>,
           NEW step \in Steps, NEW l \in Locals, Goto(a, step, l),
           ~(step \in {"open", "level", "chain"}
               \/ (step \in {"hot", "fetch"} /\ l.then = "level")),
           l.gen \in {loc[a].gen, 0}, l.snap = loc[a].snap
    PROVE  IInv'
<1>1. /\ pc' \in [Handlers -> Steps] /\ loc' \in [Handlers -> Locals]
      /\ pc'[a] = step /\ loc'[a] = l
      /\ \A g \in Handlers : g # a => pc'[g] = pc[g] /\ loc'[g] = loc[g]
  BY DEF Goto, IInv, Typed
<1>2. \A g \in Handlers : Early(g)' => g # a /\ Early(g)
  BY <1>1 DEF Early
<1>3. ASSUME NEW n, Safe(n) PROVE Safe(n)'
  BY <1>1, <1>2, <1>3 DEF Safe
<1>4. Safe(loc[a].gen)
  BY DEF Safe, IInv, Numbered
<1>5. Typed'
  <2>1. loc[a].gen \in Nat
    BY DEF IInv, Typed, Locals
  <2> QED BY <1>1, <2>1 DEF IInv, Typed
<1>6. Numbered'
  <2>1. 0 \notin failed /\ 0 \in 0..started
    BY DEF IInv, Typed, Numbered
  <2>2. \A g \in Handlers : loc'[g].gen \in {loc[g].gen, 0} /\ (Early(g)' => loc'[g] = loc[g])
    BY <1>1, <1>2
  <2> QED BY <1>2, <2>1, <2>2 DEF IInv, Numbered
<1>7. Clean'
  <2>1. \A p \in Part : app'[p] \in {app[p], loc[a].gen}
    BY DEF IInv, Typed
  <2>2. \A p \in Part : Safe(app[p])' /\ Safe(hot.snap[p])'
    BY <1>3, <1>4, <2>1 DEF IInv, Clean
  <2>3. \A g \in Handlers, p \in Part : Safe(loc[g].snap[p])'
    BY <1>1, <1>3 DEF IInv, Clean
  <2>4. \A t \in Tokens : (tokens[t] # None => Safe(tokens[t]))'
    BY <1>3 DEF IInv, Clean
  <2> QED BY <2>2, <2>3, <2>4 DEF Clean
<1> QED BY <1>5, <1>6, <1>7 DEF IInv

\* The other steps of a reload are quiet.
LEMMA ReloadKeeps ==
    ASSUME IInv, NEW a \in Admins,
           \/ OpenFails(a) \/ Opened(a) \/ SetLevel(a) \/ ChainFails(a) \/ ChainOpens(a)
           \/ Swap(a) \/ ClearTokens(a) \/ Invalidate(a) \/ Drain(a) \/ SwapService(a)
    PROVE  IInv'
<1> a \in Handlers
  BY DEF Handlers
<1>0. loc[a] \in Locals
  BY Known
<1>1. ASSUME OpenFails(a) \/ ChainFails(a) PROVE IInv'
  BY <1>1, RefuseKeeps DEF OpenFails, ChainFails
<1>2. ASSUME Opened(a) PROVE IInv'
  BY <1>2, Known, CallHotIsQuiet DEF Opened, Early, Callers
<1>3. ASSUME SetLevel(a) PROVE IInv'
  BY <1>3, Known, QuietStep DEF SetLevel, Early, Steps
<1>4. ASSUME ChainOpens(a) PROVE IInv'
  BY <1>4, Known, QuietStep DEF ChainOpens, Steps
<1>5. ASSUME Swap(a) PROVE IInv'
  <2> DEFINE i == loc[a].step
             l == [loc[a] EXCEPT !.step = i + 1]
  <2>1. /\ l \in Locals /\ l.gen = loc[a].gen /\ l.snap = loc[a].snap
        /\ i \in Nat
    BY <1>0 DEF Locals
  <2>2. ~Early(a)
    BY <1>5 DEF Swap, Early
  <2>3. Goto(a, "swap", l) \/ Goto(a, "clear", loc[a])
    BY <1>5 DEF Swap
  <2>4. /\ app' = [app EXCEPT ![Swaps[i]] = loc[a].gen]
        /\ UNCHANGED <<level, hot, tokens, started, failed>>
    BY <1>5 DEF Swap
  <2> HIDE DEF l
  <2>5. CASE Swaps[i] \in Part
    BY <1>0, <2>1, <2>2, <2>3, <2>4, <2>5, InstallKeeps DEF Steps
  <2>6. CASE Swaps[i] \notin Part
    <3>1. UNCHANGED app
      BY <2>4, <2>6 DEF IInv, Typed
    <3> QED BY <1>0, <2>1, <2>3, <2>4, <3>1, Known, QuietStep DEF Steps
  <2> QED BY <2>5, <2>6
<1>6. ASSUME ClearTokens(a) PROVE IInv'
  <2>1. tokens' \in [Tokens -> Nat \cup {None}] /\ \A t \in Tokens : tokens'[t] = None
    BY <1>6 DEF ClearTokens
  <2> QED BY <1>6, <2>1, Known, QuietStep DEF ClearTokens, Steps
<1>7. ASSUME Invalidate(a) PROVE IInv'
  BY <1>7, Known, CallHotIsQuiet DEF Invalidate, Callers
<1>8. ASSUME Drain(a) PROVE IInv'
  <2> DEFINE l == [loc[a] EXCEPT !.snap = Boot]
  <2>1. /\ Boot \in [Part -> Nat] /\ \A p \in Part : Safe(Boot[p])
    BY NoLocalsFit DEF NoLocals, Boot
  <2>2. l \in Locals /\ l.gen = loc[a].gen /\ l.snap = Boot
    BY <1>0, <2>1 DEF Locals
  <2>3. Goto(a, "service", l) /\ UNCHANGED <<app, hot, tokens, started, failed>>
    BY <1>8 DEF Drain
  <2> HIDE DEF l
  <2> QED BY <2>1, <2>2, <2>3, Known, QuietStep DEF Steps
<1>9. ASSUME SwapService(a) PROVE IInv'
  <2> DEFINE l == [[loc[a] EXCEPT !.gen = 0] EXCEPT !.then = "idle", !.step = 1]
  <2>1. /\ l \in Locals /\ l.gen = 0 /\ l.snap = loc[a].snap /\ l.then = "idle"
    BY <1>0 DEF Locals, Callers
  <2>2. /\ Goto(a, "hot", l) /\ ~Early(a) /\ "service" \in Part
        /\ app' = [app EXCEPT !["service"] = loc[a].gen]
        /\ UNCHANGED <<level, hot, tokens, started, failed>>
    BY <1>9, Parts DEF SwapService, CallHot, Early
  <2> HIDE DEF l
  <2> QED BY <2>1, <2>2, InstallKeeps DEF Steps
<1> QED BY <1>1, <1>2, <1>3, <1>4, <1>5, <1>6, <1>7, <1>8, <1>9

\* The clock takes entries away.
LEMMA TimeKeeps ==
    ASSUME IInv, SnapshotAges \/ (\E t \in Tokens : TokenExpires(t)) \/ UNCHANGED vars
    PROVE  IInv'
<1>1. /\ UNCHANGED <<app, started, failed, pc, loc>>
      /\ hot'.snap = hot.snap /\ hot' \in [fresh : BOOLEAN, snap : [Part -> Nat]]
      /\ tokens' \in [Tokens -> Nat \cup {None}]
      /\ \A t \in Tokens : tokens'[t] \in {tokens[t], None}
  BY DEF SnapshotAges, TokenExpires, vars, IInv, Typed
<1>2. \A h \in Handlers : Early(h)' <=> Early(h)
  BY <1>1 DEF Early
<1>3. ASSUME NEW n PROVE Safe(n)' <=> Safe(n)
  BY <1>1, <1>2 DEF Safe
<1>4. Typed'
  BY <1>1 DEF IInv, Typed
<1>5. Numbered'
  BY <1>1, <1>2 DEF IInv, Numbered
<1>6. Clean'
  BY <1>1, <1>3 DEF IInv, Clean
<1> QED BY <1>4, <1>5, <1>6 DEF IInv

LEMMA StepKeeps == IInv /\ [Next]_vars => IInv'
<1> SUFFICES ASSUME IInv, [Next]_vars PROVE IInv'
    OBVIOUS
<1>1. CASE \E r \in Requests : (\E t \in Tokens : StartRequest(r, t)) \/ RequestSteps(r)
  <2> PICK r \in Requests : (\E t \in Tokens : StartRequest(r, t)) \/ RequestSteps(r)
      BY <1>1
  <2>1. CASE GetHot(r)
    BY <2>1, GetHotKeeps DEF Handlers
  <2>2. CASE \/ \E t \in Tokens : StartRequest(r, t)
             \/ TokenHit(r) \/ TokenMiss(r) \/ Resolve(r)
    BY <2>2, RequestKeeps
  <2> QED BY <2>1, <2>2 DEF RequestSteps
<1>2. CASE \E a \in Admins : StartReload(a) \/ ReloadSteps(a)
  BY <1>2, StartReloadKeeps, ReloadKeeps, GetHotKeeps DEF ReloadSteps, Handlers
<1>3. CASE SnapshotAges \/ (\E t \in Tokens : TokenExpires(t)) \/ UNCHANGED vars
  BY <1>3, TimeKeeps
<1> QED BY <1>1, <1>2, <1>3 DEF Next

\* "Failure at any step = 400 and the old config is fully retained" (main.rs reload): no
\* database, chain or key of a refused reload is ever in AppState, in a snapshot or behind a
\* cached context, however many reloads and requests run beside each other.
THEOREM RefusedReloadsLeaveNoTrace == Spec => []RefusedReloadLeavesNoTrace
<1>1. Init => IInv
  BY InitKeeps
<1>2. IInv /\ [Next]_vars => IInv'
  BY StepKeeps
<1>3. IInv => RefusedReloadLeavesNoTrace
  <2>1. IInv => \A t \in Tokens : tokens[t] \notin failed
    BY NoneAssumption DEF IInv, Typed, Clean, Safe
  <2> QED BY <2>1 DEF IInv, Clean, Safe, RefusedReloadLeavesNoTrace
<1> QED BY <1>1, <1>2, <1>3, PTL DEF Spec

-----------------------------------------------------------------------------
\* A reload that is under way and was never beside another one.
Alone(a) == Busy(a) /\ a \notin overlapped

\* It has swapped the databases, and has invalidated the snapshot.
Draining(a) == pc[a] \in {"hot", "fetch"} /\ loc[a].then = "drain"
Swapped(a) == \/ pc[a] \in {"clear", "invalidate"}
              \/ pc[a] = "swap" /\ loc[a].step # 1
              \/ Draining(a)

\* Every snapshot that is served, and every one that is being read, has the
\* databases of reload n.
FreshFrom(n) == /\ hot.fresh => hot.snap["dbs"] = n
                /\ \A h \in Handlers : pc[h] = "fetch" /\ loc[h].step > 1
                                         => loc[h].snap["dbs"] = n

\* What makes DrainsIntoFreshDriver inductive: nobody swaps after this reload,
\* and who began to read AppState after it invalidated read its databases.
Drained(a) ==
    /\ \A b \in Admins \ {a} : ~Busy(b)
    /\ Swapped(a) => app["dbs"] = loc[a].gen
    /\ Draining(a) => FreshFrom(loc[a].gen)
    /\ pc[a] = "drain" => loc[a].snap["dbs"] = loc[a].gen

DInv == /\ IInv
        /\ \A h \in Handlers : pc[h] \in {"hot", "level", "chain"} => loc[h].step = 1
        /\ \A a \in Admins : Alone(a) => Drained(a)

\* A step of one handler.
Moves(h) == /\ \A g \in Handlers \ {h} : pc'[g] = pc[g] /\ loc'[g] = loc[g]
            /\ loc'[h] \in Locals

LEMMA GotoMoves ==
    ASSUME IInv, IInv', NEW h \in Handlers, NEW step, NEW l, Goto(h, step, l)
    PROVE  Moves(h) /\ pc'[h] = step /\ loc'[h] = l
  BY DEF IInv, Typed, Goto, Moves

LEMMA CallHotMoves ==
    ASSUME IInv, IInv', NEW h \in Handlers, NEW next \in Callers, NEW l \in Locals,
           CallHot(h, next, l)
    PROVE  /\ Moves(h) /\ pc'[h] = "hot"
           /\ loc'[h].step = 1 /\ loc'[h].then = next /\ loc'[h].gen = l.gen
<1> DEFINE m == [l EXCEPT !.then = next, !.step = 1]
<1>1. m.step = 1 /\ m.then = next /\ m.gen = l.gen
  BY DEF Locals
<1>2. Goto(h, "hot", m)
  BY DEF CallHot
<1> HIDE DEF m
<1> QED
  BY <1>1, <1>2, GotoMoves

\* The snapshot hot() returns: the one served, or the one that was just read.
LEMMA ReturnHotMoves ==
    ASSUME IInv, IInv', NEW h \in Handlers, NEW snap \in [Part -> Nat],
           ReturnHot(h, snap)
    PROVE  /\ Moves(h) /\ pc'[h] = loc[h].then /\ pc'[h] \in Callers
           /\ loc'[h].gen = loc[h].gen /\ loc'[h].step = 1
           /\ loc[h].then = "drain" => loc'[h].snap = snap
<1>0. loc[h] \in Locals /\ Boot \in [Part -> Nat]
  BY Known DEF Boot
<1> DEFINE s == IF loc[h].then \in {"resolve", "drain"} THEN snap ELSE Boot
           m == [loc[h] EXCEPT !.snap = s, !.step = 1, !.then = "idle"]
<1>1. m.gen = loc[h].gen /\ m.snap = s /\ m.step = 1 /\ loc[h].then \in Callers
  BY <1>0 DEF Locals
<1>2. loc[h].then = "drain" => s = snap
  OBVIOUS
<1>3. Goto(h, loc[h].then, m)
  BY DEF ReturnHot
<1> HIDE DEF m, s
<1> QED
  BY <1>1, <1>2, <1>3, GotoMoves

LEMMA FetchMoves ==
    ASSUME IInv, IInv', NEW h \in Handlers, FetchPart(h)
    PROVE  /\ Moves(h) /\ pc[h] = "fetch" /\ pc'[h] = "fetch"
           /\ loc[h].step \in Nat /\ loc'[h].step = loc[h].step + 1
           /\ loc'[h].then = loc[h].then /\ loc'[h].gen = loc[h].gen
           /\ loc[h].step = 1 => loc'[h].snap["dbs"] = app["dbs"]
           /\ loc[h].step > 1 => loc'[h].snap["dbs"] = loc[h].snap["dbs"]
<1> DEFINE i == loc[h].step
           l == [loc[h] EXCEPT !.snap[HotParts[i]] = app[HotParts[i]], !.step = i + 1]
<1>0. loc[h] \in Locals /\ app \in [Part -> Nat] /\ "dbs" \in Part
  BY Parts DEF IInv, Typed
<1>1. i \in Nat /\ i <= 3
  BY <1>0, Parts DEF FetchPart, Locals
<1>2. l.snap = [loc[h].snap EXCEPT ![HotParts[i]] = app[HotParts[i]]]
  BY <1>0 DEF Locals
<1>3. l.step = i + 1 /\ l.gen = loc[h].gen /\ l.then = loc[h].then
  BY <1>0 DEF Locals
<1>4. i = 1 => l.snap["dbs"] = app["dbs"]
  BY <1>0, <1>2 DEF Locals, HotParts
<1>5. i > 1 => l.snap["dbs"] = loc[h].snap["dbs"]
  <2>1. i > 1 => HotParts[i] # "dbs"
    BY <1>1 DEF HotParts
  <2> QED
    BY <1>0, <1>2, <2>1 DEF Locals
<1>6. Goto(h, "fetch", l) /\ pc[h] = "fetch"
  BY DEF FetchPart
<1> HIDE DEF l
<1> QED
  BY <1>1, <1>3, <1>4, <1>5, <1>6, GotoMoves

\* The steps that go through hot().
LEMMA GetHotDrains ==
    ASSUME DInv, IInv', NEW h \in Handlers, GetHot(h)
    PROVE  /\ Moves(h) /\ app' = app /\ Busy(h)
           /\ pc'[h] \notin {"hot", "chain", "swap", "clear", "invalidate"}
           /\ pc'[h] = "level" => loc'[h].step = 1
           /\ loc'[h].gen = loc[h].gen
           /\ Draining(h)' => Draining(h)
           /\ pc'[h] = "drain" => Draining(h)
           /\ \A n : FreshFrom(n) /\ app["dbs"] = n =>
                FreshFrom(n)' /\ (pc'[h] = "drain" => loc'[h].snap["dbs"] = n)
<1>0. IInv /\ loc[h] \in Locals /\ hot \in [fresh : BOOLEAN, snap : [Part -> Nat]]
      /\ app' = app /\ Busy(h) /\ h \in Handlers
  BY Known DEF DInv, GetHot, HotHit, HotMiss, FetchPart, FetchEnds, Busy
<1>1. CASE HotHit(h)
  <2>1. ReturnHot(h, hot.snap) /\ hot.fresh /\ hot' = hot /\ hot.snap \in [Part -> Nat]
        /\ pc[h] = "hot"
    BY <1>0, <1>1 DEF HotHit
  <2>2. /\ Moves(h) /\ pc'[h] = loc[h].then /\ pc'[h] \in Callers
        /\ loc'[h].gen = loc[h].gen /\ loc'[h].step = 1
        /\ loc[h].then = "drain" => loc'[h].snap = hot.snap
    BY <1>0, <2>1, ReturnHotMoves
  <2> QED
    BY <1>0, <2>1, <2>2 DEF Draining, Callers, FreshFrom, Moves
<1>2. CASE HotMiss(h)
  <2>1. /\ Moves(h) /\ pc[h] = "hot" /\ pc'[h] = "fetch" /\ loc'[h] = loc[h]
        /\ hot' = hot
    BY <1>0, <1>2, GotoMoves DEF HotMiss
  <2>2. loc[h].step = 1
    BY <2>1 DEF DInv
  <2> QED
    BY <1>0, <2>1, <2>2 DEF Draining, FreshFrom, Moves
<1>3. CASE FetchPart(h)
  <2>1. hot' = hot
    BY <1>3 DEF FetchPart
  <2> QED
    BY <1>0, <1>3, <2>1, FetchMoves DEF Draining, FreshFrom, Moves
<1>4. CASE FetchEnds(h)
  <2> DEFINE snap == IF hot.fresh THEN hot.snap ELSE loc[h].snap
  <2>1. /\ ReturnHot(h, snap) /\ pc[h] = "fetch" /\ loc[h].step > 1
        /\ snap \in [Part -> Nat] /\ loc[h].snap \in [Part -> Nat]
    BY <1>0, <1>4, Parts DEF FetchEnds, Locals
  <2>2. /\ hot'.fresh = TRUE /\ hot'.snap = snap
    BY <1>0, <1>4, <2>1 DEF FetchEnds, Publish
  <2>3. /\ Moves(h) /\ pc'[h] = loc[h].then /\ pc'[h] \in Callers
        /\ loc'[h].gen = loc[h].gen /\ loc'[h].step = 1
        /\ loc[h].then = "drain" => loc'[h].snap = snap
    BY <1>0, <2>1, ReturnHotMoves
  <2>4. \A n : FreshFrom(n) => snap["dbs"] = n
    BY <2>1 DEF FreshFrom
  <2> HIDE DEF snap
  <2> QED
    BY <1>0, <2>1, <2>2, <2>3, <2>4 DEF Draining, Callers, FreshFrom, Moves
<1> QED
  BY <1>1, <1>2, <1>3, <1>4 DEF GetHot

\* The history of a step.
Noted == overlapped' = {a \in overlapped : Busy(a)'} \cup Overlaps

LEMMA AloneStays ==
    ASSUME Noted, NEW a \in Admins, Alone(a)'
    PROVE  /\ a \notin overlapped /\ Busy(a)'
           /\ \A b \in Admins \ {a} : ~Busy(b)'
           /\ pc[a] = "invalidate" /\ pc'[a] # "invalidate"
                => \A h \in Handlers \ {a} : pc[h] # "fetch"
  BY DEF Noted, Alone, Overlaps

\* A reload while another handler takes a step.
LEMMA OtherKeeps ==
    ASSUME DInv, Noted, NEW h \in Handlers, Moves(h), NEW a \in Admins \ {h},
           Alone(a)',
           h \notin Admins \/ ~Busy(h) \/ GetHot(h)
             => /\ app' = app
                /\ \A n : FreshFrom(n) /\ app["dbs"] = n => FreshFrom(n)'
    PROVE  Drained(a)'
<1>0. a \in Handlers
  BY DEF Handlers
<1>1. pc'[a] = pc[a] /\ loc'[a] = loc[a] /\ \A b \in Admins \ {a} : ~Busy(b)'
  BY <1>0, AloneStays DEF Moves
<1>2. Drained(a)
  BY <1>1, AloneStays DEF Busy, Alone, DInv
<1>3. h \notin Admins \/ ~Busy(h)
  BY <1>2 DEF Drained
<1> QED
  BY <1>1, <1>2, <1>3 DEF Drained, Swapped, Draining

\* A handler that neither returns from hot() nor is a reload.
LEMMA RequestDrains ==
    ASSUME DInv, IInv', Noted, NEW r \in Handlers,
           \/ \E t \in Tokens : StartRequest(r, t)
           \/ TokenHit(r) \/ TokenMiss(r) \/ Resolve(r)
    PROVE  DInv'
<1>0. IInv /\ loc[r] \in Locals /\ NoLocals \in Locals
  BY Known, NoLocalsFit DEF DInv
<1>1. /\ Moves(r) /\ app' = app /\ hot' = hot
      /\ \/ pc'[r] = "idle"
         \/ pc'[r] = "hot" /\ loc'[r].step = 1 /\ loc'[r].then # "drain"
  <2>1. ASSUME NEW t \in Tokens, StartRequest(r, t)
        PROVE  /\ Moves(r) /\ app' = app /\ hot' = hot /\ pc'[r] = "hot"
               /\ loc'[r].step = 1 /\ loc'[r].then # "drain"
    <3> DEFINE l == [NoLocals EXCEPT !.token = t]
    <3>1. l \in Locals
      BY <1>0 DEF Locals
    <3>2. CallHot(r, "lookup", l) /\ app' = app /\ hot' = hot
      BY <2>1 DEF StartRequest
    <3> HIDE DEF l
    <3> QED
      BY <1>0, <3>1, <3>2, CallHotMoves DEF Callers
  <2>2. CASE TokenHit(r) \/ Resolve(r)
    BY <1>0, <2>2, GotoMoves DEF TokenHit, Resolve, Answer
  <2>3. CASE TokenMiss(r)
    BY <1>0, <2>3, CallHotMoves DEF TokenMiss, Callers
  <2> QED
    BY <2>1, <2>2, <2>3
<1>2. \A n : FreshFrom(n) => FreshFrom(n)'
  BY <1>1 DEF FreshFrom, Moves
<1>3. ASSUME NEW a \in Admins, Alone(a)' PROVE Drained(a)'
  <2>1. CASE a # r
    BY <1>1, <1>2, <1>3, <2>1, OtherKeeps
  <2>2. CASE a = r
    BY <1>1, <1>3, <2>2, AloneStays DEF Drained, Swapped, Draining
  <2> QED
    BY <2>1, <2>2
<1>4. ASSUME NEW h \in Handlers, pc'[h] \in {"hot", "level", "chain"}
      PROVE  loc'[h].step = 1
  BY <1>1, <1>4 DEF DInv, Moves
<1> QED
  BY <1>3, <1>4 DEF DInv

LEMMA HotDrains ==
    ASSUME DInv, IInv', Noted, NEW h \in Handlers, GetHot(h)
    PROVE  DInv'
<1>1. ASSUME NEW a \in Admins, Alone(a)' PROVE Drained(a)'
  <2>1. CASE a # h
    BY <1>1, <2>1, GetHotDrains, OtherKeeps
  <2>2. CASE a = h
    <3>1. Drained(a) /\ a \in Handlers
      BY <1>1, <2>2, GetHotDrains, AloneStays DEF Alone, DInv
    <3>2. Draining(a) => app["dbs"] = loc[a].gen /\ FreshFrom(loc[a].gen)
      BY <3>1 DEF Drained, Swapped
    <3>3. Swapped(a)' => Draining(a)'
      BY <2>2, GetHotDrains DEF Swapped
    <3> QED
      BY <1>1, <2>2, <3>2, <3>3, GetHotDrains, AloneStays DEF Drained
  <2> QED
    BY <2>1, <2>2
<1>2. ASSUME NEW g \in Handlers, pc'[g] \in {"hot", "level", "chain"}
      PROVE  loc'[g].step = 1
  BY <1>2, GetHotDrains DEF DInv, Moves
<1> QED
  BY <1>1, <1>2 DEF DInv

\* The reload's own steps.
LEMMA ReloadDrains ==
    ASSUME DInv, IInv', Noted, NEW a \in Admins,
           \/ StartReload(a)
           \/ OpenFails(a) \/ Opened(a) \/ SetLevel(a) \/ ChainFails(a) \/ ChainOpens(a)
           \/ Swap(a) \/ ClearTokens(a) \/ Invalidate(a) \/ Drain(a) \/ SwapService(a)
    PROVE  DInv'
<1>0. a \in Handlers /\ IInv /\ loc[a] \in Locals
  BY Known DEF Handlers, DInv
<1> DEFINE Here == /\ Moves(a)
                   /\ pc'[a] \in {"hot", "level", "chain"} => loc'[a].step = 1
                   /\ Alone(a)' => Drained(a)'
<1>1. ASSUME StartReload(a) \/ OpenFails(a) \/ ChainFails(a) PROVE Here
  <2>1. Moves(a) /\ pc'[a] \in {"open", "idle"}
    BY <1>0, <1>1, GotoMoves DEF StartReload, OpenFails, ChainFails, Refuse400, Answer
  <2> QED
    BY <2>1, AloneStays DEF Drained, Swapped, Draining
<1>2. ASSUME Opened(a) PROVE Here
  <2>1. Moves(a) /\ pc'[a] = "hot" /\ loc'[a].step = 1 /\ loc'[a].then = "level"
    BY <1>0, <1>2, CallHotMoves DEF Opened, Callers
  <2> QED
    BY <2>1, AloneStays DEF Drained, Swapped, Draining
<1>3. ASSUME SetLevel(a) \/ ChainOpens(a) PROVE Here
  <2>1. /\ Moves(a) /\ pc[a] \in {"level", "chain"} /\ pc'[a] \in {"chain", "swap"}
        /\ loc'[a] = loc[a]
    BY <1>0, <1>3, GotoMoves DEF SetLevel, ChainOpens
  <2>2. loc'[a].step = 1
    BY <1>0, <2>1 DEF DInv
  <2> QED
    BY <2>1, <2>2, AloneStays DEF Drained, Swapped, Draining
<1>4. ASSUME Swap(a) PROVE Here
  <2> DEFINE i == loc[a].step
             l == [loc[a] EXCEPT !.step = i + 1]
  <2>1. l.gen = loc[a].gen
    BY <1>0 DEF Locals
  <2>2. /\ app' = [app EXCEPT ![Swaps[i]] = loc[a].gen] /\ pc[a] = "swap"
        /\ Goto(a, "swap", l) \/ Goto(a, "clear", loc[a])
    BY <1>4 DEF Swap
  <2> HIDE DEF l
  <2>3. Moves(a) /\ pc'[a] \in {"swap", "clear"} /\ loc'[a].gen = loc[a].gen
    BY <1>0, <2>1, <2>2, GotoMoves
  <2>4. ASSUME Alone(a)' PROVE app'["dbs"] = loc[a].gen
    <3>1. i # 1 => app["dbs"] = loc[a].gen
      BY <2>2, <2>4, AloneStays DEF Busy, Alone, DInv, Drained, Swapped
    <3>2. "dbs" \in DOMAIN app /\ app \in [Part -> Nat]
      BY <1>0, Parts DEF IInv, Typed
    <3>3. i = 1 => Swaps[i] = "dbs"
      BY DEF Swaps
    <3> QED
      BY <2>2, <3>1, <3>2, <3>3
  <2> QED
    BY <2>3, <2>4, AloneStays DEF Drained, Swapped, Draining
<1>5. ASSUME ClearTokens(a) PROVE Here
  <2>1. /\ Moves(a) /\ pc[a] = "clear" /\ pc'[a] = "invalidate" /\ loc'[a] = loc[a]
        /\ app' = app
    BY <1>0, <1>5, GotoMoves DEF ClearTokens
  <2>2. Alone(a)' => app["dbs"] = loc[a].gen
    BY <2>1, AloneStays DEF Busy, Alone, DInv, Drained, Swapped
  <2> QED
    BY <2>1, <2>2, AloneStays DEF Drained, Swapped, Draining
<1>6. ASSUME Invalidate(a) PROVE Here
  <2>1. /\ Moves(a) /\ pc[a] = "invalidate" /\ pc'[a] = "hot"
        /\ loc'[a].gen = loc[a].gen /\ loc'[a].step = 1
        /\ app' = app
    BY <1>0, <1>6, CallHotMoves DEF Invalidate, Callers
  <2>2. hot'.fresh = FALSE
    BY <1>0, <1>6 DEF Invalidate, IInv, Typed
  <2>3. ASSUME Alone(a)'
        PROVE  app["dbs"] = loc[a].gen /\ FreshFrom(loc[a].gen)'
    <3>1. app["dbs"] = loc[a].gen
      BY <2>1, <2>3, AloneStays DEF Busy, Alone, DInv, Drained, Swapped
    <3>2. \A h \in Handlers : pc'[h] # "fetch"
      BY <2>1, <2>3, AloneStays DEF Moves
    <3> QED
      BY <2>2, <3>1, <3>2 DEF FreshFrom
  <2> QED
    BY <2>1, <2>3, AloneStays DEF Drained, Swapped, Draining
<1>7. ASSUME Drain(a) PROVE Here
  <2>1. Moves(a) /\ pc'[a] = "service"
    BY <1>0, <1>7, GotoMoves DEF Drain
  <2> QED
    BY <2>1, AloneStays DEF Drained, Swapped, Draining
<1>8. ASSUME SwapService(a) PROVE Here
  <2> DEFINE l == [loc[a] EXCEPT !.gen = 0]
  <2>1. l \in Locals
    BY <1>0 DEF Locals
  <2>2. CallHot(a, "idle", l)
    BY <1>8 DEF SwapService
  <2> HIDE DEF l
  <2>3. Moves(a) /\ pc'[a] = "hot" /\ loc'[a].step = 1 /\ loc'[a].then = "idle"
    BY <1>0, <2>1, <2>2, CallHotMoves DEF Callers
  <2> QED
    BY <2>3, AloneStays DEF Drained, Swapped, Draining
<1>9. Here
  BY <1>1, <1>2, <1>3, <1>4, <1>5, <1>6, <1>7, <1>8
<1>10. ASSUME NEW b \in Admins \ {a}, Alone(b)' PROVE Drained(b)'
  <2>1. b \in Handlers /\ pc'[b] = pc[b] /\ ~Busy(a)' /\ Alone(b)
    BY <1>9, <1>10, AloneStays DEF Handlers, Moves, Alone, Busy
  <2>2. ~Busy(a)
    BY <2>1 DEF DInv, Drained
  <2>3. StartReload(a) /\ pc'[a] = "open"
    BY <1>0, <2>2, GotoMoves DEF Busy, StartReload, OpenFails, Opened, SetLevel, ChainFails,
       ChainOpens, Swap, ClearTokens, Invalidate, Drain, SwapService
  <2> QED
    BY <2>1, <2>3 DEF Busy
<1>11. ASSUME NEW h \in Handlers, pc'[h] \in {"hot", "level", "chain"}
      PROVE  loc'[h].step = 1
  BY <1>9, <1>11 DEF DInv, Moves
<1> QED
  BY <1>9, <1>10, <1>11 DEF DInv

\* Time passes, or nothing does.
LEMMA TimeDrains ==
    ASSUME DInv, IInv', overlapped' = overlapped \/ Noted,
           SnapshotAges \/ (\E t \in Tokens : TokenExpires(t)) \/ UNCHANGED vars
    PROVE  DInv'
<1>1. /\ app' = app /\ pc' = pc /\ loc' = loc /\ hot'.snap = hot.snap
      /\ hot'.fresh => hot.fresh
  BY DEF SnapshotAges, TokenExpires, vars, DInv, IInv, Typed
<1>2. \A a \in Admins : Alone(a)' => Alone(a)
  BY <1>1, AloneStays DEF Alone, Busy
<1>3. \A n : FreshFrom(n) => FreshFrom(n)'
  BY <1>1 DEF FreshFrom
<1>4. \A a \in Admins : Drained(a) => Drained(a)'
  BY <1>1, <1>3 DEF Drained, Busy, Swapped, Draining
<1> QED
  BY <1>1, <1>2, <1>4 DEF DInv

\* "Drain coalesced PATCHes into the fresh driver before serving it" (main.rs reload): a
\* reload that no other one and no refresh under way met drains into the
\* databases it has opened, for any number of requests, administrators and
\* reloads before and after it.
THEOREM ReloadsDrainIntoFreshDriver == DSpec => []DrainsIntoFreshDriver
<1>1. DInit => DInv
  BY InitKeeps DEF DInit, DInv, Init, Alone, Busy, Handlers
<1>2. DInv /\ [DNext]_dvars => DInv'
  <2> SUFFICES ASSUME DInv, [DNext]_dvars PROVE DInv'
    OBVIOUS
  <2>1. IInv'
    BY StepKeeps DEF DNext, dvars, DInv
  <2>2. CASE UNCHANGED dvars
    BY <2>1, <2>2, TimeDrains DEF dvars
  <2>3. CASE DNext
    <3>1. Noted /\ Next
      BY <2>3 DEF DNext, Noted
    <3>2. ASSUME NEW r \in Requests,
                 (\E t \in Tokens : StartRequest(r, t)) \/ RequestSteps(r)
          PROVE  DInv'
      BY <2>1, <3>1, <3>2, RequestDrains, HotDrains DEF RequestSteps, Handlers
    <3>3. ASSUME NEW a \in Admins, StartReload(a) \/ ReloadSteps(a)
          PROVE  DInv'
      BY <2>1, <3>1, <3>3, ReloadDrains, HotDrains DEF ReloadSteps, Handlers
    <3> QED
      BY <2>1, <3>1, <3>2, <3>3, TimeDrains DEF Next
  <2> QED
    BY <2>2, <2>3
<1>3. DInv => DrainsIntoFreshDriver
  BY DEF DInv, Drained, Alone, Busy, DrainsIntoFreshDriver
<1> QED
  BY <1>1, <1>2, <1>3, PTL DEF DSpec
-----------------------------------------------------------------------------
(* What the reloads of a life report (Settings), however many there are: the  *)
(* process after each of them is truthful, which the next one keeps.         *)

Outcomes == {"ok", "chain", "databases"}
Process == {"running", "last_config", "cfg", "applied", "restart", "ok"}

\* A process that was started with the flags and the file: what a reload cannot touch is
\* as it was at boot, and a report names the keys of these that the file has otherwise.
Truthful(p, flags, first) ==
    LET boot == S!Resolve(flags, first) IN
    /\ DOMAIN p = Process /\ DOMAIN p.running = S!Keys
    /\ \A k \in S!Keys \ S!RELOADABLE :
         /\ p.last_config[k] = boot[k]
         /\ k # "public_url" => p.running[k] = boot[k]
    /\ \E file : p.cfg = S!Resolve(flags, file)
    /\ p.ok => /\ \A k \in S!RELOADABLE : p.running[k] = p.cfg[k]
               /\ p.restart = {k \in S!Keys \ S!RELOADABLE : boot[k] # p.cfg[k]}

LEMMA KeysFacts ==
    /\ S!RELOADABLE \subseteq S!Keys
    /\ "public_url" \in S!Keys \ S!RELOADABLE
    /\ "audit_level" \in S!RELOADABLE
    /\ "port" \in S!Keys
  BY DEF S!Keys, S!RELOADABLE, S!Override, S!Switch, S!Appended, S!Inline, S!Optional

LEMMA ResolvedKeys ==
    ASSUME NEW flags, NEW file
    PROVE  DOMAIN S!Resolve(flags, file) = S!Keys
  BY DEF S!Resolve

LEMMA BootIsTruthful ==
    ASSUME NEW flags, NEW first
    PROVE  Truthful(S!Boot(flags, first), flags, first)
<1> DEFINE cfg == S!Resolve(flags, first)
           p == S!Boot(flags, first)
<1>1. /\ DOMAIN p = Process /\ p.running = cfg /\ p.last_config = cfg /\ p.cfg = cfg
      /\ p.restart = {}
  BY DEF S!Boot, Process
<1>2. DOMAIN cfg = S!Keys
  BY ResolvedKeys
<1>3. \E file : p.cfg = S!Resolve(flags, file)
  BY <1>1
<1> HIDE DEF p
<1> QED BY <1>1, <1>2, <1>3 DEF Truthful, p

LEMMA ReloadIsTruthful ==
    ASSUME NEW flags, NEW first, NEW p, Truthful(p, flags, first),
           NEW file, NEW outcome \in Outcomes
    PROVE  Truthful(S!Reload(p, flags, file, outcome), flags, first)
<1> DEFINE cfg == S!Resolve(flags, file)
           boot == S!Resolve(flags, first)
           url == [p.running EXCEPT !["public_url"] = S!Bridged(p.running, cfg)]
           q == S!Reload(p, flags, file, outcome)
           audited == [url EXCEPT !["audit_level"] = cfg["audit_level"]]
<1>1. /\ DOMAIN p = Process /\ DOMAIN p.running = S!Keys
      /\ \A k \in S!Keys \ S!RELOADABLE :
           /\ p.last_config[k] = boot[k]
           /\ k # "public_url" => p.running[k] = boot[k]
  BY DEF Truthful
<1>2. /\ DOMAIN url = S!Keys
      /\ \A k \in S!Keys : k # "public_url" => url[k] = p.running[k]
      /\ DOMAIN audited = S!Keys
      /\ \A k \in S!Keys \ S!RELOADABLE : k # "public_url" => audited[k] = p.running[k]
  BY <1>1, KeysFacts
<1> HIDE DEF audited, url
<1>3. CASE outcome = "databases"
  <2>1. q = [p EXCEPT !.running = url, !.cfg = cfg, !.ok = FALSE]
    BY <1>3 DEF S!Reload, url
  <2>2. /\ DOMAIN q = Process /\ q.running = url /\ q.cfg = cfg /\ q.ok = FALSE
        /\ q.last_config = p.last_config
    BY <2>1, <1>1 DEF Process
  <2>3. \E f : q.cfg = S!Resolve(flags, f)
    BY <2>2
  <2> HIDE DEF q, cfg
  <2> QED BY <1>1, <1>2, <2>2, <2>3 DEF Truthful, q
<1>4. CASE outcome = "chain"
  <2>1. q = [p EXCEPT !.running = audited, !.cfg = cfg, !.ok = FALSE]
    BY <1>4 DEF S!Reload, url, audited
  <2>2. /\ DOMAIN q = Process /\ q.running = audited /\ q.cfg = cfg /\ q.ok = FALSE
        /\ q.last_config = p.last_config
    BY <2>1, <1>1 DEF Process
  <2>3. \E f : q.cfg = S!Resolve(flags, f)
    BY <2>2
  <2> HIDE DEF q, cfg
  <2> QED BY <1>1, <1>2, <2>2, <2>3 DEF Truthful, q
<1>5. CASE outcome = "ok"
  <2> DEFINE force == [k \in S!Keys |-> IF k \in S!RELOADABLE THEN cfg[k] ELSE url[k]]
             snapshot == S!AppliedSnapshot(p.last_config, cfg)
             restart == S!RequiresRestart(p.last_config, cfg)
  <2>1. q = [running |-> force, last_config |-> snapshot, cfg |-> cfg,
             applied |-> S!Applied(p.last_config, cfg), restart |-> restart, ok |-> TRUE]
    BY <1>5 DEF S!Reload, url
  <2>2. /\ DOMAIN q = Process /\ q.running = force /\ q.cfg = cfg
        /\ q.last_config = snapshot /\ q.restart = restart
    BY <2>1 DEF Process
  <2>3. \E f : q.cfg = S!Resolve(flags, f)
    BY <2>2
  <2>4. /\ DOMAIN force = S!Keys
        /\ \A k \in S!RELOADABLE : force[k] = cfg[k]
        /\ \A k \in S!Keys \ S!RELOADABLE : k # "public_url" => force[k] = boot[k]
    BY <1>1, <1>2, KeysFacts
  <2>5. \A k \in S!Keys \ S!RELOADABLE : snapshot[k] = boot[k]
    BY <1>1 DEF S!AppliedSnapshot
  <2>6. restart = {k \in S!Keys \ S!RELOADABLE : boot[k] # cfg[k]}
    BY <1>1 DEF S!RequiresRestart, S!Diff
  <2> HIDE DEF q, cfg, force, snapshot, restart
  <2> QED BY <2>2, <2>3, <2>4, <2>5, <2>6 DEF Truthful, q
<1> QED BY <1>3, <1>4, <1>5 DEF Outcomes

\* A flag, where there is one, is the value whatever the file says.
LEMMA FlagsComeFirst ==
    ASSUME NEW flags, NEW file, flags["port"] # Absent
    PROVE  S!Resolve(flags, file)["port"] = flags["port"]
<1> DEFINE vs == <<flags["port"], file.keys["port"], file.legacy["port"], S!Default("port")>>
           given == {i \in DOMAIN vs : vs[i] # Absent}
<1>1. S!Resolve(flags, file)["port"] = S!First(vs)
  <2> DEFINE R(k) ==
        CASE k \in S!Override -> S!First(<<flags[k], file.keys[k], file.legacy[k], S!Default(k)>>)
          [] k \in S!Optional -> S!First(<<flags[k], file.keys[k]>>)
          [] k \in S!Switch -> S!Given(flags, k) \/ S!Given(file.keys, k)
          [] k \in S!Appended -> S!Given(file.keys, k) \o S!Given(flags, k)
          [] k \in S!Inline -> S!Given(file.keys, k) \o S!Given(file.fragment, k)
  <2>1. "port" \in S!Override /\ "port" \notin S!Optional \cup S!Switch \cup S!Appended \cup S!Inline
    BY DEF S!Override, S!Optional, S!Switch, S!Appended, S!Inline
  <2>2. R("port") = S!First(vs)
    BY <2>1
  <2>3. S!Resolve(flags, file) = [k \in S!Keys |-> R(k)]
    BY Zenon DEF S!Resolve
  <2> HIDE DEF R
  <2> QED BY <2>2, <2>3, KeysFacts
<1>2. DOMAIN vs = 1..4 /\ vs[1] = flags["port"]
  OBVIOUS
<1> HIDE DEF vs
<1>3. 1 \in given /\ \A i \in given : i \in Int /\ 1 <= i
  BY <1>2
<1> HIDE DEF given
<1>4. S!Min(given) = 1
  BY <1>3 DEF S!Min
<1>5. S!First(vs) = IF given = {} THEN Absent ELSE vs[S!Min(given)]
  BY Zenon DEF S!First, given
<1> QED BY <1>1, <1>2, <1>3, <1>4, <1>5

\* A property of the numbers from 0 to k that each hands to the next.
LEMMA Counting ==
    ASSUME NEW k \in Nat, NEW W, 0 \in W,
           \A n \in 1..k : n - 1 \in W => n \in W
    PROVE  \A n \in 0..k : n \in W
<1> DEFINE R == {p \in Nat \X Nat : p[1] < p[2]}
           T == (0..k) \ W
<1>1. R = OpToRel(<, Nat)
  BY DEF OpToRel
<1>2. IsWellFoundedOn(R, Nat)
  BY <1>1, NatLessThanWellFounded
<1>3. T \subseteq Nat
  OBVIOUS
<1>4. CASE T # {}
  <2> HIDE DEF R, T
  <2>1. PICK n \in T : \A m \in T : <<m, n>> \notin R
    BY <1>2, <1>3, <1>4, WFMin
  <2>2. n \in 1..k /\ n \notin W
    BY <2>1 DEF T
  <2>3. n - 1 \notin T
    <3>1. n - 1 \in Nat /\ n \in Nat /\ n - 1 < n
      BY <2>2
    <3>2. <<n - 1, n>> \in R
      BY <3>1 DEF R
    <3> QED BY <2>1, <3>2
  <2> QED BY <2>2, <2>3 DEF T
<1> QED BY <1>4

\* The recursion of After is well defined.
LEMMA LifeDef ==
    ASSUME NEW flags, NEW first, NEW reloads, Len(reloads) \in Nat
    PROVE  LET A == S!After(flags, first, reloads) IN
           /\ A[0] = S!Boot(flags, first)
           /\ \A n \in 1..Len(reloads) :
                A[n] = S!Reload(A[n - 1], flags, reloads[n].file, reloads[n].outcome)
<1> DEFINE Onward(p, n) == S!Reload(p, flags, reloads[n].file, reloads[n].outcome)
           Eq(g, n) == IF n = 0 THEN S!Boot(flags, first) ELSE Onward(g[n - 1], n)
           W == {m \in Nat : \E g : g = [n \in 0..m |-> Eq(g, n)]}
<1> HIDE DEF Onward
<1>1. 0 \in W
  <2> DEFINE z == [n \in 0..0 |-> S!Boot(flags, first)]
  <2>1. z = [n \in 0..0 |-> Eq(z, n)]
    OBVIOUS
  <2> QED BY <2>1
<1>2. ASSUME NEW m \in 1..Len(reloads), m - 1 \in W PROVE m \in W
  <2>1. PICK g : g = [n \in 0..m - 1 |-> Eq(g, n)]
    BY <1>2
  <2> DEFINE last == Onward(g[m - 1], m)
             h == [n \in 0..m |-> IF n = m THEN last ELSE g[n]]
  <2>2. ASSUME NEW n \in 0..m PROVE h[n] = Eq(h, n)
    <3> HIDE DEF last
    <3>1. CASE n = m
      <4>1. h[n] = last /\ h[n - 1] = g[m - 1] /\ n # 0
        BY <3>1
      <4> QED BY <4>1, <3>1 DEF last
    <3>2. CASE n # m
      <4>1. n \in 0..m - 1 /\ h[n] = g[n]
        BY <3>2
      <4>2. g[n] = Eq(g, n)
        BY <4>1, <2>1
      <4>3. CASE n = 0
        BY <4>1, <4>2, <4>3
      <4>4. CASE n # 0
        <5>1. h[n - 1] = g[n - 1]
          BY <4>1, <4>4
        <5> QED BY <4>1, <4>2, <4>4, <5>1
      <4> QED BY <4>3, <4>4
    <3> QED BY <3>1, <3>2
  <2>3. h = [n \in 0..m |-> h[n]]
    OBVIOUS
  <2> HIDE DEF h, Eq
  <2>4. h = [n \in 0..m |-> Eq(h, n)]
    BY <2>2, <2>3
  <2> QED BY <2>4
<1>3. \E g : g = [n \in 0..Len(reloads) |-> Eq(g, n)]
  <2> HIDE DEF W
  <2>1. \A n \in 0..Len(reloads) : n \in W
    BY <1>1, <1>2, Counting
  <2>2. Len(reloads) \in W
    BY <2>1
  <2> QED BY <2>2 DEF W
<1> DEFINE A == S!After(flags, first, reloads)
<1>4. A = [n \in 0..Len(reloads) |-> Eq(A, n)]
  BY <1>3 DEF S!After, Onward
<1> HIDE DEF A
<1>5. A[0] = S!Boot(flags, first)
  BY <1>4
<1>6. ASSUME NEW n \in 1..Len(reloads) PROVE A[n] = Onward(A[n - 1], n)
  BY <1>4
<1> QED BY <1>5, <1>6 DEF A, Onward

\* Whatever is edited, in however many reloads, each of which succeeds or fails.
LEMMA LifeIsTruthful ==
    ASSUME NEW flags, NEW first, NEW File, NEW reloads \in Seq([file : File, outcome : Outcomes])
    PROVE  Truthful(S!Life(flags, first, reloads), flags, first)
<1> DEFINE A == S!After(flags, first, reloads)
           W == {n \in Nat : Truthful(A[n], flags, first)}
<1>1. Len(reloads) \in Nat /\ \A n \in 1..Len(reloads) : reloads[n].outcome \in Outcomes
  <2> DEFINE Item == [file : File, outcome : Outcomes]
  <2>1. reloads \in Seq(Item)
    OBVIOUS
  <2> HIDE DEF Item, A, W
  <2>2. ASSUME NEW n \in 1..Len(reloads) PROVE reloads[n] \in Item
    BY <2>1
  <2> QED BY <2>1, <2>2 DEF Item
<1>2. A[0] = S!Boot(flags, first)
  BY <1>1, LifeDef
<1>3. \A n \in 1..Len(reloads) :
        A[n] = S!Reload(A[n - 1], flags, reloads[n].file, reloads[n].outcome)
  BY <1>1, LifeDef
<1> HIDE DEF A
<1>4. 0 \in W
  BY <1>2, BootIsTruthful
<1>5. ASSUME NEW n \in 1..Len(reloads), n - 1 \in W PROVE n \in W
  <2>1. Truthful(A[n - 1], flags, first) /\ reloads[n].outcome \in Outcomes
    BY <1>1, <1>5
  <2>2. Truthful(S!Reload(A[n - 1], flags, reloads[n].file, reloads[n].outcome), flags, first)
    BY <2>1, ReloadIsTruthful
  <2> QED BY <1>3, <2>2
<1> HIDE DEF W
<1>6. \A n \in 0..Len(reloads) : n \in W
  BY <1>1, <1>4, <1>5, Counting
<1>7. Len(reloads) \in W
  BY <1>1, <1>6
<1> QED BY <1>7 DEF W, A, S!Life

\* A life of any length, of any flags and any files: the last report, where the reload was
\* carried out, names exactly the keys whose value in force is not the file's, the public
\* URL apart, and a flag is in force whatever the file says (config.rs, resolve and
\* reload_diff).
THEOREM ReportsTellTheTruth ==
    ASSUME NEW flags, NEW first, NEW File, NEW reloads \in Seq([file : File, outcome : Outcomes]),
           input = <<"life", flags, first, reloads>>
    PROVE  ReportTellsTheTruth
<1> DEFINE p == S!Life(flags, first, reloads)
           boot == S!Resolve(flags, first)
<1>1. Truthful(p, flags, first)
  BY LifeIsTruthful
<1> HIDE DEF p, boot
<1>2. /\ DOMAIN p.running = S!Keys
      /\ \A k \in S!Keys \ S!RELOADABLE : k # "public_url" => p.running[k] = boot[k]
      /\ \E file : p.cfg = S!Resolve(flags, file)
      /\ p.ok => /\ \A k \in S!RELOADABLE : p.running[k] = p.cfg[k]
                 /\ p.restart = {k \in S!Keys \ S!RELOADABLE : boot[k] # p.cfg[k]}
  BY <1>1 DEF Truthful, boot
<1>3. ASSUME p.ok
      PROVE  p.restart \ {"public_url"} = {k \in S!Keys : p.running[k] # p.cfg[k]} \ {"public_url"}
  BY <1>2, <1>3
<1>4. flags["port"] # Absent => p.cfg["port"] = flags["port"]
  BY <1>2, FlagsComeFirst
<1>5. input[1] = "life" /\ input[2] = flags /\ input[3] = first /\ input[4] = reloads
  OBVIOUS
<1> QED BY <1>3, <1>4, <1>5 DEF ReportTellsTheTruth, S!ReportTellsTheTruth, p

-----------------------------------------------------------------------------
(* Which rules govern a collection (Policies), whatever the patterns: the     *)
(* best of those that cover it is the first of a total order, so that the     *)
(* order of the visit does not matter.                                      *)

Pattern == Seq(Int)
Covering(ps, c) == {q \in ps : P!Stars(q) > 0 /\ P!Covers(q, c)}
Precedes(p, q) == \/ P!Stars(p) < P!Stars(q)
                  \/ P!Stars(p) = P!Stars(q) /\ P!LexBefore(p, q)
Foremost(x, Q) == x \in Q /\ \A q \in Q : q = x \/ Precedes(x, q)

\* Cardinality is the same operator wherever it is instantiated.
LEMMA SameCardinality == \A X : P!Cardinality(X) = Cardinality(X)
  BY DEF P!Cardinality, Cardinality

LEMMA StarsFacts ==
    ASSUME NEW p \in Pattern
    PROVE  /\ P!Stars(p) \in Nat
           /\ \A c \in Pattern : P!Covers(p, c) => P!Stars(c) <= P!Stars(p)
<1> DEFINE At(s) == {i \in DOMAIN s : s[i] = P!Star}
<1>1. ASSUME NEW s \in Pattern PROVE IsFiniteSet(At(s)) /\ P!Stars(s) = Cardinality(At(s))
  <2>1. IsFiniteSet(1..Len(s)) /\ At(s) \in SUBSET (1..Len(s))
    <3>1. Len(s) \in Nat /\ DOMAIN s = 1..Len(s)
      BY DEF Pattern
    <3> QED BY <3>1, FS_Interval
  <2>2. IsFiniteSet(At(s))
    BY <2>1, FS_Subset
  <2> QED BY <2>2, SameCardinality DEF P!Stars
<1>2. P!Stars(p) \in Nat
  BY <1>1, FS_CardinalityType
<1>3. ASSUME NEW c \in Pattern, P!Covers(p, c) PROVE P!Stars(c) <= P!Stars(p)
  <2>1. At(c) \in SUBSET At(p)
    BY <1>3 DEF P!Covers, Pattern
  <2> HIDE DEF At
  <2> QED BY <1>1, <2>1, FS_Subset
<1> QED BY <1>2, <1>3

LEMMA LexOrder ==
    ASSUME NEW p \in Pattern, NEW q \in Pattern, NEW r \in Pattern,
           Len(p) = Len(q), Len(q) = Len(r)
    PROVE  /\ P!LexBefore(p, q) /\ P!LexBefore(q, r) => P!LexBefore(p, r)
           /\ ~(P!LexBefore(p, q) /\ P!LexBefore(q, p))
           /\ p = q \/ P!LexBefore(p, q) \/ P!LexBefore(q, p)
<1>1. /\ Len(p) \in Nat
      /\ DOMAIN p = 1..Len(p) /\ DOMAIN q = 1..Len(p) /\ DOMAIN r = 1..Len(p)
      /\ \A i \in 1..Len(p) : p[i] \in Int /\ q[i] \in Int /\ r[i] \in Int
  BY DEF Pattern
<1>2. ASSUME P!LexBefore(p, q), P!LexBefore(q, r) PROVE P!LexBefore(p, r)
  <2>1. PICK i \in 1..Len(p) : p[i] < q[i] /\ \A k \in 1..(i - 1) : p[k] = q[k]
    BY <1>1, <1>2 DEF P!LexBefore
  <2>2. PICK j \in 1..Len(p) : q[j] < r[j] /\ \A k \in 1..(j - 1) : q[k] = r[k]
    BY <1>1, <1>2 DEF P!LexBefore
  <2>3. CASE i <= j
    <3>1. p[i] < r[i] /\ \A k \in 1..(i - 1) : p[k] = r[k]
      BY <1>1, <2>1, <2>2, <2>3
    <3> QED BY <3>1, <1>1 DEF P!LexBefore
  <2>4. CASE j < i
    <3>1. p[j] < r[j] /\ \A k \in 1..(j - 1) : p[k] = r[k]
      BY <1>1, <2>1, <2>2, <2>4
    <3> QED BY <3>1, <1>1 DEF P!LexBefore
  <2> QED BY <1>1, <2>3, <2>4
<1>3. ASSUME P!LexBefore(p, q), P!LexBefore(q, p) PROVE FALSE
  <2>1. PICK i \in 1..Len(p) : p[i] < q[i] /\ \A k \in 1..(i - 1) : p[k] = q[k]
    BY <1>1, <1>3 DEF P!LexBefore
  <2>2. PICK j \in 1..Len(p) : q[j] < p[j] /\ \A k \in 1..(j - 1) : q[k] = p[k]
    BY <1>1, <1>3 DEF P!LexBefore
  <2>3. CASE i = j
    BY <1>1, <2>1, <2>2, <2>3
  <2>4. CASE i < j
    BY <1>1, <2>1, <2>2, <2>4
  <2>5. CASE j < i
    BY <1>1, <2>1, <2>2, <2>5
  <2> QED BY <2>3, <2>4, <2>5
<1>4. ASSUME ~P!LexBefore(p, q), ~P!LexBefore(q, p) PROVE p = q
  <2> DEFINE W == {n \in Nat : \A k \in 1..n : k \in 1..Len(p) => p[k] = q[k]}
  <2>1. 0 \in W
    OBVIOUS
  <2>2. ASSUME NEW n \in 1..Len(p), n - 1 \in W PROVE n \in W
    <3>1. \A k \in 1..(n - 1) : p[k] = q[k] /\ q[k] = p[k]
      BY <2>2, <1>1
    <3>2. ~(p[n] < q[n]) /\ ~(q[n] < p[n])
      BY <3>1, <1>1, <1>4 DEF P!LexBefore
    <3>3. p[n] = q[n]
      BY <3>2, <1>1
    <3> QED BY <3>1, <3>3
  <2> HIDE DEF W
  <2>3. Len(p) \in W
    <3>1. \A n \in 0..Len(p) : n \in W
      BY <1>1, <2>1, <2>2, Counting
    <3> QED BY <3>1, <1>1
  <2>4. \A k \in 1..Len(p) : p[k] = q[k]
    BY <2>3, <1>1 DEF W
  <2> QED BY <2>4, <1>1 DEF Pattern
<1> QED BY <1>2, <1>3, <1>4

\* Among patterns of one length.
LEMMA PrecedesOrders ==
    ASSUME NEW p \in Pattern, NEW q \in Pattern, NEW r \in Pattern,
           Len(p) = Len(q), Len(q) = Len(r)
    PROVE  /\ Precedes(p, q) /\ Precedes(q, r) => Precedes(p, r)
           /\ ~(Precedes(p, q) /\ Precedes(q, p))
           /\ p = q \/ Precedes(p, q) \/ Precedes(q, p)
<1>1. P!Stars(p) \in Nat /\ P!Stars(q) \in Nat /\ P!Stars(r) \in Nat
  BY StarsFacts
<1> QED BY <1>1, LexOrder DEF Precedes

\* The recursion of Best is well defined.
LEMMA BestDef ==
    ASSUME NEW order, NEW c, Len(order) \in Nat
    PROVE  LET B == P!Best(order, c) IN
           /\ B[0] = Absent
           /\ \A n \in 1..Len(order) :
                B[n] = IF /\ P!Stars(order[n]) > 0 /\ P!Covers(order[n], c)
                          /\ P!Better(order[n], B[n - 1])
                         THEN order[n] ELSE B[n - 1]
<1> DEFINE Visit(b, n) == IF P!Stars(order[n]) > 0 /\ P!Covers(order[n], c) /\ P!Better(order[n], b)
                            THEN order[n] ELSE b
           Eq(g, n) == IF n = 0 THEN Absent ELSE Visit(g[n - 1], n)
           W == {m \in Nat : \E g : g = [n \in 0..m |-> Eq(g, n)]}
<1> HIDE DEF Visit
<1>1. 0 \in W
  <2> DEFINE z == [n \in 0..0 |-> Absent]
  <2>1. z = [n \in 0..0 |-> Eq(z, n)]
    OBVIOUS
  <2> QED BY <2>1
<1>2. ASSUME NEW m \in 1..Len(order), m - 1 \in W PROVE m \in W
  <2>1. PICK g : g = [n \in 0..m - 1 |-> Eq(g, n)]
    BY <1>2
  <2> DEFINE last == Visit(g[m - 1], m)
             h == [n \in 0..m |-> IF n = m THEN last ELSE g[n]]
  <2>2. ASSUME NEW n \in 0..m PROVE h[n] = Eq(h, n)
    <3> HIDE DEF last
    <3>1. CASE n = m
      <4>1. h[n] = last /\ h[n - 1] = g[m - 1] /\ n # 0
        BY <3>1
      <4> QED BY <4>1, <3>1 DEF last
    <3>2. CASE n # m
      <4>1. n \in 0..m - 1 /\ h[n] = g[n]
        BY <3>2
      <4>2. g[n] = Eq(g, n)
        BY <4>1, <2>1
      <4>3. CASE n = 0
        BY <4>1, <4>2, <4>3
      <4>4. CASE n # 0
        <5>1. h[n - 1] = g[n - 1]
          BY <4>1, <4>4
        <5> QED BY <4>1, <4>2, <4>4, <5>1
      <4> QED BY <4>3, <4>4
    <3> QED BY <3>1, <3>2
  <2>3. h = [n \in 0..m |-> h[n]]
    OBVIOUS
  <2> HIDE DEF h, Eq
  <2>4. h = [n \in 0..m |-> Eq(h, n)]
    BY <2>2, <2>3
  <2> QED BY <2>4
<1>3. \E g : g = [n \in 0..Len(order) |-> Eq(g, n)]
  <2> HIDE DEF W
  <2>1. \A n \in 0..Len(order) : n \in W
    BY <1>1, <1>2, Counting
  <2>2. Len(order) \in W
    BY <2>1
  <2> QED BY <2>2 DEF W
<1> DEFINE B == P!Best(order, c)
<1>4. B = [n \in 0..Len(order) |-> Eq(B, n)]
  BY <1>3 DEF P!Best, Visit
<1> HIDE DEF B
<1>5. B[0] = Absent
  BY <1>4
<1>6. ASSUME NEW n \in 1..Len(order) PROVE B[n] = Visit(B[n - 1], n)
  BY <1>4
<1> QED BY <1>5, <1>6 DEF B, Visit

\* The best of the patterns visited is the first of those that cover the collection.
LEMMA BestIsForemost ==
    ASSUME NEW ps \in SUBSET Pattern, NEW order \in Seq(ps), NEW c \in Pattern,
           Absent \notin Pattern,
           NEW Q, Q = Covering({order[i] : i \in 1..Len(order)}, c)
    PROVE  LET b == P!Best(order, c)[Len(order)]
           IN  IF Q = {} THEN b = Absent ELSE Foremost(b, Q)
<1> DEFINE B == P!Best(order, c)
           Seen(n) == Covering({order[i] : i \in 1..n}, c)
           Right(n) == IF Seen(n) = {} THEN B[n] = Absent ELSE Foremost(B[n], Seen(n))
           W == {n \in Nat : Right(n)}
<1>1. Len(order) \in Nat /\ \A n \in 1..Len(order) : order[n] \in Pattern
  OBVIOUS
<1>2. /\ B[0] = Absent
      /\ \A n \in 1..Len(order) :
           B[n] = IF P!Stars(order[n]) > 0 /\ P!Covers(order[n], c) /\ P!Better(order[n], B[n - 1])
                    THEN order[n] ELSE B[n - 1]
  BY <1>1, BestDef
<1>3. \A n \in 0..Len(order) : \A q \in Seen(n) : q \in Pattern /\ Len(q) = Len(c)
  BY <1>1 DEF Covering, P!Covers
<1> HIDE DEF B
<1>4. 0 \in W
  BY <1>2 DEF Covering
<1>5. ASSUME NEW n \in 1..Len(order), n - 1 \in W PROVE n \in W
  <2>5. /\ order[n] \in Pattern /\ n - 1 \in 0..Len(order) /\ n \in 0..Len(order)
        /\ n \in Nat
    BY <1>1
  <2>6. IF Seen(n - 1) = {} THEN B[n - 1] = Absent ELSE Foremost(B[n - 1], Seen(n - 1))
    BY <1>5
  <2> SUFFICES Right(n)
    BY <2>5
  <2> DEFINE p == order[n]
             b == B[n - 1]
             old == Seen(n - 1)
             new == Seen(n)
  <2>1. /\ p \in Pattern /\ n - 1 \in 0..Len(order) /\ n \in 0..Len(order)
        /\ IF old = {} THEN b = Absent ELSE Foremost(b, old)
    BY <2>5, <2>6
  <2>2. {order[i] : i \in 1..n} = {order[i] : i \in 1..n - 1} \cup {p}
    <3>1. 1..n = (1..n - 1) \cup {n}
      OBVIOUS
    <3> QED BY <3>1
  <2>3. CASE ~(P!Stars(p) > 0 /\ P!Covers(p, c))
    <3>1. new = old
      BY <2>2, <2>3 DEF Covering
    <3>2. B[n] = b
      BY <1>2, <2>3
    <3> HIDE DEF old, b
    <3> QED BY <2>1, <3>1, <3>2
  <2>4. CASE P!Stars(p) > 0 /\ P!Covers(p, c)
    <3>1. new = old \cup {p} /\ Len(p) = Len(c)
      BY <2>2, <2>4 DEF Covering, P!Covers
    <3>2. B[n] = IF P!Better(p, b) THEN p ELSE b
      BY <1>2, <2>4
    <3>3. \A q \in old : q \in Pattern /\ Len(q) = Len(c)
      BY <1>3, <2>1
    <3> HIDE DEF old, new, p
    <3>4. CASE old = {}
      <4>1. b = Absent
        BY <2>1, <3>4
      <4>2. P!Better(p, b)
        BY <4>1 DEF P!Better
      <4>3. B[n] = p /\ new = {p}
        BY <3>1, <3>2, <3>4, <4>2
      <4> QED BY <4>3 DEF Foremost, new
    <3>5. CASE old # {}
      <4>1. Foremost(b, old)
        BY <2>1, <3>5
      <4>2. b \in old /\ b \in Pattern /\ Len(b) = Len(p) /\ b # Absent
        BY <4>1, <3>1, <3>3 DEF Foremost
      <4>3. P!Better(p, b) <=> Precedes(p, b)
        BY <4>2 DEF P!Better, Precedes
      <4> HIDE DEF b
      <4>4. CASE P!Better(p, b)
        <5>1. Precedes(p, b)
          BY <4>3, <4>4
        <5>2. ASSUME NEW q \in old PROVE Precedes(p, q)
          <6>1. q = b \/ Precedes(b, q)
            BY <4>1 DEF Foremost
          <6>2. q \in Pattern /\ Len(q) = Len(b)
            BY <3>3, <3>1, <4>2
          <6> QED BY <2>1, <4>2, <5>1, <6>1, <6>2, PrecedesOrders
        <5>3. Foremost(p, new)
          BY <3>1, <5>2 DEF Foremost
        <5> QED BY <3>2, <4>4, <5>3 DEF new, Foremost
      <4>5. CASE ~P!Better(p, b)
        <5>1. p = b \/ Precedes(b, p)
          BY <2>1, <4>2, <4>3, <4>5, PrecedesOrders
        <5>2. Foremost(b, new)
          BY <3>1, <4>1, <5>1 DEF Foremost
        <5> QED BY <3>2, <4>5, <5>2 DEF new, Foremost
      <4> QED BY <4>4, <4>5
    <3> QED BY <3>4, <3>5
  <2> QED BY <2>3, <2>4
<1> HIDE DEF W
<1>6. \A n \in 0..Len(order) : n \in W
  BY <1>1, <1>4, <1>5, Counting
<1>7. Len(order) \in W
  BY <1>1, <1>6
<1> QED BY <1>7 DEF W, B

\* What governs a collection: itself, the first of the patterns that cover it, or its root.
Governs(f, ps, c) ==
    IF c \in ps THEN f = c
    ELSE IF Covering(ps, c) # {} THEN Foremost(f, Covering(ps, c))
    ELSE IF Len(c) > 1 /\ <<Head(c)>> \in ps THEN f = <<Head(c)>>
    ELSE f = Absent

LEMMA OneGoverns ==
    ASSUME NEW ps \in SUBSET Pattern, NEW c \in Pattern, NEW f, NEW g,
           Governs(f, ps, c), Governs(g, ps, c)
    PROVE  f = g
<1>1. CASE c \notin ps /\ Covering(ps, c) # {}
  <2>1. Foremost(f, Covering(ps, c)) /\ Foremost(g, Covering(ps, c))
    BY <1>1 DEF Governs
  <2>2. f \in Covering(ps, c) /\ g \in Covering(ps, c)
    BY <2>1 DEF Foremost
  <2>3. f \in Pattern /\ g \in Pattern /\ Len(f) = Len(g)
    BY <2>2 DEF Covering, P!Covers
  <2>4. f = g \/ (Precedes(f, g) /\ Precedes(g, f))
    BY <2>1, <2>2 DEF Foremost
  <2> QED BY <2>3, <2>4, PrecedesOrders
<1> QED BY <1>1 DEF Governs

LEMMA FindGoverns ==
    ASSUME NEW ps \in SUBSET Pattern, IsFiniteSet(ps), NEW order \in P!SetToSeqs(ps),
           NEW c \in Pattern, Absent \notin Pattern
    PROVE  Governs(P!Find(ps, order, c), ps, c)
<1> DEFINE m == Cardinality(ps)
           Q == Covering(ps, c)
<1>1. m \in Nat
  BY FS_CardinalityType
<1>2. order \in [1..m -> ps] /\ \A i, j \in 1..m : i # j => order[i] # order[j]
  BY SameCardinality DEF P!SetToSeqs
<1>3. order \in Surjection(1..m, ps)
  <2>1. IsFiniteSet(1..m) /\ Cardinality(1..m) = m
    BY <1>1, FS_Interval
  <2>2. order \in Injection(1..m, ps)
    BY <1>2 DEF Injection, IsInjective
  <2> HIDE DEF m
  <2>3. Cardinality(1..m) = Cardinality(ps)
    BY <2>1 DEF m
  <2> QED BY <2>2, <2>3, FS_Injection
<1> HIDE DEF m
<1>4. order \in Seq(ps) /\ Len(order) = m
  BY <1>1, <1>2
<1>5. ps = {order[i] : i \in 1..Len(order)}
  BY <1>2, <1>3, <1>4 DEF Surjection
<1>6. Q = Covering({order[i] : i \in 1..Len(order)}, c)
  BY <1>5, Zenon
<1> DEFINE b == P!Best(order, c)[Len(order)]
<1>7. IF Q = {} THEN b = Absent ELSE Foremost(b, Q)
  BY <1>4, <1>6, BestIsForemost
<1>8. Q # {} => b # Absent
  BY <1>7 DEF Foremost, Covering
<1>9. P!Find(ps, order, c) =
        IF c \in ps THEN c
        ELSE IF b # Absent THEN b
        ELSE IF Len(c) > 1 /\ <<Head(c)>> \in ps THEN <<Head(c)>>
        ELSE Absent
  BY Zenon DEF P!Find
<1> HIDE DEF b
<1> QED BY <1>7, <1>8, <1>9 DEF Governs

\* Every finite set of patterns is visited in some order.
LEMMA OrdersExist ==
    ASSUME NEW ps, IsFiniteSet(ps)
    PROVE  P!SetToSeqs(ps) # {}
<1>1. PICK order : order \in Bijection(1..Cardinality(ps), ps)
  BY FS_CardinalityType DEF ExistsBijection
<1>2. /\ order \in [1..Cardinality(ps) -> ps]
      /\ \A i, j \in 1..Cardinality(ps) : i # j => order[i] # order[j]
  BY <1>1 DEF Bijection, Injection, IsInjective
<1> QED BY <1>2, SameCardinality DEF P!SetToSeqs

\* The rule that governs is one, whatever order the HashMap is visited in.
LEMMA FoundIsOne ==
    ASSUME NEW ps \in SUBSET Pattern, IsFiniteSet(ps), NEW c \in Pattern, Absent \notin Pattern
    PROVE  \E f : /\ Governs(f, ps, c)
                  /\ {P!Find(ps, order, c) : order \in P!SetToSeqs(ps)} = {f}
<1>1. PICK o : o \in P!SetToSeqs(ps)
  BY OrdersExist
<1> DEFINE f == P!Find(ps, o, c)
<1>2. \A order \in P!SetToSeqs(ps) : Governs(P!Find(ps, order, c), ps, c)
  BY FindGoverns
<1>3. \A order \in P!SetToSeqs(ps) : P!Find(ps, order, c) = f
  BY <1>1, <1>2, OneGoverns
<1>4. {P!Find(ps, order, c) : order \in P!SetToSeqs(ps)} = {f}
  BY <1>1, <1>3
<1> QED BY <1>1, <1>2, <1>4

\* What a rule that is added can change.
LEMMA AddedRule ==
    ASSUME NEW ps \in SUBSET Pattern, NEW p \in Pattern, NEW c \in Pattern,
           Absent \notin Pattern, NEW was, NEW is,
           Governs(was, ps, c), Governs(is, ps \cup {p}, c), is # was
    PROVE  /\ is = p
           /\ p = c \/ (P!Stars(p) > 0 /\ P!Covers(p, c)) \/ p = <<Head(c)>>
           /\ was # c
           /\ was # Absent /\ Len(was) = Len(c) => P!Stars(p) <= P!Stars(was)
<1> DEFINE old == Covering(ps, c)
           new == Covering(ps \cup {p}, c)
           root == <<Head(c)>>
<1>1. c \notin ps
  BY DEF Governs
<1>2. \A q \in old : q \in Pattern /\ Len(q) = Len(c) /\ q # c /\ P!Covers(q, c)
  BY <1>1 DEF Covering, P!Covers
<1>3. old # {} => Foremost(was, old) /\ was \in old
  BY <1>1 DEF Governs, Foremost
<1>4. old = {} => (was = root /\ Len(c) > 1 /\ root \in ps) \/ was = Absent
  BY <1>1 DEF Governs
<1>5. Len(c) \in Nat /\ P!Stars(p) \in Nat /\ P!Stars(c) \in Nat /\ c # Absent /\ Len(root) = 1
  BY StarsFacts DEF Pattern
<1>6. was # c /\ (old = {} => was = Absent \/ Len(was) # Len(c))
  <2> HIDE DEF old, root
  <2>1. ASSUME old # {} PROVE was # c
    BY <1>2, <1>3, <2>1
  <2>2. ASSUME old = {}, was = root, Len(c) > 1 PROVE Len(was) # Len(c)
    <3>1. Len(c) # 1
      <4>1. Len(c) \in Nat
        BY <1>5
      <4>2. Len(c) > 1
        BY <2>2
      <4> QED BY <4>1, <4>2
    <3>2. Len(root) = 1
      BY <1>5
    <3> QED BY <2>2, <3>1, <3>2, Zenon
  <2> QED BY <1>4, <1>5, <2>1, <2>2
<1>7. CASE p = c
  <2>1. is = p
    BY <1>7 DEF Governs
  <2>2. ASSUME was # Absent, Len(was) = Len(c) PROVE P!Stars(p) <= P!Stars(was)
    <3>1. was \in old
      BY <2>2, <1>3, <1>6
    <3> QED BY <3>1, <1>2, <1>7, StarsFacts
  <2> QED BY <1>6, <1>7, <2>1, <2>2
<1>8. CASE p # c /\ P!Stars(p) > 0 /\ P!Covers(p, c)
  <2>1. new = old \cup {p} /\ c \notin ps \cup {p}
    BY <1>1, <1>8 DEF Covering
  <2>2. Foremost(is, new)
    BY <2>1 DEF Governs
  <2>3. CASE old = {}
    <3>1. is = p
      BY <2>1, <2>2, <2>3 DEF Foremost
    <3>2. was = Absent \/ Len(was) # Len(c)
      BY <2>3, <1>6
    <3> QED BY <1>6, <1>8, <3>1, <3>2
  <2>4. CASE old # {}
    <3> HIDE DEF old, new
    <3>1. Foremost(was, old) /\ was \in old /\ was \in Pattern /\ Len(was) = Len(c)
      BY <2>4, <1>2, <1>3
    <3>2. Len(p) = Len(c)
      BY <1>8 DEF P!Covers
    <3>3. is = p
      <4>1. ASSUME is \in old PROVE FALSE
        <5>1. is \in Pattern /\ Len(is) = Len(was)
          BY <4>1, <1>2, <3>1
        <5>2. Precedes(was, is) /\ Precedes(is, was)
          BY <4>1, <2>1, <2>2, <3>1 DEF Foremost
        <5> QED BY <5>1, <5>2, <3>1, PrecedesOrders
      <4> QED BY <4>1, <2>1, <2>2 DEF Foremost
    <3>4. p = was \/ Precedes(p, was)
      BY <2>1, <2>2, <3>1, <3>3 DEF Foremost
    <3>5. P!Stars(p) <= P!Stars(was)
      BY <3>1, <3>4, <1>5, StarsFacts DEF Precedes
    <3> QED BY <1>6, <1>8, <3>3, <3>5
  <2> QED BY <2>3, <2>4
<1>9. CASE p # c /\ ~(P!Stars(p) > 0 /\ P!Covers(p, c))
  <2>1. new = old /\ c \notin ps \cup {p}
    BY <1>1, <1>9 DEF Covering
  <2>2. CASE old # {}
    <3>1. Governs(is, ps, c)
      BY <2>1, <2>2, <1>1 DEF Governs
    <3> QED BY <3>1, OneGoverns
  <2>3. CASE old = {}
    <3>1. (is = root /\ Len(c) > 1 /\ root \in ps \cup {p}) \/ is = Absent
      BY <2>1, <2>3 DEF Governs
    <3>2. is = Absent => ~(Len(c) > 1 /\ root \in ps \cup {p})
      BY <2>1, <2>3, Absent \notin Pattern DEF Governs, Pattern
    <3>3. is = root /\ p = root /\ was = Absent
      BY <2>1, <2>3, <1>1, <3>1, <3>2 DEF Governs
    <3> QED BY <3>3, <1>6
  <2> QED BY <2>2, <2>3
<1> QED BY <1>7, <1>8, <1>9
\* "Fewest `*` wins; ties break toward the lexicographically smallest pattern"
\* (PolicyFile::find), for any patterns and any collection: the visit of the HashMap has
\* one outcome, and a rule that is added changes the decision of no collection but those
\* it names, covers or is the root of, never against a more specific one.
THEOREM RulesStayLocal ==
    ASSUME Absent \notin Pattern, NEW ps \in SUBSET Pattern, IsFiniteSet(ps),
           NEW p \in Pattern, NEW c \in Pattern, input = <<"rules", ps, p, c>>
    PROVE  RulesAreLocal
<1> DEFINE with == ps \cup {p}
           old == {P!Find(ps, o, c) : o \in P!SetToSeqs(ps)}
           new == {P!Find(with, o, c) : o \in P!SetToSeqs(with)}
<1>1. with \in SUBSET Pattern /\ IsFiniteSet(with)
  BY FS_AddElement
<1>2. PICK was : Governs(was, ps, c) /\ old = {was}
  BY FoundIsOne
<1>3. PICK is : Governs(is, with, c) /\ new = {is}
  <2> HIDE DEF with
  <2> QED BY <1>1, FoundIsOne
<1>4. (CHOOSE x \in old : TRUE) = was
  BY <1>2
<1>5. P!Cardinality(old) = 1 /\ P!Cardinality(new) = 1
  BY <1>2, <1>3, FS_Singleton, SameCardinality
<1>6. is # was =>
        /\ is = p
        /\ p = c \/ (P!Stars(p) > 0 /\ P!Covers(p, c)) \/ p = <<Head(c)>>
        /\ was # c
        /\ was # Absent /\ Len(was) = Len(c) => P!Stars(p) <= P!Stars(was)
  BY <1>2, <1>3, AddedRule
<1>7. P!RulesAreLocal(ps, p, c) =
        (/\ P!Cardinality(old) = 1 /\ P!Cardinality(new) = 1
         /\ new # old =>
              /\ new = {p}
              /\ p = c \/ (P!Stars(p) > 0 /\ P!Covers(p, c)) \/ p = <<Head(c)>>
              /\ (CHOOSE x \in old : TRUE) # c
              /\ (CHOOSE x \in old : TRUE) # Absent /\ Len(CHOOSE x \in old : TRUE) = Len(c)
                   => P!Stars(p) <= P!Stars(CHOOSE x \in old : TRUE))
  BY Zenon DEF P!RulesAreLocal
<1> HIDE DEF old, new
<1>8. P!RulesAreLocal(ps, p, c)
  BY <1>2, <1>3, <1>4, <1>5, <1>6, <1>7
<1>9. input[2] = ps /\ input[3] = p /\ input[4] = c
  OBVIOUS
<1> QED BY <1>8, <1>9 DEF RulesAreLocal

-----------------------------------------------------------------------------
(* Who passes both gates of a write without being let in by name             *)

Datum == ({"num"} \X Int) \cup ({"text"} \X STRING)
Condition == [is : {"auth"}, field : STRING, attr : STRING]
             \cup [is : {"lit"}, field : STRING, value : Datum]
             \cup [is : {"int"}, field : STRING, min : Int, max : Int]
Text == [kind : {"word"}, word : STRING]
        \cup [kind : {"claim"}, field : STRING, values : Seq(STRING), strips : Seq(BOOLEAN)]
        \cup [kind : {"fields"}, conds : Seq(Condition), strips : Seq(BOOLEAN)]

Word(w) == [kind |-> "word", word |-> w]

\* What each text becomes.
LEMMA ReadTexts ==
    ASSUME NEW t \in Text
    PROVE  \/ P!From(t) = P!Public /\ t = Word("public")
           \/ P!From(t) = P!Auth /\ t = Word("auth")
           \/ P!From(t) = P!Deny
           \/ P!From(t).kind = "claim"
           \/ P!From(t) = P!UidSelf
           \/ P!From(t) = P!Fields(P!ToSet(t.conds)) /\ t.kind = "fields" /\ P!Parsed(t) # Absent
<1>1. CASE t \in [kind : {"word"}, word : STRING]
  <2>1. t = Word(t.word) /\ t.kind = "word"
    BY <1>1 DEF Word
  <2>2. CASE t.word = "public"
    BY <2>1, <2>2 DEF P!From, P!Parsed, P!Public, P!Deny
  <2>3. CASE t.word = "auth"
    BY <2>1, <2>3 DEF P!From, P!Parsed, P!Auth, P!Deny
  <2>4. CASE t.word \notin {"public", "auth"}
    BY <2>1, <2>4 DEF P!From, P!Parsed, P!Deny
  <2> QED BY <2>2, <2>3, <2>4
<1>2. CASE t \in [kind : {"claim"}, field : STRING, values : Seq(STRING), strips : Seq(BOOLEAN)]
  <2>1. P!Parsed(t) = P!ParseClaim(t)
    BY <1>2 DEF P!Parsed
  <2>2. \/ P!ParseClaim(t) = Absent
        \/ P!ParseClaim(t) = P!UidSelf
        \/ P!ParseClaim(t).kind = "claim"
    BY Zenon DEF P!ParseClaim, P!Claim
  <2> QED BY <2>1, <2>2 DEF P!From
<1>3. CASE t \in [kind : {"fields"}, conds : Seq(Condition), strips : Seq(BOOLEAN)]
  <2>1. P!Parsed(t) = P!ParseFields(t) /\ t.kind = "fields"
    BY <1>3 DEF P!Parsed
  <2>2. \/ P!ParseFields(t) = Absent
        \/ P!ParseFields(t) = P!Fields(P!ToSet(t.conds))
    BY Zenon DEF P!ParseFields
  <2> QED BY <2>1, <2>2 DEF P!From
<1> QED BY <1>1, <1>2, <1>3 DEF Text
\* The service key of the property, and the names of its own document.
Key == [uid |-> <<"svc", "k">>, extra |-> [a \in {} |-> Absent],
        scope |-> {<<<<1>>, "read">>, <<<<2>>, "write">>}]
KeysOwn == {<<"svc", "k">>, <<"k">>}

\* Neither of them has an attribute, and the key is not the document's.
LEMMA StrangersPass ==
    ASSUME NEW t \in Text, NEW id, id \notin KeysOwn
    PROVE  /\ P!Eval(P!From(t), Absent, id) =>
                \/ P!From(t) = P!Public /\ t = Word("public")
                \/ P!From(t) = P!Fields(P!ToSet(t.conds)) /\ t.kind = "fields" /\ P!Parsed(t) # Absent
           /\ P!Eval(P!From(t), Key, id) => P!Eval(P!From(t), Absent, id) \/ t = Word("auth")
<1> DEFINE r == P!From(t)
<1>1. /\ P!Members(P!Attr(Absent, "role")) = {} /\ P!Members(P!Attr(Key, "role")) = {}
  BY DEF P!Members, P!Attr, Key
<1>2. Key.uid = <<"svc", "k">> /\ Tail(Key.uid) = <<"k">>
  BY DEF Key
<1>3. CASE r = P!Public /\ t = Word("public")
  BY <1>3 DEF P!Eval, P!Public
<1>4. CASE r = P!Auth /\ t = Word("auth")
  BY <1>4 DEF P!Eval, P!Auth
<1>5. CASE r = P!Deny
  BY <1>5 DEF P!Eval, P!Deny
<1>6. CASE r.kind = "claim"
  BY <1>1, <1>6 DEF P!Eval
<1>7. CASE r = P!UidSelf
  BY <1>2, <1>7 DEF P!Eval, P!UidSelf, KeysOwn
<1>8. CASE r = P!Fields(P!ToSet(t.conds)) /\ t.kind = "fields" /\ P!Parsed(t) # Absent
  BY <1>8 DEF P!Eval, P!Fields
<1> QED BY <1>3, <1>4, <1>5, <1>6, <1>7, <1>8, ReadTexts

\* A caller without a token passes both gates of a write only under a text that says
\* public, or whose conditions are all about the data; and a service key with a scope for
\* something else gets no further than that, the document of its own name apart
\* (PolicyFile::allow, allow_fields).  For every text that can be written, wherever it
\* stands, and every document and data.
THEOREM StrangersStayOut ==
    ASSUME Absent \notin Pattern, NEW t \in Text, NEW where \in {"method", "class", "defaults"},
           NEW method \in P!Stores, NEW id, id \notin KeysOwn, NEW data,
           input = <<"text", t, where, method, id, data>>
    PROVE  StrangersNeedOpenRules
<1>0. <<1>> \in Pattern
  BY DEF Pattern
<1> DEFINE c == <<1>>
           open == [kind |-> "word", word |-> "public"]
           own == CASE where = "method" -> {method} [] where = "class" -> {"write"} [] OTHER -> {}
           under == IF where = "method" THEN {"read", "write"} ELSE {"read"}
           slots == [slot \in own \cup under |-> P!From(IF slot \in own THEN t ELSE open)]
           defaults == [class \in {"read", "write"} |->
                          P!From(IF where = "defaults" /\ class = "write" THEN t ELSE open)]
           file == [rules |-> [p \in {c} |-> slots], defaults |-> defaults]
           Open == /\ P!Loads(t)
                   /\ \/ t = open
                      \/ t.kind = "fields" /\ \A i \in DOMAIN t.conds : t.conds[i].is # "auth"
           In(who) == P!Admits(file, <<c>>, who, c, method, id, data)
           rule == P!From(t)
<1>1. method \in {"create", "update"} /\ P!Class(method) = "write"
  BY DEF P!Stores, P!Class, P!Reads
<1>2. P!Slot(slots, defaults, method) = rule
  <2> HIDE DEF rule
  <2>1. CASE where = "method"
    <3>1. method \in own /\ own \cup under = DOMAIN slots
      BY <2>1
    <3> QED BY <3>1 DEF P!Slot, rule
  <2>2. CASE where = "class"
    <3>1. own = {"write"} /\ under = {"read"} /\ method \notin own \cup under
      BY <1>1, <2>2
    <3> QED BY <1>1, <3>1 DEF P!Slot, rule
  <2>3. CASE where = "defaults"
    <3>1. own = {} /\ under = {"read"} /\ method \notin own \cup under
      BY <1>1, <2>3
    <3> QED BY <1>1, <2>3, <3>1 DEF P!Slot, rule
  <2> QED BY <2>1, <2>2, <2>3
<1>3. P!Governing(file, <<c>>, c, method) = rule
  <2>1. c \in Pattern /\ c # Absent
    BY <1>0
  <2>2. DOMAIN file.rules = {c} /\ file.rules[c] = slots /\ file.defaults = defaults
    OBVIOUS
  <2> HIDE DEF c, file, slots, defaults, rule
  <2>3. P!Find(DOMAIN file.rules, <<c>>, c) = c
    BY <2>2 DEF P!Find
  <2> QED BY <1>2, <2>1, <2>2, <2>3 DEF P!Governing
<1>4. ~P!ScopeHit(Absent, c, method) /\ ~P!ScopeHit(Key, c, method)
  <2>1. ~P!ScopeHit(Absent, c, method)
    BY DEF P!ScopeHit
  <2>2. <<c, P!Class(method)>> \notin Key.scope
    BY <1>1 DEF Key
  <2> QED BY <2>1, <2>2 DEF P!ScopeHit
<1> HIDE DEF c, file
<1>5. ASSUME NEW who \in {Absent, Key}
      PROVE  In(who) <=> /\ P!Eval(rule, who, id)
                         /\ rule.kind = "fields" => \A x \in rule.conds : P!CondHolds(x, who, data)
  BY <1>3, <1>4 DEF P!Admits, P!Allow, P!AllowFields
<1> HIDE DEF In
<1>6. ASSUME NEW x PROVE P!CondHolds(x, Key, data) => P!CondHolds(x, Absent, data)
  <2>1. P!Attr(Key, x.attr) = P!Attr(Absent, x.attr)
    BY DEF P!Attr, Key
  <2> QED BY <2>1, Zenon DEF P!CondHolds
<1>7. ASSUME NEW x, x.is = "auth" PROVE ~P!CondHolds(x, Absent, data)
  BY <1>7 DEF P!CondHolds, P!Attr
<1>8. ASSUME In(Absent) PROVE Open
  <2>1. P!Eval(rule, Absent, id)
    BY <1>5, <1>8
  <2>2. CASE rule = P!Public /\ t = Word("public")
    BY <2>2 DEF Word, P!Loads
  <2>3. CASE rule = P!Fields(P!ToSet(t.conds)) /\ t.kind = "fields" /\ P!Parsed(t) # Absent
    <3>1. rule.kind = "fields" /\ rule.conds = P!ToSet(t.conds)
      BY <2>3 DEF P!Fields
    <3> HIDE DEF rule
    <3>2. \A x \in P!ToSet(t.conds) : P!CondHolds(x, Absent, data)
      BY <1>5, <1>8, <3>1
    <3>3. \A i \in DOMAIN t.conds : t.conds[i].is # "auth"
      BY <1>7, <3>2 DEF P!ToSet
    <3> QED BY <2>3, <3>3 DEF P!Loads
  <2> QED BY <2>1, <2>2, <2>3, StrangersPass
<1>9. ASSUME In(Key) PROVE In(Absent) \/ t = Word("auth")
  <2>1. P!Eval(rule, Key, id)
    BY <1>5, <1>9
  <2>2. P!Eval(rule, Absent, id) \/ t = Word("auth")
    BY <2>1, StrangersPass
  <2> HIDE DEF rule
  <2> QED BY <1>5, <1>6, <1>9, <2>2
<1>10. P!StrangersNeedOpenRules(t, where, method, id, data) =
         (/\ In(Absent) => Open
          /\ In(Key) => In(Absent) \/ t = [kind |-> "word", word |-> "auth"])
  BY Zenon DEF P!StrangersNeedOpenRules, Key, In, file, c
<1> HIDE DEF Open
<1>11. P!StrangersNeedOpenRules(t, where, method, id, data)
  BY <1>8, <1>9, <1>10 DEF Word
<1>12. input[2] = t /\ input[3] = where /\ input[4] = method /\ input[5] = id /\ input[6] = data
  OBVIOUS
<1> QED BY <1>11, <1>12 DEF StrangersNeedOpenRules

-----------------------------------------------------------------------------
(* What an alias makes of a request (Aliases), whatever the table and the     *)
(* query: of each key the last pair counts.                                 *)

\* The last of the first n pairs with the key k has the value v.
Says(q, n, k, v) == \E i \in 1..n : /\ q[i][1] = k /\ q[i][2] = v
                                    /\ \A j \in (i + 1)..n : q[j][1] # k

LEMMA SaysStep ==
    ASSUME NEW q, NEW n \in Nat \ {0}, NEW k, NEW v
    PROVE  Says(q, n, k, v) <=> IF q[n][1] = k THEN q[n][2] = v ELSE Says(q, n - 1, k, v)
<1>1. CASE q[n][1] = k
  <2>1. ASSUME Says(q, n, k, v) PROVE q[n][2] = v
    <3>1. PICK i \in 1..n : /\ q[i][1] = k /\ q[i][2] = v
                            /\ \A j \in (i + 1)..n : q[j][1] # k
      BY <2>1 DEF Says
    <3>2. i = n
      BY <1>1, <3>1
    <3> QED BY <3>1, <3>2
  <2>2. ASSUME q[n][2] = v PROVE Says(q, n, k, v)
    <3>1. n \in 1..n /\ \A j \in (n + 1)..n : q[j][1] # k
      OBVIOUS
    <3> QED BY <1>1, <2>2, <3>1 DEF Says
  <2> QED BY <1>1, <2>1, <2>2
<1>2. CASE q[n][1] # k
  <2>1. ASSUME Says(q, n, k, v) PROVE Says(q, n - 1, k, v)
    <3>1. PICK i \in 1..n : /\ q[i][1] = k /\ q[i][2] = v
                            /\ \A j \in (i + 1)..n : q[j][1] # k
      BY <2>1 DEF Says
    <3>2. i \in 1..(n - 1) /\ \A j \in (i + 1)..(n - 1) : q[j][1] # k
      BY <1>2, <3>1
    <3> QED BY <3>1, <3>2 DEF Says
  <2>2. ASSUME Says(q, n - 1, k, v) PROVE Says(q, n, k, v)
    <3>1. PICK i \in 1..(n - 1) : /\ q[i][1] = k /\ q[i][2] = v
                                  /\ \A j \in (i + 1)..(n - 1) : q[j][1] # k
      BY <2>2 DEF Says
    <3>2. i \in 1..n /\ \A j \in (i + 1)..n : q[j][1] # k
      BY <1>2, <3>1
    <3> QED BY <3>1, <3>2 DEF Says
  <2> QED BY <1>2, <2>1, <2>2
<1> QED BY <1>1, <1>2

\* It depends on these pairs alone.
LEMMA SaysSame ==
    ASSUME NEW q, NEW r, NEW n \in Nat, \A i \in 1..n : q[i] = r[i], NEW k, NEW v
    PROVE  Says(q, n, k, v) <=> Says(r, n, k, v)
<1>1. \A i \in 1..n : \A j \in (i + 1)..n : j \in 1..n
  OBVIOUS
<1> QED BY <1>1 DEF Says

\* What Read reads.
LEMMA ReadSays ==
    ASSUME NEW T, NEW q \in Seq(T), NEW k
    PROVE  /\ L!Has(q, k) => Says(q, Len(q), k, L!Read(q, k))
           /\ \A v : Says(q, Len(q), k, v) => L!Has(q, k) /\ L!Read(q, k) = v
<1> DEFINE m == Len(q)
           Later(i) == q[i][1] = k /\ \A j \in 1..m : q[j][1] = k => j <= i
           i0 == CHOOSE i \in DOMAIN q : Later(i)
<1>1. m \in Nat /\ DOMAIN q = 1..m
  OBVIOUS
<1>2. ASSUME NEW v, Says(q, m, k, v)
      PROVE  L!Has(q, k) /\ \E i \in DOMAIN q : Later(i)
  <2>1. PICK i \in 1..m : q[i][1] = k /\ q[i][2] = v /\ \A j \in (i + 1)..m : q[j][1] # k
    BY <1>2 DEF Says
  <2>2. Later(i)
    BY <1>1, <2>1
  <2> QED BY <1>1, <2>1, <2>2 DEF L!Has
<1>3. ASSUME L!Has(q, k) PROVE \E v : Says(q, m, k, v)
  <2> DEFINE Found(n) == (\E i \in 1..n : q[i][1] = k) => \E v : Says(q, n, k, v)
             W == {n \in Nat : Found(n)}
  <2>1. 0 \in W
    OBVIOUS
  <2>2. ASSUME NEW n \in 1..m, n - 1 \in W PROVE n \in W
    <3>1. n \in Nat \ {0} /\ Found(n - 1)
      BY <2>2
    <3>2. CASE q[n][1] = k
      <4>1. Says(q, n, k, q[n][2])
        BY <3>1, <3>2, SaysStep
      <4> QED BY <3>1, <4>1
    <3>3. CASE q[n][1] # k
      <4>1. (\E i \in 1..n : q[i][1] = k) => \E i \in 1..(n - 1) : q[i][1] = k
        BY <3>1, <3>3
      <4>2. \A v : Says(q, n - 1, k, v) => Says(q, n, k, v)
        BY <3>1, <3>3, SaysStep
      <4> QED BY <3>1, <4>1, <4>2
    <3> QED BY <3>2, <3>3
  <2> HIDE DEF W
  <2>3. m \in W
    <3>1. \A n \in 0..m : n \in W
      BY <1>1, <2>1, <2>2, Counting
    <3> QED BY <1>1, <3>1
  <2> QED BY <1>1, <1>3, <2>3 DEF W, L!Has
<1>4. ASSUME L!Has(q, k), \E i \in DOMAIN q : Later(i)
      PROVE  Says(q, m, k, L!Read(q, k))
  <2>1. i0 \in 1..m /\ Later(i0)
    BY <1>1, <1>4
  <2>2. L!Read(q, k) = q[i0][2]
    BY <1>1, <1>4 DEF L!Read
  <2> HIDE DEF i0
  <2>3. \A j \in (i0 + 1)..m : q[j][1] # k
    BY <1>1, <2>1
  <2> QED BY <2>1, <2>2, <2>3 DEF Says
<1>5. ASSUME NEW u, NEW v, Says(q, m, k, u), Says(q, m, k, v) PROVE u = v
  <2>1. PICK i \in 1..m : q[i][1] = k /\ q[i][2] = u /\ \A j \in (i + 1)..m : q[j][1] # k
    BY <1>5 DEF Says
  <2>2. PICK j \in 1..m : q[j][1] = k /\ q[j][2] = v /\ \A h \in (j + 1)..m : q[h][1] # k
    BY <1>5 DEF Says
  <2>3. i = j
    BY <1>1, <2>1, <2>2
  <2> QED BY <2>1, <2>2, <2>3
<1> QED BY <1>2, <1>3, <1>4, <1>5

\* The recursion of Without is well defined.
LEMMA WithoutDef ==
    ASSUME NEW q, NEW ks, Len(q) \in Nat
    PROVE  LET A == L!Without(q, ks) IN
           /\ A[0] = <<>>
           /\ \A n \in 1..Len(q) :
                A[n] = IF L!Key(q[n]) \in ks THEN A[n - 1] ELSE Append(A[n - 1], q[n])
<1> DEFINE Kept(w, n) == IF L!Key(q[n]) \in ks THEN w ELSE Append(w, q[n])
           Eq(g, n) == IF n = 0 THEN <<>> ELSE Kept(g[n - 1], n)
           W == {m \in Nat : \E g : g = [n \in 0..m |-> Eq(g, n)]}
<1> HIDE DEF Kept
<1>1. 0 \in W
  <2> DEFINE z == [n \in 0..0 |-> <<>>]
  <2>1. z = [n \in 0..0 |-> Eq(z, n)]
    OBVIOUS
  <2> QED BY <2>1
<1>2. ASSUME NEW m \in 1..Len(q), m - 1 \in W PROVE m \in W
  <2>1. PICK g : g = [n \in 0..m - 1 |-> Eq(g, n)]
    BY <1>2
  <2> DEFINE last == Kept(g[m - 1], m)
             h == [n \in 0..m |-> IF n = m THEN last ELSE g[n]]
  <2>2. ASSUME NEW n \in 0..m PROVE h[n] = Eq(h, n)
    <3> HIDE DEF last
    <3>1. CASE n = m
      <4>1. h[n] = last /\ h[n - 1] = g[m - 1] /\ n # 0
        BY <3>1
      <4> QED BY <4>1, <3>1 DEF last
    <3>2. CASE n # m
      <4>1. n \in 0..m - 1 /\ h[n] = g[n]
        BY <3>2
      <4>2. g[n] = Eq(g, n)
        BY <4>1, <2>1
      <4>3. CASE n = 0
        BY <4>1, <4>2, <4>3
      <4>4. CASE n # 0
        <5>1. h[n - 1] = g[n - 1]
          BY <4>1, <4>4
        <5> QED BY <4>1, <4>2, <4>4, <5>1
      <4> QED BY <4>3, <4>4
    <3> QED BY <3>1, <3>2
  <2>3. h = [n \in 0..m |-> h[n]]
    OBVIOUS
  <2> HIDE DEF h, Eq
  <2>4. h = [n \in 0..m |-> Eq(h, n)]
    BY <2>2, <2>3
  <2> QED BY <2>4
<1>3. \E g : g = [n \in 0..Len(q) |-> Eq(g, n)]
  <2> HIDE DEF W
  <2>1. \A n \in 0..Len(q) : n \in W
    BY <1>1, <1>2, Counting
  <2>2. Len(q) \in W
    BY <2>1
  <2> QED BY <2>2 DEF W
<1> DEFINE A == L!Without(q, ks)
<1>4. A = [n \in 0..Len(q) |-> Eq(A, n)]
  BY <1>3 DEF L!Without, Kept
<1> HIDE DEF A
<1>5. A[0] = <<>>
  BY <1>4
<1>6. ASSUME NEW n \in 1..Len(q) PROVE A[n] = Kept(A[n - 1], n)
  BY <1>4
<1> QED BY <1>5, <1>6 DEF A, Kept

\* What is left of a query says of a key what the query says, or nothing if it is out:
\* every spelling of it that the query has is taken out, or none is.
LEMMA WhatIsLeft ==
    ASSUME NEW T, NEW q \in Seq(T), NEW ks, NEW k, NEW out \in BOOLEAN,
           \A i \in 1..Len(q) : q[i][1] = k => (L!Key(q[i]) \in ks <=> out)
    PROVE  LET w == L!Without(q, ks)[Len(q)] IN
           /\ w \in Seq(T)
           /\ out => ~L!Has(w, k)
           /\ ~out => \A v : Says(w, Len(w), k, v) <=> Says(q, Len(q), k, v)
<1> DEFINE A == L!Without(q, ks)
           Left(n) == /\ A[n] \in Seq(T)
                      /\ \A v : Says(A[n], Len(A[n]), k, v) <=> ~out /\ Says(q, n, k, v)
           W == {n \in Nat : Left(n)}
<1>1. Len(q) \in Nat /\ \A n \in 1..Len(q) : q[n] \in T
  OBVIOUS
<1>2. /\ A[0] = <<>>
      /\ \A n \in 1..Len(q) : A[n] = IF L!Key(q[n]) \in ks THEN A[n - 1] ELSE Append(A[n - 1], q[n])
  BY <1>1, WithoutDef
<1> HIDE DEF A
<1>3. 0 \in W
  <2>1. A[0] \in Seq(T) /\ Len(A[0]) = 0
    BY <1>2
  <2>2. \A v : ~Says(A[0], 0, k, v) /\ ~Says(q, 0, k, v)
    BY DEF Says
  <2>3. \A v : Says(A[0], Len(A[0]), k, v) <=> ~out /\ Says(q, 0, k, v)
    BY <2>1, <2>2
  <2> QED BY <2>1, <2>3
<1>4. ASSUME NEW n \in 1..Len(q), n - 1 \in W PROVE n \in W
  <2> DEFINE w == A[n - 1]
             x == q[n]
  <2>1. /\ w \in Seq(T) /\ Len(w) \in Nat /\ x \in T /\ n \in Nat \ {0}
        /\ \A v : Says(w, Len(w), k, v) <=> ~out /\ Says(q, n - 1, k, v)
    BY <1>1, <1>4
  <2>2. A[n] = IF L!Key(x) \in ks THEN w ELSE Append(w, x)
    BY <1>2
  <2>3. \A v : Says(q, n, k, v) <=> IF x[1] = k THEN x[2] = v ELSE Says(q, n - 1, k, v)
    BY <2>1, SaysStep
  <2>0. x[1] = k => (L!Key(x) \in ks <=> out)
    OBVIOUS
  <2> HIDE DEF w, x
  <2>4. CASE L!Key(x) \in ks
    <3>1. \A v : ~out => (Says(q, n, k, v) <=> Says(q, n - 1, k, v))
      BY <2>0, <2>3, <2>4
    <3>2. \A v : Says(A[n], Len(A[n]), k, v) <=> ~out /\ Says(q, n, k, v)
      BY <2>1, <2>2, <2>4, <3>1
    <3> QED BY <2>1, <2>2, <2>4, <3>2
  <2>5. CASE L!Key(x) \notin ks
    <3> DEFINE y == Append(w, x)
    <3>1. /\ y \in Seq(T) /\ Len(y) = Len(w) + 1 /\ y[Len(w) + 1] = x
          /\ \A i \in 1..Len(w) : y[i] = w[i]
      BY <2>1
    <3>2. A[n] = y
      BY <2>2, <2>5
    <3> HIDE DEF y
    <3>3. Len(y) \in Nat \ {0} /\ Len(y) - 1 = Len(w)
      BY <2>1, <3>1
    <3>4. ASSUME NEW v
          PROVE  Says(y, Len(y), k, v) <=> IF x[1] = k THEN x[2] = v ELSE Says(w, Len(w), k, v)
      <4>1. Says(y, Len(y), k, v)
              <=> IF y[Len(y)][1] = k THEN y[Len(y)][2] = v ELSE Says(y, Len(y) - 1, k, v)
        BY <3>3, SaysStep
      <4>2. Says(y, Len(w), k, v) <=> Says(w, Len(w), k, v)
        BY <2>1, <3>1, SaysSame
      <4> QED BY <3>1, <3>3, <4>1, <4>2
    <3>5. ASSUME NEW v PROVE Says(y, Len(y), k, v) <=> ~out /\ Says(q, n, k, v)
      BY <2>0, <2>1, <2>3, <2>5, <3>4
    <3> QED BY <2>1, <3>1, <3>2, <3>5
  <2> QED BY <2>4, <2>5
<1> HIDE DEF W
<1>5. Len(q) \in W
  <2>1. \A n \in 0..Len(q) : n \in W
    BY <1>1, <1>3, <1>4, Counting
  <2> QED BY <1>1, <2>1
<1> DEFINE w == A[Len(q)]
<1>6. /\ w \in Seq(T)
      /\ \A v : Says(w, Len(w), k, v) <=> ~out /\ Says(q, Len(q), k, v)
  BY <1>5 DEF W
<1> HIDE DEF w
<1>7. out => ~L!Has(w, k)
  BY <1>6, ReadSays
<1>8. ~out => \A v : Says(w, Len(w), k, v) <=> Says(q, Len(q), k, v)
  BY <1>6
<1> QED BY <1>6, <1>7, <1>8 DEF w, A

\* Of two queries put together the second speaks first.
LEMMA SaysTogether ==
    ASSUME NEW T, NEW a \in Seq(T), NEW r \in Seq(T), NEW k, NEW v,
           IF L!Has(r, k) THEN Says(r, Len(r), k, v) ELSE Says(a, Len(a), k, v)
    PROVE  Says(a \o r, Len(a \o r), k, v)
<1> DEFINE q == a \o r
<1>1. /\ Len(a) \in Nat /\ Len(r) \in Nat /\ Len(q) = Len(a) + Len(r)
      /\ DOMAIN a = 1..Len(a) /\ DOMAIN r = 1..Len(r)
      /\ \A i \in 1..Len(a) : q[i] = a[i]
      /\ \A i \in (Len(a) + 1)..Len(q) : i - Len(a) \in 1..Len(r) /\ q[i] = r[i - Len(a)]
  OBVIOUS
<1> HIDE DEF q
<1>2. CASE L!Has(r, k)
  <2>1. PICK i \in 1..Len(r) : r[i][1] = k /\ r[i][2] = v /\ \A j \in (i + 1)..Len(r) : r[j][1] # k
    BY <1>2 DEF Says
  <2> DEFINE h == Len(a) + i
  <2>2. h \in 1..Len(q) /\ q[h] = r[i]
    <3>1. h \in (Len(a) + 1)..Len(q) /\ h - Len(a) = i
      BY <1>1
    <3> QED BY <1>1, <3>1
  <2>3. ASSUME NEW j \in (h + 1)..Len(q) PROVE q[j][1] # k
    <3>1. j \in (Len(a) + 1)..Len(q) /\ j - Len(a) \in (i + 1)..Len(r)
      BY <1>1
    <3> QED BY <1>1, <2>1, <3>1
  <2> HIDE DEF h
  <2>4. Says(q, Len(q), k, v)
    BY <2>1, <2>2, <2>3 DEF Says
  <2> QED BY <2>4 DEF q
<1>3. CASE ~L!Has(r, k)
  <2>1. PICK i \in 1..Len(a) : a[i][1] = k /\ a[i][2] = v /\ \A j \in (i + 1)..Len(a) : a[j][1] # k
    BY <1>3 DEF Says
  <2>2. i \in 1..Len(q) /\ q[i] = a[i]
    BY <1>1
  <2>3. ASSUME NEW j \in (i + 1)..Len(q) PROVE q[j][1] # k
    <3>1. CASE j <= Len(a)
      <4>1. j \in 1..Len(a) /\ j \in (i + 1)..Len(a)
        BY <1>1, <3>1
      <4> QED BY <1>1, <2>1, <4>1
    <3>2. CASE j > Len(a)
      <4>1. j \in (Len(a) + 1)..Len(q)
        BY <1>1, <3>2
      <4>2. j - Len(a) \in 1..Len(r) /\ q[j] = r[j - Len(a)]
        BY <1>1, <4>1
      <4> QED BY <1>1, <1>3, <4>2 DEF L!Has
    <3> QED BY <1>1, <3>1, <3>2
  <2>4. Says(q, Len(q), k, v)
    BY <2>1, <2>2, <2>3 DEF Says
  <2> QED BY <2>4 DEF q
<1> QED BY <1>2, <1>3

\* Who has the word of a key: the alias of its own keys, the request's apart from db.
LEMMA MergeReads ==
    ASSUME NEW T, NEW a \in Seq(T), NEW r \in Seq(T), NEW k, L!Has(a, k) \/ L!Has(r, k),
           L!Has(a, k) /\ L!Has(r, k) => L!SpeltAlike(a, r, k)
    PROVE  L!Read(L!MergeQuery(a, r), k) =
             IF L!Has(a, k) /\ (k = "db" \/ ~L!Has(r, k)) THEN L!Read(a, k) ELSE L!Read(r, k)
<1> DEFINE ka == L!Keys(r) \ {L!Db}
           kr == IF L!Db \in L!Keys(a) THEN {L!Db} ELSE {}
           outa == L!Has(r, k) /\ k # "db"
           outr == L!Has(a, k) /\ k = "db"
           u == L!Without(a, ka)[Len(a)]
           w == L!Without(r, kr)[Len(r)]
           pinned == L!Has(a, k) /\ (k = "db" \/ ~L!Has(r, k))
<1>1. CASE a = <<>>
  <2>1. L!MergeQuery(a, r) = r /\ ~L!Has(a, k)
    BY <1>1 DEF L!MergeQuery, L!Has
  <2> QED BY <2>1
<1>2. CASE a # <<>> /\ r = <<>>
  <2>1. L!MergeQuery(a, r) = a /\ ~L!Has(r, k)
    BY <1>2 DEF L!MergeQuery, L!Has
  <2> QED BY <2>1
<1>3. CASE a # <<>> /\ r # <<>>
  <2>1. L!MergeQuery(a, r) = u \o w
    BY <1>3, Zenon DEF L!MergeQuery
  <2> HIDE DEF u, w
  <2>8. /\ DOMAIN a = 1..Len(a) /\ DOMAIN r = 1..Len(r)
        /\ \A i \in DOMAIN a : a[i][1] = k => L!Has(a, k)
        /\ \A i \in DOMAIN r : r[i][1] = k => L!Has(r, k)
    BY DEF L!Has
  <2>9. ASSUME NEW i \in DOMAIN a, NEW j \in DOMAIN r, a[i][1] = k, r[j][1] = k
        PROVE  a[i][3] = r[j][3] /\ (k = "db" => a[i][3] = "plain" /\ r[j][3] = "plain")
    <3>1. L!SpeltAlike(a, r, k)
      BY <2>8, <2>9
    <3>2. a[i] \in L!ToSet(a) /\ r[j] \in L!ToSet(r)
      BY DEF L!ToSet
    <3>3. a[i] \in {p \in L!ToSet(a) \cup L!ToSet(r) : p[1] = k}
      BY <2>9, <3>2
    <3>4. r[j] \in {p \in L!ToSet(a) \cup L!ToSet(r) : p[1] = k}
      BY <2>9, <3>2
    <3> QED BY <3>1, <3>3, <3>4 DEF L!SpeltAlike
  <2>10. \A i \in DOMAIN a : a[i][1] = k => (L!Key(a[i]) \in ka <=> outa)
    <3> SUFFICES ASSUME NEW i \in DOMAIN a, a[i][1] = k
                 PROVE  L!Key(a[i]) \in ka <=> outa
      OBVIOUS
    <3>1. CASE ~L!Has(r, k)
      <4>1. ASSUME NEW j \in DOMAIN r, L!Key(r[j]) = L!Key(a[i]) PROVE FALSE
        BY <2>8, <3>1, <4>1 DEF L!Key
      <4> QED BY <3>1, <4>1 DEF L!Keys
    <3>2. CASE L!Has(r, k)
      <4>1. PICK j \in DOMAIN r : r[j][1] = k
        BY <3>2 DEF L!Has
      <4>2. /\ L!Key(a[i]) = <<k, r[j][3]>> /\ L!Key(r[j]) = <<k, r[j][3]>>
            /\ k = "db" => L!Key(a[i]) = L!Db
        BY <2>9, <4>1 DEF L!Key, L!Db
      <4>3. L!Key(r[j]) \in L!Keys(r)
        BY DEF L!Keys
      <4>4. k # "db" => L!Key(a[i]) # L!Db
        BY <4>2 DEF L!Db
      <4> QED BY <3>2, <4>2, <4>3, <4>4
    <3> QED BY <3>1, <3>2
  <2>11. \A i \in DOMAIN r : r[i][1] = k => (L!Key(r[i]) \in kr <=> outr)
    <3> SUFFICES ASSUME NEW i \in DOMAIN r, r[i][1] = k
                 PROVE  L!Key(r[i]) \in kr <=> outr
      OBVIOUS
    <3>1. CASE k # "db"
      BY <3>1 DEF L!Key, L!Db
    <3>2. CASE ~L!Has(a, k) /\ k = "db"
      <4>1. L!Db \notin L!Keys(a)
        BY <2>8, <3>2 DEF L!Keys, L!Key, L!Db
      <4> QED BY <3>2, <4>1
    <3>3. CASE L!Has(a, k) /\ k = "db"
      <4>1. PICK j \in DOMAIN a : a[j][1] = k
        BY <3>3 DEF L!Has
      <4>2. L!Key(a[j]) = L!Db /\ L!Key(r[i]) = L!Db
        BY <2>9, <3>3, <4>1 DEF L!Key, L!Db
      <4>3. L!Key(a[j]) \in L!Keys(a)
        BY DEF L!Keys
      <4> QED BY <3>3, <4>2, <4>3
    <3> QED BY <3>1, <3>2, <3>3
  <2>2. /\ u \in Seq(T)
        /\ ~outa => \A v : Says(u, Len(u), k, v) <=> Says(a, Len(a), k, v)
    <3>1. outa \in BOOLEAN /\ \A i \in 1..Len(a) : a[i][1] = k => (L!Key(a[i]) \in ka <=> outa)
      BY <2>8, <2>10
    <3> HIDE DEF ka, outa
    <3> QED BY <3>1, WhatIsLeft DEF u
  <2>3. /\ w \in Seq(T)
        /\ outr => ~L!Has(w, k)
        /\ ~outr => \A v : Says(w, Len(w), k, v) <=> Says(r, Len(r), k, v)
    <3>1. outr \in BOOLEAN /\ \A i \in 1..Len(r) : r[i][1] = k => (L!Key(r[i]) \in kr <=> outr)
      BY <2>8, <2>11
    <3> HIDE DEF kr, outr
    <3> QED BY <3>1, WhatIsLeft DEF w
  <2>4. ASSUME NEW v, Says(u \o w, Len(u \o w), k, v)
        PROVE  L!Read(L!MergeQuery(a, r), k) = v
    <3>1. u \o w \in Seq(T)
      BY <2>2, <2>3
    <3> QED BY <2>1, <2>4, <3>1, ReadSays
  <2>6. CASE pinned
    <3> DEFINE v == L!Read(a, k)
    <3>1. ~outa
      BY <2>6
    <3>2. Says(a, Len(a), k, v)
      BY <2>6, ReadSays
    <3> HIDE DEF v
    <3>3. Says(u, Len(u), k, v)
      BY <2>2, <3>1, <3>2
    <3>4. ~L!Has(w, k)
      <4>1. CASE k = "db"
        BY <2>3, <2>6, <4>1
      <4>2. CASE ~L!Has(r, k)
        <5>1. \A x : ~Says(r, Len(r), k, x)
          BY <4>2, ReadSays
        <5>2. L!Has(w, k) => \E x : Says(w, Len(w), k, x)
          BY <2>3, ReadSays
        <5> QED BY <2>3, <5>1, <5>2
      <4> QED BY <2>6, <4>1, <4>2
    <3>5. Says(u \o w, Len(u \o w), k, v)
      BY <2>2, <2>3, <3>3, <3>4, SaysTogether
    <3> QED BY <2>4, <2>6, <3>5 DEF v
  <2>7. CASE ~pinned
    <3> DEFINE v == L!Read(r, k)
    <3>1. L!Has(r, k) /\ ~outr
      BY <2>7
    <3>2. Says(r, Len(r), k, v)
      BY <3>1, ReadSays
    <3> HIDE DEF v
    <3>3. Says(w, Len(w), k, v)
      BY <2>3, <3>1, <3>2
    <3>4. L!Has(w, k)
      BY <2>3, <3>3, ReadSays
    <3>5. Says(u \o w, Len(u \o w), k, v)
      BY <2>2, <2>3, <3>3, <3>4, SaysTogether
    <3> QED BY <2>4, <2>7, <3>5 DEF v
  <2> QED BY <2>6, <2>7
<1> QED BY <1>1, <1>2, <1>3

\* A set of positions has a least one.
LEMMA LeastPosition ==
    ASSUME NEW H, H \subseteq Nat, H # {}
    PROVE  \E i \in H : \A j \in H : i <= j
<1> DEFINE R == {p \in Nat \X Nat : p[1] < p[2]}
<1>1. R = OpToRel(<, Nat)
  BY DEF OpToRel
<1>2. IsWellFoundedOn(R, Nat)
  BY <1>1, NatLessThanWellFounded
<1> HIDE DEF R
<1>3. PICK i \in H : \A j \in H : <<j, i>> \notin R
  BY <1>2, WFMin
<1>4. ASSUME NEW j \in H PROVE i <= j
  <2>1. i \in Nat /\ j \in Nat
    OBVIOUS
  <2>2. ~(j < i)
    BY <1>3, <2>1 DEF R
  <2> QED BY <2>1, <2>2
<1> QED BY <1>4

Slot == {"text", "slot"} \X STRING
Template == [form : {"bare"}, pairs : Seq(STRING \X Slot \X STRING)]
            \cup [form : {"json"}, key : Slot, spelt : STRING, quoted : SUBSET STRING, loose : SUBSET STRING]
Alias == [segs : Seq([param : BOOLEAN, name : STRING]),
          target : [under : STRING, slots : SUBSET STRING], query : Template]

\* The first alias that matches, the query it pins and the request's beside it: "first match
\* wins", "request wins on collision", "a request query can never escape an alias-pinned
\* database" - of keys that the two spell alike -, and no slot of a template is left without
\* a capture but one in the key of a JSON template (compile, rewrite, merge_query).  For
\* every table that loads.
THEOREM AliasesKeepTheirWord ==
    ASSUME NEW decls \in Seq(Alias), NEW path, NEW T, NEW r \in Seq(T),
           input = <<"alias", decls, path, r>>
    PROVE  AliasKeepsItsWord
<1> DEFINE i == L!RewriteTo(decls, path)
           d == decls[i]
           caps == L!Captures(d.segs, path)
           a == L!Substituted(d.query, caps)
           q == L!MergeQuery(a, r)
           hits == {n \in DOMAIN decls : L!Matches(decls[n].segs, path)}
<1>1. ASSUME i # Absent
      PROVE  /\ i \in 1..Len(decls) /\ d \in Alias
             /\ \A j \in 1..(i - 1) : ~L!Matches(decls[j].segs, path)
  <2>1. hits # {} /\ i = CHOOSE n \in hits : \A j \in hits : n <= j
    BY <1>1, Zenon DEF L!RewriteTo
  <2>2. hits \subseteq 1..Len(decls) /\ Len(decls) \in Nat /\ hits \subseteq Nat
    OBVIOUS
  <2> HIDE DEF hits, i
  <2>3. \E n \in hits : \A j \in hits : n <= j
    BY <2>1, <2>2, LeastPosition
  <2>4. i \in hits /\ \A j \in hits : i <= j
    BY <2>1, <2>3, Zenon
  <2>5. ASSUME NEW j \in 1..(i - 1) PROVE ~L!Matches(decls[j].segs, path)
    <3>1. j \in 1..Len(decls) /\ ~(i <= j)
      BY <2>2, <2>4
    <3> QED BY <2>4, <3>1 DEF hits
  <2> QED BY <2>2, <2>4, <2>5
<1>2. ASSUME i # Absent, L!CompilesAll(decls)
      PROVE  \/ L!Asked(d.query) \subseteq DOMAIN caps
             \/ d.query.form = "json" /\ d.query.key[1] = "slot"
  <2>1. d.query \in Template /\ L!Checked(d.query) \subseteq L!Params(d.segs)
    <3>1. d \in Alias /\ i \in DOMAIN decls
      BY <1>1, <1>2
    <3>2. L!Compiles(d)
      <4> HIDE DEF i
      <4> QED BY <1>2, <3>1 DEF L!CompilesAll
    <3> HIDE DEF d
    <3> QED BY <3>1, <3>2 DEF L!Compiles, Alias
  <2>2. DOMAIN caps = L!Params(d.segs)
    BY DEF L!Captures
  <2> HIDE DEF d, caps
  <2>3. CASE d.query.form = "bare"
    BY <2>1, <2>2, <2>3 DEF L!Asked, L!Checked
  <2>4. CASE d.query.form = "json"
    BY <2>1, <2>2, <2>4 DEF L!Asked, L!Checked
  <2> QED BY <2>1, <2>3, <2>4 DEF Template
<1>3. ASSUME i # Absent PROVE \E U : a \in Seq(U)
  <2>1. d.query \in Template
    BY <1>1, <1>3 DEF Alias
  <2> HIDE DEF d, caps
  <2>2. CASE d.query.form = "bare"
    <3>1. d.query.pairs \in Seq(STRING \X Slot \X STRING)
      BY <2>1, <2>2 DEF Template
    <3> DEFINE F(n) == <<d.query.pairs[n][1], L!Filled(caps, d.query.pairs[n][2]),
                        d.query.pairs[n][3]>>
               U == {F(n) : n \in DOMAIN d.query.pairs}
    <3>2. a = [n \in DOMAIN d.query.pairs |-> F(n)]
      BY <2>2 DEF L!Substituted
    <3>3. Len(d.query.pairs) \in Nat /\ DOMAIN d.query.pairs = 1..Len(d.query.pairs)
      BY <3>1
    <3>4. \A n \in DOMAIN d.query.pairs : F(n) \in U
      OBVIOUS
    <3> HIDE DEF F, U, a
    <3>5. a \in Seq(U)
      BY <3>2, <3>3, <3>4
    <3> QED BY <3>5
  <2>3. CASE d.query.form # "bare"
    <3>1. PICK x : a = <<x>>
      BY <2>3 DEF L!Substituted
    <3>2. a \in Seq({x})
      BY <3>1
    <3> QED BY <3>2
  <2> QED BY <2>2, <2>3
<1>4. ASSUME i # Absent, NEW k \in {p[1] : p \in L!ToSet(a) \cup L!ToSet(r)},
             L!Has(a, k) /\ L!Has(r, k) => L!SpeltAlike(a, r, k)
      PROVE  L!Read(q, k) = IF L!Has(a, k) /\ (k = "db" \/ ~L!Has(r, k))
                              THEN L!Read(a, k) ELSE L!Read(r, k)
  <2>1. PICK U : a \in Seq(U)
    BY <1>3, <1>4
  <2> HIDE DEF a
  <2> DEFINE V == U \cup T
  <2>2. a \in Seq(V) /\ r \in Seq(V)
    BY <2>1
  <2>3. L!Has(a, k) \/ L!Has(r, k)
    BY DEF L!Has, L!ToSet
  <2> HIDE DEF V
  <2> QED BY <1>4, <2>2, <2>3, MergeReads
<1>5. L!AliasKeepsItsWord(decls, path, r) =
        (L!CompilesAll(decls) /\ i # Absent =>
          /\ \A j \in 1..(i - 1) : ~L!Matches(decls[j].segs, path)
          /\ \/ L!Asked(d.query) \subseteq DOMAIN caps
             \/ d.query.form = "json" /\ d.query.key[1] = "slot"
          /\ \A k \in {p[1] : p \in L!ToSet(a) \cup L!ToSet(r)} :
               (L!Has(a, k) /\ L!Has(r, k) => L!SpeltAlike(a, r, k))
               => L!Read(q, k) = IF L!Has(a, k) /\ (k = "db" \/ ~L!Has(r, k))
                                THEN L!Read(a, k) ELSE L!Read(r, k))
  BY Zenon DEF L!AliasKeepsItsWord
<1> HIDE DEF i, d, caps, a, q
<1>6. L!AliasKeepsItsWord(decls, path, r)
  BY <1>1, <1>2, <1>4, <1>5, Zenon
<1>7. input[2] = decls /\ input[3] = path /\ input[4] = r
  OBVIOUS
<1> QED BY <1>6, <1>7 DEF AliasKeepsItsWord
=============================================================================
