---------------------------------- MODULE Batch ----------------------------------
(***************************************************************************)
(* POST /batch and /transaction (main.rs run_ops): every operation reads its  *)
(* document and is gated, then all are prepared from those copies and applied *)
(* in one transaction of the driver, then the events are emitted.             *)
(*                                                                         *)
(* The operation at position p of a client's request writes field p with the  *)
(* client as its value, so that a body says which writes it still holds.      *)
(***************************************************************************)
EXTENDS Naturals, Sequences, FiniteSets, SequencesExt

CONSTANTS Docs,
          Clients,
          Longest,      \* [Clients -> bound: operations in a request]
          Words,        \* [Clients -> bound: types of operation it sends]
          Rules,        \* bound: the rules that may govern, a kind for each method
          Needed,       \* the fields a rule of conditions asks of the final data
          Own,          \* [Clients -> the documents whose id is the client's uid]
          MaxRequests,  \* bound: requests
          Old,          \* what the fields hold when a behaviour starts
          None

Methods == {"get", "create", "update", "delete"}
Kinds == {"public", "deny", "uid-self", "fields"}

ASSUME LongestAssumption == Longest \in [Clients -> Nat \ {0}]
ASSUME RulesAssumption == Rules \subseteq [Methods -> Kinds]
ASSUME OwnAssumption == Own \in [Clients -> SUBSET Docs]

Fields == 1..Max({Longest[c] : c \in Clients})

VARIABLES store,        \* [Docs -> Body or None]
          rules,        \* the governing rules: the kind of each method
          pc, loc,      \* [Clients -> step], [Clients -> locals]
          told,         \* [Docs -> the content of the last event on the bus]
          requests,
          crossed       \* history: documents whose events were overtaken on their way

vars == <<store, rules, pc, loc, told, requests, crossed>>

(* ------------------------------- operations ------------------------------- *)
\* "merge" is a set with options.merge, "other" any word the code does not know.
Types == {"get", "set", "merge", "add", "update", "delete", "create", "other"}
Op == [type : Types, doc : Docs]

ASSUME WordsAssumption == Words \in [Clients -> SUBSET Types]

Known(op) == op.type # "other"

\* op_method
Method(op, existed, tx) ==
    IF op.type \in {"get", "delete", "update"} THEN op.type
    ELSE IF existed /\ (op.type \in {"set", "merge"} \/ tx) THEN "update"
    ELSE "create"

\* policy.allow, from the copy that was read: a document of one's own is one that
\* was found, under the caller's uid.
Allowed(c, method, d, existing) ==
    CASE rules[method] = "deny" -> FALSE
      [] rules[method] = "uid-self" -> existing # None /\ d \in Own[c]
      [] OTHER -> TRUE

\* policy.allow_fields, from the final data.
AllowFields(method, data) ==
    rules[method] = "fields" => \A p \in Needed : data[p] # None

Merges(op, existed) ==
    CASE op.type \in {"add", "update", "merge"} -> TRUE
      [] op.type = "set" -> FALSE
      [] OTHER -> existed

Empty == [p \in Fields |-> None]
Raw(c, p) == [Empty EXCEPT ![p] = c]
Over(base, raw) == [p \in Fields |-> IF raw[p] # None \/ base = None THEN raw[p] ELSE base[p]]

\* The final data: merged into the copy that was read, whatever came before in the request.
Data(op, raw, existing) == IF Merges(op, existing # None) THEN Over(existing, raw) ELSE raw

MustExist(op, existed, tx) ==
    \/ op.type = "update"
    \/ tx /\ existed /\ op.type \in {"create", "other"}

IsPut(op) == op.type \notin {"get", "delete"}
Written(ops) == {ops[p].doc : p \in {q \in DOMAIN ops : ops[q].type # "get"}}

(* -------------------------------- handlers -------------------------------- *)
Idle == [ops |-> <<>>, tx |-> FALSE, copies |-> <<>>]
Goto(c, step, l) == pc' = [pc EXCEPT ![c] = step] /\ loc' = [loc EXCEPT ![c] = l]
Refuse(c) == /\ Goto(c, "idle", Idle)
             /\ UNCHANGED <<store, rules, told, requests, crossed>>

Init == /\ store \in [Docs -> {None, [p \in Fields |-> Old]}]
        /\ rules \in Rules
        /\ pc = [c \in Clients |-> "idle"]
        /\ loc = [c \in Clients |-> Idle]
        /\ told = store
        /\ requests = 0
        /\ crossed = {}

\* batch, transaction
Begin(c, ops, tx) ==
    /\ pc[c] = "idle" /\ requests < MaxRequests
    /\ requests' = requests + 1
    /\ Goto(c, "gate", [ops |-> ops, tx |-> tx, copies |-> <<>>])
    /\ UNCHANGED <<store, rules, told, crossed>>

NextOp(c) == loc[c].ops[Len(loc[c].copies) + 1]

\* Mutant: a document that was found is not looked at by the rules.
AdmitsUnseen(c, existing) ==
    LET op == NextOp(c) IN
    /\ Known(op) \/ loc[c].tx
    /\ rules[Method(op, existing # None, loc[c].tx)] # "deny"

\* The gates of the operation at hand, for the document the read has found.
Admits(c, existing) ==
    LET op == NextOp(c) IN
    /\ Known(op) \/ loc[c].tx
    /\ Allowed(c, Method(op, existing # None, loc[c].tx), op.doc, existing)

\* What the read may find: a read that fails counts as absent (.ok().flatten()).
Found(d) == {store[d], None}

\* One turn of the first loop: a read of the driver, then the gates.
Gate(c, existing) ==
    LET l2 == [loc[c] EXCEPT !.copies = Append(@, existing)]
    IN /\ pc[c] = "gate"
       /\ existing \in Found(NextOp(c).doc)
       /\ Admits(c, existing)
       /\ Goto(c, IF Len(l2.copies) = Len(l2.ops) THEN "apply" ELSE "gate", l2)
       /\ UNCHANGED <<store, rules, told, requests, crossed>>

GateRefuses(c, existing) ==
    /\ pc[c] = "gate"
    /\ existing \in Found(NextOp(c).doc)
    /\ ~Admits(c, existing)
    /\ Refuse(c)

\* The prepared operations, and whether their data passes.
Prepared(c) ==
    [p \in DOMAIN loc[c].ops |->
        LET op == loc[c].ops[p]
            existing == loc[c].copies[p]
        IN [type |-> IF IsPut(op) THEN "put" ELSE op.type, doc |-> op.doc,
            data |-> IF IsPut(op) THEN Data(op, Raw(c, p), existing) ELSE Empty,
            must |-> MustExist(op, existing # None, loc[c].tx)]]

Passes(c) == \A p \in DOMAIN loc[c].ops :
                IsPut(loc[c].ops[p]) =>
                   AllowFields(Method(loc[c].ops[p], loc[c].copies[p] # None, loc[c].tx),
                               Prepared(c)[p].data)

\* The driver's transaction, from what it finds: ok, the store and the reads.
Step(found, t) ==
    LET now == found.store[t.doc] IN
    IF t.must /\ now = None THEN [found EXCEPT !.ok = FALSE]
    ELSE CASE t.type = "get" -> [found EXCEPT !.reads = Append(@, now)]
           [] t.type = "delete" -> [found EXCEPT !.store[t.doc] = None]
           [] OTHER -> [found EXCEPT !.store[t.doc] = t.data]

\* What the first n operations come to, for each n.
After(s, ts) ==
    LET R[n \in 0..Len(ts)] ==
          IF n = 0 THEN [ok |-> TRUE, store |-> s, reads |-> <<>>]
          ELSE Step(R[n - 1], ts[n])
    IN R

RunTransaction(s, ts) == After(s, ts)[Len(ts)]

Apply(c) ==
    LET outcome == RunTransaction(store, Prepared(c))
        inFlight == {d \in Written(loc[c].ops) :
                       \E o \in Clients \ {c} : pc[o] = "emit" /\ d \in Written(loc[o].ops)}
    IN /\ pc[c] = "apply"
       /\ Passes(c) /\ outcome.ok
       /\ store' = outcome.store
       /\ crossed' = (crossed \ Written(loc[c].ops)) \cup inFlight
       /\ Goto(c, "emit", loc[c])
       /\ UNCHANGED <<rules, told, requests>>

\* The data is refused, an operation finds nothing to update, or the driver fails.
ApplyFails(c) == pc[c] = "apply" /\ Refuse(c)

\* The events of a request about a document, and what the last of them says.
Events(ts, d) == {p \in DOMAIN ts : ts[p].type # "get" /\ ts[p].doc = d}
Content(t) == IF t.type = "put" THEN t.data ELSE None

\* Mutant: the puts are told before the deletes.
ToldPutsFirst(before, ts) ==
    [d \in Docs |-> IF Events(ts, d) = {} THEN before[d]
                    ELSE IF \E p \in Events(ts, d) : ts[p].type = "delete" THEN None
                    ELSE Content(ts[Max(Events(ts, d))])]

\* One event for each write, in the order of the request.
Told(before, ts) ==
    [d \in Docs |-> IF Events(ts, d) = {} THEN before[d]
                    ELSE Content(ts[Max(Events(ts, d))])]

Emit(c) ==
    /\ pc[c] = "emit"
    /\ told' = Told(told, Prepared(c))
    /\ Goto(c, "idle", Idle)
    /\ UNCHANGED <<store, rules, requests, crossed>>

Next == \E c \in Clients :
          \/ \E n \in 1..Longest[c] : \E ops \in [1..n -> [type : Words[c], doc : Docs]],
                                  tx \in BOOLEAN : Begin(c, ops, tx)
          \/ \E existing \in {None} \cup {store[d] : d \in Docs} :
                Gate(c, existing) \/ GateRefuses(c, existing)
          \/ Apply(c) \/ ApplyFails(c)
          \/ Emit(c)

Spec == Init /\ [][Next]_vars

(* ------------------------------- properties ------------------------------- *)
\* The same operation sent alone, with all its gates, to the documents as they are.
Alone(found, c, p) ==
    LET op == loc[c].ops[p]
        now == found.store[op.doc]
        tx == loc[c].tx
        method == Method(op, now # None, tx)
        data == Data(op, Raw(c, p), now)
    IN IF \/ ~Allowed(c, method, op.doc, now)
          \/ IsPut(op) /\ ~AllowFields(method, data)
          \/ op.type = "update" /\ now = None
         THEN [found EXCEPT !.ok = FALSE]
         ELSE CASE op.type = "get" -> [found EXCEPT !.reads = Append(@, now)]
                [] op.type = "delete" -> [found EXCEPT !.store[op.doc] = None]
                [] OTHER -> [found EXCEPT !.store[op.doc] = data]

InTurn(c) ==
    LET R[n \in 0..Len(loc[c].ops)] ==
          IF n = 0 THEN [ok |-> TRUE, store |-> store, reads |-> <<>>]
          ELSE Alone(R[n - 1], c, n)
    IN R

Sequential(c) == InTurn(c)[Len(loc[c].ops)]

\* Some document is not what the operation read when it was gated: it was written
\* since, or the read failed and the document counted as absent.
Overtaken(c) == \E p \in DOMAIN loc[c].copies : loc[c].copies[p] # store[loc[c].ops[p].doc]

\* A put goes by the copy that was read; so does a read or a delete under a rule that
\* looks at the document.
GoesByCopy(op) == IsPut(op) \/ rules[op.type] = "uid-self"

\* An operation goes by the copy of a document that an earlier one of the request writes.
Repeats(c) ==
    \E p, q \in DOMAIN loc[c].ops :
        /\ p < q /\ loc[c].ops[p].doc = loc[c].ops[q].doc
        /\ loc[c].ops[p].type # "get" /\ GoesByCopy(loc[c].ops[q])

\* "The whole write set applies in one driver transaction: all or none", "reads resolve
\* against the batch's own writes": a request that is applied does what its operations
\* would do sent one after the other, each with its gates, and reads what they would read -
\* unless a document was written between its gate and the transaction, a read at a gate
\* failed, or the request writes a document and goes by the copy of it again, for both
\* gates and merges use the copies read before.
BatchIsSequential ==
    [][\A c \in Clients :
         pc[c] = "apply" /\ pc'[c] = "emit" /\ ~Overtaken(c) /\ ~Repeats(c) =>
            RunTransaction(store, Prepared(c)) = Sequential(c) /\ store' = Sequential(c).store]_vars

\* The bus is the instant lane of the subscribers: the last event about a document is
\* what the store holds, unless its sender is still on the way or was overtaken there.
BusFollowsStore ==
    \A d \in Docs \ crossed :
        (\A c \in Clients : pc[c] = "emit" => d \notin Written(loc[c].ops)) => told[d] = store[d]
==================================================================================
