------------------------------- MODULE Drivers -------------------------------
(***************************************************************************)
(* The document operations of the SQLite, PostgreSQL, MySQL and RethinkDB   *)
(* drivers (get, insert, set, delete, run_transaction), statement by         *)
(* statement, on one document id of a few collections.                       *)
(*                                                                         *)
(* The SQL drivers keep every collection whose path has the same even        *)
(* segments in one table keyed by id (flat_table_name); a row carries its    *)
(* collection in _collectionPath.  RethinkDB has a table per collection and  *)
(* no transactions: the driver emulates them and rolls back by itself.       *)
(*                                                                         *)
(* Each client sends one request, picked in Init.  A put writes the field of its client, its *)
(* value the position of the operation in the request.                       *)
(***************************************************************************)
EXTENDS Naturals, Sequences

CONSTANTS Engines,      \* the drivers looked at
          Clients,      \* concurrent callers; also the names of the fields
          Subs,         \* subcollections that share one flat table
          Top,          \* the top-level collection with the table's own name
          MaxOps,       \* bound: operations in a transaction
          MaxFaults,    \* bound: requests to RethinkDB that get no answer
          None,         \* no document
          Nothing       \* not written yet

ASSUME EnginesAssumption ==
    Engines \subseteq {"sqlite", "postgres", "mysql", "rethinkdb"}
ASSUME MaxOpsAssumption == MaxOps \in Nat \ {0}
ASSUME MaxFaultsAssumption == MaxFaults \in Nat

Colls == Subs \cup {Top}
Old == 0                                \* the value of a field written before
Unset == MaxOps + 1                     \* the field is not in the document
Body == [Clients -> 0..MaxOps + 1]
Row == [path : Colls, body : Body]

ASSUME NoneAssumption == /\ None \notin Clients \cup Body \cup Row
                         /\ Nothing \notin {None} \cup Body \cup Row

VARIABLES driver,       \* the engine in use
          row,          \* [Colls -> Row or None]: the row stored under the id
          holder,       \* SQL: the client that has the row's write lock, or None
          req,          \* [Clients -> request]
          pc,           \* [Clients -> step]
          loc,          \* [Clients -> locals]
          ans,          \* [Clients -> result and outs]
          faults        \* requests to RethinkDB without an answer so far

vars == <<driver, row, holder, req, pc, loc, ans, faults>>

------------------------------------------------------------------------------
(* Requests *)

Op == [do : {"read", "delete", "insert", "merge", "replace"}, must : BOOLEAN]
Plain(d) == [do |-> d, must |-> FALSE]
Single == {<<Plain(d)>> : d \in {"insert", "merge", "replace", "delete"}}
BatchOps == {Plain(d) : d \in {"read", "delete", "merge", "replace"}}
              \cup {[do |-> d, must |-> TRUE] : d \in {"merge", "replace"}}
Batch == UNION {[1..n -> BatchOps] : n \in 1..MaxOps}

Request == [coll : Colls, tx : {FALSE}, ops : Single]
             \cup [coll : Colls, tx : {TRUE}, ops : Batch]

Flat == driver # "rethinkdb"
Slot(k) == IF Flat THEN Top ELSE k
Home(c) == Slot(req[c].coll)
Here(c) == row[Home(c)]
OpAt(c) == req[c].ops[loc[c].at]

\* Mutant: the path filter is forgotten.
SeesAnyRow(k, r) == r # None

\* Only a path with a slash is filtered by _collectionPath.
Sees(k, r) == r # None /\ (k = Top \/ r.path = k)
BodyOf(k, r) == IF Sees(k, r) THEN r.body ELSE None
RowOf(k, b) == IF b = None THEN None ELSE [path |-> k, body |-> b]

Empty == [f \in Clients |-> Unset]
Sent(c, n) == [Empty EXCEPT ![c] = n]
Over(b, w) == [f \in Clients |-> IF w[f] # Unset THEN w[f]
                                 ELSE IF b = None THEN Unset ELSE b[f]]

\* UPDATE ... SET data on a row the statement matches: the text drivers store
\* what they were given, which for a top-level access has no _collectionPath.
Updated(k, r, b) ==
    IF driver = "postgres" THEN [r EXCEPT !.body = Over(@, b)] ELSE RowOf(k, b)

Out(b, doc) == [existed |-> b # None, doc |-> doc]

------------------------------------------------------------------------------
(* What a request means when nothing comes between its operations *)

Atomic(k, r, op, w) ==
    LET b == BodyOf(k, r)
        is(rr, doc) == [row |-> rr, res |-> "ok", out |-> Out(b, doc)]
        err(e) == [row |-> r, res |-> e, out |-> Out(None, None)]
    IN CASE op.do = "read" -> is(r, b)
         [] op.do = "delete" -> is(IF b = None THEN r ELSE None, b)
         [] op.do = "replace" /\ (b # None \/ ~op.must) -> is(RowOf(k, w), w)
         [] op.do = "merge" /\ b # None -> is(Updated(k, r, Over(b, w)), Over(b, w))
         [] OTHER -> IF op.must THEN err("notfound")
                     ELSE IF r # None THEN err("exists")
                     ELSE is(RowOf(k, w), w)

\* One more operation after those that led to sofar; r is where the request began.
Then(k, r, sofar, op, w) ==
    LET a == Atomic(k, sofar.row, op, w)
    IN IF sofar.res # "ok" THEN sofar
       ELSE IF a.res # "ok" THEN [row |-> r, res |-> a.res, outs |-> <<>>]
       ELSE [row |-> a.row, res |-> "ok", outs |-> Append(sofar.outs, a.out)]

\* What the first n operations of a request come to, for each n.
After(k, r, ops, c) ==
    LET R[n \in 0..Len(ops)] ==
          IF n = 0 THEN [row |-> r, res |-> "ok", outs |-> <<>>]
          ELSE Then(k, r, R[n - 1], ops[n], Sent(c, n))
    IN R

Run(k, r, ops, c) == After(k, r, ops, c)[Len(ops)]

------------------------------------------------------------------------------
(* Plumbing *)

Fresh == [at |-> 1, read |-> FALSE, snap |-> None, seen |-> None, new |-> Empty,
          own |-> Nothing, outs |-> <<>>, over |-> Nothing, log |-> <<>>,
          late |-> FALSE, torn |-> FALSE, tries |-> 0, res |-> "ok"]

\* The first step of a request, by the driver's code.
FirstStep(r) ==
    LET do == r.ops[1].do
    IN IF ~Flat THEN (IF do = "insert" THEN "apply" ELSE "gather")
       ELSE IF r.tx THEN "txget"
       ELSE IF driver # "postgres" /\ do \in {"merge", "delete"} THEN "get"
       ELSE CASE do = "insert" -> "insert"
              [] do = "merge" -> "update"
              [] do = "replace" -> "upsert"
              [] OTHER -> "delete"

Goto(c, step) == pc' = [pc EXCEPT ![c] = step]

\* The row under home h becomes r by a step of c that leaves it the locals l:
\* whoever has read the slot and is not done has been overtaken.
Put(c, h, r, l) ==
    /\ row' = [row EXCEPT ![h] = r]
    /\ loc' = [d \in Clients |->
                 IF d = c THEN l
                 ELSE IF r # row[h] /\ loc[d].read /\ Home(d) = h
                   THEN [loc[d] EXCEPT !.late = TRUE] ELSE loc[d]]

Finish(c, res, outs) ==
    /\ Goto(c, "done")
    /\ ans' = [ans EXCEPT ![c] = [res |-> res, outs |-> outs]]

Answer(c, res, outs) ==
    Finish(c, res, outs) /\ loc' = [loc EXCEPT ![c] = Fresh] /\ UNCHANGED row

\* A statement that commits by itself, or the COMMIT, and ends the request.  When the
\* connection breaks before the engine's answer, what it has committed is an error here.
Commits(c, r, outs) ==
    /\ Put(c, Home(c), r, Fresh)
    /\ Finish(c, "ok", outs) \/ Finish(c, "error", <<>>)

Unlocked(c) == holder \in {None, c}

------------------------------------------------------------------------------
(* SQL: statements outside a transaction *)

\* set(merge) and delete of the text drivers read the document first.
GetFirst(c) ==
    LET b == BodyOf(req[c].coll, Here(c)) IN
    /\ pc[c] = "get"
    /\ IF req[c].ops[1].do = "delete" /\ b = None
         THEN Answer(c, "ok", <<Out(None, None)>>)
         ELSE /\ Goto(c, IF req[c].ops[1].do = "delete" THEN "delete" ELSE "update")
              /\ loc' = [loc EXCEPT ![c].read = TRUE, ![c].seen = b,
                                    ![c].new = Over(b, @)]
              /\ UNCHANGED <<row, ans>>

\* UPDATE ... WHERE id = ? AND _collectionPath = ?; no row: insert.
Update(c) ==
    /\ pc[c] = "update" /\ Unlocked(c)
    /\ IF Sees(req[c].coll, Here(c))
         THEN Commits(c, Updated(req[c].coll, Here(c), loc[c].new),
                      <<Out(loc[c].new, loc[c].new)>>)
         ELSE Goto(c, "insert") /\ UNCHANGED <<row, loc, ans>>

\* INSERT ... ON CONFLICT DO NOTHING, INSERT IGNORE.
Insert(c) ==
    /\ pc[c] = "insert" /\ Unlocked(c)
    /\ IF Here(c) = None
         THEN Commits(c, RowOf(req[c].coll, loc[c].new), <<Out(None, loc[c].new)>>)
         ELSE Answer(c, "exists", <<>>)

\* INSERT ... ON CONFLICT (id) DO UPDATE, ON DUPLICATE KEY UPDATE.
Upsert(c) ==
    /\ pc[c] = "upsert" /\ Unlocked(c)
    /\ Commits(c, RowOf(req[c].coll, loc[c].new),
               <<Out(BodyOf(req[c].coll, Here(c)), loc[c].new)>>)

\* DELETE ... WHERE id = ? AND _collectionPath = ?.  The text drivers answer
\* what they read before, PostgreSQL what the statement RETURNs.
DeleteRow(c) ==
    LET k == req[c].coll
        b == IF driver = "postgres" THEN BodyOf(k, Here(c)) ELSE loc[c].seen
    IN /\ pc[c] = "delete" /\ Unlocked(c)
       /\ Commits(c, IF Sees(k, Here(c)) THEN None ELSE Here(c), <<Out(b, b)>>)

------------------------------------------------------------------------------
(* SQL: run_transaction *)

Cur(c) == IF loc[c].own # Nothing THEN loc[c].own ELSE Here(c)

\* Mutant: reads on the pool instead of on the transaction.
ViewCommitted(c) == IF driver # "postgres" /\ loc[c].read THEN loc[c].snap ELSE Here(c)

\* A SELECT inside the transaction: PostgreSQL reads what is committed now,
\* SQLite and MySQL the snapshot of the first read; each its own writes.
ViewOf(c) ==
    IF loc[c].own # Nothing THEN loc[c].own
    ELSE IF driver # "postgres" /\ loc[c].read THEN loc[c].snap
    ELSE Here(c)

Release(c) == holder' = IF holder = c THEN None ELSE holder

Abort(c, res) == Answer(c, res, <<>>) /\ Release(c)

\* The next operation of the loop, with out pushed.
NextOp(c, out) ==
    /\ Goto(c, "txget")
    /\ loc' = [loc EXCEPT ![c].at = @ + 1, ![c].outs = Append(@, out)]
    /\ UNCHANGED <<row, holder, ans>>

\* get_tx, which every operation begins with.
TxRead(c) ==
    LET v == ViewOf(c)
        b == BodyOf(req[c].coll, v)
        l == [loc[c] EXCEPT !.read = TRUE, !.seen = b,
                            !.snap = IF loc[c].read THEN @ ELSE v]
    IN /\ pc[c] = "txget" /\ loc[c].at <= Len(req[c].ops)
       /\ \/ /\ OpAt(c).do = "read" \/ (OpAt(c).do = "delete" /\ b = None)
             /\ loc' = [loc EXCEPT ![c] = [l EXCEPT !.at = @ + 1,
                                            !.outs = Append(@, Out(b, b))]]
             /\ UNCHANGED <<row, holder, pc, ans>>
          \/ OpAt(c).must /\ b = None /\ Abort(c, "notfound")
          \/ /\ OpAt(c).do # "read"
             /\ b # None \/ (OpAt(c).do # "delete" /\ ~OpAt(c).must)
             /\ Goto(c, IF OpAt(c).do = "delete" THEN "txdelete" ELSE "txput")
             /\ loc' = [loc EXCEPT ![c] =
                  [l EXCEPT !.new = Over(IF OpAt(c).do = "merge" THEN b ELSE None,
                                         Sent(c, loc[c].at))]]
             /\ UNCHANGED <<row, holder, ans>>

\* SQLite upgrades a read transaction to a write transaction only while its
\* snapshot is the newest and nobody else writes.
Busy(c) == driver = "sqlite" /\ (loc[c].late \/ ~Unlocked(c))

\* Mutant: the statement is run on the pool, and commits by itself.
WritesAtOnce(c, r, out) ==
    /\ Goto(c, "txget")
    /\ Put(c, Home(c), r, [loc[c] EXCEPT !.at = @ + 1, !.outs = Append(@, out)])
    /\ UNCHANGED <<holder, ans>>

\* A statement leaves r as the transaction's own version, locked.
Writes(c, r, out) ==
    /\ Goto(c, "txget")
    /\ loc' = [loc EXCEPT ![c].own = r, ![c].at = @ + 1,
                          ![c].outs = Append(@, out)]
    /\ holder' = c
    /\ UNCHANGED <<row, ans>>

\* set_tx after its read: UPDATE, or the upsert of a replace.
TxWrite(c) ==
    LET k == req[c].coll IN
    /\ pc[c] = "txput"
    /\ IF Busy(c) THEN Abort(c, "busy")
       ELSE /\ Unlocked(c)
            /\ CASE OpAt(c).do = "replace" ->
                      Writes(c, RowOf(k, loc[c].new), Out(loc[c].seen, loc[c].new))
                 [] OpAt(c).do = "merge" /\ Sees(k, Cur(c)) ->
                      Writes(c, Updated(k, Cur(c), loc[c].new),
                             Out(loc[c].seen, loc[c].new))
                 [] OTHER -> Goto(c, "txinsert") /\ UNCHANGED <<row, loc, holder, ans>>

\* insert_tx, after an UPDATE that matched nothing.
TxInsert(c) ==
    /\ pc[c] = "txinsert"
    /\ IF Busy(c) THEN Abort(c, "busy")
       ELSE /\ Unlocked(c)
            /\ IF Cur(c) = None
                 THEN Writes(c, RowOf(req[c].coll, loc[c].new),
                             Out(loc[c].seen, loc[c].new))
                 ELSE Abort(c, "exists")

\* delete_tx after its read.
TxDelete(c) ==
    LET b == loc[c].seen IN
    /\ pc[c] = "txdelete"
    /\ IF Busy(c) THEN Abort(c, "busy")
       ELSE /\ Unlocked(c)
            /\ IF Sees(req[c].coll, Cur(c)) THEN Writes(c, None, Out(b, b))
                                            ELSE NextOp(c, Out(b, b))

Commit(c) ==
    /\ pc[c] = "txget" /\ loc[c].at > Len(req[c].ops)
    /\ Commits(c, Cur(c), loc[c].outs)
    /\ Release(c)

\* A statement fails (pool, connection, deadlock) and has done nothing: a dropped
\* transaction is rolled back.  One that has done its work and fails is in Commits.
StatementFails(c) ==
    /\ Flat /\ pc[c] # "done"
    /\ Abort(c, "error")

------------------------------------------------------------------------------
(* The three SQL drivers *)

Locked(A) == A /\ UNCHANGED holder

SqliteInsert(c) == driver = "sqlite" /\ Locked(Insert(c))
SqliteSet(c) == driver = "sqlite" /\ req[c].ops[1].do # "delete"
                  /\ Locked(GetFirst(c) \/ Update(c) \/ Upsert(c))
SqliteDelete(c) == driver = "sqlite" /\ req[c].ops[1].do = "delete"
                     /\ Locked(GetFirst(c) \/ DeleteRow(c))
SqliteTx(c) == driver = "sqlite" /\ (TxRead(c) \/ Commit(c))
SqliteTxPut(c) == driver = "sqlite" /\ (TxWrite(c) \/ TxInsert(c))
SqliteTxDelete(c) == driver = "sqlite" /\ TxDelete(c)

PgInsert(c) == driver = "postgres" /\ Locked(Insert(c))
PgSet(c) == driver = "postgres" /\ Locked(Update(c) \/ Upsert(c))
PgDelete(c) == driver = "postgres" /\ Locked(DeleteRow(c))
PgTx(c) == driver = "postgres" /\ (TxRead(c) \/ Commit(c))
PgTxPut(c) == driver = "postgres" /\ (TxWrite(c) \/ TxInsert(c))
PgTxDelete(c) == driver = "postgres" /\ TxDelete(c)

MysqlInsert(c) == driver = "mysql" /\ Locked(Insert(c))
MysqlSet(c) == driver = "mysql" /\ req[c].ops[1].do # "delete"
                 /\ Locked(GetFirst(c) \/ Update(c) \/ Upsert(c))
MysqlDelete(c) == driver = "mysql" /\ req[c].ops[1].do = "delete"
                    /\ Locked(GetFirst(c) \/ DeleteRow(c))
MysqlTx(c) == driver = "mysql" /\ (TxRead(c) \/ Commit(c))
MysqlTxPut(c) == driver = "mysql" /\ (TxWrite(c) \/ TxInsert(c))
MysqlTxDelete(c) == driver = "mysql" /\ TxDelete(c)

Sqlite(c) == \/ SqliteInsert(c) \/ SqliteSet(c) \/ SqliteDelete(c)
             \/ SqliteTx(c) \/ SqliteTxPut(c) \/ SqliteTxDelete(c)
Postgres(c) == \/ PgInsert(c) \/ PgSet(c) \/ PgDelete(c)
               \/ PgTx(c) \/ PgTxPut(c) \/ PgTxDelete(c)
Mysql(c) == \/ MysqlInsert(c) \/ MysqlSet(c) \/ MysqlDelete(c)
            \/ MysqlTx(c) \/ MysqlTxPut(c) \/ MysqlTxDelete(c)

------------------------------------------------------------------------------
(* RethinkDB *)

\* The document as the operation sees it: the overlay of the batch's own puts
\* over what was read.  A delete leaves the overlay alone.
Prev(c) == IF loc[c].over # Nothing THEN loc[c].over ELSE loc[c].seen

\* get before a set or delete; the gathering phase of a transaction.  One
\* document is read once, and must_exist asked of its first operation.
Gather(c) ==
    LET b == BodyOf(req[c].coll, Here(c)) IN
    /\ pc[c] = "gather"
    /\ IF OpAt(c).must /\ b = None THEN Answer(c, "notfound", <<>>)
       ELSE /\ Goto(c, "apply")
            /\ loc' = [loc EXCEPT ![c].read = TRUE, ![c].seen = b]
            /\ UNCHANGED <<row, ans>>

\* After operation at: the next one, or the end of the request.
Done(c, out) == IF loc[c].at = Len(req[c].ops)
                  THEN Finish(c, "ok", Append(loc[c].outs, out))
                  ELSE UNCHANGED <<pc, ans>>
Past(c, l, out) == IF loc[c].at = Len(req[c].ops) THEN Fresh
                   ELSE [l EXCEPT !.at = @ + 1, !.outs = Append(@, out), !.tries = 0]

\* A read, or a delete of nothing, sends no request.
ApplyRead(c) ==
    LET out == Out(Prev(c), Prev(c)) IN
    /\ pc[c] = "apply"
    /\ OpAt(c).do = "read" \/ (OpAt(c).do = "delete" /\ Prev(c) = None)
    /\ Done(c, out)
    /\ loc' = [loc EXCEPT ![c] = Past(c, loc[c], out)]
    /\ UNCHANGED row

\* The write request of an operation and its effect on the table.
Writing(c) == pc[c] = "apply" /\ OpAt(c).do # "read"
                /\ (OpAt(c).do = "delete" => Prev(c) # None)
What(c) == IF OpAt(c).do = "merge" THEN Over(Prev(c), Sent(c, loc[c].at))
           ELSE Sent(c, loc[c].at)
Conflicts(c) == OpAt(c).do # "delete" /\ Prev(c) = None /\ Here(c) # None
Effect(c) == CASE OpAt(c).do = "delete" -> None
               [] Conflicts(c) -> Here(c)
               [] OTHER -> RowOf(req[c].coll, What(c))

\* raw_put, raw_delete, replace, insert: the request is carried out.  A put
\* enters the overlay, and both the rollback log.
ApplyWrite(c) ==
    LET prev == Prev(c)
        put == OpAt(c).do # "delete"
        out == IF put THEN Out(prev, What(c)) ELSE Out(prev, prev)
        l == [loc[c] EXCEPT !.log = <<prev>> \o @,
                            !.over = IF put THEN What(c) ELSE @]
    IN /\ Writing(c) /\ ~Conflicts(c)
       /\ Put(c, Home(c), Effect(c), Past(c, l, out))
       /\ Done(c, out)

\* The operation has failed: a transaction undoes what its log holds.
Fails(c, res, r, torn) ==
    IF req[c].tx
      THEN /\ Goto(c, "undo")
           /\ Put(c, Home(c), r, [loc[c] EXCEPT !.res = res, !.torn = @ \/ torn])
           /\ UNCHANGED ans
      ELSE Put(c, Home(c), r, Fresh) /\ Finish(c, res, <<>>)

\* "Duplicate primary key".
ApplyConflicts(c) ==
    Writing(c) /\ Conflicts(c) /\ Fails(c, "exists", Here(c), FALSE)

\* exec_one: the connection breaks after the request was carried out; it is
\* sent once more on a new session.
Breaks == faults < MaxFaults /\ faults' = faults + 1

ReplyLost(c) ==
    /\ Breaks
    /\ Writing(c) /\ ~Conflicts(c) /\ loc[c].tries = 0
    /\ Put(c, Home(c), Effect(c), [loc[c] EXCEPT !.tries = 1, !.torn = TRUE])
    /\ UNCHANGED <<pc, ans>>

\* The second attempt fails too, carried out or not.
RequestFails(c) ==
    /\ Writing(c) /\ Breaks
    /\ \E done \in BOOLEAN :
         Fails(c, "error", IF done THEN Effect(c) ELSE Here(c), done /\ ~Conflicts(c))

\* Mutant: only documents that existed are restored.
UndoRestoresOnly(c) ==
    /\ pc[c] = "undo" /\ loc[c].log # <<>>
    /\ IF Head(loc[c].log) = None
         THEN loc' = [loc EXCEPT ![c].log = Tail(@)] /\ UNCHANGED row
         ELSE Put(c, Home(c), RowOf(req[c].coll, Head(loc[c].log)),
                  [loc[c] EXCEPT !.log = Tail(@)])
    /\ UNCHANGED <<pc, ans>>

\* rollback: the log from its end, each step best effort.
Undo(c) ==
    /\ pc[c] = "undo" /\ loc[c].log # <<>>
    /\ Put(c, Home(c), RowOf(req[c].coll, Head(loc[c].log)),
           [loc[c] EXCEPT !.log = Tail(@)])
    /\ UNCHANGED <<pc, ans>>
UndoFails(c) ==
    /\ Breaks
    /\ pc[c] = "undo" /\ loc[c].log # <<>>
    /\ loc' = [loc EXCEPT ![c].log = Tail(@), ![c].torn = TRUE]
    /\ UNCHANGED <<row, pc, ans>>
UndoEnds(c) ==
    /\ pc[c] = "undo" /\ loc[c].log = <<>>
    /\ Answer(c, loc[c].res, <<>>)

Rethink(c) ==
    /\ driver = "rethinkdb"
    /\ UNCHANGED holder
    /\ \/ /\ UNCHANGED faults
          /\ \/ Gather(c) \/ ApplyRead(c) \/ ApplyWrite(c) \/ ApplyConflicts(c)
             \/ Undo(c) \/ UndoEnds(c)
       \/ ReplyLost(c) \/ RequestFails(c) \/ UndoFails(c)

------------------------------------------------------------------------------
Stored(k) == {None} \cup {RowOf(k, [f \in Clients |-> Old])}

Init ==
    /\ driver \in Engines
    /\ row \in [Colls -> UNION {Stored(k) : k \in Colls}]
    /\ \A k \in Colls : row[k] # None =>
         IF Flat THEN k = Top ELSE k # Top /\ row[k].path = k
    /\ holder = None
    /\ faults = 0
    /\ req \in [Clients -> Request]
    /\ pc = [c \in Clients |-> FirstStep(req[c])]
    /\ loc = [c \in Clients |-> [Fresh EXCEPT !.new = Sent(c, 1)]]
    /\ ans = [c \in Clients |-> None]

Finished == (\A c \in Clients : pc[c] = "done") /\ UNCHANGED vars

Step(c) ==
    /\ pc[c] # "done"
    /\ UNCHANGED <<driver, req>>
    /\ \/ /\ UNCHANGED faults
          /\ Sqlite(c) \/ Postgres(c) \/ Mysql(c) \/ StatementFails(c)
       \/ Rethink(c)

Next == (\E c \in Clients : Step(c)) \/ Finished

Spec == Init /\ [][Next]_vars

------------------------------------------------------------------------------
(* Properties *)

\* Between its read and its write another client has written, in a driver that
\* stores what it read: SQLite and MySQL outside transactions, PostgreSQL and
\* (unless it only reads) MySQL inside, RethinkDB everywhere.
Overtaken(c) ==
    /\ loc[c].late
    /\ driver # (IF req[c].tx THEN "sqlite" ELSE "postgres")
    /\ driver = "mysql" => \E n \in 1..Len(req[c].ops) : req[c].ops[n].do # "read"

\* RethinkDB only: the batch goes on after a delete of its own, or asks
\* must_exist of an operation that is not the first.
Misjudged(c) ==
    ~Flat /\ \E n \in 1..Len(req[c].ops) :
                 \/ req[c].ops[n].do = "delete" /\ n < Len(req[c].ops)
                 \/ req[c].ops[n].must /\ n > 1

\* What a request finds: an emulated transaction, what it gathered; one with a
\* snapshot, the snapshot.
Base(c) == IF ~req[c].tx THEN Here(c)
           ELSE IF ~Flat THEN RowOf(req[c].coll, loc[c].seen)
           ELSE IF driver # "postgres" THEN loc[c].snap
           ELSE Here(c)

\* PostgreSQL answers a merge outside a transaction with the fields it was
\* sent, and no single set says whether the document existed.
SameAnswer(c, a, b) ==
    \/ a = b
    \/ /\ ~req[c].tx /\ Len(a) = Len(b)
       /\ \/ req[c].ops[1].do = "merge" /\ driver = "postgres"
          \/ \A n \in 1..Len(a) : a[n].doc = b[n].doc

Ends(c) == pc[c] # "done" /\ pc'[c] = "done"

\* What the whole request comes to in one go, and what it leaves stored.
Whole(c) == Run(req[c].coll, Base(c), req[c].ops, c)
Leaves(c) == IF Flat /\ Whole(c).row = Base(c) THEN Here(c) ELSE Whole(c).row

\* DRIVER_CONTRACT.md section 3 (set merges, delete returns the document it
\* deletes, run_transaction is atomic and reads its own writes): a request that
\* is answered has done, in one step, what its operations do in one go from the
\* state it ends in, with those answers - unless it was overtaken (see
\* Overtaken), its connection broke, RethinkDB misjudged the batch, or a merge
\* outside a transaction that found no row then could not insert one.
RequestsAreAtomic ==
    [][\A c \in Clients :
         /\ Ends(c) /\ ans'[c].res \in {"ok", "exists", "notfound"}
         /\ ~Overtaken(c) /\ ~loc[c].torn /\ ~Misjudged(c)
         /\ ~(pc[c] = "insert" /\ req[c].ops[1].do = "merge" /\ ans'[c].res = "exists")
         => /\ row'[Home(c)] = Leaves(c)
            /\ ans'[c].res = Whole(c).res
            /\ SameAnswer(c, ans'[c].outs, Whole(c).outs)]_vars

\* "All ops apply or none do": the SQL drivers change a row only in the step that ends a
\* request, and a request that is refused leaves the document as it found it.  One that
\* fails does too, or its answer was lost: then the SQL drivers have
\* done the whole of it, in one step, from the state it ends in (unless it was overtaken,
\* see Overtaken); RethinkDB's batch may have done a part, if another client wrote
\* meanwhile or a request of the batch or of its rollback got no answer.
FailuresLeaveNoTrace ==
    [][/\ Flat /\ row' # row => \E c \in Clients : Ends(c)
       /\ \A c \in Clients :
            Ends(c) /\ ans'[c].res # "ok"
            => \/ row'[Home(c)] = IF Flat THEN Here(c) ELSE Base(c)
               \/ /\ Flat /\ ans'[c].res = "error"
                  /\ Overtaken(c) \/ row'[Home(c)] = Leaves(c)
               \/ ~Flat /\ (loc[c].late \/ loc[c].torn \/ (ans'[c].res = "error" /\ ~req[c].tx))]_vars

\* One id in several collections: a step for one of them leaves what the others hold,
\* but for the top-level collection that has the table's name (it sees every row, and
\* is seen by all), and a full replace in the flat table, whose ON CONFLICT does not
\* look at the path: that may take the row over, so that the other collection's document
\* is gone - but never changed or made.
CollectionsKeepApart ==
    [][\A k \in Colls :
         LET before == BodyOf(k, row[Slot(k)])
             after == BodyOf(k, row'[Slot(k)])
         IN after # before
            => \E c \in Clients :
                 /\ pc'[c] # pc[c] \/ loc'[c] # loc[c]
                 /\ \/ req[c].coll = k
                    \/ Flat /\ Top \in {k, req[c].coll}
                    \/ /\ Flat /\ after = None
                       /\ \E n \in 1..Len(req[c].ops) : req[c].ops[n].do = "replace"]_vars

\* DRIVER_CONTRACT.md:47 for the emulated transaction: a batch that is answered
\* while nobody else writes and nothing fails gives the answers its operations
\* give one after the other.
BatchContract ==
    [][\A c \in Clients :
         /\ Ends(c) /\ req[c].tx /\ ~loc[c].late /\ ~loc[c].torn
         /\ ans'[c].res \in {"ok", "notfound"}
         => ans'[c].res = Whole(c).res /\ ans'[c].outs = Whole(c).outs]_vars
=============================================================================
