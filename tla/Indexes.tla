------------------------------- MODULE Indexes -------------------------------
(***************************************************************************)
(* Index management of the drivers: what a create or a drop does, statement   *)
(* by statement, to the engine's schema and to the driver's own registry,      *)
(* and what a list then says.                                                *)
(*                                                                         *)
(* A name, a field and a segment are sequences of the words between their      *)
(* underscores, since physical names are joined with underscores.             *)
(***************************************************************************)
EXTENDS Naturals, Sequences, FiniteSets, SequencesExt

CONSTANT None

Drivers == {"sqlite", "postgres", "mysql", "rethinkdb", "hako"}

\* The name may be None; a kind is "simple", "composite" or "fts".
IndexSpec(name, fields, unique, kind) ==
    [name |-> name, fields |-> fields, unique |-> unique, kind |-> kind]

\* A request names a collection, and holds a spec to create or a name to drop.
Creates(r) == r.op = "create"

\* flat_table_name: subcollections of one name share a table.
FlatTable(c) == FlattenSeq([i \in 1..((Len(c) + 1) \div 2) |-> c[2 * i - 1]])
Table(d, c) == IF d \in {"rethinkdb", "hako"} THEN c ELSE FlatTable(c)

------------------------------------------------------------------------------
(* Names *)

AutoName(spec) ==
    IF spec.kind = "simple" THEN spec.fields[1]
    ELSE <<spec.kind>> \o FlattenSeq([i \in 1..Len(spec.fields) |-> <<"+">> \o spec.fields[i]])

Logical(d, spec) == IF spec.name = None \/ d = "hako" THEN AutoName(spec) ELSE spec.name

\* safe_index_name
Physical(d, c, spec) ==
    IF d \in {"rethinkdb", "hako"} THEN Logical(d, spec)
    ELSE IF spec.name # None THEN spec.name
    ELSE <<IF spec.kind = "fts" THEN "fts" ELSE "idx">> \o FlatTable(c) \o FlattenSeq(spec.fields)

\* Sqlite and PostgreSQL keep one space of names, the others one for each table.
SameName(d, o, p) == /\ o.name = p.name /\ o.part = p.part
                     /\ d \in {"mysql", "rethinkdb", "hako"} => o.table = p.table

------------------------------------------------------------------------------
(* The engine's objects and the registry's rows; statements that may fail *)

\* An object is an index, or with part > 0 what a full-text index is made of besides.
Fields(d, spec) == IF d = "rethinkdb" THEN <<Logical(d, spec)>> ELSE spec.fields
Object(d, c, spec, part) ==
    [name |-> Physical(d, c, spec), table |-> Table(d, c), part |-> part,
     fields |-> Fields(d, spec), unique |-> spec.unique /\ d # "hako", kind |-> spec.kind]

Row(d, c, spec) == [ddl |-> Physical(d, c, spec), fields |-> spec.fields,
                    unique |-> spec.unique, kind |-> spec.kind]

Empty == [objects |-> {}, rows |-> [k \in {} |-> None], ok |-> TRUE]

Failed(db) == [db EXCEPT !.ok = FALSE]
There(d, db, o) == \E p \in db.objects : SameName(d, o, p)

Ensure(o) == [do |-> "ensure", o |-> o]           \* CREATE ... IF NOT EXISTS
Make(o) == [do |-> "make", o |-> o]               \* CREATE
DropIf(o) == [do |-> "drop_if", o |-> o]          \* DROP ... IF EXISTS
Drop(o) == [do |-> "drop", o |-> o]               \* DROP
Register(key, row) == [do |-> "row", key |-> key, row |-> row]
Unregister(key) == [do |-> "no_row", key |-> key]

Adds(db, s) == [db EXCEPT !.objects = @ \cup {s.o}]
Takes(d, db, s) == [db EXCEPT !.objects = {p \in @ : ~SameName(d, s.o, p)}]

Does(d, db, s) ==
    CASE s.do = "ensure" -> IF There(d, db, s.o) THEN db ELSE Adds(db, s)
      [] s.do = "make" -> IF There(d, db, s.o) THEN Failed(db) ELSE Adds(db, s)
      [] s.do = "drop_if" -> Takes(d, db, s)
      [] s.do = "drop" -> IF There(d, db, s.o) THEN Takes(d, db, s) ELSE Failed(db)
      [] s.do = "row" -> [db EXCEPT !.rows = [k \in DOMAIN @ \cup {s.key} |->
                                                IF k = s.key THEN s.row ELSE @[k]]]
      [] s.do = "no_row" -> [db EXCEPT !.rows = [k \in DOMAIN @ \ {s.key} |-> @[k]]]

\* The statements run one by one until one fails; the one numbered fail always does.
Perform(d, db, statements, fail) ==
    FoldLeftDomain(LAMBDA acc, i : IF ~acc.ok THEN acc
                                   ELSE IF i = fail THEN Failed(acc)
                                   ELSE Does(d, acc, statements[i]),
                   [db EXCEPT !.ok = TRUE], statements)

------------------------------------------------------------------------------
(* create_index *)

Validated(d, spec) ==
    /\ spec.fields # <<>>
    /\ spec.kind \in {"simple", "fts"} => Len(spec.fields) = 1
    /\ ~(spec.unique /\ spec.kind = "fts")
    /\ d = "rethinkdb" => spec.kind = "simple" /\ ~spec.unique
    /\ d = "hako" /\ spec.unique => spec.kind = "simple"

\* The table of a full-text index, then the three triggers that fill it.
SqliteCreate(c, spec) ==
    LET o(part) == Object("sqlite", c, spec, part)
    IN  (IF spec.kind = "fts" THEN <<Ensure(o(0)), Ensure(o(1)), Ensure(o(2)), Ensure(o(3))>>
                              ELSE <<Ensure(o(0))>>)
        \o <<Register(<<c, Logical("sqlite", spec)>>, Row("sqlite", c, spec))>>

PgCreate(c, spec) ==
    <<Ensure(Object("postgres", c, spec, 0)),
      Register(<<c, Logical("postgres", spec)>>, Row("postgres", c, spec))>>

\* The generated column of a full-text index, then the index.
MysqlCreate(c, spec) ==
    LET o(part) == Object("mysql", c, spec, part)
    IN  (IF spec.kind = "fts" THEN <<Make(o(1)), Make(o(0))>> ELSE <<Make(o(0))>>)
        \o <<Register(<<c, Logical("mysql", spec)>>, Row("mysql", c, spec))>>

\* A name that MySQL has is answered with what is stored.
Stored(d, db, c, spec) == d = "mysql" /\ <<c, Logical(d, spec)>> \in DOMAIN db.rows

\* RethinkDB indexes the field that is called like the index.
RethinkCreate(c, spec) ==
    <<Make(Object("rethinkdb", c, spec, 0)),
      Register(<<c, Logical("rethinkdb", spec)>>, Row("rethinkdb", c, spec))>>

\* Hako's registry holds the one unique field of a collection.
UniqueKey(c) == <<c, "unique field">>

HakoCreate(c, spec) ==
    <<Ensure(Object("hako", c, spec, 0))>>
    \o IF spec.unique THEN <<Register(UniqueKey(c), Row("hako", c, spec))>> ELSE <<>>

CreateStatements(d, c, spec) ==
    CASE d = "sqlite" -> SqliteCreate(c, spec)
      [] d = "postgres" -> PgCreate(c, spec)
      [] d = "mysql" -> MysqlCreate(c, spec)
      [] d = "rethinkdb" -> RethinkCreate(c, spec)
      [] d = "hako" -> HakoCreate(c, spec)

CreateIndex(d, db, c, spec, fail) ==
    IF ~Validated(d, spec) THEN Failed(db)
    ELSE IF Stored(d, db, c, spec) THEN [db EXCEPT !.ok = TRUE]
    ELSE Perform(d, db, CreateStatements(d, c, spec), fail)

------------------------------------------------------------------------------
(* drop_index *)

\* Mutant: what is dropped is called as the index is.
DroppedByName(d, c, name, row, part) == [name |-> name, table |-> Table(d, c), part |-> part]

Dropped(d, c, name, row, part) == [name |-> row.ddl, table |-> Table(d, c), part |-> part]

SqliteDrop(c, name, row) ==
    LET o(part) == Dropped("sqlite", c, name, row, part)
    IN  (IF row.kind = "fts" THEN <<DropIf(o(1)), DropIf(o(2)), DropIf(o(3)), DropIf(o(0))>>
                             ELSE <<DropIf(o(0))>>)
        \o <<Unregister(<<c, name>>)>>

PgDrop(c, name, row) ==
    <<DropIf(Dropped("postgres", c, name, row, 0)), Unregister(<<c, name>>)>>

MysqlDrop(c, name, row) ==
    LET o(part) == Dropped("mysql", c, name, row, part)
    IN  (IF row.kind = "fts" THEN <<Drop(o(0)), Drop(o(1))>> ELSE <<Drop(o(0))>>)
        \o <<Unregister(<<c, name>>)>>

\* RethinkDB asks its server alone, and a registry that fails is ignored.
RethinkDrop(c, name, fail) ==
    <<Drop([name |-> name, table |-> c, part |-> 0])>>
    \o IF fail = 2 THEN <<>> ELSE <<Unregister(<<c, name>>)>>

DropIndex(d, db, c, name, fail) ==
    IF d = "rethinkdb" THEN Perform(d, db, RethinkDrop(c, name, fail), fail)
    ELSE IF d = "hako" \/ <<c, name>> \notin DOMAIN db.rows THEN Failed(db)
    ELSE LET row == db.rows[<<c, name>>]
         IN  CASE d = "sqlite" -> Perform(d, db, SqliteDrop(c, name, row), fail)
               [] d = "postgres" -> Perform(d, db, PgDrop(c, name, row), fail)
               [] d = "mysql" -> Perform(d, db, MysqlDrop(c, name, row), fail)

------------------------------------------------------------------------------
(* list_indexes *)

Info(name, row) == [name |-> name, fields |-> row.fields, unique |-> row.unique, kind |-> row.kind]

SqlList(db, c) == {Info(k[2], db.rows[k]) : k \in {k \in DOMAIN db.rows : k[1] = c}}

\* What the server has and the registry knows.
RethinkList(db, c) ==
    {Info(k[2], db.rows[k]) : k \in
        {k \in DOMAIN db.rows :
           k[1] = c /\ There("rethinkdb", db, [name |-> k[2], table |-> c, part |-> 0])}}

HakoList(db, c) ==
    LET unique(o) == /\ UniqueKey(c) \in DOMAIN db.rows /\ o.kind = "simple"
                     /\ db.rows[UniqueKey(c)].fields = o.fields
    IN  {Info(o.name, [o EXCEPT !.unique = unique(o)]) : o \in {p \in db.objects : p.table = c}}

ListIndexes(d, db, c) ==
    CASE d \in {"sqlite", "postgres", "mysql"} -> SqlList(db, c)
      [] d = "rethinkdb" -> RethinkList(db, c)
      [] d = "hako" -> HakoList(db, c)

------------------------------------------------------------------------------
(* The server *)

\* index_create, index_drop: the server's own collections are refused, and what the
\* policy does not let the caller update.
Admitted(server, r) ==
    /\ ~server.read_only
    /\ r.collection[1] # server.reserved
    /\ r.collection \in server.updates

Handle(d, server, db, r, fail) ==
    IF ~Admitted(server, r) THEN Failed(db)
    ELSE IF Creates(r) THEN CreateIndex(d, db, r.collection, r.spec, fail)
    ELSE DropIndex(d, db, r.collection, r.name, fail)

After(d, server, db, history) ==
    FoldLeft(LAMBDA acc, r : Handle(d, server, acc, r, 0), db, history)

\* auto_provision: the declared indexes, whatever becomes of each.
Provision(d, db, decls) ==
    FoldLeft(LAMBDA acc, r : CreateIndex(d, acc, r.collection, r.spec, 0), db, decls)

------------------------------------------------------------------------------
(* Properties *)

\* Two definitions that cannot both be had: one name in the engine, in the registry, or
\* two unique fields of a collection of Hako.
Clash(d, r, q) ==
    /\ <<r.collection, r.spec>> # <<q.collection, q.spec>>
    /\ \/ SameName(d, Object(d, r.collection, r.spec, 0), Object(d, q.collection, q.spec, 0))
       \/ r.collection = q.collection /\ Logical(d, r.spec) = Logical(d, q.spec)
       \/ d = "hako" /\ r.collection = q.collection /\ r.spec.unique /\ q.spec.unique

Made(d, server, history) ==
    {r \in ToSet(history) : Creates(r) /\ Admitted(server, r) /\ Validated(d, r.spec)}

Listed(d, db, r) ==
    [name |-> Logical(d, r.spec), fields |-> r.spec.fields, unique |-> r.spec.unique,
     kind |-> r.spec.kind] \in ListIndexes(d, db, r.collection)

\* The engine has the index with all its parts, as it was asked for.  RethinkDB indexes the
\* field that is called like the index.
Real(d, db, r) ==
    \A part \in IF r.spec.kind = "fts" THEN CASE d = "sqlite" -> 0..3 [] d = "mysql" -> 0..1
                                               [] OTHER -> {0}
                                       ELSE {0} :
        \E o \in db.objects :
            /\ SameName(d, o, Object(d, r.collection, r.spec, part))
            /\ o.table = Table(d, r.collection) /\ o.kind = r.spec.kind
            /\ o.fields = r.spec.fields \/ (d = "rethinkdb" /\ r.spec.name # None)
            /\ o.unique = (r.spec.unique /\ d # "hako")

\* A definition that clashes with no other is listed, and is in the engine, exactly when
\* the last request about it created it; starting again with the definitions declared
\* changes nothing; and what failed halfway is as if it had not once it is repeated.  The
\* last is left out of MySQL and RethinkDB, whose statements refuse what is done already.
IndexesAreReal(d, server, history) ==
    LET end == After(d, server, Empty, history)
        made == Made(d, server, history)
        about(r, q) == q.collection = r.collection /\ Admitted(server, q)
                        /\ IF Creates(q) THEN q.spec = r.spec
                           ELSE q.name = Logical(d, r.spec) /\ d # "hako"
        lastOf(r) == history[CHOOSE i \in 1..Len(history) :
                        /\ about(r, history[i])
                        /\ \A j \in (i + 1)..Len(history) : ~about(r, history[j])]
        decls == SelectSeq(history, LAMBDA r : r \in made)
        before == After(d, server, Empty, Front(history))
    IN  /\ \A r \in made :
             (\A q \in made : ~Clash(d, r, q)) =>
                /\ Creates(lastOf(r)) <=> Listed(d, end, r)
                /\ Creates(lastOf(r)) <=> Real(d, end, r)
        /\ LET up == Provision(d, Empty, decls)
           IN  [Provision(d, up, decls) EXCEPT !.ok = TRUE] = [up EXCEPT !.ok = TRUE]
        /\ d \notin {"mysql", "rethinkdb"} =>
             \A fail \in 1..5 :
                LET once == Handle(d, server, before, Last(history), fail)
                IN  once = end \/ Handle(d, server, once, Last(history), 0) = end

=============================================================================
