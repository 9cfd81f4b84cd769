------------------------------- MODULE Queries -------------------------------
(***************************************************************************)
(* The query semantics: the reference helpers of the core crate              *)
(* (conformance: filter_matches, matches_cursor, sort_and_limit) and what    *)
(* the SQL drivers make of the same query (push_filter, push_cursor,         *)
(* build_order, build_page) or RethinkDB (pushable_eq, list).                *)
(*                                                                         *)
(* A value is a pair of a type and a number; an array's number is a sequence *)
(* of scalars, a missing field is None.  What an engine does with a          *)
(* comparison of JSON values is external.                                    *)
(***************************************************************************)
EXTENDS Integers, Sequences, FiniteSets, SequencesExt

CONSTANT None           \* a field that is not there, no bound, no limit

Null == <<"null", 0>>
Bool(b) == <<"bool", b>>
Num(n) == <<"num", n>>
Text(n) == <<"text", n>>          \* n > 0, in the order of the texts
Arr(s) == <<"arr", s>>

Type(v) == v[1]
IsArr(v) == v # None /\ Type(v) = "arr"
IsScalar(v) == v # None /\ Type(v) \in {"bool", "num", "text"}
Items(v) == ToSet(v[2])

Comparisons == {">", "<", ">=", "<="}
Operators == {"==", "!=", "in", "array-contains", "array-contains-any"}
               \cup Comparisons
SqlEngines == {"sqlite", "postgres", "mysql"}
AllEngines == SqlEngines \cup {"rethinkdb"}

------------------------------------------------------------------------------
(* The reference *)

\* cmp_json: values of one ordered type; anything else only when equal.
Comparable(a, b) == (IsScalar(a) /\ IsScalar(b) /\ Type(a) = Type(b)) \/ a = b
Below(a, b) == a # b /\ Comparable(a, b) /\ a[2] < b[2]

Compares(a, op, b) ==
    /\ a # None /\ Comparable(a, b)
    /\ CASE op = ">" -> Below(b, a)
         [] op = "<" -> Below(a, b)
         [] op = ">=" -> ~Below(a, b)
         [] op = "<=" -> ~Below(b, a)

\* filter_matches.
Matches(v, op, w) ==
    CASE op = "==" -> v = w
      [] op = "!=" -> v # w
      [] op = "in" -> IsArr(w) /\ v \in Items(w)
      [] op = "array-contains" -> IsArr(v) /\ w \in Items(v)
      [] op = "array-contains-any" -> IsArr(v) /\ IsArr(w) /\ Items(v) \cap Items(w) # {}
      [] OTHER -> Compares(v, op, w)

\* A query: at most one filter, one order, one cursor bound.
\*   [filter : [op, w] or None, order : "none" | "id" | "f", desc : BOOLEAN,
\*    bound : [op, w] or None, offset : Nat, limit : Nat or None]
\* A document: [id : text value, f : value or None].
Field(d, name) == IF name = "id" THEN d.id ELSE d.f

\* cursor_field: what a bound refers to.
CursorField(q) == IF q.order = "none" THEN "id" ELSE q.order

MatchesCursor(d, q) ==
    q.bound = None \/ Compares(Field(d, CursorField(q)), q.bound.op, q.bound.w)

Selects(d, q) == (q.filter = None \/ Matches(d.f, q.filter.op, q.filter.w))

\* sort_by is stable; a missing field sorts below every other.
Before(a, b) == IF a = None THEN b # None ELSE b # None /\ Below(a, b)

\* The positions 1..n in the order of the strict comparison lt, ties as they are.
Sorted(n, lt) ==
    CHOOSE p \in {f \in [1..n -> 1..n] : \A k \in 1..n : \E i \in 1..n : f[i] = k} :
      \A i, j \in 1..n : i < j => \/ <<p[i], p[j]>> \in lt
                                  \/ <<p[j], p[i]>> \notin lt /\ p[i] < p[j]

Ordered(ds, q, lt) ==
    IF q.order = "none" THEN ds
    ELSE LET p == Sorted(Len(ds), lt) IN [i \in 1..Len(ds) |-> ds[p[i]]]

\* The positions of which the first is ahead of the second.
Ahead(ds, q) ==
    {p \in (DOMAIN ds) \X (DOMAIN ds) :
       LET x == Field(ds[p[1]], q.order) y == Field(ds[p[2]], q.order)
       IN IF q.desc THEN Before(y, x) ELSE Before(x, y)}

\* What the first n documents leave of those at the positions S, for each n.
Kept(ds, S) ==
    LET K[n \in 0..Len(ds)] ==
          IF n = 0 THEN <<>>
          ELSE IF n \in S THEN Append(K[n - 1], ds[n]) ELSE K[n - 1]
    IN K

Keep(ds, S) == Kept(ds, S)[Len(ds)]
Selected(ds, q) == Keep(ds, {i \in DOMAIN ds : Selects(ds[i], q)})
ApplyCursor(ds, q) == Keep(ds, {i \in DOMAIN ds : MatchesCursor(ds[i], q)})

\* apply_offset_limit.
Page(ds, offset, limit) ==
    LET rest == SubSeq(ds, offset + 1, Len(ds))
    IN IF limit = None \/ limit >= Len(rest) THEN rest ELSE SubSeq(rest, 1, limit)

\* sort_and_limit: sort, cursor, offset, limit.
SortAndLimit(ds, q) ==
    Page(ApplyCursor(Ordered(ds, q, Ahead(ds, q)), q), q.offset, q.limit)

\* MemDb::list, the reference driver.
Reference(ds, q) == SortAndLimit(Selected(ds, q), q)

------------------------------------------------------------------------------
(* The SQL drivers *)

\* json_extract gives SQLite's own types: a boolean is an integer, JSON null is
\* NULL like a missing field, an array is its text ("[" sorts below the texts).
Column(e, v) ==
    IF v = None \/ e # "sqlite" THEN v
    ELSE CASE Type(v) = "null" -> None
           [] Type(v) = "bool" -> Num(v[2])
           [] Type(v) = "arr" -> Text(0)
           [] OTHER -> v

\* to_param.
Param(e, w) == IF e = "sqlite" /\ Type(w) = "bool" THEN Num(w[2]) ELSE w

\* How an engine ranks the types of what it compares.
Rank(e, v) ==
    CASE e = "postgres" -> CASE Type(v) = "null" -> 1 [] Type(v) = "text" -> 2
                             [] Type(v) = "num" -> 3 [] Type(v) = "bool" -> 4
                             [] OTHER -> 5
      [] OTHER -> CASE Type(v) = "null" -> 1 [] Type(v) = "num" -> 2
                    [] Type(v) = "text" -> 3 [] Type(v) = "arr" -> 4
                    [] OTHER -> 5

Under(e, a, b) == \/ Rank(e, a) < Rank(e, b)
                  \/ Rank(e, a) = Rank(e, b) /\ Type(a) # "arr" /\ a[2] < b[2]

SqlCompares(e, a, op, b) ==
    /\ a # None
    /\ CASE op = ">" -> Under(e, b, a)
         [] op = "<" -> Under(e, a, b)
         [] op = ">=" -> ~Under(e, a, b)
         [] op = "<=" -> ~Under(e, b, a)

\* Mutant: no OR ... IS NULL.
SqlNotEqualStrict(e, c, w) ==
    IF IsScalar(w) THEN c # None /\ c # Param(e, w) ELSE c # None

\* "!=" of the two text drivers: a missing field differs from any scalar.
SqlNotEqual(e, c, w) == IF IsScalar(w) THEN c # Param(e, w) ELSE c # None

\* json_each over the field, JSON_CONTAINS, @>: a scalar contains itself.
Holds(e, v, w) ==
    /\ v # None
    /\ IF IsArr(w) THEN IsArr(v) /\ Items(w) \subseteq Items(v)
       ELSE \E x \in (IF IsArr(v) THEN Items(v) ELSE {v}) :
              Column(e, x) # None /\ Column(e, x) = Param(e, w)

\* push_filter of the PostgreSQL driver; jsonb compares everything.
PgFilter(v, op, w) ==
    CASE op = "==" -> v = w
      [] op = "!=" -> v # None /\ v # w
      [] op = "in" -> IF IsArr(w) THEN v \in Items(w) ELSE "error"
      [] op = "array-contains" -> Holds("postgres", v, w)
      [] op = "array-contains-any" ->
           IF IsArr(w) THEN \E x \in Items(w) : Holds("postgres", v, x) ELSE "error"
      [] OTHER -> SqlCompares("postgres", v, op, w)

\* push_filter of the SQLite and MySQL drivers: only scalars are compared.
TextFilter(e, v, op, w) ==
    LET c == Column(e, v) IN
    CASE op = "==" -> IF IsScalar(w) THEN c = Param(e, w) ELSE w = Null /\ c = None
      [] op = "!=" -> SqlNotEqual(e, c, w)
      [] op = "in" ->
           IF IsArr(w) THEN \E x \in Items(w) :
                              IF IsScalar(x) THEN c = Param(e, x) ELSE c = None
           ELSE "error"
      [] op = "array-contains" -> IF IsScalar(w) THEN Holds(e, v, w) ELSE "error"
      [] op = "array-contains-any" ->
           IF IsArr(w) /\ \A x \in Items(w) : IsScalar(x)
             THEN \E x \in Items(w) : Holds(e, v, x) ELSE "error"
      [] OTHER -> IF IsScalar(w) THEN SqlCompares(e, c, op, Param(e, w)) ELSE "error"

SqliteFilter(v, op, w) == TextFilter("sqlite", v, op, w)
MysqlFilter(v, op, w) == TextFilter("mysql", v, op, w)

\* pushable_eq, after which every row is asked doc_matches again.
PushableEq(op, w) == op = "==" /\ IsScalar(w)
RethinkFilter(v, op, w) == (PushableEq(op, w) => v = w) /\ Matches(v, op, w)

Filtered(e, v, op, w) ==
    CASE e = "sqlite" -> SqliteFilter(v, op, w)
      [] e = "postgres" -> PgFilter(v, op, w)
      [] e = "mysql" -> MysqlFilter(v, op, w)
      [] OTHER -> RethinkFilter(v, op, w)

\* push_cursor.  The id is a text column; PostgreSQL compares it with a jsonb
\* parameter, which the server refuses.
SqlCursor(e, d, q) ==
    \/ q.bound = None
    \/ LET name == CursorField(q)
           c == IF name = "id" THEN d.id ELSE Column(e, d.f)
       IN /\ e # "postgres" => IsScalar(q.bound.w)
          /\ name = "id" => Type(q.bound.w) = "text"
          /\ SqlCompares(e, c, q.bound.op, Param(e, q.bound.w))

CursorRefused(e, q) == e = "postgres" /\ q.bound # None /\ CursorField(q) = "id"

\* ORDER BY: NULLs first, in PostgreSQL last; JSON types by rank.
SqlBefore(e, a, b) ==
    LET x == Column(e, a) y == Column(e, b)
    IN CASE e = "postgres" -> x # None /\ (y = None \/ Under(e, x, y))
         [] OTHER -> y # None /\ (x = None \/ Under(e, x, y))

SqlAhead(e, ds, q) ==
    {p \in (DOMAIN ds) \X (DOMAIN ds) :
       LET x == Field(ds[p[1]], q.order) y == Field(ds[p[2]], q.order)
       IN IF q.desc THEN SqlBefore(e, y, x) ELSE SqlBefore(e, x, y)}

\* build_order.
SqlOrder(e, ds, q) == Ordered(ds, q, SqlAhead(e, ds, q))

\* list: WHERE, ORDER BY, LIMIT and OFFSET in one statement.
Where(e, d, q) == /\ q.filter # None => Filtered(e, d.f, q.filter.op, q.filter.w) = TRUE
                  /\ SqlCursor(e, d, q)
SqlList(e, ds, q) ==
    Page(SqlOrder(e, Keep(ds, {i \in DOMAIN ds : Where(e, ds[i], q)}), q), q.offset, q.limit)

------------------------------------------------------------------------------
(* RethinkDB *)

\* Mutant: paging is pushed down under an order as well.
PushesPageOrdered(q) == q.bound = None

\* Paging goes to the server only with no cursor and no order.
PushesPage(q) == q.bound = None /\ q.order = "none"

\* list: equality and page on the server, every filter again in the driver, and
\* the whole of sort_and_limit on what came back.
Pushed(d, q) == q.filter # None /\ PushableEq(q.filter.op, q.filter.w) => d.f = q.filter.w
Fetched(ds, q) ==
    LET rows == Keep(ds, {i \in DOMAIN ds : Pushed(ds[i], q)})
    IN IF PushesPage(q) THEN Page(rows, q.offset, q.limit) ELSE rows
RethinkList(ds, q) == SortAndLimit(Selected(Fetched(ds, q), q), q)

List(e, ds, q) == IF e = "rethinkdb" THEN RethinkList(ds, q) ELSE SqlList(e, ds, q)

\* count with no page: the server counts what it can filter, the rest is listed.
RethinkCount(ds, q) ==
    IF q.bound # None \/ q.offset # 0 \/ q.limit # None
         \/ (q.filter # None /\ ~PushableEq(q.filter.op, q.filter.w))
      THEN Len(RethinkList(ds, q))
      ELSE Len(Keep(ds, {i \in DOMAIN ds : Pushed(ds[i], q)}))

SqlCount(e, ds, q) == Len(SqlList(e, ds, [q EXCEPT !.offset = 0, !.limit = None]))
Count(e, ds, q) == IF e = "rethinkdb" THEN RethinkCount(ds, q) ELSE SqlCount(e, ds, q)

------------------------------------------------------------------------------
(* What the drivers agree on *)

\* Values a schema would call of one type: the filter's scalars and the field
\* (missing, or of their type; for the array operators an array of it).
OneType(v, op, w) ==
    LET ws == IF op \in {"in", "array-contains-any"} THEN Items(w) ELSE {w}
        vs == IF op \in {"array-contains", "array-contains-any"}
                THEN (IF IsArr(v) THEN Items(v) ELSE {}) ELSE {v} \ {None}
    IN /\ op \in {"in", "array-contains-any"} => IsArr(w)
       /\ op \in {"array-contains", "array-contains-any"} => v = None \/ IsArr(v)
       /\ \A x \in ws \cup vs : IsScalar(x)
       /\ \A x, y \in ws \cup vs : Type(x) = Type(y)

\* DRIVER_CONTRACT.md section 5 ("Results are exactly the same on every
\* driver"), as far as it goes: over fields of one type every driver filters as
\* doc_matches does, but for "!=" on a missing field in PostgreSQL.
FilterAgrees(e, v, op, w) ==
    OneType(v, op, w) /\ ~(e = "postgres" /\ op = "!=" /\ v = None)
    => Filtered(e, v, op, w) = Matches(v, op, w)

\* One type in the column, in the filter beside it, and in the cursor.
OneTypePage(ds, q) ==
    /\ \A i \in DOMAIN ds : ds[i].f # None => IsScalar(ds[i].f) \/ IsArr(ds[i].f)
    /\ \A i, j \in DOMAIN ds :
         ds[i].f # None /\ ds[j].f # None => Type(ds[i].f) = Type(ds[j].f)
    /\ q.filter # None => \A i \in DOMAIN ds : OneType(ds[i].f, q.filter.op, q.filter.w)
    /\ q.bound # None =>
         /\ IsScalar(q.bound.w)
         /\ \A i \in DOMAIN ds : LET x == Field(ds[i], CursorField(q))
                                 IN x = None \/ Type(x) = Type(q.bound.w)

\* The same for a whole list over one type: PostgreSQL differs where a missing
\* field is ordered or excluded and refuses a cursor on the id, RethinkDB where
\* it pushes a page that has an offset or filters after it.  A count is the length of the
\* list without its page, except that RethinkDB counts the page when there is one.
PageAgrees(e, ds, q) ==
    LET unordered == \A i \in DOMAIN ds : ds[i].f # None
        pg == e = "postgres" => ~CursorRefused(e, q) /\ unordered
        rdb == e = "rethinkdb" /\ PushesPage(q) =>
                 /\ q.offset = 0
                 /\ q.limit = None \/ q.filter = None
                      \/ PushableEq(q.filter.op, q.filter.w)
    IN  /\ OneTypePage(ds, q) /\ pg /\ rdb => List(e, ds, q) = Reference(ds, q)
        /\ (e = "postgres" => ~CursorRefused(e, q)) /\ q.offset = 0 /\ q.limit = None
             => Count(e, ds, q) = Len(List(e, ds, q))
=============================================================================
