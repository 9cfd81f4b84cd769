-------------------------------- MODULE Aliases --------------------------------
(***************************************************************************)
(* Path aliases (alias.rs): patterns with captures, the guards at load, the  *)
(* rewrite of a path, and the merge of the alias's query with the request's. *)
(*                                                                         *)
(* A segment is [param, name].  A query is a sequence of pairs <<key, value,    *)
(* spelling>>: the rewrite compares the key as it is spelled in the query, the  *)
(* handler behind the alias reads the key it decodes to.                      *)
(* A query template is "bare" - pairs whose values are texts or slots - or       *)
(* "json" - one key and a JSON value, with slots inside its string literals and  *)
(* braces outside of them.  A capture is percent-encoded into its slot, so that *)
(* what the handler decodes is the one value that stood in the path.           *)
(***************************************************************************)
EXTENDS Integers, Sequences, SequencesExt

CONSTANT None

Slots(pairs) == {pairs[i][2][2] : i \in {j \in DOMAIN pairs : pairs[j][2][1] = "slot"}}
Params(segs) == {segs[i].name : i \in {j \in DOMAIN segs : segs[j].param}}

\* check_template: a JSON template is checked in its literals alone, and its key not
\* at all; a bare one everywhere.
Checked(t) == IF t.form = "json" THEN t.quoted ELSE Slots(t.pairs)

\* compile: the target stays under /api/, outside /api/alias/ and the streams.
Compiles(d) ==
    /\ d.segs # <<>>
    /\ d.target.under = "api"
    /\ d.target.slots \subseteq Params(d.segs)
    /\ Checked(d.query) \subseteq Params(d.segs)

\* compile_all: one bad or repeated pattern refuses the table.
CompilesAll(decls) ==
    /\ \A i \in DOMAIN decls : Compiles(decls[i])
    /\ \A i, j \in DOMAIN decls : i # j => decls[i].segs # decls[j].segs

\* try_match: as many segments, the exact ones equal; a repeated capture is the last.
Matches(segs, path) ==
    /\ Len(segs) = Len(path)
    /\ \A i \in DOMAIN segs : (segs[i].param \/ segs[i].name = path[i])

Captures(segs, path) ==
    [p \in Params(segs) |->
        path[CHOOSE i \in DOMAIN segs :
                /\ segs[i] = [param |-> TRUE, name |-> p]
                /\ \A j \in DOMAIN segs : segs[j] = segs[i] => j <= i]]

\* substitute: in a JSON template only the literals, unless the key has a brace; a
\* bare one everywhere.  The names it looks up, and the pairs it makes.
Asked(t) == IF t.form = "bare" THEN Slots(t.pairs)
            ELSE IF t.key[1] = "slot" THEN {t.key[2]} \cup t.quoted \cup t.loose
            ELSE t.quoted

Filled(caps, v) ==
    IF v[1] = "text" THEN v ELSE <<"text", IF v[2] \in DOMAIN caps THEN caps[v[2]] ELSE "">>

Substituted(t, caps) ==
    IF t.form = "bare"
      THEN [i \in DOMAIN t.pairs |->
              <<t.pairs[i][1], Filled(caps, t.pairs[i][2]), t.pairs[i][3]>>]
      ELSE <<<<Filled(caps, t.key)[2], <<"json", [n \in t.quoted |-> Filled(caps, <<"slot", n>>)]>>,
               IF t.key[1] = "slot" THEN "plain" ELSE t.spelt>>>>

\* rewrite: the first declared alias that matches.
RewriteTo(decls, path) ==
    LET hits == {i \in DOMAIN decls : Matches(decls[i].segs, path)}
    IN  IF hits = {} THEN None ELSE CHOOSE i \in hits : \A j \in hits : i <= j

\* The key of a pair as the query spells it; "plain" is its canonical encoding.
Key(p) == <<p[1], p[3]>>
Keys(q) == {Key(q[i]) : i \in DOMAIN q}
Db == <<"db", "plain">>

\* The pairs of q whose key is none of ks.
Without(q, ks) ==
    LET W[n \in 0..Len(q)] ==
          IF n = 0 THEN <<>>
          ELSE IF Key(q[n]) \in ks THEN W[n - 1] ELSE Append(W[n - 1], q[n])
    IN  W

\* Mutant: db is a key like any other.
MergeShadowing(a, r) == Without(a, Keys(r))[Len(a)] \o r

\* merge_query: the request's keys shadow the alias's, but for db.
MergeQuery(a, r) ==
    IF a = <<>> THEN r
    ELSE IF r = <<>> THEN a
    ELSE Without(a, Keys(r) \ {Db})[Len(a)]
           \o Without(r, IF Db \in Keys(a) THEN {Db} ELSE {})[Len(r)]

\* What the handler behind the alias reads under k, decoded: the last pair wins.
Has(q, k) == \E i \in DOMAIN q : q[i][1] = k
Read(q, k) == IF Has(q, k)
                THEN q[CHOOSE i \in DOMAIN q : q[i][1] = k /\ \A j \in DOMAIN q : q[j][1] = k => j <= i][2]
                ELSE None

\* The alias and the request spell the key in one way, and db plainly.
SpeltAlike(a, r, k) ==
    \A x, y \in {p \in ToSet(a) \cup ToSet(r) : p[1] = k} :
        x[3] = y[3] /\ (k = "db" => x[3] = "plain")

\* "request wins on collision", but "a request query can never escape an alias-pinned
\* database" - of a key that both name and spell alike: the keys are compared as they are
\* spelled; "first match wins"; a name without a capture refuses the table, "not silent
\* empty strings" - true but for a slot in the key of a JSON template, which nothing
\* checks.  For every table that loads, and every request that it rewrites.
AliasKeepsItsWord(decls, path, r) ==
    LET i == RewriteTo(decls, path)
    IN  CompilesAll(decls) /\ i # None =>
          LET d == decls[i]
              caps == Captures(d.segs, path)
              a == Substituted(d.query, caps)
              q == MergeQuery(a, r)
          IN  /\ \A j \in 1..(i - 1) : ~Matches(decls[j].segs, path)
              /\ \/ Asked(d.query) \subseteq DOMAIN caps
                 \/ d.query.form = "json" /\ d.query.key[1] = "slot"
              /\ \A k \in {p[1] : p \in ToSet(a) \cup ToSet(r)} :
                    (Has(a, k) /\ Has(r, k) => SpeltAlike(a, r, k))
                    => Read(q, k) = IF Has(a, k) /\ (k = "db" \/ ~Has(r, k))
                                      THEN Read(a, k) ELSE Read(r, k)
=============================================================================
