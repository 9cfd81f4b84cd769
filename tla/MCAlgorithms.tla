---------------------------- MODULE MCAlgorithms ----------------------------
(***************************************************************************)
(* The pure parts of the system on every input of small sets: a behaviour    *)
(* picks an input, the invariants compare what the code computes for it.      *)
(***************************************************************************)
EXTENDS QueryInputs, PolicyInputs, AliasInputs, SettingInputs, DownloadInputs,
        FiniteSets, SequencesExt, TLC

None == Absent
Idle == <<"idle">>

A == INSTANCE Atomics WITH Keys <- {"a", "b"}, Gone <- None
I == INSTANCE Indexes

(* ---------------------------------- queries -------------------------------- *)
Scalars == {Q!Bool(0), Q!Bool(1), Q!Num(1), Q!Num(2), Q!Text(1), Q!Text(2)}
Arrays == {Q!Arr(<<>>), Q!Arr(<<Q!Num(1)>>), Q!Arr(<<Q!Bool(1)>>),
           Q!Arr(<<Q!Num(1), Q!Text(1)>>), Q!Arr(<<Q!Text(1), Q!Text(2)>>)}
Operands == {Q!Null} \cup Scalars \cup Arrays \cup {Q!Arr(<<Q!Null>>)}

PickFilter ==
    \E v \in {None, Q!Null} \cup Scalars \cup Arrays, w \in Operands,
       op \in Q!Operators \cup Q!Comparisons :
        input' = <<"filter", v, op, w>>

Ids == <<Q!Text(2), Q!Text(1), Q!Text(3)>>

PickPage ==
    \E fs \in [1..3 -> {None, Q!Num(1), Q!Num(2)}],
       filter \in {None} \cup [op : {"==", "!=", ">"}, w : {Q!Num(1)}],
       order \in {"none", "id", "f"}, desc \in BOOLEAN,
       bound \in {None} \cup [op : Q!Comparisons, w : {Q!Num(1), Q!Text(2)}],
       offset \in {0, 1}, limit \in {None, 1} :
        input' = <<"page", [i \in 1..3 |-> [id |-> Ids[i], f |-> fs[i]]],
                   [filter |-> filter, order |-> order, desc |-> desc,
                    bound |-> bound, offset |-> offset, limit |-> limit]>>

(* ---------------------------------- updates -------------------------------- *)
Leaves == {A!Num(1), A!Arr(<<A!Num(1)>>)}
Inner == Leaves \cup {A!EmptyObj, A!Obj([k \in {"b"} |-> A!Num(1)])}
Bases == {A!Obj(f) : f \in UNION {[K -> Inner] : K \in SUBSET {"a", "b"}}}
Paths == {<<"a">>, <<"b">>, <<"a", "a">>, <<"a", "b">>, <<"b", "a">>}
In(v) == A!Obj([k \in {"b"} |-> v])
News == {A!Num(5), In(A!Op("increment", A!Num(1))), In(A!Op("deleteField", None))}
        \cup {A!Op("increment", n) : n \in {None, A!Num(1), A!Float(2), A!Float(3), <<"text", "5">>}}
        \cup {A!Op("arrayUnion", els) : els \in {None, A!Num(1), A!Arr(<<A!Num(1), A!Num(2)>>)}}
        \cup {A!Op("arrayRemove", A!Arr(<<A!Num(1)>>)), A!Op("deleteField", None),
              A!Op("serverTimestamp", None), A!Op("other", In(A!Op("deleteField", None)))}

PickUpdate ==
    \E base \in Bases, p, q \in Paths, x, y \in News :
        /\ p = q => x = y
        /\ input' = <<"update", base, [r \in {p, q} |-> IF r = p THEN x ELSE y]>>

MergesAreLocal == Is("update") => A!MergesAreLocal(input[2], input[3], Paths)
CreateIsMergeOverNothing == Is("update") => A!CreateIsMergeOverNothing(input[3])

(* ---------------------------------- policies ------------------------------- *)
Segments == {0, 1, 2}
Patterns == {<<s>> : s \in Segments} \cup {<<s, t>> : s, t \in Segments}
Collections == {<<1>>, <<1, 2>>, <<1, 1>>, <<2, 1>>}

PickRules ==
    \E ps \in {X \in SUBSET Patterns : Cardinality(X) <= 3}, p \in Patterns, c \in Collections :
        input' = <<"rules", ps, p, c>>

Conditions ==
    {[is |-> "auth", field |-> f, attr |-> a] : f \in {"x", ""}, a \in {"role", ""}}
    \cup {[is |-> "lit", field |-> "x", value |-> <<"text", "x">>]}
    \cup {[is |-> "int", field |-> "y", min |-> 1, max |-> m] : m \in {0, 1}}

Texts ==
    {[kind |-> "word", word |-> w] : w \in {"public", "auth", "deny", "owner", "pubilc"}}
    \cup {[kind |-> "claim", field |-> f, values |-> v, strips |-> s] :
            f \in {"role", "uid", "", "uid=self"}, v \in {<<>>, <<"">>, <<"x">>, <<"", "!misplaced">>},
            s \in {<<>>, <<TRUE>>, <<FALSE>>}}
    \cup {[kind |-> "fields", conds |-> cs, strips |-> s] :
            cs \in {<<>>} \cup {<<c>> : c \in Conditions} \cup {<<c, d>> : c, d \in Conditions},
            s \in {<<>>, <<FALSE>>}}

Data == {[k \in {} |-> None], [x |-> <<"text", "x">>], [y |-> <<"num", 1>>],
         [x |-> <<"text", "x">>, y |-> <<"num", 2>>]}

PickText ==
    \E t \in Texts, where \in {"method", "class", "defaults"}, method \in P!Stores,
       id \in {None, <<"u">>}, data \in Data :
        input' = <<"text", t, where, method, id, data>>

(* ---------------------------------- aliases -------------------------------- *)
Exact(n) == [param |-> FALSE, name |-> n]
Param(n) == [param |-> TRUE, name |-> n]
Pair(k, v) == <<k, v, "plain">>
Escaped(k, v) == <<k, v, "escaped">>
One == <<"text", "one">>
Templates ==
    {[form |-> "bare", pairs |-> ps] : ps \in {<<>>, <<Pair("db", One)>>,
        <<Pair("k", <<"slot", "p">>)>>, <<Pair("k", <<"slot", "typo">>)>>,
        <<Pair("db", <<"slot", "p">>), Pair("k", One)>>, <<Escaped("k", One)>>}}
    \cup {[form |-> "json", key |-> k, spelt |-> "plain", quoted |-> q, loose |-> {"typo"}] :
            k \in {<<"text", "k">>, <<"slot", "typo">>}, q \in {{}, {"p"}, {"typo"}}}
Targets == {[under |-> "api", slots |-> {}], [under |-> "api", slots |-> {"p"}],
            [under |-> "alias", slots |-> {}]}
Decls == [segs : {<<Exact("s"), Param("p")>>, <<Param("p"), Param("p")>>, <<Exact("s")>>},
          target : Targets, query : Templates]
Pairs == {Pair("db", <<"text", "two">>), Pair("k", <<"text", "two">>),
          Pair("k", <<"text", "three">>), Escaped("k", <<"text", "two">>)}
Requests == {<<>>} \cup {<<x>> : x \in Pairs} \cup {<<x, y>> : x, y \in Pairs}

PickAlias ==
    \E d \in Decls, e \in Decls, path \in {<<"s", "t">>, <<"t", "s">>}, r \in Requests :
        /\ \/ d.target = [under |-> "api", slots |-> {}]
           \/ e.query.form = "bare" /\ r = <<>>
        /\ e.target = [under |-> "api", slots |-> {}]
        /\ input' = <<"alias", <<d, e>>, path, r>>

(* ---------------------------------- settings ------------------------------- *)
Empty == [k \in S!Keys |-> None]
Files == {[keys |-> [Empty EXCEPT !["port"] = port, !["audit_level"] = level,
                                  !["admin_uids"] = <<level>>, !["aliases"] = <<level>>,
                                  !["read_only"] = (level = 1), !["public_url"] = url],
           legacy |-> [Empty EXCEPT !["port"] = 7],
           fragment |-> [Empty EXCEPT !["aliases"] = <<9>>]] :
             port \in {None, 8}, level \in {0, 1}, url \in {None, 1, 2}}
Flags == {Empty, [Empty EXCEPT !["port"] = 6, !["admin_uids"] = <<5>>, !["trust_proxy"] = TRUE]}
Outcomes == [file : Files, outcome : {"ok", "chain", "databases"}]

PickLife ==
    \E flags \in Flags, f \in Files, r, s \in Outcomes :
        input' = <<"life", flags, f, <<r, s>>>>

(* ---------------------------------- downloads ------------------------------ *)
\* Ids that are not read as they are written, beside the plain ones: b is what %62 reads as.
Odd == {"b?c", "b#c", "%62", "%62?", "%2F", "%2Fb", "..", "%00"}
WordsRead ==
    LET as(back, segs, rest) == [back |-> back, segs |-> segs, rest |-> rest]
    IN  [w \in {"posts", "file", "b", "__auth", "a.b"} |-> as(0, <<w>>, "path")]
        @@ "b?c"  :> as(0, <<"b">>, "query")  @@ "b#c" :> as(0, <<"b">>, "nothing")
        @@ "%62"  :> as(0, <<"b">>, "path")   @@ "%62?" :> as(0, <<"b">>, "query")
        @@ "%2F"  :> as(0, <<>>, "path")      @@ "%2Fb" :> as(0, <<"b">>, "path")
        @@ ".."   :> as(1, <<>>, "path")      @@ "%00" :> as(0, <<"NUL">>, "path")

Words == {"posts", "file", "__auth", "a.b"}
FilePaths == {<<>>} \cup [1..1 -> Words] \cup [1..2 -> Words] \cup [1..3 -> Words]
             \cup [1..4 -> {"posts", "file", "a.b"}] \cup [1..5 -> {"posts", "file"}]
             \cup {<<"posts", id>> : id \in Odd \cup {"b", "NUL"}}
             \cup {<<"posts", id, field>> : id \in Odd, field \in {"posts", "file"}}
             \cup {<<"posts", "b", id, field>> : id \in Odd, field \in {"posts", "file"}}

\* The document is there in both databases, with other sizes; so are those it may be taken for.
Server(secret, path, size) ==
    LET asked == D!ParseTarget(path)
        others == {D!ParseTarget(<<"posts", "b">>), D!ParseTarget(<<"posts", "b", "posts">>)}
    IN  [secret |-> secret,
         files |-> [db \in {"default", "other"} |->
                     [t \in others \cup {asked} |->
                        IF db = "default" /\ t = asked THEN size ELSE 3]]]

PickLink ==
    \E secret \in {None, "s"}, size \in {D!Lost, 2}, path \in FilePaths,
       secs \in {0, 1, 3600, 3601}, later \in {0, 1, 2, 3601} :
        input' = <<"link", Server(secret, path, size), path, "default", secs, later>>

Bounds == 0..4
Headers == {None} \cup [from : Bounds \cup {None}, to : Bounds \cup {None}]

PickRange == \E size \in 0..3, h \in Headers : input' = <<"range", size, h>>

(* ---------------------------------- indexes -------------------------------- *)
Simple(name, field, unique) == I!IndexSpec(name, <<field>>, unique, "simple")
Multi(kind, fields) == I!IndexSpec(None, fields, FALSE, kind)

Specs == {Simple(None, <<"a">>, FALSE), Simple(None, <<"a">>, TRUE),
          Simple(None, <<"a", "b">>, FALSE), Simple(None, <<"b">>, TRUE),
          Simple(<<"a">>, <<"b">>, FALSE),
          Multi("composite", <<<<"a">>, <<"b">>>>), Multi("simple", <<<<"a">>, <<"b">>>>),
          Multi("fts", <<<<"a">>>>)}
Posts(n) == <<<<"posts">>, <<n>>, <<"c">>>>
IndexServer == [read_only |-> FALSE, reserved |-> <<"__auth">>,
                updates |-> {Posts("1"), Posts("2"), <<<<"__auth">>>>}]
IndexRequests ==
    [op : {"create"}, collection : {Posts("1"), Posts("2")}, spec : Specs]
    \cup [op : {"create"}, collection : {<<<<"__auth">>>>, <<<<"users">>>>}, spec : {Simple(None, <<"a">>, FALSE)}]
    \cup [op : {"drop"}, collection : {Posts("1"), Posts("2")},
          name : {I!AutoName(spec) : spec \in {s \in Specs : I!Validated("sqlite", s)}}]

PickIndexes ==
    \E d \in I!Drivers, n \in 1..3 : \E history \in [1..n -> IndexRequests] :
        input' = <<"indexes", d, history>>

IndexesAreReal == Is("indexes") => I!IndexesAreReal(input[2], IndexServer, input[3])

(* ---------------------------------------------------------------------------- *)
Init == input = Idle

Pick == PickFilter \/ PickPage \/ PickUpdate \/ PickRules \/ PickText \/ PickAlias \/ PickLife
        \/ PickLink \/ PickRange \/ PickIndexes

Next == \/ input = Idle /\ Pick
        \/ input # Idle /\ input' = Idle

Spec == Init /\ [][Next]_input
=============================================================================
