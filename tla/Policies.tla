------------------------------- MODULE Policies -------------------------------
(***************************************************************************)
(* Who may do what (policy lib.rs): the rule language, the resolution of a  *)
(* collection to the rules that govern it, and the decision.                *)
(*                                                                         *)
(* A collection or pattern is a sequence of segments, numbers in the order   *)
(* of their texts with Star first.  The rules of a file come out of a        *)
(* HashMap: find visits the patterns in an order nobody knows.              *)
(***************************************************************************)
EXTENDS Integers, Sequences, FiniteSets, SequencesExt

CONSTANT None

Star == 0

Reads == {"get", "list"}
Stores == {"create", "update"}     \* the methods whose data the second gate sees
Class(method) == IF method \in Reads THEN "read" ELSE "write"

(* --------------------------- the rule language ---------------------------- *)
\* A text is a word, or claim / fields with the pieces its body splits into.  A
\* strip is TRUE when it is "!name"; a value is "" when nothing stands between the commas.
Public == [kind |-> "public"]
Auth == [kind |-> "auth"]
Deny == [kind |-> "deny"]
Claim(values) == [kind |-> "claim", values |-> values]
UidSelf == [kind |-> "self"]
Fields(conds) == [kind |-> "fields", conds |-> conds]

\* parse_claim: the attribute is named, is not uid, and some value is left.
ParseClaim(t) ==
    IF FALSE \in ToSet(t.strips) THEN None
    ELSE IF t.field = "uid=self" THEN UidSelf
    ELSE IF t.field \in {"", "uid"} \/ ToSet(t.values) \ {""} = {}
              \/ "!misplaced" \in ToSet(t.values) THEN None
    ELSE Claim(ToSet(t.values) \ {""})

\* parse_fields: every condition names a field; no range is empty.
ParseFields(t) ==
    IF \/ FALSE \in ToSet(t.strips)
       \/ t.conds = <<>>
       \/ \E c \in ToSet(t.conds) : \/ c.field = ""
                                    \/ c.is = "auth" /\ c.attr = ""
                                    \/ c.is = "int" /\ c.min > c.max
      THEN None
      ELSE Fields(ToSet(t.conds))

Parsed(t) == CASE t.kind = "claim" -> ParseClaim(t)
               [] t.kind = "fields" -> ParseFields(t)
               [] t.kind = "word" /\ t.word = "public" -> Public
               [] t.kind = "word" /\ t.word = "auth" -> Auth
               [] OTHER -> None

\* From<String>: what cannot be read denies.
From(t) == IF Parsed(t) = None THEN Deny ELSE Parsed(t)

\* Deserialize: removed words and malformed bodies do not load at all; any other
\* unknown word is From's.
Loads(t) == IF t.kind = "word" THEN t.word \notin {"owner", "role:x"} ELSE Parsed(t) # None

(* ------------------------------- resolution ------------------------------- *)
\* A file: defaults, and per pattern the slots that are set.
Stars(p) == Cardinality({i \in DOMAIN p : p[i] = Star})
Covers(p, c) == Len(p) = Len(c) /\ \A i \in DOMAIN p : p[i] \in {Star, c[i]}

LexBefore(p, q) ==
    \E i \in DOMAIN p : p[i] < q[i] /\ \A j \in 1..(i - 1) : p[j] = q[j]

\* Mutant: of two patterns with as many stars, the one that is visited first.
BetterVisitedFirst(p, best) == best = None \/ Stars(p) < Stars(best)

Better(p, best) ==
    \/ best = None
    \/ Stars(p) < Stars(best)
    \/ Stars(p) = Stars(best) /\ LexBefore(p, best)

\* The best wildcard of the first n that are visited.
Best(order, c) ==
    LET B[n \in 0..Len(order)] ==
          IF n = 0 THEN None
          ELSE IF Stars(order[n]) > 0 /\ Covers(order[n], c) /\ Better(order[n], B[n - 1])
                 THEN order[n] ELSE B[n - 1]
    IN  B

\* find: exact, then the best wildcard in the order of the visit, then the root.
Find(patterns, order, c) ==
    LET wild == Best(order, c)[Len(order)]
    IN  IF c \in patterns THEN c
        ELSE IF wild # None THEN wild
        ELSE IF Len(c) > 1 /\ <<Head(c)>> \in patterns THEN <<Head(c)>>
        ELSE None

Slot(slots, defaults, method) ==
    IF method \in DOMAIN slots THEN slots[method]
    ELSE IF Class(method) \in DOMAIN slots THEN slots[Class(method)]
    ELSE defaults[Class(method)]

Governing(file, order, c, method) ==
    LET p == Find(DOMAIN file.rules, order, c)
    IN  Slot(IF p = None THEN [s \in {} |-> None] ELSE file.rules[p], file.defaults, method)

(* -------------------------------- decision -------------------------------- *)
\* A caller is None or [uid, extra, scope]; a uid is <<provider, raw>> or <<raw>>.
\* A value is <<"num", n>>, <<"text", t>> or, for an attribute, <<"arr", texts>>.
Attr(who, a) == IF who # None /\ a \in DOMAIN who.extra THEN who.extra[a] ELSE None

Members(v) == IF v = None \/ v[1] = "num" THEN {}
              ELSE IF v[1] = "text" THEN {v[2]} ELSE v[2]

Eval(rule, who, id) ==
    CASE rule.kind = "public" -> TRUE
      [] rule.kind = "deny" -> FALSE
      [] rule.kind = "auth" -> who # None
      [] rule.kind = "claim" -> Members(Attr(who, "role")) \cap rule.values # {}
      [] rule.kind = "self" -> /\ who # None /\ id # None
                               /\ \/ id = who.uid
                                  \/ Len(who.uid) > 1 /\ id = Tail(who.uid)
      [] rule.kind = "fields" -> TRUE

\* eval_conds, on the data that is about to be stored.
InRange(v, c) == v # None /\ v[1] = "num" /\ v[2] \in c.min..c.max

\* Mutant: nothing equals nothing.
CondHoldsUnset(c, who, data) ==
    LET v == IF c.field \in DOMAIN data THEN data[c.field] ELSE None
    IN  CASE c.is = "auth" -> v = Attr(who, c.attr)
          [] c.is = "lit" -> v = c.value
          [] c.is = "int" -> InRange(v, c)

CondHolds(c, who, data) ==
    LET v == IF c.field \in DOMAIN data THEN data[c.field] ELSE None
    IN  CASE c.is = "auth" -> v # None /\ v = Attr(who, c.attr)
          [] c.is = "lit" -> v # None /\ v = c.value
          [] c.is = "int" -> InRange(v, c)

\* A service key's scope: the collection as it is spelled, and the class.
ScopeHit(who, c, method) ==
    who # None /\ Head(who.uid) = "svc" /\ <<c, Class(method)>> \in who.scope

Allow(file, order, who, c, method, id) ==
    ScopeHit(who, c, method) \/ Eval(Governing(file, order, c, method), who, id)

AllowFields(file, order, who, c, method, data) ==
    LET rule == Governing(file, order, c, method)
    IN  rule.kind = "fields" => \A x \in rule.conds : CondHolds(x, who, data)

\* Both gates of a write, as the handlers ask them one after the other.
Admits(file, order, who, c, method, id, data) ==
    /\ Allow(file, order, who, c, method, id)
    /\ AllowFields(file, order, who, c, method, data)

(* ------------------------------- properties ------------------------------- *)
\* SECURITY_RULES.md: exact, then wildcard, then root, then defaults, "fewest `*`
\* wins; ties break toward the lexicographically smallest pattern".  Whatever the
\* order of the HashMap, a rule that is added changes the decision of no collection
\* but those it names, matches or is the root of, and never beats a more specific one.
RulesAreLocal(patterns, p, c) ==
    LET with == patterns \cup {p}
        old == {Find(patterns, o, c) : o \in SetToSeqs(patterns)}
        new == {Find(with, o, c) : o \in SetToSeqs(with)}
        was == CHOOSE x \in old : TRUE
    IN  /\ Cardinality(old) = 1 /\ Cardinality(new) = 1
        /\ new # old =>
             /\ new = {p}
             /\ p = c \/ (Stars(p) > 0 /\ Covers(p, c)) \/ p = <<Head(c)>>
             /\ was # c
             /\ was # None /\ Len(was) = Len(c) => Stars(p) <= Stars(was)

\* A caller without a token passes both gates of a write only under a text that says
\* public, or whose conditions are all about the data: conditions on the caller's
\* attributes fail when there is no caller, even where the document lacks the field as
\* well, and a text that cannot be read admits nobody.  So for the text that governs
\* alone (where: the slot of the method, that of its class, or the defaults) among others
\* that are all open, wherever the code falls through; and a service key gets no
\* further than such a stranger by a scope that names another collection or class.
StrangersNeedOpenRules(t, where, method, id, data) ==
    LET c == <<1>>
        open == [kind |-> "word", word |-> "public"]
        own == CASE where = "method" -> {method} [] where = "class" -> {"write"} [] OTHER -> {}
        under == IF where = "method" THEN {"read", "write"} ELSE {"read"}
        file == [rules |-> [p \in {c} |->
                    [slot \in own \cup under |-> From(IF slot \in own THEN t ELSE open)]],
                 defaults |-> [class \in {"read", "write"} |->
                    From(IF where = "defaults" /\ class = "write" THEN t ELSE open)]]
        \* A service key whose scope is other.
        key == [uid |-> <<"svc", "k">>, extra |-> [a \in {} |-> None],
                scope |-> {<<c, "read">>, <<<<2>>, "write">>}]
        Open == /\ Loads(t)
                /\ \/ t = open
                   \/ t.kind = "fields" /\ \A i \in DOMAIN t.conds : t.conds[i].is # "auth"
        In(who) == Admits(file, <<c>>, who, c, method, id, data)
    IN  /\ In(None) => Open
        /\ In(key) => In(None) \/ t = [kind |-> "word", word |-> "auth"]
=============================================================================
