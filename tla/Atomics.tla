------------------------------- MODULE Atomics -------------------------------
(***************************************************************************)
(* The field operators of an update (core atomics.rs): sentinels such as     *)
(* increment or arrayUnion, collapsed to plain values in a create and        *)
(* executed against the stored body in a merge, with dotted keys as paths.   *)
(*                                                                         *)
(* A JSON value is <<type, content>>; an object's content is a function on   *)
(* some of the Keys, a float's is counted in halves (1.0 and 1 are two JSON   *)
(* values).  A sentinel ({"__type__": op, ...}) is <<"op", record>>, with its  *)
(* "n" or "elements" of whatever type the client sent, or none, as arg.       *)
(* The updates of a request come out of a HashMap: in any order.             *)
(***************************************************************************)
EXTENDS Integers, Sequences, FiniteSets, SequencesExt

CONSTANTS Keys,         \* field names
          Gone          \* no value (a dropped field, a missing path)

Num(n) == <<"num", n>>
Float(halves) == <<"float", halves>>
Arr(s) == <<"arr", s>>
Obj(f) == <<"obj", f>>
Now == <<"text", "now">>                \* now_iso_cached
Op(o, arg) == <<"op", [op |-> o, arg |-> arg]>>

EmptyObj == Obj([k \in {} |-> Gone])
IsObj(v) == v # Gone /\ v[1] = "obj"
IsSentinel(v) == v[1] = "op"
Named(v) == DOMAIN v[2]
With(v, k, x) == Obj([j \in Named(v) \cup {k} |-> IF j = k THEN x ELSE v[2][j]])
Without(v, k) == Obj([j \in Named(v) \ {k} |-> v[2][j]])

\* resolve_deep, resolve_sentinel: what is left of a sentinel that has nothing
\* to act on: its operand as it was sent.  An unknown one keeps what is in it.
RECURSIVE ResolveDeep(_)
ResolveDeep(v) ==
    CASE v[1] = "op" ->
           (CASE v[2].op = "serverTimestamp" -> Now
              [] v[2].op = "increment" -> IF v[2].arg = Gone THEN Num(0) ELSE v[2].arg
              [] v[2].op = "arrayUnion" -> IF v[2].arg = Gone THEN Arr(<<>>) ELSE v[2].arg
              [] v[2].op = "arrayRemove" -> Arr(<<>>)
              [] v[2].op = "deleteField" -> Gone
              [] OTHER -> Op(v[2].op, IF v[2].arg = Gone THEN Gone
                                      ELSE ResolveDeep(v[2].arg)))
      [] v[1] = "arr" ->
           Arr(SelectSeq([i \in DOMAIN v[2] |-> ResolveDeep(v[2][i])],
                         LAMBDA x : x # Gone))
      [] v[1] = "obj" ->
           LET r == [k \in Named(v) |-> ResolveDeep(v[2][k])]
           IN Obj([k \in {j \in Named(v) : r[j] # Gone} |-> r[k]])
      [] OTHER -> v

\* resolve_for_create: keys are taken literally, dots and all.
ResolveForCreate(data) == ResolveDeep(data)

RECURSIVE GetPath(_, _)
GetPath(v, p) ==
    IF p = <<>> THEN v
    ELSE IF IsObj(v) /\ Head(p) \in Named(v) THEN GetPath(v[2][Head(p)], Tail(p))
    ELSE Gone

\* set_path: whatever stands in the way and is no object is replaced by one.
RECURSIVE SetPath(_, _, _)
SetPath(v, p, x) ==
    LET obj == IF IsObj(v) THEN v ELSE EmptyObj
        below == IF Head(p) \in Named(obj) THEN obj[2][Head(p)] ELSE EmptyObj
    IN IF Len(p) = 1 THEN With(obj, Head(p), x)
       ELSE With(obj, Head(p), SetPath(below, Tail(p), x))

RECURSIVE DeletePath(_, _)
DeletePath(v, p) ==
    IF ~IsObj(v) \/ Head(p) \notin Named(v) THEN v
    ELSE IF Len(p) = 1 THEN Without(v, Head(p))
    ELSE With(v, Head(p), DeletePath(v[2][Head(p)], Tail(p)))

\* as_f64 (in halves) and as_array: what is of another type, or missing, is 0 or [].
AsNumber(v) == IF v = Gone THEN 0
               ELSE IF v[1] = "num" THEN 2 * v[2]
               ELSE IF v[1] = "float" THEN v[2] ELSE 0
AsArray(v) == IF v # Gone /\ v[1] = "arr" THEN v[2] ELSE <<>>

\* arrayUnion: what was there before the call is not added again.
Union(root, p, els) ==
    LET have == AsArray(GetPath(root, p))
    IN SetPath(root, p, Arr(have \o SelectSeq(els, LAMBDA x : x \notin ToSet(have))))

\* The sum of two whole numbers is an integer, floats or not.
Sum(m, n) == IF m % 2 = 0 /\ n % 2 = 0 THEN Num((m + n) \div 2) ELSE Float(m + n)

\* Mutant: the document loses the rest of the object it increments in.
IncrementAlone(root, p, n) == SetPath(EmptyObj, p, Sum(AsNumber(GetPath(root, p)), n))

\* Mutant: a missing field is not counted from zero.
IncrementKnown(root, p, n) ==
    IF GetPath(root, p) = Gone THEN root
    ELSE SetPath(root, p, Sum(AsNumber(GetPath(root, p)), n))

Increment(root, p, n) == SetPath(root, p, Sum(AsNumber(GetPath(root, p)), n))

\* One entry of the updates.
Apply(root, p, v) ==
    IF ~IsSentinel(v) THEN SetPath(root, p, ResolveDeep(v))
    ELSE CASE v[2].op = "serverTimestamp" -> SetPath(root, p, Now)
           [] v[2].op = "increment" -> Increment(root, p, AsNumber(v[2].arg))
           [] v[2].op = "arrayUnion" -> Union(root, p, AsArray(v[2].arg))
           [] v[2].op = "arrayRemove" ->
                SetPath(root, p, Arr(SelectSeq(AsArray(GetPath(root, p)),
                                  LAMBDA x : x \notin ToSet(AsArray(v[2].arg)))))
           [] v[2].op = "deleteField" -> DeletePath(root, p)
           [] OTHER -> SetPath(root, p, ResolveDeep(v))

\* apply_update, visiting the updates (a function from paths) in the order s.
ApplyUpdate(base, updates, s) ==
    FoldLeft(LAMBDA root, p : Apply(root, p, updates[p]), base, s)

Orders(updates) == SetToSeqs(DOMAIN updates)

------------------------------------------------------------------------------
(* What the operators promise *)

Overlap(p, q) == IsPrefix(p, q) \/ IsPrefix(q, p)

\* The update is applied in the order the HashMap hands its entries out: when
\* no key is a path into another, the result is the same for every order
\* ({"a": 1, "a.b": 2} is not such an update, and has two results); and a path that
\* overlaps no key has the value it had.
MergesAreLocal(base, updates, paths) ==
    /\ (\A p, q \in DOMAIN updates : p # q => ~Overlap(p, q))
         => \A s, t \in Orders(updates) :
              ApplyUpdate(base, updates, s) = ApplyUpdate(base, updates, t)
    /\ \A s \in Orders(updates) : \A p \in paths :
         (\A q \in DOMAIN updates : ~Overlap(p, q))
         => GetPath(ApplyUpdate(base, updates, s), p) = GetPath(base, p)


\* An operand that a create, which stores it as it is, and a merge, which converts it,
\* take for the same ({"n": "5"} is "5" in the one and 0 in the other, 1.0 the integer 1).
Plain(v) ==
    CASE ~IsSentinel(v) \/ v[2].arg = Gone -> TRUE
      [] v[2].op = "increment" -> v[2].arg[1] = "num"
                                  \/ (v[2].arg[1] = "float" /\ v[2].arg[2] % 2 # 0)
      [] v[2].op = "arrayUnion" -> v[2].arg[1] = "arr"
      [] OTHER -> TRUE

\* The create path and the merge path say the same of a new document: for keys
\* without dots and operands of the operator's own type, resolve_for_create is
\* apply_update over nothing.
CreateIsMergeOverNothing(updates) ==
    (\A p \in DOMAIN updates : Len(p) = 1 /\ Plain(updates[p]))
    => \A s \in Orders(updates) :
         ApplyUpdate(EmptyObj, updates, s)
           = ResolveForCreate(Obj([k \in {p[1] : p \in DOMAIN updates}
                                     |-> updates[<<k>>]]))
=============================================================================
