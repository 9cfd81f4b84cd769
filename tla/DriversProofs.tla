---------------------------- MODULE DriversProofs ----------------------------
(***************************************************************************)
(* Theorems about Drivers, for any set of clients, collections and engines, *)
(* requests of any bounded length and any number of faults.                 *)
(*                                                                         *)
(* The inductive invariant says what a request in flight has in hand: what   *)
(* it has read is what is still stored unless it was overtaken; what it has  *)
(* done so far is what its operations come to, one after the other, from     *)
(* where it began; a version of its own is protected by the row lock; and    *)
(* what RethinkDB's rollback log restores last is what the batch gathered.   *)
(*                                                                         *)
(* Then the filters of the drivers, for every operator, value and operand,   *)
(* and their lists and counts, for documents and queries of any size.        *)
(***************************************************************************)
EXTENDS Drivers, QueryInputs, SequenceTheorems, WellFoundedInduction, TLAPS

OutType == [existed : BOOLEAN, doc : Body \cup {None}]

Locals == [at : 1..MaxOps + 1, read : BOOLEAN,
           snap : Row \cup {None}, seen : Body \cup {None}, new : Body,
           own : Row \cup {None, Nothing}, outs : Seq(OutType),
           over : Body \cup {Nothing}, log : Seq(Body \cup {None}),
           late : BOOLEAN, torn : BOOLEAN, tries : {0, 1},
           res : {"ok", "exists", "error"}]

PlainSteps == {"get", "update", "insert", "upsert", "delete"}
TxSteps == {"txget", "txput", "txinsert", "txdelete"}
EmulatedSteps == {"gather", "apply", "undo"}
Steps == PlainSteps \cup TxSteps \cup EmulatedSteps \cup {"done"}

TypeOK ==
    /\ driver \in Engines
    /\ row \in [Colls -> Row \cup {None}]
    /\ holder \in Clients \cup {None}
    /\ req \in [Clients -> Request]
    /\ pc \in [Clients -> Steps]
    /\ loc \in [Clients -> Locals]
    /\ DOMAIN ans = Clients
    /\ faults \in Nat

\* A table of RethinkDB's holds rows of its own collection.
Tables == ~Flat => \A k \in Colls : row[k] # None => row[k].path = k

\* Outside a transaction of an SQL driver.
PlainHand(c) ==
    LET do == req[c].ops[1].do
        w == Sent(c, 1)
        reads == driver # "postgres"
    IN /\ Flat /\ ~req[c].tx
       /\ loc[c].own = Nothing
       /\ loc[c].read /\ ~loc[c].late => loc[c].seen = BodyOf(req[c].coll, Here(c))
       /\ pc[c] = "get" => reads /\ do \in {"merge", "delete"} /\ loc[c].new = w
       /\ pc[c] \in {"update", "insert"} /\ do = "merge"
            => IF reads THEN loc[c].read /\ loc[c].new = Over(loc[c].seen, w)
               ELSE loc[c].new = w
       /\ pc[c] = "update" => do = "merge"
       /\ pc[c] = "insert" => do \in {"merge", "insert"}
       /\ pc[c] = "insert" /\ do = "insert" => loc[c].new = w
       /\ pc[c] = "upsert" => do = "replace" /\ loc[c].new = w
       /\ pc[c] = "delete" => do = "delete" /\ (reads => loc[c].read)

\* The row as a transaction of an SQL driver has it.
Mine(c) == IF loc[c].own # Nothing THEN loc[c].own ELSE loc[c].snap

\* Requests that leave rows of other collections alone.
KeepsToItself(c) ==
    /\ req[c].coll # Top
    /\ \A n \in 1..Len(req[c].ops) : req[c].ops[n].do # "replace"

\* What r shows to the other collections, against s: nothing new, and the same
\* unless the request replaces.
Spares(c, r, s) ==
    \A k \in Colls \ {req[c].coll, Top} :
      /\ req[c].coll # Top => BodyOf(k, r) \in {None, BodyOf(k, s)}
      /\ KeepsToItself(c) => BodyOf(k, r) = BodyOf(k, s)

\* The row lock: a version of its own is written under it.
OwnHand(c) ==
    loc[c].own # Nothing =>
      /\ holder = c
      /\ loc[c].read
      /\ driver = "sqlite" => ~loc[c].late
      /\ \E n \in 1..Len(req[c].ops) : req[c].ops[n].do # "read"
      /\ Spares(c, loc[c].own, Here(c))

\* The operation a transaction is in the middle of.
OpHand(c) ==
    LET op == OpAt(c) IN
    /\ loc[c].at <= Len(req[c].ops) /\ loc[c].read
    /\ ~Overtaken(c) => loc[c].seen = BodyOf(req[c].coll, Mine(c))
    /\ IF pc[c] = "txdelete" THEN op.do = "delete" /\ loc[c].seen # None
       ELSE /\ op.do \in {"merge", "replace"}
            /\ op.must => loc[c].seen # None
            /\ loc[c].new = Over(IF op.do = "merge" THEN loc[c].seen ELSE None,
                                 Sent(c, loc[c].at))
    /\ pc[c] = "txinsert" => op.do = "merge" /\ (~Overtaken(c) => loc[c].seen = None)

SoFar(r, outs) == [row |-> r, res |-> "ok", outs |-> outs]

TxHand(c) ==
    /\ Flat /\ req[c].tx
    /\ loc[c].at <= Len(req[c].ops) + 1
    /\ loc[c].read /\ ~loc[c].late => loc[c].snap = Here(c)
    /\ ~loc[c].read => loc[c].at = 1 /\ loc[c].outs = <<>> /\ loc[c].snap = None
    /\ loc[c].read /\ ~Overtaken(c) =>
         After(req[c].coll, loc[c].snap, req[c].ops, c)[loc[c].at - 1]
           = SoFar(Mine(c), loc[c].outs)
    /\ OwnHand(c)
    /\ pc[c] # "txget" => OpHand(c)

\* RethinkDB.  What a batch that nobody has overtaken finds in the table.
Undisturbed(c) == ~loc[c].late /\ ~loc[c].torn

LogHand(c) ==
    /\ loc[c].log = <<>> => Here(c) = RowOf(req[c].coll, loc[c].seen)
    /\ loc[c].log # <<>> => loc[c].log[Len(loc[c].log)] = loc[c].seen

BatchHand(c) ==
    LET base == RowOf(req[c].coll, loc[c].seen) IN
    /\ loc[c].read
    /\ Undisturbed(c) => LogHand(c)
    /\ pc[c] = "apply" =>
         /\ loc[c].log = <<>> => loc[c].over = Nothing
         /\ req[c].ops[1].must => loc[c].seen # None
         /\ ~Misjudged(c) =>
              /\ After(req[c].coll, base, req[c].ops, c)[loc[c].at - 1]
                   = SoFar(RowOf(req[c].coll, Prev(c)), loc[c].outs)
              /\ Undisturbed(c) => Here(c) = RowOf(req[c].coll, Prev(c))
    /\ pc[c] = "undo" =>
         /\ loc[c].res # "ok"
         /\ Undisturbed(c) /\ ~Misjudged(c) => loc[c].res = "error"

EmulatedHand(c) ==
    /\ ~Flat
    /\ loc[c].own = Nothing
    /\ loc[c].at <= Len(req[c].ops)
    /\ pc[c] = "undo" => req[c].tx
    /\ pc[c] = "gather" => loc[c] = [Fresh EXCEPT !.new = Sent(c, 1)]
    /\ pc[c] = "gather" => req[c].ops[1].do # "insert"
    /\ loc[c].tries = 1 => loc[c].torn
    /\ ~req[c].tx =>
         /\ loc[c].at = 1 /\ loc[c].over = Nothing /\ loc[c].outs = <<>>
         /\ IF req[c].ops[1].do = "insert" THEN ~loc[c].read /\ loc[c].seen = None
            ELSE pc[c] = "apply" =>
                   /\ loc[c].read
                   /\ Undisturbed(c) => loc[c].seen = BodyOf(req[c].coll, Here(c))
    /\ req[c].tx /\ pc[c] # "gather" => BatchHand(c)

Hand(c) ==
    /\ pc[c] \in PlainSteps => PlainHand(c)
    /\ pc[c] \in TxSteps => TxHand(c)
    /\ pc[c] \in EmulatedSteps => EmulatedHand(c)
    /\ pc[c] = "done" => loc[c] = Fresh

DInv == TypeOK /\ Tables /\ \A c \in Clients : Hand(c)

-----------------------------------------------------------------------------
(* Rows and documents *)

LEMMA EmptyType == Empty \in Body
  BY MaxOpsAssumption DEF Empty, Body, Unset

LEMMA SentType ==
    ASSUME NEW c \in Clients, NEW n \in 0..MaxOps + 1
    PROVE  Sent(c, n) \in Body
  BY EmptyType DEF Sent, Body

LEMMA OverType ==
    ASSUME NEW b \in Body \cup {None}, NEW w \in Body
    PROVE  Over(b, w) \in Body
<1>1. Unset \in 0..MaxOps + 1
  BY MaxOpsAssumption DEF Unset
<1>2. \A f \in Clients : (IF w[f] # Unset THEN w[f] ELSE IF b = None THEN Unset ELSE b[f])
                           \in 0..MaxOps + 1
  BY <1>1 DEF Body
<1> QED BY <1>2 DEF Over, Body

\* Nothing under it: what was sent is what is stored.
LEMMA OverNone ==
    ASSUME NEW w \in Body
    PROVE  Over(None, w) = w
<1>1. \A f \in Clients : (IF w[f] # Unset THEN w[f] ELSE Unset) = w[f]
  OBVIOUS
<1> QED BY <1>1 DEF Over, Body

\* A merge of what a merge gave changes nothing.
LEMMA OverTwice ==
    ASSUME NEW b \in Body, NEW w \in Body
    PROVE  Over(b, Over(b, w)) = Over(b, w)
<1>1. b # None
  BY NoneAssumption
<1>2. \A f \in Clients : Over(b, w)[f] = IF w[f] # Unset THEN w[f] ELSE b[f]
  BY <1>1 DEF Over
<1>3. \A f \in Clients : (IF Over(b, w)[f] # Unset THEN Over(b, w)[f] ELSE b[f])
                           = Over(b, w)[f]
  BY <1>2
<1>4. Over(b, Over(b, w)) = [f \in Clients |-> Over(b, w)[f]]
  BY <1>1, <1>3 DEF Over
<1> QED BY <1>4 DEF Over

LEMMA RowOfType ==
    ASSUME NEW k \in Colls, NEW b \in Body \cup {None}
    PROVE  /\ RowOf(k, b) \in Row \cup {None}
           /\ RowOf(k, b) = None <=> b = None
           /\ b # None => RowOf(k, b) \in Row /\ RowOf(k, b).path = k
           /\ Sees(k, RowOf(k, b)) <=> b # None
           /\ BodyOf(k, RowOf(k, b)) = b
<1>1. b # None => [path |-> k, body |-> b] \in Row
  BY DEF Row
<1>2. None \notin Row
  BY NoneAssumption
<1>3. CASE b = None
  BY <1>3 DEF RowOf, BodyOf, Sees
<1>4. CASE b # None
  BY <1>1, <1>2, <1>4 DEF RowOf, BodyOf, Sees
<1> QED BY <1>3, <1>4

LEMMA BodyOfType ==
    ASSUME NEW k \in Colls, NEW r \in Row \cup {None}
    PROVE  /\ BodyOf(k, r) \in Body \cup {None}
           /\ Sees(k, r) <=> BodyOf(k, r) # None
           /\ Sees(k, r) => r \in Row /\ r # None /\ BodyOf(k, r) = r.body
  BY NoneAssumption DEF BodyOf, Sees, Row

LEMMA UpdatedType ==
    ASSUME NEW k \in Colls, NEW r \in Row, NEW b \in Body
    PROVE  /\ Updated(k, r, b) \in Row
           /\ Updated(k, r, b).path \in {k, r.path}
           /\ driver # "postgres" => Updated(k, r, b) = RowOf(k, b)
<1>1. CASE driver = "postgres"
  <2>1. r.body \in Body \cup {None} BY DEF Row
  <2>2. Over(r.body, b) \in Body
    BY <2>1, OverType
  <2> QED BY <1>1, <2>2 DEF Updated, Row
<1>2. CASE driver # "postgres"
  <2>1. RowOf(k, b) \in Row /\ RowOf(k, b).path = k
    BY RowOfType, NoneAssumption
  <2> QED BY <1>2, <2>1 DEF Updated
<1> QED BY <1>1, <1>2

LEMMA OutFacts ==
    ASSUME NEW b \in Body \cup {None}, NEW d \in Body \cup {None}
    PROVE  Out(b, d) \in OutType /\ Out(b, d).doc = d
  BY DEF Out, OutType

-----------------------------------------------------------------------------
(* What the operations of a request come to *)

\* The natural numbers are well ordered.
LEMMA LeastNat ==
    ASSUME NEW T, T \subseteq Nat, T # {}
    PROVE  \E n \in T : \A m \in T : n <= m
<1> DEFINE R == {p \in Nat \X Nat : p[1] < p[2]}
<1>1. R = OpToRel(<, Nat)
  BY DEF OpToRel
<1>2. IsWellFoundedOn(R, Nat)
  BY <1>1, NatLessThanWellFounded
<1> HIDE DEF R
<1>3. PICK n \in T : \A m \in T : <<m, n>> \notin R
  BY <1>2, WFMin
<1>4. ASSUME NEW m \in T PROVE n <= m
  <2>1. <<m, n>> \notin R /\ m \in Nat /\ n \in Nat
    BY <1>3
  <2>2. ~(m < n)
    BY <2>1 DEF R
  <2> QED BY <2>1, <2>2
<1> QED BY <1>4

\* The recursion of After is well defined: the equation it is written with
\* has a solution, built from the one for one operation less.
LEMMA AfterDef ==
    ASSUME NEW k, NEW r, NEW ops, NEW c, Len(ops) \in Nat
    PROVE  After(k, r, ops, c) =
             [n \in 0..Len(ops) |->
                IF n = 0 THEN SoFar(r, <<>>)
                ELSE Then(k, r, After(k, r, ops, c)[n - 1], ops[n], Sent(c, n))]
<1> DEFINE Eq(g, n) == IF n = 0 THEN SoFar(r, <<>>)
                       ELSE Then(k, r, g[n - 1], ops[n], Sent(c, n))
           T == {m \in Nat : ~\E g : g = [n \in 0..m |-> Eq(g, n)]}
<1>1. CASE T = {}
  <2>1. \E g : g = [n \in 0..Len(ops) |-> Eq(g, n)]
    BY <1>1
  <2> QED BY <2>1 DEF After, SoFar
<1>2. CASE T # {}
  <2>1. PICK m \in T : \A p \in T : m <= p
    <3>1. T \subseteq Nat OBVIOUS
    <3> HIDE DEF T
    <3> QED BY <3>1, <1>2, LeastNat
  <2>2. m # 0
    <3> DEFINE z == [n \in 0..0 |-> SoFar(r, <<>>)]
    <3>1. z = [n \in 0..0 |-> Eq(z, n)]
      OBVIOUS
    <3> QED BY <3>1
  <2>3. m - 1 \in Nat /\ m - 1 \notin T
    <3>1. T \subseteq Nat OBVIOUS
    <3> HIDE DEF T
    <3> QED BY <3>1, <2>1, <2>2
  <2>4. PICK g : g = [n \in 0..m - 1 |-> Eq(g, n)]
    BY <2>3
  <2> DEFINE Last == Then(k, r, g[m - 1], ops[m], Sent(c, m))
             h == [n \in 0..m |-> IF n = m THEN Last ELSE g[n]]
  <2>5. h = [n \in 0..m |-> Eq(h, n)]
    <3> HIDE DEF Last
    <3>1. ASSUME NEW n \in 0..m PROVE h[n] = Eq(h, n)
      <4>1. m \in Nat OBVIOUS
      <4>2. CASE n = m
        <5>1. h[n] = Last /\ h[n - 1] = g[m - 1]
          BY <4>1, <4>2, <2>2
        <5> QED BY <5>1, <4>2, <2>2 DEF Last
      <4>3. CASE n # m
        <5>1. n \in 0..m - 1 /\ h[n] = g[n]
          BY <4>1, <4>3
        <5>2. g[n] = Eq(g, n)
          BY <5>1, <2>4
        <5>3. CASE n = 0
          BY <5>1, <5>2, <5>3
        <5>4. CASE n # 0
          <6>1. h[n - 1] = g[n - 1]
            BY <4>1, <5>1, <5>4
          <6> QED BY <5>1, <5>2, <5>4, <6>1
        <5> QED BY <5>3, <5>4
      <4> QED BY <4>2, <4>3
    <3> HIDE DEF Eq
    <3>2. h = [n \in 0..m |-> h[n]]
      OBVIOUS
    <3> HIDE DEF h
    <3> QED BY <3>1, <3>2
  <2> HIDE DEF h, Last, Eq
  <2> QED BY <2>5, <2>1
<1> QED BY <1>1, <1>2

LEMMA AfterNext ==
    ASSUME NEW k, NEW r, NEW ops, NEW c, Len(ops) \in Nat
    PROVE  /\ After(k, r, ops, c)[0] = SoFar(r, <<>>)
           /\ \A n \in 1..Len(ops) :
                After(k, r, ops, c)[n]
                  = Then(k, r, After(k, r, ops, c)[n - 1], ops[n], Sent(c, n))
<1> DEFINE A == After(k, r, ops, c)
<1>1. A = [n \in 0..Len(ops) |->
             IF n = 0 THEN SoFar(r, <<>>)
             ELSE Then(k, r, A[n - 1], ops[n], Sent(c, n))]
  BY AfterDef
<1> HIDE DEF A
<1>2. A[0] = SoFar(r, <<>>)
  BY <1>1
<1>3. ASSUME NEW n \in 1..Len(ops)
      PROVE  A[n] = Then(k, r, A[n - 1], ops[n], Sent(c, n))
  <2>1. n \in 0..Len(ops) /\ n # 0
    OBVIOUS
  <2> QED BY <1>1, <2>1
<1> QED BY <1>2, <1>3 DEF A

\* An operation that goes well is pushed.
LEMMA GoesOn ==
    ASSUME NEW k, NEW r, NEW ops, NEW c, Len(ops) \in Nat,
           NEW n \in 1..Len(ops), NEW x, NEW outs, NEW y, NEW out,
           After(k, r, ops, c)[n - 1] = SoFar(x, outs),
           Atomic(k, x, ops[n], Sent(c, n)) = [row |-> y, res |-> "ok", out |-> out]
    PROVE  After(k, r, ops, c)[n] = SoFar(y, Append(outs, out))
<1>1. After(k, r, ops, c)[n] = Then(k, r, SoFar(x, outs), ops[n], Sent(c, n))
  BY AfterNext
<1> DEFINE a == Atomic(k, x, ops[n], Sent(c, n))
<1>2. a.res = "ok" /\ a.row = y /\ a.out = out
  OBVIOUS
<1> HIDE DEF a
<1>3. Then(k, r, SoFar(x, outs), ops[n], Sent(c, n)) = SoFar(a.row, Append(outs, a.out))
  BY <1>2 DEF Then, SoFar, a
<1> QED BY <1>1, <1>2, <1>3

\* A refused operation is the end of the request.
LEMMA StopsHere ==
    ASSUME NEW k, NEW r, NEW ops, NEW c, Len(ops) \in Nat,
           NEW n \in 1..Len(ops), NEW x, NEW outs, NEW e,
           After(k, r, ops, c)[n - 1] = SoFar(x, outs),
           Atomic(k, x, ops[n], Sent(c, n)).res = e, e # "ok"
    PROVE  Run(k, r, ops, c) = [row |-> r, res |-> e, outs |-> <<>>]
<1> DEFINE A == After(k, r, ops, c)
           stop == [row |-> r, res |-> e, outs |-> <<>>]
           T == {m \in n..Len(ops) : A[m] # stop}
<1>1. A[n] = stop
  <2>1. A[n] = Then(k, r, SoFar(x, outs), ops[n], Sent(c, n))
    BY AfterNext
  <2> QED BY <2>1 DEF Then, SoFar
<1>2. \A m \in n + 1..Len(ops) : A[m - 1] = stop => A[m] = stop
  <2> SUFFICES ASSUME NEW m \in n + 1..Len(ops), A[m - 1] = stop
               PROVE  A[m] = stop
    OBVIOUS
  <2>1. m \in 1..Len(ops)
    OBVIOUS
  <2>2. A[m] = Then(k, r, stop, ops[m], Sent(c, m))
    BY <2>1, AfterNext
  <2> QED BY <2>2 DEF Then
<1> HIDE DEF A, stop
<1>3. T = {}
  <2> SUFFICES ASSUME T # {} PROVE FALSE
    OBVIOUS
  <2>1. T \subseteq Nat
    OBVIOUS
  <2>2. PICK m \in T : \A p \in T : m <= p
    <3> HIDE DEF T
    <3> QED BY <2>1, LeastNat
  <2>3. m # n /\ m \in n..Len(ops) /\ A[m] # stop
    BY <1>1
  <2>4. m - 1 \notin T
    <3> HIDE DEF T
    <3> QED BY <2>1, <2>2
  <2>5. m - 1 \in n..Len(ops) /\ m \in n + 1..Len(ops)
    BY <2>3
  <2> QED BY <2>3, <2>4, <2>5, <1>2
<1>4. Len(ops) \in n..Len(ops)
  OBVIOUS
<1> QED BY <1>3, <1>4 DEF Run, A, stop

\* One operation is the whole request.
LEMMA RunOfOne ==
    ASSUME NEW k, NEW r, NEW ops, NEW c, Len(ops) = 1, NEW y, NEW e, NEW out,
           Atomic(k, r, ops[1], Sent(c, 1)) = [row |-> y, res |-> e, out |-> out]
    PROVE  /\ e = "ok" => Run(k, r, ops, c) = SoFar(y, <<out>>)
           /\ e # "ok" => Run(k, r, ops, c) = [row |-> r, res |-> e, outs |-> <<>>]
<1>1. After(k, r, ops, c)[1] = Then(k, r, SoFar(r, <<>>), ops[1], Sent(c, 1))
  <2>1. 1 \in 1..Len(ops) /\ Len(ops) \in Nat /\ 1 - 1 = 0
    OBVIOUS
  <2> QED BY <2>1, AfterNext
<1>2. Append(<<>>, out) = <<out>>
  OBVIOUS
<1> QED BY <1>1, <1>2 DEF Run, Then, SoFar

-----------------------------------------------------------------------------
(* Requests *)

LEMMA RequestFacts ==
    ASSUME NEW q \in Request
    PROVE  /\ q.coll \in Colls /\ q.tx \in BOOLEAN
           /\ Len(q.ops) \in 1..MaxOps
           /\ \A n \in 1..Len(q.ops) : q.ops[n] \in Op
           /\ ~q.tx => /\ Len(q.ops) = 1 /\ ~q.ops[1].must
                       /\ q.ops[1].do \in {"insert", "merge", "replace", "delete"}
           /\ q.tx => \A n \in 1..Len(q.ops) :
                        /\ q.ops[n].do \in {"read", "delete", "merge", "replace"}
                        /\ q.ops[n].must => q.ops[n].do \in {"merge", "replace"}
<1>1. CASE q \in [coll : Colls, tx : {FALSE}, ops : Single]
  <2>1. PICK d \in {"insert", "merge", "replace", "delete"} : q.ops = <<Plain(d)>>
    BY <1>1 DEF Single
  <2>2. Len(q.ops) = 1 /\ q.ops[1] = Plain(d)
    BY <2>1
  <2>3. 1 \in 1..MaxOps
    BY MaxOpsAssumption
  <2>4. Plain(d) \in Op /\ Plain(d).do = d /\ Plain(d).must = FALSE
    BY DEF Plain, Op
  <2>5. q.coll \in Colls /\ q.tx = FALSE
    BY <1>1
  <2>6. \A n \in 1..Len(q.ops) : q.ops[n] \in Op
    BY <2>2, <2>4
  <2> QED BY <2>2, <2>3, <2>4, <2>5, <2>6
<1>2. CASE q \in [coll : Colls, tx : {TRUE}, ops : Batch]
  <2>1. PICK n \in 1..MaxOps : q.ops \in [1..n -> BatchOps]
    BY <1>2 DEF Batch
  <2>2. n \in Nat
    BY MaxOpsAssumption
  <2>3. q.ops \in Seq(BatchOps)
    BY <2>1, <2>2, SeqDef
  <2>4. DOMAIN q.ops = 1..Len(q.ops) /\ Len(q.ops) \in Nat
    BY <2>3, LenProperties
  <2>5. 1..n = 1..Len(q.ops)
    BY <2>1, <2>4
  <2>6. Len(q.ops) = n
    BY <2>2, <2>4, <2>5
  <2>7. \A b \in BatchOps : /\ b \in Op
                            /\ b.do \in {"read", "delete", "merge", "replace"}
                            /\ b.must => b.do \in {"merge", "replace"}
    <3> SUFFICES ASSUME NEW b \in BatchOps
                 PROVE  /\ b \in Op
                        /\ b.do \in {"read", "delete", "merge", "replace"}
                        /\ b.must => b.do \in {"merge", "replace"}
      OBVIOUS
    <3>1. CASE \E d \in {"merge", "replace"} : b = [do |-> d, must |-> TRUE]
      <4>1. PICK d \in {"merge", "replace"} : b = [do |-> d, must |-> TRUE]
        BY <3>1
      <4> QED BY <4>1 DEF Op
    <3>2. CASE ~ \E d \in {"merge", "replace"} : b = [do |-> d, must |-> TRUE]
      <4>1. PICK d \in {"read", "delete", "merge", "replace"} :
                   b = [do |-> d, must |-> FALSE]
        BY <3>2 DEF BatchOps, Plain
      <4> QED BY <4>1 DEF Op
    <3> QED BY <3>1, <3>2
  <2>8. \A m \in 1..Len(q.ops) : q.ops[m] \in BatchOps
    BY <2>1, <2>5
  <2>9. q.coll \in Colls /\ q.tx = TRUE
    BY <1>2
  <2> QED BY <2>1, <2>6, <2>7, <2>8, <2>9
<1> QED BY <1>1, <1>2 DEF Request

-----------------------------------------------------------------------------
(* What no step changes *)

\* The engine stays the same, and with it what operations mean.
LEMMA SameMeaning ==
    ASSUME driver' = driver
    PROVE  \A k, r, ops, c : After(k, r, ops, c)' = After(k, r, ops, c)
<1>1. ASSUME NEW k, NEW r, NEW b
      PROVE  Updated(k, r, b)' = Updated(k, r, b)
  BY DEF Updated
<1>2. ASSUME NEW k, NEW r, NEW op, NEW w
      PROVE  Atomic(k, r, op, w)' = Atomic(k, r, op, w)
  BY <1>1, Zenon DEF Atomic
<1>3. ASSUME NEW k, NEW r, NEW x, NEW op, NEW w
      PROVE  Then(k, r, x, op, w)' = Then(k, r, x, op, w)
  BY <1>2 DEF Then
<1>4. ASSUME NEW k, NEW r, NEW ops, NEW c
      PROVE  After(k, r, ops, c)' = After(k, r, ops, c)
  BY <1>3, Zenon DEF After
<1> QED BY <1>4

\* A client that must not be overtaken: see Overtaken.
Careful(c) ==
    /\ driver # (IF req[c].tx THEN "sqlite" ELSE "postgres")
    /\ driver = "mysql" => \E n \in 1..Len(req[c].ops) : req[c].ops[n].do # "read"

LEMMA OvertakenIsLate ==
    ASSUME NEW c
    PROVE  Overtaken(c) <=> loc[c].late /\ Careful(c)
  BY DEF Overtaken, Careful

LEMMA SameRequest ==
    ASSUME driver' = driver, req' = req, NEW c \in Clients
    PROVE  /\ Flat' <=> Flat
           /\ Home(c)' = Home(c)
           /\ Here(c)' = row'[Home(c)]
           /\ Misjudged(c)' <=> Misjudged(c)
           /\ Overtaken(c)' <=> loc'[c].late /\ Careful(c)
           /\ KeepsToItself(c)' <=> KeepsToItself(c)
           /\ OpAt(c)' = req[c].ops[loc'[c].at]
           /\ Mine(c)' = IF loc'[c].own # Nothing THEN loc'[c].own ELSE loc'[c].snap
           /\ Prev(c)' = IF loc'[c].over # Nothing THEN loc'[c].over ELSE loc'[c].seen
<1>1. Flat' <=> Flat
  BY DEF Flat
<1>2. Home(c)' = Home(c)
  BY <1>1 DEF Home, Slot
<1>3. Misjudged(c)' <=> Misjudged(c)
  BY <1>1 DEF Misjudged
<1>4. Overtaken(c)' <=> loc'[c].late /\ Careful(c)
  BY DEF Overtaken, Careful
<1>5. KeepsToItself(c)' <=> KeepsToItself(c)
  BY DEF KeepsToItself
<1> QED BY <1>1, <1>2, <1>3, <1>4, <1>5 DEF Here, OpAt, Mine, Prev

LEMMA HomeFacts ==
    ASSUME TypeOK, NEW c \in Clients
    PROVE  /\ req[c] \in Request
           /\ loc[c] \in Locals /\ pc[c] \in Steps
           /\ Home(c) \in Colls /\ Top \in Colls
           /\ Home(c) = IF Flat THEN Top ELSE req[c].coll
           /\ Here(c) \in Row \cup {None}
  BY RequestFacts DEF TypeOK, Home, Slot, Here, Colls

-----------------------------------------------------------------------------
(* The other clients *)

\* What a step of another client may do to d: overtake it.
Beside(d) ==
    /\ pc'[d] = pc[d]
    /\ loc'[d] \in {loc[d], [loc[d] EXCEPT !.late = TRUE]}
    /\ loc'[d] # loc[d] => loc[d].read /\ row'[Home(d)] # Here(d)
    /\ loc[d].read /\ row'[Home(d)] # Here(d) => loc'[d].late
    /\ holder = d => holder' = d /\ (Flat => row'[Home(d)] = Here(d))

LEMMA BesideFields ==
    ASSUME NEW d \in Clients, loc[d] \in Locals, Beside(d)
    PROVE  /\ loc'[d] \in Locals
           /\ loc'[d].at = loc[d].at /\ loc'[d].read = loc[d].read
           /\ loc'[d].snap = loc[d].snap /\ loc'[d].seen = loc[d].seen
           /\ loc'[d].new = loc[d].new /\ loc'[d].own = loc[d].own
           /\ loc'[d].outs = loc[d].outs /\ loc'[d].over = loc[d].over
           /\ loc'[d].log = loc[d].log /\ loc'[d].torn = loc[d].torn
           /\ loc'[d].tries = loc[d].tries /\ loc'[d].res = loc[d].res
           /\ loc[d].late => loc'[d].late
           /\ ~loc[d].read => loc'[d] = loc[d]
           /\ loc[d].read /\ ~loc'[d].late => row'[Home(d)] = Here(d)
           /\ row'[Home(d)] = Here(d) => loc'[d] = loc[d]
<1>1. CASE loc'[d] = loc[d]
  BY <1>1 DEF Beside
<1>2. CASE loc'[d] = [loc[d] EXCEPT !.late = TRUE]
  BY <1>2 DEF Beside, Locals
<1> QED BY <1>1, <1>2 DEF Beside

LEMMA OtherPlain ==
    ASSUME TypeOK, driver' = driver, req' = req, NEW d \in Clients,
           PlainHand(d), Beside(d)
    PROVE  PlainHand(d)'
<1>1. loc[d] \in Locals
  BY HomeFacts
<1>2. /\ loc'[d].read = loc[d].read /\ loc'[d].own = loc[d].own
      /\ loc'[d].seen = loc[d].seen /\ loc'[d].new = loc[d].new
      /\ loc[d].late => loc'[d].late
      /\ loc[d].read /\ ~loc'[d].late => row'[Home(d)] = Here(d)
      /\ pc'[d] = pc[d]
  BY <1>1, BesideFields DEF Beside
<1>3. Here(d)' = row'[Home(d)] /\ (Flat' <=> Flat)
  BY SameRequest
<1>4. (loc[d].read /\ ~loc[d].late => loc[d].seen = BodyOf(req[d].coll, Here(d)))'
  <2>1. loc'[d].read /\ ~loc'[d].late => loc[d].seen = BodyOf(req[d].coll, Here(d)')
    BY <1>2, <1>3 DEF PlainHand
  <2> QED BY <2>1, <1>2 DEF BodyOf, Sees
<1> QED BY <1>2, <1>3, <1>4 DEF PlainHand

LEMMA OtherOwn ==
    ASSUME TypeOK, driver' = driver, req' = req, NEW d \in Clients,
           Flat, OwnHand(d), Beside(d)
    PROVE  OwnHand(d)'
<1>1. loc[d] \in Locals
  BY HomeFacts
<1>2. /\ loc'[d].read = loc[d].read /\ loc'[d].own = loc[d].own
      /\ row'[Home(d)] = Here(d) => loc'[d] = loc[d]
      /\ holder = d => holder' = d /\ row'[Home(d)] = Here(d)
  BY <1>1, BesideFields DEF Beside
<1>3. Here(d)' = row'[Home(d)] /\ (KeepsToItself(d)' <=> KeepsToItself(d))
  BY SameRequest
<1>4. SUFFICES ASSUME loc[d].own # Nothing PROVE OwnHand(d)'
  BY <1>2 DEF OwnHand
<1>5. Here(d)' = Here(d) /\ loc'[d] = loc[d] /\ holder' = d
  BY <1>2, <1>3, <1>4 DEF OwnHand
<1>6. \A k : BodyOf(k, Here(d))' = BodyOf(k, Here(d))
  BY <1>5 DEF BodyOf, Sees
<1>7. \A k : BodyOf(k, loc[d].own)' = BodyOf(k, loc[d].own)
  BY <1>5 DEF BodyOf, Sees
<1>8. Spares(d, loc[d].own, Here(d))'
  <2>1. Spares(d, loc[d].own, Here(d))
    BY <1>4 DEF OwnHand
  <2> QED BY <2>1, <1>3, <1>6, <1>7 DEF Spares
<1> QED BY <1>4, <1>5, <1>8 DEF OwnHand

LEMMA OtherTx ==
    ASSUME TypeOK, driver' = driver, req' = req, NEW d \in Clients,
           TxHand(d), Beside(d)
    PROVE  TxHand(d)'
<1>1. loc[d] \in Locals
  BY HomeFacts
<1>2. /\ loc'[d].read = loc[d].read /\ loc'[d].own = loc[d].own
      /\ loc'[d].seen = loc[d].seen /\ loc'[d].new = loc[d].new
      /\ loc'[d].snap = loc[d].snap /\ loc'[d].at = loc[d].at
      /\ loc'[d].outs = loc[d].outs
      /\ loc[d].late => loc'[d].late
      /\ loc[d].read /\ ~loc'[d].late => row'[Home(d)] = Here(d)
      /\ pc'[d] = pc[d]
  BY <1>1, BesideFields DEF Beside
<1>3. /\ Here(d)' = row'[Home(d)] /\ (Flat' <=> Flat)
      /\ Mine(d)' = Mine(d) /\ OpAt(d)' = OpAt(d)
      /\ Overtaken(d) => Overtaken(d)'
  BY <1>2, SameRequest, OvertakenIsLate DEF Mine, OpAt
<1>4. OwnHand(d)'
  BY OtherOwn DEF TxHand
<1>5. (loc[d].read /\ ~loc[d].late => loc[d].snap = Here(d))'
  BY <1>2, <1>3 DEF TxHand
<1>6. (loc[d].read /\ ~Overtaken(d) =>
         After(req[d].coll, loc[d].snap, req[d].ops, d)[loc[d].at - 1]
           = SoFar(Mine(d), loc[d].outs))'
  <2>1. After(req[d].coll, loc[d].snap, req[d].ops, d)'
          = After(req[d].coll, loc[d].snap, req[d].ops, d)
    BY <1>2, SameMeaning
  <2>2. SoFar(Mine(d), loc[d].outs)' = SoFar(Mine(d), loc[d].outs)
    BY <1>2, <1>3 DEF SoFar
  <2>3. (loc[d].at - 1)' = loc[d].at - 1
    BY <1>2
  <2> QED BY <1>2, <1>3, <2>1, <2>2, <2>3 DEF TxHand
<1>7. (pc[d] # "txget" => OpHand(d))'
  <2> SUFFICES ASSUME pc[d] # "txget" PROVE OpHand(d)'
    BY <1>2
  <2>1. OpHand(d)
    BY DEF TxHand
  <2>2. BodyOf(req[d].coll, Mine(d))' = BodyOf(req[d].coll, Mine(d))
    BY <1>3 DEF BodyOf, Sees
  <2>3. Over(IF OpAt(d).do = "merge" THEN loc[d].seen ELSE None, Sent(d, loc[d].at))'
          = Over(IF OpAt(d).do = "merge" THEN loc[d].seen ELSE None, Sent(d, loc[d].at))
    BY <1>2, <1>3 DEF Over, Sent
  <2> QED BY <1>2, <1>3, <2>1, <2>2, <2>3 DEF OpHand
<1>8. /\ (loc[d].at <= Len(req[d].ops) + 1)'
      /\ (~loc[d].read => loc[d].at = 1 /\ loc[d].outs = <<>> /\ loc[d].snap = None)'
  BY <1>2 DEF TxHand
<1>9. (Flat /\ req[d].tx)'
  BY <1>3 DEF TxHand
<1> QED BY <1>4, <1>5, <1>6, <1>7, <1>8, <1>9 DEF TxHand

LEMMA OtherEmulated ==
    ASSUME TypeOK, driver' = driver, req' = req, NEW d \in Clients,
           EmulatedHand(d), Beside(d)
    PROVE  EmulatedHand(d)'
<1>1. loc[d] \in Locals
  BY HomeFacts
<1>2. /\ loc'[d].at = loc[d].at /\ loc'[d].read = loc[d].read
      /\ loc'[d].seen = loc[d].seen
      /\ loc'[d].own = loc[d].own
      /\ loc'[d].outs = loc[d].outs /\ loc'[d].over = loc[d].over
      /\ loc'[d].log = loc[d].log /\ loc'[d].torn = loc[d].torn
      /\ loc'[d].tries = loc[d].tries /\ loc'[d].res = loc[d].res
      /\ loc[d].late => loc'[d].late
      /\ ~loc[d].read => loc'[d] = loc[d]
      /\ loc[d].read /\ ~loc'[d].late => row'[Home(d)] = Here(d)
      /\ pc'[d] = pc[d]
  BY <1>1, BesideFields DEF Beside
<1>3. /\ Here(d)' = row'[Home(d)] /\ (Flat' <=> Flat)
      /\ Prev(d)' = Prev(d) /\ (Misjudged(d)' <=> Misjudged(d))
  BY <1>2, SameRequest DEF Prev
<1>4. /\ Undisturbed(d)' => Undisturbed(d)
      /\ loc[d].read /\ Undisturbed(d)' => Here(d)' = Here(d)
  BY <1>2, <1>3 DEF Undisturbed
<1>5. /\ BodyOf(req[d].coll, Here(d))' = BodyOf(req[d].coll, Here(d)')
      /\ RowOf(req[d].coll, loc[d].seen)' = RowOf(req[d].coll, loc[d].seen)
      /\ RowOf(req[d].coll, Prev(d))' = RowOf(req[d].coll, Prev(d))
  BY <1>2, <1>3 DEF BodyOf, Sees, RowOf
<1>6. (req[d].tx /\ pc[d] # "gather" => BatchHand(d))'
  <2> SUFFICES ASSUME req[d].tx, pc[d] # "gather" PROVE BatchHand(d)'
    BY <1>2
  <2>1. BatchHand(d)
    BY DEF EmulatedHand
  <2>2. (Undisturbed(d) => LogHand(d))'
    BY <1>2, <1>4, <1>5, <2>1 DEF LogHand, BatchHand
  <2>3. After(req[d].coll, RowOf(req[d].coll, loc[d].seen), req[d].ops, d)'
          = After(req[d].coll, RowOf(req[d].coll, loc[d].seen), req[d].ops, d)
    BY <1>5, SameMeaning
  <2>4. SoFar(RowOf(req[d].coll, Prev(d)), loc[d].outs)'
          = SoFar(RowOf(req[d].coll, Prev(d)), loc[d].outs)
    BY <1>2, <1>5 DEF SoFar
  <2>5. (loc[d].at - 1)' = loc[d].at - 1
    BY <1>2
  <2>6. (pc[d] = "apply" =>
           /\ loc[d].log = <<>> => loc[d].over = Nothing
           /\ req[d].ops[1].must => loc[d].seen # None)'
    BY <1>2, <2>1 DEF BatchHand
  <2>7. (pc[d] = "apply" /\ ~Misjudged(d) =>
           /\ After(req[d].coll, RowOf(req[d].coll, loc[d].seen), req[d].ops, d)[loc[d].at - 1]
                = SoFar(RowOf(req[d].coll, Prev(d)), loc[d].outs)
           /\ Undisturbed(d) => Here(d) = RowOf(req[d].coll, Prev(d)))'
    BY <1>2, <1>3, <1>4, <1>5, <2>1, <2>3, <2>4, <2>5 DEF BatchHand
  <2>8. (pc[d] = "undo" =>
           /\ loc[d].res # "ok"
           /\ Undisturbed(d) /\ ~Misjudged(d) => loc[d].res = "error")'
    BY <1>2, <1>3, <1>4, <2>1 DEF BatchHand
  <2>9. loc'[d].read
    BY <1>2, <2>1 DEF BatchHand
  <2> QED BY <2>2, <2>6, <2>7, <2>8, <2>9 DEF BatchHand
<1>7. (pc[d] = "gather" => loc[d] = [Fresh EXCEPT !.new = Sent(d, 1)])'
  <2> SUFFICES ASSUME pc[d] = "gather"
               PROVE  (loc[d] = [Fresh EXCEPT !.new = Sent(d, 1)])'
    BY <1>2
  <2>1. loc[d] = [Fresh EXCEPT !.new = Sent(d, 1)]
    BY DEF EmulatedHand
  <2>2. ~loc[d].read
    BY <2>1 DEF Fresh
  <2>3. [Fresh EXCEPT !.new = Sent(d, 1)]' = [Fresh EXCEPT !.new = Sent(d, 1)]
    BY DEF Fresh, Sent, Empty
  <2> QED BY <1>2, <2>1, <2>2, <2>3
<1>8. (~req[d].tx =>
         /\ loc[d].at = 1 /\ loc[d].over = Nothing /\ loc[d].outs = <<>>
         /\ IF req[d].ops[1].do = "insert" THEN ~loc[d].read /\ loc[d].seen = None
            ELSE pc[d] = "apply" =>
                   /\ loc[d].read
                   /\ Undisturbed(d) => loc[d].seen = BodyOf(req[d].coll, Here(d)))'
  BY <1>2, <1>3, <1>4, <1>5 DEF EmulatedHand
<1>9. /\ (~Flat)' /\ (loc[d].own = Nothing)' /\ (loc[d].at <= Len(req[d].ops))'
      /\ (pc[d] = "undo" => req[d].tx)'
      /\ (pc[d] = "gather" => req[d].ops[1].do # "insert")'
      /\ (loc[d].tries = 1 => loc[d].torn)'
  BY <1>2, <1>3 DEF EmulatedHand
<1> QED BY <1>6, <1>7, <1>8, <1>9 DEF EmulatedHand

LEMMA OthersKeep ==
    ASSUME TypeOK, driver' = driver, req' = req, NEW d \in Clients,
           Hand(d), Beside(d)
    PROVE  Hand(d)'
<1>1. pc'[d] = pc[d]
  BY DEF Beside
<1>2. pc[d] = "done" => loc'[d] = Fresh'
  <2>1. Fresh' = Fresh
    BY DEF Fresh, Empty
  <2>2. pc[d] = "done" => ~loc[d].read /\ loc[d] = Fresh
    BY DEF Hand, Fresh
  <2> QED BY <2>1, <2>2 DEF Beside
<1> QED BY <1>1, <1>2, OtherPlain, OtherTx, OtherEmulated DEF Hand

-----------------------------------------------------------------------------
(* Every step stores a row, which may be the one that was there, and moves    *)
(* one client on.                                                           *)

Moves(c, p, r, l) == Goto(c, p) /\ Put(c, Home(c), r, l)

\* A step that leaves the row alone.
LEMMA MovesOnly ==
    ASSUME TypeOK, NEW c \in Clients, NEW p, NEW l,
           Goto(c, p), UNCHANGED row, loc' = [loc EXCEPT ![c] = l]
    PROVE  Moves(c, p, Here(c), l)
<1>1. row' = [row EXCEPT ![Home(c)] = Here(c)]
  BY DEF TypeOK, Here
<1>2. loc' = [d \in Clients |-> IF d = c THEN l ELSE loc[d]]
  BY DEF TypeOK
<1>3. Here(c) = row[Home(c)]
  BY DEF Here
<1> QED BY <1>1, <1>2, <1>3 DEF Moves, Put

LEMMA MovesFacts ==
    ASSUME TypeOK, NEW c \in Clients, NEW p, NEW r, NEW l, Moves(c, p, r, l)
    PROVE  /\ loc'[c] = l /\ pc'[c] = p /\ row'[Home(c)] = r
           /\ \A k \in Colls \ {Home(c)} : row'[k] = row[k]
  BY HomeFacts DEF TypeOK, Moves, Goto, Put

LEMMA MovesBeside ==
    ASSUME TypeOK, NEW c \in Clients, NEW d \in Clients, d # c,
           NEW p, NEW r, NEW l, Moves(c, p, r, l),
           holder = d => holder' = d,
           Flat /\ holder = d => r = Here(c)
    PROVE  Beside(d)
<1>1. /\ Home(c) \in Colls /\ Home(d) \in Colls
      /\ Flat => Home(d) = Home(c)
      /\ Here(c) = row[Home(c)] /\ Here(d) = row[Home(d)]
  BY HomeFacts DEF Here
<1>2. pc'[d] = pc[d]
  BY DEF TypeOK, Moves, Goto
<1>3. row'[Home(d)] = IF Home(d) = Home(c) THEN r ELSE Here(d)
  BY <1>1 DEF TypeOK, Moves, Put
<1>4. loc'[d] = IF r # Here(c) /\ loc[d].read /\ Home(d) = Home(c)
                  THEN [loc[d] EXCEPT !.late = TRUE] ELSE loc[d]
  BY <1>1 DEF TypeOK, Moves, Put
<1>5. [loc[d] EXCEPT !.late = TRUE].late = TRUE
  BY DEF TypeOK, Locals
<1> QED BY <1>1, <1>2, <1>3, <1>4, <1>5 DEF Beside

LEMMA MovesType ==
    ASSUME TypeOK, driver' = driver, req' = req, faults' \in Nat,
           holder' \in Clients \cup {None}, DOMAIN ans' = Clients,
           NEW c \in Clients, NEW p \in Steps, NEW r \in Row \cup {None},
           NEW l \in Locals, Moves(c, p, r, l)
    PROVE  TypeOK'
<1>1. row' \in [Colls -> Row \cup {None}]
  BY HomeFacts DEF TypeOK, Moves, Put
<1>2. pc' \in [Clients -> Steps]
  BY DEF TypeOK, Moves, Goto
<1>3. loc' \in [Clients -> Locals]
  <2>1. ASSUME NEW d \in Clients PROVE [loc[d] EXCEPT !.late = TRUE] \in Locals
    <3>1. loc[d] \in Locals BY DEF TypeOK
    <3> QED BY <3>1 DEF Locals
  <2> HIDE DEF Locals
  <2> QED BY <2>1 DEF TypeOK, Moves, Put
<1> QED BY <1>1, <1>2, <1>3 DEF TypeOK

\* A step that leaves its client with the right things in hand, stores a row of
\* its client's collection and respects the row lock keeps the invariant.
LEMMA MovesKeep ==
    ASSUME DInv, driver' = driver, req' = req, faults' \in Nat,
           DOMAIN ans' = Clients, NEW c \in Clients,
           holder' \in {holder, c} \/ (holder = c /\ holder' = None),
           NEW p \in Steps, NEW r \in Row \cup {None},
           NEW l \in Locals, Moves(c, p, r, l),
           ~Flat => r = None \/ r.path = req[c].coll,
           Flat /\ r # Here(c) => Unlocked(c),
           holder' # holder => Unlocked(c),
           Hand(c)'
    PROVE  DInv'
<1>1. TypeOK /\ TypeOK'
  BY MovesType DEF DInv, TypeOK
<1>2. Tables'
  <2> SUFFICES ASSUME ~Flat, NEW k \in Colls, row'[k] # None
               PROVE  row'[k].path = k
    BY SameRequest DEF Tables, Flat
  <2>1. Home(c) = req[c].coll
    BY <1>1, HomeFacts
  <2>2. CASE k = Home(c)
    BY <1>1, <2>1, <2>2, MovesFacts
  <2>3. CASE k # Home(c)
    <3>1. row'[k] = row[k]
      BY <1>1, <2>3, MovesFacts
    <3> QED BY <3>1 DEF DInv, Tables
  <2> QED BY <2>2, <2>3
<1>3. ASSUME NEW d \in Clients PROVE Hand(d)'
  <2>1. CASE d # c
    <3>1. holder = d => holder' = d
      BY <2>1, NoneAssumption DEF Unlocked
    <3>2. Flat /\ holder = d => r = Here(c)
      BY <2>1, NoneAssumption DEF Unlocked
    <3>3. Beside(d)
      BY <1>1, <2>1, <3>1, <3>2, MovesBeside
    <3>4. Hand(d)
      BY DEF DInv
    <3> QED BY <1>1, <3>3, <3>4, OthersKeep
  <2>2. CASE d = c
    BY <2>2
  <2> QED BY <2>1, <2>2
<1> QED BY <1>1, <1>2, <1>3 DEF DInv

LEMMA FreshType == Fresh \in Locals
<1>1. Empty \in Body
  BY EmptyType
<1>2. <<>> \in Seq(OutType) /\ <<>> \in Seq(Body \cup {None})
  BY EmptySeq
<1>3. 1 \in 1..MaxOps + 1
  BY MaxOpsAssumption
<1> QED BY <1>1, <1>2, <1>3 DEF Fresh, Locals

\* The end of a request.
LEMMA DoneKeeps ==
    ASSUME DInv, driver' = driver, req' = req, faults' \in Nat,
           DOMAIN ans' = Clients, NEW c \in Clients,
           holder' = holder \/ (holder = c /\ holder' = None),
           NEW r \in Row \cup {None}, Moves(c, "done", r, Fresh),
           ~Flat => r = None \/ r.path = req[c].coll,
           Flat /\ r # Here(c) => Unlocked(c)
    PROVE  DInv'
<1>1. "done" \in Steps /\ Fresh \in Locals
  BY FreshType DEF Steps
<1>2. Hand(c)'
  <2>1. pc'[c] = "done" /\ loc'[c] = Fresh
    BY MovesFacts DEF DInv
  <2>2. Fresh' = Fresh
    BY DEF Fresh, Empty
  <2> QED BY <2>1, <2>2 DEF Hand, PlainSteps, TxSteps, EmulatedSteps
<1>3. holder' # holder => Unlocked(c)
  BY DEF Unlocked
<1> QED BY <1>1, <1>2, <1>3, MovesKeep

\* What is known of a client about to make a step.
LEMMA Context ==
    ASSUME DInv, NEW c \in Clients
    PROVE  /\ TypeOK /\ Hand(c)
           /\ loc[c] \in Locals /\ pc[c] \in Steps /\ req[c] \in Request
           /\ req[c].coll \in Colls /\ Home(c) \in Colls
           /\ Here(c) \in Row \cup {None}
           /\ ~Flat => Here(c) = None \/ Here(c).path = req[c].coll
           /\ Len(req[c].ops) \in 1..MaxOps
           /\ MaxOps \in Nat
<1>1. TypeOK /\ Hand(c)
  BY DEF DInv
<1>2. ~Flat => Here(c) = None \/ Here(c).path = req[c].coll
  BY <1>1, HomeFacts DEF DInv, Tables, Here
<1> QED BY <1>1, <1>2, HomeFacts, RequestFacts, MaxOpsAssumption

\* The engine and the requests stay, and every client is answered once.
Stays == driver' = driver /\ req' = req /\ faults' \in Nat /\ DOMAIN ans' = Clients

LEMMA AnswerKeeps ==
    ASSUME DInv, Stays, NEW c \in Clients, NEW res, NEW outs, Answer(c, res, outs),
           holder' = holder \/ (holder = c /\ holder' = None)
    PROVE  DInv'
<1>1. Moves(c, "done", Here(c), Fresh)
  BY Context, MovesOnly DEF Answer, Finish
<1> QED BY <1>1, Context, DoneKeeps DEF Stays

LEMMA CommitsKeeps ==
    ASSUME DInv, Stays, NEW c \in Clients, NEW r \in Row \cup {None}, NEW outs,
           Commits(c, r, outs), Flat, r # Here(c) => Unlocked(c),
           holder' = holder \/ (holder = c /\ holder' = None)
    PROVE  DInv'
<1>1. Moves(c, "done", r, Fresh)
  BY DEF Commits, Finish, Moves
<1> QED BY <1>1, DoneKeeps DEF Stays

-----------------------------------------------------------------------------
(* SQL outside transactions *)

LEMMA GetFirstKeeps ==
    ASSUME DInv, Stays, NEW c \in Clients, holder' = holder, GetFirst(c)
    PROVE  DInv'
<1> DEFINE b == BodyOf(req[c].coll, Here(c))
           do == req[c].ops[1].do
           l == [loc[c] EXCEPT !.read = TRUE, !.seen = b, !.new = Over(b, @)]
           p == IF do = "delete" THEN "delete" ELSE "update"
<1>1. CASE do = "delete" /\ b = None
  BY <1>1, AnswerKeeps DEF GetFirst
<1>2. CASE ~(do = "delete" /\ b = None)
  <2>1. PlainHand(c) /\ pc[c] = "get"
    BY Context DEF GetFirst, Hand, PlainSteps
  <2>2. /\ Flat /\ ~req[c].tx /\ loc[c].own = Nothing
        /\ driver # "postgres" /\ do \in {"merge", "delete"}
        /\ loc[c].new = Sent(c, 1)
    BY <2>1 DEF PlainHand
  <2>3. Goto(c, p) /\ UNCHANGED row
    BY <1>2 DEF GetFirst
  <2>4. loc' = [loc EXCEPT ![c] = l]
    <3>1. loc' = [loc EXCEPT ![c].read = TRUE, ![c].seen = b, ![c].new = Over(b, @)]
      BY <1>2 DEF GetFirst
    <3> QED BY <3>1, Context DEF TypeOK
  <2>5. b \in Body \cup {None} /\ loc[c].new \in Body /\ Over(b, loc[c].new) \in Body
    BY Context, BodyOfType, OverType DEF Locals
  <2>6. /\ l \in Locals /\ l.read = TRUE /\ l.seen = b /\ l.new = Over(b, Sent(c, 1))
        /\ l.own = Nothing
    <3>1. loc[c] \in Locals
      BY Context
    <3>2. l \in Locals
      BY <2>5, <3>1 DEF Locals
    <3>3. l.read = TRUE /\ l.seen = b /\ l.own = Nothing
      BY <2>2, <3>1 DEF Locals
    <3>4. l.new = Over(b, Sent(c, 1))
      BY <2>2, <3>1 DEF Locals
    <3> QED BY <3>2, <3>3, <3>4
  <2>7. Moves(c, p, Here(c), l)
    BY <2>3, <2>4, Context, MovesOnly
  <2>8. p \in Steps
    BY DEF Steps, PlainSteps
  <2> HIDE DEF l
  <2>9. Hand(c)'
    <3>1. loc'[c] = l /\ pc'[c] = p /\ row'[Home(c)] = Here(c)
      BY <2>7, Context, MovesFacts
    <3>2. (Flat' <=> Flat) /\ Here(c)' = Here(c)
      BY <3>1, SameRequest DEF Stays
    <3>3. /\ BodyOf(req[c].coll, Here(c))' = b
          /\ Sent(c, 1)' = Sent(c, 1)
          /\ Over(loc[c].seen, Sent(c, 1))' = Over(b, Sent(c, 1))
      BY <3>1, <3>2, <2>6 DEF BodyOf, Sees, Over, Sent, Empty, Stays
    <3>4. PlainHand(c)'
      BY <2>2, <2>6, <3>1, <3>2, <3>3 DEF PlainHand, Stays
    <3> QED BY <3>1, <3>4 DEF Hand, PlainSteps, TxSteps, EmulatedSteps
  <2> QED BY <2>6, <2>7, <2>8, <2>9, Context, MovesKeep DEF Stays
<1> QED BY <1>1, <1>2

LEMMA UpdateKeeps ==
    ASSUME DInv, Stays, NEW c \in Clients, holder' = holder, Update(c)
    PROVE  DInv'
<1> DEFINE k == req[c].coll
           r == Updated(k, Here(c), loc[c].new)
<1>1. PlainHand(c) /\ pc[c] = "update" /\ Flat
  BY Context DEF Update, Hand, PlainSteps, PlainHand
<1>2. CASE Sees(k, Here(c))
  <2>1. r \in Row
    BY <1>2, Context, BodyOfType, UpdatedType DEF Locals
  <2> QED BY <1>1, <1>2, <2>1, CommitsKeeps DEF Update
<1>3. CASE ~Sees(k, Here(c))
  <2>1. Goto(c, "insert") /\ UNCHANGED row /\ UNCHANGED loc
    BY <1>3 DEF Update
  <2>2. loc' = [loc EXCEPT ![c] = loc[c]]
    BY <2>1, Context DEF TypeOK
  <2>3. Moves(c, "insert", Here(c), loc[c])
    BY <2>1, <2>2, Context, MovesOnly
  <2>4. Hand(c)'
    <3>1. loc'[c] = loc[c] /\ pc'[c] = "insert" /\ row'[Home(c)] = Here(c)
      BY <2>3, Context, MovesFacts
    <3>2. (Flat' <=> Flat) /\ Here(c)' = Here(c)
      BY <3>1, SameRequest DEF Stays
    <3>3. /\ BodyOf(req[c].coll, Here(c))' = BodyOf(req[c].coll, Here(c))
          /\ Sent(c, 1)' = Sent(c, 1)
          /\ Over(loc[c].seen, Sent(c, 1))' = Over(loc[c].seen, Sent(c, 1))
      BY <3>1, <3>2 DEF BodyOf, Sees, Over, Sent, Empty, Stays
    <3>4. PlainHand(c)'
      BY <1>1, <3>1, <3>2, <3>3 DEF PlainHand, Stays
    <3> QED BY <3>1, <3>4 DEF Hand, PlainSteps, TxSteps, EmulatedSteps
  <2>5. "insert" \in Steps
    BY DEF Steps, PlainSteps
  <2> QED BY <1>1, <2>3, <2>4, <2>5, Context, MovesKeep DEF Stays
<1> QED BY <1>2, <1>3

LEMMA PlainEndKeeps ==
    ASSUME DInv, Stays, NEW c \in Clients, holder' = holder,
           Insert(c) \/ Upsert(c) \/ DeleteRow(c)
    PROVE  DInv'
<1>1. Flat
  BY Context DEF Insert, Upsert, DeleteRow, Hand, PlainSteps, PlainHand
<1>2. RowOf(req[c].coll, loc[c].new) \in Row \cup {None}
  BY Context, RowOfType DEF Locals
<1>3. CASE Insert(c)
  BY <1>1, <1>2, <1>3, AnswerKeeps, CommitsKeeps DEF Insert
<1>4. CASE Upsert(c)
  BY <1>1, <1>2, <1>4, CommitsKeeps DEF Upsert
<1>5. CASE DeleteRow(c)
  <2> DEFINE r == IF Sees(req[c].coll, Here(c)) THEN None ELSE Here(c)
  <2>1. r \in Row \cup {None}
    BY Context
  <2> QED BY <1>1, <1>5, <2>1, CommitsKeeps DEF DeleteRow
<1> QED BY <1>3, <1>4, <1>5

-----------------------------------------------------------------------------
(* What one operation means, case by case *)

LEMMA AtomicMeans ==
    ASSUME NEW k, NEW r, NEW op, NEW w
    PROVE  LET b == BodyOf(k, r)
               ok(rr, doc) == [row |-> rr, res |-> "ok", out |-> Out(b, doc)]
               a == Atomic(k, r, op, w)
           IN /\ op.do = "read" => a = ok(r, b)
              /\ op.do = "delete" => a = ok(IF b = None THEN r ELSE None, b)
              /\ op.do = "replace" /\ (b # None \/ ~op.must) => a = ok(RowOf(k, w), w)
              /\ op.do = "replace" /\ op.must /\ b = None => a.res = "notfound"
              /\ op.do = "merge" /\ b # None
                   => a = ok(Updated(k, r, Over(b, w)), Over(b, w))
              /\ op.do = "insert" \/ (op.do = "merge" /\ b = None) =>
                   /\ op.must => a.res = "notfound"
                   /\ ~op.must /\ r # None => a.res = "exists"
                   /\ ~op.must /\ r = None => a = ok(RowOf(k, w), w)
<1> DEFINE b == BodyOf(k, r)
           ok(rr, doc) == [row |-> rr, res |-> "ok", out |-> Out(b, doc)]
           a == Atomic(k, r, op, w)
<1>1. op.do = "read" => a = ok(r, b)
  BY DEF Atomic
<1>2. op.do = "delete" => a = ok(IF b = None THEN r ELSE None, b)
  BY DEF Atomic
<1>3. op.do = "replace" /\ (b # None \/ ~op.must) => a = ok(RowOf(k, w), w)
  BY DEF Atomic
<1>7. op.do = "replace" /\ op.must /\ b = None => a.res = "notfound"
  BY DEF Atomic
<1>4. op.do = "merge" /\ b # None => a = ok(Updated(k, r, Over(b, w)), Over(b, w))
  BY DEF Atomic
<1>5. op.do = "insert" \/ (op.do = "merge" /\ b = None) =>
        a = IF op.must THEN [row |-> r, res |-> "notfound", out |-> Out(None, None)]
            ELSE IF r # None THEN [row |-> r, res |-> "exists", out |-> Out(None, None)]
            ELSE ok(RowOf(k, w), w)
  BY DEF Atomic
<1>6. op.do = "insert" \/ (op.do = "merge" /\ b = None) =>
        /\ op.must => a.res = "notfound"
        /\ ~op.must /\ r # None => a.res = "exists"
        /\ ~op.must /\ r = None => a = ok(RowOf(k, w), w)
  BY <1>5
<1> HIDE DEF a, b
<1> QED BY <1>1, <1>2, <1>3, <1>4, <1>6, <1>7 DEF a, b

-----------------------------------------------------------------------------
(* SQL transactions *)

\* The snapshot after a read of the row.
SnapOf(c) == IF loc[c].read THEN loc[c].snap ELSE ViewOf(c)

LEMMA ViewFacts ==
    ASSUME DInv, NEW c \in Clients, TxHand(c)
    PROVE  /\ ViewOf(c) \in Row \cup {None} /\ SnapOf(c) \in Row \cup {None}
           /\ ~loc[c].late => SnapOf(c) = Here(c)
           /\ ~Overtaken(c) =>
                /\ ViewOf(c) = IF loc[c].own # Nothing THEN loc[c].own ELSE SnapOf(c)
                /\ After(req[c].coll, SnapOf(c), req[c].ops, c)[loc[c].at - 1]
                     = SoFar(ViewOf(c), loc[c].outs)
<1>1. /\ loc[c].own \in Row \cup {None, Nothing} /\ loc[c].snap \in Row \cup {None}
      /\ Here(c) \in Row \cup {None} /\ Len(req[c].ops) \in Nat
      /\ loc[c].read \in BOOLEAN /\ loc[c].late \in BOOLEAN
  BY Context DEF Locals
<1>2. /\ loc[c].own # Nothing => loc[c].read
      /\ loc[c].read /\ ~loc[c].late => loc[c].snap = Here(c)
      /\ ~loc[c].read => loc[c].at = 1 /\ loc[c].outs = <<>>
  BY DEF TxHand, OwnHand
<1>3. ViewOf(c) \in Row \cup {None} /\ SnapOf(c) \in Row \cup {None}
  BY <1>1 DEF ViewOf, SnapOf
<1>4. ~loc[c].late => SnapOf(c) = Here(c)
  BY <1>2 DEF ViewOf, SnapOf
<1>5. ASSUME ~Overtaken(c)
      PROVE  ViewOf(c) = IF loc[c].own # Nothing THEN loc[c].own ELSE SnapOf(c)
  <2>1. CASE loc[c].own # Nothing
    BY <2>1 DEF ViewOf
  <2>2. CASE loc[c].own = Nothing /\ (driver # "postgres" \/ ~loc[c].read)
    BY <2>2 DEF ViewOf, SnapOf
  <2>3. CASE loc[c].own = Nothing /\ driver = "postgres" /\ loc[c].read
    <3>1. ~loc[c].late
      BY <1>5, <2>3, OvertakenIsLate DEF TxHand, Careful
    <3> QED BY <3>1, <2>3, <1>2 DEF ViewOf, SnapOf
  <2> QED BY <2>1, <2>2, <2>3
<1>6. ASSUME ~Overtaken(c)
      PROVE  After(req[c].coll, SnapOf(c), req[c].ops, c)[loc[c].at - 1]
               = SoFar(ViewOf(c), loc[c].outs)
  <2>1. CASE loc[c].read
    <3>1. ViewOf(c) = Mine(c) /\ SnapOf(c) = loc[c].snap
      BY <1>5, <1>6, <2>1 DEF Mine, SnapOf
    <3> QED BY <2>1, <3>1, <1>6 DEF TxHand
  <2>2. CASE ~loc[c].read
    <3>1. /\ After(req[c].coll, SnapOf(c), req[c].ops, c)[0] = SoFar(SnapOf(c), <<>>)
          /\ loc[c].at - 1 = 0
      BY <1>1, <1>2, <2>2, AfterNext
    <3>2. ViewOf(c) = SnapOf(c) /\ loc[c].outs = <<>>
      BY <2>2, <1>2 DEF SnapOf
    <3> QED BY <3>1, <3>2
  <2> QED BY <2>1, <2>2
<1> QED BY <1>3, <1>4, <1>5, <1>6

\* A statement that reads or waits leaves the row lock and the version of its
\* own to its client.
LEMMA SameOwn ==
    ASSUME TypeOK, driver' = driver, req' = req, NEW c \in Clients, OwnHand(c),
           holder' = holder, row'[Home(c)] = Here(c),
           loc'[c].own = loc[c].own, loc'[c].late = loc[c].late, loc'[c].read
    PROVE  OwnHand(c)'
<1>1. Here(c)' = Here(c) /\ (KeepsToItself(c)' <=> KeepsToItself(c))
  BY SameRequest
<1>2. \A k : /\ BodyOf(k, Here(c))' = BodyOf(k, Here(c))
             /\ BodyOf(k, loc[c].own)' = BodyOf(k, loc[c].own)
  BY <1>1 DEF BodyOf, Sees
<1>3. ASSUME Spares(c, loc[c].own, Here(c)) PROVE Spares(c, loc[c].own, Here(c))'
  BY <1>1, <1>2, <1>3 DEF Spares
<1> QED BY <1>3 DEF OwnHand

\* The operation is over with the row unchanged: the next one.
LEMMA TxNextKeeps ==
    ASSUME DInv, Stays, NEW c \in Clients, TxHand(c), UNCHANGED <<row, holder>>,
           loc[c].at <= Len(req[c].ops),
           NEW out \in OutType, NEW l \in Locals, loc' = [loc EXCEPT ![c] = l],
           Goto(c, "txget"),
           l.at = loc[c].at + 1, l.read, l.own = loc[c].own, l.late = loc[c].late,
           l.outs = Append(loc[c].outs, out), l.snap = SnapOf(c),
           ~Overtaken(c) => Atomic(req[c].coll, ViewOf(c), OpAt(c), Sent(c, loc[c].at))
                              = [row |-> ViewOf(c), res |-> "ok", out |-> out]
    PROVE  DInv'
<1>1. Moves(c, "txget", Here(c), l)
  BY Context, MovesOnly
<1>2. loc'[c] = l /\ pc'[c] = "txget" /\ row'[Home(c)] = Here(c)
  BY <1>1, Context, MovesFacts
<1>3. /\ (Flat' <=> Flat) /\ Here(c)' = Here(c)
      /\ Overtaken(c)' <=> Overtaken(c)
      /\ Mine(c)' = IF l.own # Nothing THEN l.own ELSE l.snap
  BY <1>2, SameRequest, OvertakenIsLate DEF Stays
<1>4. OwnHand(c)'
  BY <1>2, SameOwn, Context DEF TxHand, Stays
<1>5. (loc[c].read /\ ~loc[c].late => loc[c].snap = Here(c))'
  BY <1>2, <1>3, ViewFacts
<1>6. (loc[c].read /\ ~Overtaken(c) =>
         After(req[c].coll, loc[c].snap, req[c].ops, c)[loc[c].at - 1]
           = SoFar(Mine(c), loc[c].outs))'
  <2> SUFFICES ASSUME ~Overtaken(c)
               PROVE  (After(req[c].coll, loc[c].snap, req[c].ops, c)[loc[c].at - 1]
                         = SoFar(Mine(c), loc[c].outs))'
    BY <1>3
  <2>1. loc[c].at \in 1..Len(req[c].ops) /\ Len(req[c].ops) \in Nat
    BY Context DEF Locals
  <2>2. After(req[c].coll, SnapOf(c), req[c].ops, c)[loc[c].at - 1]
          = SoFar(ViewOf(c), loc[c].outs)
    BY ViewFacts
  <2>3. After(req[c].coll, SnapOf(c), req[c].ops, c)[loc[c].at]
          = SoFar(ViewOf(c), Append(loc[c].outs, out))
    BY <2>1, <2>2, GoesOn DEF OpAt
  <2>4. ViewOf(c) = Mine(c)'
    BY <1>3, ViewFacts
  <2>5. After(req[c].coll, loc[c].snap, req[c].ops, c)'
          = After(req[c].coll, SnapOf(c), req[c].ops, c)
    BY <1>2, SameMeaning DEF Stays
  <2>6. (loc[c].at - 1)' = loc[c].at
    BY <1>2, <2>1
  <2>7. SoFar(Mine(c), loc[c].outs)' = SoFar(ViewOf(c), Append(loc[c].outs, out))
    BY <1>2, <2>4 DEF SoFar
  <2> QED BY <2>3, <2>5, <2>6, <2>7
<1>7. (loc[c].at <= Len(req[c].ops) + 1)'
  <2>1. loc[c].at \in Nat /\ Len(req[c].ops) \in Nat
    <3>1. loc[c] \in Locals /\ MaxOps \in Nat /\ Len(req[c].ops) \in 1..MaxOps
      BY Context
    <3>2. loc[c].at \in 1..MaxOps + 1
      BY <3>1 DEF Locals
    <3> QED BY <3>1, <3>2
  <2> QED BY <1>2, <2>1 DEF Stays
<1>8. (Flat /\ req[c].tx)'
  BY <1>3 DEF TxHand, Stays
<1>9. TxHand(c)'
  BY <1>2, <1>4, <1>5, <1>6, <1>7, <1>8 DEF TxHand
<1>10. Hand(c)' /\ "txget" \in Steps
  BY <1>2, <1>9 DEF Hand, PlainSteps, TxSteps, EmulatedSteps, Steps
<1> QED BY <1>1, <1>10, Context, MovesKeep DEF Stays

LEMMA TxReadKeeps ==
    ASSUME DInv, Stays, NEW c \in Clients, TxRead(c)
    PROVE  DInv'
<1> DEFINE v == ViewOf(c)
           b == BodyOf(req[c].coll, v)
           l == [loc[c] EXCEPT !.read = TRUE, !.seen = b,
                               !.snap = IF loc[c].read THEN @ ELSE v]
           l1 == [l EXCEPT !.at = @ + 1, !.outs = Append(@, Out(b, b))]
           l3 == [l EXCEPT !.new = Over(IF OpAt(c).do = "merge" THEN b ELSE None,
                                        Sent(c, loc[c].at))]
           p3 == IF OpAt(c).do = "delete" THEN "txdelete" ELSE "txput"
<1>1. TxHand(c) /\ pc[c] = "txget" /\ loc[c].at <= Len(req[c].ops)
  BY Context DEF TxRead, Hand, TxSteps
<1>2. /\ loc[c] \in Locals /\ loc[c].at \in 1..Len(req[c].ops)
      /\ loc[c].at + 1 \in 1..MaxOps + 1 /\ loc[c].at \in 0..MaxOps + 1
      /\ Len(req[c].ops) \in Nat
  BY <1>1, Context DEF Locals
<1>3. /\ v \in Row \cup {None} /\ b \in Body \cup {None}
      /\ Out(b, b) \in OutType /\ SnapOf(c) \in Row \cup {None}
  BY <1>1, Context, ViewFacts, BodyOfType, OutFacts
<1>4. Over(IF OpAt(c).do = "merge" THEN b ELSE None, Sent(c, loc[c].at)) \in Body
  BY <1>2, <1>3, OverType, SentType
<1>5. Append(loc[c].outs, Out(b, b)) \in Seq(OutType)
  BY <1>2, <1>3, AppendProperties DEF Locals
<1>6. /\ l \in Locals /\ l.read = TRUE /\ l.seen = b /\ l.snap = SnapOf(c)
      /\ l.at = loc[c].at /\ l.own = loc[c].own /\ l.late = loc[c].late
      /\ l.outs = loc[c].outs
  BY <1>2, <1>3 DEF Locals, SnapOf
<1> HIDE DEF l
<1>7. /\ l1 \in Locals /\ l1.read = TRUE /\ l1.snap = SnapOf(c)
      /\ l1.at = loc[c].at + 1 /\ l1.own = loc[c].own /\ l1.late = loc[c].late
      /\ l1.outs = Append(loc[c].outs, Out(b, b))
  BY <1>2, <1>5, <1>6 DEF Locals
<1>8. /\ l3 \in Locals /\ l3.read = TRUE /\ l3.snap = SnapOf(c) /\ l3.seen = b
      /\ l3.at = loc[c].at /\ l3.own = loc[c].own /\ l3.late = loc[c].late
      /\ l3.outs = loc[c].outs
      /\ l3.new = Over(IF OpAt(c).do = "merge" THEN b ELSE None, Sent(c, loc[c].at))
  BY <1>4, <1>6 DEF Locals
<1> HIDE DEF l1, l3
<1>9. CASE /\ OpAt(c).do = "read" \/ (OpAt(c).do = "delete" /\ b = None)
           /\ loc' = [loc EXCEPT ![c] = l1]
           /\ UNCHANGED <<row, holder, pc, ans>>
  <2>1. Goto(c, "txget")
    BY <1>1, <1>9, Context DEF Goto, TypeOK
  <2>2. Atomic(req[c].coll, v, OpAt(c), Sent(c, loc[c].at))
          = [row |-> v, res |-> "ok", out |-> Out(b, b)]
    <3>1. CASE OpAt(c).do = "read"
      BY <3>1, AtomicMeans
    <3>2. CASE OpAt(c).do = "delete" /\ b = None
      BY <3>2, AtomicMeans
    <3> QED BY <1>9, <3>1, <3>2
  <2> HIDE DEF b, v
  <2> QED BY <1>1, <1>3, <1>7, <1>9, <2>1, <2>2, TxNextKeeps DEF v
<1>10. CASE Abort(c, "notfound")
  BY <1>10, AnswerKeeps DEF Abort, Release
<1>11. CASE /\ OpAt(c).do # "read"
            /\ b # None \/ (OpAt(c).do # "delete" /\ ~OpAt(c).must)
            /\ Goto(c, p3)
            /\ loc' = [loc EXCEPT ![c] = l3]
            /\ UNCHANGED <<row, holder, ans>>
  <2>1. Moves(c, p3, Here(c), l3)
    BY <1>11, Context, MovesOnly
  <2>2. loc'[c] = l3 /\ pc'[c] = p3 /\ row'[Home(c)] = Here(c)
    BY <2>1, Context, MovesFacts
  <2>3. /\ (Flat' <=> Flat) /\ Here(c)' = Here(c)
        /\ (Overtaken(c)' <=> Overtaken(c)) /\ OpAt(c)' = OpAt(c)
        /\ Mine(c)' = IF loc[c].own # Nothing THEN loc[c].own ELSE SnapOf(c)
    BY <1>8, <2>2, SameRequest, OvertakenIsLate DEF Stays, OpAt
  <2>4. OwnHand(c)'
    BY <1>1, <1>8, <1>11, <2>2, SameOwn, Context DEF TxHand, Stays
  <2>5. (loc[c].read /\ ~loc[c].late => loc[c].snap = Here(c))'
    BY <1>1, <1>8, <2>2, <2>3, ViewFacts
  <2>6. ~Overtaken(c) => ViewOf(c) = Mine(c)'
    BY <1>1, <2>3, ViewFacts
  <2>7. (loc[c].read /\ ~Overtaken(c) =>
           After(req[c].coll, loc[c].snap, req[c].ops, c)[loc[c].at - 1]
             = SoFar(Mine(c), loc[c].outs))'
    <3> SUFFICES ASSUME ~Overtaken(c)
                 PROVE  (After(req[c].coll, loc[c].snap, req[c].ops, c)[loc[c].at - 1]
                           = SoFar(Mine(c), loc[c].outs))'
      BY <2>3
    <3>1. After(req[c].coll, SnapOf(c), req[c].ops, c)[loc[c].at - 1]
            = SoFar(ViewOf(c), loc[c].outs)
      BY <1>1, ViewFacts
    <3>2. After(req[c].coll, loc[c].snap, req[c].ops, c)'
            = After(req[c].coll, SnapOf(c), req[c].ops, c)
      BY <1>8, <2>2, SameMeaning DEF Stays
    <3>3. (loc[c].at - 1)' = loc[c].at - 1
      BY <1>8, <2>2
    <3>4. SoFar(Mine(c), loc[c].outs)' = SoFar(ViewOf(c), loc[c].outs)
      BY <1>8, <2>2, <2>6 DEF SoFar
    <3> QED BY <3>1, <3>2, <3>3, <3>4
  <2>8. OpHand(c)'
    <3>1. ~Overtaken(c) => BodyOf(req[c].coll, Mine(c))' = b
      BY <2>6 DEF BodyOf, Sees, Stays
    <3>2. Over(IF OpAt(c).do = "merge" THEN loc[c].seen ELSE None, Sent(c, loc[c].at))'
            = loc'[c].new
      BY <1>8, <2>2, <2>3 DEF Over, Sent, Empty
    <3>3. OpAt(c).do \in {"delete", "merge", "replace"}
      BY <1>1, <1>2, <1>11, Context, RequestFacts DEF TxHand, OpAt
    <3>4. (loc[c].at <= Len(req[c].ops) /\ loc[c].read)'
      BY <1>2, <1>8, <2>2 DEF Stays
    <3>5. (~Overtaken(c) => loc[c].seen = BodyOf(req[c].coll, Mine(c)))'
      BY <1>8, <2>2, <2>3, <3>1
    <3>6. OpAt(c).do = "delete" => (OpAt(c).do = "delete" /\ loc[c].seen # None)'
      BY <1>8, <1>11, <2>2, <2>3
    <3>7. OpAt(c).do # "delete" =>
            /\ (OpAt(c).do)' \in {"merge", "replace"}
            /\ (OpAt(c).must => loc[c].seen # None)'
      BY <1>8, <1>11, <2>2, <2>3, <3>3
    <3> QED BY <2>2, <2>3, <3>2, <3>4, <3>5, <3>6, <3>7 DEF OpHand
  <2>9. (loc[c].at <= Len(req[c].ops) + 1)' /\ (Flat /\ req[c].tx)'
    BY <1>1, <1>2, <1>8, <2>2, <2>3 DEF TxHand, Stays
  <2>10. TxHand(c)'
    BY <1>8, <2>2, <2>4, <2>5, <2>7, <2>8, <2>9 DEF TxHand
  <2>11. Hand(c)' /\ p3 \in Steps
    BY <2>2, <2>10 DEF Hand, PlainSteps, TxSteps, EmulatedSteps, Steps
  <2> QED BY <1>8, <1>11, <2>1, <2>11, Context, MovesKeep DEF Stays, TxHand
<1> QED BY <1>9, <1>10, <1>11 DEF TxRead, l, l1, l3

\* A statement that is not refused as busy writes on what the transaction sees.
LEMMA WritesOnItsView ==
    ASSUME DInv, NEW c \in Clients, TxHand(c), OpHand(c), ~Busy(c)
    PROVE  /\ Cur(c) \in Row \cup {None}
           /\ driver = "sqlite" => ~loc[c].late
           /\ ~Overtaken(c) => Cur(c) = Mine(c)
<1>1. Cur(c) \in Row \cup {None}
  BY Context DEF Cur, Locals
<1>2. driver = "sqlite" => ~loc[c].late
  BY DEF Busy
<1>3. ASSUME ~Overtaken(c), loc[c].own = Nothing PROVE ~loc[c].late
  <2>1. OpAt(c).do # "read"
    BY DEF OpHand
  <2>2. loc[c].at \in 1..Len(req[c].ops)
    BY Context DEF OpHand, Locals
  <2>3. driver # "sqlite" => Careful(c)
    BY <2>1, <2>2 DEF Careful, TxHand, OpAt
  <2> QED BY <1>2, <1>3, <2>3, OvertakenIsLate
<1>4. ~Overtaken(c) => Cur(c) = Mine(c)
  <2>1. loc[c].late \in BOOLEAN
    BY Context DEF Locals
  <2> QED BY <1>3, <2>1 DEF Cur, Mine, TxHand, OpHand
<1> QED BY <1>1, <1>2, <1>4

LEMMA WritesKeeps ==
    ASSUME DInv, Stays, NEW c \in Clients, TxHand(c), OpHand(c), ~Busy(c),
           Unlocked(c), NEW r \in Row \cup {None}, NEW out \in OutType,
           Writes(c, r, out),
           ~Overtaken(c) => Atomic(req[c].coll, Mine(c), OpAt(c), Sent(c, loc[c].at))
                              = [row |-> r, res |-> "ok", out |-> out],
           Spares(c, r, Cur(c))
    PROVE  DInv'
<1> DEFINE l == [loc[c] EXCEPT !.own = r, !.at = @ + 1, !.outs = Append(@, out)]
<1>1. /\ loc[c] \in Locals /\ loc[c].at \in 1..Len(req[c].ops)
      /\ loc[c].at + 1 \in 1..MaxOps + 1 /\ Len(req[c].ops) \in Nat
  BY Context DEF OpHand, Locals
<1>2. Append(loc[c].outs, out) \in Seq(OutType)
  BY <1>1, AppendProperties DEF Locals
<1>3. /\ l \in Locals /\ l.own = r /\ l.at = loc[c].at + 1
      /\ l.outs = Append(loc[c].outs, out) /\ l.snap = loc[c].snap
      /\ l.late = loc[c].late /\ l.read = loc[c].read
  BY <1>1, <1>2 DEF Locals
<1>4. loc' = [loc EXCEPT ![c] = l]
  <2>1. loc' = [loc EXCEPT ![c].own = r, ![c].at = @ + 1, ![c].outs = Append(@, out)]
    BY DEF Writes
  <2> QED BY <2>1, Context DEF TypeOK
<1> HIDE DEF l
<1>5. Moves(c, "txget", Here(c), l)
  BY <1>4, Context, MovesOnly DEF Writes
<1>6. loc'[c] = l /\ pc'[c] = "txget" /\ row'[Home(c)] = Here(c)
  BY <1>5, Context, MovesFacts
<1>7. r # Nothing
  BY NoneAssumption
<1>8. /\ Flat' <=> Flat
      /\ Here(c)' = Here(c)
      /\ Overtaken(c)' <=> Overtaken(c)
      /\ KeepsToItself(c)' <=> KeepsToItself(c)
      /\ Mine(c)' = r
  BY <1>3, <1>6, <1>7, SameRequest, OvertakenIsLate DEF Stays
<1>9. OwnHand(c)'
  <2>1. \A k : BodyOf(k, Here(c))' = BodyOf(k, Here(c)) /\ BodyOf(k, loc[c].own)' = BodyOf(k, r)
    BY <1>3, <1>6, <1>8 DEF BodyOf, Sees
  <2>2. Spares(c, r, Here(c))
    <3>1. CASE loc[c].own = Nothing
      BY <3>1 DEF Cur
    <3>2. CASE loc[c].own # Nothing
      <4>1. Spares(c, r, loc[c].own) /\ Spares(c, loc[c].own, Here(c))
        BY <3>2 DEF TxHand, OwnHand, Cur
      <4> QED BY <4>1 DEF Spares
    <3> QED BY <3>1, <3>2
  <2>3. holder' = c
    BY DEF Writes
  <2>4. loc'[c].read /\ (driver = "sqlite" => ~loc'[c].late)
    BY <1>3, <1>6, WritesOnItsView DEF OpHand
  <2>5. Spares(c, loc[c].own, Here(c))'
    BY <1>8, <2>1, <2>2 DEF Stays, Spares
  <2>6. \E n \in 1..Len(req[c].ops) : req[c].ops[n].do # "read"
    BY <1>1 DEF OpHand, OpAt
  <2> QED BY <2>3, <2>4, <2>5, <2>6 DEF OwnHand, Stays
<1>10. (loc[c].read /\ ~loc[c].late => loc[c].snap = Here(c))'
  BY <1>3, <1>6, <1>8 DEF TxHand
<1>11. (loc[c].read /\ ~Overtaken(c) =>
         After(req[c].coll, loc[c].snap, req[c].ops, c)[loc[c].at - 1]
           = SoFar(Mine(c), loc[c].outs))'
  <2> SUFFICES ASSUME ~Overtaken(c)
               PROVE  (After(req[c].coll, loc[c].snap, req[c].ops, c)[loc[c].at - 1]
                         = SoFar(Mine(c), loc[c].outs))'
    BY <1>8
  <2>1. After(req[c].coll, loc[c].snap, req[c].ops, c)[loc[c].at - 1]
          = SoFar(Mine(c), loc[c].outs)
    BY DEF TxHand, OpHand
  <2>2. After(req[c].coll, loc[c].snap, req[c].ops, c)[loc[c].at]
          = SoFar(r, Append(loc[c].outs, out))
    BY <1>1, <2>1, GoesOn DEF OpAt
  <2>3. After(req[c].coll, loc[c].snap, req[c].ops, c)'
          = After(req[c].coll, loc[c].snap, req[c].ops, c)
    BY <1>3, <1>6, SameMeaning DEF Stays
  <2>4. (loc[c].at - 1)' = loc[c].at
    BY <1>1, <1>3, <1>6
  <2>5. SoFar(Mine(c), loc[c].outs)' = SoFar(r, Append(loc[c].outs, out))
    BY <1>3, <1>6, <1>8 DEF SoFar
  <2> QED BY <2>2, <2>3, <2>4, <2>5
<1>12. (loc[c].at <= Len(req[c].ops) + 1)' /\ (Flat /\ req[c].tx)'
  BY <1>1, <1>3, <1>6, <1>8 DEF TxHand, Stays
<1>13. (~loc[c].read => loc[c].at = 1 /\ loc[c].outs = <<>> /\ loc[c].snap = None)'
  BY <1>3, <1>6 DEF OpHand
<1>14. TxHand(c)'
  BY <1>6, <1>9, <1>10, <1>11, <1>12, <1>13 DEF TxHand
<1>15. Hand(c)' /\ "txget" \in Steps
  BY <1>6, <1>14 DEF Hand, PlainSteps, TxSteps, EmulatedSteps, Steps
<1> QED BY <1>3, <1>5, <1>15, Context, MovesKeep DEF Stays, TxHand, Writes

\* What a transaction's own version shows to other collections.
LEMMA OthersSeeNothing ==
    ASSUME NEW k \in Colls, NEW k2 \in Colls \ {k, Top}, NEW r \in Row \cup {None},
           r = None \/ r.path = k
    PROVE  BodyOf(k2, r) = None
  BY DEF BodyOf, Sees

LEMMA TxWriteKeeps ==
    ASSUME DInv, Stays, NEW c \in Clients, TxWrite(c)
    PROVE  DInv'
<1> DEFINE k == req[c].coll
           w == Sent(c, loc[c].at)
<1>1. TxHand(c) /\ OpHand(c) /\ pc[c] = "txput"
  BY Context DEF TxWrite, Hand, TxSteps, TxHand
<1>2. /\ loc[c].new \in Body /\ loc[c].seen \in Body \cup {None} /\ k \in Colls
      /\ loc[c].at \in 1..Len(req[c].ops) /\ w \in Body
      /\ loc[c].late \in BOOLEAN
  <2>1. loc[c].at \in 0..MaxOps + 1 /\ loc[c].at \in 1..Len(req[c].ops)
    BY <1>1, Context DEF Locals, OpHand
  <2> QED BY <2>1, Context, SentType DEF Locals
<1>3. Out(loc[c].seen, loc[c].new) \in OutType
  BY <1>2, OutFacts
<1>4. CASE Busy(c)
  BY <1>4, AnswerKeeps DEF TxWrite, Abort, Release
<1>5. CASE ~Busy(c) /\ OpAt(c).do = "replace"
  <2>1. Unlocked(c) /\ Writes(c, RowOf(k, loc[c].new), Out(loc[c].seen, loc[c].new))
    BY <1>5 DEF TxWrite
  <2>2. loc[c].new = w
    BY <1>1, <1>2, <1>5, OverNone DEF OpHand
  <2>3. ~Overtaken(c) => loc[c].seen = BodyOf(k, Mine(c))
    BY <1>1 DEF OpHand
  <2>4. ~Overtaken(c) => Atomic(k, Mine(c), OpAt(c), w)
                           = [row |-> RowOf(k, w), res |-> "ok",
                              out |-> Out(BodyOf(k, Mine(c)), w)]
    <3>1. ~Overtaken(c) => BodyOf(k, Mine(c)) # None \/ ~OpAt(c).must
      BY <1>1, <1>5, <2>3 DEF OpHand
    <3> QED BY <1>5, <3>1, AtomicMeans
  <2>6. RowOf(k, loc[c].new) \in Row /\ RowOf(k, loc[c].new).path = k
    BY <1>2, RowOfType, NoneAssumption
  <2>5. Spares(c, RowOf(k, loc[c].new), Cur(c))
    <3>1. ~KeepsToItself(c)
      BY <1>2, <1>5 DEF KeepsToItself, OpAt
    <3>2. \A k2 \in Colls \ {k, Top} : BodyOf(k2, RowOf(k, loc[c].new)) = None
      BY <1>2, <2>6, OthersSeeNothing
    <3> QED BY <3>1, <3>2 DEF Spares
  <2> QED BY <1>1, <1>3, <1>5, <2>1, <2>2, <2>3, <2>4, <2>5, <2>6, WritesKeeps
<1>6. CASE ~Busy(c) /\ OpAt(c).do = "merge" /\ Sees(k, Cur(c))
  <2> DEFINE r == Updated(k, Cur(c), loc[c].new)
  <2>1. Unlocked(c) /\ Writes(c, r, Out(loc[c].seen, loc[c].new))
    BY <1>6 DEF TxWrite
  <2>2. Cur(c) \in Row \cup {None} /\ (~Overtaken(c) => Cur(c) = Mine(c))
    BY <1>1, <1>6, WritesOnItsView
  <2>3. Cur(c) \in Row /\ BodyOf(k, Cur(c)) # None
    BY <1>2, <1>6, <2>2, BodyOfType
  <2>4. r \in Row /\ r.path \in {k, Cur(c).path}
    BY <1>2, <2>3, UpdatedType
  <2>5. ~Overtaken(c) => Atomic(k, Mine(c), OpAt(c), w)
                           = [row |-> r, res |-> "ok", out |-> Out(loc[c].seen, loc[c].new)]
    <3> SUFFICES ASSUME ~Overtaken(c)
                 PROVE  Atomic(k, Cur(c), OpAt(c), w)
                          = [row |-> r, res |-> "ok", out |-> Out(loc[c].seen, loc[c].new)]
      BY <2>2
    <3>1. loc[c].seen = BodyOf(k, Cur(c)) /\ loc[c].new = Over(loc[c].seen, w)
      BY <1>1, <1>6, <2>2 DEF OpHand
    <3> QED BY <1>6, <2>3, <3>1, AtomicMeans
  <2>6. Spares(c, r, Cur(c))
    <3> SUFFICES ASSUME k # Top, NEW k2 \in Colls \ {k, Top}
                 PROVE  BodyOf(k2, r) = BodyOf(k2, Cur(c))
      BY DEF Spares, KeepsToItself
    <3>1. Cur(c).path = k
      BY <1>6 DEF Sees
    <3>2. BodyOf(k2, r) = None /\ BodyOf(k2, Cur(c)) = None
      BY <1>2, <2>3, <2>4, <3>1, OthersSeeNothing
    <3> QED BY <3>2
  <2> HIDE DEF r
  <2> QED BY <1>1, <1>3, <1>6, <2>1, <2>4, <2>5, <2>6, WritesKeeps
<1>7. CASE ~Busy(c) /\ OpAt(c).do # "replace" /\ ~(OpAt(c).do = "merge" /\ Sees(k, Cur(c)))
  <2>1. OpAt(c).do = "merge" /\ ~Sees(k, Cur(c))
    BY <1>1, <1>7 DEF OpHand
  <2>2. Goto(c, "txinsert") /\ UNCHANGED <<row, loc, holder, ans>>
    BY <1>7 DEF TxWrite
  <2>3. ~Overtaken(c) => loc[c].seen = None
    <3>1. ~Overtaken(c) => loc[c].seen = BodyOf(k, Cur(c))
      BY <1>1, <1>7, WritesOnItsView DEF OpHand
    <3> QED BY <2>1, <3>1 DEF BodyOf
  <2>4. loc' = [loc EXCEPT ![c] = loc[c]]
    BY <2>2, Context DEF TypeOK
  <2>5. Moves(c, "txinsert", Here(c), loc[c])
    BY <2>2, <2>4, Context, MovesOnly
  <2>6. loc'[c] = loc[c] /\ pc'[c] = "txinsert" /\ row'[Home(c)] = Here(c)
    BY <2>5, Context, MovesFacts
  <2>7. /\ Flat' <=> Flat
        /\ Here(c)' = Here(c)
        /\ Overtaken(c)' <=> Overtaken(c)
        /\ OpAt(c)' = OpAt(c)
        /\ Mine(c)' = Mine(c)
    BY <2>6, SameRequest, OvertakenIsLate DEF Stays, OpAt, Mine
  <2>8. OwnHand(c)'
    BY <1>1, <2>2, <2>6, SameOwn, Context DEF TxHand, OpHand, Stays
  <2>9. /\ BodyOf(k, Mine(c))' = BodyOf(k, Mine(c))
        /\ Over(IF OpAt(c).do = "merge" THEN loc[c].seen ELSE None, Sent(c, loc[c].at))'
             = Over(IF OpAt(c).do = "merge" THEN loc[c].seen ELSE None, w)
        /\ SoFar(Mine(c), loc[c].outs)' = SoFar(Mine(c), loc[c].outs)
    BY <2>6, <2>7 DEF BodyOf, Sees, Over, Sent, Empty, SoFar, Stays
  <2>10. OpHand(c)'
    BY <1>1, <2>1, <2>3, <2>6, <2>7, <2>9 DEF OpHand, Stays
  <2>11. After(req[c].coll, loc[c].snap, req[c].ops, c)'
           = After(req[c].coll, loc[c].snap, req[c].ops, c)
    BY <2>6, SameMeaning DEF Stays
  <2>12. (loc[c].read /\ ~Overtaken(c) =>
           After(req[c].coll, loc[c].snap, req[c].ops, c)[loc[c].at - 1]
             = SoFar(Mine(c), loc[c].outs))'
    BY <1>1, <2>6, <2>7, <2>9, <2>11 DEF TxHand
  <2>13. TxHand(c)'
    BY <1>1, <2>6, <2>7, <2>8, <2>10, <2>12 DEF TxHand, Stays
  <2>14. Hand(c)' /\ "txinsert" \in Steps
    BY <2>6, <2>13 DEF Hand, PlainSteps, TxSteps, EmulatedSteps, Steps
  <2> QED BY <1>1, <2>2, <2>5, <2>14, Context, MovesKeep DEF Stays, TxHand
<1> QED BY <1>4, <1>5, <1>6, <1>7

LEMMA TxInsertKeeps ==
    ASSUME DInv, Stays, NEW c \in Clients, TxInsert(c)
    PROVE  DInv'
<1> DEFINE k == req[c].coll
           w == Sent(c, loc[c].at)
           r == RowOf(k, loc[c].new)
           out == Out(loc[c].seen, loc[c].new)
<1>1. TxHand(c) /\ OpHand(c) /\ pc[c] = "txinsert"
  BY Context DEF TxInsert, Hand, TxSteps, TxHand
<1>2. CASE Busy(c) \/ Cur(c) # None
  BY <1>2, AnswerKeeps DEF TxInsert, Abort, Release
<1>3. CASE ~Busy(c) /\ Cur(c) = None
  <2>1. Unlocked(c) /\ Writes(c, r, out)
    BY <1>3 DEF TxInsert
  <2>2. /\ loc[c].new \in Body /\ k \in Colls /\ loc[c].seen \in Body \cup {None}
        /\ loc[c].at \in 0..MaxOps + 1
    BY Context DEF Locals
  <2>3. r \in Row /\ r.path = k /\ out \in OutType /\ w \in Body
    BY <2>2, RowOfType, OutFacts, NoneAssumption, SentType
  <2>4. ~Overtaken(c) => Atomic(k, Mine(c), OpAt(c), w)
                           = [row |-> r, res |-> "ok", out |-> out]
    <3> SUFFICES ASSUME ~Overtaken(c)
                 PROVE  Atomic(k, None, OpAt(c), w)
                          = [row |-> r, res |-> "ok", out |-> out]
      BY <1>1, <1>3, WritesOnItsView
    <3>1. /\ loc[c].seen = None /\ OpAt(c).do = "merge" /\ ~OpAt(c).must
          /\ loc[c].new = Over(None, w)
      BY <1>1 DEF OpHand
    <3>2. loc[c].new = w
      BY <2>3, <3>1, OverNone
    <3>3. BodyOf(k, None) = None
      BY DEF BodyOf, Sees
    <3> QED BY <3>1, <3>2, <3>3, AtomicMeans
  <2>5. Spares(c, r, Cur(c))
    <3>1. \A k2 \in Colls \ {k, Top} : BodyOf(k2, r) = BodyOf(k2, Cur(c))
      BY <1>3, <2>2, <2>3, OthersSeeNothing
    <3> QED BY <3>1 DEF Spares
  <2> HIDE DEF r, out
  <2> QED BY <1>1, <1>3, <2>1, <2>3, <2>4, <2>5, WritesKeeps
<1> QED BY <1>2, <1>3

LEMMA TxDeleteKeeps ==
    ASSUME DInv, Stays, NEW c \in Clients, TxDelete(c)
    PROVE  DInv'
<1> DEFINE k == req[c].coll
           b == loc[c].seen
<1>1. TxHand(c) /\ OpHand(c) /\ pc[c] = "txdelete"
  BY Context DEF TxDelete, Hand, TxSteps, TxHand
<1>2. /\ b \in Body \cup {None} /\ k \in Colls /\ Out(b, b) \in OutType
      /\ OpAt(c).do = "delete" /\ b # None
      /\ loc[c].at \in 1..Len(req[c].ops)
  BY <1>1, Context, OutFacts DEF Locals, OpHand
<1>3. CASE Busy(c)
  BY <1>3, AnswerKeeps DEF TxDelete, Abort, Release
<1>4. CASE ~Busy(c) /\ Sees(k, Cur(c))
  <2>1. Unlocked(c) /\ Writes(c, None, Out(b, b))
    BY <1>4 DEF TxDelete
  <2>2. ~Overtaken(c) => Atomic(k, Mine(c), OpAt(c), Sent(c, loc[c].at))
                           = [row |-> None, res |-> "ok", out |-> Out(b, b)]
    <3>1. ~Overtaken(c) => b = BodyOf(k, Mine(c))
      BY <1>1 DEF OpHand
    <3> QED BY <1>2, <3>1, AtomicMeans
  <2>3. Spares(c, None, Cur(c))
    <3> SUFFICES ASSUME k # Top, NEW k2 \in Colls \ {k, Top}
                 PROVE  BodyOf(k2, None) = BodyOf(k2, Cur(c))
      BY DEF Spares, KeepsToItself
    <3>1. Cur(c).path = k /\ Cur(c) \in Row \cup {None}
      BY <1>1, <1>4, WritesOnItsView DEF Sees
    <3>2. BodyOf(k2, Cur(c)) = None
      BY <1>2, <3>1, OthersSeeNothing
    <3> QED BY <3>2 DEF BodyOf, Sees
  <2> QED BY <1>1, <1>2, <1>4, <2>1, <2>2, <2>3, WritesKeeps
<1>5. CASE ~Busy(c) /\ ~Sees(k, Cur(c))
  <2> DEFINE l == [loc[c] EXCEPT !.at = @ + 1, !.outs = Append(@, Out(b, b))]
  <2>1. NextOp(c, Out(b, b))
    BY <1>5 DEF TxDelete
  <2>2. /\ loc[c] \in Locals /\ loc[c].at + 1 \in 1..MaxOps + 1
    BY <1>1, <1>2, Context DEF Locals
  <2>3. Append(loc[c].outs, Out(b, b)) \in Seq(OutType)
    BY <1>2, <2>2, AppendProperties DEF Locals
  <2>4. /\ l \in Locals /\ l.at = loc[c].at + 1 /\ l.own = loc[c].own
        /\ l.outs = Append(loc[c].outs, Out(b, b)) /\ l.snap = loc[c].snap
        /\ l.late = loc[c].late /\ l.read = loc[c].read
    BY <2>2, <2>3 DEF Locals
  <2>5. loc' = [loc EXCEPT ![c] = l]
    <3>1. loc' = [loc EXCEPT ![c].at = @ + 1, ![c].outs = Append(@, Out(b, b))]
      BY <2>1 DEF NextOp
    <3> QED BY <3>1, Context DEF TypeOK
  <2>6. Overtaken(c)
    <3>1. ~Overtaken(c) => b = BodyOf(k, Cur(c))
      BY <1>1, <1>5, WritesOnItsView DEF OpHand
    <3> QED BY <1>2, <1>5, <3>1 DEF BodyOf
  <2>7. loc[c].read /\ SnapOf(c) = loc[c].snap /\ loc[c].at <= Len(req[c].ops)
    BY <1>1 DEF OpHand, SnapOf
  <2> HIDE DEF l
  <2>8. Goto(c, "txget") /\ UNCHANGED <<row, holder>>
    BY <2>1 DEF NextOp
  <2> QED BY <1>1, <1>2, <2>4, <2>5, <2>6, <2>7, <2>8, TxNextKeeps
<1> QED BY <1>3, <1>4, <1>5

LEMMA CommitKeeps ==
    ASSUME DInv, Stays, NEW c \in Clients, Commit(c)
    PROVE  DInv'
<1>1. TxHand(c)
  BY Context DEF Commit, Hand, TxSteps
<1>2. Cur(c) \in Row \cup {None}
  BY Context DEF Cur, Locals
<1>3. Cur(c) # Here(c) => Unlocked(c)
  BY <1>1 DEF Cur, TxHand, OwnHand, Unlocked
<1> QED BY <1>1, <1>2, <1>3, CommitsKeeps DEF Commit, Release, TxHand

LEMMA StatementFailsKeeps ==
    ASSUME DInv, Stays, NEW c \in Clients, StatementFails(c)
    PROVE  DInv'
  BY AnswerKeeps DEF StatementFails, Abort, Release

-----------------------------------------------------------------------------
(* RethinkDB *)

\* A row of the client's own collection is the row of its document.
LEMMA RowOfBody ==
    ASSUME NEW k \in Colls, NEW r \in Row \cup {None}, r = None \/ r.path = k
    PROVE  RowOf(k, BodyOf(k, r)) = r
<1>1. CASE r = None
  BY <1>1 DEF RowOf, BodyOf, Sees
<1>2. CASE r # None
  <2>1. r \in [path : Colls, body : Body] /\ r.path = k /\ r.body # None
    BY <1>2, NoneAssumption DEF Row
  <2>2. r = [path |-> k, body |-> r.body]
    BY <2>1
  <2>3. BodyOf(k, r) = r.body
    BY <1>2, <2>1 DEF BodyOf, Sees
  <2> QED BY <2>1, <2>2, <2>3 DEF RowOf
<1> QED BY <1>1, <1>2

LEMMA EmulatedFacts ==
    ASSUME DInv, NEW c \in Clients, EmulatedHand(c)
    PROVE  /\ Prev(c) \in Body \cup {None}
           /\ loc[c].at \in 1..Len(req[c].ops) /\ Sent(c, loc[c].at) \in Body
           /\ Sent(c, loc[c].at) # None
           /\ What(c) \in Body /\ What(c) # Nothing /\ What(c) # None
           /\ Effect(c) \in Row \cup {None}
           /\ Effect(c) = None \/ Effect(c).path = req[c].coll
           /\ OpAt(c).do \in {"read", "delete", "merge", "replace", "insert"}
           /\ driver # "postgres"
<1>1. Prev(c) \in Body \cup {None}
  BY Context DEF Prev, Locals
<1>2. /\ loc[c].at \in 1..Len(req[c].ops) /\ loc[c].at \in 0..MaxOps + 1
      /\ Len(req[c].ops) \in Nat
  BY Context DEF EmulatedHand, Locals
<1>3. Sent(c, loc[c].at) \in Body
  BY <1>2, SentType
<1>4. What(c) \in Body
  BY <1>1, <1>3, OverType DEF What
<1>5. /\ RowOf(req[c].coll, What(c)) \in Row \cup {None}
      /\ RowOf(req[c].coll, What(c)).path = req[c].coll
  BY <1>4, Context, RowOfType, NoneAssumption
<1>6. /\ Effect(c) \in Row \cup {None}
      /\ Effect(c) = None \/ Effect(c).path = req[c].coll
  <2>1. Effect(c) \in {None, Here(c), RowOf(req[c].coll, What(c))}
    BY DEF Effect, Conflicts
  <2> QED BY <2>1, <1>5, Context DEF EmulatedHand
<1>7. OpAt(c) \in Op
  BY <1>2, Context, RequestFacts DEF OpAt
<1> QED BY <1>1, <1>2, <1>3, <1>4, <1>6, <1>7, NoneAssumption
        DEF Op, EmulatedHand, Flat

\* The end of a request, or of an operation that was its last.
LEMMA EmulatedEnds ==
    ASSUME DInv, Stays, NEW c \in Clients, EmulatedHand(c), holder' = holder,
           NEW r \in Row \cup {None}, r = None \/ r.path = req[c].coll,
           Put(c, Home(c), r, Fresh), Goto(c, "done")
    PROVE  DInv'
<1>1. Moves(c, "done", r, Fresh)
  BY DEF Moves
<1> QED BY <1>1, DoneKeeps DEF Stays, EmulatedHand

LEMMA GatherKeeps ==
    ASSUME DInv, Stays, NEW c \in Clients, holder' = holder, Gather(c)
    PROVE  DInv'
<1> DEFINE k == req[c].coll
           b == BodyOf(k, Here(c))
           l == [loc[c] EXCEPT !.read = TRUE, !.seen = b]
<1>1. EmulatedHand(c) /\ pc[c] = "gather" /\ ~Flat
  BY Context DEF Gather, Hand, EmulatedSteps, EmulatedHand
<1>2. CASE OpAt(c).must /\ b = None
  BY <1>2, AnswerKeeps DEF Gather
<1>3. CASE ~(OpAt(c).must /\ b = None)
  <2>1. Goto(c, "apply") /\ UNCHANGED row
    BY <1>3 DEF Gather
  <2>2. loc' = [loc EXCEPT ![c] = l]
    <3>1. loc' = [loc EXCEPT ![c].read = TRUE, ![c].seen = b]
      BY <1>3 DEF Gather
    <3> QED BY <3>1, Context DEF TypeOK
  <2>3. b \in Body \cup {None} /\ RowOf(k, b) = Here(c)
    BY <1>1, Context, BodyOfType, RowOfBody
  <2>4. loc[c] = [Fresh EXCEPT !.new = Sent(c, 1)]
    BY <1>1 DEF EmulatedHand
  <2>5. /\ l \in Locals /\ l.read = TRUE /\ l.seen = b /\ l.own = Nothing
        /\ l.at = 1 /\ l.outs = <<>> /\ l.over = Nothing /\ l.log = <<>>
        /\ l.late = FALSE /\ l.torn = FALSE /\ l.tries = 0
    <3>1. /\ loc[c].own = Nothing /\ loc[c].at = 1 /\ loc[c].outs = <<>>
          /\ loc[c].over = Nothing /\ loc[c].log = <<>> /\ loc[c].late = FALSE
          /\ loc[c].torn = FALSE /\ loc[c].tries = 0
      BY <2>4 DEF Fresh
    <3>2. loc[c] \in Locals
      BY Context
    <3>3. l \in Locals
      BY <2>3, <3>2 DEF Locals
    <3>4. /\ l.read = TRUE /\ l.seen = b /\ l.own = loc[c].own /\ l.at = loc[c].at
          /\ l.outs = loc[c].outs /\ l.over = loc[c].over
      BY <3>2 DEF Locals
    <3>5. /\ l.log = loc[c].log /\ l.late = loc[c].late /\ l.torn = loc[c].torn
          /\ l.tries = loc[c].tries
      BY <3>2 DEF Locals
    <3> QED BY <3>1, <3>3, <3>4, <3>5
  <2>6. Moves(c, "apply", Here(c), l)
    BY <2>1, <2>2, Context, MovesOnly
  <2> HIDE DEF l
  <2>7. loc'[c] = l /\ pc'[c] = "apply" /\ row'[Home(c)] = Here(c)
    BY <2>6, Context, MovesFacts
  <2>8. /\ Flat' <=> Flat
        /\ Here(c)' = Here(c)
        /\ Prev(c)' = b
    BY <2>5, <2>7, SameRequest DEF Stays
  <2>9. /\ RowOf(k, loc[c].seen)' = Here(c) /\ RowOf(k, Prev(c))' = Here(c)
        /\ BodyOf(k, Here(c))' = b
    BY <2>3, <2>5, <2>7, <2>8 DEF RowOf, BodyOf, Sees, Stays
  <2>10. LogHand(c)'
    BY <2>5, <2>7, <2>8, <2>9 DEF LogHand
  <2>11. After(req[c].coll, RowOf(req[c].coll, loc[c].seen), req[c].ops, c)'
           = After(k, Here(c), req[c].ops, c)
    BY <2>9, SameMeaning DEF Stays
  <2>12. After(k, Here(c), req[c].ops, c)[0] = SoFar(Here(c), <<>>)
    BY Context, AfterNext
  <2>13. SoFar(RowOf(k, Prev(c)), loc[c].outs)' = SoFar(Here(c), <<>>)
    BY <2>5, <2>7, <2>9 DEF SoFar
  <2>14. (loc[c].at - 1)' = 0
    BY <2>5, <2>7
  <2>15. req[c].ops[1].must => b # None
    BY <1>3, <2>4 DEF OpAt, Fresh
  <2>16. BatchHand(c)'
    BY <2>5, <2>7, <2>8, <2>9, <2>10, <2>11, <2>12, <2>13, <2>14, <2>15
       DEF BatchHand, Stays
  <2>17. EmulatedHand(c)'
    <3>1. 1 <= Len(req[c].ops) /\ req[c].ops[1].do # "insert"
      BY <1>1, Context DEF EmulatedHand
    <3> QED BY <1>1, <2>5, <2>7, <2>8, <2>9, <2>16, <3>1 DEF EmulatedHand, Stays
  <2>18. Hand(c)' /\ "apply" \in Steps
    BY <2>7, <2>17 DEF Hand, PlainSteps, TxSteps, EmulatedSteps, Steps
  <2> QED BY <1>1, <2>5, <2>6, <2>18, Context, MovesKeep DEF Stays
<1> QED BY <1>2, <1>3

\* An operation of a batch is over, and it is not the last: either it left the
\* document, or it is a put that went into the overlay and the log.
LEMMA BatchGoesOn ==
    ASSUME DInv, Stays, NEW c \in Clients, EmulatedHand(c), pc[c] = "apply",
           holder' = holder, req[c].tx, loc[c].at # Len(req[c].ops),
           NEW r \in Row \cup {None}, r = None \/ r.path = req[c].coll,
           NEW out \in OutType, NEW l \in Locals,
           Goto(c, "apply"), Put(c, Home(c), r, l),
           l.at = loc[c].at + 1, l.read = loc[c].read, l.seen = loc[c].seen,
           l.own = loc[c].own, l.late = loc[c].late, l.torn = loc[c].torn,
           l.outs = Append(loc[c].outs, out), l.tries = 0,
           ~Misjudged(c) =>
             /\ Atomic(req[c].coll, RowOf(req[c].coll, Prev(c)), OpAt(c), Sent(c, loc[c].at))
                  = [row |-> RowOf(req[c].coll, IF l.over # Nothing THEN l.over ELSE l.seen),
                     res |-> "ok", out |-> out]
             /\ Undisturbed(c) =>
                  r = RowOf(req[c].coll, IF l.over # Nothing THEN l.over ELSE l.seen),
           \/ r = Here(c) /\ l.over = loc[c].over /\ l.log = loc[c].log
           \/ l.log = <<Prev(c)>> \o loc[c].log
    PROVE  DInv'
<1> DEFINE k == req[c].coll
           base == RowOf(k, loc[c].seen)
           prev == IF l.over # Nothing THEN l.over ELSE l.seen
<1>1. Moves(c, "apply", r, l)
  BY DEF Moves
<1>2. loc'[c] = l /\ pc'[c] = "apply" /\ row'[Home(c)] = r
  BY <1>1, Context, MovesFacts
<1>3. /\ Flat' <=> Flat
      /\ Here(c)' = r
      /\ Misjudged(c)' <=> Misjudged(c)
      /\ Prev(c)' = prev
  BY <1>2, SameRequest DEF Stays
<1>4. Undisturbed(c)' <=> Undisturbed(c)
  BY <1>2 DEF Undisturbed
<1>5. BatchHand(c) /\ ~Flat /\ loc[c].own = Nothing
  BY DEF EmulatedHand
<1>6. /\ loc[c].at \in 1..Len(req[c].ops) /\ Len(req[c].ops) \in Nat
      /\ loc[c].log \in Seq(Body \cup {None}) /\ Prev(c) \in Body \cup {None}
  <2>1. loc[c] \in Locals /\ Len(req[c].ops) \in 1..MaxOps /\ MaxOps \in Nat
    BY Context
  <2>2. loc[c].log \in Seq(Body \cup {None})
    BY <2>1 DEF Locals
  <2> QED BY <2>1, <2>2, EmulatedFacts
<1>7. RowOf(k, loc[c].seen)' = base /\ RowOf(k, Prev(c))' = RowOf(k, prev)
  BY <1>2, <1>3 DEF RowOf, Stays
<1>8. (Undisturbed(c) => LogHand(c))'
  <2> SUFFICES ASSUME Undisturbed(c) PROVE LogHand(c)'
    BY <1>4
  <2>1. LogHand(c)
    BY <1>5 DEF BatchHand
  <2>2. CASE r = Here(c) /\ l.over = loc[c].over /\ l.log = loc[c].log
    BY <1>2, <1>3, <1>7, <2>1, <2>2 DEF LogHand
  <2>3. CASE l.log = <<Prev(c)>> \o loc[c].log
    <3>1. l.log # <<>> /\ l.log[Len(l.log)] = loc[c].seen
      <4>1. <<Prev(c)>> \in Seq(Body \cup {None})
        BY <1>6
      <4>2. /\ Len(l.log) = 1 + Len(loc[c].log) /\ Len(loc[c].log) \in Nat
            /\ \A i \in 1..1 + Len(loc[c].log) :
                 l.log[i] = IF i <= 1 THEN Prev(c) ELSE loc[c].log[i - 1]
        BY <1>6, <2>3, <4>1, ConcatProperties, LenProperties
      <4>3. CASE loc[c].log = <<>>
        <5>1. Len(loc[c].log) = 0
          BY <4>3
        <5>2. Prev(c) = loc[c].seen
          BY <1>5, <4>3 DEF BatchHand, Prev
        <5> QED BY <4>2, <5>1, <5>2
      <4>4. CASE loc[c].log # <<>>
        <5>1. Len(loc[c].log) # 0 /\ loc[c].log[Len(loc[c].log)] = loc[c].seen
          BY <1>6, <2>1, <4>4, EmptySeq DEF LogHand
        <5> QED BY <4>2, <5>1
      <4> QED BY <4>3, <4>4
    <3> QED BY <1>2, <3>1 DEF LogHand
  <2> QED BY <2>2, <2>3
<1>9. l.log = <<>> => l.over = Nothing
  <2>1. CASE l.over = loc[c].over /\ l.log = loc[c].log
    BY <1>5, <2>1 DEF BatchHand
  <2>2. CASE l.log = <<Prev(c)>> \o loc[c].log
    <3>1. l.log # <<>>
      <4>1. <<Prev(c)>> \in Seq(Body \cup {None}) /\ Len(<<Prev(c)>>) = 1
        BY <1>6
      <4>2. Len(l.log) = 1 + Len(loc[c].log) /\ Len(loc[c].log) \in Nat
        BY <1>6, <2>2, <4>1, ConcatProperties, LenProperties
      <4>3. Len(<<>>) = 0
        OBVIOUS
      <4> QED BY <4>2, <4>3
    <3> QED BY <3>1
  <2> QED BY <2>1, <2>2
<1>10. (~Misjudged(c) =>
          /\ After(k, RowOf(k, loc[c].seen), req[c].ops, c)[loc[c].at - 1]
               = SoFar(RowOf(k, Prev(c)), loc[c].outs)
          /\ Undisturbed(c) => Here(c) = RowOf(k, Prev(c)))'
  <2> SUFFICES ASSUME ~Misjudged(c)
               PROVE  (/\ After(k, RowOf(k, loc[c].seen), req[c].ops, c)[loc[c].at - 1]
                            = SoFar(RowOf(k, Prev(c)), loc[c].outs)
                       /\ Undisturbed(c) => Here(c) = RowOf(k, Prev(c)))'
    BY <1>3
  <2>1. After(k, base, req[c].ops, c)[loc[c].at - 1] = SoFar(RowOf(k, Prev(c)), loc[c].outs)
    BY <1>5 DEF BatchHand
  <2>2. After(k, base, req[c].ops, c)[loc[c].at]
          = SoFar(RowOf(k, prev), Append(loc[c].outs, out))
    <3> DEFINE x == RowOf(k, Prev(c))
               y == RowOf(k, prev)
               n == loc[c].at
               ops == req[c].ops
    <3>1. Atomic(k, x, ops[n], Sent(c, n)) = [row |-> y, res |-> "ok", out |-> out]
      BY DEF OpAt
    <3>2. After(k, base, ops, c)[n - 1] = SoFar(x, loc[c].outs)
      BY <2>1
    <3>3. n \in 1..Len(ops) /\ Len(ops) \in Nat
      BY <1>6
    <3> HIDE DEF base, x, y, n, k, ops
    <3>4. After(k, base, ops, c)[n] = SoFar(y, Append(loc[c].outs, out))
      BY <3>1, <3>2, <3>3, GoesOn
    <3> QED BY <3>4 DEF y, n, ops
  <2>3. After(k, RowOf(k, loc[c].seen), req[c].ops, c)' = After(k, base, req[c].ops, c)
    BY <1>7, SameMeaning DEF Stays
  <2>4. (loc[c].at - 1)' = loc[c].at
    BY <1>2, <1>6
  <2>5. SoFar(RowOf(k, Prev(c)), loc[c].outs)' = SoFar(RowOf(k, prev), Append(loc[c].outs, out))
    BY <1>2, <1>7 DEF SoFar
  <2>6. (Undisturbed(c) => Here(c) = RowOf(k, Prev(c)))'
    BY <1>3, <1>4, <1>7
  <2> QED BY <2>2, <2>3, <2>4, <2>5, <2>6
<1>11. (req[c].ops[1].must => loc[c].seen # None)'
  BY <1>2, <1>5 DEF BatchHand, Stays
<1>12. BatchHand(c)'
  <2>1. loc'[c].read
    BY <1>2, <1>5 DEF BatchHand
  <2> HIDE DEF base, prev
  <2> QED BY <1>2, <1>8, <1>9, <1>10, <1>11, <2>1 DEF BatchHand
<1>13. (loc[c].at <= Len(req[c].ops))'
  BY <1>2, <1>6 DEF Stays
<1>14. EmulatedHand(c)'
  BY <1>2, <1>3, <1>5, <1>12, <1>13 DEF EmulatedHand, Stays
<1>15. Hand(c)' /\ "apply" \in Steps
  BY <1>2, <1>14 DEF Hand, PlainSteps, TxSteps, EmulatedSteps, Steps
<1> QED BY <1>1, <1>5, <1>15, Context, MovesKeep DEF Stays

\* What an operation of RethinkDB's does is what it means on the document it
\* sees, when that is not a merge that must find one.
LEMMA ReadMeans ==
    ASSUME DInv, NEW c \in Clients, EmulatedHand(c),
           OpAt(c).do = "read" \/ (OpAt(c).do = "delete" /\ Prev(c) = None)
    PROVE  Atomic(req[c].coll, RowOf(req[c].coll, Prev(c)), OpAt(c), Sent(c, loc[c].at))
             = [row |-> RowOf(req[c].coll, Prev(c)), res |-> "ok",
                out |-> Out(Prev(c), Prev(c))]
<1> DEFINE k == req[c].coll
           w == Sent(c, loc[c].at)
           x == RowOf(k, Prev(c))
           a == Atomic(k, x, OpAt(c), w)
<1>1. BodyOf(k, x) = Prev(c)
  BY Context, EmulatedFacts, RowOfType
<1> HIDE DEF x, w, k
<1>2. a = [row |-> x, res |-> "ok", out |-> Out(Prev(c), Prev(c))]
  <2>1. CASE OpAt(c).do = "read"
    BY <1>1, <2>1, AtomicMeans
  <2>2. CASE OpAt(c).do = "delete" /\ Prev(c) = None
    BY <1>1, <2>2, AtomicMeans
  <2> QED BY <2>1, <2>2
<1> QED BY <1>2 DEF x, w, k

LEMMA WriteMeans ==
    ASSUME DInv, NEW c \in Clients, EmulatedHand(c), OpAt(c).do # "read",
           ~(OpAt(c).must /\ Prev(c) = None),
           OpAt(c).do = "insert" => Prev(c) = None,
           OpAt(c).do = "delete" => Prev(c) # None
    PROVE  LET put == OpAt(c).do # "delete"
           IN  Atomic(req[c].coll, RowOf(req[c].coll, Prev(c)), OpAt(c), Sent(c, loc[c].at))
                 = [row |-> IF put THEN RowOf(req[c].coll, What(c)) ELSE None,
                    res |-> "ok",
                    out |-> Out(Prev(c), IF put THEN What(c) ELSE Prev(c))]
<1> DEFINE k == req[c].coll
           w == Sent(c, loc[c].at)
           x == RowOf(k, Prev(c))
           y == RowOf(k, What(c))
           a == Atomic(k, x, OpAt(c), w)
<1>1. /\ BodyOf(k, x) = Prev(c) /\ k \in Colls /\ w \in Body
      /\ x = None <=> Prev(c) = None
      /\ x \in Row \cup {None}
  BY Context, EmulatedFacts, RowOfType
<1>2. Prev(c) # None => Updated(k, x, Over(Prev(c), w)) = RowOf(k, Over(Prev(c), w))
  <2>1. Prev(c) # None => x \in Row /\ Over(Prev(c), w) \in Body
    BY <1>1, EmulatedFacts, OverType
  <2> HIDE DEF x, w, k
  <2> QED BY <1>1, <2>1, EmulatedFacts, UpdatedType
<1>3. OpAt(c).do = "merge" => What(c) = Over(Prev(c), w)
  BY DEF What
<1>4. OpAt(c).do # "merge" => What(c) = w
  BY DEF What
<1>5. Prev(c) = None => Over(Prev(c), w) = w
  BY <1>1, OverNone
<1> HIDE DEF x, w, k
<1>6. CASE OpAt(c).do = "delete"
  <2>1. a = [row |-> None, res |-> "ok", out |-> Out(Prev(c), Prev(c))]
    BY <1>1, <1>6, AtomicMeans
  <2> QED BY <1>6, <2>1 DEF x, w, k
<1>7. CASE OpAt(c).do = "replace"
  <2>1. a = [row |-> y, res |-> "ok", out |-> Out(Prev(c), What(c))]
    BY <1>1, <1>4, <1>7, AtomicMeans
  <2> QED BY <1>7, <2>1 DEF x, w, k
<1>8. CASE OpAt(c).do = "merge" /\ Prev(c) # None
  <2>1. a = [row |-> y, res |-> "ok", out |-> Out(Prev(c), What(c))]
    BY <1>1, <1>2, <1>3, <1>8, AtomicMeans
  <2> QED BY <1>8, <2>1 DEF x, w, k
<1>9. CASE OpAt(c).do \in {"merge", "insert"} /\ Prev(c) = None
  <2>1. What(c) = w
    BY <1>3, <1>4, <1>5, <1>9
  <2>2. a = [row |-> y, res |-> "ok", out |-> Out(Prev(c), What(c))]
    BY <1>1, <2>1, <1>9, AtomicMeans
  <2> QED BY <1>9, <2>2 DEF x, w, k
<1> QED BY <1>6, <1>7, <1>8, <1>9, EmulatedFacts

\* What must_exist asks of a batch that RethinkDB does not misjudge.
LEMMA MustIsMet ==
    ASSUME DInv, NEW c \in Clients, EmulatedHand(c), pc[c] = "apply", ~Misjudged(c)
    PROVE  /\ ~(OpAt(c).must /\ Prev(c) = None)
           /\ OpAt(c).do = "insert" => ~req[c].tx /\ Prev(c) = None
           /\ OpAt(c).do = "delete" => loc[c].at = Len(req[c].ops)
<1>1. loc[c].at \in 1..Len(req[c].ops) /\ ~Flat /\ Len(req[c].ops) \in Nat
  <2>1. Len(req[c].ops) \in 1..MaxOps /\ MaxOps \in Nat
    BY Context
  <2>2. loc[c].at \in 1..Len(req[c].ops)
    BY EmulatedFacts
  <2> QED BY <2>1, <2>2 DEF EmulatedHand
<1>2. /\ OpAt(c).must => loc[c].at = 1
      /\ OpAt(c).do = "delete" => loc[c].at = Len(req[c].ops)
  <2>1. ~(loc[c].at > 1 /\ OpAt(c).must)
    BY <1>1 DEF Misjudged, OpAt
  <2>2. ~(OpAt(c).do = "delete" /\ loc[c].at < Len(req[c].ops))
    BY <1>1 DEF Misjudged, OpAt
  <2> QED BY <1>1, <2>1, <2>2
<1>3. CASE ~req[c].tx
  <2>1. loc[c].at = 1 /\ ~req[c].ops[1].must /\ loc[c].over = Nothing
    BY <1>3, Context, RequestFacts DEF EmulatedHand
  <2>2. OpAt(c).do = "insert" => loc[c].seen = None
    BY <1>3, <2>1 DEF EmulatedHand, OpAt
  <2> QED BY <1>2, <1>3, <2>1, <2>2 DEF OpAt, Prev
<1>4. CASE req[c].tx
  <2>1. OpAt(c).do # "insert"
    BY <1>1, <1>4, Context, RequestFacts DEF OpAt
  <2>2. BatchHand(c)
    BY <1>4 DEF EmulatedHand
  <2>3. OpAt(c).must => loc[c].seen # None
    BY <1>2, <2>2 DEF BatchHand, OpAt
  <2>4. loc[c].over # None
    BY Context, NoneAssumption DEF Locals
  <2> QED BY <1>2, <2>1, <2>3, <2>4 DEF Prev
<1> QED BY <1>3, <1>4

LEMMA ApplyReadKeeps ==
    ASSUME DInv, Stays, NEW c \in Clients, holder' = holder, ApplyRead(c)
    PROVE  DInv'
<1> DEFINE out == Out(Prev(c), Prev(c))
           l == [loc[c] EXCEPT !.at = @ + 1, !.outs = Append(@, out), !.tries = 0]
<1>1. EmulatedHand(c) /\ pc[c] = "apply"
  BY Context DEF ApplyRead, Hand, EmulatedSteps
<1>2. CASE loc[c].at = Len(req[c].ops)
  <2>1. Goto(c, "done") /\ loc' = [loc EXCEPT ![c] = Fresh] /\ UNCHANGED row
    BY <1>2 DEF ApplyRead, Done, Past, Finish
  <2>2. Moves(c, "done", Here(c), Fresh)
    BY <2>1, Context, MovesOnly
  <2> QED BY <1>1, <2>2, Context, DoneKeeps DEF Stays, EmulatedHand
<1>3. CASE loc[c].at # Len(req[c].ops)
  <2>1. pc' = pc /\ loc' = [loc EXCEPT ![c] = l] /\ UNCHANGED row
    BY <1>3 DEF ApplyRead, Done, Past
  <2>2. Goto(c, "apply")
    BY <1>1, <2>1, Context DEF Goto, TypeOK
  <2>3. Put(c, Home(c), Here(c), l)
    BY <2>1, <2>2, Context, MovesOnly DEF Moves
  <2>4. out \in OutType /\ loc[c].at + 1 \in 1..MaxOps + 1 /\ req[c].tx
    <3>1. loc[c].at \in 1..Len(req[c].ops) /\ Len(req[c].ops) \in 1..MaxOps /\ MaxOps \in Nat
      BY <1>1, EmulatedFacts, Context
    <3>2. req[c].tx
      BY <1>1, <1>3, Context, RequestFacts DEF EmulatedHand
    <3> QED BY <1>1, <3>1, <3>2, EmulatedFacts, OutFacts
  <2>5. Append(loc[c].outs, out) \in Seq(OutType)
    <3>1. loc[c].outs \in Seq(OutType)
      BY Context DEF Locals
    <3> QED BY <2>4, <3>1, AppendProperties
  <2>6. /\ l \in Locals /\ l.at = loc[c].at + 1 /\ l.read = loc[c].read
        /\ l.seen = loc[c].seen /\ l.own = loc[c].own /\ l.late = loc[c].late
        /\ l.torn = loc[c].torn /\ l.outs = Append(loc[c].outs, out) /\ l.tries = 0
        /\ l.over = loc[c].over /\ l.log = loc[c].log
    <3>1. loc[c] \in Locals
      BY Context
    <3> HIDE DEF out
    <3> QED BY <2>4, <2>5, <3>1 DEF Locals
  <2>7. (IF l.over # Nothing THEN l.over ELSE l.seen) = Prev(c)
    BY <2>6 DEF Prev
  <2> HIDE DEF l, out
  <2>8. ~Misjudged(c) =>
          /\ Atomic(req[c].coll, RowOf(req[c].coll, Prev(c)), OpAt(c), Sent(c, loc[c].at))
               = [row |-> RowOf(req[c].coll, Prev(c)), res |-> "ok", out |-> out]
          /\ Undisturbed(c) => Here(c) = RowOf(req[c].coll, Prev(c))
    <3>1. Atomic(req[c].coll, RowOf(req[c].coll, Prev(c)), OpAt(c), Sent(c, loc[c].at))
            = [row |-> RowOf(req[c].coll, Prev(c)), res |-> "ok", out |-> out]
      BY <1>1, ReadMeans DEF ApplyRead, out
    <3> QED BY <1>1, <2>4, <3>1 DEF EmulatedHand, BatchHand
  <2>9. Here(c) \in Row \cup {None} /\ (Here(c) = None \/ Here(c).path = req[c].coll)
    BY <1>1, Context DEF EmulatedHand
  <2> QED BY <1>1, <1>3, <2>2, <2>3, <2>4, <2>6, <2>7, <2>8, <2>9, BatchGoesOn
<1> QED BY <1>2, <1>3

LEMMA ApplyWriteKeeps ==
    ASSUME DInv, Stays, NEW c \in Clients, holder' = holder, ApplyWrite(c)
    PROVE  DInv'
<1> DEFINE prev == Prev(c)
           put == OpAt(c).do # "delete"
           out == IF put THEN Out(prev, What(c)) ELSE Out(prev, prev)
           l0 == [loc[c] EXCEPT !.log = <<prev>> \o @,
                                !.over = IF put THEN What(c) ELSE @]
           l == [l0 EXCEPT !.at = @ + 1, !.outs = Append(@, out), !.tries = 0]
<1>1. /\ EmulatedHand(c) /\ pc[c] = "apply" /\ ~Conflicts(c) /\ OpAt(c).do # "read"
      /\ OpAt(c).do = "delete" => Prev(c) # None
  BY Context DEF ApplyWrite, Writing, Hand, EmulatedSteps
<1>2. /\ Effect(c) \in Row \cup {None}
      /\ Effect(c) = None \/ Effect(c).path = req[c].coll
  BY <1>1, EmulatedFacts
<1>3. CASE loc[c].at = Len(req[c].ops)
  <2>1. Goto(c, "done") /\ Put(c, Home(c), Effect(c), Fresh)
    BY <1>3 DEF ApplyWrite, Done, Past, Finish
  <2> QED BY <1>1, <1>2, <2>1, EmulatedEnds
<1>4. CASE loc[c].at # Len(req[c].ops)
  <2>1. pc' = pc /\ Put(c, Home(c), Effect(c), l)
    BY <1>4 DEF ApplyWrite, Done, Past
  <2>2. Goto(c, "apply")
    BY <1>1, <2>1, Context DEF Goto, TypeOK
  <2>3. /\ out \in OutType /\ loc[c].at + 1 \in 1..MaxOps + 1 /\ req[c].tx
        /\ prev \in Body \cup {None} /\ What(c) \in Body /\ What(c) # Nothing
    <3>1. loc[c].at \in 1..Len(req[c].ops) /\ Len(req[c].ops) \in 1..MaxOps /\ MaxOps \in Nat
      BY <1>1, EmulatedFacts, Context
    <3>2. req[c].tx
      BY <1>1, <1>4, Context, RequestFacts DEF EmulatedHand
    <3>3. prev \in Body \cup {None} /\ What(c) \in Body /\ What(c) # Nothing
      BY <1>1, EmulatedFacts
    <3>4. out \in OutType
      BY <3>3, OutFacts
    <3> HIDE DEF out, put
    <3> QED BY <3>1, <3>2, <3>3, <3>4
  <2>4. Append(loc[c].outs, out) \in Seq(OutType)
    <3>1. loc[c].outs \in Seq(OutType)
      BY Context DEF Locals
    <3> HIDE DEF out
    <3> QED BY <2>3, <3>1, AppendProperties
  <2>5. <<prev>> \o loc[c].log \in Seq(Body \cup {None})
    <3>1. loc[c].log \in Seq(Body \cup {None}) /\ <<prev>> \in Seq(Body \cup {None})
      BY <2>3, Context DEF Locals
    <3> QED BY <3>1, ConcatProperties
  <2> HIDE DEF prev, out, put
  <2>6. /\ l0 \in Locals /\ l0.at = loc[c].at /\ l0.read = loc[c].read
        /\ l0.seen = loc[c].seen /\ l0.own = loc[c].own /\ l0.late = loc[c].late
        /\ l0.torn = loc[c].torn /\ l0.outs = loc[c].outs
        /\ l0.log = <<prev>> \o loc[c].log
        /\ l0.over = IF put THEN What(c) ELSE loc[c].over
    <3>1. loc[c] \in Locals
      BY Context
    <3>2. l0 \in Locals
      BY <2>3, <2>5, <3>1 DEF Locals
    <3>3. /\ l0.at = loc[c].at /\ l0.read = loc[c].read /\ l0.seen = loc[c].seen
          /\ l0.own = loc[c].own
      BY <3>1 DEF Locals
    <3>4. l0.late = loc[c].late /\ l0.torn = loc[c].torn /\ l0.outs = loc[c].outs
      BY <3>1 DEF Locals
    <3>5. /\ l0.log = <<prev>> \o loc[c].log
          /\ l0.over = IF put THEN What(c) ELSE loc[c].over
      BY <3>1 DEF Locals
    <3> QED BY <3>2, <3>3, <3>4, <3>5
  <2> HIDE DEF l0
  <2>7. /\ l \in Locals /\ l.at = loc[c].at + 1 /\ l.read = loc[c].read
        /\ l.seen = loc[c].seen /\ l.own = loc[c].own /\ l.late = loc[c].late
        /\ l.torn = loc[c].torn /\ l.outs = Append(loc[c].outs, out) /\ l.tries = 0
        /\ l.log = <<prev>> \o loc[c].log
        /\ l.over = IF put THEN What(c) ELSE loc[c].over
    BY <2>3, <2>4, <2>6 DEF Locals
  <2> HIDE DEF l
  <2>8. ~Misjudged(c) =>
          /\ Atomic(req[c].coll, RowOf(req[c].coll, Prev(c)), OpAt(c), Sent(c, loc[c].at))
               = [row |-> RowOf(req[c].coll, IF l.over # Nothing THEN l.over ELSE l.seen),
                  res |-> "ok", out |-> out]
          /\ Effect(c) = RowOf(req[c].coll, IF l.over # Nothing THEN l.over ELSE l.seen)
    <3> SUFFICES ASSUME ~Misjudged(c)
                 PROVE  /\ Atomic(req[c].coll, RowOf(req[c].coll, Prev(c)), OpAt(c), Sent(c, loc[c].at))
                             = [row |-> RowOf(req[c].coll, IF l.over # Nothing THEN l.over ELSE l.seen),
                                res |-> "ok", out |-> out]
                        /\ Effect(c) = RowOf(req[c].coll, IF l.over # Nothing THEN l.over ELSE l.seen)
      OBVIOUS
    <3>1. OpAt(c).do # "delete" /\ put
      BY <1>1, <1>4, MustIsMet DEF put
    <3>2. (IF l.over # Nothing THEN l.over ELSE l.seen) = What(c)
      BY <2>3, <2>7, <3>1
    <3>3. Effect(c) = RowOf(req[c].coll, What(c))
      BY <1>1, <3>1 DEF Effect
    <3>4. out = Out(Prev(c), What(c))
      BY <3>1 DEF out, prev
    <3>5. Atomic(req[c].coll, RowOf(req[c].coll, Prev(c)), OpAt(c), Sent(c, loc[c].at))
            = [row |-> RowOf(req[c].coll, What(c)), res |-> "ok", out |-> out]
      BY <1>1, <2>3, <3>1, <3>4, MustIsMet, WriteMeans
    <3> QED BY <3>2, <3>3, <3>5
  <2>9. l.log = <<Prev(c)>> \o loc[c].log
    BY <2>7 DEF prev
  <2> QED BY <1>1, <1>2, <1>4, <2>1, <2>2, <2>3, <2>7, <2>8, <2>9, BatchGoesOn
<1> QED BY <1>3, <1>4

\* A batch that undoes what it has done.
LEMMA UndoingKeeps ==
    ASSUME DInv, Stays, NEW c \in Clients, EmulatedHand(c), req[c].tx, pc[c] # "gather",
           holder' = holder,
           NEW r \in Row \cup {None}, r = None \/ r.path = req[c].coll,
           NEW l \in Locals, Goto(c, "undo"), Put(c, Home(c), r, l),
           l.at = loc[c].at, l.read = loc[c].read, l.own = loc[c].own,
           l.seen = loc[c].seen, l.tries = loc[c].tries, loc[c].torn => l.torn,
           ~l.late /\ ~l.torn =>
             /\ l.log = <<>> => r = RowOf(req[c].coll, l.seen)
             /\ l.log # <<>> => l.log[Len(l.log)] = l.seen,
           l.res # "ok", ~l.late /\ ~l.torn /\ ~Misjudged(c) => l.res = "error"
    PROVE  DInv'
<1>1. Moves(c, "undo", r, l)
  BY DEF Moves
<1>2. loc'[c] = l /\ pc'[c] = "undo" /\ row'[Home(c)] = r
  BY <1>1, Context, MovesFacts
<1>3. /\ Flat' <=> Flat
      /\ Here(c)' = r
      /\ Misjudged(c)' <=> Misjudged(c)
  BY <1>2, SameRequest DEF Stays
<1>4. Undisturbed(c)' <=> ~l.late /\ ~l.torn
  BY <1>2 DEF Undisturbed
<1>5. RowOf(req[c].coll, loc[c].seen)' = RowOf(req[c].coll, l.seen)
  BY <1>2 DEF RowOf, Stays
<1>6. (Undisturbed(c) => LogHand(c))'
  BY <1>2, <1>3, <1>4, <1>5 DEF LogHand
<1>7. BatchHand(c)'
  <2>1. loc'[c].read
    BY <1>2 DEF EmulatedHand, BatchHand
  <2>2. (/\ loc[c].res # "ok"
         /\ Undisturbed(c) /\ ~Misjudged(c) => loc[c].res = "error")'
    BY <1>2, <1>3, <1>4
  <2> QED BY <1>2, <1>6, <2>1, <2>2 DEF BatchHand
<1>8. EmulatedHand(c)'
  BY <1>2, <1>3, <1>7 DEF EmulatedHand, Stays
<1>9. Hand(c)' /\ "undo" \in Steps
  BY <1>2, <1>8 DEF Hand, PlainSteps, TxSteps, EmulatedSteps, Steps
<1> QED BY <1>1, <1>9, Context, MovesKeep DEF Stays, EmulatedHand

LEMMA FailsKeeps ==
    ASSUME DInv, Stays, NEW c \in Clients, EmulatedHand(c), pc[c] = "apply",
           holder' = holder, NEW res \in {"exists", "error"}, NEW torn \in BOOLEAN,
           NEW r \in Row \cup {None}, r = None \/ r.path = req[c].coll,
           Fails(c, res, r, torn), ~torn => r = Here(c),
           res = "exists" /\ req[c].tx /\ Undisturbed(c) => Misjudged(c)
    PROVE  DInv'
<1>1. CASE ~req[c].tx
  BY <1>1, EmulatedEnds DEF Fails, Finish
<1>2. CASE req[c].tx
  <2> DEFINE l == [loc[c] EXCEPT !.res = res, !.torn = @ \/ torn]
  <2>1. Goto(c, "undo") /\ Put(c, Home(c), r, l)
    BY <1>2 DEF Fails
  <2>2. /\ l \in Locals /\ l.at = loc[c].at /\ l.read = loc[c].read
        /\ l.own = loc[c].own /\ l.seen = loc[c].seen /\ l.tries = loc[c].tries
        /\ l.torn = (loc[c].torn \/ torn) /\ l.log = loc[c].log /\ l.res = res
        /\ l.late = loc[c].late
    BY Context DEF Locals
  <2> HIDE DEF l
  <2>3. ~l.late /\ ~l.torn => LogHand(c) /\ r = Here(c) /\ Undisturbed(c)
    BY <1>2, <2>2 DEF EmulatedHand, BatchHand, Undisturbed
  <2> QED BY <1>2, <2>1, <2>2, <2>3, UndoingKeeps DEF LogHand
<1> QED BY <1>1, <1>2

LEMMA ApplyConflictsKeeps ==
    ASSUME DInv, Stays, NEW c \in Clients, holder' = holder, ApplyConflicts(c)
    PROVE  DInv'
<1>1. EmulatedHand(c) /\ pc[c] = "apply" /\ Conflicts(c)
  BY Context DEF ApplyConflicts, Writing, Hand, EmulatedSteps
<1>2. req[c].tx /\ Undisturbed(c) => Misjudged(c)
  <2>1. req[c].tx /\ Undisturbed(c) /\ ~Misjudged(c) => Here(c) = RowOf(req[c].coll, Prev(c))
    BY <1>1 DEF EmulatedHand, BatchHand
  <2> QED BY <1>1, <2>1 DEF Conflicts, RowOf
<1>3. Here(c) = None \/ Here(c).path = req[c].coll
  BY <1>1, Context DEF EmulatedHand
<1> QED BY <1>1, <1>2, <1>3, Context, FailsKeeps DEF ApplyConflicts

LEMMA RequestFailsKeeps ==
    ASSUME DInv, Stays, NEW c \in Clients, holder' = holder, RequestFails(c)
    PROVE  DInv'
<1>1. EmulatedHand(c) /\ pc[c] = "apply"
  BY Context DEF RequestFails, Writing, Hand, EmulatedSteps
<1>2. PICK done \in BOOLEAN :
        Fails(c, "error", IF done THEN Effect(c) ELSE Here(c), done /\ ~Conflicts(c))
  BY DEF RequestFails
<1> DEFINE r == IF done THEN Effect(c) ELSE Here(c)
           torn == done /\ ~Conflicts(c)
<1>3. r \in Row \cup {None} /\ (r = None \/ r.path = req[c].coll)
  BY <1>1, Context, EmulatedFacts DEF EmulatedHand
<1>4. ~torn => r = Here(c)
  BY DEF Effect, Conflicts
<1>5. torn \in BOOLEAN
  BY DEF Conflicts
<1> HIDE DEF r, torn
<1>6. Fails(c, "error", r, torn)
  BY <1>2 DEF r, torn
<1> QED BY <1>1, <1>3, <1>4, <1>5, <1>6, FailsKeeps

\* The request is carried out and its answer lost.
LEMMA ReplyLostKeeps ==
    ASSUME DInv, Stays, NEW c \in Clients, holder' = holder, ReplyLost(c)
    PROVE  DInv'
<1> DEFINE l == [loc[c] EXCEPT !.tries = 1, !.torn = TRUE]
<1>1. EmulatedHand(c) /\ pc[c] = "apply"
  BY Context DEF ReplyLost, Writing, Hand, EmulatedSteps
<1>2. /\ Effect(c) \in Row \cup {None}
      /\ Effect(c) = None \/ Effect(c).path = req[c].coll
  BY <1>1, EmulatedFacts
<1>3. /\ l \in Locals /\ l.at = loc[c].at /\ l.read = loc[c].read
      /\ l.own = loc[c].own /\ l.seen = loc[c].seen /\ l.torn = TRUE
      /\ l.log = loc[c].log /\ l.over = loc[c].over /\ l.outs = loc[c].outs
  BY Context DEF Locals
<1>4. Moves(c, "apply", Effect(c), l)
  <2>1. Goto(c, "apply")
    BY <1>1, Context DEF ReplyLost, Goto, TypeOK
  <2> QED BY <2>1 DEF Moves, ReplyLost
<1> HIDE DEF l
<1>5. loc'[c] = l /\ pc'[c] = "apply"
  BY <1>4, Context, MovesFacts
<1>6. /\ Flat' <=> Flat
      /\ Misjudged(c)' <=> Misjudged(c)
      /\ Prev(c)' = Prev(c)
      /\ ~Undisturbed(c)'
  BY <1>3, <1>5, SameRequest DEF Stays, Prev, Undisturbed
<1>7. ASSUME req[c].tx PROVE BatchHand(c)'
  <2>1. BatchHand(c)
    BY <1>1, <1>7 DEF EmulatedHand
  <2>2. /\ RowOf(req[c].coll, loc[c].seen)' = RowOf(req[c].coll, loc[c].seen)
        /\ SoFar(RowOf(req[c].coll, Prev(c)), loc[c].outs)'
             = SoFar(RowOf(req[c].coll, Prev(c)), loc[c].outs)
    BY <1>3, <1>5, <1>6 DEF RowOf, SoFar, Stays
  <2>3. After(req[c].coll, RowOf(req[c].coll, loc[c].seen), req[c].ops, c)'
          = After(req[c].coll, RowOf(req[c].coll, loc[c].seen), req[c].ops, c)
    BY <2>2, SameMeaning DEF Stays
  <2>4. (~Misjudged(c) =>
           /\ After(req[c].coll, RowOf(req[c].coll, loc[c].seen), req[c].ops, c)[loc[c].at - 1]
                = SoFar(RowOf(req[c].coll, Prev(c)), loc[c].outs)
           /\ Undisturbed(c) => Here(c) = RowOf(req[c].coll, Prev(c)))'
    BY <1>1, <1>3, <1>5, <1>6, <2>1, <2>2, <2>3 DEF BatchHand
  <2>5. (/\ loc[c].log = <<>> => loc[c].over = Nothing
         /\ req[c].ops[1].must => loc[c].seen # None
         /\ loc[c].read)'
    BY <1>1, <1>3, <1>5, <2>1 DEF BatchHand, Stays
  <2> QED BY <1>5, <1>6, <2>4, <2>5 DEF BatchHand
<1>8. (~req[c].tx =>
         /\ loc[c].at = 1 /\ loc[c].over = Nothing /\ loc[c].outs = <<>>
         /\ IF req[c].ops[1].do = "insert" THEN ~loc[c].read /\ loc[c].seen = None
            ELSE pc[c] = "apply" =>
                   /\ loc[c].read
                   /\ Undisturbed(c) => loc[c].seen = BodyOf(req[c].coll, Here(c)))'
  BY <1>1, <1>3, <1>5, <1>6 DEF EmulatedHand, Stays
<1>9. EmulatedHand(c)'
  BY <1>1, <1>3, <1>5, <1>6, <1>7, <1>8 DEF EmulatedHand, Stays
<1>10. Hand(c)' /\ "apply" \in Steps
  BY <1>5, <1>9 DEF Hand, PlainSteps, TxSteps, EmulatedSteps, Steps
<1> QED BY <1>1, <1>2, <1>3, <1>4, <1>10, Context, MovesKeep DEF Stays, EmulatedHand

\* The rollback takes the last entry of its log: the one before it is next, and
\* the last of all is what the batch gathered.
LEMMA LogShrinks ==
    ASSUME NEW X, NEW s \in Seq(X), s # <<>>
    PROVE  /\ Tail(s) \in Seq(X) /\ Head(s) \in X
           /\ Tail(s) = <<>> => Head(s) = s[Len(s)]
           /\ Tail(s) # <<>> => Tail(s)[Len(Tail(s))] = s[Len(s)]
<1>1. /\ Tail(s) \in Seq(X) /\ Head(s) \in X /\ Len(Tail(s)) = Len(s) - 1
      /\ Head(s) = s[1] /\ \A i \in 1..Len(Tail(s)) : Tail(s)[i] = s[i + 1]
  BY HeadTailProperties
<1>2. Len(s) \in Nat /\ Len(s) # 0 /\ Len(Tail(s)) \in Nat
  BY <1>1, LenProperties, EmptySeq
<1>3. Tail(s) = <<>> <=> Len(Tail(s)) = 0
  BY <1>1, EmptySeq
<1>4. CASE Len(Tail(s)) = 0
  BY <1>1, <1>2, <1>3, <1>4
<1>5. CASE Len(Tail(s)) # 0
  <2>1. Len(Tail(s)) \in 1..Len(Tail(s)) /\ Len(Tail(s)) + 1 = Len(s)
    BY <1>1, <1>2, <1>5
  <2> QED BY <1>1, <1>3, <1>5, <2>1
<1> QED BY <1>4, <1>5

LEMMA UndoKeeps ==
    ASSUME DInv, Stays, NEW c \in Clients, holder' = holder, Undo(c)
    PROVE  DInv'
<1> DEFINE l == [loc[c] EXCEPT !.log = Tail(@)]
           r == RowOf(req[c].coll, Head(loc[c].log))
<1>1. /\ EmulatedHand(c) /\ pc[c] = "undo" /\ loc[c].log # <<>> /\ req[c].tx
      /\ BatchHand(c)
  BY Context DEF Undo, Hand, EmulatedSteps, EmulatedHand
<1>2. loc[c].log \in Seq(Body \cup {None})
  BY Context DEF Locals
<1>3. Tail(loc[c].log) \in Seq(Body \cup {None}) /\ Head(loc[c].log) \in Body \cup {None}
  BY <1>1, <1>2, LogShrinks
<1>4. /\ l \in Locals /\ l.at = loc[c].at /\ l.read = loc[c].read
      /\ l.own = loc[c].own /\ l.seen = loc[c].seen /\ l.tries = loc[c].tries
      /\ l.torn = loc[c].torn /\ l.late = loc[c].late /\ l.res = loc[c].res
      /\ l.log = Tail(loc[c].log)
  BY <1>3, Context DEF Locals
<1>5. r \in Row \cup {None} /\ (r = None \/ r.path = req[c].coll)
  BY <1>3, Context, RowOfType
<1>6. Goto(c, "undo") /\ Put(c, Home(c), r, l)
  BY <1>1, Context DEF Undo, Goto, TypeOK
<1>7. ~l.late /\ ~l.torn =>
        /\ l.log = <<>> => r = RowOf(req[c].coll, l.seen)
        /\ l.log # <<>> => l.log[Len(l.log)] = l.seen
  <2> SUFFICES ASSUME ~l.late, ~l.torn
               PROVE  /\ l.log = <<>> => Head(loc[c].log) = loc[c].seen
                      /\ l.log # <<>> => l.log[Len(l.log)] = loc[c].seen
    BY <1>4
  <2>1. loc[c].log[Len(loc[c].log)] = loc[c].seen
    BY <1>1, <1>4 DEF BatchHand, Undisturbed, LogHand
  <2> HIDE DEF l
  <2> QED BY <1>1, <1>2, <1>4, <2>1, LogShrinks
<1>8. l.res # "ok" /\ (~l.late /\ ~l.torn /\ ~Misjudged(c) => l.res = "error")
  BY <1>1, <1>4 DEF BatchHand, Undisturbed
<1> HIDE DEF l, r
<1> QED BY <1>1, <1>4, <1>5, <1>6, <1>7, <1>8, UndoingKeeps

LEMMA UndoFailsKeeps ==
    ASSUME DInv, Stays, NEW c \in Clients, holder' = holder, UndoFails(c)
    PROVE  DInv'
<1> DEFINE l == [loc[c] EXCEPT !.log = Tail(@), !.torn = TRUE]
<1>1. /\ EmulatedHand(c) /\ pc[c] = "undo" /\ loc[c].log # <<>> /\ req[c].tx
      /\ BatchHand(c)
  BY Context DEF UndoFails, Hand, EmulatedSteps, EmulatedHand
<1>2. Tail(loc[c].log) \in Seq(Body \cup {None})
  <2>1. loc[c].log \in Seq(Body \cup {None})
    BY Context DEF Locals
  <2> QED BY <1>1, <2>1, LogShrinks
<1>3. /\ l \in Locals /\ l.at = loc[c].at /\ l.read = loc[c].read
      /\ l.own = loc[c].own /\ l.seen = loc[c].seen /\ l.tries = loc[c].tries
      /\ l.torn = TRUE /\ l.res = loc[c].res
  BY <1>2, Context DEF Locals
<1>4. Goto(c, "undo") /\ UNCHANGED row
  BY <1>1, Context DEF UndoFails, Goto, TypeOK
<1>5. loc' = [loc EXCEPT ![c] = l]
  <2>1. loc' = [loc EXCEPT ![c].log = Tail(@), ![c].torn = TRUE]
    BY DEF UndoFails
  <2> QED BY <2>1, Context DEF TypeOK
<1> HIDE DEF l
<1>6. Put(c, Home(c), Here(c), l)
  BY <1>4, <1>5, Context, MovesOnly DEF Moves
<1>7. l.res # "ok"
  BY <1>1, <1>3 DEF BatchHand
<1>8. Here(c) \in Row \cup {None} /\ (Here(c) = None \/ Here(c).path = req[c].coll)
  BY <1>1, Context DEF EmulatedHand
<1> QED BY <1>1, <1>3, <1>4, <1>6, <1>7, <1>8, UndoingKeeps

LEMMA UndoEndsKeeps ==
    ASSUME DInv, Stays, NEW c \in Clients, holder' = holder, UndoEnds(c)
    PROVE  DInv'
  BY AnswerKeeps DEF UndoEnds

-----------------------------------------------------------------------------
(* The invariant *)

\* A client takes one of these steps, by the engine's driver.
SqlStep(c) ==
    \/ GetFirst(c) \/ Update(c) \/ Insert(c) \/ Upsert(c) \/ DeleteRow(c)
TxStep(c) ==
    TxRead(c) \/ TxWrite(c) \/ TxInsert(c) \/ TxDelete(c) \/ Commit(c)
EmulatedStep(c) ==
    \/ Gather(c) \/ ApplyRead(c) \/ ApplyWrite(c) \/ ApplyConflicts(c)
    \/ Undo(c) \/ UndoEnds(c) \/ ReplyLost(c) \/ RequestFails(c) \/ UndoFails(c)

LEMMA StepsAre ==
    ASSUME NEW c \in Clients, Step(c), faults \in Nat
    PROVE  /\ driver' = driver /\ req' = req /\ faults' \in Nat /\ pc[c] # "done"
           /\ \/ SqlStep(c) /\ holder' = holder
              \/ TxStep(c)
              \/ StatementFails(c)
              \/ EmulatedStep(c) /\ holder' = holder
<1>1. driver' = driver /\ req' = req /\ pc[c] # "done"
  BY DEF Step
<1>2. CASE UNCHANGED faults /\ (Sqlite(c) \/ Postgres(c) \/ Mysql(c) \/ StatementFails(c))
  <2>1. faults' \in Nat
    BY <1>2
  <2>2. CASE Sqlite(c)
    BY <1>1, <2>1, <2>2 DEF Sqlite, SqliteInsert, SqliteSet, SqliteDelete, SqliteTx,
        SqliteTxPut, SqliteTxDelete, Locked, SqlStep, TxStep
  <2>3. CASE Postgres(c)
    BY <1>1, <2>1, <2>3 DEF Postgres, PgInsert, PgSet, PgDelete, PgTx,
        PgTxPut, PgTxDelete, Locked, SqlStep, TxStep
  <2>4. CASE Mysql(c)
    BY <1>1, <2>1, <2>4 DEF Mysql, MysqlInsert, MysqlSet, MysqlDelete, MysqlTx,
        MysqlTxPut, MysqlTxDelete, Locked, SqlStep, TxStep
  <2> QED BY <1>1, <1>2, <2>1, <2>2, <2>3, <2>4
<1>3. CASE Rethink(c)
  <2>1. EmulatedStep(c) /\ holder' = holder
    BY <1>3 DEF Rethink, EmulatedStep
  <2>2. UNCHANGED faults \/ Breaks
    BY <1>3 DEF Rethink, ReplyLost, RequestFails, UndoFails
  <2>3. faults' \in Nat
    BY <2>2 DEF Breaks
  <2> QED BY <1>1, <2>1, <2>3
<1> QED BY <1>2, <1>3 DEF Step

\* A request is answered once, in the step that ends it.
LEMMA AnswersAre ==
    ASSUME NEW c \in Clients,
           SqlStep(c) \/ TxStep(c) \/ StatementFails(c) \/ EmulatedStep(c)
    PROVE  \/ UNCHANGED ans
           \/ \E res, outs : Finish(c, res, outs)
<1>0. ASSUME NEW r, NEW outs, Commits(c, r, outs)
      PROVE  \E e, o : Finish(c, e, o)
  BY <1>0 DEF Commits
<1>1. CASE SqlStep(c)
  BY <1>0, <1>1 DEF SqlStep, GetFirst, Update, Insert, Upsert, DeleteRow, Answer
<1>2. CASE TxStep(c)
  <2>1. CASE TxRead(c)
    BY <2>1 DEF TxRead, Abort, Answer
  <2>2. CASE TxWrite(c)
    BY <2>2 DEF TxWrite, Abort, Answer, Writes
  <2>3. CASE TxInsert(c)
    BY <2>3 DEF TxInsert, Abort, Answer, Writes
  <2>4. CASE TxDelete(c)
    BY <2>4 DEF TxDelete, Abort, Answer, Writes, NextOp
  <2>5. CASE Commit(c)
    BY <1>0, <2>5 DEF Commit
  <2> QED BY <1>2, <2>1, <2>2, <2>3, <2>4, <2>5 DEF TxStep
<1>3. CASE StatementFails(c)
  BY <1>3 DEF StatementFails, Abort, Answer
<1>4. CASE EmulatedStep(c)
  <2>1. CASE Gather(c) \/ ApplyRead(c) \/ ApplyWrite(c)
    BY <2>1 DEF Gather, ApplyRead, ApplyWrite, Done, Answer
  <2>2. CASE ApplyConflicts(c) \/ RequestFails(c)
    BY <2>2 DEF ApplyConflicts, RequestFails, Fails
  <2>3. CASE Undo(c) \/ UndoEnds(c) \/ ReplyLost(c) \/ UndoFails(c)
    BY <2>3 DEF Undo, UndoEnds, ReplyLost, UndoFails, Answer
  <2> QED BY <1>4, <2>1, <2>2, <2>3 DEF EmulatedStep
<1> QED BY <1>1, <1>2, <1>3, <1>4

LEMMA StepStays ==
    ASSUME TypeOK, NEW c \in Clients, Step(c)
    PROVE  Stays
<1>1. faults \in Nat /\ DOMAIN ans = Clients
  BY DEF TypeOK
<1>2. SqlStep(c) \/ TxStep(c) \/ StatementFails(c) \/ EmulatedStep(c)
  BY <1>1, StepsAre
<1>3. DOMAIN ans' = Clients
  BY <1>1, <1>2, AnswersAre DEF Finish
<1> QED BY <1>1, <1>3, StepsAre DEF Stays

LEMMA StepKeeps ==
    ASSUME DInv, NEW c \in Clients, Step(c)
    PROVE  DInv'
<1>1. TypeOK /\ faults \in Nat
  BY DEF DInv, TypeOK
<1>2. Stays
  BY <1>1, StepStays
<1>3. CASE SqlStep(c) /\ holder' = holder
  BY <1>2, <1>3, GetFirstKeeps, UpdateKeeps, PlainEndKeeps DEF SqlStep
<1>4. CASE TxStep(c)
  BY <1>2, <1>4, TxReadKeeps, TxWriteKeeps, TxInsertKeeps, TxDeleteKeeps, CommitKeeps
     DEF TxStep
<1>5. CASE StatementFails(c)
  BY <1>2, <1>5, StatementFailsKeeps
<1>6. CASE EmulatedStep(c) /\ holder' = holder
  BY <1>2, <1>6, GatherKeeps, ApplyReadKeeps, ApplyWriteKeeps, ApplyConflictsKeeps,
     RequestFailsKeeps, ReplyLostKeeps, UndoKeeps, UndoFailsKeeps, UndoEndsKeeps
     DEF EmulatedStep
<1> QED BY <1>1, <1>3, <1>4, <1>5, <1>6, StepsAre

LEMMA StutterKeeps ==
    ASSUME DInv, UNCHANGED vars
    PROVE  DInv'
<1>1. /\ driver' = driver /\ req' = req /\ loc' = loc /\ pc' = pc /\ row' = row
      /\ holder' = holder /\ ans' = ans /\ faults' = faults
  BY DEF vars
<1>2. TypeOK'
  BY <1>1 DEF DInv, TypeOK
<1>3. Tables'
  BY <1>1 DEF DInv, Tables, Flat
<1>4. ASSUME NEW d \in Clients PROVE Hand(d)'
  <2>1. TypeOK /\ Hand(d)
    BY DEF DInv
  <2>2. row'[Home(d)] = Here(d)
    BY <1>1 DEF Here
  <2>3. Beside(d)
    BY <1>1, <2>2 DEF Beside
  <2> QED BY <1>1, <2>1, <2>3, OthersKeep
<1> QED BY <1>2, <1>3, <1>4 DEF DInv

LEMMA InitKeeps == Init => DInv
<1> SUFFICES ASSUME Init PROVE DInv
  OBVIOUS
<1>1. ASSUME NEW c \in Clients
      PROVE  /\ req[c] \in Request /\ pc[c] = FirstStep(req[c])
             /\ loc[c] = [Fresh EXCEPT !.new = Sent(c, 1)]
  BY DEF Init
<1>2. ASSUME NEW c \in Clients
      PROVE  /\ loc[c] \in Locals /\ loc[c].at = 1 /\ loc[c].read = FALSE
             /\ loc[c].snap = None /\ loc[c].seen = None /\ loc[c].new = Sent(c, 1)
             /\ loc[c].own = Nothing /\ loc[c].outs = <<>> /\ loc[c].over = Nothing
             /\ loc[c].log = <<>> /\ loc[c].late = FALSE /\ loc[c].torn = FALSE
             /\ loc[c].tries = 0
  <2>1. Sent(c, 1) \in Body
    BY SentType, MaxOpsAssumption
  <2>2. [Fresh EXCEPT !.new = Sent(c, 1)] \in Locals
    BY <2>1, FreshType DEF Locals
  <2> DEFINE l == [Fresh EXCEPT !.new = Sent(c, 1)]
  <2>3. l.at = 1 /\ l.read = FALSE /\ l.snap = None /\ l.seen = None
    BY DEF Fresh
  <2>4. l.new = Sent(c, 1)
    BY DEF Fresh
  <2>5. l.own = Nothing /\ l.outs = <<>> /\ l.over = Nothing /\ l.log = <<>>
    BY DEF Fresh
  <2>6. l.late = FALSE /\ l.torn = FALSE /\ l.tries = 0
    BY DEF Fresh
  <2>7. loc[c] = l
    BY <1>1
  <2> HIDE DEF l
  <2> QED BY <2>2, <2>3, <2>4, <2>5, <2>6, <2>7 DEF l
<1>3. ASSUME NEW c \in Clients
      PROVE  /\ ~Flat => /\ pc[c] = IF req[c].ops[1].do = "insert" THEN "apply" ELSE "gather"
             /\ Flat /\ req[c].tx => pc[c] = "txget"
             /\ Flat /\ ~req[c].tx =>
                  pc[c] = IF driver # "postgres" /\ req[c].ops[1].do \in {"merge", "delete"}
                            THEN "get"
                          ELSE CASE req[c].ops[1].do = "insert" -> "insert"
                                 [] req[c].ops[1].do = "merge" -> "update"
                                 [] req[c].ops[1].do = "replace" -> "upsert"
                                 [] OTHER -> "delete"
  BY <1>1 DEF FirstStep
<1>4. ASSUME NEW c \in Clients
      PROVE  /\ Len(req[c].ops) \in 1..MaxOps /\ MaxOps \in Nat
             /\ ~req[c].tx => req[c].ops[1].do \in {"insert", "merge", "replace", "delete"}
             /\ req[c].tx => req[c].ops[1].do # "insert"
  <2>1. Len(req[c].ops) \in 1..MaxOps /\ MaxOps \in Nat
    BY <1>1, RequestFacts, MaxOpsAssumption
  <2>2. 1 \in 1..Len(req[c].ops)
    BY <2>1
  <2> QED BY <1>1, <2>1, <2>2, RequestFacts
<1>5. TypeOK
  <2>1. row \in [Colls -> Row \cup {None}]
    <3>1. [f \in Clients |-> Old] \in Body
      BY MaxOpsAssumption DEF Old, Body
    <3>2. \A k \in Colls : Stored(k) \subseteq Row \cup {None}
      BY <3>1 DEF Stored, RowOf, Row
    <3> QED BY <3>2 DEF Init
  <2>2. ASSUME NEW c \in Clients PROVE pc[c] \in Steps
    BY <1>3, <1>4 DEF Steps, PlainSteps, TxSteps, EmulatedSteps
  <2>3. pc \in [Clients -> Steps]
    BY <2>2 DEF Init
  <2>4. loc \in [Clients -> Locals]
    BY <1>2 DEF Init
  <2> QED BY <2>1, <2>3, <2>4 DEF Init, TypeOK
<1>6. Tables
  BY DEF Init, Tables
<1>7. ASSUME NEW c \in Clients PROVE Hand(c)
  <2>0. loc[c].at = 1 /\ 1 <= Len(req[c].ops) /\ 1 <= Len(req[c].ops) + 1
    <3>1. Len(req[c].ops) \in 1..MaxOps /\ MaxOps \in Nat
      BY <1>4
    <3>2. 1 <= Len(req[c].ops) /\ 1 <= Len(req[c].ops) + 1
      BY <3>1
    <3>3. loc[c].at = 1
      BY <1>2, Zenon
    <3> QED BY <3>2, <3>3
  <2>1. CASE Flat /\ ~req[c].tx
    <3>1. pc[c] \in PlainSteps
      BY <1>3, <1>4, <2>1 DEF PlainSteps
    <3>2. PlainHand(c)
      BY <1>2, <1>3, <1>4, <2>1 DEF PlainHand
    <3> QED BY <3>1, <3>2 DEF Hand, PlainSteps, TxSteps, EmulatedSteps
  <2>2. CASE Flat /\ req[c].tx
    <3>1. pc[c] = "txget"
      BY <1>3, <2>2
    <3>2. TxHand(c)
      BY <1>2, <2>0, <2>2, <3>1 DEF TxHand, OwnHand
    <3> QED BY <3>1, <3>2 DEF Hand, PlainSteps, TxSteps, EmulatedSteps
  <2>3. CASE ~Flat
    <3>1. pc[c] = IF req[c].ops[1].do = "insert" THEN "apply" ELSE "gather"
      BY <1>3, <2>3
    <3>2. EmulatedHand(c)
      <4>1. req[c].tx => pc[c] = "gather"
        BY <1>4, <3>1
      <4>2. loc[c] = [Fresh EXCEPT !.new = Sent(c, 1)]
        BY <1>1
      <4>3. ~req[c].tx =>
              /\ loc[c].at = 1 /\ loc[c].over = Nothing /\ loc[c].outs = <<>>
              /\ IF req[c].ops[1].do = "insert" THEN ~loc[c].read /\ loc[c].seen = None
                 ELSE pc[c] = "apply" =>
                        /\ loc[c].read
                        /\ Undisturbed(c) => loc[c].seen = BodyOf(req[c].coll, Here(c))
        BY <1>2, <3>1
      <4>4. loc[c].own = Nothing /\ loc[c].tries = 0
        BY <1>2, Zenon
      <4>5. /\ pc[c] = "undo" => req[c].tx
            /\ pc[c] = "gather" => req[c].ops[1].do # "insert"
        BY <3>1
      <4> QED BY <2>0, <2>3, <4>1, <4>2, <4>3, <4>4, <4>5 DEF EmulatedHand
    <3> QED BY <3>1, <3>2 DEF Hand, PlainSteps, TxSteps, EmulatedSteps
  <2> QED BY <2>1, <2>2, <2>3
<1> QED BY <1>5, <1>6, <1>7 DEF DInv

LEMMA NextKeeps == DInv /\ [Next]_vars => DInv'
  BY StepKeeps, StutterKeeps DEF Next, Finished

\* What a client has in hand is right at all times, in each of the four drivers.
THEOREM TypeCorrect == Spec => [](TypeOK /\ DInv)
<1>1. DInv => TypeOK
  BY DEF DInv
<1> QED BY <1>1, InitKeeps, NextKeeps, PTL DEF Spec

-----------------------------------------------------------------------------
(* One id in several collections *)

LEMMA PutFacts ==
    ASSUME TypeOK, NEW c \in Clients, NEW r, NEW l, Put(c, Home(c), r, l)
    PROVE  /\ loc'[c] = l /\ row'[Home(c)] = r
           /\ \A h \in Colls \ {Home(c)} : row'[h] = row[h]
  BY HomeFacts DEF TypeOK, Put

LEMMA CommitsFacts ==
    ASSUME TypeOK, NEW c \in Clients, NEW r, NEW outs, Commits(c, r, outs)
    PROVE  /\ pc'[c] = "done" /\ row'[Home(c)] = r
           /\ \A h \in Colls \ {Home(c)} : row'[h] = row[h]
           /\ ans'[c] = [res |-> "ok", outs |-> outs] \/ ans'[c].res = "error"
<1>1. row'[Home(c)] = r /\ \A h \in Colls \ {Home(c)} : row'[h] = row[h]
  BY PutFacts DEF Commits
<1>2. ASSUME NEW e, NEW o, Finish(c, e, o)
      PROVE  pc'[c] = "done" /\ ans'[c] = [res |-> e, outs |-> o] /\ ans'[c].res = e
  BY <1>2 DEF TypeOK, Finish, Goto
<1> QED BY <1>1, <1>2 DEF Commits

\* A step that changes a row changes the one its client's request is about,
\* and takes the client on.
LEMMA StepsRewrite ==
    ASSUME DInv, NEW c \in Clients, Step(c)
    PROVE  \/ row' = row
           \/ /\ pc'[c] # pc[c] \/ loc'[c] # loc[c]
              /\ \A h \in Colls \ {Home(c)} : row'[h] = row[h]
<1>1. TypeOK /\ faults \in Nat /\ pc[c] # "done"
  BY DEF DInv, TypeOK, Step
<1>2. CASE SqlStep(c)
  <2>1. CASE GetFirst(c)
    BY <2>1 DEF GetFirst, Answer
  <2>2. CASE Update(c)
    BY <1>1, <2>2, CommitsFacts DEF Update
  <2>3. CASE Insert(c)
    BY <1>1, <2>3, CommitsFacts DEF Insert, Answer
  <2>4. CASE Upsert(c)
    BY <1>1, <2>4, CommitsFacts DEF Upsert
  <2>5. CASE DeleteRow(c)
    BY <1>1, <2>5, CommitsFacts DEF DeleteRow
  <2> QED BY <1>2, <2>1, <2>2, <2>3, <2>4, <2>5 DEF SqlStep
<1>3. CASE TxStep(c)
  <2>1. CASE TxRead(c)
    BY <2>1 DEF TxRead, Abort, Answer
  <2>2. CASE TxWrite(c) \/ TxInsert(c) \/ TxDelete(c)
    BY <2>2 DEF TxWrite, TxInsert, TxDelete, Abort, Answer, Writes, NextOp
  <2>3. CASE Commit(c)
    BY <1>1, <2>3, CommitsFacts DEF Commit
  <2> QED BY <1>3, <2>1, <2>2, <2>3 DEF TxStep
<1>4. CASE StatementFails(c)
  BY <1>4 DEF StatementFails, Abort, Answer
<1>5. CASE EmulatedStep(c)
  <2>1. loc[c] \in Locals /\ Hand(c) /\ Fresh.at = 1
    BY Context DEF Fresh
  <2>2. CASE Gather(c) \/ ApplyRead(c) \/ UndoEnds(c) \/ UndoFails(c)
    BY <2>2 DEF Gather, ApplyRead, UndoEnds, UndoFails, Answer
  <2>3. CASE ApplyWrite(c)
    <3>1. CASE loc[c].at = Len(req[c].ops)
      <4>1. pc'[c] = "done"
        BY <1>1, <2>3, <3>1 DEF ApplyWrite, Done, Finish, Goto, TypeOK
      <4> QED BY <1>1, <2>3, <4>1, PutFacts DEF ApplyWrite
    <3>2. CASE loc[c].at # Len(req[c].ops)
      <4> DEFINE l0 == [loc[c] EXCEPT !.log = <<Prev(c)>> \o @,
                                      !.over = IF OpAt(c).do # "delete" THEN What(c) ELSE @]
                 out == IF OpAt(c).do # "delete" THEN Out(Prev(c), What(c))
                        ELSE Out(Prev(c), Prev(c))
      <4>1. Put(c, Home(c), Effect(c), Past(c, l0, out))
        BY <2>3 DEF ApplyWrite
      <4>2. l0.at = loc[c].at /\ DOMAIN l0 = DOMAIN loc[c] /\ "at" \in DOMAIN l0
        BY <2>1 DEF Locals
      <4> HIDE DEF l0, out
      <4>3. Past(c, l0, out).at = loc[c].at + 1
        BY <3>2, <4>2 DEF Past
      <4>4. loc[c].at \in Nat
        BY <2>1, Context DEF Locals
      <4>5. loc'[c].at # loc[c].at
        BY <1>1, <4>1, <4>3, <4>4, PutFacts
      <4> QED BY <1>1, <4>1, <4>5, PutFacts
    <3> QED BY <3>1, <3>2
  <2>4. ASSUME NEW res, NEW r, NEW torn, Fails(c, res, r, torn), pc[c] = "apply"
        PROVE  pc'[c] # pc[c] /\ \A h \in Colls \ {Home(c)} : row'[h] = row[h]
    BY <1>1, <2>4, PutFacts DEF Fails, Finish, Goto, TypeOK
  <2>5. CASE ApplyConflicts(c) \/ RequestFails(c)
    BY <2>4, <2>5 DEF ApplyConflicts, RequestFails, Writing
  <2>6. CASE ReplyLost(c)
    <3>1. [loc[c] EXCEPT !.tries = 1, !.torn = TRUE].tries = 1 /\ loc[c].tries = 0
      BY <2>1, <2>6 DEF ReplyLost, Locals
    <3> DEFINE l == [loc[c] EXCEPT !.tries = 1, !.torn = TRUE]
    <3>2. Put(c, Home(c), Effect(c), l)
      BY <2>6 DEF ReplyLost
    <3>3. l # loc[c]
      <4>1. l.tries # loc[c].tries
        BY <3>1
      <4> QED BY <4>1, Zenon
    <3> HIDE DEF l
    <3> QED BY <1>1, <3>2, <3>3, PutFacts
  <2>7. CASE Undo(c)
    <3>1. loc[c].log \in Seq(Body \cup {None}) /\ loc[c].log # <<>>
      BY <2>1, <2>7 DEF Undo, Locals
    <3>2. Tail(loc[c].log) # loc[c].log
      <4>1. Len(Tail(loc[c].log)) = Len(loc[c].log) - 1 /\ Len(loc[c].log) \in Nat
        BY <3>1, HeadTailProperties, LenProperties
      <4>2. Len(Tail(loc[c].log)) # Len(loc[c].log)
        BY <4>1
      <4> QED BY <4>2, Zenon
    <3>3. [loc[c] EXCEPT !.log = Tail(@)].log = Tail(loc[c].log)
      BY <2>1 DEF Locals
    <3>4. PICK r : Put(c, Home(c), r, [loc[c] EXCEPT !.log = Tail(@)])
      BY <2>7 DEF Undo
    <3>5. /\ loc'[c] = [loc[c] EXCEPT !.log = Tail(@)]
          /\ \A h \in Colls \ {Home(c)} : row'[h] = row[h]
      BY <1>1, <3>4, PutFacts
    <3>6. loc'[c] # loc[c]
      BY <3>2, <3>3, <3>5, Zenon
    <3> QED BY <3>5, <3>6, Zenon
  <2> QED BY <1>5, <2>2, <2>3, <2>5, <2>6, <2>7 DEF EmulatedStep
<1> QED BY <1>1, <1>2, <1>3, <1>4, <1>5, StepsAre

\* In the flat table, a step shows the other collections nothing new, and what it
\* showed them before unless its request replaces.
LEMMA OthersUntouched ==
    ASSUME DInv, NEW c \in Clients, Step(c), Flat
    PROVE  Spares(c, row'[Home(c)], Here(c))
<1> SUFFICES ASSUME req[c].coll # Top, NEW k \in Colls, k # Top, k # req[c].coll
             PROVE  /\ BodyOf(k, row'[Home(c)]) \in {None, BodyOf(k, Here(c))}
                    /\ KeepsToItself(c) => BodyOf(k, row'[Home(c)]) = BodyOf(k, Here(c))
  BY DEF Spares, KeepsToItself
<1> DEFINE kc == req[c].coll
<1>1. /\ TypeOK /\ faults \in Nat /\ Hand(c) /\ kc \in Colls
      /\ Here(c) \in Row \cup {None} /\ loc[c].new \in Body
  BY Context DEF TypeOK, Locals
<1>2. row' = row => row'[Home(c)] = Here(c)
  BY DEF Here
<1>3. Sees(kc, Here(c)) => Here(c) \in Row /\ Here(c).path = kc
  BY <1>1 DEF Sees
<1>4. ASSUME NEW r \in Row \cup {None}, NEW outs, Commits(c, r, outs),
             r = None \/ r.path = kc, Here(c) = None \/ Here(c).path = kc
      PROVE  BodyOf(k, row'[Home(c)]) = BodyOf(k, Here(c))
  <2>1. row'[Home(c)] = r
    BY <1>1, <1>4, CommitsFacts
  <2>2. BodyOf(k, r) = None /\ BodyOf(k, Here(c)) = None
    BY <1>1, <1>4, OthersSeeNothing
  <2> QED BY <2>1, <2>2
<1>5. ASSUME NEW b \in Body
      PROVE  RowOf(kc, b) \in Row \cup {None} /\ RowOf(kc, b).path = kc
  BY <1>1, RowOfType, NoneAssumption
<1>6. CASE SqlStep(c)
  <2>1. CASE GetFirst(c)
    BY <1>2, <2>1 DEF GetFirst, Answer
  <2>2. CASE Update(c)
    <3>1. CASE Sees(kc, Here(c))
      <4>1. Commits(c, Updated(kc, Here(c), loc[c].new), <<Out(loc[c].new, loc[c].new)>>)
        BY <2>2, <3>1 DEF Update
      <4>2. /\ Updated(kc, Here(c), loc[c].new) \in Row
            /\ Updated(kc, Here(c), loc[c].new).path = kc
        BY <1>1, <1>3, <3>1, UpdatedType
      <4> QED BY <1>3, <1>4, <3>1, <4>1, <4>2
    <3>2. CASE ~Sees(kc, Here(c))
      BY <1>2, <2>2, <3>2 DEF Update
    <3> QED BY <3>1, <3>2
  <2>3. CASE Insert(c)
    BY <1>1, <1>2, <1>4, <1>5, <2>3 DEF Insert, Answer
  <2>4. CASE Upsert(c)
    <3>1. req[c].ops[1].do = "replace"
      BY <1>1, <2>4 DEF Upsert, Hand, PlainSteps, PlainHand
    <3>2. 1 \in 1..Len(req[c].ops)
      <4>1. Len(req[c].ops) \in 1..MaxOps /\ MaxOps \in Nat
        BY Context
      <4> QED BY <4>1
    <3>3. ~KeepsToItself(c)
      BY <3>1, <3>2 DEF KeepsToItself
    <3>4. row'[Home(c)] = RowOf(kc, loc[c].new)
      BY <1>1, <2>4, CommitsFacts DEF Upsert
    <3>5. BodyOf(k, row'[Home(c)]) = None
      BY <1>1, <1>5, <3>4, OthersSeeNothing
    <3> QED BY <3>3, <3>5
  <2>5. CASE DeleteRow(c)
    <3> DEFINE r == IF Sees(kc, Here(c)) THEN None ELSE Here(c)
    <3>1. \E outs : Commits(c, r, outs)
      BY <2>5 DEF DeleteRow
    <3>2. CASE Sees(kc, Here(c))
      BY <1>3, <1>4, <3>1, <3>2
    <3>3. CASE ~Sees(kc, Here(c))
      BY <1>1, <3>1, <3>3, CommitsFacts
    <3> QED BY <3>2, <3>3
  <2> QED BY <1>6, <2>1, <2>2, <2>3, <2>4, <2>5 DEF SqlStep
<1>7. CASE TxStep(c)
  <2>1. CASE TxRead(c)
    BY <1>2, <2>1 DEF TxRead, Abort, Answer
  <2>2. CASE TxWrite(c) \/ TxInsert(c) \/ TxDelete(c)
    BY <1>2, <2>2 DEF TxWrite, TxInsert, TxDelete, Abort, Answer, Writes, NextOp
  <2>3. CASE Commit(c)
    <3>1. row'[Home(c)] = Cur(c)
      BY <1>1, <2>3, CommitsFacts DEF Commit
    <3>2. OwnHand(c)
      BY <1>1, <2>3 DEF Commit, Hand, TxSteps, TxHand
    <3>3. CASE loc[c].own = Nothing
      BY <3>1, <3>3 DEF Cur
    <3>4. CASE loc[c].own # Nothing
      BY <3>1, <3>2, <3>4 DEF Cur, OwnHand, Spares
    <3> QED BY <3>3, <3>4
  <2> QED BY <1>7, <2>1, <2>2, <2>3 DEF TxStep
<1>8. CASE StatementFails(c)
  BY <1>2, <1>8 DEF StatementFails, Abort, Answer
<1>9. ~EmulatedStep(c)
  BY <1>1 DEF EmulatedStep, Gather, ApplyRead, ApplyWrite, ApplyConflicts, Undo,
     UndoEnds, ReplyLost, RequestFails, UndoFails, Writing, Hand, EmulatedSteps,
     EmulatedHand
<1> QED BY <1>1, <1>6, <1>7, <1>8, <1>9, StepsAre

\* What another collection holds under the id is changed by nobody, but through the
\* top-level collection with the table's name; and it is gone only after a full replace.
THEOREM CollectionsDoNotMix == Spec => CollectionsKeepApart
<1> DEFINE before(k) == BodyOf(k, row[Slot(k)])
           after(k) == BodyOf(k, row'[Slot(k)])
           Apart ==
             \A k \in Colls :
               after(k) # before(k)
               => \E c \in Clients :
                    /\ pc'[c] # pc[c] \/ loc'[c] # loc[c]
                    /\ \/ req[c].coll = k
                       \/ Flat /\ Top \in {k, req[c].coll}
                       \/ /\ Flat /\ after(k) = None
                          /\ \E n \in 1..Len(req[c].ops) : req[c].ops[n].do = "replace"
<1>1. DInv /\ [Next]_vars => Apart
  <2> SUFFICES ASSUME DInv, [Next]_vars, NEW k \in Colls, after(k) # before(k)
               PROVE  \E c \in Clients :
                        /\ pc'[c] # pc[c] \/ loc'[c] # loc[c]
                        /\ \/ req[c].coll = k
                           \/ Flat /\ Top \in {k, req[c].coll}
                           \/ Flat /\ after(k) = None /\ ~KeepsToItself(c)
    BY Zenon DEF KeepsToItself
  <2>1. row' # row
    OBVIOUS
  <2>2. PICK c \in Clients : Step(c)
    BY <2>1 DEF Next, Finished, vars
  <2>3. Slot(k) \in Colls
    BY DEF Slot, Colls
  <2>4. /\ pc'[c] # pc[c] \/ loc'[c] # loc[c]
        /\ Slot(k) = Home(c)
    BY <2>1, <2>2, <2>3, StepsRewrite
  <2>5. CASE ~Flat
    BY <2>4, <2>5 DEF Home, Slot
  <2>6. CASE Flat /\ k # req[c].coll /\ Top \notin {k, req[c].coll}
    <3>1. Spares(c, row'[Slot(k)], row[Slot(k)])
      BY <2>2, <2>4, <2>6, OthersUntouched DEF Here
    <3>2. after(k) = None /\ ~KeepsToItself(c)
      BY <2>6, <3>1 DEF Spares
    <3> QED BY <2>4, <2>6, <3>2
  <2> QED BY <2>4, <2>5, <2>6
<1>2. Spec => [][Apart]_vars
  BY <1>1, InitKeeps, NextKeeps, PTL DEF Spec
<1> QED BY <1>2 DEF CollectionsKeepApart

-----------------------------------------------------------------------------
(* The ends of requests *)

LEMMA AnswerFacts ==
    ASSUME TypeOK, NEW c \in Clients, NEW res, NEW outs, Answer(c, res, outs)
    PROVE  /\ pc'[c] = "done" /\ row' = row /\ row'[Home(c)] = Here(c)
           /\ ans'[c] = [res |-> res, outs |-> outs]
  BY DEF TypeOK, Answer, Finish, Goto, Here

LEMMA FinishFacts ==
    ASSUME TypeOK, NEW c \in Clients, NEW res, NEW outs, Finish(c, res, outs)
    PROVE  /\ pc'[c] = "done"
           /\ ans'[c] = [res |-> res, outs |-> outs] /\ ans'[c].res = res
  BY DEF TypeOK, Finish, Goto

\* A step moves the client it is a step of, and no other.
LEMMA OneMoves ==
    ASSUME NEW c \in Clients,
           SqlStep(c) \/ TxStep(c) \/ StatementFails(c) \/ EmulatedStep(c)
    PROVE  UNCHANGED pc \/ \E p : Goto(c, p)
<1>1. CASE SqlStep(c)
  BY <1>1 DEF SqlStep, GetFirst, Update, Insert, Upsert, DeleteRow, Answer, Commits, Finish
<1>2. CASE TxStep(c)
  <2>1. CASE TxRead(c)
    BY <2>1 DEF TxRead, Abort, Answer, Finish
  <2>2. CASE TxWrite(c)
    BY <2>2 DEF TxWrite, Abort, Answer, Writes, Finish
  <2>3. CASE TxInsert(c)
    BY <2>3 DEF TxInsert, Abort, Answer, Writes, Finish
  <2>4. CASE TxDelete(c)
    BY <2>4 DEF TxDelete, Abort, Answer, Writes, NextOp, Finish
  <2>5. CASE Commit(c)
    BY <2>5 DEF Commit, Commits, Finish
  <2> QED BY <1>2, <2>1, <2>2, <2>3, <2>4, <2>5 DEF TxStep
<1>3. CASE StatementFails(c)
  BY <1>3 DEF StatementFails, Abort, Answer, Finish
<1>4. CASE EmulatedStep(c)
  <2>1. CASE Gather(c) \/ ApplyRead(c) \/ ApplyWrite(c)
    BY <2>1 DEF Gather, ApplyRead, ApplyWrite, Done, Answer, Finish
  <2>2. CASE ApplyConflicts(c) \/ RequestFails(c)
    BY <2>2 DEF ApplyConflicts, RequestFails, Fails, Finish
  <2>3. CASE Undo(c) \/ UndoEnds(c) \/ ReplyLost(c) \/ UndoFails(c)
    BY <2>3 DEF Undo, UndoEnds, ReplyLost, UndoFails, Answer, Finish
  <2> QED BY <1>4, <2>1, <2>2, <2>3 DEF EmulatedStep
<1> QED BY <1>1, <1>2, <1>3, <1>4

LEMMA EndsByItself ==
    ASSUME DInv, [Next]_vars, NEW c \in Clients, Ends(c)
    PROVE  Step(c)
<1>1. pc \in [Clients -> Steps] /\ faults \in Nat
  BY DEF DInv, TypeOK
<1>2. pc' # pc
  BY DEF Ends
<1>3. PICK d \in Clients : Step(d)
  BY <1>2 DEF Next, Finished, vars
<1>4. SqlStep(d) \/ TxStep(d) \/ StatementFails(d) \/ EmulatedStep(d)
  BY <1>1, <1>3, StepsAre
<1>5. PICK p : Goto(d, p)
  BY <1>2, <1>4, OneMoves
<1>6. c = d
  BY <1>1, <1>5 DEF Goto, Ends
<1> QED BY <1>3, <1>6

\* Nothing there, in the client's own table, for what it gathers.
LEMMA NothingThere ==
    ASSUME DInv, NEW c \in Clients, ~Flat, BodyOf(req[c].coll, Here(c)) = None
    PROVE  Here(c) = None
<1>1. RowOf(req[c].coll, BodyOf(req[c].coll, Here(c))) = Here(c)
  BY Context, RowOfBody
<1> QED BY <1>1 DEF RowOf

LEMMA GatherFindsNothing ==
    ASSUME DInv, NEW c \in Clients, Gather(c), pc'[c] = "done"
    PROVE  /\ EmulatedHand(c) /\ req[c].tx /\ loc[c].at = 1 /\ loc[c].seen = None
           /\ Here(c) = None /\ OpAt(c).must
           /\ row' = row /\ ans'[c] = [res |-> "notfound", outs |-> <<>>]
<1>1. /\ EmulatedHand(c) /\ ~Flat /\ TypeOK /\ req[c] \in Request
      /\ loc[c].seen = None /\ loc[c].at = 1
  <2>1. EmulatedHand(c) /\ ~Flat /\ loc[c] = [Fresh EXCEPT !.new = Sent(c, 1)]
    BY Context DEF Gather, Hand, EmulatedSteps, EmulatedHand
  <2> QED BY <2>1, Context DEF Fresh
<1>2. OpAt(c).must /\ BodyOf(req[c].coll, Here(c)) = None /\ Answer(c, "notfound", <<>>)
  BY <1>1 DEF Gather, Goto, TypeOK
<1>3. req[c].tx
  BY <1>1, <1>2, RequestFacts DEF OpAt
<1> QED BY <1>1, <1>2, <1>3, NothingThere, AnswerFacts

LEMMA EmulatedFailures ==
    ASSUME DInv, NEW c \in Clients, EmulatedStep(c),
           pc[c] # "done", pc'[c] = "done", ans'[c].res # "ok"
    PROVE  \/ row'[Home(c)] = Base(c)
           \/ loc[c].late \/ loc[c].torn \/ (ans'[c].res = "error" /\ ~req[c].tx)
<1>1. TypeOK /\ Hand(c)
  BY Context
<1>2. ~Flat
  BY <1>1 DEF EmulatedStep, Gather, ApplyRead, ApplyWrite, ApplyConflicts, Undo,
     UndoEnds, ReplyLost, RequestFails, UndoFails, Writing, Hand, EmulatedSteps,
     EmulatedHand
<1>3. row' = row => row'[Home(c)] = Here(c)
  BY DEF Here
<1>4. CASE Gather(c)
  <2>1. /\ row'[Home(c)] = None /\ req[c].tx /\ loc[c].seen = None
    BY <1>3, <1>4, GatherFindsNothing
  <2> QED BY <1>2, <2>1 DEF Base, RowOf
<1>5. CASE ApplyRead(c) \/ ApplyWrite(c)
  <2>1. UNCHANGED pc \/ \E outs : Finish(c, "ok", outs)
    BY <1>5 DEF ApplyRead, ApplyWrite, Done
  <2>2. PICK outs : Finish(c, "ok", outs)
    BY <2>1
  <2>3. ans'[c].res = "ok"
    BY <1>1, <2>2, FinishFacts
  <2> QED BY <2>3
<1>6. CASE ApplyConflicts(c)
  <2>1. Fails(c, "exists", Here(c), FALSE)
    BY <1>6 DEF ApplyConflicts
  <2>2. ~req[c].tx
    BY <1>1, <2>1 DEF Fails, Goto, TypeOK
  <2>3. row'[Home(c)] = Here(c)
    BY <1>1, <2>1, <2>2, PutFacts DEF Fails
  <2> QED BY <2>2, <2>3 DEF Base
<1>7. CASE RequestFails(c)
  <2>1. PICK r, torn : Fails(c, "error", r, torn)
    BY <1>7 DEF RequestFails
  <2>2. ~req[c].tx
    BY <1>1, <2>1 DEF Fails, Goto, TypeOK
  <2>3. Finish(c, "error", <<>>)
    BY <2>1, <2>2 DEF Fails
  <2>4. ans'[c].res = "error"
    BY <1>1, <2>3, FinishFacts
  <2> QED BY <2>2, <2>4
<1>8. CASE UndoEnds(c)
  <2>1. row'[Home(c)] = Here(c) /\ pc[c] = "undo" /\ loc[c].log = <<>>
    BY <1>1, <1>8, AnswerFacts DEF UndoEnds
  <2>2. req[c].tx /\ BatchHand(c)
    BY <1>1, <2>1 DEF Hand, EmulatedSteps, EmulatedHand
  <2>3. Undisturbed(c) => Here(c) = RowOf(req[c].coll, loc[c].seen)
    BY <2>1, <2>2 DEF BatchHand, LogHand
  <2> QED BY <1>2, <2>1, <2>2, <2>3 DEF Undisturbed, Base
<1>9. ~(Undo(c) \/ ReplyLost(c) \/ UndoFails(c))
  BY DEF Undo, ReplyLost, UndoFails
<1> QED BY <1>4, <1>5, <1>6, <1>7, <1>8, <1>9 DEF EmulatedStep

-----------------------------------------------------------------------------
(* An answered request has done what its operations do in one go *)

\* It leaves what they leave and, unless its answer is lost, answers as they do.
Agrees(c) ==
    /\ row'[Home(c)] = Leaves(c)
    /\ ans'[c].res # "error" => /\ ans'[c].res = Whole(c).res
                                /\ SameAnswer(c, ans'[c].outs, Whole(c).outs)

LEMMA AgreesWith ==
    ASSUME NEW c \in Clients, NEW y, NEW e, NEW outs, NEW said,
           Run(req[c].coll, Base(c), req[c].ops, c) = [row |-> y, res |-> e, outs |-> outs],
           ans'[c].res # "error" => ans'[c] = [res |-> e, outs |-> said],
           SameAnswer(c, said, outs),
           row'[Home(c)] = IF Flat /\ y = Base(c) THEN Here(c) ELSE y
    PROVE  Agrees(c)
<1> DEFINE r == Run(req[c].coll, Base(c), req[c].ops, c)
<1>1. r.row = y /\ r.res = e /\ r.outs = outs
  OBVIOUS
<1>2. ans'[c].res # "error" => ans'[c].res = e /\ ans'[c].outs = said
  OBVIOUS
<1>3. Whole(c) = r
  BY DEF Whole
<1> HIDE DEF r
<1> QED BY <1>1, <1>2, <1>3 DEF Agrees, Leaves

LEMMA SameIsSame ==
    ASSUME NEW c, NEW outs
    PROVE  SameAnswer(c, outs, outs)
  BY DEF SameAnswer

\* What is asked of a request of one operation, which finds what is stored.
LEMMA OneAgrees ==
    ASSUME DInv, NEW c \in Clients, ~req[c].tx, NEW y, NEW out, NEW said,
           Atomic(req[c].coll, Here(c), req[c].ops[1], Sent(c, 1))
             = [row |-> y, res |-> "ok", out |-> out],
           ans'[c].res # "error" => ans'[c] = [res |-> "ok", outs |-> <<said>>],
           SameAnswer(c, <<said>>, <<out>>), row'[Home(c)] = y
    PROVE  Agrees(c)
<1>1. Len(req[c].ops) = 1 /\ Base(c) = Here(c)
  BY Context, RequestFacts DEF Base
<1> DEFINE k == req[c].coll
           r == Here(c)
           ops == req[c].ops
           a == [row |-> y, res |-> "ok", out |-> out]
<1>2. Atomic(k, r, ops[1], Sent(c, 1)) = a /\ Len(ops) = 1
  BY <1>1
<1> HIDE DEF k, r, ops
<1>3. Run(k, r, ops, c) = SoFar(y, <<out>>)
  BY <1>2, RunOfOne
<1>4. Run(req[c].coll, Base(c), req[c].ops, c)
        = [row |-> y, res |-> "ok", outs |-> <<out>>]
  BY <1>1, <1>3 DEF SoFar, k, r, ops
<1>5. row'[Home(c)] = IF Flat /\ y = Base(c) THEN Here(c) ELSE y
  BY <1>1
<1> QED BY <1>4, <1>5, AgreesWith

\* A request of one operation that is refused.
LEMMA OneRefused ==
    ASSUME DInv, NEW c \in Clients, ~req[c].tx, NEW e, e # "ok",
           Atomic(req[c].coll, Here(c), req[c].ops[1], Sent(c, 1)).res = e,
           ans'[c] = [res |-> e, outs |-> <<>>], row'[Home(c)] = Here(c)
    PROVE  Agrees(c)
<1>1. /\ Len(req[c].ops) = 1 /\ Base(c) = Here(c)
      /\ Len(req[c].ops) \in Nat /\ 1 \in 1..Len(req[c].ops) /\ 1 - 1 = 0
  <2>1. Len(req[c].ops) = 1 /\ Base(c) = Here(c)
    BY Context, RequestFacts DEF Base
  <2> QED BY <2>1
<1> DEFINE k == req[c].coll
           r == Here(c)
           ops == req[c].ops
<1>2. /\ After(k, r, ops, c)[1 - 1] = SoFar(r, <<>>)
      /\ Atomic(k, r, ops[1], Sent(c, 1)).res = e
  BY <1>1, AfterNext
<1>3. Len(ops) \in Nat /\ 1 \in 1..Len(ops)
  BY <1>1
<1> HIDE DEF k, r, ops
<1>4. Run(k, r, ops, c) = [row |-> r, res |-> e, outs |-> <<>>]
  BY <1>2, <1>3, StopsHere
<1>5. Run(req[c].coll, Base(c), req[c].ops, c)
        = [row |-> Here(c), res |-> e, outs |-> <<>>]
  BY <1>1, <1>4 DEF k, r, ops
<1>6. row'[Home(c)] = IF Flat /\ Here(c) = Base(c) THEN Here(c) ELSE Here(c)
  OBVIOUS
<1> QED BY <1>5, <1>6, AgreesWith, SameIsSame

\* A statement outside a transaction, in the drivers that read first, works on
\* what is stored unless it was overtaken.
LEMMA ReadIsFresh ==
    ASSUME DInv, NEW c \in Clients, PlainHand(c), ~Overtaken(c),
           driver # "postgres", loc[c].read
    PROVE  loc[c].seen = BodyOf(req[c].coll, Here(c))
<1>1. /\ Len(req[c].ops) = 1
      /\ req[c].ops[1].do \in {"insert", "merge", "replace", "delete"}
  BY Context, RequestFacts DEF PlainHand
<1>2. 1 \in 1..Len(req[c].ops) /\ req[c].ops[1].do # "read"
  BY <1>1
<1>3. Careful(c)
  BY <1>2 DEF Careful, PlainHand
<1>4. ~loc[c].late
  BY <1>3, OvertakenIsLate
<1> QED BY <1>4 DEF PlainHand

LEMMA UpdateAgrees ==
    ASSUME DInv, NEW c \in Clients, Update(c), pc'[c] = "done", ~Overtaken(c)
    PROVE  Agrees(c)
<1> DEFINE k == req[c].coll
           w == Sent(c, 1)
           b == BodyOf(k, Here(c))
           n == loc[c].new
<1>1. /\ TypeOK /\ PlainHand(c) /\ pc[c] = "update" /\ req[c].ops[1].do = "merge"
      /\ ~req[c].tx
  BY Context DEF Update, Hand, PlainSteps, PlainHand
<1>2. Sees(k, Here(c)) /\ Commits(c, Updated(k, Here(c), n), <<Out(n, n)>>)
  BY <1>1 DEF Update, Goto, TypeOK
<1>3. /\ w \in Body /\ b \in Body /\ Here(c) \in Row /\ b = Here(c).body
      /\ n \in Body
  BY <1>2, Context, BodyOfType, SentType, MaxOpsAssumption DEF Locals
<1>4. Over(b, w) \in Body /\ b # None
  BY <1>3, OverType, NoneAssumption
<1>5. Atomic(k, Here(c), req[c].ops[1], w)
        = [row |-> Updated(k, Here(c), Over(b, w)), res |-> "ok",
           out |-> Out(b, Over(b, w))]
  BY <1>1, <1>4, AtomicMeans
<1>6. ans'[c].res # "error" => ans'[c] = [res |-> "ok", outs |-> <<Out(n, n)>>]
  BY <1>1, <1>2, CommitsFacts
<1>7. row'[Home(c)] = Updated(k, Here(c), n)
  BY <1>1, <1>2, CommitsFacts
<1>8. CASE driver = "postgres"
  <2>1. n = w
    BY <1>1, <1>8 DEF PlainHand
  <2>2. Updated(k, Here(c), w) = Updated(k, Here(c), Over(b, w))
    <3>1. Over(b, Over(b, w)) = Over(b, w)
      BY <1>3, OverTwice
    <3> QED BY <1>3, <1>8, <3>1 DEF Updated
  <2>3. SameAnswer(c, <<Out(n, n)>>, <<Out(b, Over(b, w))>>)
    BY <1>1, <1>8 DEF SameAnswer
  <2> HIDE DEF n, b, w
  <2> QED BY <1>1, <1>5, <1>6, <1>7, <2>1, <2>2, <2>3, OneAgrees DEF w
<1>9. CASE driver # "postgres"
  <2>1. n = Over(b, w)
    <3>1. loc[c].read /\ n = Over(loc[c].seen, w)
      BY <1>1, <1>9 DEF PlainHand
    <3> QED BY <1>1, <1>9, <3>1, ReadIsFresh
  <2>2. Out(n, n).doc = n /\ Out(b, Over(b, w)).doc = Over(b, w)
    BY DEF Out
  <2>3. SameAnswer(c, <<Out(n, n)>>, <<Out(b, Over(b, w))>>)
    <3> DEFINE o1 == Out(n, n)
               o2 == Out(b, Over(b, w))
    <3>1. o1.doc = o2.doc
      BY <2>1, <2>2
    <3> HIDE DEF o1, o2, n, b, w
    <3>2. /\ Len(<<o1>>) = Len(<<o2>>)
          /\ \A i \in 1..Len(<<o1>>) : <<o1>>[i].doc = <<o2>>[i].doc
      BY <3>1
    <3>3. SameAnswer(c, <<o1>>, <<o2>>)
      BY <1>1, <3>2 DEF SameAnswer
    <3> QED BY <3>3 DEF o1, o2
  <2> HIDE DEF n, b, w
  <2> QED BY <1>1, <1>5, <1>6, <1>7, <2>1, <2>3, OneAgrees DEF w
<1> QED BY <1>8, <1>9

LEMMA InsertAgrees ==
    ASSUME DInv, NEW c \in Clients, Insert(c), ~Overtaken(c),
           ~(req[c].ops[1].do = "merge" /\ ans'[c].res = "exists")
    PROVE  Agrees(c)
<1> DEFINE k == req[c].coll
           w == Sent(c, 1)
           n == loc[c].new
<1>1. /\ TypeOK /\ PlainHand(c) /\ pc[c] = "insert" /\ ~req[c].tx
      /\ req[c].ops[1].do \in {"merge", "insert"} /\ ~req[c].ops[1].must
      /\ w \in Body
  BY Context, RequestFacts, SentType, MaxOpsAssumption
     DEF Insert, Hand, PlainSteps, PlainHand
<1>2. CASE Here(c) = None
  <2>1. Commits(c, RowOf(k, n), <<Out(None, n)>>)
    BY <1>2 DEF Insert
  <2>2. BodyOf(k, Here(c)) = None
    BY <1>2 DEF BodyOf, Sees
  <2>3. n = w
    <3>1. CASE req[c].ops[1].do = "insert" \/ driver = "postgres"
      BY <1>1, <3>1 DEF PlainHand
    <3>2. CASE req[c].ops[1].do = "merge" /\ driver # "postgres"
      <4>1. loc[c].read /\ n = Over(loc[c].seen, w)
        BY <1>1, <3>2 DEF PlainHand
      <4>2. loc[c].seen = None
        BY <1>1, <2>2, <3>2, <4>1, ReadIsFresh
      <4> QED BY <1>1, <4>1, <4>2, OverNone
    <3> QED BY <1>1, <3>1, <3>2
  <2>4. Atomic(k, Here(c), req[c].ops[1], w)
          = [row |-> RowOf(k, w), res |-> "ok", out |-> Out(None, w)]
    BY <1>1, <1>2, <2>2, AtomicMeans
  <2>5. ans'[c].res # "error" => ans'[c] = [res |-> "ok", outs |-> <<Out(None, n)>>]
    BY <1>1, <2>1, CommitsFacts
  <2>6. row'[Home(c)] = RowOf(k, n)
    BY <1>1, <2>1, CommitsFacts
  <2> HIDE DEF n, w
  <2> QED BY <1>1, <2>3, <2>4, <2>5, <2>6, OneAgrees, SameIsSame DEF w
<1>3. CASE Here(c) # None
  <2>1. Answer(c, "exists", <<>>)
    BY <1>3 DEF Insert
  <2>2. row'[Home(c)] = Here(c) /\ ans'[c] = [res |-> "exists", outs |-> <<>>]
    BY <1>1, <2>1, AnswerFacts
  <2>3. req[c].ops[1].do = "insert"
    BY <1>1, <2>2
  <2>4. Atomic(k, Here(c), req[c].ops[1], w).res = "exists"
    BY <1>1, <1>3, <2>3, AtomicMeans
  <2> QED BY <1>1, <2>2, <2>4, OneRefused
<1> QED BY <1>2, <1>3

LEMMA PlainAgrees ==
    ASSUME DInv, NEW c \in Clients, GetFirst(c) \/ Upsert(c) \/ DeleteRow(c),
           pc'[c] = "done", ~Overtaken(c)
    PROVE  Agrees(c)
<1> DEFINE k == req[c].coll
           w == Sent(c, 1)
           b == BodyOf(k, Here(c))
<1>1. /\ TypeOK /\ PlainHand(c) /\ ~req[c].tx /\ k \in Colls
      /\ Here(c) \in Row \cup {None}
  BY Context DEF GetFirst, Upsert, DeleteRow, Hand, PlainSteps, PlainHand
<1>2. CASE GetFirst(c)
  <2>1. req[c].ops[1].do = "delete" /\ b = None /\ Answer(c, "ok", <<Out(None, None)>>)
    BY <1>1, <1>2 DEF GetFirst, Goto, TypeOK
  <2>2. Atomic(k, Here(c), req[c].ops[1], w)
          = [row |-> Here(c), res |-> "ok", out |-> Out(None, None)]
    BY <2>1, AtomicMeans
  <2>3. /\ row'[Home(c)] = Here(c)
        /\ ans'[c] = [res |-> "ok", outs |-> <<Out(None, None)>>]
    BY <1>1, <2>1, AnswerFacts
  <2> QED BY <1>1, <2>2, <2>3, OneAgrees, SameIsSame
<1>3. CASE Upsert(c)
  <2>1. Commits(c, RowOf(k, loc[c].new), <<Out(b, loc[c].new)>>)
    BY <1>3 DEF Upsert
  <2>2. req[c].ops[1].do = "replace" /\ loc[c].new = w
    BY <1>1, <1>3 DEF Upsert, PlainHand
  <2>3. Atomic(k, Here(c), req[c].ops[1], w)
          = [row |-> RowOf(k, w), res |-> "ok", out |-> Out(b, w)]
    BY <1>1, <2>2, Context, RequestFacts, AtomicMeans
  <2>4. row'[Home(c)] = RowOf(k, w)
    BY <1>1, <2>1, <2>2, CommitsFacts
  <2>5. ans'[c].res # "error" => ans'[c] = [res |-> "ok", outs |-> <<Out(b, w)>>]
    BY <1>1, <2>1, <2>2, CommitsFacts
  <2> HIDE DEF b, w
  <2> QED BY <1>1, <2>3, <2>4, <2>5, OneAgrees, SameIsSame DEF w
<1>4. CASE DeleteRow(c)
  <2> DEFINE d == IF driver = "postgres" THEN b ELSE loc[c].seen
             y == IF Sees(k, Here(c)) THEN None ELSE Here(c)
  <2>1. Commits(c, y, <<Out(d, d)>>)
    BY <1>4 DEF DeleteRow
  <2>2. req[c].ops[1].do = "delete" /\ (driver # "postgres" => loc[c].read)
    BY <1>1, <1>4 DEF DeleteRow, PlainHand
  <2>3. d = b
    BY <1>1, <2>2, ReadIsFresh
  <2>4. y = IF b = None THEN Here(c) ELSE None
    BY <1>1, BodyOfType
  <2>5. Atomic(k, Here(c), req[c].ops[1], w)
          = [row |-> y, res |-> "ok", out |-> Out(b, b)]
    BY <2>2, <2>4, AtomicMeans
  <2>6. row'[Home(c)] = y
    BY <1>1, <2>1, CommitsFacts
  <2>7. ans'[c].res # "error" => ans'[c] = [res |-> "ok", outs |-> <<Out(b, b)>>]
    BY <1>1, <2>1, <2>3, CommitsFacts
  <2> HIDE DEF y, b, d, w
  <2> QED BY <1>1, <2>5, <2>6, <2>7, OneAgrees, SameIsSame DEF w
<1> QED BY <1>2, <1>3, <1>4

\* What a transaction of an SQL driver begins from, once it has read.
LEMMA TxBase ==
    ASSUME DInv, NEW c \in Clients, TxHand(c), ~Overtaken(c), loc[c].read
    PROVE  /\ Base(c) = loc[c].snap
           /\ driver = "postgres" => loc[c].snap = Here(c)
<1>1. driver = "postgres" => ~loc[c].late
  BY OvertakenIsLate DEF Careful, TxHand
<1> QED BY <1>1 DEF TxHand, Base

\* A refused operation ends the request with the row as it was.
LEMMA Refused ==
    ASSUME DInv, NEW c \in Clients, loc[c].at <= Len(req[c].ops), NEW v, NEW outs,
           NEW e, e # "ok",
           After(req[c].coll, Base(c), req[c].ops, c)[loc[c].at - 1] = SoFar(v, outs),
           Atomic(req[c].coll, v, OpAt(c), Sent(c, loc[c].at)).res = e,
           ans'[c] = [res |-> e, outs |-> <<>>], row'[Home(c)] = Here(c),
           ~Flat => Base(c) = Here(c)
    PROVE  Agrees(c)
<1>1. loc[c].at \in 1..Len(req[c].ops) /\ Len(req[c].ops) \in Nat
  BY Context DEF Locals
<1> DEFINE k == req[c].coll
           r == Base(c)
           ops == req[c].ops
           n == loc[c].at
<1>2. Atomic(k, v, ops[n], Sent(c, n)).res = e
  BY DEF OpAt
<1>3. n \in 1..Len(ops) /\ Len(ops) \in Nat
  BY <1>1
<1> HIDE DEF k, r, ops, n
<1>4. After(k, r, ops, c)[n - 1] = SoFar(v, outs)
  BY DEF k, r, ops, n
<1>5. Run(k, r, ops, c) = [row |-> r, res |-> e, outs |-> <<>>]
  BY <1>2, <1>3, <1>4, StopsHere
<1>6. Run(req[c].coll, Base(c), req[c].ops, c)
        = [row |-> Base(c), res |-> e, outs |-> <<>>]
  BY <1>5 DEF k, r, ops
<1>7. row'[Home(c)] = IF Flat /\ Base(c) = Base(c) THEN Here(c) ELSE Base(c)
  OBVIOUS
<1> QED BY <1>6, <1>7, AgreesWith, SameIsSame

LEMMA TxReadAgrees ==
    ASSUME DInv, NEW c \in Clients, TxRead(c), pc'[c] = "done", ~Overtaken(c)
    PROVE  Agrees(c)
<1> DEFINE k == req[c].coll
<1>1. /\ TypeOK /\ TxHand(c) /\ Flat /\ req[c].tx /\ pc[c] = "txget"
      /\ loc[c].at <= Len(req[c].ops) /\ loc[c].at \in 1..Len(req[c].ops)
      /\ k \in Colls
  BY Context DEF TxRead, Hand, TxSteps, TxHand, Locals
<1>2. OpAt(c).must /\ BodyOf(k, ViewOf(c)) = None /\ Answer(c, "notfound", <<>>)
  <2>1. pc' # pc
    BY <1>1
  <2>2. \A p : Goto(c, p) => p = "done"
    BY <1>1 DEF Goto, TypeOK
  <2> QED BY <2>1, <2>2 DEF TxRead, Abort
<1>3. OpAt(c).do \in {"merge", "replace"}
  BY <1>1, <1>2, Context, RequestFacts DEF OpAt
<1>4. row'[Home(c)] = Here(c) /\ ans'[c] = [res |-> "notfound", outs |-> <<>>]
  BY <1>1, <1>2, AnswerFacts
<1>5. CASE loc[c].read \/ driver = "postgres"
  <2>1. Base(c) = SnapOf(c)
    <3>1. CASE loc[c].read
      BY <1>1, <3>1, TxBase DEF SnapOf
    <3>2. CASE ~loc[c].read /\ driver = "postgres"
      BY <1>1, <3>2 DEF Base, SnapOf, ViewOf, TxHand, OwnHand
    <3> QED BY <1>5, <3>1, <3>2
  <2>2. After(k, Base(c), req[c].ops, c)[loc[c].at - 1] = SoFar(ViewOf(c), loc[c].outs)
    BY <1>1, <2>1, ViewFacts
  <2>3. Atomic(k, ViewOf(c), OpAt(c), Sent(c, loc[c].at)).res = "notfound"
    BY <1>2, <1>3, AtomicMeans
  <2> QED BY <1>1, <1>4, <2>2, <2>3, Refused
<1>6. CASE ~loc[c].read /\ driver # "postgres"
  <2>1. Base(c) = None /\ loc[c].at = 1
    BY <1>1, <1>6 DEF TxHand, Base
  <2>2. Len(req[c].ops) \in Nat /\ loc[c].at - 1 = 0
    BY <2>1, Context
  <2>3. After(k, Base(c), req[c].ops, c)[loc[c].at - 1] = SoFar(None, <<>>)
    BY <2>1, <2>2, AfterNext
  <2>4. BodyOf(k, None) = None
    BY DEF BodyOf, Sees
  <2>5. Atomic(k, None, OpAt(c), Sent(c, loc[c].at)).res = "notfound"
    BY <1>2, <1>3, <2>4, AtomicMeans
  <2> QED BY <1>1, <1>4, <2>3, <2>5, Refused
<1> QED BY <1>5, <1>6

LEMMA TxInsertAgrees ==
    ASSUME DInv, NEW c \in Clients, TxInsert(c), pc'[c] = "done", ~Overtaken(c),
           ans'[c].res # "busy"
    PROVE  Agrees(c)
<1> DEFINE k == req[c].coll
<1>1. /\ TypeOK /\ TxHand(c) /\ OpHand(c) /\ Flat /\ pc[c] = "txinsert"
  BY Context DEF TxInsert, Hand, TxSteps, TxHand
<1>2. ~Busy(c)
  <2>1. Abort(c, "busy") => ans'[c].res = "busy"
    <3> SUFFICES ASSUME Abort(c, "busy") PROVE ans'[c].res = "busy"
      OBVIOUS
    <3>1. Answer(c, "busy", <<>>)
      BY DEF Abort
    <3>2. ans'[c] = [res |-> "busy", outs |-> <<>>]
      BY <1>1, <3>1, AnswerFacts
    <3> QED BY <3>2
  <2> QED BY <2>1 DEF TxInsert
<1>3. Cur(c) # None /\ Answer(c, "exists", <<>>)
  <2>1. \A p : Goto(c, p) => p = "done"
    BY <1>1 DEF Goto, TypeOK
  <2> QED BY <1>2, <2>1 DEF TxInsert, Writes, Abort
<1>4. row'[Home(c)] = Here(c) /\ ans'[c] = [res |-> "exists", outs |-> <<>>]
  BY <1>1, <1>3, AnswerFacts
<1>5. Cur(c) = Mine(c) /\ loc[c].read /\ loc[c].at <= Len(req[c].ops)
  BY <1>1, <1>2, WritesOnItsView DEF OpHand
<1>6. /\ OpAt(c).do = "merge" /\ ~OpAt(c).must
      /\ BodyOf(k, Mine(c)) = None
  BY <1>1 DEF OpHand
<1>7. After(k, Base(c), req[c].ops, c)[loc[c].at - 1] = SoFar(Mine(c), loc[c].outs)
  BY <1>1, <1>5, TxBase DEF TxHand
<1>8. Atomic(k, Mine(c), OpAt(c), Sent(c, loc[c].at)).res = "exists"
  BY <1>3, <1>5, <1>6, AtomicMeans
<1> QED BY <1>1, <1>4, <1>5, <1>7, <1>8, Refused

LEMMA CommitAgrees ==
    ASSUME DInv, NEW c \in Clients, Commit(c), ~Overtaken(c)
    PROVE  Agrees(c)
<1>1. /\ TypeOK /\ TxHand(c) /\ Flat /\ req[c].tx
      /\ Commits(c, Cur(c), loc[c].outs)
  BY Context DEF Commit, Hand, TxSteps, TxHand
<1>2. loc[c].at - 1 = Len(req[c].ops) /\ loc[c].read
  <2>1. Len(req[c].ops) \in 1..MaxOps /\ MaxOps \in Nat
    BY Context
  <2>2. loc[c].at > Len(req[c].ops) /\ loc[c].at <= Len(req[c].ops) + 1
    BY <1>1 DEF Commit, TxHand
  <2>3. loc[c].at \in Nat
    BY <2>1, Context DEF Locals
  <2>4. loc[c].at = Len(req[c].ops) + 1 /\ loc[c].at # 1
    BY <2>1, <2>2, <2>3
  <2> QED BY <1>1, <2>1, <2>4 DEF TxHand
<1>3. Base(c) = loc[c].snap /\ (driver = "postgres" => loc[c].snap = Here(c))
  BY <1>1, <1>2, TxBase
<1>4. Run(req[c].coll, Base(c), req[c].ops, c)
        = [row |-> Mine(c), res |-> "ok", outs |-> loc[c].outs]
  BY <1>1, <1>2, <1>3 DEF TxHand, Run, SoFar
<1>5. row'[Home(c)] = Cur(c)
  BY <1>1, CommitsFacts
<1>6. ans'[c].res # "error" => ans'[c] = [res |-> "ok", outs |-> loc[c].outs]
  BY <1>1, CommitsFacts
<1>7. Cur(c) = IF Flat /\ Mine(c) = Base(c) THEN Here(c) ELSE Mine(c)
  <2>1. CASE loc[c].own = Nothing
    BY <1>1, <1>3, <2>1 DEF Cur, Mine
  <2>2. CASE loc[c].own # Nothing
    <3>1. /\ driver = "sqlite" => ~loc[c].late
          /\ driver # "sqlite" => Careful(c)
      BY <1>1, <2>2 DEF TxHand, OwnHand, Careful
    <3>2. ~loc[c].late
      BY <3>1, OvertakenIsLate
    <3>3. loc[c].snap = Here(c)
      BY <1>1, <1>2, <3>2 DEF TxHand
    <3> QED BY <1>3, <2>2, <3>3 DEF Cur, Mine
  <2> QED BY <2>1, <2>2
<1>8. row'[Home(c)] = IF Flat /\ Mine(c) = Base(c) THEN Here(c) ELSE Mine(c)
  BY <1>5, <1>7
<1> QED BY <1>4, <1>6, <1>8, AgreesWith, SameIsSame

\* Nothing of RethinkDB's that is overtaken is answered for.
LEMMA EmulatedUndisturbed ==
    ASSUME NEW c, ~Flat, ~Overtaken(c), ~loc[c].torn
    PROVE  Undisturbed(c)
  BY DEF Undisturbed, Overtaken, Flat

\* Where an operation of RethinkDB's begins, in a request that nobody disturbs.
LEMMA EmulatedBase ==
    ASSUME DInv, NEW c \in Clients, EmulatedHand(c), pc[c] = "apply",
           Undisturbed(c), ~Misjudged(c),
           OpAt(c).do = "insert" => Here(c) = None
    PROVE  /\ After(req[c].coll, Base(c), req[c].ops, c)[loc[c].at - 1]
                = SoFar(RowOf(req[c].coll, Prev(c)), loc[c].outs)
           /\ Here(c) = RowOf(req[c].coll, Prev(c))
<1>1. CASE req[c].tx
  <2>1. BatchHand(c) /\ Base(c) = RowOf(req[c].coll, loc[c].seen)
    BY <1>1 DEF EmulatedHand, Base
  <2> QED BY <2>1 DEF BatchHand
<1>2. CASE ~req[c].tx
  <2>1. /\ loc[c].at = 1 /\ loc[c].outs = <<>> /\ Base(c) = Here(c)
        /\ Prev(c) = loc[c].seen
    BY <1>2 DEF EmulatedHand, Base, Prev
  <2>2. Here(c) = RowOf(req[c].coll, Prev(c))
    <3>1. CASE req[c].ops[1].do = "insert"
      <4>1. Here(c) = None /\ loc[c].seen = None
        BY <1>2, <2>1, <3>1 DEF EmulatedHand, OpAt
      <4> QED BY <2>1, <4>1 DEF RowOf
    <3>2. CASE req[c].ops[1].do # "insert"
      <4>1. loc[c].seen = BodyOf(req[c].coll, Here(c))
        BY <1>2, <3>2 DEF EmulatedHand
      <4>2. RowOf(req[c].coll, BodyOf(req[c].coll, Here(c))) = Here(c)
        BY Context, RowOfBody DEF EmulatedHand
      <4> QED BY <2>1, <4>1, <4>2
    <3> QED BY <3>1, <3>2
  <2>3. Len(req[c].ops) \in Nat /\ loc[c].at - 1 = 0
    BY <2>1, Context
  <2>4. After(req[c].coll, Base(c), req[c].ops, c)[0] = SoFar(Base(c), <<>>)
    BY <2>3, AfterNext
  <2> QED BY <2>1, <2>2, <2>3, <2>4
<1> QED BY <1>1, <1>2

\* The last operation of a request to RethinkDB.
LEMMA LastAgrees ==
    ASSUME DInv, NEW c \in Clients, EmulatedHand(c), pc[c] = "apply",
           loc[c].at = Len(req[c].ops), NEW y, NEW out,
           After(req[c].coll, Base(c), req[c].ops, c)[loc[c].at - 1]
             = SoFar(RowOf(req[c].coll, Prev(c)), loc[c].outs),
           Atomic(req[c].coll, RowOf(req[c].coll, Prev(c)), OpAt(c), Sent(c, loc[c].at))
             = [row |-> y, res |-> "ok", out |-> out],
           ans'[c] = [res |-> "ok", outs |-> Append(loc[c].outs, out)],
           row'[Home(c)] = y
    PROVE  Agrees(c)
<1>1. loc[c].at \in 1..Len(req[c].ops) /\ Len(req[c].ops) \in Nat
  BY EmulatedFacts, Context
<1> DEFINE k == req[c].coll
           x == RowOf(k, Prev(c))
           n == loc[c].at
           ops == req[c].ops
           base == Base(c)
<1>2. Atomic(k, x, ops[n], Sent(c, n)) = [row |-> y, res |-> "ok", out |-> out]
  BY DEF OpAt
<1>3. n \in 1..Len(ops) /\ Len(ops) \in Nat /\ n = Len(ops)
  BY <1>1
<1> HIDE DEF base, x, n, k, ops
<1>4. After(k, base, ops, c)[n - 1] = SoFar(x, loc[c].outs)
  BY DEF base, x, n, k, ops
<1>5. Run(k, base, ops, c) = SoFar(y, Append(loc[c].outs, out))
  BY <1>2, <1>3, <1>4, GoesOn DEF Run
<1>6. Run(req[c].coll, Base(c), req[c].ops, c)
        = [row |-> y, res |-> "ok", outs |-> Append(loc[c].outs, out)]
  BY <1>5 DEF base, k, ops, SoFar
<1>7. row'[Home(c)] = IF Flat /\ y = Base(c) THEN Here(c) ELSE y
  BY DEF EmulatedHand
<1>8. SameAnswer(c, Append(loc[c].outs, out), Append(loc[c].outs, out))
  BY SameIsSame
<1> QED BY <1>6, <1>7, <1>8, AgreesWith

LEMMA ApplyReadAgrees ==
    ASSUME DInv, NEW c \in Clients, ApplyRead(c), pc'[c] = "done",
           ~Overtaken(c), ~loc[c].torn, ~Misjudged(c)
    PROVE  Agrees(c)
<1> DEFINE out == Out(Prev(c), Prev(c))
           y == RowOf(req[c].coll, Prev(c))
<1>1. EmulatedHand(c) /\ pc[c] = "apply" /\ TypeOK /\ Undisturbed(c)
  BY Context, EmulatedUndisturbed DEF ApplyRead, Hand, EmulatedSteps, EmulatedHand
<1>2. loc[c].at = Len(req[c].ops) /\ Finish(c, "ok", Append(loc[c].outs, out))
  BY <1>1 DEF ApplyRead, Done
<1>3. /\ After(req[c].coll, Base(c), req[c].ops, c)[loc[c].at - 1] = SoFar(y, loc[c].outs)
      /\ Here(c) = y
  BY <1>1, EmulatedBase DEF ApplyRead
<1>4. Atomic(req[c].coll, y, OpAt(c), Sent(c, loc[c].at))
        = [row |-> y, res |-> "ok", out |-> out]
  BY <1>1, ReadMeans DEF ApplyRead
<1>5. row'[Home(c)] = y
  BY <1>3 DEF ApplyRead, Here
<1> DEFINE outs == Append(loc[c].outs, out)
<1>6. ans'[c] = [res |-> "ok", outs |-> outs]
  <2> HIDE DEF outs
  <2>1. Finish(c, "ok", outs)
    BY <1>2 DEF outs
  <2> QED BY <1>1, <2>1, FinishFacts
<1> HIDE DEF out
<1> QED BY <1>1, <1>2, <1>3, <1>4, <1>5, <1>6, LastAgrees

LEMMA ApplyWriteAgrees ==
    ASSUME DInv, NEW c \in Clients, ApplyWrite(c), pc'[c] = "done",
           ~Overtaken(c), ~loc[c].torn, ~Misjudged(c)
    PROVE  Agrees(c)
<1> DEFINE put == OpAt(c).do # "delete"
           out == IF put THEN Out(Prev(c), What(c)) ELSE Out(Prev(c), Prev(c))
           y == IF put THEN RowOf(req[c].coll, What(c)) ELSE None
<1>1. /\ EmulatedHand(c) /\ pc[c] = "apply" /\ TypeOK /\ Undisturbed(c)
      /\ ~Conflicts(c) /\ OpAt(c).do # "read" /\ (OpAt(c).do = "delete" => Prev(c) # None)
  BY Context, EmulatedUndisturbed
     DEF ApplyWrite, Writing, Hand, EmulatedSteps, EmulatedHand
<1>2. loc[c].at = Len(req[c].ops) /\ Finish(c, "ok", Append(loc[c].outs, out))
  BY <1>1 DEF ApplyWrite, Done
<1>3. /\ ~(OpAt(c).must /\ Prev(c) = None)
      /\ OpAt(c).do = "insert" => Prev(c) = None
  BY <1>1, MustIsMet
<1>4. After(req[c].coll, Base(c), req[c].ops, c)[loc[c].at - 1]
        = SoFar(RowOf(req[c].coll, Prev(c)), loc[c].outs)
  BY <1>1, <1>3, EmulatedBase DEF Conflicts
<1>5. Atomic(req[c].coll, RowOf(req[c].coll, Prev(c)), OpAt(c), Sent(c, loc[c].at))
        = [row |-> y, res |-> "ok", out |-> out]
  <2>1. out = Out(Prev(c), IF put THEN What(c) ELSE Prev(c))
    OBVIOUS
  <2> QED BY <1>1, <1>3, <2>1, WriteMeans
<1>6. row'[Home(c)] = y
  <2>1. row'[Home(c)] = Effect(c)
    BY <1>1, PutFacts DEF ApplyWrite
  <2> QED BY <1>1, <2>1 DEF Effect
<1> DEFINE outs == Append(loc[c].outs, out)
<1>7. ans'[c] = [res |-> "ok", outs |-> outs]
  <2> HIDE DEF outs
  <2>1. Finish(c, "ok", outs)
    BY <1>2 DEF outs
  <2> QED BY <1>1, <2>1, FinishFacts
<1> HIDE DEF out, y
<1> QED BY <1>1, <1>2, <1>4, <1>5, <1>6, <1>7, LastAgrees

LEMMA ApplyConflictsAgrees ==
    ASSUME DInv, NEW c \in Clients, ApplyConflicts(c), pc'[c] = "done",
           ~Overtaken(c), ~loc[c].torn, ~Misjudged(c)
    PROVE  Agrees(c)
<1>1. /\ EmulatedHand(c) /\ pc[c] = "apply" /\ TypeOK /\ Undisturbed(c)
      /\ Conflicts(c) /\ Fails(c, "exists", Here(c), FALSE)
  BY Context, EmulatedUndisturbed
     DEF ApplyConflicts, Writing, Hand, EmulatedSteps, EmulatedHand
<1>2. ~req[c].tx
  BY <1>1 DEF Fails, Goto, TypeOK
<1>3. loc[c].at = 1 /\ req[c].ops[1].do = "insert"
  <2>1. OpAt(c).do # "insert" => Here(c) = RowOf(req[c].coll, Prev(c))
    BY <1>1, EmulatedBase
  <2>2. OpAt(c).do = "insert"
    BY <1>1, <2>1 DEF Conflicts, RowOf
  <2> QED BY <1>1, <1>2, <2>2 DEF EmulatedHand, OpAt
<1>4. Finish(c, "exists", <<>>) /\ row'[Home(c)] = Here(c)
  BY <1>1, <1>2, PutFacts DEF Fails
<1>5. ans'[c] = [res |-> "exists", outs |-> <<>>]
  BY <1>1, <1>4, FinishFacts
<1>6. ~req[c].ops[1].must /\ Here(c) # None
  BY <1>1, <1>2, Context, RequestFacts DEF Conflicts
<1>7. Atomic(req[c].coll, Here(c), req[c].ops[1], Sent(c, 1)).res = "exists"
  BY <1>3, <1>6, AtomicMeans
<1> QED BY <1>2, <1>4, <1>5, <1>7, OneRefused

LEMMA GatherAgrees ==
    ASSUME DInv, NEW c \in Clients, Gather(c), pc'[c] = "done"
    PROVE  Agrees(c)
<1>1. /\ EmulatedHand(c) /\ req[c].tx /\ loc[c].at = 1 /\ loc[c].seen = None
      /\ Here(c) = None /\ OpAt(c).must
      /\ row' = row /\ ans'[c] = [res |-> "notfound", outs |-> <<>>]
  BY GatherFindsNothing
<1>2. /\ Base(c) = None /\ row'[Home(c)] = Here(c)
      /\ loc[c].at \in 1..Len(req[c].ops)
  BY <1>1, EmulatedFacts DEF Base, RowOf, EmulatedHand, Here
<1>3. OpAt(c).do \in {"merge", "replace"}
  BY <1>1, <1>2, Context, RequestFacts DEF OpAt
<1>4. BodyOf(req[c].coll, None) = None
  BY DEF BodyOf, Sees
<1>5. Atomic(req[c].coll, None, OpAt(c), Sent(c, loc[c].at)).res = "notfound"
  BY <1>1, <1>3, <1>4, AtomicMeans
<1>6. After(req[c].coll, Base(c), req[c].ops, c)[loc[c].at - 1] = SoFar(None, <<>>)
  <2>1. Len(req[c].ops) \in Nat /\ loc[c].at - 1 = 0
    BY <1>1, Context
  <2> QED BY <1>2, <2>1, AfterNext
<1>7. loc[c].at <= Len(req[c].ops)
  BY <1>1 DEF EmulatedHand
<1> QED BY <1>1, <1>2, <1>5, <1>6, <1>7, Refused

LEMMA SqlAgrees ==
    ASSUME DInv, NEW c \in Clients, SqlStep(c) \/ TxStep(c) \/ StatementFails(c),
           pc[c] # "done", pc'[c] = "done", ans'[c].res \in {"ok", "exists", "notfound"},
           ~Overtaken(c),
           ~(pc[c] = "insert" /\ req[c].ops[1].do = "merge" /\ ans'[c].res = "exists")
    PROVE  Agrees(c)
<1>1. TypeOK
  BY Context
<1>2. CASE SqlStep(c)
  BY <1>2, UpdateAgrees, InsertAgrees, PlainAgrees DEF SqlStep, Insert
<1>3. ASSUME NEW e, Abort(c, e) PROVE ans'[c].res = e
  <2>1. Answer(c, e, <<>>)
    BY <1>3 DEF Abort
  <2>2. ans'[c] = [res |-> e, outs |-> <<>>]
    BY <1>1, <2>1, AnswerFacts
  <2> QED BY <2>2
<1>4. CASE TxStep(c)
  <2>1. CASE TxWrite(c) \/ TxDelete(c)
    <3>1. \A p : Goto(c, p) => p = "done"
      BY <1>1 DEF Goto, TypeOK
    <3>2. Abort(c, "busy")
      BY <2>1, <3>1 DEF TxWrite, TxDelete, Writes, NextOp
    <3> QED BY <1>3, <3>2
  <2> QED BY <1>4, <2>1, TxReadAgrees, TxInsertAgrees, CommitAgrees DEF TxStep
<1>5. CASE StatementFails(c)
  BY <1>3, <1>5 DEF StatementFails
<1> QED BY <1>2, <1>4, <1>5

LEMMA EmulatedAgrees ==
    ASSUME DInv, NEW c \in Clients, EmulatedStep(c),
           pc[c] # "done", pc'[c] = "done", ans'[c].res \in {"ok", "exists", "notfound"},
           ~Overtaken(c), ~loc[c].torn, ~Misjudged(c)
    PROVE  Agrees(c)
<1>1. TypeOK /\ Hand(c)
  BY Context
<1>2. CASE RequestFails(c)
  <2>1. PICK r, torn : Fails(c, "error", r, torn)
    BY <1>2 DEF RequestFails
  <2>2. Finish(c, "error", <<>>)
    BY <1>1, <2>1 DEF Fails, Goto, TypeOK
  <2>3. ans'[c].res = "error"
    BY <1>1, <2>2, FinishFacts
  <2> QED BY <2>3
<1>3. CASE UndoEnds(c)
  <2>1. EmulatedHand(c) /\ pc[c] = "undo" /\ BatchHand(c) /\ Undisturbed(c)
    BY <1>1, <1>3, EmulatedUndisturbed DEF UndoEnds, Hand, EmulatedSteps, EmulatedHand
  <2>2. loc[c].res = "error"
    BY <2>1 DEF BatchHand
  <2>3. ans'[c] = [res |-> "error", outs |-> <<>>]
    BY <1>1, <1>3, <2>2, AnswerFacts DEF UndoEnds
  <2> QED BY <2>3
<1>4. ~(Undo(c) \/ ReplyLost(c) \/ UndoFails(c))
  BY DEF Undo, ReplyLost, UndoFails
<1> QED BY <1>2, <1>3, <1>4, GatherAgrees, ApplyReadAgrees, ApplyWriteAgrees,
       ApplyConflictsAgrees DEF EmulatedStep

\* A request that is answered has done, in one step, what its operations do in
\* one go from what it found, with those answers, unless it was overtaken, its
\* connection broke, RethinkDB misjudged the batch, or a merge that found no row
\* then could not insert one.
THEOREM AnswersAreAtomic == Spec => RequestsAreAtomic
<1> DEFINE AreAtomic ==
      \A c \in Clients :
         /\ Ends(c) /\ ans'[c].res \in {"ok", "exists", "notfound"}
         /\ ~Overtaken(c) /\ ~loc[c].torn /\ ~Misjudged(c)
         /\ ~(pc[c] = "insert" /\ req[c].ops[1].do = "merge" /\ ans'[c].res = "exists")
         => /\ row'[Home(c)] = Leaves(c)
            /\ ans'[c].res = Whole(c).res
            /\ SameAnswer(c, ans'[c].outs, Whole(c).outs)
<1>1. DInv /\ [Next]_vars => AreAtomic
  <2> SUFFICES ASSUME DInv, [Next]_vars, NEW c \in Clients,
                      Ends(c), ans'[c].res \in {"ok", "exists", "notfound"},
                      ~Overtaken(c), ~loc[c].torn, ~Misjudged(c),
                      ~(/\ pc[c] = "insert" /\ req[c].ops[1].do = "merge"
                        /\ ans'[c].res = "exists")
               PROVE  Agrees(c)
    BY DEF Agrees
  <2>1. /\ faults \in Nat /\ Step(c) /\ pc[c] # "done" /\ pc'[c] = "done"
    BY EndsByItself DEF DInv, TypeOK, Ends
  <2> QED BY <2>1, StepsAre, SqlAgrees, EmulatedAgrees
<1>2. Spec => [][AreAtomic]_vars
  BY <1>1, InitKeeps, NextKeeps, PTL DEF Spec
<1> QED BY <1>2 DEF RequestsAreAtomic

-----------------------------------------------------------------------------
(* Requests that fail *)

\* An SQL driver that fails has done nothing, or all of it in one statement or COMMIT
\* whose answer was lost.
LEMMA SqlFailures ==
    ASSUME DInv, NEW c \in Clients, SqlStep(c) \/ TxStep(c) \/ StatementFails(c),
           pc'[c] = "done", ans'[c].res # "ok"
    PROVE  \/ row' = row
           \/ ans'[c].res = "error" /\ (Overtaken(c) \/ row'[Home(c)] = Leaves(c))
<1>1. ASSUME NEW r, NEW outs, Commits(c, r, outs) PROVE ans'[c].res = "error"
  <2>1. ans'[c] = [res |-> "ok", outs |-> outs] \/ ans'[c].res = "error"
    BY <1>1, Context, CommitsFacts
  <2> QED BY <2>1
<1>2. Agrees(c) => row'[Home(c)] = Leaves(c)
  BY DEF Agrees
<1>3. CASE SqlStep(c)
  <2>1. CASE GetFirst(c)
    BY <2>1 DEF GetFirst, Answer
  <2>2. CASE Update(c)
    BY <1>1, <1>2, <2>2, UpdateAgrees DEF Update
  <2>3. CASE Insert(c)
    <3>1. row' = row \/ ans'[c].res = "error"
      BY <1>1, <2>3 DEF Insert, Answer
    <3> QED BY <1>2, <2>3, <3>1, InsertAgrees
  <2>4. CASE Upsert(c)
    BY <1>1, <1>2, <2>4, PlainAgrees DEF Upsert
  <2>5. CASE DeleteRow(c)
    BY <1>1, <1>2, <2>5, PlainAgrees DEF DeleteRow
  <2> QED BY <1>3, <2>1, <2>2, <2>3, <2>4, <2>5 DEF SqlStep
<1>4. CASE TxStep(c)
  <2>1. CASE TxRead(c)
    BY <2>1 DEF TxRead, Abort, Answer
  <2>2. CASE TxWrite(c) \/ TxInsert(c) \/ TxDelete(c)
    BY <2>2 DEF TxWrite, TxInsert, TxDelete, Abort, Answer, Writes, NextOp
  <2>3. CASE Commit(c)
    BY <1>1, <1>2, <2>3, CommitAgrees DEF Commit
  <2> QED BY <1>4, <2>1, <2>2, <2>3 DEF TxStep
<1>5. CASE StatementFails(c)
  BY <1>5 DEF StatementFails, Abort, Answer
<1> QED BY <1>3, <1>4, <1>5

\* Before its last step an SQL driver stores nothing that others see.
LEMMA SqlStoresLast ==
    ASSUME DInv, NEW c \in Clients, SqlStep(c) \/ TxStep(c) \/ StatementFails(c),
           pc'[c] # "done"
    PROVE  row' = row
<1>1. /\ \A r, outs : ~Commits(c, r, outs)
      /\ \A res, outs : ~Answer(c, res, outs)
  BY Context DEF TypeOK, Commits, Answer, Finish, Goto
<1>2. CASE SqlStep(c)
  BY <1>1, <1>2 DEF SqlStep, GetFirst, Update, Insert, Upsert, DeleteRow
<1>3. CASE TxStep(c)
  BY <1>1, <1>3 DEF TxStep, TxRead, TxWrite, TxInsert, TxDelete, Commit, Abort, Writes, NextOp
<1>4. CASE StatementFails(c)
  BY <1>1, <1>4 DEF StatementFails, Abort
<1> QED BY <1>2, <1>3, <1>4

\* An SQL driver changes a row only in the step that ends a request.  A request that is
\* refused leaves the document as it found it; one that fails does too, or has done the
\* whole of it with its answer lost.
THEOREM NoTraceOfFailures == Spec => FailuresLeaveNoTrace
<1> DEFINE NoTraceOf(c) ==
      \/ row'[Home(c)] = IF Flat THEN Here(c) ELSE Base(c)
      \/ /\ Flat /\ ans'[c].res = "error"
         /\ Overtaken(c) \/ row'[Home(c)] = Leaves(c)
      \/ ~Flat /\ (loc[c].late \/ loc[c].torn \/ (ans'[c].res = "error" /\ ~req[c].tx))
    NoTrace ==
      /\ Flat /\ row' # row => \E c \in Clients : Ends(c)
      /\ \A c \in Clients : Ends(c) /\ ans'[c].res # "ok" => NoTraceOf(c)
<1>1. DInv /\ [Next]_vars => NoTrace
  <2> SUFFICES ASSUME DInv, [Next]_vars PROVE NoTrace
    OBVIOUS
  <2>1. ASSUME NEW c \in Clients, Step(c), EmulatedStep(c) PROVE ~Flat
    BY <2>1, Context DEF EmulatedStep, Gather, ApplyRead, ApplyWrite, ApplyConflicts,
       Undo, UndoEnds, ReplyLost, RequestFails, UndoFails, Writing, Hand,
       EmulatedSteps, EmulatedHand
  <2>2. ASSUME Flat, row' # row PROVE \E c \in Clients : Ends(c)
    <3>1. PICK c \in Clients : Step(c)
      BY <2>2 DEF Next, Finished, vars
    <3>2. SqlStep(c) \/ TxStep(c) \/ StatementFails(c)
      BY <2>1, <2>2, <3>1, StepsAre DEF DInv, TypeOK
    <3>3. pc[c] # "done" /\ pc'[c] = "done"
      BY <2>2, <3>1, <3>2, SqlStoresLast DEF Step
    <3> QED BY <3>3 DEF Ends
  <2>3. ASSUME NEW c \in Clients, Ends(c), ans'[c].res # "ok" PROVE NoTraceOf(c)
    <3>1. /\ TypeOK /\ faults \in Nat /\ Step(c) /\ Hand(c)
          /\ pc[c] # "done" /\ pc'[c] = "done"
      BY <2>3, EndsByItself DEF DInv, TypeOK, Ends
    <3>2. CASE SqlStep(c) \/ TxStep(c) \/ StatementFails(c)
      <4>1. Flat
        BY <3>1, <3>2 DEF SqlStep, TxStep, StatementFails, GetFirst, Update, Insert,
           Upsert, DeleteRow, TxRead, TxWrite, TxInsert, TxDelete, Commit, Hand,
           PlainSteps, TxSteps, PlainHand, TxHand
      <4>2. \/ row' = row
            \/ ans'[c].res = "error" /\ (Overtaken(c) \/ row'[Home(c)] = Leaves(c))
        BY <2>3, <3>1, <3>2, SqlFailures
      <4> QED BY <4>1, <4>2 DEF Here
    <3>3. CASE EmulatedStep(c)
      <4>1. ~Flat
        BY <2>1, <3>1, <3>3
      <4> QED BY <2>3, <3>1, <3>3, <4>1, EmulatedFailures
    <3> QED BY <3>1, <3>2, <3>3, StepsAre
  <2> QED BY <2>2, <2>3
<1>2. Spec => [][NoTrace]_vars
  BY <1>1, InitKeeps, NextKeeps, PTL DEF Spec
<1> QED BY <1>2 DEF FailuresLeaveNoTrace

-----------------------------------------------------------------------------
(* What a driver selects (Queries), whatever the values: of one type, a       *)
(* column and a parameter compare as the values they come from.              *)

Scalar == ({"bool", "num"} \X Int) \cup ({"text"} \X (Nat \ {0}))
Value == Scalar \cup {Q!Null} \cup ({"arr"} \X Seq(Scalar \cup {Q!Null}))

LEMMA ScalarFacts ==
    ASSUME NEW a \in Scalar
    PROVE  /\ Q!Type(a) \in {"bool", "num", "text"} /\ a[2] \in Int
           /\ a = <<Q!Type(a), a[2]>>
  BY DEF Scalar, Q!Type

\* What a column gives of a value and what a parameter makes of one: to two values of one
\* type the engine does what the reference does.
LEMMA ColumnsKeepTheOrder ==
    ASSUME NEW e \in Q!SqlEngines, NEW a \in Scalar, NEW b \in Scalar, Q!Type(a) = Q!Type(b),
           Absent \notin Scalar
    PROVE  /\ Q!Column(e, a) \in Scalar /\ Q!Column(e, a) # Absent
           /\ Q!Column(e, a) = Q!Param(e, b) <=> a = b
           /\ Q!Under(e, Q!Column(e, a), Q!Param(e, b)) <=> Q!Below(a, b)
           /\ Q!Under(e, Q!Param(e, b), Q!Column(e, a)) <=> Q!Below(b, a)
<1> DEFINE c == Q!Column(e, a)
           p == Q!Param(e, b)
<1>1. /\ Q!Type(a) \in {"bool", "num", "text"} /\ a[2] \in Int /\ b[2] \in Int
      /\ a = <<Q!Type(a), a[2]>> /\ b = <<Q!Type(a), b[2]>>
  BY ScalarFacts
<1>2. PICK t \in {"num", "bool", "text"} : c = <<t, a[2]>> /\ p = <<t, b[2]>> /\ (Q!Type(a) # "bool" => t = Q!Type(a))
                                            /\ (t = "text" => Q!Type(a) = "text")
  <2>1. CASE e = "sqlite" /\ Q!Type(a) = "bool"
    <3>1. c = <<"num", a[2]>> /\ p = <<"num", b[2]>>
      BY <2>1, <1>1 DEF Q!Column, Q!Param, Q!Num
    <3> QED BY <3>1, <2>1
  <2>2. CASE ~(e = "sqlite" /\ Q!Type(a) = "bool")
    <3>1. c = a
      BY <2>2, <1>1 DEF Q!Column
    <3>2. p = b
      BY <2>2, <1>1 DEF Q!Param
    <3> QED BY <3>1, <3>2, <1>1
  <2> QED BY <2>1, <2>2
<1>3. c \in Scalar
  BY <1>1, <1>2 DEF Scalar, Q!Type
<1>4. a = b <=> a[2] = b[2]
  BY <1>1
<1>5. c = p <=> a[2] = b[2]
  BY <1>2
<1>6. /\ Q!Below(a, b) <=> a[2] < b[2]
      /\ Q!Below(b, a) <=> b[2] < a[2]
  BY <1>1, <1>4 DEF Q!Below, Q!Comparable, Q!IsScalar
<1>7. /\ Q!Type(c) = t /\ Q!Type(p) = t /\ c[2] = a[2] /\ p[2] = b[2] /\ t # "arr"
  BY <1>2 DEF Q!Type
<1>8. Q!Rank(e, c) = Q!Rank(e, p) /\ Q!Rank(e, c) \in Int
  BY <1>7 DEF Q!Rank
<1>9. /\ Q!Under(e, c, p) <=> a[2] < b[2]
      /\ Q!Under(e, p, c) <=> b[2] < a[2]
  BY <1>7, <1>8 DEF Q!Under
<1> QED BY <1>3, <1>4, <1>5, <1>6, <1>9

\* The operand of an operator, or its items; and the field, or its items.
Operand(op, w) == IF op \in {"in", "array-contains-any"} THEN Q!Items(w) ELSE {w}
Content(op, v) == IF op \in {"array-contains", "array-contains-any"}
                    THEN (IF Q!IsArr(v) THEN Q!Items(v) ELSE {}) ELSE {v} \ {Absent}

LEMMA OneTypeFacts ==
    ASSUME NEW v \in Value \cup {Absent}, NEW w \in Value, NEW op, Q!OneType(v, op, w),
           Absent \notin Value
    PROVE  /\ \A x \in Operand(op, w) \cup Content(op, v) : x \in Scalar /\ Q!IsScalar(x)
           /\ \A x, y \in Operand(op, w) \cup Content(op, v) : Q!Type(x) = Q!Type(y)
           /\ op \in {"in", "array-contains-any"} => Q!IsArr(w)
           /\ op \in {"array-contains", "array-contains-any"} => v = Absent \/ Q!IsArr(v)
<1>1. /\ \A x \in Operand(op, w) \cup Content(op, v) : Q!IsScalar(x)
      /\ \A x, y \in Operand(op, w) \cup Content(op, v) : Q!Type(x) = Q!Type(y)
      /\ op \in {"in", "array-contains-any"} => Q!IsArr(w)
      /\ op \in {"array-contains", "array-contains-any"} => v = Absent \/ Q!IsArr(v)
  BY Zenon DEF Q!OneType, Operand, Content
<1>2. ASSUME NEW x \in Value, Q!IsScalar(x) PROVE x \in Scalar
  BY <1>2 DEF Value, Q!IsScalar, Q!Null, Q!Type
<1>3. ASSUME NEW a \in Value, Q!IsArr(a) PROVE Q!Items(a) \subseteq Scalar \cup {Q!Null}
  <2>1. PICK s \in Seq(Scalar \cup {Q!Null}) : a = <<"arr", s>>
    <3>1. a \notin Scalar /\ a # Q!Null
      BY <1>3 DEF Q!IsArr, Q!Type, Scalar, Q!Null
    <3> QED BY <3>1 DEF Value
  <2>2. Q!Items(a) = {s[i] : i \in DOMAIN s}
    BY <2>1 DEF Q!Items, Q!ToSet
  <2> QED BY <2>1, <2>2
<1>4. \A x \in Operand(op, w) : x \in Value
  BY <1>1, <1>3 DEF Operand, Value
<1>5. \A x \in Content(op, v) : x \in Value
  BY <1>1, <1>3 DEF Content, Value, Q!IsArr
<1> QED BY <1>1, <1>2, <1>4, <1>5, Zenon

\* A comparison of two values of one type, in the words of the reference.
LEMMA ComparisonsAgree ==
    ASSUME NEW e \in Q!SqlEngines, NEW a \in Scalar, NEW b \in Scalar, Q!Type(a) = Q!Type(b),
           Absent \notin Value, NEW op \in Q!Comparisons
    PROVE  Q!SqlCompares(e, Q!Column(e, a), op, Q!Param(e, b)) = Q!Compares(a, op, b)
<1>1. /\ Q!Column(e, a) # Absent
      /\ Q!Under(e, Q!Column(e, a), Q!Param(e, b)) <=> Q!Below(a, b)
      /\ Q!Under(e, Q!Param(e, b), Q!Column(e, a)) <=> Q!Below(b, a)
  BY ColumnsKeepTheOrder, Absent \notin Scalar DEF Value
<1>2. a # Absent /\ Q!Comparable(a, b)
  BY ScalarFacts DEF Q!Comparable, Q!IsScalar, Value
<1>3. CASE op = ">"
  BY <1>1, <1>2, <1>3, Zenon DEF Q!SqlCompares, Q!Compares
<1>4. CASE op = "<"
  BY <1>1, <1>2, <1>4 DEF Q!SqlCompares, Q!Compares
<1>5. CASE op = ">="
  BY <1>1, <1>2, <1>5 DEF Q!SqlCompares, Q!Compares
<1>6. CASE op = "<="
  BY <1>1, <1>2, <1>6 DEF Q!SqlCompares, Q!Compares
<1> QED BY <1>3, <1>4, <1>5, <1>6 DEF Q!Comparisons

\* What the array of an array operator holds, to an engine and to the reference.
LEMMA ArraysAgree ==
    ASSUME NEW e \in Q!SqlEngines, NEW v \in Value \cup {Absent}, NEW x \in Scalar,
           Absent \notin Value, v = Absent \/ Q!IsArr(v),
           v # Absent => \A y \in Q!Items(v) : y \in Scalar /\ Q!Type(y) = Q!Type(x)
    PROVE  Q!Holds(e, v, x) = (Q!IsArr(v) /\ x \in Q!Items(v))
<1>1. ~Q!IsArr(x)
  BY ScalarFacts DEF Q!IsArr
<1>2. CASE v = Absent
  BY <1>2 DEF Q!Holds, Q!IsArr
<1>3. CASE v # Absent
  <2>1. Q!IsArr(v) /\ \A y \in Q!Items(v) : y \in Scalar /\ Q!Type(y) = Q!Type(x)
    BY <1>3
  <2>2. \A y \in Q!Items(v) : /\ Q!Column(e, y) # Absent
                              /\ Q!Column(e, y) = Q!Param(e, x) <=> y = x
    BY <2>1, ColumnsKeepTheOrder, Absent \notin Scalar DEF Value
  <2>3. Q!Holds(e, v, x) = \E y \in Q!Items(v) : /\ Q!Column(e, y) # Absent
                                                  /\ Q!Column(e, y) = Q!Param(e, x)
    BY <1>1, <1>3, <2>1 DEF Q!Holds
  <2> QED BY <2>1, <2>2, <2>3
<1> QED BY <1>2, <1>3

\* SQLite and MySQL.
LEMMA TextDriversAgree ==
    ASSUME NEW e \in {"sqlite", "mysql"}, NEW v \in Value \cup {Absent}, NEW w \in Value,
           NEW op \in Q!Operators, Absent \notin Value, Q!OneType(v, op, w)
    PROVE  Q!TextFilter(e, v, op, w) = Q!Matches(v, op, w)
<1> DEFINE W == Operand(op, w)
           V == Content(op, v)
           c == Q!Column(e, v)
<1>1. /\ \A x \in W \cup V : x \in Scalar /\ Q!IsScalar(x)
      /\ \A x, y \in W \cup V : Q!Type(x) = Q!Type(y)
      /\ op \in {"in", "array-contains-any"} => Q!IsArr(w)
      /\ op \in {"array-contains", "array-contains-any"} => v = Absent \/ Q!IsArr(v)
  BY OneTypeFacts
<1>2. e \in Q!SqlEngines /\ Absent \notin Scalar
  BY DEF Q!SqlEngines, Value
<1>3. Q!Column(e, Absent) = Absent
  BY DEF Q!Column
<1>4. ASSUME NEW x \in W, op \notin {"array-contains", "array-contains-any"}
      PROVE  c = Q!Param(e, x) <=> v = x
  <2>1. CASE v = Absent
    <3>1. Q!Column(e, x) = Q!Param(e, x) /\ Q!Column(e, x) # Absent /\ x # Absent
      BY <1>1, <1>2, ColumnsKeepTheOrder
    <3> QED BY <2>1, <3>1, <1>3
  <2>2. CASE v # Absent
    <3>1. v \in V
      BY <2>2, <1>4 DEF Content
    <3> QED BY <3>1, <1>1, <1>2, ColumnsKeepTheOrder
  <2> QED BY <2>1, <2>2
<1>5. ASSUME NEW x \in W, op \in {"array-contains", "array-contains-any"}
      PROVE  Q!Holds(e, v, x) = (Q!IsArr(v) /\ x \in Q!Items(v))
  <2>1. v # Absent => Q!IsArr(v) /\ Q!Items(v) = V
    BY <1>1, <1>5 DEF Content
  <2>2. v # Absent => \A y \in Q!Items(v) : y \in Scalar /\ Q!Type(y) = Q!Type(x)
    BY <1>1, <2>1
  <2>3. x \in Scalar /\ (v = Absent \/ Q!IsArr(v))
    BY <1>1, <1>5
  <2> QED BY <2>2, <2>3, <1>2, ArraysAgree
<1>6. CASE op = "=="
  <2>1. w \in W /\ Q!IsScalar(w)
    BY <1>1, <1>6 DEF Operand
  <2>2. c = Q!Param(e, w) <=> v = w
    BY <2>1, <1>4, <1>6
  <2> QED BY <2>1, <2>2, <1>6 DEF Q!TextFilter, Q!Matches
<1>7. CASE op = "!="
  <2>1. w \in W /\ Q!IsScalar(w)
    BY <1>1, <1>7 DEF Operand
  <2>2. c = Q!Param(e, w) <=> v = w
    BY <2>1, <1>4, <1>7
  <2> QED BY <2>1, <2>2, <1>7 DEF Q!TextFilter, Q!Matches, Q!SqlNotEqual
<1>8. CASE op = "in"
  <2>1. W = Q!Items(w) /\ Q!IsArr(w)
    BY <1>1, <1>8 DEF Operand
  <2>2. \A x \in Q!Items(w) : Q!IsScalar(x) /\ (c = Q!Param(e, x) <=> v = x)
    BY <2>1, <1>1, <1>4, <1>8
  <2>3. Q!Matches(v, op, w) = (v \in Q!Items(w))
    BY <2>1, <1>8 DEF Q!Matches
  <2> DEFINE Hit(x) == IF Q!IsScalar(x) THEN c = Q!Param(e, x) ELSE c = Absent
  <2>4. Q!TextFilter(e, v, op, w) = \E x \in Q!Items(w) : Hit(x)
    BY <2>1, <1>8 DEF Q!TextFilter
  <2>5. \A x \in Q!Items(w) : Hit(x) <=> v = x
    BY <2>2
  <2> HIDE DEF Hit, c, W, V
  <2>6. (\E x \in Q!Items(w) : Hit(x)) <=> v \in Q!Items(w)
    BY <2>5, Zenon
  <2> DEFINE hits == \E x \in Q!Items(w) : Hit(x)
  <2>7. hits \in BOOLEAN /\ (hits <=> v \in Q!Items(w)) /\ Q!TextFilter(e, v, op, w) = hits
    BY <2>4, <2>6, Zenon
  <2> HIDE DEF hits
  <2> QED BY <2>3, <2>7
<1>9. CASE op = "array-contains"
  <2>1. w \in W /\ Q!IsScalar(w)
    BY <1>1, <1>9 DEF Operand
  <2>2. Q!Holds(e, v, w) = (Q!IsArr(v) /\ w \in Q!Items(v))
    BY <2>1, <1>5, <1>9
  <2> QED BY <2>1, <2>2, <1>9 DEF Q!TextFilter, Q!Matches
<1>10. CASE op = "array-contains-any"
  <2>1. W = Q!Items(w) /\ Q!IsArr(w)
    BY <1>1, <1>10 DEF Operand
  <2>2. \A x \in Q!Items(w) : /\ Q!IsScalar(x)
                              /\ Q!Holds(e, v, x) = (Q!IsArr(v) /\ x \in Q!Items(v))
    BY <2>1, <1>1, <1>5, <1>10
  <2>3. Q!Matches(v, op, w) = (Q!IsArr(v) /\ Q!Items(v) \cap Q!Items(w) # {})
    BY <2>1, <1>10 DEF Q!Matches
  <2>4. Q!TextFilter(e, v, op, w) = \E x \in Q!Items(w) : Q!Holds(e, v, x)
    BY <2>1, <2>2, <1>10 DEF Q!TextFilter
  <2> QED BY <2>2, <2>3, <2>4, <1>10
<1>11. CASE op \in Q!Comparisons
  <2>1. w \in W /\ Q!IsScalar(w) /\ w \in Scalar
    BY <1>1, <1>11 DEF Operand, Q!Comparisons
  <2>2. /\ Q!TextFilter(e, v, op, w) = Q!SqlCompares(e, c, op, Q!Param(e, w))
        /\ Q!Matches(v, op, w) = Q!Compares(v, op, w)
    BY <2>1, <1>11 DEF Q!TextFilter, Q!Matches, Q!Comparisons
  <2>3. CASE v = Absent
    BY <2>2, <2>3, <1>3, <1>11 DEF Q!SqlCompares, Q!Compares
  <2>4. CASE v # Absent
    <3>1. v \in V
      BY <2>4, <1>11 DEF Content, Q!Comparisons
    <3>2. v \in Scalar /\ Q!Type(v) = Q!Type(w)
      BY <3>1, <2>1, <1>1
    <3> QED BY <3>2, <2>1, <2>2, <1>2, <1>11, ComparisonsAgree
  <2> QED BY <2>3, <2>4
<1> QED BY <1>6, <1>7, <1>8, <1>9, <1>10, <1>11 DEF Q!Operators

LEMMA PostgresAgrees ==
    ASSUME NEW v \in Value \cup {Absent}, NEW w \in Value, NEW op \in Q!Operators,
           Absent \notin Value, Q!OneType(v, op, w), op = "!=" => v # Absent
    PROVE  Q!PgFilter(v, op, w) = Q!Matches(v, op, w)
<1> DEFINE e == "postgres"
           W == Operand(op, w)
           V == Content(op, v)
<1>1. /\ \A x \in W \cup V : x \in Scalar /\ Q!IsScalar(x)
      /\ \A x, y \in W \cup V : Q!Type(x) = Q!Type(y)
      /\ op \in {"in", "array-contains-any"} => Q!IsArr(w)
      /\ op \in {"array-contains", "array-contains-any"} => v = Absent \/ Q!IsArr(v)
  BY OneTypeFacts
<1>2. e \in Q!SqlEngines /\ Absent \notin Scalar
  BY DEF Q!SqlEngines, Value
<1>3. CASE op = "=="
  BY <1>3 DEF Q!PgFilter, Q!Matches
<1>4. CASE op = "!="
  BY <1>4 DEF Q!PgFilter, Q!Matches
<1>5. CASE op = "in"
  BY <1>1, <1>5 DEF Q!PgFilter, Q!Matches
<1>6. ASSUME NEW x \in W, op \in {"array-contains", "array-contains-any"}
      PROVE  Q!Holds(e, v, x) = (Q!IsArr(v) /\ x \in Q!Items(v))
  <2>1. v # Absent => Q!IsArr(v) /\ Q!Items(v) = V
    BY <1>1, <1>6 DEF Content
  <2>2. v # Absent => \A y \in Q!Items(v) : y \in Scalar /\ Q!Type(y) = Q!Type(x)
    BY <1>1, <2>1
  <2>3. x \in Scalar /\ (v = Absent \/ Q!IsArr(v))
    BY <1>1, <1>6
  <2> HIDE DEF e
  <2> QED BY <2>2, <2>3, <1>2, ArraysAgree
<1>7. CASE op = "array-contains"
  <2>1. w \in W
    BY <1>7 DEF Operand
  <2> QED BY <2>1, <1>6, <1>7 DEF Q!PgFilter, Q!Matches
<1>8. CASE op = "array-contains-any"
  <2>1. W = Q!Items(w) /\ Q!IsArr(w)
    BY <1>1, <1>8 DEF Operand
  <2>2. \A x \in Q!Items(w) : Q!Holds(e, v, x) = (Q!IsArr(v) /\ x \in Q!Items(v))
    BY <2>1, <1>6, <1>8
  <2>3. Q!Matches(v, op, w) = (Q!IsArr(v) /\ Q!Items(v) \cap Q!Items(w) # {})
    BY <2>1, <1>8 DEF Q!Matches
  <2>4. Q!PgFilter(v, op, w) = \E x \in Q!Items(w) : Q!Holds(e, v, x)
    BY <2>1, <1>8 DEF Q!PgFilter
  <2> QED BY <2>2, <2>3, <2>4
<1>9. CASE op \in Q!Comparisons
  <2>1. w \in W /\ w \in Scalar
    BY <1>1, <1>9 DEF Operand, Q!Comparisons
  <2>2. /\ Q!PgFilter(v, op, w) = Q!SqlCompares(e, v, op, w)
        /\ Q!Matches(v, op, w) = Q!Compares(v, op, w)
    BY <1>9 DEF Q!PgFilter, Q!Matches, Q!Comparisons
  <2>3. CASE v = Absent
    BY <2>2, <2>3, <1>9 DEF Q!SqlCompares, Q!Compares
  <2>4. CASE v # Absent
    <3>1. v \in V
      BY <2>4, <1>9 DEF Content, Q!Comparisons
    <3>2. v \in Scalar /\ Q!Type(v) = Q!Type(w)
      BY <3>1, <2>1, <1>1
    <3>3. Q!Column(e, v) = v /\ Q!Param(e, w) = w
      BY DEF Q!Column, Q!Param
    <3> HIDE DEF e
    <3>4. Q!SqlCompares(e, Q!Column(e, v), op, Q!Param(e, w)) = Q!Compares(v, op, w)
      BY <3>2, <2>1, <1>2, <1>9, ComparisonsAgree
    <3> QED BY <3>3, <3>4, <2>2
  <2> QED BY <2>3, <2>4
<1> QED BY <1>3, <1>4, <1>5, <1>7, <1>8, <1>9 DEF Q!Operators

LEMMA FilteredAlike ==
    ASSUME Absent \notin Value, NEW v \in Value \cup {Absent}, NEW w \in Value,
           NEW op \in Q!Operators, NEW e \in Q!AllEngines,
           Q!OneType(v, op, w), ~(e = "postgres" /\ op = "!=" /\ v = Absent)
    PROVE  Q!Filtered(e, v, op, w) = Q!Matches(v, op, w)
<1>1. CASE e \in {"sqlite", "mysql"}
  BY <1>1, TextDriversAgree DEF Q!Filtered, Q!SqliteFilter, Q!MysqlFilter
<1>2. CASE e = "postgres"
  BY <1>2, PostgresAgrees DEF Q!Filtered
<1>3. CASE e = "rethinkdb"
  <2>1. Q!Filtered(e, v, op, w) = Q!RethinkFilter(v, op, w)
    BY <1>3 DEF Q!Filtered
  <2>2. Q!PushableEq(op, w) => (Q!Matches(v, op, w) <=> v = w)
    BY DEF Q!PushableEq, Q!Matches
  <2>3. Q!Matches(v, op, w) \in BOOLEAN
    BY DEF Q!Matches, Q!Compares
  <2> QED BY <2>1, <2>2, <2>3 DEF Q!RethinkFilter
<1> QED BY <1>1, <1>2, <1>3 DEF Q!AllEngines, Q!SqlEngines

\* Whatever the values of the field and the filter are, as long as they are of one type:
\* every driver selects what doc_matches selects, but for "!=" on a field that PostgreSQL
\* does not find (push_filter, pushable_eq).
THEOREM DriversFilterAlike ==
    ASSUME Absent \notin Value, NEW v \in Value \cup {Absent}, NEW w \in Value,
           NEW op \in Q!Operators, input = <<"filter", v, op, w>>
    PROVE  FiltersAgree
<1>1. \A e \in Q!AllEngines : Q!FilterAgrees(e, v, op, w)
  BY FilteredAlike DEF Q!FilterAgrees
<1>2. input[2] = v /\ input[3] = op /\ input[4] = w
  OBVIOUS
<1> QED BY <1>1, <1>2 DEF FiltersAgree

-----------------------------------------------------------------------------
(* Lists *)

\* f goes through the positions W, each once, in the order R.
Lists(f, W, R) == /\ f \in Seq(W)
                  /\ \A i, j \in 1..Len(f) : i < j => <<f[i], f[j]>> \in R
                  /\ \A w \in W : \E i \in 1..Len(f) : f[i] = w

\* The documents at those positions.
Rows(ds, f) == [i \in 1..Len(f) |-> ds[f[i]]]

Less == {p \in Nat \X Nat : p[1] < p[2]}
Asymmetric(R, W) == \A a, b \in W : <<a, b>> \in R => <<b, a>> \notin R

LEMMA LessIsAsymmetric == ASSUME NEW W PROVE Asymmetric(Less, W)
  BY DEF Less, Asymmetric

LEMMA ListFacts ==
    ASSUME NEW f, NEW W, NEW R, Lists(f, W, R)
    PROVE  /\ f \in Seq(W) /\ Len(f) \in Nat /\ DOMAIN f = 1..Len(f)
           /\ f \in [1..Len(f) -> W]
           /\ \A i \in 1..Len(f) : f[i] \in W
           /\ Asymmetric(R, W) => \A i, j \in 1..Len(f) : f[i] = f[j] => i = j
<1>1. f \in Seq(W) /\ Len(f) \in Nat /\ f \in [1..Len(f) -> W]
  BY LenProperties DEF Lists
<1>2. ASSUME Asymmetric(R, W), NEW i \in 1..Len(f), NEW j \in 1..Len(f), f[i] = f[j]
      PROVE  i = j
  <2>1. f[i] \in W /\ <<f[i], f[i]>> \notin R
    BY <1>1, <1>2 DEF Asymmetric
  <2>2. ~(i < j) /\ ~(j < i)
    BY <2>1, <1>2 DEF Lists
  <2> QED BY <2>2, <1>1
<1> QED BY <1>1, <1>2

LEMMA OneLeads ==
    ASSUME NEW W, NEW R, Asymmetric(R, W), NEW f, NEW g, Lists(f, W, R), Lists(g, W, R)
    PROVE  \A i \in 1..Len(f) : i \in 1..Len(g) /\ g[i] = f[i]
<1> DEFINE T == {i \in 1..Len(f) : ~(i \in 1..Len(g) /\ g[i] = f[i])}
<1>1. /\ Len(f) \in Nat /\ Len(g) \in Nat
      /\ \A i \in 1..Len(f) : f[i] \in W
      /\ \A i \in 1..Len(g) : g[i] \in W
      /\ \A i, j \in 1..Len(f) : f[i] = f[j] => i = j
      /\ \A i, j \in 1..Len(g) : g[i] = g[j] => i = j
  BY ListFacts
<1>2. ASSUME T # {} PROVE FALSE
  <2>1. PICK n \in T : \A m \in T : n <= m
    <3>1. T \subseteq Nat
      BY <1>1
    <3> HIDE DEF T
    <3> QED BY <3>1, <1>2, LeastNat
  <2>2. n \in 1..Len(f) /\ ~(n \in 1..Len(g) /\ g[n] = f[n])
    BY <2>1
  <2>3. \A m \in 1..n - 1 : m \in 1..Len(f) /\ m \in 1..Len(g) /\ g[m] = f[m]
    <3> SUFFICES ASSUME NEW m \in 1..n - 1
                 PROVE  m \in 1..Len(f) /\ m \in 1..Len(g) /\ g[m] = f[m]
      OBVIOUS
    <3>1. m \in 1..Len(f) /\ ~(n <= m)
      BY <1>1, <2>2
    <3> QED BY <3>1, <2>1
  <2> HIDE DEF T
  <2>4. PICK k \in 1..Len(g) : g[k] = f[n]
    BY <1>1, <2>2 DEF Lists
  <2>5. ASSUME k < n PROVE FALSE
    <3>1. k \in 1..n - 1
      BY <1>1, <2>2, <2>5
    <3>2. k \in 1..Len(f) /\ f[k] = f[n]
      BY <3>1, <2>3, <2>4
    <3> QED BY <3>1, <3>2, <2>2, <1>1
  <2>6. n \in 1..Len(g) /\ n < k
    <3>1. n \in 1..Len(g)
      BY <2>5, <2>4, <2>2, <1>1
    <3> QED BY <3>1, <2>5, <2>4, <2>2, <1>1
  <2>7. <<g[n], f[n]>> \in R
    BY <2>4, <2>6 DEF Lists
  <2>8. PICK m \in 1..Len(f) : f[m] = g[n]
    BY <1>1, <2>6 DEF Lists
  <2>9. ASSUME m < n PROVE FALSE
    <3>1. m \in 1..n - 1
      BY <1>1, <2>2, <2>9
    <3>2. m \in 1..Len(g) /\ g[m] = g[n]
      BY <3>1, <2>3, <2>8
    <3> QED BY <3>1, <3>2, <2>6, <1>1
  <2>10. n < m
    BY <2>9, <2>8, <2>6, <2>2, <1>1
  <2>11. <<f[n], g[n]>> \in R
    BY <2>2, <2>8, <2>10 DEF Lists
  <2>12. f[n] \in W /\ g[n] \in W
    BY <1>1, <2>2, <2>6
  <2> QED BY <2>7, <2>11, <2>12 DEF Asymmetric
<1> QED BY <1>2

\* What is listed, and in which order, decides the list.
LEMMA OneListing ==
    ASSUME NEW W, NEW R, Asymmetric(R, W), NEW f, NEW g, Lists(f, W, R), Lists(g, W, R)
    PROVE  f = g
<1>1. Len(f) \in Nat /\ Len(g) \in Nat
  BY ListFacts
<1>2. \A i \in 1..Len(f) : i \in 1..Len(g) /\ g[i] = f[i]
  BY OneLeads
<1>3. \A i \in 1..Len(g) : i \in 1..Len(f)
  BY OneLeads
<1>4. Len(f) = Len(g)
  <2>1. Len(g) <= Len(f)
    BY <1>1, <1>3
  <2>2. Len(f) <= Len(g)
    BY <1>1, <1>2
  <2> QED BY <1>1, <2>1, <2>2
<1>5. f \in [1..Len(f) -> W] /\ g \in [1..Len(g) -> W]
  BY ListFacts
<1> QED BY <1>2, <1>4, <1>5

LEMMA RowsFacts ==
    ASSUME NEW ds, NEW f, Len(f) \in Nat
    PROVE  /\ Len(Rows(ds, f)) = Len(f) /\ DOMAIN Rows(ds, f) = 1..Len(f)
           /\ \A i \in 1..Len(f) : Rows(ds, f)[i] = ds[f[i]]
<1>1. DOMAIN Rows(ds, f) = 1..Len(f)
  BY DEF Rows
<1>2. Rows(ds, f) \in Seq({ds[f[i]] : i \in 1..Len(f)})
  BY SeqDef DEF Rows
<1>3. Len(Rows(ds, f)) = Len(f)
  BY <1>1, <1>2, LenProperties
<1> QED BY <1>1, <1>3 DEF Rows

\* Rows of rows.
LEMMA RowsOfRows ==
    ASSUME NEW ds, NEW f, Len(f) \in Nat, NEW h, Len(h) \in Nat,
           \A i \in 1..Len(h) : h[i] \in 1..Len(f)
    PROVE  Rows(Rows(ds, f), h) = Rows(ds, Rows(f, h))
<1>1. /\ Len(Rows(f, h)) = Len(h)
      /\ \A i \in 1..Len(h) : Rows(f, h)[i] = f[h[i]]
  BY RowsFacts
<1>2. \A i \in 1..Len(h) : Rows(ds, f)[h[i]] = ds[f[h[i]]]
  BY RowsFacts
<1>3. \A i \in 1..Len(h) : Rows(ds, f)[h[i]] = ds[Rows(f, h)[i]]
  BY <1>1, <1>2
<1> QED BY <1>1, <1>3 DEF Rows

\* A part of a list, and a list of its positions, make a list.
LEMMA ListOfList ==
    ASSUME NEW f, NEW W, NEW R, Lists(f, W, R), NEW S \in SUBSET (1..Len(f)),
           NEW h, NEW O, Lists(h, S, O), NEW V, NEW R2,
           \A i \in S : f[i] \in V,
           \A v \in V : \E i \in S : f[i] = v,
           \A i, j \in S : <<i, j>> \in O => <<f[i], f[j]>> \in R2
    PROVE  Lists(Rows(f, h), V, R2)
<1>1. /\ Len(h) \in Nat /\ \A i \in 1..Len(h) : h[i] \in S
  BY ListFacts
<1>2. /\ Len(Rows(f, h)) = Len(h)
      /\ \A i \in 1..Len(h) : Rows(f, h)[i] = f[h[i]]
  BY <1>1, RowsFacts
<1>3. Rows(f, h) \in Seq(V)
  <2>1. Rows(f, h) \in [1..Len(h) -> V]
    BY <1>1 DEF Rows
  <2> QED BY <2>1, <1>1, SeqDef
<1>4. ASSUME NEW i \in 1..Len(h), NEW j \in 1..Len(h), i < j
      PROVE  <<f[h[i]], f[h[j]]>> \in R2
  <2>1. <<h[i], h[j]>> \in O
    BY <1>4 DEF Lists
  <2> QED BY <2>1, <1>1
<1>5. ASSUME NEW v \in V PROVE \E i \in 1..Len(h) : f[h[i]] = v
  <2>1. PICK k \in S : f[k] = v
    OBVIOUS
  <2>2. PICK i \in 1..Len(h) : h[i] = k
    BY DEF Lists
  <2> QED BY <2>1, <2>2
<1>6. \A i, j \in 1..Len(h) : i < j => <<Rows(f, h)[i], Rows(f, h)[j]>> \in R2
  BY <1>2, <1>4
<1>7. \A v \in V : \E i \in 1..Len(h) : Rows(f, h)[i] = v
  BY <1>2, <1>5
<1> QED BY <1>2, <1>3, <1>6, <1>7 DEF Lists

\* All positions, as they are.
LEMMA AllInTurn ==
    ASSUME NEW n \in Nat
    PROVE  LET f == [i \in 1..n |-> i] IN Len(f) = n /\ Lists(f, 1..n, Less)
<1> DEFINE f == [i \in 1..n |-> i]
<1>1. f \in [1..n -> 1..n]
  OBVIOUS
<1>2. f \in Seq(1..n)
  BY <1>1, SeqDef
<1>3. Len(f) = n
  BY <1>2, LenProperties
<1> QED BY <1>2, <1>3 DEF Lists, Less

-----------------------------------------------------------------------------
(* Keeping some of a list *)

\* The recursion of Kept is well defined.
LEMMA KeptDef ==
    ASSUME NEW ds, NEW S, Len(ds) \in Nat
    PROVE  LET K == Q!Kept(ds, S) IN
           /\ K[0] = <<>>
           /\ \A n \in 1..Len(ds) :
                K[n] = IF n \in S THEN Append(K[n - 1], ds[n]) ELSE K[n - 1]
<1> DEFINE Eq(g, n) == IF n = 0 THEN <<>>
                       ELSE IF n \in S THEN Append(g[n - 1], ds[n]) ELSE g[n - 1]
           T == {m \in Nat : ~\E g : g = [n \in 0..m |-> Eq(g, n)]}
           K == Q!Kept(ds, S)
<1>1. ASSUME T # {} PROVE FALSE
  <2>1. PICK m \in T : \A p \in T : m <= p
    <3>1. T \subseteq Nat OBVIOUS
    <3> HIDE DEF T
    <3> QED BY <3>1, <1>1, LeastNat
  <2>2. m # 0
    <3> DEFINE z == [n \in 0..0 |-> <<>>]
    <3>1. z = [n \in 0..0 |-> Eq(z, n)]
      OBVIOUS
    <3> QED BY <3>1
  <2>3. m - 1 \in Nat /\ m - 1 \notin T
    <3>1. T \subseteq Nat OBVIOUS
    <3> HIDE DEF T
    <3> QED BY <3>1, <2>1, <2>2
  <2>4. PICK g : g = [n \in 0..m - 1 |-> Eq(g, n)]
    BY <2>3
  <2> DEFINE Last == IF m \in S THEN Append(g[m - 1], ds[m]) ELSE g[m - 1]
             h == [n \in 0..m |-> IF n = m THEN Last ELSE g[n]]
  <2>5. h = [n \in 0..m |-> Eq(h, n)]
    <3> HIDE DEF Last
    <3>1. ASSUME NEW n \in 0..m PROVE h[n] = Eq(h, n)
      <4>1. m \in Nat OBVIOUS
      <4>2. CASE n = m
        <5>1. h[n] = Last /\ h[n - 1] = g[m - 1]
          BY <4>1, <4>2, <2>2
        <5> QED BY <5>1, <4>2, <2>2 DEF Last
      <4>3. CASE n # m
        <5>1. n \in 0..m - 1 /\ h[n] = g[n]
          BY <4>1, <4>3
        <5>2. g[n] = Eq(g, n)
          BY <5>1, <2>4
        <5>3. CASE n = 0
          BY <5>1, <5>2, <5>3
        <5>4. CASE n # 0
          <6>1. h[n - 1] = g[n - 1]
            BY <4>1, <5>1, <5>4
          <6> QED BY <5>1, <5>2, <5>4, <6>1
        <5> QED BY <5>3, <5>4
      <4> QED BY <4>2, <4>3
    <3> HIDE DEF Eq
    <3>2. h = [n \in 0..m |-> h[n]]
      OBVIOUS
    <3> HIDE DEF h
    <3> QED BY <3>1, <3>2
  <2> HIDE DEF h, Last, Eq
  <2> QED BY <2>5, <2>1
<1>2. K = [n \in 0..Len(ds) |-> Eq(K, n)]
  <2>1. \E g : g = [n \in 0..Len(ds) |-> Eq(g, n)]
    BY <1>1
  <2> QED BY <2>1 DEF Q!Kept
<1> HIDE DEF K
<1>3. K[0] = <<>>
  BY <1>2
<1>4. ASSUME NEW n \in 1..Len(ds)
      PROVE  K[n] = IF n \in S THEN Append(K[n - 1], ds[n]) ELSE K[n - 1]
  <2>1. n \in 0..Len(ds) /\ n # 0
    OBVIOUS
  <2> QED BY <1>2, <2>1
<1> QED BY <1>3, <1>4 DEF K

\* One more position.
LEMMA ListGrows ==
    ASSUME NEW n \in Nat, n # 0, NEW W, W \subseteq 1..n - 1, NEW h, Lists(h, W, Less), NEW ds
    PROVE  /\ Lists(Append(h, n), W \cup {n}, Less)
           /\ Rows(ds, Append(h, n)) = Append(Rows(ds, h), ds[n])
<1> DEFINE g == Append(h, n)
           k == Len(h)
<1>1. h \in Seq(W) /\ k \in Nat /\ \A i \in 1..k : h[i] \in W
  BY ListFacts
<1>2. h \in Seq(W \cup {n})
  <2>1. h \in [1..k -> W]
    BY ListFacts
  <2>2. h \in [1..k -> W \cup {n}]
    BY <2>1
  <2> QED BY <2>2, <1>1, SeqDef
<1>3. /\ g \in Seq(W \cup {n}) /\ Len(g) = k + 1 /\ g[k + 1] = n
      /\ \A i \in 1..k : g[i] = h[i]
  BY <1>2, AppendProperties
<1> HIDE DEF g
<1>4. ASSUME NEW i \in 1..k + 1, NEW j \in 1..k + 1, i < j PROVE <<g[i], g[j]>> \in Less
  <2>1. i \in 1..k
    BY <1>1, <1>4
  <2> HIDE DEF k
  <2>5. g[i] = h[i] /\ h[i] \in W
    BY <1>1, <1>3, <2>1
  <2>6. h[i] \in Nat /\ h[i] < n
    <3>1. h[i] \in 1..n - 1
      BY <2>5
    <3> QED BY <3>1
  <2>2. CASE j = k + 1
    BY <2>5, <2>6, <2>2, <1>3 DEF Less
  <2>3. CASE j # k + 1
    <3>1. j \in 1..k /\ g[j] = h[j]
      BY <1>1, <1>3, <2>3
    <3> QED BY <3>1, <2>1, <2>5, <1>4 DEF Lists, k
  <2> QED BY <2>2, <2>3
<1>5. ASSUME NEW w \in W \cup {n} PROVE \E i \in 1..k + 1 : g[i] = w
  <2>1. CASE w = n
    BY <2>1, <1>1, <1>3
  <2>2. CASE w # n
    <3>1. PICK i \in 1..k : h[i] = w
      BY <2>2 DEF Lists
    <3>2. i \in 1..k + 1 /\ g[i] = w
      BY <3>1, <1>1, <1>3
    <3> QED BY <3>2
  <2> QED BY <2>1, <2>2
<1>6. Lists(g, W \cup {n}, Less)
  BY <1>3, <1>4, <1>5 DEF Lists
<1> DEFINE r == Rows(ds, h)
           D == {ds[h[i]] : i \in 1..k} \cup {ds[n]}
<1>7. /\ Len(r) = k /\ DOMAIN r = 1..k /\ \A i \in 1..k : r[i] = ds[h[i]]
      /\ Len(Rows(ds, g)) = k + 1 /\ DOMAIN Rows(ds, g) = 1..k + 1
      /\ \A i \in 1..k + 1 : Rows(ds, g)[i] = ds[g[i]]
  BY <1>1, <1>3, RowsFacts
<1>8. r \in Seq(D)
  <2>1. r \in [1..k -> D]
    BY DEF Rows
  <2>2. k \in Nat
    BY <1>1
  <2> HIDE DEF r, k, D
  <2> QED BY <2>1, <2>2, SeqDef
<1>9. /\ Append(r, ds[n]) \in Seq(D) /\ Len(Append(r, ds[n])) = k + 1
      /\ Append(r, ds[n])[k + 1] = ds[n]
      /\ \A i \in 1..k : Append(r, ds[n])[i] = r[i]
  BY <1>7, <1>8, AppendProperties
<1>10. \A i \in 1..k + 1 : Rows(ds, g)[i] = Append(r, ds[n])[i]
  <2> SUFFICES ASSUME NEW i \in 1..k + 1 PROVE Rows(ds, g)[i] = Append(r, ds[n])[i]
    OBVIOUS
  <2>1. CASE i = k + 1
    BY <2>1, <1>3, <1>7, <1>9
  <2>2. CASE i \in 1..k
    BY <2>2, <1>3, <1>7, <1>9
  <2>3. i = k + 1 \/ i \in 1..k
    <3>1. k \in Nat
      BY <1>1
    <3> HIDE DEF k
    <3> QED BY <3>1
  <2> QED BY <2>1, <2>2, <2>3
<1>11. Append(r, ds[n]) = [i \in 1..k + 1 |-> Append(r, ds[n])[i]]
  BY <1>9, LenProperties
<1>12. Rows(ds, g) = [i \in 1..k + 1 |-> Rows(ds, g)[i]]
  BY <1>7 DEF Rows
<1> HIDE DEF r
<1>13. Rows(ds, g) = Append(r, ds[n])
  BY <1>10, <1>11, <1>12
<1> QED BY <1>6, <1>13 DEF g, r

\* Keep goes through the positions it is given, in their order.
LEMMA KeepPicks ==
    ASSUME NEW ds, NEW S, Len(ds) \in Nat
    PROVE  \E h : Lists(h, S \cap (1..Len(ds)), Less) /\ Q!Keep(ds, S) = Rows(ds, h)
<1> DEFINE K == Q!Kept(ds, S)
           P(n) == \E h : Lists(h, S \cap (1..n), Less) /\ K[n] = Rows(ds, h)
           T == {n \in 0..Len(ds) : ~P(n)}
<1>1. /\ K[0] = <<>>
      /\ \A n \in 1..Len(ds) : K[n] = IF n \in S THEN Append(K[n - 1], ds[n]) ELSE K[n - 1]
  BY KeptDef
<1> HIDE DEF K
<1>2. P(0)
  <2>1. Lists(<<>>, S \cap (1..0), Less)
    <3>1. S \cap (1..0) = {} /\ <<>> \in Seq(S \cap (1..0)) /\ Len(<<>>) = 0
      BY EmptySeq
    <3> QED BY <3>1 DEF Lists
  <2>2. Rows(ds, <<>>) = <<>>
    BY DEF Rows
  <2> QED BY <2>1, <2>2, <1>1
<1>3. ASSUME NEW n \in 1..Len(ds), P(n - 1) PROVE P(n)
  <2>1. PICK h : Lists(h, S \cap (1..n - 1), Less) /\ K[n - 1] = Rows(ds, h)
    BY <1>3
  <2>2. n \in Nat /\ n # 0
    OBVIOUS
  <2>3. CASE n \in S
    <3>1. S \cap (1..n) = (S \cap (1..n - 1)) \cup {n}
      BY <2>3
    <3>2. /\ Lists(Append(h, n), S \cap (1..n), Less)
          /\ Rows(ds, Append(h, n)) = Append(Rows(ds, h), ds[n])
      <4> DEFINE W == S \cap (1..n - 1)
      <4>1. W \subseteq 1..n - 1 /\ Lists(h, W, Less) /\ S \cap (1..n) = W \cup {n}
        BY <3>1, <2>1
      <4> HIDE DEF W
      <4> QED BY <4>1, <2>2, ListGrows
    <3>3. K[n] = Append(K[n - 1], ds[n])
      BY <1>1, <2>3
    <3> QED BY <3>2, <3>3, <2>1
  <2>4. CASE n \notin S
    <3>1. S \cap (1..n) = S \cap (1..n - 1)
      BY <2>4
    <3>2. K[n] = K[n - 1]
      BY <1>1, <2>4
    <3> QED BY <3>1, <3>2, <2>1
  <2> QED BY <2>3, <2>4
<1> HIDE DEF P
<1>4. ASSUME T # {} PROVE FALSE
  <2>1. PICK n \in T : \A m \in T : n <= m
    <3>1. T \subseteq Nat
      OBVIOUS
    <3> HIDE DEF T
    <3> QED BY <3>1, <1>4, LeastNat
  <2>2. n \in 0..Len(ds) /\ ~P(n) /\ n # 0
    BY <2>1, <1>2
  <2>3. n \in 1..Len(ds) /\ n - 1 \in 0..Len(ds) /\ ~(n <= n - 1)
    BY <2>2
  <2>4. P(n - 1)
    BY <2>1, <2>3
  <2> QED BY <2>2, <2>3, <2>4, <1>3
<1>5. P(Len(ds))
  BY <1>4
<1> QED BY <1>5 DEF P, Q!Keep, K

\* What is kept of a list is a list.
KeepsAList(ds, f, S, W, R) ==
    \E g : Lists(g, W, R) /\ Q!Keep(Rows(ds, f), S) = Rows(ds, g)

LEMMA KeepLists ==
    ASSUME NEW ds, NEW f, NEW W, NEW R, NEW V, NEW S, Lists(f, W, R),
           \A i \in 1..Len(f) : i \in S <=> f[i] \in V
    PROVE  KeepsAList(ds, f, S, W \cap V, R)
<1> DEFINE D == S \cap (1..Len(f))
<1>1. /\ Len(f) \in Nat /\ \A i \in 1..Len(f) : f[i] \in W
      /\ Len(Rows(ds, f)) = Len(f)
  BY ListFacts, RowsFacts
<1>2. PICK h : Lists(h, D, Less) /\ Q!Keep(Rows(ds, f), S) = Rows(Rows(ds, f), h)
  BY <1>1, KeepPicks
<1>3. Len(h) \in Nat /\ \A i \in 1..Len(h) : h[i] \in D
  BY <1>2, ListFacts
<1>4. Rows(Rows(ds, f), h) = Rows(ds, Rows(f, h))
  BY <1>1, <1>3, RowsOfRows
<1>5. Lists(Rows(f, h), W \cap V, R)
  <2>1. D \in SUBSET (1..Len(f)) /\ \A i \in D : f[i] \in W \cap V
    BY <1>1
  <2>2. \A v \in W \cap V : \E i \in D : f[i] = v
    BY <1>1 DEF Lists
  <2>3. \A i, j \in D : <<i, j>> \in Less => <<f[i], f[j]>> \in R
    BY DEF Lists, Less
  <2> HIDE DEF D
  <2> QED BY <1>2, <2>1, <2>2, <2>3, ListOfList
<1> QED BY <1>2, <1>4, <1>5 DEF KeepsAList

\* Everything is kept.
LEMMA KeepAll ==
    ASSUME NEW ds, Len(ds) \in Nat, ds = [i \in 1..Len(ds) |-> ds[i]], NEW S, 1..Len(ds) \subseteq S
    PROVE  Q!Keep(ds, S) = ds
<1> DEFINE n == Len(ds)
           f == [i \in 1..n |-> i]
<1>1. S \cap (1..n) = 1..n
  OBVIOUS
<1>2. PICK h : Lists(h, 1..n, Less) /\ Q!Keep(ds, S) = Rows(ds, h)
  BY <1>1, KeepPicks
<1>3. Len(f) = n /\ Lists(f, 1..n, Less)
  BY AllInTurn
<1> HIDE DEF n
<1>4. \A i \in 1..n : f[i] = i
  OBVIOUS
<1> HIDE DEF f
<1>5. h = f
  BY <1>2, <1>3, OneListing, LessIsAsymmetric
<1>6. Rows(ds, f) = [i \in 1..n |-> ds[i]]
  BY <1>3, <1>4 DEF Rows
<1> QED BY <1>2, <1>5, <1>6 DEF n

-----------------------------------------------------------------------------
(* Sorting: the order sort_by and ORDER BY are given, ties as they are *)

\* Of two positions that lt does not tell apart, the earlier first.
Stable(lt) == {p \in Nat \X Nat : \/ <<p[1], p[2]>> \in lt
                                  \/ <<p[2], p[1]>> \notin lt /\ p[1] < p[2]}

Weak(lt, W) == /\ Asymmetric(lt, W)
               /\ \A a, b, c \in W : <<a, b>> \notin lt /\ <<b, c>> \notin lt => <<a, c>> \notin lt

Total(R, W) == /\ Asymmetric(R, W)
               /\ \A a, b, c \in W : <<a, b>> \in R /\ <<b, c>> \in R => <<a, c>> \in R
               /\ \A a, b \in W : a # b => <<a, b>> \in R \/ <<b, a>> \in R

LEMMA StableIsTotal ==
    ASSUME NEW n \in Nat, NEW lt, Weak(lt, 1..n)
    PROVE  Total(Stable(lt), 1..n)
<1> DEFINE T == Stable(lt)
<1>1. \A a, b \in 1..n : /\ a \in Nat /\ b \in Nat
                         /\ <<a, b>> \in T <=> \/ <<a, b>> \in lt
                                               \/ <<b, a>> \notin lt /\ a < b
  BY DEF Stable
<1> HIDE DEF T
<1>2. \A a, b \in 1..n : <<a, b>> \in lt => <<b, a>> \notin lt
  BY DEF Weak, Asymmetric
<1>3. Asymmetric(T, 1..n)
  <2> SUFFICES ASSUME NEW a \in 1..n, NEW b \in 1..n, <<a, b>> \in T, <<b, a>> \in T
               PROVE  FALSE
    BY DEF Asymmetric
  <2>1. CASE <<a, b>> \in lt
    BY <1>1, <1>2, <2>1
  <2>2. CASE <<b, a>> \in lt
    BY <1>1, <1>2, <2>2
  <2>3. CASE <<a, b>> \notin lt /\ <<b, a>> \notin lt
    <3>1. a < b /\ b < a
      BY <1>1, <2>3
    <3> QED BY <3>1
  <2> QED BY <2>1, <2>2, <2>3
<1>4. ASSUME NEW a \in 1..n, NEW b \in 1..n, NEW c \in 1..n, <<a, b>> \in T, <<b, c>> \in T
      PROVE  <<a, c>> \in T
  <2>1. <<b, a>> \notin lt /\ <<c, b>> \notin lt
    BY <1>1, <1>2, <1>4
  <2>2. <<c, a>> \notin lt
    BY <2>1 DEF Weak
  <2>3. CASE <<a, b>> \in lt
    <3>1. <<a, c>> \in lt
      BY <2>1, <2>3 DEF Weak
    <3> QED BY <3>1, <1>1
  <2>4. CASE <<b, c>> \in lt
    <3>1. <<a, c>> \in lt
      BY <2>1, <2>4 DEF Weak
    <3> QED BY <3>1, <1>1
  <2>5. CASE <<a, b>> \notin lt /\ <<b, c>> \notin lt
    <3>1. a < b /\ b < c
      BY <1>1, <1>4, <2>5
    <3>2. a < c
      BY <3>1
    <3> QED BY <3>2, <2>2, <1>1
  <2> QED BY <2>3, <2>4, <2>5
<1>5. ASSUME NEW a \in 1..n, NEW b \in 1..n, a # b PROVE <<a, b>> \in T \/ <<b, a>> \in T
  <2>1. a < b \/ b < a
    BY <1>5
  <2> QED BY <2>1, <1>1
<1> QED BY <1>3, <1>4, <1>5 DEF Total, T

\* One more element put where it belongs.
LEMMA OneIsInserted ==
    ASSUME NEW k \in Nat, NEW R, Total(R, 1..k + 1), NEW f, Lists(f, 1..k, R), Len(f) = k
    PROVE  \E g : Lists(g, 1..k + 1, R) /\ Len(g) = k + 1
<1> DEFINE W == 1..k + 1
           T == {i \in W : i = k + 1 \/ <<k + 1, f[i]>> \in R}
<1>1. /\ f \in [1..k -> 1..k] /\ \A i \in 1..k : f[i] \in 1..k
      /\ \A i, j \in 1..k : i < j => <<f[i], f[j]>> \in R
      /\ \A w \in 1..k : \E i \in 1..k : f[i] = w
  BY ListFacts DEF Lists
<1>2. PICK c \in T : \A m \in T : c <= m
  <2>1. T \subseteq Nat /\ k + 1 \in T
    OBVIOUS
  <2> HIDE DEF T
  <2> QED BY <2>1, LeastNat
<1>3. c \in W /\ (c = k + 1 \/ <<k + 1, f[c]>> \in R)
  BY <1>2
<1>4. \A i \in 1..k : i < c => <<f[i], k + 1>> \in R
  <2> SUFFICES ASSUME NEW i \in 1..k, i < c PROVE <<f[i], k + 1>> \in R
    OBVIOUS
  <2>1. i \in W /\ ~(c <= i)
    BY <1>3
  <2>2. <<k + 1, f[i]>> \notin R
    BY <2>1, <1>2
  <2>3. f[i] \in W /\ f[i] # k + 1 /\ k + 1 \in W
    <3>1. f[i] \in 1..k
      BY <1>1
    <3> QED BY <3>1
  <2> QED BY <2>2, <2>3 DEF Total
<1>5. \A i \in 1..k : c <= i => <<k + 1, f[i]>> \in R
  <2> SUFFICES ASSUME NEW i \in 1..k, c <= i PROVE <<k + 1, f[i]>> \in R
    OBVIOUS
  <2>1. c \in 1..k /\ <<k + 1, f[c]>> \in R
    BY <1>3
  <2>2. CASE c = i
    BY <2>1, <2>2
  <2>3. CASE c # i
    <3>1. c < i
      BY <2>3, <2>1
    <3>2. <<f[c], f[i]>> \in R
      BY <3>1, <2>1, <1>1
    <3>3. f[c] \in 1..k /\ f[i] \in 1..k
      BY <1>1, <2>1
    <3>4. f[c] \in W /\ f[i] \in W /\ k + 1 \in W
      BY <3>3
    <3> QED BY <2>1, <3>2, <3>4 DEF Total
  <2> QED BY <2>2, <2>3
<1> DEFINE Nth(j) == IF j < c THEN f[j] ELSE IF j = c THEN k + 1 ELSE f[j - 1]
           g == [j \in W |-> Nth(j)]
<1> HIDE DEF T
<1>6. \A j \in W : Nth(j) \in W
  <2> SUFFICES ASSUME NEW j \in W PROVE Nth(j) \in W
    OBVIOUS
  <2>1. CASE j < c
    <3>1. j \in 1..k
      BY <2>1, <1>3
    <3>2. f[j] \in 1..k
      BY <3>1, <1>1
    <3> QED BY <3>2, <2>1
  <2>2. CASE j = c
    BY <2>2
  <2>3. CASE c < j
    <3>1. j - 1 \in 1..k
      BY <2>3, <1>3
    <3>2. f[j - 1] \in 1..k
      BY <3>1, <1>1
    <3> QED BY <3>2, <2>3, <1>3
  <2> QED BY <2>1, <2>2, <2>3, <1>3
<1>7. g \in Seq(W) /\ Len(g) = k + 1
  <2>1. g \in [1..k + 1 -> W]
    BY <1>6
  <2>2. g \in Seq(W)
    BY <2>1, SeqDef
  <2> QED BY <2>1, <2>2, LenProperties
<1>8. ASSUME NEW i \in W, NEW j \in W, i < j PROVE <<Nth(i), Nth(j)>> \in R
  <2>1. CASE j < c
    <3>1. i \in 1..k /\ j \in 1..k /\ i < c
      BY <2>1, <1>3, <1>8
    <3> QED BY <3>1, <2>1, <1>8, <1>1
  <2>2. CASE j = c
    <3>1. i \in 1..k /\ i < c
      BY <2>2, <1>8, <1>3
    <3> QED BY <3>1, <2>2, <1>4, <1>3
  <2>3. CASE i = c
    <3>1. j - 1 \in 1..k /\ c <= j - 1 /\ c < j
      BY <2>3, <1>8, <1>3
    <3>2. <<k + 1, f[j - 1]>> \in R
      BY <3>1, <1>5
    <3>3. Nth(i) = k + 1 /\ Nth(j) = f[j - 1]
      BY <2>3, <1>8, <1>3, <3>1
    <3> QED BY <3>2, <3>3
  <2>4. CASE i < c /\ c < j
    <3>1. i \in 1..k /\ j - 1 \in 1..k
      BY <2>4, <1>8, <1>3
    <3>2. i < j - 1
      BY <2>4, <1>3
    <3>3. <<f[i], f[j - 1]>> \in R
      BY <3>1, <3>2, <1>1
    <3>4. Nth(i) = f[i] /\ Nth(j) = f[j - 1]
      BY <2>4, <1>3
    <3> QED BY <3>3, <3>4
  <2>5. CASE c < i
    <3>1. i - 1 \in 1..k /\ j - 1 \in 1..k /\ i - 1 < j - 1
      BY <2>5, <1>8, <1>3
    <3>2. <<f[i - 1], f[j - 1]>> \in R
      BY <3>1, <1>1
    <3>3. Nth(i) = f[i - 1] /\ Nth(j) = f[j - 1]
      BY <2>5, <1>8, <1>3
    <3> QED BY <3>2, <3>3
  <2> QED BY <2>1, <2>2, <2>3, <2>4, <2>5, <1>3
<1>9. ASSUME NEW w \in W PROVE \E i \in W : Nth(i) = w
  <2>1. CASE w = k + 1
    BY <2>1, <1>3
  <2>2. CASE w # k + 1
    <3>1. w \in 1..k
      BY <2>2
    <3>2. PICK i \in 1..k : f[i] = w
      BY <3>1, <1>1
    <3>3. CASE i < c
      <4>1. i \in W /\ Nth(i) = w
        BY <3>2, <3>3
      <4> QED BY <4>1
    <3>4. CASE c <= i
      <4>1. i + 1 \in W /\ ~(i + 1 < c) /\ i + 1 # c /\ (i + 1) - 1 = i
        BY <3>4, <1>3
      <4>2. Nth(i + 1) = w
        BY <4>1, <3>2
      <4> QED BY <4>1, <4>2
    <3> QED BY <3>3, <3>4, <1>3
  <2> QED BY <2>1, <2>2
<1> HIDE DEF Nth
<1>10. \A j \in W : g[j] = Nth(j)
  OBVIOUS
<1> HIDE DEF g
<1>11. \A i, j \in W : i < j => <<g[i], g[j]>> \in R
  BY <1>8, <1>10
<1>12. \A w \in W : \E i \in W : g[i] = w
  BY <1>9, <1>10
<1>13. Len(g) = k + 1 /\ 1..Len(g) = W
  BY <1>7
<1> HIDE DEF W
<1>14. Lists(g, W, R)
  BY <1>7, <1>11, <1>12, <1>13 DEF Lists
<1> QED BY <1>13, <1>14 DEF W

\* So any total order lists what there is.
LEMMA OrdersList ==
    ASSUME NEW n \in Nat, NEW R, Total(R, 1..n)
    PROVE  \E f : Lists(f, 1..n, R) /\ Len(f) = n
<1> DEFINE P(k) == \E f : Lists(f, 1..k, R) /\ Len(f) = k
           T == {k \in 0..n : ~P(k)}
<1>1. P(0)
  <2>1. Lists(<<>>, 1..0, R) /\ Len(<<>>) = 0
    <3>1. 1..0 = {} /\ <<>> \in Seq(1..0) /\ Len(<<>>) = 0
      BY EmptySeq
    <3> QED BY <3>1 DEF Lists
  <2> QED BY <2>1
<1>2. ASSUME NEW k \in 0..n - 1, P(k) PROVE P(k + 1)
  <2>1. PICK f : Lists(f, 1..k, R) /\ Len(f) = k
    BY <1>2
  <2>2. k \in Nat /\ 1..k + 1 \subseteq 1..n
    OBVIOUS
  <2>3. Total(R, 1..k + 1)
    BY <2>2 DEF Total, Asymmetric
  <2>4. \E g : Lists(g, 1..k + 1, R) /\ Len(g) = k + 1
    BY <2>1, <2>2, <2>3, OneIsInserted
  <2> QED BY <2>4
<1> HIDE DEF P
<1>3. ASSUME T # {} PROVE FALSE
  <2>1. PICK m \in T : \A p \in T : m <= p
    <3>1. T \subseteq Nat
      OBVIOUS
    <3> HIDE DEF T
    <3> QED BY <3>1, <1>3, LeastNat
  <2>2. m \in 0..n /\ ~P(m) /\ m # 0
    BY <2>1, <1>1
  <2>3. m - 1 \in 0..n - 1 /\ m - 1 \in 0..n /\ ~(m <= m - 1) /\ (m - 1) + 1 = m
    BY <2>2
  <2>4. P(m - 1)
    BY <2>1, <2>3
  <2>5. P((m - 1) + 1)
    BY <2>3, <2>4, <1>2
  <2> QED BY <2>2, <2>3, <2>5
<1>4. P(n)
  BY <1>3
<1> QED BY <1>4 DEF P

LEMMA SortedLists ==
    ASSUME NEW n \in Nat, NEW lt, Weak(lt, 1..n)
    PROVE  Lists(Q!Sorted(n, lt), 1..n, Stable(lt)) /\ Len(Q!Sorted(n, lt)) = n
<1> DEFINE W == 1..n
           Fs == {f \in [W -> W] : \A k \in W : \E i \in W : f[i] = k}
           Good(p) == \A i, j \in W : i < j => \/ <<p[i], p[j]>> \in lt
                                               \/ <<p[j], p[i]>> \notin lt /\ p[i] < p[j]
           s == Q!Sorted(n, lt)
<1>1. \E p \in Fs : Good(p)
  <2>1. PICK f : Lists(f, W, Stable(lt)) /\ Len(f) = n
    BY StableIsTotal, OrdersList
  <2>2. f \in [W -> W] /\ \A k \in W : \E i \in W : f[i] = k
    BY <2>1, ListFacts DEF Lists
  <2>3. \A i, j \in W : i < j => <<f[i], f[j]>> \in Stable(lt)
    BY <2>1 DEF Lists
  <2>4. Good(f)
    BY <2>3 DEF Stable
  <2> QED BY <2>2, <2>4
<1>2. s = CHOOSE p \in Fs : Good(p)
  BY DEF Q!Sorted
<1>3. s \in Fs /\ Good(s)
  <2> HIDE DEF Fs, Good, s
  <2> QED BY <1>1, <1>2
<1> HIDE DEF s
<1>4. s \in Seq(W) /\ Len(s) = n
  <2>1. s \in [1..n -> W]
    BY <1>3
  <2>2. s \in Seq(W)
    BY <2>1, SeqDef
  <2> QED BY <2>1, <2>2, LenProperties
<1>5. \A i, j \in W : i < j => <<s[i], s[j]>> \in Stable(lt)
  <2> SUFFICES ASSUME NEW i \in W, NEW j \in W, i < j PROVE <<s[i], s[j]>> \in Stable(lt)
    OBVIOUS
  <2>1. s[i] \in W /\ s[j] \in W
    BY <1>3
  <2>2. s[i] \in Nat /\ s[j] \in Nat
    BY <2>1
  <2> QED BY <2>2, <1>3 DEF Stable
<1> QED BY <1>3, <1>4, <1>5 DEF Lists, s

-----------------------------------------------------------------------------
(* What a query orders by *)

\* Missing fields, and scalars or arrays of one type.
OneColumn(X) == /\ X \subseteq Value \cup {Absent}
                /\ \A x \in X : x # Absent => x \in Scalar \/ Q!IsArr(x)
                /\ \A x, y \in X : x # Absent /\ y # Absent => Q!Type(x) = Q!Type(y)

LEMMA BeforeFacts ==
    ASSUME Absent \notin Value, NEW X, OneColumn(X), NEW a \in X, NEW b \in X
    PROVE  /\ Q!Before(a, b) \in BOOLEAN
           /\ a = Absent => (Q!Before(a, b) <=> b # Absent)
           /\ b = Absent => ~Q!Before(a, b)
           /\ a # Absent /\ b # Absent /\ Q!IsArr(a) => ~Q!Before(a, b)
           /\ a # Absent /\ b # Absent /\ ~Q!IsArr(a) =>
                a \in Scalar /\ b \in Scalar /\ (Q!Before(a, b) <=> a[2] < b[2])
<1>1. CASE a = Absent \/ b = Absent
  BY <1>1 DEF Q!Before
<1>2. CASE a # Absent /\ b # Absent
  <2>1. Q!Type(a) = Q!Type(b) /\ (Q!Before(a, b) <=> Q!Below(a, b))
    BY <1>2 DEF OneColumn, Q!Before
  <2>2. CASE Q!IsArr(a)
    BY <1>2, <2>1, <2>2 DEF Q!Below, Q!Comparable, Q!IsArr, Q!IsScalar, Q!Before
  <2>3. CASE ~Q!IsArr(a)
    <3>1. a \in Scalar /\ b \in Scalar
      BY <1>2, <2>1, <2>3 DEF OneColumn, Q!IsArr
    <3>2. /\ Q!Type(a) \in {"bool", "num", "text"} /\ a[2] \in Int /\ b[2] \in Int
          /\ a = <<Q!Type(a), a[2]>> /\ b = <<Q!Type(a), b[2]>>
      BY <3>1, <2>1, ScalarFacts
    <3>3. Q!IsScalar(a) /\ Q!IsScalar(b)
      BY <3>2, <1>2, <2>1 DEF Q!IsScalar
    <3>4. Q!Below(a, b) <=> a[2] < b[2]
      BY <2>1, <3>2, <3>3 DEF Q!Below, Q!Comparable
    <3> QED BY <3>1, <3>4, <2>1, <2>3, <1>2 DEF Q!Before, Q!Below
  <2> QED BY <2>2, <2>3
<1> QED BY <1>1, <1>2

LEMMA BeforeIsAsymmetric ==
    ASSUME Absent \notin Value, NEW X, OneColumn(X), NEW a \in X, NEW b \in X, Q!Before(a, b)
    PROVE  ~Q!Before(b, a)
<1>1. b # Absent
  BY BeforeFacts
<1>2. CASE a = Absent
  BY <1>2, BeforeFacts
<1>3. CASE a # Absent
  <2>1. ~Q!IsArr(a) /\ (Q!IsArr(a) <=> Q!IsArr(b))
    BY <1>1, <1>3, BeforeFacts DEF OneColumn, Q!IsArr
  <2>2. /\ Q!Before(a, b) <=> a[2] < b[2]
        /\ Q!Before(b, a) <=> b[2] < a[2]
        /\ a \in Scalar /\ b \in Scalar
    BY <1>1, <1>3, <2>1, BeforeFacts
  <2>3. a[2] \in Int /\ b[2] \in Int
    BY <2>2, ScalarFacts
  <2> QED BY <2>2, <2>3
<1> QED BY <1>2, <1>3

LEMMA BeforeIsWeak ==
    ASSUME Absent \notin Value, NEW X, OneColumn(X), NEW a \in X, NEW b \in X, NEW c \in X,
           ~Q!Before(a, b), ~Q!Before(b, c)
    PROVE  ~Q!Before(a, c)
<1>1. CASE c = Absent
  BY <1>1, BeforeFacts
<1>2. CASE c # Absent
  <2>1. b # Absent
    BY <1>2, BeforeFacts
  <2>2. a # Absent
    BY <2>1, BeforeFacts
  <2>3. Q!IsArr(a) <=> Q!IsArr(b)
    BY <2>1, <2>2 DEF OneColumn, Q!IsArr
  <2>4. CASE Q!IsArr(a)
    BY <1>2, <2>2, <2>4, BeforeFacts
  <2>5. CASE ~Q!IsArr(a)
    <3>1. /\ Q!Before(a, b) <=> a[2] < b[2]
          /\ Q!Before(b, c) <=> b[2] < c[2]
          /\ Q!Before(a, c) <=> a[2] < c[2]
          /\ a \in Scalar /\ b \in Scalar /\ c \in Scalar
      BY <1>2, <2>1, <2>2, <2>3, <2>5, BeforeFacts
    <3>2. a[2] \in Int /\ b[2] \in Int /\ c[2] \in Int
      BY <3>1, ScalarFacts
    <3> QED BY <3>1, <3>2
  <2> QED BY <2>4, <2>5
<1> QED BY <1>1, <1>2

\* To an engine the order is the same, but for PostgreSQL with a missing field.
LEMMA BeforeAlike ==
    ASSUME Absent \notin Value \cup {Q!Text(0)}, NEW X, OneColumn(X), NEW a \in X, NEW b \in X,
           NEW e \in Q!SqlEngines, e = "postgres" => a # Absent /\ b # Absent
    PROVE  Q!SqlBefore(e, a, b) <=> Q!Before(a, b)
<1> DEFINE x == Q!Column(e, a)
           y == Q!Column(e, b)
<1>1. Absent \notin Scalar /\ Absent \notin Value /\ Q!Column(e, Absent) = Absent /\ Q!Text(0) # Absent
  BY DEF Value, Q!Column
<1>2. ASSUME NEW v \in X, v # Absent, Q!IsArr(v)
      PROVE  Q!Column(e, v) = IF e = "sqlite" THEN Q!Text(0) ELSE v
  BY <1>2 DEF Q!Column, Q!IsArr
<1>3. ASSUME NEW v \in X, v # Absent PROVE Q!Column(e, v) # Absent
  <2>1. CASE v \in Scalar
    BY <2>1, <1>1, ColumnsKeepTheOrder
  <2>2. CASE Q!IsArr(v)
    BY <2>2, <1>1, <1>2, <1>3
  <2> QED BY <2>1, <2>2, <1>3 DEF OneColumn
<1>4. CASE a = Absent \/ b = Absent
  <2>1. e # "postgres"
    BY <1>4
  <2>2. Q!SqlBefore(e, a, b) <=> y # Absent /\ (x = Absent \/ Q!Under(e, x, y))
    BY <2>1 DEF Q!SqlBefore
  <2>3. Q!Before(a, b) <=> a = Absent /\ b # Absent
    BY <1>1, <1>4, BeforeFacts
  <2>4. CASE b = Absent
    BY <2>2, <2>3, <2>4, <1>1
  <2>5. CASE a = Absent /\ b # Absent
    BY <2>2, <2>3, <2>5, <1>1, <1>3
  <2> QED BY <1>4, <2>4, <2>5
<1>5. CASE a # Absent /\ b # Absent
  <2>1. Q!SqlBefore(e, a, b) <=> Q!Under(e, x, y)
    <3>1. x # Absent /\ y # Absent
      BY <1>3, <1>5
    <3> QED BY <3>1 DEF Q!SqlBefore
  <2>2. Q!Type(a) = Q!Type(b)
    BY <1>5 DEF OneColumn
  <2>3. CASE Q!IsArr(a)
    <3>1. Q!IsArr(b) /\ ~Q!Before(a, b)
      BY <1>1, <1>5, <2>2, <2>3, BeforeFacts DEF Q!IsArr
    <3>2. /\ x = IF e = "sqlite" THEN Q!Text(0) ELSE a
          /\ y = IF e = "sqlite" THEN Q!Text(0) ELSE b
      BY <1>2, <1>5, <2>3, <3>1
    <3>3. Q!Type(x) = Q!Type(y) /\ (Q!Type(x) = "arr" \/ (x[2] = 0 /\ y[2] = 0))
      <4>1. CASE e = "sqlite"
        <5>1. x = <<"text", 0>> /\ y = <<"text", 0>>
          BY <4>1, <3>2 DEF Q!Text
        <5> HIDE DEF x, y
        <5> QED BY <5>1 DEF Q!Type
      <4>2. CASE e # "sqlite"
        <5>1. x = a /\ y = b
          BY <4>2, <3>2
        <5>2. Q!Type(a) = "arr" /\ Q!Type(b) = "arr"
          BY <3>1, <2>3 DEF Q!IsArr
        <5> HIDE DEF x, y
        <5> QED BY <5>1, <5>2
      <4> QED BY <4>1, <4>2
    <3>4. Q!Rank(e, x) = Q!Rank(e, y) /\ Q!Rank(e, x) \in Int
      BY <3>3 DEF Q!Rank
    <3>5. ~Q!Under(e, x, y)
      BY <3>3, <3>4 DEF Q!Under
    <3> QED BY <3>1, <3>5, <2>1
  <2>4. CASE ~Q!IsArr(a)
    <3>1. a \in Scalar /\ b \in Scalar
      BY <1>1, <1>5, <2>4, BeforeFacts
    <3>2. Q!Column(e, b) = Q!Param(e, b)
      BY <3>1, <1>1, ColumnsKeepTheOrder
    <3>3. Q!Under(e, Q!Column(e, a), Q!Param(e, b)) <=> Q!Below(a, b)
      BY <3>1, <2>2, <1>1, ColumnsKeepTheOrder
    <3>4. Q!Before(a, b) <=> Q!Below(a, b)
      BY <1>5 DEF Q!Before
    <3> QED BY <3>2, <3>3, <3>4, <2>1
  <2> QED BY <2>3, <2>4
<1> QED BY <1>4, <1>5

-----------------------------------------------------------------------------
(* What a query lists *)

IsList(ds) == Len(ds) \in Nat /\ DOMAIN ds = 1..Len(ds)

\* What the documents have in a column.
Column(ds, name) == {Q!Field(ds[i], name) : i \in 1..Len(ds)}

\* The order of a query, on the positions of ds.
Turn(ds, q) == IF q.order = "none" THEN Less ELSE Stable(Q!Ahead(ds, q))

LEMMA RowsAreAList ==
    ASSUME NEW ds, NEW f, Len(f) \in Nat
    PROVE  IsList(Rows(ds, f))
  BY RowsFacts DEF IsList

LEMMA AheadIsBefore ==
    ASSUME NEW ds, IsList(ds), NEW q, NEW i \in 1..Len(ds), NEW j \in 1..Len(ds)
    PROVE  LET x == Q!Field(ds[i], q.order)
               y == Q!Field(ds[j], q.order)
           IN <<i, j>> \in Q!Ahead(ds, q) <=> IF q.desc THEN Q!Before(y, x) ELSE Q!Before(x, y)
<1> DEFINE x == Q!Field(ds[i], q.order)
           y == Q!Field(ds[j], q.order)
           Leads(p) == LET u == Q!Field(ds[p[1]], q.order) v == Q!Field(ds[p[2]], q.order)
                    IN IF q.desc THEN Q!Before(v, u) ELSE Q!Before(u, v)
<1>1. Q!Ahead(ds, q) = {p \in (1..Len(ds)) \X (1..Len(ds)) : Leads(p)}
  BY DEF Q!Ahead, IsList
<1>2. <<i, j>> \in Q!Ahead(ds, q) <=> Leads(<<i, j>>)
  <2> HIDE DEF Leads
  <2> QED BY <1>1
<1>3. Leads(<<i, j>>) <=> IF q.desc THEN Q!Before(y, x) ELSE Q!Before(x, y)
  OBVIOUS
<1> QED BY <1>2, <1>3

LEMMA AheadIsWeak ==
    ASSUME Absent \notin Value, NEW ds, IsList(ds), NEW q, OneColumn(Column(ds, q.order))
    PROVE  Weak(Q!Ahead(ds, q), 1..Len(ds))
<1> DEFINE W == 1..Len(ds)
           A == Q!Ahead(ds, q)
           F(i) == Q!Field(ds[i], q.order)
           X == Column(ds, q.order)
<1>1. \A i, j \in W : <<i, j>> \in A <=> IF q.desc THEN Q!Before(F(j), F(i)) ELSE Q!Before(F(i), F(j))
  BY AheadIsBefore
<1>2. \A i \in W : F(i) \in X
  BY DEF Column
<1> HIDE DEF A, F, X, W
<1>3. OneColumn(X)
  BY DEF X
<1>4. ASSUME NEW i \in W, NEW j \in W, <<i, j>> \in A PROVE <<j, i>> \notin A
  <2>1. F(i) \in X /\ F(j) \in X
    BY <1>2
  <2>2. CASE q.desc
    BY <1>1, <1>3, <1>4, <2>1, <2>2, BeforeIsAsymmetric
  <2>3. CASE ~q.desc
    BY <1>1, <1>3, <1>4, <2>1, <2>3, BeforeIsAsymmetric
  <2> QED BY <2>2, <2>3
<1>5. ASSUME NEW i \in W, NEW j \in W, NEW k \in W, <<i, j>> \notin A, <<j, k>> \notin A
      PROVE  <<i, k>> \notin A
  <2>1. F(i) \in X /\ F(j) \in X /\ F(k) \in X
    BY <1>2
  <2>2. CASE q.desc
    BY <1>1, <1>3, <1>5, <2>1, <2>2, BeforeIsWeak
  <2>3. CASE ~q.desc
    BY <1>1, <1>3, <1>5, <2>1, <2>3, BeforeIsWeak
  <2> QED BY <2>2, <2>3
<1> QED BY <1>4, <1>5 DEF Weak, Asymmetric, A, W

LEMMA TurnIsAsymmetric ==
    ASSUME Absent \notin Value, NEW ds, IsList(ds), NEW q, OneColumn(Column(ds, q.order)),
           NEW W \in SUBSET (1..Len(ds))
    PROVE  Asymmetric(Turn(ds, q), W)
<1>1. Len(ds) \in Nat
  BY DEF IsList
<1>2. Total(Stable(Q!Ahead(ds, q)), 1..Len(ds))
  BY <1>1, AheadIsWeak, StableIsTotal
<1> QED BY <1>2, LessIsAsymmetric DEF Turn, Total, Asymmetric

\* Ordering a part of the documents lists its positions in the order of the query.
LEMMA OrderedLists ==
    ASSUME Absent \notin Value, NEW ds, IsList(ds), NEW q, OneColumn(Column(ds, q.order)),
           NEW W \in SUBSET (1..Len(ds)), NEW f, Lists(f, W, Less)
    PROVE  \E g : /\ Lists(g, W, Turn(ds, q))
                  /\ LET rs == Rows(ds, f) IN Q!Ordered(rs, q, Q!Ahead(rs, q)) = Rows(ds, g)
<1> DEFINE rs == Rows(ds, f)
           A == Q!Ahead(rs, q)
           s == Q!Sorted(Len(f), A)
<1>1. /\ Len(f) \in Nat /\ \A i \in 1..Len(f) : f[i] \in W
      /\ Len(rs) = Len(f) /\ IsList(rs) /\ \A i \in 1..Len(f) : rs[i] = ds[f[i]]
  BY ListFacts, RowsFacts, RowsAreAList
<1>2. CASE q.order = "none"
  BY <1>2 DEF Turn, Q!Ordered
<1>3. CASE q.order # "none"
  <2>1. Column(rs, q.order) \subseteq Column(ds, q.order)
    BY <1>1 DEF Column
  <2>2. OneColumn(Column(rs, q.order))
    BY <2>1, Zenon DEF OneColumn
  <2>3. Weak(A, 1..Len(f))
    <3>1. Weak(Q!Ahead(rs, q), 1..Len(rs))
      <4> HIDE DEF rs
      <4> QED BY <1>1, <2>2, AheadIsWeak
    <3> QED BY <1>1, <3>1
  <2>4. Lists(s, 1..Len(f), Stable(A)) /\ Len(s) = Len(f)
    BY <1>1, <2>3, SortedLists
  <2>5. Q!Ordered(rs, q, A) = Rows(rs, s)
    <3>1. Q!Ordered(rs, q, A) = [i \in 1..Len(rs) |-> rs[Q!Sorted(Len(rs), A)[i]]]
      BY <1>3 DEF Q!Ordered
    <3> QED BY <3>1, <2>4, <1>1 DEF Rows
  <2>6. \A i \in 1..Len(s) : s[i] \in 1..Len(f)
    BY <2>4, ListFacts
  <2>7. Rows(rs, s) = Rows(ds, Rows(f, s))
    BY <1>1, <2>4, <2>6, RowsOfRows
  <2>8. \A i, j \in 1..Len(f) : <<i, j>> \in A <=> <<f[i], f[j]>> \in Q!Ahead(ds, q)
    <3> SUFFICES ASSUME NEW i \in 1..Len(f), NEW j \in 1..Len(f)
                 PROVE  <<i, j>> \in A <=> <<f[i], f[j]>> \in Q!Ahead(ds, q)
      OBVIOUS
    <3>1. f[i] \in 1..Len(ds) /\ f[j] \in 1..Len(ds)
      BY <1>1
    <3>2. <<f[i], f[j]>> \in Q!Ahead(ds, q)
            <=> IF q.desc THEN Q!Before(Q!Field(ds[f[j]], q.order), Q!Field(ds[f[i]], q.order))
                          ELSE Q!Before(Q!Field(ds[f[i]], q.order), Q!Field(ds[f[j]], q.order))
      BY <3>1, AheadIsBefore
    <3>3. <<i, j>> \in A
            <=> IF q.desc THEN Q!Before(Q!Field(rs[j], q.order), Q!Field(rs[i], q.order))
                          ELSE Q!Before(Q!Field(rs[i], q.order), Q!Field(rs[j], q.order))
      <4> HIDE DEF rs
      <4> QED BY <1>1, AheadIsBefore
    <3>4. rs[i] = ds[f[i]] /\ rs[j] = ds[f[j]]
      BY <1>1
    <3> QED BY <3>2, <3>3, <3>4
  <2> HIDE DEF A, s
  <2>9. \A i, j \in 1..Len(f) : <<i, j>> \in Stable(A) => <<f[i], f[j]>> \in Stable(Q!Ahead(ds, q))
    <3> SUFFICES ASSUME NEW i \in 1..Len(f), NEW j \in 1..Len(f), <<i, j>> \in Stable(A)
                 PROVE  <<f[i], f[j]>> \in Stable(Q!Ahead(ds, q))
      OBVIOUS
    <3>1. f[i] \in Nat /\ f[j] \in Nat
      BY <1>1, W \in SUBSET Nat
    <3>2. <<i, j>> \in A \/ (<<j, i>> \notin A /\ i < j)
      BY DEF Stable
    <3>3. i < j => f[i] < f[j]
      BY DEF Lists, Less
    <3>4. /\ <<i, j>> \in A <=> <<f[i], f[j]>> \in Q!Ahead(ds, q)
          /\ <<j, i>> \in A <=> <<f[j], f[i]>> \in Q!Ahead(ds, q)
      BY <2>8
    <3> QED BY <3>1, <3>2, <3>3, <3>4 DEF Stable
  <2>10. Lists(Rows(f, s), W, Stable(Q!Ahead(ds, q)))
    <3> DEFINE S == 1..Len(f)
    <3>1. S \in SUBSET (1..Len(f)) /\ \A i \in S : f[i] \in W
      BY <1>1
    <3>2. \A v \in W : \E i \in S : f[i] = v
      BY DEF Lists
    <3>3. \A i, j \in S : <<i, j>> \in Stable(A) => <<f[i], f[j]>> \in Stable(Q!Ahead(ds, q))
      BY <2>9
    <3>4. Lists(s, S, Stable(A))
      BY <2>4
    <3> HIDE DEF S
    <3> QED BY <3>1, <3>2, <3>3, <3>4, ListOfList
  <2> QED BY <1>3, <2>5, <2>7, <2>10 DEF Turn, A, s
<1> QED BY <1>2, <1>3

Document == [id : {"text"} \X (Nat \ {0}), f : Value \cup {Absent}]
Query == [filter : [op : Q!Operators, w : Value] \cup {Absent}, order : {"none", "id", "f"},
          desc : BOOLEAN, bound : [op : Q!Comparisons, w : Value] \cup {Absent},
          offset : Nat, limit : Nat \cup {Absent}]

LEMMA DocumentFacts ==
    ASSUME NEW ds \in Seq(Document)
    PROVE  /\ IsList(ds) /\ ds = [i \in 1..Len(ds) |-> ds[i]]
           /\ \A i \in 1..Len(ds) : /\ ds[i].id \in Scalar /\ Q!Type(ds[i].id) = "text"
                                    /\ ds[i].f \in Value \cup {Absent}
<1>1. IsList(ds) /\ ds \in [1..Len(ds) -> Document]
  BY LenProperties DEF IsList
<1>2. ASSUME NEW i \in 1..Len(ds)
      PROVE  /\ ds[i].id \in Scalar /\ Q!Type(ds[i].id) = "text"
             /\ ds[i].f \in Value \cup {Absent}
  <2>1. ds[i] \in Document
    BY <1>1
  <2>2. ds[i].id \in {"text"} \X (Nat \ {0}) /\ ds[i].f \in Value \cup {Absent}
    BY <2>1 DEF Document
  <2> QED BY <2>2 DEF Scalar, Q!Type
<1> QED BY <1>1, <1>2

LEMMA ColumnsAreOne ==
    ASSUME Absent \notin Value, NEW ds \in Seq(Document), NEW q, Q!OneTypePage(ds, q), NEW name
    PROVE  OneColumn(Column(ds, name))
<1>1. IsList(ds) /\ DOMAIN ds = 1..Len(ds)
  BY DocumentFacts DEF IsList
<1>2. CASE name = "id"
  <2>1. \A x \in Column(ds, name) : x \in Scalar /\ Q!Type(x) = "text"
    BY <1>2, DocumentFacts DEF Column, Q!Field
  <2> QED BY <2>1 DEF OneColumn, Value
<1>3. CASE name # "id"
  <2>1. Column(ds, name) = {ds[i].f : i \in 1..Len(ds)}
    BY <1>3 DEF Column, Q!Field
  <2>2. /\ \A i \in 1..Len(ds) : ds[i].f # Absent => Q!IsScalar(ds[i].f) \/ Q!IsArr(ds[i].f)
        /\ \A i, j \in 1..Len(ds) : ds[i].f # Absent /\ ds[j].f # Absent
                                      => Q!Type(ds[i].f) = Q!Type(ds[j].f)
    BY <1>1, Zenon DEF Q!OneTypePage
  <2>3. \A i \in 1..Len(ds) : ds[i].f \in Value \cup {Absent}
    BY DocumentFacts
  <2>4. \A v \in Value : Q!IsScalar(v) => v \in Scalar
    BY DEF Value, Q!IsScalar, Q!Null, Q!Type
  <2> QED BY <2>1, <2>2, <2>3, <2>4 DEF OneColumn
<1> QED BY <1>2, <1>3

\* The statement's WHERE is the reference's filter and cursor.
LEMMA CursorsAgree ==
    ASSUME Absent \notin Value, NEW ds \in Seq(Document), NEW q \in Query, Q!OneTypePage(ds, q),
           NEW e \in Q!SqlEngines, NEW i \in 1..Len(ds)
    PROVE  Q!SqlCursor(e, ds[i], q) <=> Q!MatchesCursor(ds[i], q)
<1> DEFINE d == ds[i]
           name == Q!CursorField(q)
           x == Q!Field(d, name)
           w == q.bound.w
           op == q.bound.op
<1>1. CASE q.bound = Absent
  BY <1>1 DEF Q!SqlCursor, Q!MatchesCursor
<1>2. CASE q.bound # Absent
  <2>1. op \in Q!Comparisons /\ w \in Value
    BY <1>2 DEF Query
  <2>2. Q!IsScalar(w) /\ (x = Absent \/ Q!Type(x) = Q!Type(w))
    <3>1. i \in DOMAIN ds
      BY DocumentFacts DEF IsList
    <3> QED BY <1>2, <3>1, Zenon DEF Q!OneTypePage
  <2>3. w \in Scalar
    BY <2>1, <2>2 DEF Value, Q!IsScalar, Q!Null, Q!Type
  <2>4. d.id \in Scalar /\ Q!Type(d.id) = "text" /\ d.f \in Value \cup {Absent}
    BY DocumentFacts
  <2>5. x = IF name = "id" THEN d.id ELSE d.f
    BY DEF Q!Field
  <2>6. name = "id" => Q!Type(w) = "text"
    BY <2>2, <2>4, <2>5 DEF Value
  <2>7. Q!Column(e, x) = IF name = "id" THEN d.id ELSE Q!Column(e, d.f)
    BY <2>4, <2>5 DEF Q!Column
  <2>8. Q!SqlCursor(e, d, q) <=> Q!SqlCompares(e, Q!Column(e, x), op, Q!Param(e, w))
    <3> HIDE DEF x, w, d
    <3>1. Q!SqlCursor(e, d, q) <=>
            /\ e # "postgres" => Q!IsScalar(w)
            /\ name = "id" => Q!Type(w) = "text"
            /\ Q!SqlCompares(e, IF name = "id" THEN d.id ELSE Q!Column(e, d.f), op, Q!Param(e, w))
      BY <1>2, Zenon DEF Q!SqlCursor, w
    <3> QED BY <2>2, <2>6, <2>7, <3>1
  <2>9. Q!MatchesCursor(d, q) <=> Q!Compares(x, op, w)
    BY <1>2, Zenon DEF Q!MatchesCursor
  <2>10. CASE x = Absent
    <3>1. Q!Column(e, x) = Absent
      BY <2>10 DEF Q!Column
    <3> HIDE DEF x, w, op
    <3>2. ~Q!Compares(x, op, w)
      BY <2>10 DEF Q!Compares
    <3>3. ~Q!SqlCompares(e, Q!Column(e, x), op, Q!Param(e, w))
      BY <3>1 DEF Q!SqlCompares
    <3> QED BY <2>8, <2>9, <3>2, <3>3
  <2>11. CASE x # Absent
    <3>1. Q!Type(x) = Q!Type(w) /\ x \in Value
      BY <2>2, <2>4, <2>5, <2>11 DEF Value
    <3> HIDE DEF x, w, op
    <3>2. x \in Scalar
      <4>1. Q!Type(w) \in {"bool", "num", "text"}
        BY <2>3, ScalarFacts
      <4> QED BY <3>1, <4>1 DEF Value, Q!Null, Q!Type
    <3> QED BY <2>1, <2>3, <2>8, <2>9, <3>1, <3>2, ComparisonsAgree
  <2> QED BY <2>10, <2>11
<1> QED BY <1>1, <1>2

LEMMA WhereAgrees ==
    ASSUME Absent \notin Value, NEW ds \in Seq(Document), NEW q \in Query, Q!OneTypePage(ds, q),
           NEW e \in Q!SqlEngines, NEW i \in 1..Len(ds),
           e = "postgres" => ds[i].f # Absent
    PROVE  Q!Where(e, ds[i], q) <=> Q!Selects(ds[i], q) /\ Q!MatchesCursor(ds[i], q)
<1> DEFINE v == ds[i].f
<1>1. Q!SqlCursor(e, ds[i], q) <=> Q!MatchesCursor(ds[i], q)
  BY CursorsAgree
<1>2. CASE q.filter = Absent
  BY <1>1, <1>2 DEF Q!Where, Q!Selects
<1>3. CASE q.filter # Absent
  <2> DEFINE op == q.filter.op
             w == q.filter.w
  <2>1. op \in Q!Operators /\ w \in Value /\ v \in Value \cup {Absent}
    BY <1>3, DocumentFacts DEF Query
  <2>2. Q!OneType(v, op, w)
    <3>1. i \in DOMAIN ds
      BY DocumentFacts DEF IsList
    <3> QED BY <1>3, <3>1, Zenon DEF Q!OneTypePage
  <2>3. /\ Q!Where(e, ds[i], q) <=> Q!Filtered(e, v, op, w) = TRUE /\ Q!SqlCursor(e, ds[i], q)
        /\ Q!Selects(ds[i], q) <=> Q!Matches(v, op, w)
    BY <1>3, Zenon DEF Q!Where, Q!Selects
  <2>4. e \in Q!AllEngines
    BY DEF Q!AllEngines
  <2> HIDE DEF v, op, w
  <2>5. Q!Filtered(e, v, op, w) = Q!Matches(v, op, w)
    <3>1. ~(e = "postgres" /\ op = "!=" /\ v = Absent)
      BY DEF v
    <3> QED BY <2>1, <2>2, <2>4, <3>1, FilteredAlike
  <2>6. Q!Matches(v, op, w) \in BOOLEAN
    BY DEF Q!Matches, Q!Compares
  <2> QED BY <1>1, <2>3, <2>5, <2>6
<1> QED BY <1>2, <1>3

\* What sort_and_limit pages.
Chosen(ds, q) == {i \in 1..Len(ds) : Q!Selects(ds[i], q) /\ Q!MatchesCursor(ds[i], q)}

LEMMA ReferenceLists ==
    ASSUME Absent \notin Value, NEW ds \in Seq(Document), NEW q \in Query, Q!OneTypePage(ds, q)
    PROVE  \E h : /\ Lists(h, Chosen(ds, q), Turn(ds, q))
                  /\ Q!Reference(ds, q) = Q!Page(Rows(ds, h), q.offset, q.limit)
<1> DEFINE sel == Q!Selected(ds, q)
           W == {i \in 1..Len(ds) : Q!Selects(ds[i], q)}
           V == {i \in 1..Len(ds) : Q!MatchesCursor(ds[i], q)}
<1>1. IsList(ds) /\ Len(ds) \in Nat /\ DOMAIN ds = 1..Len(ds) /\ OneColumn(Column(ds, q.order))
  BY DocumentFacts, ColumnsAreOne DEF IsList
<1>2. PICK f : Lists(f, W, Less) /\ sel = Rows(ds, f)
  <2>1. {i \in DOMAIN ds : Q!Selects(ds[i], q)} = W /\ W \cap (1..Len(ds)) = W
    BY <1>1
  <2> HIDE DEF W
  <2> QED BY <1>1, <2>1, KeepPicks DEF Q!Selected
<1>3. PICK g : Lists(g, W, Turn(ds, q)) /\ Q!Ordered(sel, q, Q!Ahead(sel, q)) = Rows(ds, g)
  <2>1. W \in SUBSET (1..Len(ds))
    OBVIOUS
  <2> HIDE DEF W, sel
  <2>2. \E g : /\ Lists(g, W, Turn(ds, q))
               /\ LET rs == Rows(ds, f) IN Q!Ordered(rs, q, Q!Ahead(rs, q)) = Rows(ds, g)
    BY <1>1, <1>2, <2>1, OrderedLists
  <2> QED BY <1>2, <2>2
<1>4. PICK h : Lists(h, W \cap V, Turn(ds, q)) /\ Q!ApplyCursor(Rows(ds, g), q) = Rows(ds, h)
  <2> DEFINE S == {i \in DOMAIN Rows(ds, g) : Q!MatchesCursor(Rows(ds, g)[i], q)}
  <2>1. Len(g) \in Nat /\ \A i \in 1..Len(g) : g[i] \in W
    BY <1>3, ListFacts
  <2>2. DOMAIN Rows(ds, g) = 1..Len(g) /\ \A i \in 1..Len(g) : Rows(ds, g)[i] = ds[g[i]]
    BY <2>1, RowsFacts
  <2>3. \A i \in 1..Len(g) : i \in S <=> g[i] \in V
    BY <2>1, <2>2
  <2>4. Q!ApplyCursor(Rows(ds, g), q) = Q!Keep(Rows(ds, g), S)
    BY DEF Q!ApplyCursor
  <2> HIDE DEF W, V, S, sel
  <2>5. Lists(g, W, Turn(ds, q))
    BY <1>3
  <2>6. KeepsAList(ds, g, S, W \cap V, Turn(ds, q))
    BY <2>3, <2>5, KeepLists
  <2> QED BY <2>4, <2>6 DEF KeepsAList
<1>5. W \cap V = Chosen(ds, q)
  BY DEF Chosen
<1> HIDE DEF sel, W, V
<1>6. Q!Reference(ds, q) = Q!Page(Rows(ds, h), q.offset, q.limit)
  BY <1>3, <1>4 DEF Q!Reference, Q!SortAndLimit, sel
<1> QED BY <1>4, <1>5, <1>6

LEMMA AheadAlike ==
    ASSUME Absent \notin Value \cup {Q!Text(0)}, NEW ds, IsList(ds), NEW q,
           OneColumn(Column(ds, q.order)), NEW e \in Q!SqlEngines,
           e = "postgres" => Absent \notin Column(ds, q.order)
    PROVE  Q!SqlAhead(e, ds, q) = Q!Ahead(ds, q)
<1> DEFINE N == 1..Len(ds)
           X == Column(ds, q.order)
           F(i) == Q!Field(ds[i], q.order)
           Sql(p) == LET u == F(p[1]) v == F(p[2])
                     IN IF q.desc THEN Q!SqlBefore(e, v, u) ELSE Q!SqlBefore(e, u, v)
           Ref(p) == LET u == F(p[1]) v == F(p[2])
                     IN IF q.desc THEN Q!Before(v, u) ELSE Q!Before(u, v)
<1>1. Q!SqlAhead(e, ds, q) = {p \in N \X N : Sql(p)}
  BY DEF Q!SqlAhead, IsList
<1>2. Q!Ahead(ds, q) = {p \in N \X N : Ref(p)}
  BY DEF Q!Ahead, IsList
<1>3. \A i \in N : F(i) \in X /\ (e = "postgres" => F(i) # Absent)
  BY DEF Column
<1> HIDE DEF F, X
<1>4. OneColumn(X)
  BY DEF X
<1>5. ASSUME NEW p \in N \X N PROVE Sql(p) <=> Ref(p)
  <2>1. p[1] \in N /\ p[2] \in N
    OBVIOUS
  <2> HIDE DEF N
  <2>2. \A i, j \in N : Q!SqlBefore(e, F(i), F(j)) <=> Q!Before(F(i), F(j))
    BY <1>3, <1>4, BeforeAlike
  <2> QED BY <2>1, <2>2
<1> HIDE DEF Sql, Ref, N
<1> QED BY <1>1, <1>2, <1>5

LEMMA SqlLists ==
    ASSUME Absent \notin Value \cup {Q!Text(0)}, NEW ds \in Seq(Document), NEW q \in Query,
           Q!OneTypePage(ds, q), NEW e \in Q!SqlEngines,
           e = "postgres" => \A i \in 1..Len(ds) : ds[i].f # Absent
    PROVE  \E h : /\ Lists(h, Chosen(ds, q), Turn(ds, q))
                  /\ Q!SqlList(e, ds, q) = Q!Page(Rows(ds, h), q.offset, q.limit)
<1> DEFINE W == Chosen(ds, q)
           S == {i \in DOMAIN ds : Q!Where(e, ds[i], q)}
<1>1. /\ IsList(ds) /\ Len(ds) \in Nat /\ DOMAIN ds = 1..Len(ds) /\ Absent \notin Value
      /\ OneColumn(Column(ds, q.order))
  BY DocumentFacts, ColumnsAreOne DEF IsList
<1>2. S = W /\ W \cap (1..Len(ds)) = W /\ W \in SUBSET (1..Len(ds))
  BY <1>1, WhereAgrees DEF Chosen
<1>3. e = "postgres" => Absent \notin Column(ds, q.order)
  <2>1. \A i \in 1..Len(ds) : ds[i].id # Absent
    BY <1>1, DocumentFacts DEF Value
  <2> QED BY <2>1 DEF Column, Q!Field
<1> HIDE DEF W, S
<1>4. PICK f : Lists(f, W, Less) /\ Q!Keep(ds, S) = Rows(ds, f)
  BY <1>1, <1>2, KeepPicks
<1> DEFINE rs == Rows(ds, f)
<1>5. IsList(rs) /\ Column(rs, q.order) \subseteq Column(ds, q.order)
  <2>1. Len(f) \in Nat /\ \A i \in 1..Len(f) : f[i] \in W
    BY <1>4, ListFacts
  <2>2. IsList(rs) /\ Len(rs) = Len(f) /\ \A i \in 1..Len(f) : rs[i] = ds[f[i]]
    BY <2>1, RowsFacts, RowsAreAList
  <2> QED BY <2>1, <2>2, <1>2 DEF Column
<1>6. OneColumn(Column(rs, q.order))
  BY <1>1, <1>5, Zenon DEF OneColumn
<1>7. Q!SqlAhead(e, rs, q) = Q!Ahead(rs, q)
  <2> HIDE DEF rs
  <2> QED BY <1>3, <1>5, <1>6, AheadAlike
<1>8. PICK h : Lists(h, W, Turn(ds, q)) /\ Q!Ordered(rs, q, Q!Ahead(rs, q)) = Rows(ds, h)
  <2>1. \E g : /\ Lists(g, W, Turn(ds, q))
               /\ LET xs == Rows(ds, f) IN Q!Ordered(xs, q, Q!Ahead(xs, q)) = Rows(ds, g)
    BY <1>1, <1>2, <1>4, OrderedLists
  <2> QED BY <2>1
<1>9. Q!SqlList(e, ds, q) = Q!Page(Q!SqlOrder(e, Q!Keep(ds, S), q), q.offset, q.limit)
  BY DEF Q!SqlList, S
<1>10. Q!SqlOrder(e, rs, q) = Rows(ds, h)
  <2> HIDE DEF rs
  <2> QED BY <1>7, <1>8 DEF Q!SqlOrder
<1> QED BY <1>4, <1>8, <1>9, <1>10 DEF W

LEMMA SqlListsAlike ==
    ASSUME Absent \notin Value \cup {Q!Text(0)}, NEW ds \in Seq(Document), NEW q \in Query,
           Q!OneTypePage(ds, q), NEW e \in Q!SqlEngines,
           e = "postgres" => \A i \in 1..Len(ds) : ds[i].f # Absent
    PROVE  Q!SqlList(e, ds, q) = Q!Reference(ds, q)
<1>1. Absent \notin Value /\ IsList(ds) /\ OneColumn(Column(ds, q.order))
  BY DocumentFacts, ColumnsAreOne
<1>2. PICK g : /\ Lists(g, Chosen(ds, q), Turn(ds, q))
               /\ Q!Reference(ds, q) = Q!Page(Rows(ds, g), q.offset, q.limit)
  BY <1>1, ReferenceLists
<1>3. PICK h : /\ Lists(h, Chosen(ds, q), Turn(ds, q))
               /\ Q!SqlList(e, ds, q) = Q!Page(Rows(ds, h), q.offset, q.limit)
  BY SqlLists
<1>4. Chosen(ds, q) \in SUBSET (1..Len(ds))
  BY DEF Chosen
<1>5. Asymmetric(Turn(ds, q), Chosen(ds, q))
  BY <1>1, <1>4, TurnIsAsymmetric
<1>6. g = h
  BY <1>2, <1>3, <1>5, OneListing
<1> QED BY <1>2, <1>3, <1>6

-----------------------------------------------------------------------------
(* RethinkDB's lists *)

LEMMA SequenceFacts ==
    ASSUME NEW D, NEW x \in Seq(D)
    PROVE  /\ IsList(x) /\ Len(x) \in Nat /\ DOMAIN x = 1..Len(x)
           /\ x = [i \in 1..Len(x) |-> x[i]] /\ \A i \in 1..Len(x) : x[i] \in D
  BY LenProperties DEF IsList

LEMMA KeptFacts ==
    ASSUME NEW D, NEW x \in Seq(D), NEW S
    PROVE  /\ Q!Keep(x, S) \in Seq(D)
           /\ \A k \in 1..Len(Q!Keep(x, S)) : \E i \in 1..Len(x) : i \in S /\ Q!Keep(x, S)[k] = x[i]
<1>1. Len(x) \in Nat /\ \A i \in 1..Len(x) : x[i] \in D
  BY SequenceFacts
<1>2. PICK h : Lists(h, S \cap (1..Len(x)), Less) /\ Q!Keep(x, S) = Rows(x, h)
  BY <1>1, KeepPicks
<1>3. Len(h) \in Nat /\ \A i \in 1..Len(h) : h[i] \in S \cap (1..Len(x))
  BY <1>2, ListFacts
<1>4. /\ Len(Rows(x, h)) = Len(h)
      /\ \A k \in 1..Len(h) : Rows(x, h)[k] = x[h[k]]
  BY <1>3, RowsFacts
<1>5. Rows(x, h) \in Seq(D)
  <2>1. Rows(x, h) \in [1..Len(h) -> D]
    BY <1>1, <1>3 DEF Rows
  <2> QED BY <2>1, <1>3, SeqDef
<1> QED BY <1>2, <1>3, <1>4, <1>5

\* The first page, and the page of a page.
LEMMA PageFacts ==
    ASSUME NEW D, NEW x \in Seq(D), NEW l \in Nat \cup {Absent}
    PROVE  LET y == Q!Page(x, 0, l)
           IN /\ y \in Seq(D) /\ Q!Page(y, 0, l) = y
              /\ \A i \in 1..Len(y) : i \in 1..Len(x) /\ y[i] = x[i]
              /\ l = Absent => y = x
<1> DEFINE y == Q!Page(x, 0, l)
<1>1. ASSUME NEW z \in Seq(D) PROVE SubSeq(z, 0 + 1, Len(z)) = z
  <2>1. Len(z) \in Nat /\ z = [i \in 1..Len(z) |-> z[i]]
    BY SequenceFacts
  <2> DEFINE s == SubSeq(z, 1, Len(z))
  <2>2. s \in Seq(D) /\ Len(s) = Len(z) /\ \A i \in 1..Len(z) : s[i] = z[i]
    BY <2>1, SubSeqProperties
  <2>3. s = [i \in 1..Len(s) |-> s[i]]
    BY <2>2, SequenceFacts
  <2> HIDE DEF s
  <2> QED BY <2>1, <2>2, <2>3 DEF s
<1>2. ASSUME NEW z \in Seq(D)
      PROVE  Q!Page(z, 0, l) = IF l = Absent \/ l >= Len(z) THEN z ELSE SubSeq(z, 1, l)
  BY <1>1 DEF Q!Page
<1>3. CASE l = Absent \/ l >= Len(x)
  BY <1>2, <1>3
<1>4. CASE ~(l = Absent \/ l >= Len(x))
  <2>1. l \in Nat /\ Len(x) \in Nat /\ l < Len(x) /\ y = SubSeq(x, 1, l)
    BY <1>2, <1>4, SequenceFacts
  <2>2. y \in Seq(D) /\ Len(y) = l /\ \A i \in 1..l : y[i] = x[i]
    <3> DEFINE s == SubSeq(x, 1, l)
    <3>1. \A i \in 1..l : i \in 1..Len(x) /\ x[i] \in D
      BY <2>1, SequenceFacts
    <3>2. /\ s \in Seq(D) /\ Len(s) = IF 1 <= l THEN l - 1 + 1 ELSE 0
          /\ \A i \in 1..l - 1 + 1 : s[i] = x[1 + i - 1]
      <4>1. 1 \in Int /\ l \in Int
        BY <2>1
      <4> QED BY <3>1, <4>1, SubSeqProperties
    <3> HIDE DEF s
    <3>3. Len(s) = l
      BY <2>1, <3>2
    <3>4. \A i \in 1..l : s[i] = x[i]
      <4> SUFFICES ASSUME NEW i \in 1..l PROVE s[i] = x[i]
        OBVIOUS
      <4>1. i \in 1..l - 1 + 1 /\ 1 + i - 1 = i
        BY <2>1
      <4> QED BY <4>1, <3>2
    <3> HIDE DEF y
    <3> QED BY <2>1, <3>2, <3>3, <3>4 DEF s
  <2> HIDE DEF y
  <2>3. Q!Page(y, 0, l) = y
    <3>1. l >= Len(y)
      BY <2>1, <2>2
    <3> QED BY <2>2, <3>1, <1>2
  <2> QED BY <1>4, <2>1, <2>2, <2>3 DEF y
<1> QED BY <1>3, <1>4

LEMMA WholePage ==
    ASSUME NEW D, NEW x \in Seq(D)
    PROVE  Q!Page(x, 0, Absent) = x
<1> DEFINE l == Absent
<1>1. l \in Nat \cup {Absent} /\ l = Absent
  OBVIOUS
<1> HIDE DEF l
<1>2. Q!Page(x, 0, l) = x
  BY <1>1, PageFacts
<1> QED BY <1>1, <1>2

\* Keeping what is all to be kept.
LEMMA KeepsItself ==
    ASSUME NEW D, NEW x \in Seq(D), NEW S, 1..Len(x) \subseteq S
    PROVE  Q!Keep(x, S) = x
  BY SequenceFacts, KeepAll

LEMMA AllAreSelected ==
    ASSUME NEW x \in Seq(Document), NEW q, \A i \in 1..Len(x) : Q!Selects(x[i], q)
    PROVE  Q!Selected(x, q) = x
<1> DEFINE S == {i \in DOMAIN x : Q!Selects(x[i], q)}
<1>1. 1..Len(x) \subseteq S
  BY SequenceFacts
<1>2. Q!Selected(x, q) = Q!Keep(x, S)
  BY DEF Q!Selected
<1> HIDE DEF S
<1> QED BY <1>1, <1>2, KeepsItself

LEMMA NoCursor ==
    ASSUME NEW D, NEW x \in Seq(D), NEW q, q.bound = Absent
    PROVE  Q!ApplyCursor(x, q) = x
<1> DEFINE S == {i \in DOMAIN x : Q!MatchesCursor(x[i], q)}
<1>1. 1..Len(x) \subseteq S
  BY SequenceFacts DEF Q!MatchesCursor
<1>2. Q!ApplyCursor(x, q) = Q!Keep(x, S)
  BY DEF Q!ApplyCursor
<1> HIDE DEF S
<1> QED BY <1>1, <1>2, KeepsItself

\* The server's equality never drops what the driver would keep, and is all of the filter
\* when the filter is one it can be given.
LEMMA PushedFacts ==
    ASSUME NEW q, NEW d
    PROVE  /\ Q!Selects(d, q) => Q!Pushed(d, q)
           /\ q.filter = Absent \/ Q!PushableEq(q.filter.op, q.filter.w)
                => (Q!Pushed(d, q) <=> Q!Selects(d, q))
<1>1. CASE q.filter = Absent
  BY <1>1 DEF Q!Selects, Q!Pushed
<1>2. CASE q.filter # Absent /\ Q!PushableEq(q.filter.op, q.filter.w)
  <2>1. Q!Matches(d.f, q.filter.op, q.filter.w) <=> d.f = q.filter.w
    BY <1>2 DEF Q!PushableEq, Q!Matches
  <2> QED BY <1>2, <2>1, Zenon DEF Q!Selects, Q!Pushed
<1>3. CASE q.filter # Absent /\ ~Q!PushableEq(q.filter.op, q.filter.w)
  BY <1>3, Zenon DEF Q!Pushed
<1> QED BY <1>1, <1>2, <1>3

\* What came back, filtered again, is what the reference filters.
LEMMA SelectedTwice ==
    ASSUME NEW ds \in Seq(Document), NEW q
    PROVE  LET rows == Q!Keep(ds, {i \in DOMAIN ds : Q!Pushed(ds[i], q)})
           IN Q!Selected(rows, q) = Q!Selected(ds, q)
<1> DEFINE N == 1..Len(ds)
           P == {i \in N : Q!Pushed(ds[i], q)}
           W == {i \in N : Q!Selects(ds[i], q)}
           rows == Q!Keep(ds, P)
<1>1. DOMAIN ds = N /\ Len(ds) \in Nat /\ P \cap N = P /\ W \cap N = W /\ P \cap W = W
  BY SequenceFacts, PushedFacts
<1>2. PICK f : Lists(f, P, Less) /\ rows = Rows(ds, f)
  <2> HIDE DEF P
  <2> QED BY <1>1, KeepPicks
<1>3. PICK g : Lists(g, W, Less) /\ Q!Selected(ds, q) = Rows(ds, g)
  <2>1. Q!Selected(ds, q) = Q!Keep(ds, W)
    BY <1>1 DEF Q!Selected
  <2> HIDE DEF W
  <2> QED BY <1>1, <2>1, KeepPicks
<1>4. PICK h : Lists(h, W, Less) /\ Q!Selected(rows, q) = Rows(ds, h)
  <2> DEFINE xs == Rows(ds, f)
             S == {i \in DOMAIN xs : Q!Selects(xs[i], q)}
  <2>1. Len(f) \in Nat /\ \A i \in 1..Len(f) : f[i] \in P
    BY <1>2, ListFacts
  <2>2. DOMAIN xs = 1..Len(f) /\ \A i \in 1..Len(f) : xs[i] = ds[f[i]]
    BY <2>1, RowsFacts
  <2>3. \A i \in 1..Len(f) : i \in S <=> f[i] \in W
    BY <2>1, <2>2
  <2>4. Q!Selected(xs, q) = Q!Keep(xs, S)
    BY DEF Q!Selected
  <2> HIDE DEF S, P, W, rows
  <2>5. KeepsAList(ds, f, S, P \cap W, Less)
    BY <1>2, <2>3, KeepLists
  <2> QED BY <1>1, <1>2, <2>4, <2>5 DEF KeepsAList
<1>5. g = h
  BY <1>3, <1>4, OneListing, LessIsAsymmetric
<1>6. {i \in DOMAIN ds : Q!Pushed(ds[i], q)} = P
  BY <1>1
<1> HIDE DEF P, W
<1> QED BY <1>3, <1>4, <1>5, <1>6

\* With no page to push, or one that takes what is there.
LEMMA FetchedFacts ==
    ASSUME NEW ds \in Seq(Document), NEW q \in Query
    PROVE  LET rows == Q!Keep(ds, {i \in DOMAIN ds : Q!Pushed(ds[i], q)})
           IN /\ rows \in Seq(Document)
              /\ \A k \in 1..Len(rows) : Q!Pushed(rows[k], q)
              /\ ~Q!PushesPage(q) \/ (q.offset = 0 /\ q.limit = Absent) => Q!Fetched(ds, q) = rows
<1> DEFINE S == {i \in DOMAIN ds : Q!Pushed(ds[i], q)}
           rows == Q!Keep(ds, S)
<1>1. rows \in Seq(Document)
  <2> HIDE DEF S
  <2> QED BY KeptFacts
<1>2. ASSUME NEW k \in 1..Len(rows) PROVE Q!Pushed(rows[k], q)
  <2>1. PICK i \in 1..Len(ds) : i \in S /\ rows[k] = ds[i]
    <3> HIDE DEF S
    <3> QED BY KeptFacts
  <2> QED BY <2>1
<1>3. ASSUME ~Q!PushesPage(q) \/ (q.offset = 0 /\ q.limit = Absent)
      PROVE  Q!Fetched(ds, q) = rows
  <2>1. Q!Fetched(ds, q) = IF Q!PushesPage(q) THEN Q!Page(rows, q.offset, q.limit) ELSE rows
    BY DEF Q!Fetched
  <2> HIDE DEF S, rows
  <2>2. Q!Page(rows, 0, Absent) = rows
    BY <1>1, WholePage
  <2> QED BY <1>3, <2>1, <2>2
<1> QED BY <1>1, <1>2, <1>3

LEMMA RethinkListsAlike ==
    ASSUME NEW ds \in Seq(Document), NEW q \in Query,
           Q!PushesPage(q) =>
             /\ q.offset = 0
             /\ q.limit = Absent \/ q.filter = Absent \/ Q!PushableEq(q.filter.op, q.filter.w)
    PROVE  Q!RethinkList(ds, q) = Q!Reference(ds, q)
<1> DEFINE rows == Q!Keep(ds, {i \in DOMAIN ds : Q!Pushed(ds[i], q)})
           l == q.limit
           y == Q!Page(rows, 0, l)
<1>1. /\ rows \in Seq(Document) /\ \A k \in 1..Len(rows) : Q!Pushed(rows[k], q)
      /\ ~Q!PushesPage(q) \/ (q.offset = 0 /\ q.limit = Absent) => Q!Fetched(ds, q) = rows
      /\ Q!Fetched(ds, q) = IF Q!PushesPage(q) THEN Q!Page(rows, q.offset, q.limit) ELSE rows
  BY FetchedFacts DEF Q!Fetched
<1>2. Q!Selected(rows, q) = Q!Selected(ds, q)
  BY SelectedTwice
<1>3. l \in Nat \cup {Absent}
  BY DEF Query
<1> HIDE DEF rows
<1>4. CASE ~Q!PushesPage(q) \/ l = Absent
  BY <1>1, <1>2, <1>4 DEF Q!RethinkList, Q!Reference
<1>5. CASE Q!PushesPage(q) /\ l # Absent
  <2>1. /\ q.offset = 0 /\ q.bound = Absent /\ q.order = "none"
        /\ q.filter = Absent \/ Q!PushableEq(q.filter.op, q.filter.w)
    BY <1>5 DEF Q!PushesPage
  <2>2. \A k \in 1..Len(rows) : Q!Selects(rows[k], q)
    BY <1>1, <2>1, PushedFacts
  <2>3. Q!Selected(rows, q) = rows
    BY <1>1, <2>2, AllAreSelected
  <2>4. Q!Fetched(ds, q) = y
    BY <1>1, <1>5, <2>1
  <2>5. y \in Seq(Document) /\ Q!Page(y, 0, l) = y /\ \A k \in 1..Len(y) : k \in 1..Len(rows) /\ y[k] = rows[k]
    BY <1>1, <1>3, PageFacts
  <2> HIDE DEF y, l
  <2>6. Q!Selected(y, q) = y
    <3>1. \A k \in 1..Len(y) : Q!Selects(y[k], q)
      BY <2>2, <2>5
    <3> QED BY <3>1, <2>5, AllAreSelected
  <2>7. ASSUME NEW x \in Seq(Document) PROVE Q!SortAndLimit(x, q) = Q!Page(x, 0, l)
    <3>1. Q!Ordered(x, q, Q!Ahead(x, q)) = x
      BY <2>1 DEF Q!Ordered
    <3>2. Q!ApplyCursor(x, q) = x
      BY <2>1, NoCursor
    <3> QED BY <2>1, <3>1, <3>2 DEF Q!SortAndLimit, l
  <2>8. Q!RethinkList(ds, q) = y
    BY <2>4, <2>5, <2>6, <2>7 DEF Q!RethinkList
  <2>9. Q!Reference(ds, q) = y
    BY <1>1, <1>2, <2>3, <2>7 DEF Q!Reference, y
  <2> QED BY <2>8, <2>9
<1> QED BY <1>4, <1>5

LEMMA RethinkCounts ==
    ASSUME NEW ds \in Seq(Document), NEW q \in Query, q.offset = 0, q.limit = Absent
    PROVE  Q!RethinkCount(ds, q) = Len(Q!RethinkList(ds, q))
<1> DEFINE rows == Q!Keep(ds, {i \in DOMAIN ds : Q!Pushed(ds[i], q)})
           o == Q!Ordered(rows, q, Q!Ahead(rows, q))
           Listed == q.bound # Absent \/ (q.filter # Absent /\ ~Q!PushableEq(q.filter.op, q.filter.w))
<1>1. CASE Listed
  BY <1>1 DEF Q!RethinkCount
<1>2. CASE ~Listed
  <2>1. q.bound = Absent /\ (q.filter = Absent \/ Q!PushableEq(q.filter.op, q.filter.w))
    BY <1>2
  <2>2. Q!RethinkCount(ds, q) = Len(rows)
    BY <2>1, Zenon DEF Q!RethinkCount
  <2>3. /\ rows \in Seq(Document) /\ \A k \in 1..Len(rows) : Q!Pushed(rows[k], q)
        /\ Q!Fetched(ds, q) = rows
    BY FetchedFacts
  <2> HIDE DEF rows
  <2>4. Q!Selected(rows, q) = rows
    <3>1. \A k \in 1..Len(rows) : Q!Selects(rows[k], q)
      BY <2>1, <2>3, PushedFacts
    <3> QED BY <2>3, <3>1, AllAreSelected
  <2>5. \E D : o \in Seq(D) /\ Len(o) = Len(rows)
    <3>1. CASE q.order = "none"
      BY <2>3, <3>1 DEF Q!Ordered
    <3>2. CASE q.order # "none"
      <4> DEFINE s == Q!Sorted(Len(rows), Q!Ahead(rows, q))
                 D == {rows[s[i]] : i \in 1..Len(rows)}
      <4>1. o = [i \in 1..Len(rows) |-> rows[s[i]]]
        BY <3>2 DEF Q!Ordered
      <4>2. Len(rows) \in Nat
        BY <2>3, SequenceFacts
      <4>3. o \in [1..Len(rows) -> D]
        BY <4>1
      <4>4. o \in Seq(D)
        BY <4>2, <4>3, SeqDef
      <4>5. Len(o) = Len(rows)
        <5> DEFINE m == Len(rows)
        <5>1. m \in Nat
          BY <4>2
        <5> HIDE DEF D
        <5>2. DOMAIN o = 1..m
          BY <4>1
        <5>3. Len(o) \in Nat /\ DOMAIN o = 1..Len(o)
          <6> HIDE DEF o
          <6> QED BY <4>4, SequenceFacts
        <5> HIDE DEF o, m
        <5>4. Len(o) = m
          BY <5>1, <5>2, <5>3
        <5> QED BY <5>4 DEF m
      <4> QED BY <4>4, <4>5
    <3> QED BY <3>1, <3>2
  <2> HIDE DEF o
  <2>6. PICK D : o \in Seq(D) /\ Len(o) = Len(rows)
    BY <2>5
  <2>7. Q!ApplyCursor(o, q) = o /\ Q!Page(o, 0, Absent) = o
    <3>1. Q!ApplyCursor(o, q) = o
      BY <2>1, <2>6, NoCursor
    <3>2. Q!Page(o, 0, Absent) = o
      BY <2>6, WholePage
    <3> QED BY <3>1, <3>2
  <2>8. Q!RethinkList(ds, q) = o
    BY <2>3, <2>4, <2>7 DEF Q!RethinkList, Q!SortAndLimit, o
  <2> QED BY <2>2, <2>6, <2>8
<1> QED BY <1>1, <1>2

\* Whatever the documents and the query are, as long as the column, the filter and the
\* cursor are of one type: a driver's list is the one of list over sort_and_limit, but where
\* PostgreSQL meets a missing field or a cursor on the id, and where RethinkDB pushes a page
\* that it takes again or filters after; and without a page count is the length of list.
THEOREM DriversListAlike ==
    ASSUME Absent \notin Value \cup {Q!Text(0)}, NEW ds \in Seq(Document), NEW q \in Query,
           input = <<"page", ds, q>>
    PROVE  PagesAgree
<1>1. ASSUME NEW e \in Q!SqlEngines, Q!OneTypePage(ds, q),
             e = "postgres" => \A i \in DOMAIN ds : ds[i].f # Absent
      PROVE  Q!List(e, ds, q) = Q!Reference(ds, q)
  <2>1. e # "rethinkdb" /\ DOMAIN ds = 1..Len(ds)
    BY SequenceFacts DEF Q!SqlEngines
  <2>2. Q!SqlList(e, ds, q) = Q!Reference(ds, q)
    BY <1>1, <2>1, SqlListsAlike
  <2> QED BY <2>1, <2>2 DEF Q!List
<1>2. ASSUME Q!PushesPage(q) =>
               /\ q.offset = 0
               /\ q.limit = Absent \/ q.filter = Absent \/ Q!PushableEq(q.filter.op, q.filter.w)
      PROVE  Q!List("rethinkdb", ds, q) = Q!Reference(ds, q)
  BY <1>2, RethinkListsAlike DEF Q!List
<1>3. ASSUME NEW e \in Q!AllEngines, q.offset = 0, q.limit = Absent
      PROVE  Q!Count(e, ds, q) = Len(Q!List(e, ds, q))
  <2>1. CASE e = "rethinkdb"
    BY <1>3, <2>1, RethinkCounts DEF Q!Count, Q!List
  <2>2. CASE e # "rethinkdb"
    <3>1. [q EXCEPT !.offset = 0, !.limit = Absent] = q
      BY <1>3 DEF Query
    <3> QED BY <2>2, <3>1 DEF Q!Count, Q!SqlCount, Q!List
  <2> QED BY <2>1, <2>2
<1>4. ASSUME NEW e \in Q!AllEngines PROVE Q!PageAgrees(e, ds, q)
  <2> DEFINE unordered == \A i \in DOMAIN ds : ds[i].f # Absent
             pg == e = "postgres" => ~Q!CursorRefused(e, q) /\ unordered
             rdb == e = "rethinkdb" /\ Q!PushesPage(q) =>
                      /\ q.offset = 0
                      /\ q.limit = Absent \/ q.filter = Absent
                           \/ Q!PushableEq(q.filter.op, q.filter.w)
  <2>1. ASSUME Q!OneTypePage(ds, q), pg, rdb PROVE Q!List(e, ds, q) = Q!Reference(ds, q)
    <3>1. CASE e = "rethinkdb"
      BY <1>2, <2>1, <3>1
    <3>2. CASE e # "rethinkdb"
      <4>1. e \in Q!SqlEngines
        BY <3>2 DEF Q!AllEngines
      <4> QED BY <1>1, <2>1, <4>1
    <3> QED BY <3>1, <3>2
  <2> QED BY <1>3, <2>1, Zenon DEF Q!PageAgrees
<1>5. input[1] = "page" /\ input[2] = ds /\ input[3] = q
  OBVIOUS
<1> QED BY <1>4, <1>5 DEF PagesAgree
=============================================================================
