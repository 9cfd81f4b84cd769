----------------------------- MODULE BatchProofs -----------------------------
(***************************************************************************)
(* Theorems about Batch, for any documents, clients, rules and lengths of   *)
(* requests.                                                                *)
(*                                                                         *)
(* The inductive invariant has three parts: the types; what the gates have  *)
(* let through so far (Gated), for the rules do not change; and, for every  *)
(* document that was not overtaken on its way, that at most one sender is on *)
(* its way with it, who will tell the bus what the store holds (Bus).       *)
(***************************************************************************)
EXTENDS Batch, SequenceTheorems, WellFoundedInduction, TLAPS

Body == [Fields -> Clients \cup {Old, None}]
Value == Body \cup {None}

Steps == {"idle", "gate", "apply", "emit"}
Locals == [ops : Seq(Op), tx : BOOLEAN, copies : Seq(Value)]

\* How many copies a request has, by its step.
Progress(c) ==
    /\ pc[c] = "idle" => loc[c] = Idle
    /\ pc[c] = "gate" => Len(loc[c].copies) < Len(loc[c].ops)
    /\ pc[c] \in {"apply", "emit"} => Len(loc[c].copies) = Len(loc[c].ops)

TypeOK ==
    /\ rules \in Rules
    /\ store \in [Docs -> Value]
    /\ told \in [Docs -> Value]
    /\ pc \in [Clients -> Steps]
    /\ loc \in [Clients -> Locals]
    /\ requests \in Nat
    /\ crossed \subseteq Docs
    /\ \A c \in Clients : Progress(c)

\* Every operation whose copy was taken has passed the gate with it.
Gated(c) ==
    \A p \in 1..Len(loc[c].copies) :
      LET op == loc[c].ops[p] IN
      /\ Known(op) \/ loc[c].tx
      /\ Allowed(c, Method(op, loc[c].copies[p] # None, loc[c].tx), op.doc, loc[c].copies[p])

\* The client is on its way to the bus with a write of the document.
Sends(c, d) == pc[c] = "emit" /\ d \in Written(loc[c].ops)

Bus(d) ==
    /\ (\A c \in Clients : ~Sends(c, d)) => told[d] = store[d]
    /\ \A c \in Clients : Sends(c, d) => Told(told, Prepared(c))[d] = store[d]
    /\ \A c, o \in Clients : Sends(c, d) /\ Sends(o, d) => c = o

BInv == /\ TypeOK
        /\ \A c \in Clients : Gated(c)
        /\ \A d \in Docs \ crossed : Bus(d)

-----------------------------------------------------------------------------
(* Counting *)

\* What holds of 0, and of a number when it holds of the one before, holds up to k.
LEMMA Counting ==
    ASSUME NEW k \in Nat, NEW S, 0 \in S,
           \A n \in 1..k : n - 1 \in S => n \in S
    PROVE  \A n \in 0..k : n \in S
<1> DEFINE R == {p \in Nat \X Nat : p[1] < p[2]}
           T == (0..k) \ S
<1>1. R = OpToRel(<, Nat)
  BY DEF OpToRel
<1>2. IsWellFoundedOn(R, Nat)
  BY <1>1, NatLessThanWellFounded
<1>3. T \subseteq Nat
  OBVIOUS
<1>4. CASE T # {}
  <2> HIDE DEF R, T
  <2>1. PICK n \in T : \A m \in T : <<m, n>> \notin R
    BY <1>2, <1>3, <1>4, WFMin
  <2>2. n \in 1..k /\ n \notin S
    BY <2>1 DEF T
  <2>3. n - 1 \notin T
    <3>1. n - 1 \in Nat /\ n \in Nat /\ n - 1 < n
      BY <2>2
    <3>2. <<n - 1, n>> \in R
      BY <3>1 DEF R
    <3> QED BY <2>1, <3>2
  <2> QED BY <2>2, <2>3 DEF T
<1> QED BY <1>4

\* A set of positions has a greatest one.
LEMMA Greatest ==
    ASSUME NEW k \in Nat, NEW W, W \subseteq 1..k, W # {}
    PROVE  Max(W) \in W /\ \A p \in W : p <= Max(W)
<1> DEFINE HasMax(n) == W \cap (1..n) # {} =>
                          \E m \in W \cap (1..n) : \A p \in W \cap (1..n) : m >= p
           S == {n \in Nat : HasMax(n)}
<1>1. 0 \in S
  OBVIOUS
<1>2. ASSUME NEW n \in 1..k, n - 1 \in S PROVE n \in S
  <2>1. n \in Nat /\ HasMax(n - 1)
    BY <1>2
  <2>2. CASE n \in W
    BY <2>1, <2>2
  <2>3. CASE n \notin W
    <3>1. W \cap (1..n) = W \cap (1..n - 1)
      BY <2>1, <2>3
    <3> QED BY <2>1, <3>1
  <2> QED BY <2>2, <2>3
<1> HIDE DEF S
<1>3. k \in S
  BY <1>1, <1>2, Counting
<1>4. HasMax(k) /\ W \cap (1..k) = W
  BY <1>3 DEF S
<1>5. \E m \in W : \A p \in W : m >= p
  BY <1>4
<1>6. Max(W) \in W /\ \A p \in W : Max(W) >= p
  BY <1>5, Zenon DEF Max
<1> QED BY <1>6

-----------------------------------------------------------------------------
(* What a list of operations comes to *)

Outcome == [ok : BOOLEAN, store : [Docs -> Value], reads : Seq(Value)]
Start(s) == [ok |-> TRUE, store |-> s, reads |-> <<>>]
Item == [type : {"get", "put", "delete"}, doc : Docs, data : Body, must : BOOLEAN]

\* The recursion of After is well defined.
LEMMA AfterDef ==
    ASSUME NEW s, NEW ts, Len(ts) \in Nat
    PROVE  /\ After(s, ts)[0] = Start(s)
           /\ \A n \in 1..Len(ts) : After(s, ts)[n] = Step(After(s, ts)[n - 1], ts[n])
<1> DEFINE Eq(g, n) == IF n = 0 THEN Start(s) ELSE Step(g[n - 1], ts[n])
           S == {m \in Nat : \E g : g = [n \in 0..m |-> Eq(g, n)]}
<1>1. 0 \in S
  <2> DEFINE z == [n \in 0..0 |-> Start(s)]
  <2>1. z = [n \in 0..0 |-> Eq(z, n)]
    OBVIOUS
  <2> QED BY <2>1
<1>2. ASSUME NEW m \in 1..Len(ts), m - 1 \in S PROVE m \in S
  <2>1. PICK g : g = [n \in 0..m - 1 |-> Eq(g, n)]
    BY <1>2
  <2> DEFINE last == Step(g[m - 1], ts[m])
             h == [n \in 0..m |-> IF n = m THEN last ELSE g[n]]
  <2>2. ASSUME NEW n \in 0..m PROVE h[n] = Eq(h, n)
    <3> HIDE DEF last
    <3>1. CASE n = m
      <4>1. h[n] = last /\ h[n - 1] = g[m - 1] /\ n # 0
        BY <3>1
      <4> QED BY <4>1, <3>1 DEF last
    <3>2. CASE n # m
      <4>1. n \in 0..m - 1 /\ h[n] = g[n]
        BY <3>2
      <4>2. g[n] = Eq(g, n)
        BY <4>1, <2>1
      <4>3. CASE n = 0
        BY <4>1, <4>2, <4>3
      <4>4. CASE n # 0
        <5>1. h[n - 1] = g[n - 1]
          BY <4>1, <4>4
        <5> QED BY <4>1, <4>2, <4>4, <5>1
      <4> QED BY <4>3, <4>4
    <3> QED BY <3>1, <3>2
  <2>3. h = [n \in 0..m |-> h[n]]
    OBVIOUS
  <2> HIDE DEF h, Eq
  <2>4. h = [n \in 0..m |-> Eq(h, n)]
    BY <2>2, <2>3
  <2> QED BY <2>4
<1>3. \E g : g = [n \in 0..Len(ts) |-> Eq(g, n)]
  <2> HIDE DEF S
  <2>1. \A n \in 0..Len(ts) : n \in S
    BY <1>1, <1>2, Counting
  <2>2. Len(ts) \in S
    BY <2>1
  <2> QED BY <2>2 DEF S
<1> DEFINE A == After(s, ts)
<1>4. A = [n \in 0..Len(ts) |-> Eq(A, n)]
  BY <1>3 DEF After, Start
<1> HIDE DEF A
<1>5. A[0] = Start(s)
  BY <1>4
<1>6. ASSUME NEW n \in 1..Len(ts) PROVE A[n] = Step(A[n - 1], ts[n])
  BY <1>4
<1> QED BY <1>5, <1>6 DEF A

\* One operation: where it leads, and that a failure is never forgotten.
LEMMA StepFacts ==
    ASSUME NEW x \in Outcome, NEW t \in Item
    PROVE  /\ Step(x, t) \in Outcome
           /\ Step(x, t).ok => x.ok
           /\ \A d \in Docs : d # t.doc \/ t.type = "get" => Step(x, t).store[d] = x.store[d]
           /\ Step(x, t).ok /\ t.type # "get" => Step(x, t).store[t.doc] = Content(t)
<1>1. x.store[t.doc] \in Value /\ t.data \in Value
  BY DEF Outcome, Item, Value
<1>2. Append(x.reads, x.store[t.doc]) \in Seq(Value)
  BY <1>1 DEF Outcome
<1>3. CASE t.must /\ x.store[t.doc] = None
  BY <1>3 DEF Step, Outcome
<1>4. CASE ~(t.must /\ x.store[t.doc] = None) /\ t.type = "get"
  <2>1. Step(x, t) = [x EXCEPT !.reads = Append(@, x.store[t.doc])]
    BY <1>4 DEF Step
  <2> QED BY <2>1, <1>2, <1>4 DEF Outcome
<1>5. CASE ~(t.must /\ x.store[t.doc] = None) /\ t.type # "get"
  <2>1. t.type \in {"put", "delete"}
    BY <1>5 DEF Item
  <2>2. Step(x, t) = [x EXCEPT !.store[t.doc] = Content(t)]
    BY <1>5, <2>1 DEF Step, Content
  <2>3. Content(t) \in Value
    BY <1>1 DEF Content, Value
  <2> QED BY <2>2, <2>3, <1>5 DEF Outcome, Item
<1> QED BY <1>3, <1>4, <1>5

Writes(t, d) == t.type # "get" /\ t.doc = d

\* What a list has done after n operations: the last write of a document counts.
Effect(s, ts, n) ==
    LET x == After(s, ts)[n] IN
    /\ x \in Outcome
    /\ \A d \in Docs :
         /\ (\A q \in 1..n : ~Writes(ts[q], d)) => x.store[d] = s[d]
         /\ \A p \in 1..n :
              x.ok /\ Writes(ts[p], d) /\ (\A q \in p + 1..n : ~Writes(ts[q], d))
                => x.store[d] = Content(ts[p])

LEMMA Effects ==
    ASSUME NEW s \in [Docs -> Value], NEW ts \in Seq(Item), NEW k \in 0..Len(ts)
    PROVE  Effect(s, ts, k)
<1> DEFINE A == After(s, ts)
           S == {n \in Nat : Effect(s, ts, n)}
<1>1. /\ Len(ts) \in Nat
      /\ A[0] = Start(s)
      /\ \A n \in 1..Len(ts) : ts[n] \in Item /\ A[n] = Step(A[n - 1], ts[n])
  BY AfterDef
<1>2. 0 \in S
  <2>1. Start(s) \in Outcome /\ Start(s).store = s
    BY DEF Start, Outcome
  <2> QED BY <1>1, <2>1 DEF Effect
<1>3. ASSUME NEW n \in 1..Len(ts), n - 1 \in S PROVE n \in S
  <2>1. /\ A[n - 1] \in Outcome /\ ts[n] \in Item /\ A[n] = Step(A[n - 1], ts[n])
        /\ n \in Nat /\ Effect(s, ts, n - 1)
    BY <1>1, <1>3 DEF Effect
  <2> DEFINE x == A[n - 1]
             y == A[n]
             t == ts[n]
  <2>2. /\ y \in Outcome /\ (y.ok => x.ok)
        /\ \A d \in Docs : d # t.doc \/ t.type = "get" => y.store[d] = x.store[d]
        /\ y.ok /\ t.type # "get" => y.store[t.doc] = Content(t)
    BY <2>1, StepFacts
  <2>3. ASSUME NEW d \in Docs, \A q \in 1..n : ~Writes(ts[q], d)
        PROVE  y.store[d] = s[d]
    <3>1. ~Writes(t, d) /\ \A q \in 1..n - 1 : ~Writes(ts[q], d)
      BY <2>3, <2>1
    <3>2. x.store[d] = s[d]
      BY <3>1, <2>1 DEF Effect
    <3>3. y.store[d] = x.store[d]
      BY <3>1, <2>2 DEF Writes
    <3> QED BY <3>2, <3>3
  <2>4. ASSUME NEW d \in Docs, NEW p \in 1..n, y.ok, Writes(ts[p], d),
               \A q \in p + 1..n : ~Writes(ts[q], d)
        PROVE  y.store[d] = Content(ts[p])
    <3>1. CASE p = n
      BY <3>1, <2>2, <2>4 DEF Writes
    <3>2. CASE p # n
      <4>1. /\ p \in 1..n - 1 /\ ~Writes(t, d)
            /\ \A q \in p + 1..n - 1 : ~Writes(ts[q], d)
        BY <3>2, <2>4, <2>1
      <4>2. x.store[d] = Content(ts[p])
        BY <4>1, <2>1, <2>2, <2>4 DEF Effect
      <4>3. y.store[d] = x.store[d]
        BY <4>1, <2>2 DEF Writes
      <4> QED BY <4>2, <4>3
    <3> QED BY <3>1, <3>2
  <2>5. Effect(s, ts, n)
    BY <2>2, <2>3, <2>4 DEF Effect
  <2> QED BY <2>1, <2>5
<1> HIDE DEF S
<1>4. k \in S
  BY <1>1, <1>2, <1>3, Counting
<1> QED BY <1>4 DEF S

\* A list that goes well has gone well all along.
LEMMA WellSoFar ==
    ASSUME NEW s \in [Docs -> Value], NEW ts \in Seq(Item), RunTransaction(s, ts).ok,
           NEW k \in 0..Len(ts)
    PROVE  After(s, ts)[k].ok
<1> DEFINE A == After(s, ts)
           S == {m \in Nat : A[Len(ts) - m].ok}
<1>1. Len(ts) \in Nat /\ 0 \in S
  BY DEF RunTransaction
<1>2. ASSUME NEW m \in 1..Len(ts), m - 1 \in S PROVE m \in S
  <2> DEFINE n == Len(ts) - (m - 1)
  <2>1. n \in 1..Len(ts) /\ n - 1 = Len(ts) - m /\ n - 1 \in 0..Len(ts) /\ A[n].ok
    BY <1>1, <1>2
  <2> HIDE DEF n
  <2>2. A[n] = Step(A[n - 1], ts[n]) /\ A[n - 1] \in Outcome /\ ts[n] \in Item
    BY <2>1, <1>1, AfterDef, Effects DEF Effect
  <2> HIDE DEF A, S
  <2>3. A[n - 1].ok
    <3>1. Step(A[n - 1], ts[n]).ok
      BY <2>1, <2>2
    <3> QED BY <2>2, <3>1, StepFacts
  <2> QED BY <2>1, <2>3, <1>2 DEF S
<1> HIDE DEF S
<1>3. Len(ts) - k \in 0..Len(ts)
  BY <1>1
<1>4. Len(ts) - k \in S
  BY <1>1, <1>2, <1>3, Counting
<1> QED BY <1>4, <1>1 DEF S

\* The transaction and the events agree: both end with the last write of a document.
LEMMA StoreAndBusAgree ==
    ASSUME NEW s \in [Docs -> Value], NEW ts \in Seq(Item), RunTransaction(s, ts).ok,
           NEW d \in Docs
    PROVE  /\ RunTransaction(s, ts) \in Outcome
           /\ Events(ts, d) = {} => RunTransaction(s, ts).store[d] = s[d]
           /\ Events(ts, d) # {} =>
                \A b : Told(b, ts)[d] = RunTransaction(s, ts).store[d]
<1>1. Len(ts) \in Nat /\ DOMAIN ts = 1..Len(ts) /\ Events(ts, d) \subseteq 1..Len(ts)
  BY DEF Events
<1>2. Effect(s, ts, Len(ts)) /\ RunTransaction(s, ts) = After(s, ts)[Len(ts)]
  BY <1>1, Effects DEF RunTransaction
<1>3. \A p \in 1..Len(ts) : p \in Events(ts, d) <=> Writes(ts[p], d)
  BY <1>1 DEF Events, Writes
<1>4. ASSUME Events(ts, d) # {}, NEW b
      PROVE  Told(b, ts)[d] = RunTransaction(s, ts).store[d]
  <2> DEFINE m == Max(Events(ts, d))
  <2>1. m \in Events(ts, d) /\ \A p \in Events(ts, d) : p <= m
    BY <1>1, <1>4, Greatest
  <2> HIDE DEF m
  <2>2. m \in 1..Len(ts) /\ \A q \in m + 1..Len(ts) : ~Writes(ts[q], d)
    BY <2>1, <1>1, <1>3
  <2>3. RunTransaction(s, ts).store[d] = Content(ts[m])
    BY <2>1, <2>2, <1>2, <1>3 DEF Effect
  <2>4. Told(b, ts)[d] = Content(ts[m])
    BY <1>4 DEF Told, m
  <2> QED BY <2>3, <2>4
<1> QED BY <1>2, <1>3, <1>4 DEF Effect

\* An event about a document says the same whatever was told before.
LEMMA ToldFacts ==
    ASSUME NEW ts, NEW d \in Docs
    PROVE  /\ Events(ts, d) = {} => \A b : Told(b, ts)[d] = b[d]
           /\ Events(ts, d) # {} => \A a, b : Told(a, ts)[d] = Told(b, ts)[d]
  BY DEF Told

-----------------------------------------------------------------------------
(* What a request prepares *)

LEMMA ListType ==
    ASSUME NEW S, NEW n \in Nat, NEW f \in [1..n -> S]
    PROVE  f \in Seq(S) /\ Len(f) = n
<1>1. f \in Seq(S)
  BY SeqDef
<1>2. DOMAIN f = 1..Len(f) /\ DOMAIN f = 1..n /\ Len(f) \in Nat
  BY <1>1
<1> QED BY <1>1, <1>2

LEMMA OpFacts ==
    ASSUME NEW ops \in Seq(Op), NEW p \in DOMAIN ops
    PROVE  ops[p] \in Op /\ ops[p].doc \in Docs /\ ops[p].type \in Types
<1>1. ops[p] \in Op
  OBVIOUS
<1> QED BY <1>1 DEF Op

LEMMA EmptyType == Empty \in Body
  BY DEF Empty, Body

LEMMA RawType ==
    ASSUME NEW c \in Clients, NEW p
    PROVE  Raw(c, p) \in Body
  BY EmptyType DEF Raw, Body

LEMMA DataType ==
    ASSUME NEW op \in Op, NEW raw \in Body, NEW v \in Value
    PROVE  Data(op, raw, v) \in Body
<1>1. Over(v, raw) \in Body
  <2>1. CASE v = None
    BY <2>1 DEF Over, Body
  <2>2. CASE v # None
    <3>1. v \in Body BY <2>2 DEF Value
    <3> QED BY <3>1 DEF Over, Body
  <2> QED BY <2>1, <2>2
<1> QED BY <1>1 DEF Data

LEMMA PreparedFacts ==
    ASSUME TypeOK, NEW c \in Clients, Len(loc[c].copies) = Len(loc[c].ops)
    PROVE  /\ Prepared(c) \in Seq(Item)
           /\ Len(Prepared(c)) = Len(loc[c].ops)
           /\ \A d \in Docs : Events(Prepared(c), d) # {} <=> d \in Written(loc[c].ops)
<1>1. /\ loc[c].ops \in Seq(Op) /\ loc[c].copies \in Seq(Value)
      /\ Len(loc[c].ops) \in Nat /\ DOMAIN loc[c].ops = 1..Len(loc[c].ops)
  BY DEF TypeOK, Locals
<1>2. ASSUME NEW p \in 1..Len(loc[c].ops)
      PROVE  /\ Prepared(c)[p] \in Item
             /\ Prepared(c)[p].doc = loc[c].ops[p].doc
             /\ Prepared(c)[p].type = "get" <=> loc[c].ops[p].type = "get"
  <2> DEFINE op == loc[c].ops[p]
             v == loc[c].copies[p]
  <2>1. op \in Op /\ v \in Value
    BY <1>1
  <2>2. Prepared(c)[p] = [type |-> IF IsPut(op) THEN "put" ELSE op.type, doc |-> op.doc,
                          data |-> IF IsPut(op) THEN Data(op, Raw(c, p), v) ELSE Empty,
                          must |-> MustExist(op, v # None, loc[c].tx)]
    BY <1>1 DEF Prepared
  <2>3. Data(op, Raw(c, p), v) \in Body
    BY <2>1, RawType, DataType
  <2>4. MustExist(op, v # None, loc[c].tx) \in BOOLEAN
    BY DEF MustExist
  <2>5. /\ op.doc \in Docs /\ op.type \in Types
        /\ (IF IsPut(op) THEN "put" ELSE op.type) \in {"get", "put", "delete"}
        /\ (IF IsPut(op) THEN "put" ELSE op.type) = "get" <=> op.type = "get"
    BY <2>1 DEF Op, IsPut
  <2> HIDE DEF op, v
  <2>6. Prepared(c)[p] \in Item
    BY <2>2, <2>3, <2>4, <2>5, EmptyType DEF Item
  <2> QED BY <2>2, <2>5, <2>6 DEF op
<1>3. DOMAIN Prepared(c) = 1..Len(loc[c].ops)
  BY <1>1 DEF Prepared
<1>4. Prepared(c) = [p \in 1..Len(loc[c].ops) |-> Prepared(c)[p]]
  BY <1>1, Zenon DEF Prepared
<1>5. Prepared(c) \in Seq(Item) /\ Len(Prepared(c)) = Len(loc[c].ops)
  <2>1. Prepared(c) \in [1..Len(loc[c].ops) -> Item]
    BY <1>2, <1>4
  <2> QED BY <2>1, <1>1, ListType
<1>6. ASSUME NEW d \in Docs
      PROVE  Events(Prepared(c), d) # {} <=> d \in Written(loc[c].ops)
  BY <1>1, <1>2, <1>3 DEF Events, Written
<1> QED BY <1>5, <1>6

-----------------------------------------------------------------------------
(* Steps of one client *)

\* The other clients are where they were, with what they had.
LEMMA OthersStand ==
    ASSUME TypeOK, NEW c \in Clients, NEW step, NEW l, Goto(c, step, l),
           rules' = rules
    PROVE  /\ pc'[c] = step /\ loc'[c] = l
           /\ step \in Steps => pc' \in [Clients -> Steps]
           /\ l \in Locals => loc' \in [Clients -> Locals]
           /\ \A o \in Clients \ {c} :
                /\ pc'[o] = pc[o] /\ loc'[o] = loc[o]
                /\ Progress(o)' <=> Progress(o)
                /\ Gated(o)' <=> Gated(o)
                /\ Prepared(o)' = Prepared(o)
                /\ \A d : Sends(o, d)' <=> Sends(o, d)
<1>1. /\ pc \in [Clients -> Steps] /\ loc \in [Clients -> Locals]
      /\ pc' = [pc EXCEPT ![c] = step] /\ loc' = [loc EXCEPT ![c] = l]
  BY DEF TypeOK, Goto
<1>2. ASSUME NEW o \in Clients \ {c}
      PROVE  /\ pc'[o] = pc[o] /\ loc'[o] = loc[o]
  BY <1>1
<1>3. ASSUME NEW o \in Clients \ {c}
      PROVE  /\ (Progress(o)' <=> Progress(o))
             /\ (Gated(o)' <=> Gated(o))
             /\ Prepared(o)' = Prepared(o)
  <2>1. Progress(o)' <=> Progress(o)
    BY <1>2 DEF Progress
  <2>2. Gated(o)' <=> Gated(o)
    BY <1>2 DEF Gated, Allowed
  <2>3. Prepared(o)' = Prepared(o)
    BY <1>2 DEF Prepared
  <2> QED BY <2>1, <2>2, <2>3
<1>4. ASSUME NEW o \in Clients \ {c}, NEW d
      PROVE  Sends(o, d)' <=> Sends(o, d)
  BY <1>2 DEF Sends, Written
<1> QED BY <1>1, <1>2, <1>3, <1>4

\* A step that writes nothing and tells nothing.
LEMMA QuietStep ==
    ASSUME BInv, NEW c \in Clients, NEW step \in Steps \ {"emit"}, NEW l \in Locals,
           Goto(c, step, l), pc[c] # "emit",
           store' = store, told' = told, rules' = rules, crossed' = crossed,
           requests' \in Nat, Progress(c)', Gated(c)'
    PROVE  BInv'
<1>1. TypeOK /\ \A o \in Clients : Gated(o)
  BY DEF BInv
<1> DEFINE Stands(o) == /\ Progress(o)' <=> Progress(o)
                        /\ Gated(o)' <=> Gated(o)
                        /\ Prepared(o)' = Prepared(o)
                        /\ \A d : Sends(o, d)' <=> Sends(o, d)
<1>2. /\ pc'[c] = step /\ loc'[c] = l
      /\ pc' \in [Clients -> Steps] /\ loc' \in [Clients -> Locals]
  BY <1>1, OthersStand
<1>3. \A o \in Clients \ {c} :
        /\ Progress(o)' <=> Progress(o)
        /\ Gated(o)' <=> Gated(o)
        /\ Prepared(o)' = Prepared(o)
        /\ \A d : Sends(o, d)' <=> Sends(o, d)
  BY <1>1, OthersStand
<1>4. TypeOK'
  BY <1>1, <1>2, <1>3 DEF TypeOK
<1>5. \A o \in Clients : Gated(o)'
  BY <1>1, <1>3
<1>6. \A d : ~Sends(c, d) /\ ~Sends(c, d)'
  BY <1>2 DEF Sends
<1>7. ASSUME NEW d \in Docs \ crossed PROVE Bus(d)'
  <2>1. Bus(d) BY DEF BInv
  <2>2. (\A o \in Clients : ~Sends(o, d)') => told'[d] = store'[d]
    BY <2>1, <1>3, <1>6 DEF Bus
  <2>3. ASSUME NEW o \in Clients, Sends(o, d)'
        PROVE  (Told(told, Prepared(o))[d] = store[d])'
    <3>1. o # c /\ Sends(o, d) /\ Prepared(o)' = Prepared(o)
      BY <2>3, <1>3, <1>6
    <3>2. Told(told, Prepared(o))[d] = store[d]
      BY <3>1, <2>1 DEF Bus
    <3> QED BY <3>1, <3>2 DEF Told, Events, Content
  <2>4. \A o, p \in Clients : Sends(o, d)' /\ Sends(p, d)' => o = p
    BY <2>1, <1>3, <1>6 DEF Bus
  <2> QED BY <2>2, <2>3, <2>4 DEF Bus
<1> QED BY <1>4, <1>5, <1>7 DEF BInv

-----------------------------------------------------------------------------
(* The actions *)

LEMMA IdleType == Idle \in Locals /\ Len(Idle.copies) = 0
  BY DEF Idle, Locals

LEMMA InitKeeps == Init => BInv
<1> SUFFICES ASSUME Init PROVE BInv
  OBVIOUS
<1>1. /\ pc = [c \in Clients |-> "idle"] /\ loc = [c \in Clients |-> Idle]
      /\ told = store /\ requests = 0 /\ crossed = {}
  BY DEF Init
<1>2. store \in [Docs -> Value] /\ rules \in Rules
  <2>1. None \in Value /\ [p \in Fields |-> Old] \in Value
    BY DEF Value, Body
  <2>2. store \in [Docs -> {None, [p \in Fields |-> Old]}] /\ rules \in Rules
    BY DEF Init
  <2> QED BY <2>1, <2>2
<1>3. \A c \in Clients : pc[c] = "idle" /\ loc[c] = Idle
  BY <1>1
<1>4. TypeOK
  <2>1. \A c \in Clients : Progress(c)
    BY <1>3 DEF Progress
  <2> QED BY <1>1, <1>2, <2>1, IdleType DEF TypeOK, Steps
<1>5. \A c \in Clients : Gated(c)
  BY <1>3, IdleType DEF Gated
<1>6. \A d : Bus(d)
  BY <1>1, <1>3 DEF Bus, Sends
<1> QED BY <1>4, <1>5, <1>6 DEF BInv

LEMMA BeginKeeps ==
    ASSUME BInv, NEW c \in Clients, NEW n \in 1..Longest[c], 
           NEW ops \in [1..n -> [type : Words[c], doc : Docs]],
           NEW tx \in BOOLEAN, Begin(c, ops, tx)
    PROVE  BInv'
<1> DEFINE l == [ops |-> ops, tx |-> tx, copies |-> <<>>]
<1>1. n \in Nat \ {0}
  BY LongestAssumption
<1>2. ops \in Seq(Op) /\ Len(ops) = n
  <2>1. [type : Words[c], doc : Docs] \subseteq Op
    BY WordsAssumption DEF Op
  <2>2. ops \in [1..n -> Op]
    BY <2>1
  <2> QED BY <1>1, <2>2, ListType
<1>3. l \in Locals /\ Len(l.copies) = 0 /\ Len(l.ops) > 0
  BY <1>1, <1>2 DEF Locals
<1> HIDE DEF l
<1>4. /\ pc[c] # "emit" /\ Goto(c, "gate", l)
      /\ UNCHANGED <<store, rules, told, crossed>>
      /\ requests' = requests + 1
  BY DEF Begin, l
<1>5. requests' \in Nat
  BY <1>4 DEF BInv, TypeOK
<1>6. pc'[c] = "gate" /\ loc'[c] = l
  BY <1>4, OthersStand DEF BInv
<1>7. Progress(c)' /\ Gated(c)'
  BY <1>3, <1>6 DEF Progress, Gated
<1> QED BY <1>3, <1>4, <1>5, <1>7, QuietStep DEF Steps

LEMMA RefuseKeeps ==
    ASSUME BInv, NEW c \in Clients, Refuse(c), pc[c] # "emit"
    PROVE  BInv'
<1>1. /\ Goto(c, "idle", Idle)
      /\ UNCHANGED <<store, rules, told, requests, crossed>>
  BY DEF Refuse
<1>2. requests' \in Nat
  BY <1>1 DEF BInv, TypeOK
<1>3. pc'[c] = "idle" /\ loc'[c] = Idle
  BY <1>1, OthersStand DEF BInv
<1>4. Progress(c)' /\ Gated(c)'
  BY <1>3, IdleType DEF Progress, Gated
<1> QED BY <1>1, <1>2, <1>4, IdleType, QuietStep DEF Steps

LEMMA GateKeeps ==
    ASSUME BInv, NEW c \in Clients, NEW v, Gate(c, v)
    PROVE  BInv'
<1> DEFINE k == Len(loc[c].copies) + 1
           op == loc[c].ops[k]
           l == [loc[c] EXCEPT !.copies = Append(@, v)]
           step == IF Len(l.copies) = Len(loc[c].ops) THEN "apply" ELSE "gate"
<1>1. /\ TypeOK /\ Gated(c) /\ loc[c] \in Locals
      /\ Len(loc[c].copies) \in Nat /\ Len(loc[c].ops) \in Nat
      /\ Progress(c)
  BY DEF BInv, TypeOK, Locals
<1>2. /\ pc[c] = "gate" /\ Goto(c, step, l)
      /\ Known(op) \/ loc[c].tx
      /\ Allowed(c, Method(op, v # None, loc[c].tx), op.doc, v)
      /\ v \in {store[op.doc], None}
      /\ UNCHANGED <<store, rules, told, requests, crossed>>
  <2>1. pc[c] = "gate" /\ UNCHANGED <<store, rules, told, requests, crossed>>
    BY DEF Gate
  <2>2. (Known(op) \/ loc[c].tx) /\ Allowed(c, Method(op, v # None, loc[c].tx), op.doc, v)
    BY DEF Gate, Admits, NextOp
  <2>4. v \in {store[op.doc], None}
    BY DEF Gate, Found, NextOp
  <2>3. Goto(c, step, l)
    BY DEF Gate
  <2> QED BY <2>1, <2>2, <2>3, <2>4
<1>3. k \in 1..Len(loc[c].ops)
  BY <1>1, <1>2 DEF Progress
<1>4. v \in Value
  <2>1. op \in Op
    BY <1>1, <1>3 DEF Locals
  <2>2. store[op.doc] \in Value
    BY <2>1, <1>1 DEF TypeOK, Op
  <2> HIDE DEF op
  <2> QED BY <2>2, <1>2 DEF Value
<1>5. /\ l \in Locals /\ l.ops = loc[c].ops /\ l.tx = loc[c].tx
      /\ l.copies = Append(loc[c].copies, v)
  <2>1. loc[c].copies \in Seq(Value)
    BY <1>1 DEF Locals
  <2>2. Append(loc[c].copies, v) \in Seq(Value)
    BY <2>1, <1>4
  <2> QED BY <2>2, <1>1 DEF Locals
<1>6. /\ Len(l.copies) = k /\ l.copies[k] = v
      /\ \A p \in 1..k - 1 : l.copies[p] = loc[c].copies[p]
  <2>1. loc[c].copies \in Seq(Value)
    BY <1>1 DEF Locals
  <2> HIDE DEF l
  <2> QED BY <2>1, <1>4, <1>5
<1>7. step \in {"apply", "gate"} /\ pc'[c] = step /\ loc'[c] = l
  <2>1. step \in {"apply", "gate"}
    OBVIOUS
  <2>2. TypeOK /\ Goto(c, step, l) /\ rules' = rules
    BY <1>1, <1>2
  <2> HIDE DEF step, l
  <2> QED BY <2>1, <2>2, OthersStand
<1> HIDE DEF op, l
<1>8. Progress(c)'
  <2>1. /\ pc'[c] = "apply" => Len(l.copies) = Len(l.ops)
        /\ pc'[c] = "gate" => Len(l.copies) # Len(l.ops)
    <3>1. pc'[c] = IF Len(l.copies) = Len(loc[c].ops) THEN "apply" ELSE "gate"
      BY <1>7
    <3> HIDE DEF step
    <3> QED BY <3>1, <1>5
  <2>2. Len(l.copies) <= Len(l.ops) /\ Len(l.copies) \in Nat
    BY <1>1, <1>3, <1>5, <1>6
  <2> QED BY <2>1, <2>2, <1>1, <1>5, <1>7 DEF Progress
<1> HIDE DEF step
<1>9. ASSUME NEW p \in 1..k
      PROVE  LET o == loc[c].ops[p] IN
             /\ Known(o) \/ loc[c].tx
             /\ Allowed(c, Method(o, l.copies[p] # None, loc[c].tx), o.doc, l.copies[p])
  <2>1. CASE p = k
    BY <2>1, <1>2, <1>6 DEF op
  <2>2. CASE p # k
    <3>1. p \in 1..Len(loc[c].copies) /\ p \in 1..k - 1
      BY <2>2, <1>1
    <3> QED BY <3>1, <1>1, <1>6 DEF Gated
  <2> QED BY <2>1, <2>2
<1>10. Gated(c)'
  BY <1>2, <1>5, <1>6, <1>7, <1>9 DEF Gated, Allowed
<1>11. requests' \in Nat
  BY <1>1, <1>2 DEF TypeOK
<1> QED BY <1>2, <1>5, <1>7, <1>8, <1>10, <1>11, QuietStep DEF Steps

LEMMA ApplyKeeps ==
    ASSUME BInv, NEW c \in Clients, Apply(c)
    PROVE  BInv'
<1> DEFINE ts == Prepared(c)
           W == Written(loc[c].ops)
           end == RunTransaction(store, ts)
<1>1. /\ TypeOK /\ Gated(c) /\ Progress(c) /\ loc[c] \in Locals
      /\ store \in [Docs -> Value]
  BY DEF BInv, TypeOK
<1>2. /\ pc[c] = "apply" /\ end.ok /\ store' = end.store
      /\ crossed' = (crossed \ W) \cup
                      {d \in W : \E o \in Clients \ {c} : Sends(o, d)}
      /\ Goto(c, "emit", loc[c])
      /\ UNCHANGED <<rules, told, requests>>
  BY DEF Apply, Sends
<1>3. Len(loc[c].copies) = Len(loc[c].ops)
  BY <1>1, <1>2 DEF Progress
<1>4. /\ ts \in Seq(Item) /\ \A d \in Docs : Events(ts, d) # {} <=> d \in W
  BY <1>1, <1>3, PreparedFacts
<1>5. W \subseteq Docs
  <2>1. loc[c].ops \in Seq(Op)
    BY <1>1 DEF Locals
  <2>2. \A q \in DOMAIN loc[c].ops : loc[c].ops[q].doc \in Docs
    BY <2>1, OpFacts
  <2> QED BY <2>2 DEF Written
<1> HIDE DEF ts, W, end
<1>6. ASSUME NEW d \in Docs
      PROVE  /\ end \in Outcome
             /\ d \notin W => end.store[d] = store[d]
             /\ d \in W => \A b : Told(b, ts)[d] = end.store[d]
  BY <1>1, <1>2, <1>4, StoreAndBusAgree DEF end
<1>7. /\ pc'[c] = "emit" /\ loc'[c] = loc[c]
      /\ pc' \in [Clients -> Steps] /\ loc' \in [Clients -> Locals]
      /\ \A o \in Clients \ {c} :
           /\ Progress(o)' <=> Progress(o)
           /\ Gated(o)' <=> Gated(o)
           /\ Prepared(o)' = Prepared(o)
           /\ \A d : Sends(o, d)' <=> Sends(o, d)
  BY <1>1, <1>2, OthersStand DEF Steps
<1>8. Progress(c)' /\ Gated(c)'
  <2>1. Progress(c)'
    BY <1>3, <1>7 DEF Progress
  <2>2. Gated(c)'
    BY <1>1, <1>2, <1>7 DEF Gated, Allowed
  <2> QED BY <2>1, <2>2
<1>9. store' \in [Docs -> Value]
  <2>1. CASE Docs = {}
    <3>1. ts \in Seq(Item) /\ Effect(store, ts, Len(ts))
      BY <1>1, <1>4, Effects
    <3> QED BY <3>1, <1>2 DEF Effect, end, RunTransaction, Outcome
  <2>2. CASE Docs # {}
    <3>1. end \in Outcome
      BY <2>2, <1>6
    <3> QED BY <3>1, <1>2 DEF Outcome
  <2> QED BY <2>1, <2>2
<1>10. TypeOK'
  BY <1>1, <1>2, <1>5, <1>7, <1>8, <1>9 DEF TypeOK
<1>11. \A o \in Clients : Gated(o)'
  BY <1>7, <1>8 DEF BInv
<1>12. Prepared(c)' = ts
  BY <1>7 DEF Prepared, ts
<1>13. \A d : Sends(c, d)' <=> d \in W
  BY <1>7 DEF Sends, Written, W
<1>14. \A d : ~Sends(c, d)
  BY <1>2 DEF Sends
<1>15. ASSUME NEW d \in Docs \ crossed' PROVE Bus(d)'
  <2>1. CASE d \in W
    <3>1. \A o \in Clients : Sends(o, d)' => o = c
      BY <2>1, <1>2, <1>7, <1>15
    <3>2. (Told(told, Prepared(c))[d] = store[d])'
      <4>1. Told(told', ts)[d] = store'[d]
        BY <2>1, <1>2, <1>6
      <4> QED BY <4>1, <1>12 DEF Told, Events, Content
    <3>3. Sends(c, d)'
      BY <2>1, <1>13
    <3> QED BY <3>1, <3>2, <3>3 DEF Bus
  <2>2. CASE d \notin W
    <3>1. d \in Docs \ crossed /\ Bus(d)
      BY <2>2, <1>2, <1>15 DEF BInv
    <3>2. store'[d] = store[d] /\ told' = told /\ ~Sends(c, d)'
      BY <2>2, <1>2, <1>6, <1>13
    <3>3. (\A o \in Clients : ~Sends(o, d)') => told'[d] = store'[d]
      BY <3>1, <3>2, <1>7, <1>14 DEF Bus
    <3>4. ASSUME NEW o \in Clients, Sends(o, d)'
          PROVE  (Told(told, Prepared(o))[d] = store[d])'
      <4>1. o # c /\ Sends(o, d) /\ Prepared(o)' = Prepared(o)
        BY <3>2, <3>4, <1>7
      <4>2. Told(told, Prepared(o))[d] = store[d]
        BY <4>1, <3>1 DEF Bus
      <4> QED BY <4>1, <4>2, <3>2 DEF Told, Events, Content
    <3>5. \A o, p \in Clients : Sends(o, d)' /\ Sends(p, d)' => o = p
      BY <3>1, <3>2, <1>7 DEF Bus
    <3> QED BY <3>3, <3>4, <3>5 DEF Bus
  <2> QED BY <2>1, <2>2
<1> QED BY <1>10, <1>11, <1>15 DEF BInv

LEMMA EmitKeeps ==
    ASSUME BInv, NEW c \in Clients, Emit(c)
    PROVE  BInv'
<1> DEFINE ts == Prepared(c)
           W == Written(loc[c].ops)
<1>1. /\ TypeOK /\ Progress(c) /\ loc[c] \in Locals
      /\ told \in [Docs -> Value]
  BY DEF BInv, TypeOK
<1>2. /\ pc[c] = "emit" /\ told' = Told(told, ts)
      /\ Goto(c, "idle", Idle)
      /\ UNCHANGED <<store, rules, requests, crossed>>
  BY DEF Emit
<1>3. Len(loc[c].copies) = Len(loc[c].ops)
  BY <1>1, <1>2 DEF Progress
<1>4. /\ ts \in Seq(Item) /\ \A d \in Docs : Events(ts, d) # {} <=> d \in W
  BY <1>1, <1>3, PreparedFacts
<1> HIDE DEF ts, W
<1>5. told' \in [Docs -> Value]
  <2>1. ASSUME NEW d \in Docs PROVE Told(told, ts)[d] \in Value
    <3>1. CASE Events(ts, d) = {}
      BY <3>1, <1>1, ToldFacts
    <3>2. CASE Events(ts, d) # {}
      <4>1. Max(Events(ts, d)) \in 1..Len(ts)
        <5>1. Events(ts, d) \subseteq 1..Len(ts) /\ Len(ts) \in Nat
          BY <1>4 DEF Events
        <5> QED BY <3>2, <5>1, Greatest
      <4>2. ts[Max(Events(ts, d))] \in Item
        BY <4>1, <1>4
      <4>3. Content(ts[Max(Events(ts, d))]) \in Value
        BY <4>2 DEF Content, Item, Value
      <4> QED BY <3>2, <4>3 DEF Told
    <3> QED BY <3>1, <3>2
  <2>2. Told(told, ts) = [d \in Docs |-> Told(told, ts)[d]]
    BY DEF Told
  <2> QED BY <2>1, <2>2, <1>2
<1>6. /\ pc'[c] = "idle" /\ loc'[c] = Idle
      /\ pc' \in [Clients -> Steps] /\ loc' \in [Clients -> Locals]
      /\ \A o \in Clients \ {c} :
           /\ Progress(o)' <=> Progress(o)
           /\ Gated(o)' <=> Gated(o)
           /\ Prepared(o)' = Prepared(o)
           /\ \A d : Sends(o, d)' <=> Sends(o, d)
  BY <1>1, <1>2, IdleType, OthersStand DEF Steps
<1>7. Progress(c)' /\ Gated(c)'
  BY <1>6, IdleType DEF Progress, Gated
<1>8. TypeOK'
  BY <1>1, <1>2, <1>5, <1>6, <1>7 DEF TypeOK
<1>9. \A o \in Clients : Gated(o)'
  BY <1>6, <1>7 DEF BInv
<1>10. \A d : (Sends(c, d) <=> d \in W) /\ ~Sends(c, d)'
  BY <1>2, <1>6 DEF Sends, W
<1>11. ASSUME NEW d \in Docs \ crossed PROVE Bus(d)'
  <2>1. Bus(d) /\ d \in Docs
    BY DEF BInv
  <2>2. CASE d \in W
    <3>1. \A o \in Clients : ~Sends(o, d)'
      BY <2>1, <2>2, <1>6, <1>10 DEF Bus
    <3>2. told'[d] = store'[d]
      BY <2>1, <2>2, <1>2, <1>10 DEF Bus, ts
    <3> QED BY <3>1, <3>2 DEF Bus
  <2>3. CASE d \notin W
    <3>1. told'[d] = told[d] /\ store' = store
      BY <2>1, <2>3, <1>2, <1>4, ToldFacts
    <3>2. (\A o \in Clients : ~Sends(o, d)') => told'[d] = store'[d]
      BY <2>1, <2>3, <3>1, <1>6, <1>10 DEF Bus
    <3>3. ASSUME NEW o \in Clients, Sends(o, d)'
          PROVE  (Told(told, Prepared(o))[d] = store[d])'
      <4>1. o # c /\ Sends(o, d) /\ Prepared(o)' = Prepared(o)
        BY <3>3, <1>6, <1>10
      <4>2. /\ Told(told, Prepared(o))[d] = store[d]
            /\ Events(Prepared(o), d) # {}
        <5>1. Len(loc[o].copies) = Len(loc[o].ops) /\ d \in Written(loc[o].ops)
          BY <4>1, <1>1 DEF Sends, TypeOK, Progress
        <5> QED BY <4>1, <5>1, <1>1, <2>1, PreparedFacts DEF Bus
      <4>3. Told(told', Prepared(o))[d] = store[d]
        BY <4>2, <2>1, ToldFacts
      <4> QED BY <4>1, <4>3, <3>1 DEF Told, Events, Content
    <3>4. \A o, p \in Clients : Sends(o, d)' /\ Sends(p, d)' => o = p
      BY <2>1, <1>6, <1>10 DEF Bus
    <3> QED BY <3>2, <3>3, <3>4 DEF Bus
  <2> QED BY <2>2, <2>3
<1> QED BY <1>2, <1>8, <1>9, <1>11 DEF BInv

-----------------------------------------------------------------------------
(* A request is the sequence of its operations *)

\* The recursion of InTurn is well defined.
LEMMA InTurnDef ==
    ASSUME NEW c, Len(loc[c].ops) \in Nat
    PROVE  /\ InTurn(c)[0] = Start(store)
           /\ \A n \in 1..Len(loc[c].ops) : InTurn(c)[n] = Alone(InTurn(c)[n - 1], c, n)
<1> DEFINE Eq(g, n) == IF n = 0 THEN Start(store) ELSE Alone(g[n - 1], c, n)
           S == {m \in Nat : \E g : g = [n \in 0..m |-> Eq(g, n)]}
<1>1. 0 \in S
  <2> DEFINE z == [n \in 0..0 |-> Start(store)]
  <2>1. z = [n \in 0..0 |-> Eq(z, n)]
    OBVIOUS
  <2> QED BY <2>1
<1>2. ASSUME NEW m \in 1..Len(loc[c].ops), m - 1 \in S PROVE m \in S
  <2>1. PICK g : g = [n \in 0..m - 1 |-> Eq(g, n)]
    BY <1>2
  <2> DEFINE last == Alone(g[m - 1], c, m)
             h == [n \in 0..m |-> IF n = m THEN last ELSE g[n]]
  <2>2. ASSUME NEW n \in 0..m PROVE h[n] = Eq(h, n)
    <3> HIDE DEF last
    <3>1. CASE n = m
      <4>1. h[n] = last /\ h[n - 1] = g[m - 1] /\ n # 0
        BY <3>1
      <4> QED BY <4>1, <3>1 DEF last
    <3>2. CASE n # m
      <4>1. n \in 0..m - 1 /\ h[n] = g[n]
        BY <3>2
      <4>2. g[n] = Eq(g, n)
        BY <4>1, <2>1
      <4>3. CASE n = 0
        BY <4>1, <4>2, <4>3
      <4>4. CASE n # 0
        <5>1. h[n - 1] = g[n - 1]
          BY <4>1, <4>4
        <5> QED BY <4>1, <4>2, <4>4, <5>1
      <4> QED BY <4>3, <4>4
    <3> QED BY <3>1, <3>2
  <2>3. h = [n \in 0..m |-> h[n]]
    OBVIOUS
  <2> HIDE DEF h, Eq
  <2>4. h = [n \in 0..m |-> Eq(h, n)]
    BY <2>2, <2>3
  <2> QED BY <2>4
<1>3. \E g : g = [n \in 0..Len(loc[c].ops) |-> Eq(g, n)]
  <2> HIDE DEF S
  <2>1. \A n \in 0..Len(loc[c].ops) : n \in S
    BY <1>1, <1>2, Counting
  <2>2. Len(loc[c].ops) \in S
    BY <2>1
  <2> QED BY <2>2 DEF S
<1> DEFINE A == InTurn(c)
<1>4. A = [n \in 0..Len(loc[c].ops) |-> Eq(A, n)]
  BY <1>3 DEF InTurn, Start
<1> HIDE DEF A
<1>5. A[0] = Start(store)
  BY <1>4
<1>6. ASSUME NEW n \in 1..Len(loc[c].ops) PROVE A[n] = Alone(A[n - 1], c, n)
  BY <1>4
<1> QED BY <1>5, <1>6 DEF A

\* One operation from where the ones before have led: prepared from the copy that
\* was read at the gate, or sent alone with all its gates now.
LEMMA SameStep ==
    ASSUME TypeOK, NEW c \in Clients, Gated(c), Passes(c),
           Len(loc[c].copies) = Len(loc[c].ops),
           NEW n \in 1..Len(loc[c].ops), NEW x \in Outcome,
           GoesByCopy(loc[c].ops[n]) => x.store[loc[c].ops[n].doc] = loc[c].copies[n],
           Step(x, Prepared(c)[n]).ok
    PROVE  Alone(x, c, n) = Step(x, Prepared(c)[n])
<1> DEFINE op == loc[c].ops[n]
           v == loc[c].copies[n]
           t == Prepared(c)[n]
           now == x.store[op.doc]
           tx == loc[c].tx
<1>1. /\ loc[c].ops \in Seq(Op) /\ loc[c].copies \in Seq(Value)
      /\ Len(loc[c].ops) \in Nat /\ DOMAIN loc[c].ops = 1..Len(loc[c].ops)
  BY DEF TypeOK, Locals
<1>2. op \in Op /\ v \in Value /\ op.type \in Types
  BY <1>1, OpFacts
<1>3. t = [type |-> IF IsPut(op) THEN "put" ELSE op.type, doc |-> op.doc,
           data |-> IF IsPut(op) THEN Data(op, Raw(c, n), v) ELSE Empty,
           must |-> MustExist(op, v # None, tx)]
  BY <1>1 DEF Prepared
<1>4. Allowed(c, Method(op, v # None, tx), op.doc, v)
  BY DEF Gated
<1>5. IsPut(op) => AllowFields(Method(op, v # None, tx), t.data)
  BY <1>1 DEF Passes
<1>6. /\ GoesByCopy(op) => now = v
      /\ Step(x, t).ok
  OBVIOUS
<1> HIDE DEF t
<1>7. t.doc = op.doc /\ t.must = MustExist(op, v # None, tx)
  BY <1>3
<1>8. ~(t.must /\ now = None)
  BY <1>6, <1>7 DEF Step, Outcome
<1>9. CASE op.type \in {"get", "delete"}
  <2>1. ~IsPut(op) /\ op.type # "update" /\ t.type = op.type
    BY <1>3, <1>9 DEF IsPut
  <2>2. Method(op, now # None, tx) = Method(op, v # None, tx)
    BY <1>9 DEF Method
  <2>3. Alone(x, c, n) = IF op.type = "get" THEN [x EXCEPT !.reads = Append(@, now)]
                         ELSE [x EXCEPT !.store[op.doc] = None]
    <3>1. Allowed(c, Method(op, now # None, tx), op.doc, now)
      <4>1. Method(op, v # None, tx) = op.type
        BY <1>9 DEF Method
      <4>2. CASE rules[op.type] = "uid-self"
        BY <4>2, <2>2, <1>4, <1>6 DEF GoesByCopy
      <4>3. CASE rules[op.type] # "uid-self"
        BY <4>1, <4>3, <2>2, <1>4 DEF Allowed
      <4> QED BY <4>2, <4>3
    <3> QED BY <3>1, <2>1, <1>9 DEF Alone
  <2>4. Step(x, t) = IF op.type = "get" THEN [x EXCEPT !.reads = Append(@, now)]
                     ELSE [x EXCEPT !.store[op.doc] = None]
    BY <2>1, <1>7, <1>8, <1>9 DEF Step
  <2> QED BY <2>3, <2>4 DEF t
<1>10. CASE op.type \notin {"get", "delete"}
  <2>1. /\ IsPut(op) /\ now = v /\ t.type = "put"
        /\ t.data = Data(op, Raw(c, n), now)
    BY <1>3, <1>6, <1>10 DEF IsPut, GoesByCopy
  <2>2. ~(op.type = "update" /\ now = None)
    BY <1>7, <1>8 DEF MustExist
  <2>3. /\ Allowed(c, Method(op, now # None, tx), op.doc, now)
        /\ AllowFields(Method(op, now # None, tx), Data(op, Raw(c, n), now))
    BY <2>1, <1>4, <1>5
  <2>4. Alone(x, c, n) = [x EXCEPT !.store[op.doc] = Data(op, Raw(c, n), now)]
    BY <2>2, <2>3, <1>10 DEF Alone
  <2>5. Step(x, t) = [x EXCEPT !.store[op.doc] = t.data]
    BY <2>1, <1>7, <1>8 DEF Step
  <2> QED BY <2>1, <2>4, <2>5 DEF t
<1> QED BY <1>9, <1>10

LEMMA SequentialIsTransaction ==
    ASSUME TypeOK, NEW c \in Clients, Gated(c), Passes(c),
           Len(loc[c].copies) = Len(loc[c].ops),
           ~Overtaken(c), ~Repeats(c),
           RunTransaction(store, Prepared(c)).ok
    PROVE  Sequential(c) = RunTransaction(store, Prepared(c))
<1> DEFINE ops == loc[c].ops
           ts == Prepared(c)
           A == After(store, ts)
           I == InTurn(c)
           S == {n \in Nat : I[n] = A[n]}
<1>1. /\ ops \in Seq(Op) /\ Len(ops) \in Nat /\ DOMAIN ops = 1..Len(ops)
      /\ DOMAIN loc[c].copies = 1..Len(ops)
      /\ store \in [Docs -> Value]
  BY DEF TypeOK, Locals
<1>2. ts \in Seq(Item) /\ Len(ts) = Len(ops)
  BY PreparedFacts
<1>3. 0 \in S
  BY <1>1, <1>2, AfterDef, InTurnDef
<1>4. ASSUME NEW n \in 1..Len(ops), n - 1 \in S PROVE n \in S
  <2>1. /\ n - 1 \in 0..Len(ts) /\ n \in 0..Len(ts) /\ n \in 1..Len(ts)
        /\ n \in Nat /\ I[n - 1] = A[n - 1]
    BY <1>1, <1>2, <1>4
  <2>2. A[n - 1] \in Outcome /\ A[n] = Step(A[n - 1], ts[n]) /\ A[n].ok
    <3>1. A[n - 1] \in Outcome
      BY <2>1, <1>1, <1>2, Effects DEF Effect
    <3>2. Len(ts) \in Nat
      BY <1>1, <1>2
    <3>3. A[n] = Step(A[n - 1], ts[n])
      BY <2>1, <3>2, AfterDef
    <3>4. A[n].ok
      BY <2>1, <1>1, <1>2, WellSoFar
    <3> QED BY <3>1, <3>3, <3>4
  <2>3. I[n] = Alone(I[n - 1], c, n)
    BY <1>1, InTurnDef
  <2>4. ASSUME GoesByCopy(ops[n]) PROVE A[n - 1].store[ops[n].doc] = loc[c].copies[n]
    <3>1. ops[n].doc \in Docs
      BY <1>1, OpFacts
    <3>2. \A q \in 1..n - 1 : ~Writes(ts[q], ops[n].doc)
      <4> SUFFICES ASSUME NEW q \in 1..n - 1, Writes(ts[q], ops[n].doc) PROVE FALSE
        OBVIOUS
      <4>1. q \in 1..Len(ops) /\ q < n
        BY <1>1
      <4>2. ts[q].doc = ops[q].doc /\ (ts[q].type = "get" <=> ops[q].type = "get")
        BY <4>1, <1>1 DEF Prepared, IsPut
      <4> QED BY <4>1, <4>2, <2>4, <1>1 DEF Writes, Repeats
    <3>3. A[n - 1].store[ops[n].doc] = store[ops[n].doc]
      <4>1. Effect(store, ts, n - 1)
        BY <2>1, <1>1, <1>2, Effects
      <4> QED BY <4>1, <3>1, <3>2 DEF Effect
    <3>4. loc[c].copies[n] = store[ops[n].doc]
      BY <1>1 DEF Overtaken
    <3> QED BY <3>3, <3>4
  <2>5. Alone(A[n - 1], c, n) = Step(A[n - 1], ts[n])
    <3>1. Step(A[n - 1], ts[n]).ok
      BY <2>2
    <3> HIDE DEF A, I, S
    <3> QED BY <2>2, <2>4, <3>1, SameStep
  <2> QED BY <2>1, <2>2, <2>3, <2>5
<1> HIDE DEF S
<1>5. \A n \in 0..Len(ops) : n \in S
  BY <1>1, <1>3, <1>4, Counting
<1>6. Len(ops) \in S
  BY <1>1, <1>5
<1> QED BY <1>2, <1>6 DEF S, Sequential, RunTransaction

-----------------------------------------------------------------------------
LEMMA NextKeeps == BInv /\ [Next]_vars => BInv'
<1> SUFFICES ASSUME BInv, [Next]_vars PROVE BInv'
  OBVIOUS
<1>1. ASSUME NEW c \in Clients, NEW n \in 1..Longest[c],
             NEW ops \in [1..n -> [type : Words[c], doc : Docs]],
             NEW tx \in BOOLEAN, Begin(c, ops, tx)
      PROVE  BInv'
  BY <1>1, BeginKeeps
<1>2. ASSUME NEW c \in Clients, NEW v, Gate(c, v) PROVE BInv'
  BY <1>2, GateKeeps
<1>3. ASSUME NEW c \in Clients, NEW v, GateRefuses(c, v) PROVE BInv'
  <2>1. Refuse(c) /\ pc[c] # "emit"
    BY <1>3 DEF GateRefuses
  <2> QED BY <2>1, RefuseKeeps
<1>4. ASSUME NEW c \in Clients, Apply(c) PROVE BInv'
  BY <1>4, ApplyKeeps
<1>5. ASSUME NEW c \in Clients, ApplyFails(c) PROVE BInv'
  <2>1. Refuse(c) /\ pc[c] # "emit"
    BY <1>5 DEF ApplyFails
  <2> QED BY <2>1, RefuseKeeps
<1>6. ASSUME NEW c \in Clients, Emit(c) PROVE BInv'
  BY <1>6, EmitKeeps
<1>7. ASSUME UNCHANGED vars PROVE BInv'
  <2>1. /\ store' = store /\ rules' = rules /\ pc' = pc /\ loc' = loc /\ told' = told
        /\ requests' = requests /\ crossed' = crossed
    BY <1>7 DEF vars
  <2>2. TypeOK'
    BY <2>1 DEF BInv, TypeOK, Progress
  <2>3. \A c \in Clients : Gated(c)'
    BY <2>1 DEF BInv, Gated, Allowed
  <2>4. ASSUME NEW d \in Docs \ crossed PROVE Bus(d)'
    <3>1. Bus(d)
      BY DEF BInv
    <3>2. \A o : Sends(o, d)' <=> Sends(o, d)
      BY <2>1 DEF Sends
    <3>3. ASSUME NEW o PROVE Prepared(o)' = Prepared(o)
      BY <2>1 DEF Prepared
    <3>4. ASSUME NEW o \in Clients, Sends(o, d)'
          PROVE  (Told(told, Prepared(o))[d] = store[d])'
      <4>1. Told(told, Prepared(o))[d] = store[d] /\ Prepared(o)' = Prepared(o)
        BY <3>1, <3>2, <3>3, <3>4 DEF Bus
      <4> QED BY <4>1, <2>1 DEF Told, Events, Content
    <3>5. (\A o \in Clients : ~Sends(o, d)') => told'[d] = store'[d]
      BY <2>1, <3>1, <3>2 DEF Bus
    <3>6. \A o, p \in Clients : Sends(o, d)' /\ Sends(p, d)' => o = p
      BY <3>1, <3>2 DEF Bus
    <3> QED BY <3>4, <3>5, <3>6 DEF Bus
  <2> QED BY <2>1, <2>2, <2>3, <2>4 DEF BInv
<1> QED BY <1>1, <1>2, <1>3, <1>4, <1>5, <1>6, <1>7 DEF Next

\* run_ops: the types, the gates every operation has passed, and the senders on
\* their way to the bus.
THEOREM TypeCorrect == Spec => []BInv
  BY InitKeeps, NextKeeps, PTL DEF Spec

\* run_ops, the emits at its end: the last event about a document says what the
\* store holds, unless its sender is on the way or was overtaken there.
THEOREM BusAlwaysFollows == Spec => []BusFollowsStore
<1>1. BInv => BusFollowsStore
  BY DEF BInv, Bus, BusFollowsStore, Sends
<1> QED BY <1>1, InitKeeps, NextKeeps, PTL DEF Spec

LEMMA StepIsSequential ==
    ASSUME BInv, [Next]_vars, NEW c \in Clients,
           pc[c] = "apply", pc'[c] = "emit", ~Overtaken(c), ~Repeats(c)
    PROVE  /\ RunTransaction(store, Prepared(c)) = Sequential(c)
           /\ store' = Sequential(c).store
<1>1. TypeOK /\ Gated(c) /\ Len(loc[c].copies) = Len(loc[c].ops)
  BY DEF BInv, TypeOK, Progress
<1>2. Apply(c)
  <2>1. pc \in [Clients -> Steps] /\ pc' # pc
    BY <1>1 DEF TypeOK
  <2>2. Next
    BY <2>1 DEF vars
  <2>3. ASSUME NEW o \in Clients, NEW step, NEW l, Goto(o, step, l)
        PROVE  o = c /\ step = "emit"
    BY <2>1, <2>3 DEF Goto
  <2>4. ASSUME NEW o \in Clients, NEW n, NEW ops, NEW tx
        PROVE  ~Begin(o, ops, tx)
    BY <2>3 DEF Begin
  <2>5. ASSUME NEW o \in Clients
        PROVE  (\A v : ~GateRefuses(o, v)) /\ ~ApplyFails(o) /\ ~Emit(o)
    BY <2>3 DEF GateRefuses, ApplyFails, Emit, Refuse
  <2>6. ASSUME NEW o \in Clients, NEW v PROVE ~Gate(o, v)
    BY <2>3 DEF Gate
  <2>7. PICK o \in Clients : Apply(o)
    BY <2>2, <2>4, <2>5, <2>6 DEF Next
  <2> QED BY <2>3, <2>7 DEF Apply
<1>3. /\ Passes(c) /\ RunTransaction(store, Prepared(c)).ok
      /\ store' = RunTransaction(store, Prepared(c)).store
  BY <1>2 DEF Apply
<1> QED BY <1>1, <1>3, SequentialIsTransaction

\* run_ops: a request that nobody overtakes and that puts no document twice does
\* what its operations would do one after the other, each with its gates.
THEOREM BatchesAreSequential == Spec => BatchIsSequential
<1> DEFINE A == \A c \in Clients :
         pc[c] = "apply" /\ pc'[c] = "emit" /\ ~Overtaken(c) /\ ~Repeats(c) =>
            RunTransaction(store, Prepared(c)) = Sequential(c) /\ store' = Sequential(c).store
<1>1. BInv /\ [Next]_vars => [A]_vars
  BY StepIsSequential
<1> QED BY <1>1, TypeCorrect, PTL DEF Spec, BatchIsSequential
=============================================================================
