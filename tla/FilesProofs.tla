----------------------------- MODULE FilesProofs -----------------------------
(***************************************************************************)
(* A document that calls a file ready has its bytes, for any number of        *)
(* documents, fields, contents, clients, page sizes, faults and crashes.      *)
(*                                                                         *)
(* The sweeper decides from a list it read page by page what nobody refers    *)
(* to.  What makes the property inductive is a claim about that list: at any   *)
(* moment of a pass, whatever a document names, or a copy of it in flight      *)
(* will name again, has been listed, is on a page not yet listed, is too young *)
(* to be reaped, or is among what the property excuses (Met).                  *)
(*                                                                         *)
(* Then downloads: ranges of every size and text, and signed links.           *)
(***************************************************************************)
EXTENDS Files, DownloadInputs, FiniteSetTheorems, SequenceTheorems, TLAPS

Steps == {"idle", "read", "pending", "promote", "rename", "reread", "save", "get",
          "put"}
Held == Document \cup {None}
Locals == [id : 0..Docs, field : Fields \cup {None}, sha : Shas \cup {None},
           doc : Held]

\* The sweeper's step and locals; a document is in its hand at "put" only.
Swept == [at : {"idle", "scan", "stale", "put", "orphans"}, offset : Nat,
          refs : SUBSET Shas, stale : SUBSET (Ids \X Fields),
          doc : [id : Ids, new : Held] \cup {None}, todo : SUBSET Shas,
          cut : BOOLEAN]

Typed ==
    /\ docs \in [Ids -> Held]
    /\ bytes \in [Shas -> {"none", "fresh", "old"}]
    /\ pc \in [Clients -> Steps]
    /\ loc \in [Clients -> Locals]
    /\ sw \in Swept
    /\ sw.at = "put" => sw.doc \in [id : Ids, new : Held]
    /\ missed \subseteq Shas /\ tainted \subseteq Shas

\* What a client at a step has in hand.
Armed(step, l) ==
    /\ step # "idle" => l.id \in Ids /\ l.field \in Fields
    /\ step \in {"read", "pending", "promote", "rename", "reread", "save"} => l.sha \in Shas
    /\ step = "put" => l.doc \in Document

\* A hash has its bytes, or lost them in a way that is excused.
Backed(x) == bytes[x] # "none" \/ x \in tainted

\* This pass does not reap the hash without an excuse.
Known(x) == x \in sw.refs \/ x \in missed \/ bytes[x] # "old" \/ sw.cut

\* The page of document i is still to come.
Ahead(i) == sw.at = "scan" /\ Rank(i) >= sw.offset
Met(i, x) == sw.at = "idle" \/ Known(x) \/ Ahead(i)

\* Where document i names x as ready, or will again: in the store, in the copy of
\* a client or in that of the sweeper.
Names(i, x) ==
    \/ x \in ReadyIn(docs[i])
    \/ \E c \in Clients : loc[c].id = i /\ x \in Carried(c)
    \/ sw.at = "put" /\ sw.doc.id = i /\ x \in ReadyIn(sw.doc.new)

\* An upload that is about to call its file ready.
Sure(x) == Backed(x) /\ (bytes[x] = "fresh" \/ x \in missed)

Covered == \A i \in Ids, x \in Shas : Names(i, x) => Backed(x) /\ Met(i, x)

FInv ==
    /\ Typed
    /\ Covered
    /\ \A c \in Clients : /\ Armed(pc[c], loc[c])
                          /\ pc[c] \in {"reread", "save"} => Sure(loc[c].sha)

------------------------------------------------------------------------------
(* Documents *)

LEMMA MetaType ==
    ASSUME NEW x \in Shas, NEW s \in {"pending", "stale", "ready"}
    PROVE  /\ Meta(x, s) \in Metas /\ Meta(x, s) # None
           /\ Meta(x, s).sha = x /\ Meta(x, s).state = s
  BY NoneAssumption DEF Meta, Metas

\* What a stored document names.
LEMMA ReadyMeaning ==
    ASSUME NEW d \in Document
    PROVE  /\ d # None
           /\ \A x \in Shas : x \in ReadyIn(d) <=>
                                \E f \in Fields : d.files[f] = Meta(x, "ready")
           /\ \A x \in Shas, f \in Fields : x \in Keeps(d, f) <=>
                \E g \in Fields \ {f} : d.files[g] = Meta(x, "ready")
  <1>1. d # None
    BY NoneAssumption
  <1>2. QED BY <1>1 DEF ReadyIn, Keeps, FileIn

LEMMA NothingReady ==
    /\ ReadyIn(None) = {}
    /\ \A f : Keeps(None, f) = {}
  BY MetaType DEF ReadyIn, Keeps, FileIn

LEMMA KeepsAreReady ==
    ASSUME NEW d \in Held, NEW f
    PROVE  Keeps(d, f) \subseteq ReadyIn(d) /\ ReadyIn(d) \subseteq Shas
  BY DEF Keeps, ReadyIn

\* A field is stored with the rest of the document that was read.
LEMMA WithMeaning ==
    ASSUME NEW d \in Held, NEW f \in Fields, NEW x \in Shas,
           NEW s \in {"pending", "ready"}
    PROVE  /\ With(d, f, Meta(x, s)) \in Document
           /\ \A y \in ReadyIn(With(d, f, Meta(x, s))) :
                y \in Keeps(d, f) \/ (s = "ready" /\ y = x)
  <1> DEFINE b == IF d = None THEN Blank ELSE d
             w == [b EXCEPT !.files[f] = Meta(x, s)]
             m == Meta(x, s)
  <1>1. b \in Document
    BY DEF Held, Blank, Document
  <1>2. m \in Metas /\ m.sha = x /\ m.state = s
    BY MetaType
  <1> HIDE DEF m
  <1>3. /\ w \in Document
        /\ \A g \in Fields : w.files[g] = IF g = f THEN m ELSE b.files[g]
    BY <1>1, <1>2 DEF Document, m
  <1>4. w = With(d, f, m)
    BY DEF With, m
  <1> HIDE DEF w
  <1>5. ASSUME NEW y \in ReadyIn(w) PROVE y \in Keeps(d, f) \/ (s = "ready" /\ y = x)
    <2>1. y \in Shas
      BY DEF ReadyIn
    <2>2. PICK g \in Fields : w.files[g] = Meta(y, "ready")
      BY <1>3, <2>1, ReadyMeaning
    <2>3. CASE g = f
      <3>1. m = Meta(y, "ready")
        BY <1>3, <2>2, <2>3
      <3>2. m.sha = y /\ m.state = "ready"
        BY <2>1, <3>1, MetaType
      <3>3. QED BY <1>2, <3>2
    <2>4. CASE g # f
      <3>1. b.files[g] = Meta(y, "ready")
        BY <1>3, <2>2, <2>4
      <3>2. d # None
        BY <2>1, <3>1, MetaType DEF Blank
      <3>3. d \in Document /\ d.files[g] = Meta(y, "ready")
        BY <3>1, <3>2 DEF Held
      <3>4. QED BY <2>1, <2>4, <3>3, ReadyMeaning
    <2>5. QED BY <2>3, <2>4
  <1>6. QED BY <1>3, <1>4, <1>5 DEF m

\* A field is taken out of the document that was read, or the document goes.
LEMMA WithoutMeaning ==
    ASSUME NEW d \in Document, NEW f \in Fields
    PROVE  /\ Without(d, f) \in Held
           /\ ReadyIn(Without(d, f)) \subseteq Keeps(d, f)
  <1> DEFINE r == [d EXCEPT !.files[f] = None]
  <1>1. /\ r \in Document
        /\ \A g \in Fields : r.files[g] = IF g = f THEN None ELSE d.files[g]
    BY DEF Document
  <1>2. Without(d, f) \in {r, None}
    BY DEF Without
  <1> HIDE DEF r
  <1>3. ReadyIn(r) \subseteq Keeps(d, f)
    <2>1. SUFFICES ASSUME NEW y \in ReadyIn(r) PROVE y \in Keeps(d, f)
      OBVIOUS
    <2>2. y \in Shas
      BY DEF ReadyIn
    <2>3. PICK g \in Fields : r.files[g] = Meta(y, "ready")
      BY <1>1, <2>2, ReadyMeaning
    <2>4. g # f
      BY <1>1, <2>2, <2>3, MetaType
    <2>5. QED BY <1>1, <2>2, <2>3, <2>4, ReadyMeaning
  <1>4. QED BY <1>1, <1>2, <1>3, NothingReady DEF Held

\* An hour makes a marker stale and leaves what is ready.
LEMMA OlderMeaning ==
    ASSUME NEW d \in Held
    PROVE  Older(d) \in Held /\ ReadyIn(Older(d)) = ReadyIn(d)
  <1>1. CASE d = None
    BY <1>1 DEF Older, Held
  <1>2. CASE d \in Document
    <2> DEFINE F == [f \in Fields |->
                       IF d.files[f] # None /\ d.files[f].state = "pending"
                         THEN [d.files[f] EXCEPT !.state = "stale"] ELSE d.files[f]]
               o == [d EXCEPT !.files = F]
    <2>1. d # None /\ Older(d) = o
      BY <1>2, NoneAssumption DEF Older
    <2>2. ASSUME NEW f \in Fields
          PROVE  /\ F[f] \in Metas \cup {None}
                 /\ \A x \in Shas : F[f] = Meta(x, "ready") <=>
                                      d.files[f] = Meta(x, "ready")
      <3>1. d.files[f] \in Metas \cup {None}
        BY <1>2 DEF Document
      <3>2. CASE d.files[f] # None /\ d.files[f].state = "pending"
        <4>1. F[f] = [d.files[f] EXCEPT !.state = "stale"]
          BY <3>2
        <4>2. F[f] \in Metas /\ F[f].state = "stale"
          BY <3>1, <3>2, <4>1 DEF Metas
        <4>3. QED BY <3>2, <4>2, MetaType
      <3>3. CASE ~(d.files[f] # None /\ d.files[f].state = "pending")
        <4>1. F[f] = d.files[f]
          BY <3>3
        <4>2. QED BY <3>1, <4>1
      <3>4. QED BY <3>2, <3>3
    <2>3. F \in [Fields -> Metas \cup {None}]
      BY <2>2
    <2> HIDE DEF F
    <2>4. o \in Document /\ o.files = F
      BY <1>2, <2>3 DEF Document
    <2> HIDE DEF o
    <2>5. \A x \in Shas : x \in ReadyIn(o) <=> x \in ReadyIn(d)
      BY <1>2, <2>2, <2>4, ReadyMeaning
    <2>6. QED BY <2>1, <2>4, <2>5 DEF Held, ReadyIn
  <1>3. QED BY <1>1, <1>2 DEF Held

LEMMA MortalMeaning ==
    ASSUME NEW d \in Document
    PROVE  LET m == [d EXCEPT !.mortal = TRUE]
           IN  m \in Document /\ ReadyIn(m) = ReadyIn(d)
  <1> DEFINE m == [d EXCEPT !.mortal = TRUE]
  <1>1. m \in Document /\ m.files = d.files
    BY DEF Document
  <1> HIDE DEF m
  <1>2. \A x \in Shas : x \in ReadyIn(m) <=> x \in ReadyIn(d)
    BY <1>1, ReadyMeaning
  <1>3. ReadyIn(m) = ReadyIn(d)
    BY <1>2 DEF ReadyIn
  <1>4. QED BY <1>1, <1>3 DEF m

------------------------------------------------------------------------------
(* Rows and pages *)

LEMMA RankType ==
    ASSUME NEW i \in Ids
    PROVE  IsFiniteSet(Before(i)) /\ Rank(i) \in Nat
  <1>1. IsFiniteSet(Ids)
    BY DocsAssumption, FS_Interval DEF Ids
  <1>2. Before(i) \subseteq Ids
    BY DEF Before, Rows
  <1>3. QED BY <1>1, <1>2, FS_Subset, FS_CardinalityType DEF Rank

\* A list gives no more rows than a page holds.
LEMMA PageFits ==
    ASSUME NEW n \in Nat, NEW page \in Listings(n)
    PROVE  /\ page \subseteq Rows /\ IsFiniteSet(page)
           /\ Cardinality(page) \in Nat /\ Cardinality(page) <= PageSize
  <1>1. page \subseteq Rows /\ Rows \subseteq Ids /\ IsFiniteSet(Ids)
    BY DocsAssumption, FS_Interval DEF Listings, Rows, Ids
  <1>2. IsFiniteSet(Rows) /\ IsFiniteSet(page)
    BY <1>1, FS_Subset
  <1>3. Cardinality(Rows) \in Nat /\ Cardinality(page) \in Nat
    BY <1>2, FS_CardinalityType
  <1>4. Beyond(n) \in Nat
    BY <1>3 DEF Beyond
  <1>5. Cardinality(page) <= PageSize
    BY <1>4, PageSizeAssumption DEF Listings
  <1>6. QED BY <1>1, <1>2, <1>3, <1>5

\* A row that comes or changes takes no other row back to a page that is done.
LEMMA RankGrows ==
    ASSUME Typed, NEW i \in Ids, NEW d, d # None \/ docs[i] = None,
           docs' = [docs EXCEPT ![i] = d], NEW j \in Ids
    PROVE  Rank(j) \in Nat /\ Rank(j)' \in Nat /\ Rank(j)' >= Rank(j)
  <1>1. Before(j) \subseteq Before(j)'
    BY DEF Typed, Before, Rows
  <1>2. Before(j)' \subseteq Ids /\ IsFiniteSet(Ids)
    BY DocsAssumption, FS_Interval DEF Before, Rows, Ids
  <1>3. IsFiniteSet(Before(j)') /\ Cardinality(Before(j)') \in Nat
    BY <1>2, FS_Subset, FS_CardinalityType
  <1>4. Cardinality(Before(j)) <= Cardinality(Before(j)')
    BY <1>1, <1>3, FS_Subset
  <1>5. QED BY <1>3, <1>4, RankType DEF Rank

------------------------------------------------------------------------------
(* Steps of clients *)

\* What a client carries depends on its own step and locals.
LEMMA GotoMeans ==
    ASSUME Typed, NEW c \in Clients, NEW step \in Steps, NEW l \in Locals,
           Goto(c, step, l)
    PROVE  /\ pc' \in [Clients -> Steps] /\ loc' \in [Clients -> Locals]
           /\ pc'[c] = step /\ loc'[c] = l
           /\ Carried(c)' = IF step \in {"pending", "save", "put"}
                              THEN Keeps(l.doc, l.field) ELSE {}
           /\ \A u \in Clients \ {c} : /\ pc'[u] = pc[u] /\ loc'[u] = loc[u]
                                       /\ Carried(u)' = Carried(u)
  <1>1. pc \in [Clients -> Steps] /\ loc \in [Clients -> Locals]
    BY DEF Typed
  <1>2. /\ pc' = [pc EXCEPT ![c] = step] /\ loc' = [loc EXCEPT ![c] = l]
    BY DEF Goto
  <1>3. /\ pc' \in [Clients -> Steps] /\ loc' \in [Clients -> Locals]
        /\ pc'[c] = step /\ loc'[c] = l
        /\ \A u \in Clients \ {c} : pc'[u] = pc[u] /\ loc'[u] = loc[u]
    BY <1>1, <1>2
  <1>4. QED BY <1>3 DEF Carried, Keeps

\* A document changes; what it names now was covered, and no copy gains a name.
LEMMA DocumentKeeps ==
    ASSUME FInv, NEW i \in Ids, NEW d \in Held,
           docs' = [docs EXCEPT ![i] = d],
           \A x \in ReadyIn(d) : Backed(x) /\ Met(i, x),
           bytes' = bytes, tainted' = tainted, missed' = missed,
           \A c \in Clients : Carried(c)' = {} \/ (/\ Carried(c)' = Carried(c)
                                                  /\ loc'[c].id = loc[c].id),
           \/ sw'.at = sw.at /\ sw'.doc = sw.doc
           \/ sw.at = "put" /\ sw'.at = "stale",
           sw'.offset = sw.offset, sw'.refs = sw.refs,
           sw.cut \/ Shifts(i, d) => sw'.cut
    PROVE  docs' \in [Ids -> Held] /\ Covered'
  <1>1. docs \in [Ids -> Held] /\ Typed /\ Covered
    BY DEF FInv, Typed
  <1>2. docs' \in [Ids -> Held] /\ docs'[i] = d
        /\ \A j \in Ids \ {i} : docs'[j] = docs[j]
    BY <1>1
  <1>3. ASSUME NEW j \in Ids, NEW x \in Shas, Names(j, x)'
        PROVE  Backed(x) /\ Met(j, x)
    <2>1. CASE x \in ReadyIn(docs'[j])
      <3>1. CASE j = i
        BY <1>2, <2>1, <3>1
      <3>2. CASE j # i
        BY <1>1, <1>2, <2>1, <3>2 DEF Covered, Names
      <3>3. QED BY <3>1, <3>2
    <2>2. ASSUME NEW c \in Clients, loc'[c].id = j, x \in Carried(c)'
          PROVE  Backed(x) /\ Met(j, x)
      <3>1. loc[c].id = j /\ x \in Carried(c)
        BY <2>2
      <3>2. QED BY <1>1, <3>1 DEF Covered, Names
    <2>3. CASE sw'.at = "put" /\ sw'.doc.id = j /\ x \in ReadyIn(sw'.doc.new)
      <3>1. sw.at = "put" /\ sw.doc.id = j /\ x \in ReadyIn(sw.doc.new)
        BY <2>3
      <3>2. QED BY <1>1, <3>1 DEF Covered, Names
    <2>4. QED BY <1>3, <2>1, <2>2, <2>3 DEF Names, ReadyIn, FileIn
  <1>4. ASSUME NEW j \in Ids, NEW x \in Shas, Backed(x), Met(j, x)
        PROVE  Backed(x)' /\ Met(j, x)'
    <2>1. Backed(x)'
      BY <1>4 DEF Backed
    <2>2. CASE sw.at = "idle"
      BY <2>1, <2>2 DEF Met
    <2>3. CASE Known(x)
      BY <2>1, <2>3 DEF Known, Met
    <2>4. CASE Ahead(j)
      <3>1. sw.at = "scan" /\ sw'.at = "scan" /\ Rank(j) >= sw.offset
        BY <2>4 DEF Ahead
      <3>2. CASE docs[i] # None /\ d = None
        <4>1. sw'.cut
          BY <3>1, <3>2 DEF Shifts
        <4>2. QED BY <2>1, <4>1 DEF Met, Known
      <3>3. CASE d # None \/ docs[i] = None
        <4>1. Rank(j) \in Nat /\ Rank(j)' \in Nat /\ Rank(j)' >= Rank(j)
          BY <1>1, <3>3, RankGrows
        <4>2. sw.offset \in Nat
          BY <1>1 DEF Typed, Swept
        <4>3. Rank(j)' >= sw'.offset
          BY <3>1, <4>1, <4>2
        <4>4. QED BY <2>1, <3>1, <4>3 DEF Met, Ahead
      <3>4. QED BY <3>2, <3>3
    <2>5. QED BY <1>4, <2>1, <2>2, <2>3, <2>4 DEF Met
  <1>5. Covered'
    BY <1>3, <1>4 DEF Covered
  <1>6. QED BY <1>2, <1>5

\* What is sure or covered stays so while bytes stay and the pass goes on.
LEMMA CalmMet ==
    ASSUME FInv, docs' = docs, sw' = sw, bytes' = bytes, tainted' = tainted,
           missed \subseteq missed'
    PROVE  /\ \A x \in Shas : Backed(x) => Backed(x)'
           /\ \A x \in Shas : Sure(x) => Sure(x)'
           /\ \A i \in Ids, x \in Shas : Met(i, x) => Met(i, x)'
  <1>1. \A x \in Shas : Backed(x) => Backed(x)'
    BY DEF Backed
  <1>2. \A x \in Shas : Sure(x) => Sure(x)'
    BY <1>1 DEF Sure
  <1>3. ASSUME NEW i \in Ids, NEW x \in Shas, Met(i, x) PROVE Met(i, x)'
    <2>1. Rank(i)' = Rank(i)
      BY DEF Rank, Before, Rows
    <2>2. QED BY <1>3, <2>1 DEF Met, Known, Ahead
  <1>4. QED BY <1>1, <1>2, <1>3

\* A client's step that changes no document: what it carries from now on, the
\* store names; what it will call ready, it is sure of.
LEMMA CalmStep ==
    ASSUME FInv, NEW c \in Clients, NEW step \in Steps, NEW l \in Locals,
           Goto(c, step, l), Armed(step, l),
           docs' = docs, sw' = sw, bytes' = bytes, tainted' = tainted,
           missed \subseteq missed', missed' \subseteq Shas,
           step \in {"pending", "save", "put"} =>
             l.id \in Ids /\ Keeps(l.doc, l.field) \subseteq ReadyIn(docs[l.id]),
           step \in {"reread", "save"} =>
             Backed(l.sha) /\ (bytes[l.sha] = "fresh" \/ l.sha \in missed')
    PROVE  FInv'
  <1>1. Typed /\ Covered
    BY DEF FInv
  <1>2. /\ pc' \in [Clients -> Steps] /\ loc' \in [Clients -> Locals]
        /\ pc'[c] = step /\ loc'[c] = l
        /\ Carried(c)' = IF step \in {"pending", "save", "put"}
                           THEN Keeps(l.doc, l.field) ELSE {}
        /\ \A u \in Clients \ {c} : /\ pc'[u] = pc[u] /\ loc'[u] = loc[u]
                                    /\ Carried(u)' = Carried(u)
    BY <1>1, GotoMeans
  <1>3. Typed'
    BY <1>1, <1>2 DEF Typed
  <1>4. ASSUME NEW i \in Ids, NEW x \in Shas, Names(i, x)' PROVE Names(i, x)
    <2>1. CASE x \in ReadyIn(docs'[i])
      BY <2>1 DEF Names
    <2>2. ASSUME NEW u \in Clients, loc'[u].id = i, x \in Carried(u)'
          PROVE  Names(i, x)
      <3>1. CASE u = c
        BY <1>2, <2>2, <3>1 DEF Names
      <3>2. CASE u # c
        BY <1>2, <2>2, <3>2 DEF Names
      <3>3. QED BY <3>1, <3>2
    <2>3. CASE sw'.at = "put" /\ sw'.doc.id = i /\ x \in ReadyIn(sw'.doc.new)
      BY <2>3 DEF Names
    <2>4. QED BY <1>4, <2>1, <2>2, <2>3 DEF Names, ReadyIn, FileIn
  <1>5. Covered'
    BY <1>1, <1>4, CalmMet DEF Covered
  <1>6. ASSUME NEW u \in Clients
        PROVE  /\ Armed(pc'[u], loc'[u])
               /\ pc'[u] \in {"reread", "save"} => Sure(loc[u].sha)'
    <2>1. CASE u = c
      <3>1. pc'[u] = step /\ loc'[u] = l
        BY <1>2, <2>1
      <3>2. step \in {"reread", "save"} => Sure(loc[u].sha)'
        BY <3>1 DEF Sure, Backed
      <3>3. QED BY <3>1, <3>2
    <2>2. CASE u # c
      <3>1. /\ pc'[u] = pc[u] /\ loc'[u] = loc[u] /\ Armed(pc[u], loc[u])
            /\ pc[u] \in {"reread", "save"} => Sure(loc[u].sha)
        BY <1>2, <2>2 DEF FInv
      <3>2. pc[u] \in {"reread", "save"} => loc[u].sha \in Shas
        BY <3>1 DEF Armed
      <3>3. pc[u] \in {"reread", "save"} => Sure(loc[u].sha)'
        <4>1. \A x \in Shas : Sure(x) => Sure(x)'
          BY CalmMet
        <4>2. QED BY <3>1, <3>2, <4>1 DEF Sure, Backed
      <3>4. QED BY <3>1, <3>3
    <2>3. QED BY <2>1, <2>2
  <1>7. QED BY <1>3, <1>5, <1>6 DEF FInv

\* A client's step that stores a document and is done with its copy.
LEMMA WriteStep ==
    ASSUME FInv, NEW c \in Clients, NEW step \in {"idle", "promote"},
           NEW l \in Locals, Goto(c, step, l), Armed(step, l),
           NEW i \in Ids, NEW d \in Held, docs' = [docs EXCEPT ![i] = d],
           \A x \in ReadyIn(d) : Backed(x) /\ Met(i, x),
           bytes' = bytes, tainted' = tainted, missed' = missed,
           \/ sw' = [sw EXCEPT !.cut = @ \/ Shifts(i, d)]
           \/ sw' = sw /\ d # None
    PROVE  FInv'
  <1>1. Typed /\ sw \in Swept
    BY DEF FInv, Typed
  <1>2. /\ pc' \in [Clients -> Steps] /\ loc' \in [Clients -> Locals]
        /\ pc'[c] = step /\ loc'[c] = l
        /\ Carried(c)' = {}
        /\ \A u \in Clients \ {c} : /\ pc'[u] = pc[u] /\ loc'[u] = loc[u]
                                    /\ Carried(u)' = Carried(u)
    <2>1. step \in Steps
      BY DEF Steps
    <2>2. QED BY <1>1, <2>1, GotoMeans
  <1>3. /\ sw' \in Swept
        /\ sw'.at = sw.at /\ sw'.doc = sw.doc /\ sw'.offset = sw.offset
        /\ sw'.refs = sw.refs
        /\ sw.cut \/ Shifts(i, d) => sw'.cut
    <2>1. CASE sw' = [sw EXCEPT !.cut = @ \/ Shifts(i, d)]
      <3>1. (sw.cut \/ Shifts(i, d)) \in BOOLEAN
        OBVIOUS
      <3>2. QED BY <1>1, <2>1, <3>1 DEF Swept
    <2>2. CASE sw' = sw /\ d # None
      BY <1>1, <2>2 DEF Shifts
    <2>3. QED BY <2>1, <2>2
  <1>4. docs' \in [Ids -> Held] /\ Covered'
    <2>1. \A u \in Clients : Carried(u)' = {} \/ (/\ Carried(u)' = Carried(u)
                                                /\ loc'[u].id = loc[u].id)
      BY <1>2
    <2>2. QED BY <1>3, <2>1, DocumentKeeps
  <1>5. Typed'
    BY <1>1, <1>2, <1>3, <1>4 DEF Typed
  <1>6. ASSUME NEW u \in Clients
        PROVE  /\ Armed(pc'[u], loc'[u])
               /\ pc'[u] \in {"reread", "save"} => Sure(loc[u].sha)'
    <2>1. CASE u = c
      BY <1>2, <2>1
    <2>2. CASE u # c
      <3>1. /\ pc'[u] = pc[u] /\ loc'[u] = loc[u] /\ Armed(pc[u], loc[u])
            /\ pc[u] \in {"reread", "save"} => Sure(loc[u].sha)
        BY <1>2, <2>2 DEF FInv
      <3>2. QED BY <3>1 DEF Sure, Backed
    <2>3. QED BY <2>1, <2>2
  <1>7. QED BY <1>4, <1>5, <1>6 DEF FInv

\* A step of the sweeper or of time: the clients stand still.
LEMMA AsideStep ==
    ASSUME FInv, Typed', Covered', pc' = pc, loc' = loc,
           \A c \in Clients : pc[c] \in {"reread", "save"} => Sure(loc[c].sha)'
    PROVE  FInv'
  BY DEF FInv

------------------------------------------------------------------------------
(* Uploads and removals *)

\* A client at a step: what it has in hand.
LEMMA InHand ==
    ASSUME FInv, NEW c \in Clients
    PROVE  /\ Typed /\ Covered /\ Armed(pc[c], loc[c]) /\ loc[c] \in Locals
           /\ loc[c].id \in 0..Docs /\ loc[c].field \in Fields \cup {None}
           /\ loc[c].sha \in Shas \cup {None} /\ loc[c].doc \in Held
           /\ pc[c] \in {"reread", "save"} => Sure(loc[c].sha)
  <1>1. Typed /\ loc[c] \in Locals
    BY DEF FInv, Typed
  <1>2. QED BY <1>1 DEF FInv, Locals

\* A document that is seen is there.
LEMMA SeenIsThere ==
    ASSUME Typed, NEW i \in Ids
    PROVE  Seen(i) \in Held /\ (Seen(i) = None \/ Seen(i) = docs[i])
  BY DEF Typed, Seen, Held

LEMMA IdleType == Idle \in Locals
  BY DocsAssumption DEF Idle, Locals, Held

LEMMA LeaveKeeps ==
    ASSUME FInv, NEW c \in Clients, Leave(c), docs' = docs, sw' = sw,
           bytes' = bytes, tainted' = tainted, missed' = missed
    PROVE  FInv'
  <1>1. Armed("idle", Idle) /\ "idle" \in Steps /\ Goto(c, "idle", Idle)
    BY DEF Armed, Steps, Leave
  <1>2. missed \subseteq missed' /\ missed' \subseteq Shas
    BY DEF FInv, Typed
  <1>3. QED BY <1>1, <1>2, IdleType, CalmStep

LEMMA UploadKeeps ==
    ASSUME FInv, NEW c \in Clients, NEW i \in Ids, NEW f \in Fields, NEW x \in Shas,
           Upload(c, i, f, x)
    PROVE  FInv'
  <1> DEFINE l == [id |-> i, field |-> f, sha |-> x, doc |-> None]
  <1>1. l \in Locals /\ l.id = i /\ l.field = f /\ l.sha = x
    BY DocsAssumption DEF Locals, Held, Ids
  <1>2. Goto(c, "read", l)
    BY DEF Upload
  <1> HIDE DEF l
  <1>3. Armed("read", l) /\ "read" \in Steps
    BY <1>1 DEF Armed, Steps
  <1>4. /\ docs' = docs /\ sw' = sw /\ bytes' = bytes /\ tainted' = tainted
        /\ missed \subseteq missed' /\ missed' \subseteq Shas
    BY DEF Upload, FInv, Typed
  <1>5. QED BY <1>1, <1>2, <1>3, <1>4, CalmStep

LEMMA RemoveFileKeeps ==
    ASSUME FInv, NEW c \in Clients, NEW i \in Ids, NEW f \in Fields,
           RemoveFile(c, i, f)
    PROVE  FInv'
  <1> DEFINE l == [Idle EXCEPT !.id = i, !.field = f]
  <1>1. l \in Locals /\ l.id = i /\ l.field = f
    <2>1. i \in 0..Docs
      BY DocsAssumption DEF Ids
    <2>2. QED BY <2>1, IdleType DEF Locals
  <1>2. Goto(c, "get", l)
    BY DEF RemoveFile
  <1> HIDE DEF l
  <1>3. Armed("get", l) /\ "get" \in Steps
    BY <1>1 DEF Armed, Steps
  <1>4. /\ docs' = docs /\ sw' = sw /\ bytes' = bytes /\ tainted' = tainted
        /\ missed \subseteq missed' /\ missed' \subseteq Shas
    BY DEF RemoveFile, FInv, Typed
  <1>5. QED BY <1>1, <1>2, <1>3, <1>4, CalmStep

\* Read and Reread: a copy of the document, or of nothing.
LEMMA CopyKeeps ==
    ASSUME FInv, NEW c \in Clients,
           \/ pc[c] = "read" /\ Read(c)
           \/ pc[c] = "reread" /\ Reread(c)
    PROVE  FInv'
  <1> DEFINE s == IF pc[c] = "read" THEN "pending" ELSE "save"
             d == Seen(loc[c].id)
             l == [loc[c] EXCEPT !.doc = d]
  <1>1. /\ Typed /\ Armed(pc[c], loc[c]) /\ loc[c] \in Locals
        /\ pc[c] = "reread" => Sure(loc[c].sha)
    BY InHand
  <1>2. loc[c].id \in Ids /\ loc[c].field \in Fields /\ loc[c].sha \in Shas
    BY <1>1 DEF Armed
  <1>3. d \in Held /\ (d = None \/ d = docs[loc[c].id])
    BY <1>1, <1>2, SeenIsThere
  <1>4. Goto(c, s, l)
    BY DEF Read, Reread
  <1> HIDE DEF d
  <1>5. /\ l \in Locals /\ l.id = loc[c].id /\ l.field = loc[c].field
        /\ l.sha = loc[c].sha /\ l.doc = d
    BY <1>1, <1>3 DEF Locals
  <1> HIDE DEF l
  <1>6. s \in {"pending", "save"} /\ (s = "save" => pc[c] = "reread")
    OBVIOUS
  <1> HIDE DEF s
  <1>7. s \in Steps /\ Armed(s, l)
    BY <1>2, <1>5, <1>6 DEF Steps, Armed
  <1>8. /\ docs' = docs /\ sw' = sw /\ bytes' = bytes /\ tainted' = tainted
        /\ missed \subseteq missed' /\ missed' \subseteq Shas
    BY <1>1 DEF Read, Reread, Typed
  <1>9. Keeps(l.doc, l.field) \subseteq ReadyIn(docs[l.id])
    BY <1>2, <1>3, <1>5, KeepsAreReady, NothingReady
  <1>10. s = "save" => Backed(l.sha) /\ (bytes[l.sha] = "fresh" \/ l.sha \in missed')
    BY <1>1, <1>5, <1>6, <1>8 DEF Sure
  <1>11. QED BY <1>2, <1>4, <1>5, <1>6, <1>7, <1>8, <1>9, <1>10, CalmStep

\* promote up to the rename, and its failure.
LEMMA PromoteKeeps ==
    ASSUME FInv, NEW c \in Clients,
           Found(c) \/ NotFound(c) \/ RenameFails(c) \/ PromoteFails(c)
    PROVE  FInv'
  <1> DEFINE s == IF Found(c) THEN "reread" ELSE IF NotFound(c) THEN "rename" ELSE "get"
  <1>1. Typed /\ Armed(pc[c], loc[c]) /\ loc[c] \in Locals
    BY InHand
  <1>2. /\ pc[c] \in {"promote", "rename"}
        /\ s \in {"reread", "rename", "get"} /\ Goto(c, s, loc[c])
        /\ docs' = docs /\ sw' = sw /\ bytes' = bytes /\ tainted' = tainted
    BY DEF Found, NotFound, RenameFails, PromoteFails
  <1>3. loc[c].id \in Ids /\ loc[c].field \in Fields /\ loc[c].sha \in Shas
    BY <1>1, <1>2 DEF Armed
  <1>4. missed \subseteq missed' /\ missed' \subseteq Shas
    BY <1>1, <1>3 DEF Found, NotFound, RenameFails, PromoteFails, Typed
  <1>5. s = "reread" => Backed(loc[c].sha) /\ loc[c].sha \in missed'
    BY DEF Found, Backed
  <1> HIDE DEF s
  <1>6. s \in Steps /\ Armed(s, loc[c])
    BY <1>2, <1>3 DEF Steps, Armed
  <1>7. s \notin {"pending", "save", "put"}
    BY <1>2
  <1>8. QED BY <1>1, <1>2, <1>4, <1>5, <1>6, <1>7, CalmStep

\* What a client carries is named.
LEMMA CarriedIsCovered ==
    ASSUME FInv, NEW c \in Clients, loc[c].id \in Ids,
           NEW x \in Carried(c)
    PROVE  x \in Shas /\ Backed(x) /\ Met(loc[c].id, x)
  <1>1. x \in Shas
    BY DEF Carried, Keeps
  <1>2. Names(loc[c].id, x)
    BY DEF Names
  <1>3. QED BY <1>1, <1>2 DEF FInv, Covered

LEMMA PendingKeeps ==
    ASSUME FInv, NEW c \in Clients, Pending(c)
    PROVE  FInv'
  <1> DEFINE i == loc[c].id
             f == loc[c].field
             d == With(loc[c].doc, f, Meta(loc[c].sha, "pending"))
             l == [loc[c] EXCEPT !.doc = None]
  <1>1. /\ Typed /\ Armed(pc[c], loc[c]) /\ loc[c] \in Locals /\ pc[c] = "pending"
        /\ loc[c].doc \in Held
    BY InHand DEF Pending
  <1>2. i \in Ids /\ f \in Fields /\ loc[c].sha \in Shas
    BY <1>1 DEF Armed
  <1>3. /\ sw' = sw /\ bytes' = bytes /\ tainted' = tainted /\ missed' = missed
    BY DEF Pending
  <1>4. CASE Leave(c) /\ docs' = docs
    BY <1>3, <1>4, LeaveKeeps
  <1>5. CASE docs' = [docs EXCEPT ![i] = d] /\ Goto(c, "promote", l)
    <2>1. /\ l \in Locals /\ l.id = i /\ l.field = f /\ l.sha = loc[c].sha
      BY <1>1 DEF Locals, Held
    <2>2. /\ d \in Document
          /\ \A y \in ReadyIn(d) : y \in Keeps(loc[c].doc, f)
      BY <1>1, <1>2, WithMeaning
    <2>3. Carried(c) = Keeps(loc[c].doc, f)
      BY <1>1 DEF Carried
    <2>4. \A y \in ReadyIn(d) : Backed(y) /\ Met(i, y)
      BY <1>2, <2>2, <2>3, CarriedIsCovered
    <2>5. d \in Held /\ d # None
      BY <2>2, NoneAssumption DEF Held
    <2> HIDE DEF d, l
    <2>6. Armed("promote", l)
      BY <1>2, <2>1 DEF Armed
    <2> HIDE DEF i, f
    <2>7. QED BY <1>2, <1>3, <1>5, <2>1, <2>4, <2>5, <2>6, WriteStep
  <1>6. QED BY <1>4, <1>5 DEF Pending

LEMMA SaveKeeps ==
    ASSUME FInv, NEW c \in Clients, Save(c)
    PROVE  FInv'
  <1> DEFINE i == loc[c].id
             f == loc[c].field
             x == loc[c].sha
             d == With(loc[c].doc, f, Meta(x, "ready"))
  <1>1. /\ Typed /\ Armed(pc[c], loc[c]) /\ loc[c] \in Locals /\ pc[c] = "save"
        /\ loc[c].doc \in Held /\ Sure(x)
    BY InHand DEF Save
  <1>2. i \in Ids /\ f \in Fields /\ x \in Shas
    BY <1>1 DEF Armed
  <1>3. /\ sw' = sw /\ bytes' = bytes /\ tainted' = tainted /\ missed' = missed
        /\ docs' = [docs EXCEPT ![i] = d] /\ Goto(c, "idle", Idle)
    BY DEF Save, Leave
  <1>4. /\ d \in Document
        /\ \A y \in ReadyIn(d) : y \in Keeps(loc[c].doc, f) \/ y = x
    BY <1>1, <1>2, WithMeaning
  <1>5. Carried(c) = Keeps(loc[c].doc, f)
    BY <1>1 DEF Carried
  <1>6. Backed(x) /\ Met(i, x)
    BY <1>1 DEF Sure, Met, Known
  <1>7. \A y \in ReadyIn(d) : Backed(y) /\ Met(i, y)
    BY <1>2, <1>4, <1>5, <1>6, CarriedIsCovered
  <1>8. d \in Held /\ d # None
    BY <1>4, NoneAssumption DEF Held
  <1>9. Armed("idle", Idle)
    BY DEF Armed
  <1> HIDE DEF d, i, f, x
  <1>10. QED BY <1>2, <1>3, <1>7, <1>8, <1>9, IdleType, WriteStep

LEMMA GetKeeps ==
    ASSUME FInv, NEW c \in Clients, Get(c)
    PROVE  FInv'
  <1> DEFINE d == Seen(loc[c].id)
             l == [loc[c] EXCEPT !.doc = d]
  <1>1. Typed /\ Armed(pc[c], loc[c]) /\ loc[c] \in Locals /\ pc[c] = "get"
    BY InHand DEF Get
  <1>2. loc[c].id \in Ids /\ loc[c].field \in Fields
    BY <1>1 DEF Armed
  <1>3. /\ docs' = docs /\ sw' = sw /\ bytes' = bytes /\ tainted' = tainted
        /\ missed' = missed /\ missed \subseteq Shas
    BY <1>1 DEF Get, Typed
  <1>4. CASE Leave(c)
    BY <1>3, <1>4, LeaveKeeps
  <1>5. CASE FileIn(d, loc[c].field) # None /\ Goto(c, "put", l)
    <2>1. d \in Held /\ d = docs[loc[c].id] /\ d \in Document
      <3>1. d # None
        BY <1>5 DEF FileIn
      <3>2. QED BY <1>1, <1>2, <3>1, SeenIsThere DEF Held
    <2> HIDE DEF d
    <2>2. /\ l \in Locals /\ l.id = loc[c].id /\ l.field = loc[c].field /\ l.doc = d
      BY <1>1, <2>1 DEF Locals
    <2> HIDE DEF l
    <2>3. "put" \in Steps /\ Armed("put", l)
      BY <1>2, <2>1, <2>2 DEF Steps, Armed
    <2>4. Keeps(l.doc, l.field) \subseteq ReadyIn(docs[l.id])
      BY <2>1, <2>2, KeepsAreReady
    <2>5. missed \subseteq missed' /\ missed' \subseteq Shas
      BY <1>3
    <2>6. QED BY <1>2, <1>3, <1>5, <2>2, <2>3, <2>4, <2>5, CalmStep
  <1>6. QED BY <1>4, <1>5 DEF Get

LEMMA PutKeeps ==
    ASSUME FInv, NEW c \in Clients, Put(c)
    PROVE  FInv'
  <1> DEFINE i == loc[c].id
             f == loc[c].field
             d == Without(loc[c].doc, f)
  <1>1. /\ Typed /\ Armed(pc[c], loc[c]) /\ loc[c] \in Locals /\ pc[c] = "put"
    BY InHand DEF Put
  <1>2. i \in Ids /\ f \in Fields /\ loc[c].doc \in Document
    BY <1>1 DEF Armed
  <1>3. /\ bytes' = bytes /\ tainted' = tainted /\ missed' = missed
        /\ docs' = [docs EXCEPT ![i] = d] /\ Goto(c, "idle", Idle)
        /\ sw' = [sw EXCEPT !.cut = @ \/ Shifts(i, d)]
    BY DEF Put, Leave
  <1>4. d \in Held /\ ReadyIn(d) \subseteq Keeps(loc[c].doc, f)
    BY <1>2, WithoutMeaning
  <1>5. Carried(c) = Keeps(loc[c].doc, f)
    BY <1>1 DEF Carried
  <1>6. \A y \in ReadyIn(d) : Backed(y) /\ Met(i, y)
    BY <1>2, <1>4, <1>5, CarriedIsCovered
  <1>7. Armed("idle", Idle)
    BY DEF Armed
  <1> HIDE DEF d, i, f
  <1>8. QED BY <1>2, <1>3, <1>4, <1>6, <1>7, IdleType, WriteStep

\* The bytes are there, and too young for any pass that is under way, or excused.
LEMMA RenameKeeps ==
    ASSUME FInv, NEW c \in Clients, Rename(c)
    PROVE  FInv'
  <1> DEFINE x == loc[c].sha
             age == IF tmp[c] = "fresh" THEN "fresh" ELSE "old"
  <1>1. /\ Typed /\ Covered /\ Armed(pc[c], loc[c]) /\ loc[c] \in Locals
        /\ pc[c] = "rename"
    BY InHand DEF Rename
  <1>2. loc[c].id \in Ids /\ loc[c].field \in Fields /\ x \in Shas
    BY <1>1 DEF Armed
  <1>3. /\ bytes' = [bytes EXCEPT ![x] = age] /\ tainted' = tainted \ {x}
        /\ Goto(c, "reread", loc[c])
        /\ docs' = docs /\ sw' = sw
        /\ missed' = IF age = "fresh" THEN missed ELSE missed \cup {x}
    BY DEF Rename
  <1>4. /\ pc' \in [Clients -> Steps] /\ loc' \in [Clients -> Locals]
        /\ pc'[c] = "reread" /\ loc'[c] = loc[c]
        /\ Carried(c)' = {}
        /\ \A u \in Clients \ {c} : /\ pc'[u] = pc[u] /\ loc'[u] = loc[u]
                                    /\ Carried(u)' = Carried(u)
    <2>1. "reread" \in Steps
      BY DEF Steps
    <2>2. QED BY <1>1, <1>3, <2>1, GotoMeans
  <1>5. /\ bytes' \in [Shas -> {"none", "fresh", "old"}] /\ bytes'[x] # "none"
        /\ bytes'[x] = "fresh" \/ x \in missed'
        /\ \A y \in Shas \ {x} : bytes'[y] = bytes[y]
        /\ missed \subseteq missed' /\ missed' \subseteq Shas
    <2>1. age \in {"fresh", "old"}
      OBVIOUS
    <2> HIDE DEF age
    <2>2. QED BY <1>1, <1>2, <1>3, <2>1 DEF Typed
  <1> HIDE DEF x, age
  <1>6. ASSUME NEW y \in Shas
        PROVE  /\ Backed(y) => Backed(y)'
               /\ Sure(y) \/ y = x => Sure(y)'
               /\ \A i \in Ids : Met(i, y) => Met(i, y)'
    <2>1. \A i \in Ids : Ahead(i)' = Ahead(i)
      BY <1>3 DEF Ahead, Rank, Before, Rows
    <2>2. Backed(y) => Backed(y)'
      BY <1>3, <1>5 DEF Backed
    <2>3. y = x => Backed(y)'
      BY <1>5 DEF Backed
    <2>4. Known(y) => Known(y)'
      BY <1>3, <1>5 DEF Known
    <2>5. Sure(y) \/ y = x => Sure(y)'
      BY <1>3, <1>5, <2>2, <2>3 DEF Sure
    <2>6. QED BY <1>3, <2>1, <2>2, <2>4, <2>5 DEF Met
  <1>7. Typed'
    BY <1>1, <1>3, <1>4, <1>5 DEF Typed
  <1>8. ASSUME NEW i \in Ids, NEW y \in Shas, Names(i, y)' PROVE Names(i, y)
    BY <1>3, <1>4, <1>8 DEF Names, ReadyIn, FileIn
  <1>9. Covered'
    BY <1>1, <1>6, <1>8 DEF Covered
  <1>10. ASSUME NEW u \in Clients
         PROVE  /\ Armed(pc'[u], loc'[u])
                /\ pc'[u] \in {"reread", "save"} => Sure(loc[u].sha)'
    <2>1. CASE u = c
      <3>1. Armed("reread", loc[c])
        BY <1>2 DEF Armed, x
      <3>2. loc'[c].sha = x /\ x \in Shas
        BY <1>2, <1>4 DEF x
      <3>3. PICK y \in Shas : y = x
        BY <3>2
      <3>4. Sure(y)'
        BY <1>6, <3>3
      <3>5. Sure(loc[c].sha)'
        BY <3>2, <3>3, <3>4 DEF Sure, Backed
      <3>6. QED BY <1>4, <2>1, <3>1, <3>5
    <2>2. CASE u # c
      <3>1. /\ pc'[u] = pc[u] /\ loc'[u] = loc[u] /\ Armed(pc[u], loc[u])
            /\ pc[u] \in {"reread", "save"} => Sure(loc[u].sha)
        BY <1>4, <2>2 DEF FInv
      <3>2. pc[u] \in {"reread", "save"} => loc[u].sha \in Shas
        BY <3>1 DEF Armed
      <3>3. QED BY <1>6, <3>1, <3>2 DEF Sure, Backed
    <2>3. QED BY <2>1, <2>2
  <1>11. QED BY <1>7, <1>9, <1>10 DEF FInv

------------------------------------------------------------------------------
(* The sweeper *)

LEMMA AsleepType == [Asleep EXCEPT !.at = "scan"] \in Swept /\ Asleep \in Swept
  BY DEF Asleep, Swept

\* Clients and store stand still: what was named is all that is named.
LEMMA NamesStand ==
    ASSUME docs' = docs, pc' = pc, loc' = loc, sw'.at # "put",
           NEW i \in Ids, NEW x \in Shas, Names(i, x)'
    PROVE  Names(i, x)
  BY DEF Names, ReadyIn, FileIn, Carried, Keeps

LEMMA SweepStartKeeps ==
    ASSUME FInv, SweepStart
    PROVE  FInv'
  <1>1. Typed /\ Covered
    BY DEF FInv
  <1>2. /\ sw' = [Asleep EXCEPT !.at = "scan"] /\ sw.at = "idle"
        /\ docs' = docs /\ bytes' = bytes /\ tainted' = tainted
        /\ pc' = pc /\ loc' = loc
        /\ missed' = {x \in missed : \E c \in Clients :
                                       pc[c] \in {"reread", "save"} /\ loc[c].sha = x}
    BY DEF SweepStart
  <1>3. sw' \in Swept /\ sw'.at = "scan" /\ sw'.offset = 0
    BY <1>2, AsleepType DEF Asleep
  <1>4. Typed'
    BY <1>1, <1>2, <1>3 DEF Typed
  <1>5. ASSUME NEW i \in Ids, NEW x \in Shas, Names(i, x)'
        PROVE  Backed(x)' /\ Met(i, x)'
    <2>1. Backed(x)
      BY <1>1, <1>2, <1>3, <1>5, NamesStand DEF Covered
    <2>2. Rank(i)' = Rank(i)
      BY <1>2 DEF Rank, Before, Rows
    <2>3. Rank(i) >= 0
      BY RankType
    <2>4. Met(i, x)'
      BY <1>3, <2>2, <2>3 DEF Met, Ahead
    <2>5. QED BY <1>2, <2>1, <2>4 DEF Backed
  <1>6. ASSUME NEW c \in Clients, pc[c] \in {"reread", "save"}
        PROVE  Sure(loc[c].sha)'
    <2>1. Sure(loc[c].sha)
      BY <1>6 DEF FInv
    <2>2. loc[c].sha \in missed => loc[c].sha \in missed'
      BY <1>2, <1>6
    <2>3. QED BY <1>2, <2>1, <2>2 DEF Sure, Backed
  <1>7. QED BY <1>2, <1>4, <1>5, <1>6, AsideStep DEF Covered

\* A page is listed; whatever is in flight is excused from now on.
LEMMA ScanPageKeeps ==
    ASSUME FInv, ScanPage
    PROVE  FInv'
  <1>0. PICK page \in Listings(sw.offset) : List(page)
    BY DEF ScanPage
  <1> DEFINE shown == {i \in page : ~Dead(docs[i])}
             last == Cardinality(shown) < PageSize
             refs == sw.refs \cup UNION {ReadyIn(docs[i]) : i \in shown}
             stale == sw.stale \cup UNION {StaleIn(i) : i \in shown}
             cut == \/ sw.cut \/ page # PageAt(sw.offset)
                    \/ last /\ \E i \in Rows \ shown : Rank(i) >= sw.offset
             at == IF last THEN "stale" ELSE "scan"
             offset == IF last THEN 0 ELSE sw.offset + Cardinality(shown)
  <1>1. Typed /\ Covered /\ sw \in Swept /\ sw.offset \in Nat
    BY DEF FInv, Typed, Swept
  <1>2. /\ sw.at = "scan"
        /\ sw' = [sw EXCEPT !.at = at, !.offset = offset, !.refs = refs,
                            !.stale = stale, !.cut = cut]
        /\ missed' = missed \cup UNION {Carried(c) : c \in Clients}
        /\ docs' = docs /\ bytes' = bytes /\ tainted' = tainted
        /\ pc' = pc /\ loc' = loc
    BY <1>0 DEF List
  <1>3. /\ IsFiniteSet(page) /\ Cardinality(page) \in Nat
        /\ Cardinality(page) <= PageSize
        /\ shown \subseteq page /\ Cardinality(shown) \in Nat
        /\ Cardinality(shown) <= Cardinality(page)
        /\ Cardinality(shown) = Cardinality(page) => shown = page
    <2>1. IsFiniteSet(page) /\ Cardinality(page) <= PageSize
      BY <1>1, PageFits
    <2>2. shown \subseteq page
      OBVIOUS
    <2> HIDE DEF shown
    <2>3. QED BY <2>1, <2>2, FS_Subset, FS_CardinalityType
  <1>4. page = PageAt(sw.offset) =>
          \A i \in Rows : i \in page <=> Rank(i) \in sw.offset .. (sw.offset + PageSize - 1)
    BY DEF PageAt
  <1>5. \A i \in shown : ReadyIn(docs[i]) \subseteq refs
    OBVIOUS
  <1>6. refs \subseteq Shas /\ stale \subseteq Ids \X Fields
    <2>1. sw.refs \subseteq Shas /\ sw.stale \subseteq Ids \X Fields
      BY <1>1 DEF Swept
    <2>2. \A i : ReadyIn(docs[i]) \subseteq Shas
      BY DEF ReadyIn
    <2>3. \A i \in page : StaleIn(i) \subseteq Ids \X Fields
      BY <1>1, PageFits DEF StaleIn, Rows
    <2>4. \A i \in shown : StaleIn(i) \subseteq Ids \X Fields
      BY <2>3
    <2> HIDE DEF shown
    <2>5. QED BY <2>1, <2>2, <2>4
  <1>7. at \in {"scan", "stale"} /\ offset \in Nat /\ cut \in BOOLEAN
    <2>1. sw.cut \in BOOLEAN
      BY <1>1 DEF Swept
    <2>2. cut \in BOOLEAN
      BY <2>1
    <2> HIDE DEF cut, shown
    <2>3. QED BY <1>1, <1>3, <2>2
  <1>8. /\ sw' \in Swept /\ sw'.at = at /\ sw'.offset = offset /\ sw'.refs = refs
        /\ sw'.cut = cut
    <2> HIDE DEF at, offset, refs, stale, cut
    <2>1. QED BY <1>1, <1>2, <1>6, <1>7 DEF Swept
  <1>9. sw'.at # "put" /\ sw'.at # "idle"
    BY <1>7, <1>8
  <1>10. missed' \subseteq Shas
    BY <1>1, <1>2 DEF Typed, Carried, Keeps
  <1>11. Typed'
    <2> HIDE DEF at, offset, refs, stale, cut
    <2>1. QED BY <1>1, <1>2, <1>8, <1>9, <1>10 DEF Typed
  <1>12. ASSUME NEW i \in Ids, NEW x \in Shas, Names(i, x)'
         PROVE  Backed(x)' /\ Met(i, x)'
    <2>1. Names(i, x) /\ Backed(x) /\ Met(i, x)
      BY <1>1, <1>2, <1>9, <1>12, NamesStand DEF Covered
    <2>2. Backed(x)'
      BY <1>2, <2>1 DEF Backed
    <2>3. ASSUME Known(x) PROVE Known(x)'
      <3>1. refs = sw.refs \cup UNION {ReadyIn(docs[j]) : j \in shown}
        OBVIOUS
      <3>2. sw.cut => cut
        OBVIOUS
      <3> HIDE DEF refs, cut, at, offset, stale
      <3>3. QED BY <1>2, <1>8, <2>3, <3>1, <3>2 DEF Known
    <2>4. ASSUME NEW c \in Clients, x \in Carried(c) PROVE Known(x)'
      BY <1>2, <2>4 DEF Known
    <2>5. ASSUME x \in ReadyIn(docs[i]), Ahead(i) PROVE Met(i, x)'
      <3>1. i \in Rows
        BY <2>5, NothingReady DEF Rows
      <3>2. Rank(i) >= sw.offset /\ Rank(i) \in Nat
        BY <2>5, RankType DEF Ahead
      <3>3. CASE i \in shown
        <4>1. x \in sw'.refs
          BY <1>5, <1>8, <2>5, <3>3
        <4>2. QED BY <4>1 DEF Met, Known
      <3>4. CASE i \notin shown /\ last
        <4>1. cut
          BY <3>1, <3>2, <3>4
        <4>2. sw'.cut
          BY <1>8, <4>1
        <4>3. QED BY <4>2 DEF Met, Known
      <3>7. CASE page # PageAt(sw.offset)
        <4>1. cut
          BY <3>7
        <4>2. sw'.cut
          BY <1>8, <4>1
        <4>3. QED BY <4>2 DEF Met, Known
      <3>5. CASE i \notin shown /\ ~last /\ page = PageAt(sw.offset)
        <4>1. at = "scan" /\ offset = sw.offset + Cardinality(shown)
          BY <3>5
        <4>2. Cardinality(shown) >= PageSize
          BY <1>3, <3>5, PageSizeAssumption
        <4> HIDE DEF shown, at, offset, cut, refs, stale, last
        <4>3. Cardinality(shown) = PageSize /\ shown = page
          BY <1>3, <4>2, PageSizeAssumption
        <4>4. i \notin page
          BY <3>5, <4>3
        <4>5. Rank(i) >= sw.offset + PageSize
          BY <1>1, <1>4, <3>1, <3>2, <3>5, <4>4, PageSizeAssumption
        <4>6. Rank(i)' = Rank(i)
          BY <1>2 DEF Rank, Before, Rows
        <4>7. Ahead(i)'
          BY <1>8, <4>1, <4>3, <4>5, <4>6 DEF Ahead
        <4>8. QED BY <4>7 DEF Met
      <3>6. QED BY <3>3, <3>4, <3>5, <3>7
    <2>6. Met(i, x)'
      <3>1. CASE Known(x)
        BY <2>3, <3>1 DEF Met
      <3>2. CASE Ahead(i)
        <4>1. x \in ReadyIn(docs[i]) \/ \E c \in Clients : x \in Carried(c)
          BY <1>2, <2>1 DEF Names
        <4>2. QED BY <2>4, <2>5, <3>2, <4>1 DEF Met
      <3>3. QED BY <1>2, <2>1, <3>1, <3>2 DEF Met
    <2>7. QED BY <2>2, <2>6
  <1>13. ASSUME NEW c \in Clients, pc[c] \in {"reread", "save"}
         PROVE  Sure(loc[c].sha)'
    <2>1. Sure(loc[c].sha)
      BY <1>13 DEF FInv
    <2>2. QED BY <1>2, <2>1 DEF Sure, Backed
  <1>14. QED BY <1>2, <1>11, <1>12, <1>13, AsideStep DEF Covered

\* Steps of the sweeper after which the list is what it was, or counts as cut.
LEMMA ListStands ==
    ASSUME FInv, docs' = docs, bytes' = bytes, tainted' = tainted, missed' = missed,
           pc' = pc, loc' = loc, sw' \in Swept, sw'.at \notin {"put", "scan"},
           \/ sw'.at = "idle"
           \/ sw'.cut
           \/ /\ sw.at \notin {"idle", "scan"}
              /\ sw'.refs = sw.refs /\ sw'.cut = sw.cut
    PROVE  FInv'
  <1>1. Typed /\ Covered
    BY DEF FInv
  <1>2. Typed'
    BY <1>1 DEF Typed
  <1>3. ASSUME NEW i \in Ids, NEW x \in Shas, Names(i, x)'
        PROVE  Backed(x)' /\ Met(i, x)'
    <2>1. Backed(x) /\ Met(i, x)
      BY <1>1, <1>3, NamesStand DEF Covered
    <2>2. QED BY <2>1 DEF Backed, Met, Known, Ahead
  <1>4. \A c \in Clients : pc[c] \in {"reread", "save"} => Sure(loc[c].sha)'
    BY DEF FInv, Sure, Backed
  <1>5. QED BY <1>2, <1>3, <1>4, AsideStep DEF Covered

LEMMA ScanFailsKeeps ==
    ASSUME FInv, ScanFails
    PROVE  FInv'
  <1>1. sw \in Swept
    BY DEF FInv, Typed
  <1>2. /\ sw' = [sw EXCEPT !.at = "stale", !.offset = 0, !.cut = TRUE]
        /\ docs' = docs /\ bytes' = bytes /\ tainted' = tainted /\ missed' = missed
        /\ pc' = pc /\ loc' = loc
    BY DEF ScanFails
  <1>3. sw' \in Swept /\ sw'.at = "stale" /\ sw'.cut
    BY <1>1, <1>2 DEF Swept
  <1>4. QED BY <1>2, <1>3, ListStands

\* The sweeper reads a document for its own remove_field.
LEMMA StaleGetKeeps ==
    ASSUME FInv, StaleGet
    PROVE  FInv'
  <1>1. Typed /\ Covered /\ sw \in Swept /\ sw.stale \subseteq Ids \X Fields
    BY DEF FInv, Typed, Swept
  <1>2. /\ sw.at = "stale"
        /\ docs' = docs /\ bytes' = bytes /\ tainted' = tainted /\ missed' = missed
        /\ pc' = pc /\ loc' = loc
    BY DEF StaleGet
  <1>3. PICK s \in sw.stale :
          LET d == Seen(s[1]) IN
          sw' = IF FileIn(d, s[2]) = None
                  THEN [sw EXCEPT !.stale = @ \ {s}]
                  ELSE [sw EXCEPT !.at = "put", !.stale = @ \ {s},
                                  !.doc = [id |-> s[1], new |-> Without(d, s[2])]]
    BY DEF StaleGet
  <1>4. s[1] \in Ids /\ s[2] \in Fields
    BY <1>1
  <1> DEFINE i == s[1]
             f == s[2]
             d == Seen(i)
             n == Without(d, f)
             rest == sw.stale \ {s}
             h == [id |-> i, new |-> n]
  <1>5. rest \subseteq Ids \X Fields
    BY <1>1
  <1>6. CASE sw' = [sw EXCEPT !.stale = rest]
    <2> HIDE DEF rest
    <2>1. sw' \in Swept /\ sw'.at = sw.at /\ sw'.refs = sw.refs /\ sw'.cut = sw.cut
      BY <1>1, <1>5, <1>6 DEF Swept
    <2>2. sw'.at \notin {"put", "scan"} /\ sw.at \notin {"idle", "scan"}
      BY <1>2, <2>1
    <2>3. QED BY <1>2, <2>1, <2>2, ListStands
  <1>7. CASE /\ FileIn(d, f) # None
             /\ sw' = [sw EXCEPT !.at = "put", !.stale = rest, !.doc = h]
    <2>1. d \in Document /\ d = docs[i]
      <3>1. d # None
        BY <1>7 DEF FileIn
      <3>2. QED BY <1>1, <1>4, <3>1, SeenIsThere DEF Held
    <2>2. n \in Held /\ ReadyIn(n) \subseteq ReadyIn(docs[i])
      <3>1. n \in Held /\ ReadyIn(n) \subseteq Keeps(d, f)
        <4> HIDE DEF d
        <4>1. QED BY <1>4, <2>1, WithoutMeaning
      <3>2. Keeps(d, f) \subseteq ReadyIn(d)
        BY <2>1, KeepsAreReady DEF Held
      <3>3. QED BY <2>1, <3>1, <3>2
    <2> HIDE DEF n
    <2>3. h \in [id : Ids, new : Held] /\ h.id = i /\ h.new = n
      BY <1>4, <2>2
    <2> HIDE DEF h, rest
    <2>4. /\ sw' \in Swept /\ sw'.at = "put" /\ sw'.doc = h
          /\ sw'.refs = sw.refs /\ sw'.cut = sw.cut
      BY <1>1, <1>5, <1>7, <2>3 DEF Swept
    <2>5. Typed'
      BY <1>1, <1>2, <2>3, <2>4 DEF Typed
    <2>6. ASSUME NEW j \in Ids, NEW x \in Shas, Names(j, x)' PROVE Names(j, x)
      <3>1. CASE j = i /\ x \in ReadyIn(n)
        BY <2>2, <3>1 DEF Names
      <3>2. CASE ~(j = i /\ x \in ReadyIn(n))
        <4>1. ~(sw'.doc.id = j /\ x \in ReadyIn(sw'.doc.new))
          BY <2>3, <2>4, <3>2
        <4>2. x \in ReadyIn(docs[j])' <=> x \in ReadyIn(docs[j])
          BY <1>2 DEF ReadyIn, FileIn
        <4>3. \A c \in Clients : Carried(c)' = Carried(c)
          BY <1>2 DEF Carried, Keeps, FileIn
        <4>4. QED BY <1>2, <2>6, <4>1, <4>2, <4>3 DEF Names, ReadyIn, FileIn
      <3>3. QED BY <3>1, <3>2
    <2>7. ASSUME NEW j \in Ids, NEW x \in Shas, Names(j, x)'
          PROVE  Backed(x)' /\ Met(j, x)'
      <3>1. Backed(x) /\ Met(j, x)
        BY <1>1, <2>6, <2>7 DEF Covered
      <3>2. Known(x)
        BY <1>2, <3>1 DEF Met, Ahead
      <3>3. QED BY <1>2, <2>4, <3>1, <3>2 DEF Backed, Met, Known
    <2>8. \A c \in Clients : pc[c] \in {"reread", "save"} => Sure(loc[c].sha)'
      BY <1>2 DEF FInv, Sure, Backed
    <2>9. QED BY <1>2, <2>5, <2>7, <2>8, AsideStep DEF Covered
  <1>8. QED BY <1>3, <1>6, <1>7

\* The sweeper stores what is left, over whatever the field holds by now.
LEMMA StalePutKeeps ==
    ASSUME FInv, StalePut
    PROVE  FInv'
  <1> DEFINE i == sw.doc.id
             d == sw.doc.new
  <1>1. /\ Typed /\ Covered /\ sw \in Swept /\ sw.at = "put"
        /\ sw.doc \in [id : Ids, new : Held]
    BY DEF FInv, Typed, StalePut
  <1>2. i \in Ids /\ d \in Held
    BY <1>1
  <1>3. /\ sw' = [sw EXCEPT !.at = "stale", !.doc = None]
        /\ docs' = [docs EXCEPT ![i] = d]
        /\ bytes' = bytes /\ tainted' = tainted /\ missed' = missed
        /\ pc' = pc /\ loc' = loc
    BY DEF StalePut
  <1>4. /\ sw' \in Swept /\ sw'.at = "stale" /\ sw'.offset = sw.offset
        /\ sw'.refs = sw.refs /\ sw'.cut = sw.cut
    BY <1>1, <1>3 DEF Swept
  <1>5. \A x \in ReadyIn(d) : Backed(x) /\ Met(i, x)
    <2>1. ASSUME NEW x \in ReadyIn(d) PROVE Backed(x) /\ Met(i, x)
      <3>1. x \in Shas /\ Names(i, x)
        BY <1>1, <2>1 DEF ReadyIn, Names
      <3>2. QED BY <1>1, <1>2, <3>1 DEF Covered
    <2>2. QED BY <2>1
  <1>6. \A c \in Clients : Carried(c)' = Carried(c) /\ loc'[c].id = loc[c].id
    BY <1>3 DEF Carried, Keeps, FileIn
  <1>7. sw.cut \/ Shifts(i, d) => sw'.cut
    BY <1>1, <1>4 DEF Shifts
  <1> HIDE DEF i, d
  <1>8. docs' \in [Ids -> Held] /\ Covered'
    BY <1>1, <1>2, <1>3, <1>4, <1>5, <1>6, <1>7, DocumentKeeps
  <1>9. Typed'
    BY <1>1, <1>3, <1>4, <1>8 DEF Typed
  <1>10. \A c \in Clients : pc[c] \in {"reread", "save"} => Sure(loc[c].sha)'
    BY <1>3 DEF FInv, Sure, Backed
  <1>11. QED BY <1>3, <1>8, <1>9, <1>10, AsideStep

\* From the stale markers to the orphans, and the end of the pass.
LEMMA PassGoesOn ==
    ASSUME FInv, StaleDone \/ SweepEnd
    PROVE  FInv'
  <1>1. sw \in Swept
    BY DEF FInv, Typed
  <1>2. /\ docs' = docs /\ bytes' = bytes /\ tainted' = tainted /\ missed' = missed
        /\ pc' = pc /\ loc' = loc
    BY DEF StaleDone, SweepEnd
  <1>3. CASE StaleDone
    <2>1. sw.at = "stale" /\ sw' = [sw EXCEPT !.at = "orphans", !.todo = Shas]
      BY <1>3 DEF StaleDone
    <2>2. /\ sw' \in Swept /\ sw'.at = "orphans"
          /\ sw'.refs = sw.refs /\ sw'.cut = sw.cut
      BY <1>1, <2>1 DEF Swept
    <2>3. QED BY <1>2, <2>1, <2>2, ListStands
  <1>4. CASE SweepEnd
    <2>1. sw' \in Swept /\ sw'.at = "idle"
      BY <1>4, AsleepType DEF SweepEnd, Asleep
    <2>2. QED BY <1>2, <2>1, ListStands
  <1>5. QED BY <1>3, <1>4

\* Bytes are reaped: whoever names them is excused by a cut list or by missed.
LEMMA OrphanKeeps ==
    ASSUME FInv, NEW x \in Shas, Orphan(x)
    PROVE  FInv'
  <1>1. Typed /\ Covered /\ sw \in Swept
    BY DEF FInv, Typed
  <1>2. /\ sw.at = "orphans" /\ sw' = [sw EXCEPT !.todo = @ \ {x}]
        /\ docs' = docs /\ missed' = missed /\ pc' = pc /\ loc' = loc
    BY DEF Orphan
  <1>3. /\ sw' \in Swept /\ sw'.at = "orphans"
        /\ sw'.refs = sw.refs /\ sw'.cut = sw.cut
    BY <1>1, <1>2 DEF Swept
  <1>4. CASE bytes' = bytes /\ tainted' = tainted
    BY <1>2, <1>3, <1>4, ListStands
  <1>5. CASE /\ Reaps(x) /\ bytes' = [bytes EXCEPT ![x] = "none"]
             /\ tainted' = IF sw.cut \/ x \in missed THEN tainted \cup {x} ELSE tainted
    <2>1. /\ bytes' \in [Shas -> {"none", "fresh", "old"}] /\ bytes'[x] = "none"
          /\ \A y \in Shas \ {x} : bytes'[y] = bytes[y]
          /\ tainted \subseteq tainted' /\ tainted' \subseteq Shas
      BY <1>1, <1>5 DEF Typed
    <2>2. x \notin sw.refs /\ bytes[x] = "old"
      BY <1>5 DEF Reaps
    <2>3. sw.cut \/ x \in missed => x \in tainted'
      BY <1>5
    <2>4. Typed'
      BY <1>1, <1>2, <1>3, <2>1 DEF Typed
    <2>5. ASSUME NEW i \in Ids, NEW y \in Shas, Names(i, y)'
          PROVE  Backed(y)' /\ Met(i, y)'
      <3>1. Backed(y) /\ Met(i, y)
        BY <1>1, <1>2, <1>3, <2>5, NamesStand DEF Covered
      <3>2. Known(y)
        BY <1>2, <3>1 DEF Met, Ahead
      <3>3. CASE y = x
        BY <2>1, <2>2, <2>3, <3>2, <3>3 DEF Known, Backed, Met
      <3>4. CASE y # x
        BY <1>2, <1>3, <2>1, <3>1, <3>2, <3>4 DEF Known, Backed, Met
      <3>5. QED BY <3>3, <3>4
    <2>6. ASSUME NEW c \in Clients, pc[c] \in {"reread", "save"}
          PROVE  Sure(loc[c].sha)'
      <3>1. Sure(loc[c].sha) /\ loc[c].sha \in Shas
        BY <2>6 DEF FInv, Armed
      <3>2. CASE loc[c].sha = x
        BY <1>2, <2>2, <2>3, <3>1, <3>2 DEF Sure, Backed
      <3>3. CASE loc[c].sha # x
        BY <1>2, <2>1, <3>1, <3>3 DEF Sure, Backed
      <3>4. QED BY <3>2, <3>3
    <2>7. QED BY <1>2, <2>4, <2>5, <2>6, AsideStep DEF Covered
  <1>6. QED BY <1>4, <1>5 DEF Orphan

------------------------------------------------------------------------------
(* Time, TTLs, crashes *)

\* Ten minutes or an hour: nobody is at work, and what is ready stays ready.
LEMMA PassKeeps ==
    ASSUME FInv, NEW hour \in BOOLEAN, Pass(hour)
    PROVE  FInv'
  <1>1. Typed /\ Covered
    BY DEF FInv
  <1>2. /\ sw.at = "idle" /\ \A c \in Clients : pc[c] \in {"idle", "read"}
        /\ bytes' = [x \in Shas |-> IF bytes[x] = "fresh" THEN "old" ELSE bytes[x]]
        /\ docs' = IF hour THEN [i \in Ids |-> Older(docs[i])] ELSE docs
        /\ tainted' = tainted /\ missed' = missed /\ sw' = sw
        /\ pc' = pc /\ loc' = loc
    BY DEF Pass, Prompt
  <1>3. /\ bytes' \in [Shas -> {"none", "fresh", "old"}]
        /\ \A x \in Shas : bytes'[x] = "none" <=> bytes[x] = "none"
    BY <1>1, <1>2 DEF Typed
  <1>4. /\ docs' \in [Ids -> Held]
        /\ \A i \in Ids : ReadyIn(docs[i])' = ReadyIn(docs[i])
    <2>1. CASE hour
      <3>1. \A i \in Ids : docs'[i] = Older(docs[i]) /\ docs[i] \in Held
        BY <1>1, <1>2, <2>1 DEF Typed
      <3>2. \A i \in Ids : /\ Older(docs[i]) \in Held
                           /\ ReadyIn(Older(docs[i])) = ReadyIn(docs[i])
        BY <3>1, OlderMeaning
      <3>3. docs' \in [Ids -> Held]
        BY <1>2, <2>1, <3>2
      <3>4. \A i \in Ids : ReadyIn(docs[i])' = ReadyIn(Older(docs[i]))
        BY <3>1 DEF ReadyIn, FileIn
      <3>5. QED BY <3>2, <3>3, <3>4
    <2>2. CASE ~hour
      BY <1>1, <1>2, <2>2 DEF Typed, ReadyIn, FileIn
    <2>3. QED BY <2>1, <2>2
  <1>5. Typed'
    BY <1>1, <1>2, <1>3, <1>4 DEF Typed
  <1>6. ASSUME NEW i \in Ids, NEW x \in Shas, Names(i, x)'
        PROVE  Backed(x)' /\ Met(i, x)'
    <2>1. x \in ReadyIn(docs[i])
      BY <1>2, <1>4, <1>6 DEF Names, Carried
    <2>2. Backed(x)
      BY <1>1, <2>1 DEF Covered, Names
    <2>3. QED BY <1>2, <1>3, <2>2 DEF Backed, Met
  <1>7. \A c \in Clients : pc[c] \in {"reread", "save"} => Sure(loc[c].sha)'
    BY <1>2
  <1>8. QED BY <1>2, <1>5, <1>6, <1>7, AsideStep DEF Covered

LEMMA GiveTTLKeeps ==
    ASSUME FInv, NEW i \in Ids, GiveTTL(i)
    PROVE  FInv'
  <1> DEFINE d == [docs[i] EXCEPT !.mortal = TRUE]
  <1>1. Typed /\ Covered /\ docs \in [Ids -> Held] /\ docs[i] \in Document
    BY DEF FInv, Typed, Held, GiveTTL
  <1>2. /\ docs' = [docs EXCEPT ![i] = d] /\ sw' = sw
        /\ bytes' = bytes /\ tainted' = tainted /\ missed' = missed
        /\ pc' = pc /\ loc' = loc
    BY <1>1 DEF GiveTTL
  <1>3. d \in Document /\ ReadyIn(d) = ReadyIn(docs[i])
    BY <1>1, MortalMeaning
  <1> HIDE DEF d
  <1>4. d \in Held /\ d # None
    BY <1>3, NoneAssumption DEF Held
  <1>5. \A x \in ReadyIn(d) : Backed(x) /\ Met(i, x)
    BY <1>1, <1>3 DEF Covered, Names, ReadyIn
  <1>6. \A c \in Clients : Carried(c)' = Carried(c) /\ loc'[c].id = loc[c].id
    BY <1>2 DEF Carried, Keeps, FileIn
  <1>7. sw.cut \/ Shifts(i, d) => sw'.cut
    BY <1>2, <1>4 DEF Shifts
  <1>8. docs' \in [Ids -> Held] /\ Covered'
    BY <1>2, <1>4, <1>5, <1>6, <1>7, DocumentKeeps
  <1>9. Typed'
    BY <1>1, <1>2, <1>8 DEF Typed
  <1>10. \A c \in Clients : pc[c] \in {"reread", "save"} => Sure(loc[c].sha)'
    BY <1>2 DEF FInv, Sure, Backed
  <1>11. QED BY <1>2, <1>8, <1>9, <1>10, AsideStep

LEMMA BuryKeeps ==
    ASSUME FInv, NEW i \in Ids, Bury(i)
    PROVE  FInv'
  <1>1. Typed /\ Covered /\ sw \in Swept
    BY DEF FInv, Typed
  <1>2. /\ docs' = [docs EXCEPT ![i] = None]
        /\ sw' = [sw EXCEPT !.cut = @ \/ Shifts(i, None)]
        /\ bytes' = bytes /\ tainted' = tainted /\ missed' = missed
        /\ pc' = pc /\ loc' = loc
    BY DEF Bury
  <1>3. /\ sw' \in Swept /\ sw'.at = sw.at /\ sw'.doc = sw.doc
        /\ sw'.offset = sw.offset /\ sw'.refs = sw.refs
        /\ sw.cut \/ Shifts(i, None) => sw'.cut
    <2>1. (sw.cut \/ Shifts(i, None)) \in BOOLEAN
      OBVIOUS
    <2>2. QED BY <1>1, <1>2, <2>1 DEF Swept
  <1>4. None \in Held /\ \A x \in ReadyIn(None) : Backed(x) /\ Met(i, x)
    BY NothingReady DEF Held
  <1>5. \A c \in Clients : Carried(c)' = Carried(c) /\ loc'[c].id = loc[c].id
    BY <1>2 DEF Carried, Keeps, FileIn
  <1>6. docs' \in [Ids -> Held] /\ Covered'
    BY <1>2, <1>3, <1>4, <1>5, DocumentKeeps
  <1>7. Typed'
    BY <1>1, <1>2, <1>3, <1>6 DEF Typed
  <1>8. \A c \in Clients : pc[c] \in {"reread", "save"} => Sure(loc[c].sha)'
    BY <1>2 DEF FInv, Sure, Backed
  <1>9. QED BY <1>2, <1>6, <1>7, <1>8, AsideStep

\* All that was in flight is gone; documents and bytes are what they were.
LEMMA CrashKeeps ==
    ASSUME FInv, Crash
    PROVE  FInv'
  <1>1. Typed /\ Covered
    BY DEF FInv
  <1>2. /\ docs' = docs /\ bytes' = bytes /\ tainted' = tainted /\ missed' = missed
        /\ pc' = [c \in Clients |-> "idle"] /\ loc' = [c \in Clients |-> Idle]
        /\ sw' = Asleep
    BY DEF Crash
  <1>3. sw' \in Swept /\ sw'.at = "idle"
    BY <1>2, AsleepType DEF Asleep
  <1>4. pc' \in [Clients -> Steps] /\ loc' \in [Clients -> Locals]
    BY <1>2, IdleType DEF Steps
  <1>5. Typed'
    BY <1>1, <1>2, <1>3, <1>4 DEF Typed
  <1>6. ASSUME NEW i \in Ids, NEW x \in Shas, Names(i, x)'
        PROVE  Backed(x)' /\ Met(i, x)'
    <2>1. x \in ReadyIn(docs[i])
      BY <1>2, <1>3, <1>6 DEF Names, Carried, ReadyIn, FileIn
    <2>2. Backed(x)
      BY <1>1, <2>1 DEF Covered, Names
    <2>3. QED BY <1>2, <1>3, <2>2 DEF Backed, Met
  <1>7. ASSUME NEW c \in Clients
        PROVE  Armed(pc'[c], loc'[c]) /\ pc'[c] = "idle"
    BY <1>2 DEF Armed
  <1>8. QED BY <1>5, <1>6, <1>7 DEF FInv, Covered

------------------------------------------------------------------------------
(* The invariant *)

LEMMA FInvInit == Init => FInv
  <1>1. SUFFICES ASSUME Init PROVE FInv
    OBVIOUS
  <1>2. /\ docs = [i \in Ids |-> None] /\ bytes = [x \in Shas |-> "none"]
        /\ pc = [c \in Clients |-> "idle"] /\ loc = [c \in Clients |-> Idle]
        /\ sw = Asleep /\ missed = {} /\ tainted = {}
    BY <1>1, Zenon DEF Init
  <1>3. Typed
    <2>1. pc \in [Clients -> Steps] /\ loc \in [Clients -> Locals]
      BY <1>2, IdleType DEF Steps
    <2>2. sw \in Swept /\ sw.at = "idle"
      BY <1>2, AsleepType DEF Asleep
    <2>3. QED BY <1>2, <2>1, <2>2 DEF Typed, Held
  <1>4. \A i \in Ids, x \in Shas : ~Names(i, x)
    BY <1>2, NothingReady DEF Names, Carried, Asleep
  <1>5. QED BY <1>2, <1>3, <1>4 DEF FInv, Covered, Armed

LEMMA FInvStep == FInv /\ [Next]_vars => FInv'
  <1>1. SUFFICES ASSUME FInv, [Next]_vars PROVE FInv'
    OBVIOUS
  <1>2. ASSUME NEW c \in Clients, NEW i \in Ids, NEW f \in Fields, NEW x \in Shas,
               Upload(c, i, f, x)
        PROVE  FInv'
    BY <1>1, <1>2, UploadKeeps
  <1>3. ASSUME NEW c \in Clients, NEW i \in Ids, NEW f \in Fields,
               RemoveFile(c, i, f)
        PROVE  FInv'
    BY <1>1, <1>3, RemoveFileKeeps
  <1>4. ASSUME NEW c \in Clients, Truncated(c) \/ Read(c) \/ Step(c) PROVE FInv'
    <2>1. CASE Read(c) \/ Reread(c)
      BY <1>1, <2>1, CopyKeeps DEF Read, Reread
    <2>2. CASE Pending(c)
      BY <1>1, <2>2, PendingKeeps
    <2>3. CASE Found(c) \/ NotFound(c) \/ RenameFails(c) \/ PromoteFails(c)
      BY <1>1, <2>3, PromoteKeeps
    <2>9. CASE Truncated(c)
      BY <1>1, <2>9, LeaveKeeps DEF Truncated
    <2>4. CASE Rename(c)
      BY <1>1, <2>4, RenameKeeps
    <2>5. CASE Save(c)
      BY <1>1, <2>5, SaveKeeps
    <2>6. CASE Get(c)
      BY <1>1, <2>6, GetKeeps
    <2>7. CASE Put(c)
      BY <1>1, <2>7, PutKeeps
    <2>8. QED BY <1>4, <2>1, <2>2, <2>3, <2>4, <2>5, <2>6, <2>7, <2>9 DEF Step
  <1>5. CASE Sweep
    <2>1. CASE SweepStart
      BY <1>1, <2>1, SweepStartKeeps
    <2>2. CASE ScanPage
      BY <1>1, <2>2, ScanPageKeeps
    <2>3. CASE ScanFails
      BY <1>1, <2>3, ScanFailsKeeps
    <2>4. CASE StaleGet
      BY <1>1, <2>4, StaleGetKeeps
    <2>5. CASE StalePut
      BY <1>1, <2>5, StalePutKeeps
    <2>6. CASE StaleDone \/ SweepEnd
      BY <1>1, <2>6, PassGoesOn
    <2>7. ASSUME NEW x \in Shas, Orphan(x) PROVE FInv'
      BY <1>1, <2>7, OrphanKeeps
    <2>8. QED BY <1>5, <2>1, <2>2, <2>3, <2>4, <2>5, <2>6, <2>7 DEF Sweep
  <1>6. CASE TenMinutes \/ Hour
    BY <1>1, <1>6, PassKeeps DEF TenMinutes, Hour
  <1>7. ASSUME NEW i \in Ids, GiveTTL(i) PROVE FInv'
    BY <1>1, <1>7, GiveTTLKeeps
  <1>8. ASSUME NEW i \in Ids, Bury(i) PROVE FInv'
    BY <1>1, <1>8, BuryKeeps
  <1>9. CASE Crash
    BY <1>1, <1>9, CrashKeeps
  <1>10. CASE Expire \/ UNCHANGED vars
    <2>1. /\ docs' = docs /\ bytes' = bytes /\ tainted' = tainted /\ missed' = missed
          /\ pc' = pc /\ loc' = loc /\ sw' = sw
      BY <1>10 DEF Expire, vars
    <2>2. Typed'
      BY <1>1, <2>1 DEF FInv, Typed
    <2>3. Covered'
      <3>1. \A i \in Ids, x \in Shas : Names(i, x)' => Names(i, x)
        BY <2>1 DEF Names, ReadyIn, FileIn, Carried, Keeps
      <3>2. QED BY <1>1, <2>1, <3>1, CalmMet DEF FInv, Covered
    <2>4. \A c \in Clients : pc[c] \in {"reread", "save"} => Sure(loc[c].sha)'
      BY <1>1, <2>1 DEF FInv, Sure, Backed
    <2>5. QED BY <1>1, <2>1, <2>2, <2>3, <2>4, AsideStep
  <1>11. QED BY <1>1, <1>2, <1>3, <1>4, <1>5, <1>6, <1>7, <1>8, <1>9, <1>10 DEF Next

\* files.rs: the sweeper reaps bytes that no document refers to.  A hash that a
\* document calls ready has its bytes, whatever uploads, removals, sweeps, TTLs,
\* failures and crashes interleave, and in whatever order the database lists, but for
\* the cases ReadyHasBytes excuses: a pass whose lists failed, were cut short or were
\* not pages of one order, bytes that were old when an upload found or renamed them,
\* and a copy of a document that was in flight under the scan.
THEOREM ReadyKeepsBytes == Spec => []ReadyHasBytes
  <1>1. FInv => ReadyHasBytes
    <2>1. SUFFICES ASSUME FInv, NEW i \in Ids, NEW x \in ReadyIn(docs[i])
                   PROVE  bytes[x] # "none" \/ x \in tainted
      BY DEF ReadyHasBytes, Ready
    <2>2. x \in Shas /\ Names(i, x)
      BY DEF ReadyIn, Names
    <2>3. QED BY <2>1, <2>2 DEF FInv, Covered, Backed
  <1>2. QED BY <1>1, FInvInit, FInvStep, PTL DEF Spec

-----------------------------------------------------------------------------
(* What a download sends: the ranges, then the links *)

Bound == Nat \cup {Absent}
Header == {Absent} \cup [from : Bound, to : Bound]

\* What a header asks for, by the bounds it has.
LEMMA RangeIsWhatWasAsked ==
    ASSUME NEW size \in Nat, NEW h \in Header
    PROVE  D!SendsWhatItPromises(size, h)
<1> DEFINE r == D!Ranged(h, size)
           asked == {n \in 0..(size - 1) :
                       IF h.from = Absent THEN h.to # Absent /\ n >= size - h.to
                       ELSE n >= h.from /\ (h.to = Absent \/ n <= h.to)}
<1> SUFFICES ASSUME size > 0
             PROVE  /\ r.status # 416 => r.start + r.len <= size
                    /\ h \in {Absent, D!Malformed} => r = D!Whole(size)
                    /\ h \notin {Absent, D!Malformed} /\ (h.from = Absent \/ h.to # Absent)
                         => /\ r.status = 206 => asked = r.start..(r.start + r.len - 1)
                            /\ r.status = 416 => asked = {}
                            /\ asked = {} <=> r.status # 206
  BY DEF D!SendsWhatItPromises
<1>1. D!Whole(size) = [status |-> 200, start |-> 0, len |-> size]
  BY DEF D!Whole, D!Pred
<1>2. CASE h = Absent
  <2>1. r = D!Whole(size)
    BY <1>2 DEF D!Ranged
  <2> QED BY <1>1, <1>2, <2>1
<1>3. CASE h # Absent /\ h.from = Absent
  <2>1. h \in [from : Bound, to : Bound] /\ h.to \in Bound
    BY <1>3 DEF Header
  <2>2. CASE h.to = Absent
    <3>1. h = D!Malformed
      BY <1>3, <2>1, <2>2 DEF D!Malformed
    <3>2. r = D!Whole(size)
      BY <1>3, <2>2 DEF D!Ranged, D!ParseRange
    <3> QED BY <1>1, <3>1, <3>2
  <2>3. CASE h.to = 0
    <3>1. r = D!Whole(size) /\ asked = {}
      BY <1>3, <2>3, AbsentAssumption DEF D!Ranged, D!ParseRange
    <3> QED BY <1>1, <3>1
  <2>4. CASE h.to \in Nat \ {0}
    <3> DEFINE m == D!Least(h.to, size)
    <3>1. m \in Nat /\ m <= size /\ m > 0 /\ (m = size \/ m = h.to) /\ m <= h.to
      BY <2>4 DEF D!Least
    <3>2. h.to # Absent /\ h # D!Malformed
      BY <2>4, AbsentAssumption DEF D!Malformed
    <3>3. r = [status |-> 206, start |-> size - m, len |-> m]
      <4>1. D!ParseRange(h, size) = <<size - m, size - 1>>
        BY <1>3, <2>4, <3>2 DEF D!ParseRange
      <4> HIDE DEF m
      <4>2. <<size - m, size - 1>> # Absent
        <5>1. <<size - m, size - 1>> \in Int \X Int
          BY <3>1
        <5> QED BY <5>1, AbsentAssumption
      <4> QED BY <1>3, <3>1, <4>1, <4>2 DEF D!Ranged
    <3>4. asked = size - m..size - 1
      BY <1>3, <2>4, <3>1, <3>2
    <3>5. size - m \in asked /\ asked # {}
      BY <3>1, <3>4
    <3>6. /\ r.status = 206 /\ r.start = size - m /\ r.len = m
          /\ r.start + r.len - 1 = size - 1 /\ r.start + r.len <= size
      BY <3>1, <3>3
    <3>7. h \notin {Absent, D!Malformed}
      BY <1>3, <3>2
    <3> HIDE DEF m, asked, r
    <3> QED BY <3>4, <3>5, <3>6, <3>7
  <2> QED BY <2>1, <2>2, <2>3, <2>4 DEF Bound
<1>4. CASE h # Absent /\ h.from # Absent
  <2>1. h \in [from : Bound, to : Bound] /\ h.from \in Nat /\ h.to \in Bound
    BY <1>4 DEF Header, Bound
  <2>2. h \notin {Absent, D!Malformed}
    BY <1>4 DEF D!Malformed
  <2> DEFINE last == IF h.to = Absent THEN size - 1 ELSE h.to
  <2>3. last \in Nat /\ D!Pred(size) = size - 1
    BY <2>1 DEF Bound, D!Pred
  <2>4. asked = {n \in 0..(size - 1) : n >= h.from /\ n <= last}
    BY <1>4, <2>1 DEF Bound
  <2>5. CASE last < h.from
    <3>1. D!ParseRange(h, size) = Absent
      BY <1>4, <2>3, <2>5 DEF D!ParseRange
    <3>2. r = D!Whole(size)
      BY <1>4, <3>1 DEF D!Ranged
    <3>3. asked = {}
      BY <2>1, <2>3, <2>4, <2>5
    <3> HIDE DEF r, asked
    <3> QED BY <1>1, <2>2, <3>2, <3>3
  <2>6. CASE h.from <= last
    <3> DEFINE end == D!Least(last, size - 1)
    <3>1. end \in Nat /\ end <= size - 1 /\ end <= last /\ (end = last \/ end = size - 1)
      BY <2>3 DEF D!Least
    <3>2. D!ParseRange(h, size) = <<h.from, end>>
      BY <1>4, <2>1, <2>3, <2>6 DEF D!ParseRange
    <3>3. <<h.from, end>> # Absent
      <4>1. <<h.from, end>> \in Int \X Int
        BY <2>1, <3>1
      <4> QED BY <4>1, AbsentAssumption
    <3> HIDE DEF end
    <3>4. CASE h.from >= size
      <4>1. r.status = 416
        BY <1>4, <3>2, <3>3, <3>4 DEF D!Ranged
      <4>2. asked = {}
        BY <2>1, <2>4, <3>4
      <4> HIDE DEF r, asked
      <4> QED BY <2>2, <4>1, <4>2
    <3>5. CASE h.from < size
      <4>1. r = [status |-> 206, start |-> h.from, len |-> end - h.from + 1]
        BY <1>4, <2>1, <3>2, <3>3, <3>5 DEF D!Ranged
      <4>2. asked = h.from..end /\ h.from \in asked
        BY <2>1, <2>3, <2>4, <2>6, <3>1, <3>5
      <4>3. /\ r.status = 206 /\ r.start + r.len <= size
            /\ r.start..(r.start + r.len - 1) = h.from..end
        BY <2>1, <3>1, <4>1
      <4> HIDE DEF r, asked
      <4> QED BY <2>2, <4>2, <4>3
    <3> QED BY <2>1, <3>4, <3>5
  <2> QED BY <2>1, <2>3, <2>5, <2>6
<1> QED BY <1>2, <1>3, <1>4

\* files.rs parse_range and the answers it leads to: whatever the size of a file and
\* whichever bytes a header asks for, what is announced is there and is what was asked for.
THEOREM RangesSendWhatTheyPromise ==
    ASSUME NEW size \in Nat, NEW h \in Header, input = <<"range", size, h>>
    PROVE  SendsWhatItPromises
<1>1. input[2] = size /\ input[3] = h
  OBVIOUS
<1> QED BY <1>1, RangeIsWhatWasAsked DEF SendsWhatItPromises

-----------------------------------------------------------------------------
(* Links *)

LEMMA PairOfSegments ==
    ASSUME NEW S, NEW a \in S, NEW b \in S
    PROVE  <<a>> \o <<b>> \o <<>> = <<a, b>>
<1> DEFINE one == <<a>>
           two == <<b>>
<1>1. one \in Seq(S) /\ two \in Seq(S) /\ <<>> \in Seq(S)
  OBVIOUS
<1>2. Len(one) = 1 /\ one[1] = a /\ Len(two) = 1 /\ two[1] = b
  OBVIOUS
<1> HIDE DEF one, two
<1> DEFINE both == one \o two
<1>3. /\ both \in Seq(S) /\ Len(both) = 2
      /\ \A i \in 1..2 : both[i] = IF i <= 1 THEN one[i] ELSE two[i - 1]
  BY <1>1, <1>2, ConcatProperties
<1>4. both \o <<>> = both
  BY <1>3, ConcatEmptySeq
<1> HIDE DEF both
<1>5. both = <<a, b>>
  <2>1. both[1] = a /\ both[2] = b
    BY <1>2, <1>3
  <2>2. <<a, b>> \in Seq(S) /\ Len(<<a, b>>) = 2
    OBVIOUS
  <2>3. \A i \in 1..2 : both[i] = <<a, b>>[i]
    BY <2>1
  <2> QED BY <1>3, <2>2, <2>3, SeqEqual
<1> QED BY <1>4, <1>5 DEF both, one, two

\* A link's path, but for a default field of a nested collection, names the file again.
LEMMA LinkNamesItsFile ==
    ASSUME NEW Segments, NEW path \in Seq(Segments), NEW t, t = D!ParseTarget(path),
           t # Absent, t.id # Absent,
           ~(t.field = "file" /\ Len(t.collection) > 1)
    PROVE  D!ParseTarget(t.collection \o <<t.id>> \o D!FieldSuffix(t.field)) = t
<1> DEFINE again == t.collection \o <<t.id>> \o D!FieldSuffix(t.field)
<1>1. /\ path # <<>> /\ t = D!Split(path)
      /\ D!Valid(t.collection) /\ t.collection[1] \notin Reserved
      /\ D!Valid(<<t.field>>) /\ t.id \notin BadIds
  BY DEF D!ParseTarget
<1>2. Len(path) \in Nat /\ Len(path) # 0
  BY <1>1
<1>3. CASE Len(path) = 1
  BY <1>1, <1>3 DEF D!Split
<1>4. CASE Len(path) = 2
  <2>1. t = [collection |-> <<path[1]>>, id |-> path[2], field |-> "file"]
    BY <1>1, <1>4 DEF D!Split
  <2>2. again = <<path[1]>> \o <<path[2]>> \o <<>>
    BY <2>1 DEF D!FieldSuffix
  <2>3. path = <<path[1], path[2]>>
    BY <1>4
  <2>4. again = path
    <3>1. path[1] \in Segments /\ path[2] \in Segments
      BY <1>4
    <3> QED BY <2>2, <2>3, <3>1, PairOfSegments
  <2> QED BY <2>4
<1>5. CASE Len(path) > 2
  <2> DEFINE k == Len(path)
             coll == SubSeq(path, 1, k - 2)
  <2>1. t = [collection |-> coll, id |-> path[k - 1], field |-> path[k]]
    BY <1>1, <1>5 DEF D!Split
  <2>2. /\ coll \in Seq(Segments) /\ Len(coll) = k - 2
        /\ \A i \in 1..k - 2 : coll[i] = path[i]
    BY <1>2, <1>5
  <2> HIDE DEF coll
  <2>3. CASE t.field # "file"
    <3>1. again = coll \o <<path[k - 1]>> \o <<path[k]>>
      BY <2>1, <2>3 DEF D!FieldSuffix
    <3>2. coll \o <<path[k - 1]>> \o <<path[k]>> = path
      BY <2>2, <1>2, <1>5
    <3> QED BY <3>1, <3>2
  <2>4. CASE t.field = "file"
    <3>1. Len(coll) = 1 /\ k = 3
      BY <2>1, <2>2, <2>4, <1>2, <1>5
    <3>2. coll = <<path[1]>>
      BY <2>2, <3>1
    <3>3. again = <<path[1]>> \o <<path[2]>> \o <<>>
      BY <2>1, <2>4, <3>1, <3>2 DEF D!FieldSuffix
    <3>4. again = <<path[1], path[2]>>
      <4>1. path[1] \in Segments /\ path[2] \in Segments
        BY <3>1
      <4> QED BY <3>3, <4>1, PairOfSegments
    <3> HIDE DEF again
    <3>5. D!Split(again) = [collection |-> <<path[1]>>, id |-> path[2], field |-> "file"]
      BY <3>4 DEF D!Split
    <3>6. D!Split(again) = t
      BY <3>1, <3>2, <3>5, <2>1, <2>4
    <3>7. again # <<>>
      BY <3>4
    <3>8. D!ParseTarget(again) = t
      BY <3>6, <3>7, <1>1 DEF D!ParseTarget
    <3> QED BY <3>8 DEF again
  <2> QED BY <2>3, <2>4
<1> QED BY <1>2, <1>3, <1>4, <1>5

LEMMA TargetIsOfSegments ==
    ASSUME NEW Segments, NEW path \in Seq(Segments),
           D!ParseTarget(path) # Absent
    PROVE  D!ParseTarget(path).collection \in Seq(Segments)
<1>1. path # <<>> /\ D!ParseTarget(path) = D!Split(path)
  BY DEF D!ParseTarget
<1>2. Len(path) \in Nat \ {0} /\ path[1] \in Segments
  BY <1>1
<1> QED BY <1>1, <1>2 DEF D!Split

LEMMA UnsignedIsRefused ==
    ASSUME NEW server, NEW u, NEW later,
           ~D!VerifySig(server.secret, u.db, D!ParseTarget(u.path), u.exp, u.sig, later)
    PROVE  D!Download(server, FALSE, u, later) \in D!Refusals
  BY DEF D!Download, D!Refusals

\* What a signature lets through was signed: the caller gets what the owner of the file the
\* signature names would get, or a refusal.
LEMMA SignedOpensWhatWasSigned ==
    ASSUME NEW server, NEW db, NEW d, NEW t, NEW path, NEW exp, NEW secs, NEW sig, NEW later,
           t = D!ParseTarget(path),
           sig \in {Absent, D!MintSig(server.secret, db, t, secs)},
           NEW u, u.sign = Absent, u.unchanged = FALSE, u.range = Absent,
           u.db = d, u.sig = sig, u.exp = exp
    PROVE  D!Download(server, FALSE, u, later)
             \in D!Refusals \cup {D!Download(server, TRUE, D!Ask(path, d), later)}
<1> DEFINE owners == D!Download(server, TRUE, D!Ask(path, d), later)
<1>1. CASE ~D!VerifySig(server.secret, u.db, D!ParseTarget(u.path), u.exp, u.sig, later)
  BY <1>1, UnsignedIsRefused
<1>2. CASE u.sig = Absent
  BY <1>2 DEF D!Download, D!Refusals
<1>3. CASE /\ D!VerifySig(server.secret, u.db, D!ParseTarget(u.path), u.exp, u.sig, later)
           /\ u.sig # Absent
  <2>1. D!ParseTarget(u.path) = t
    <3> DEFINE named == D!ParseTarget(u.path)
    <3>1. D!MintSig(server.secret, db, t, secs) = D!MintSig(server.secret, d, named, exp)
      BY <1>3 DEF D!VerifySig
    <3> HIDE DEF named
    <3>2. t = named
      BY <3>1 DEF D!MintSig, D!SigMsg
    <3> QED BY <3>2 DEF named
  <2>2. CASE t = Absent \/ t.id = Absent
    BY <2>1, <2>2 DEF D!Download, D!Refusals
  <2>3. CASE ~(t = Absent \/ t.id = Absent)
    <3>1. D!Download(server, FALSE, u, later) = D!Serve(server, d, t, u)
      BY <1>3, <2>1, <2>3 DEF D!Download
    <3>2. owners = D!Serve(server, d, t, D!Ask(path, d))
      BY <2>3 DEF D!Download, D!Ask
    <3>3. D!Serve(server, d, t, u) = D!Serve(server, d, t, D!Ask(path, d))
      BY DEF D!Serve, D!Ask
    <3> QED BY <3>1, <3>2, <3>3
  <2> QED BY <2>2, <2>3
<1> QED BY <1>1, <1>2, <1>3

LEMMA LinkIsWorthItsFile ==
    ASSUME NEW Segments, NEW path \in Seq(Segments), NEW server, NEW db,
           NEW secs \in Int, NEW later \in Nat,
           \A secret, t, exp : D!MintSig(secret, db, t, exp) # Absent
    PROVE  D!LinkOpensItsFile(server, path, db, secs, later)
<1> DEFINE t == D!ParseTarget(path)
           named == ~(t.field = "file" /\ Len(t.collection) > 1)
           asked == [D!Ask(path, db) EXCEPT !.sign = secs]
           minted == D!Download(server, TRUE, asked, 0)
           owners == D!Download(server, TRUE, D!Ask(path, db), later)
           use(d) == D!Follow(minted.body, d)
           got(d) == D!Download(server, FALSE, use(d), later)
<1> SUFFICES ASSUME minted.status = 200
             PROVE  /\ got(db) \in D!Refusals \cup {owners}
                    /\ later <= secs /\ D!ReadsAsWritten(t.id) /\ named => got(db) = owners
                    /\ later > secs => got(db) \in D!Refusals
                    /\ \A other \in DOMAIN server.files \ {db} : got(other) \in D!Refusals
  BY DEF D!LinkOpensItsFile
<1>1. /\ asked.path = path /\ asked.db = db /\ asked.sign = secs /\ asked.sig = Absent
      /\ secs # Absent
  <2>1. secs # Absent
    BY AbsentAssumption
  <2> QED BY <2>1 DEF D!Ask
<1> HIDE DEF asked
<1>2. /\ ~(t = Absent \/ t.id = Absent)
      /\ minted = D!Mint(server, db, t, asked, 0)
  BY <1>1 DEF D!Download, D!Answer
<1> HIDE DEF minted, t
<1>3. /\ server.secret # Absent /\ secs \in 1..3600
      /\ minted.body = D!Link(server.secret, db, t, secs)
  <2> DEFINE link == D!Link(server.secret, db, t, 0 + secs)
  <2>1. minted = IF server.secret = Absent THEN D!Answer(503)
                 ELSE IF secs \notin 1..3600 THEN D!Answer(400)
                 ELSE [status |-> 200, body |-> link]
    BY <1>1, <1>2 DEF D!Mint
  <2>2. D!Answer(503).status # 200 /\ D!Answer(400).status # 200
    BY DEF D!Answer
  <2> HIDE DEF link
  <2>3. server.secret # Absent /\ secs \in 1..3600 /\ minted.body = link
    BY <2>1, <2>2
  <2>4. 0 + secs = secs
    OBVIOUS
  <2> QED BY <2>3, <2>4 DEF link
<1> DEFINE sig == D!MintSig(server.secret, db, t, secs)
           suffix == D!FieldSuffix(t.field)
           again == t.collection \o <<t.id>> \o suffix
<1>4. ASSUME NEW d
      PROVE  /\ use(d).db = d /\ use(d).sign = Absent /\ use(d).unchanged = FALSE
             /\ use(d).range = Absent
             /\ \/ use(d).sig = Absent
                \/ use(d).exp = secs /\ use(d).sig = sig
  <2> DEFINE link == D!Link(server.secret, db, t, secs)
  <2>1. link.exp = secs /\ link.sig = sig
    BY DEF D!Link
  <2> HIDE DEF link, sig
  <2>2. minted.body = link
    BY <1>3 DEF link
  <2> QED BY <2>1, <2>2 DEF D!Follow, D!Ask
<1>5. sig # Absent
  BY DEF sig
<1>6. got(db) \in D!Refusals \cup {owners}
  <2> DEFINE u == use(db)
  <2>1. /\ u.db = db /\ u.sign = Absent /\ u.unchanged = FALSE /\ u.range = Absent
        /\ u.sig \in {Absent, D!MintSig(server.secret, db, D!ParseTarget(path), secs)}
    BY <1>4 DEF sig, t
  <2> HIDE DEF u
  <2>2. D!Download(server, FALSE, u, later) \in D!Refusals \cup {owners}
    BY <2>1, SignedOpensWhatWasSigned
  <2> QED BY <2>2 DEF u
<1>7. ASSUME later <= secs, D!ReadsAsWritten(t.id), named
      PROVE  got(db) = owners
  <2> DEFINE u == use(db)
  <2>1. u.path = again /\ u.sig = sig /\ u.exp = secs
    <3> DEFINE link == D!Link(server.secret, db, t, secs)
               base == SubSeq(t.collection, 1, Len(t.collection) - 0)
               written == base \o <<t.id>> \o suffix
    <3>1. /\ link.collection = t.collection /\ link.id = t.id /\ link.suffix = suffix
          /\ link.exp = secs /\ link.sig = sig
      BY DEF D!Link
    <3>2. u.path = written /\ u.sig = sig /\ u.exp = secs
      <4> HIDE DEF link, sig, suffix
      <4>1. minted.body = link
        BY <1>3 DEF link
      <4>2. /\ Reading[t.id].back = 0 /\ Reading[t.id].segs = <<t.id>>
            /\ Reading[t.id].rest = "path"
        BY <1>7 DEF D!ReadsAsWritten
      <4>3. u = [D!Ask(written, db) EXCEPT !.exp = secs, !.sig = sig]
        BY <3>1, <4>1, <4>2 DEF D!Follow
      <4> HIDE DEF u, written
      <4> QED BY <4>3 DEF D!Ask
    <3>3. base = t.collection
      <4>1. t.collection \in Seq(Segments)
        BY <1>2, TargetIsOfSegments DEF t
      <4> QED BY <4>1
    <3> QED BY <3>2, <3>3
  <2>2. D!ParseTarget(again) = t
    BY <1>2, <1>7, LinkNamesItsFile DEF again, t, suffix
  <2>3. D!VerifySig(server.secret, db, t, secs, sig, later)
    BY <1>3, <1>7 DEF D!VerifySig, sig
  <2>4. u.db = db /\ u.sign = Absent /\ u.unchanged = FALSE /\ u.range = Absent
    BY <1>4
  <2> HIDE DEF u, again, sig
  <2>5. D!Download(server, FALSE, u, later) = D!Serve(server, db, t, u)
    BY <1>2, <1>5, <2>1, <2>2, <2>3, <2>4 DEF D!Download
  <2>6. owners = D!Serve(server, db, t, D!Ask(path, db))
    BY <1>2 DEF D!Download, D!Ask, t
  <2>7. D!Serve(server, db, t, u) = D!Serve(server, db, t, D!Ask(path, db))
    BY <2>4 DEF D!Serve, D!Ask
  <2> QED BY <2>5, <2>6, <2>7 DEF u
<1>8. ASSUME later > secs PROVE got(db) \in D!Refusals
  <2> DEFINE u == use(db)
  <2>1. u.sig = Absent \/ u.exp = secs
    BY <1>4
  <2> HIDE DEF u
  <2>2. D!Download(server, FALSE, u, later) \in D!Refusals
    <3>1. CASE u.sig = Absent
      BY <3>1 DEF D!Download, D!Refusals
    <3>2. CASE u.exp = secs
      <4>1. ~D!VerifySig(server.secret, u.db, D!ParseTarget(u.path), u.exp, u.sig, later)
        BY <1>3, <1>8, <3>2 DEF D!VerifySig
      <4> QED BY <4>1, UnsignedIsRefused
    <3> QED BY <2>1, <3>1, <3>2
  <2> QED BY <2>2 DEF u
<1>9. ASSUME NEW other \in DOMAIN server.files \ {db} PROVE got(other) \in D!Refusals
  <2> DEFINE u == use(other)
  <2>1. u.db = other /\ u.sig \in {Absent, sig}
    BY <1>4
  <2> HIDE DEF u
  <2>2. D!Download(server, FALSE, u, later) \in D!Refusals
    <3>1. CASE u.sig = Absent
      BY <3>1 DEF D!Download, D!Refusals
    <3>2. CASE u.sig = sig
      <4> DEFINE opened == D!ParseTarget(u.path)
      <4>1. ~D!VerifySig(server.secret, other, opened, u.exp, sig, later)
        <5> HIDE DEF opened
        <5>1. SUFFICES sig # D!MintSig(server.secret, other, opened, u.exp)
          BY DEF D!VerifySig
        <5>2. sig.msg = <<db, t, secs>>
          BY DEF sig, D!MintSig, D!SigMsg
        <5>3. D!MintSig(server.secret, other, opened, u.exp).msg = <<other, opened, u.exp>>
          BY DEF D!MintSig, D!SigMsg
        <5>4. <<db, t, secs>> # <<other, opened, u.exp>>
          BY <1>9
        <5> HIDE DEF sig, u
        <5> QED BY <5>2, <5>3, <5>4
      <4>2. ~D!VerifySig(server.secret, u.db, D!ParseTarget(u.path), u.exp, u.sig, later)
        <5> HIDE DEF sig
        <5> QED BY <2>1, <3>2, <4>1
      <4> QED BY <4>2, UnsignedIsRefused
    <3> QED BY <2>1, <3>1, <3>2
  <2> QED BY <2>2 DEF u
<1> HIDE DEF got, owners, named
<1> QED BY <1>6, <1>7, <1>8, <1>9

\* files.rs download: whatever the path, the server, the lifetime, and the way the ids are
\* read when they stand in a URL as they are, a link opens the file it was minted for until
\* it ends, if it names that file; it never opens another, nor anything afterwards or in
\* another database.  A signature is not the value that stands for a missing one.
THEOREM LinksOpenTheirFile ==
    ASSUME NEW Segments, NEW path \in Seq(Segments), NEW server, NEW db,
           NEW secs \in Int, NEW later \in Nat,
           \A secret, t, exp : D!MintSig(secret, db, t, exp) # Absent,
           input = <<"link", server, path, db, secs, later>>
    PROVE  LinkOpensItsFile
<1>1. /\ input[2] = server /\ input[3] = path /\ input[4] = db
      /\ input[5] = secs /\ input[6] = later
  OBVIOUS
<1> QED BY <1>1, LinkIsWorthItsFile DEF LinkOpensItsFile
=============================================================================
