-------------------------------- MODULE Files --------------------------------
(***************************************************************************)
(* The managed files: uploads and removals as read-modify-writes of the       *)
(* document that keeps the metadata, bytes stored under their hash, and the   *)
(* sweeper that reaps old temporary files, stale pendings and unreferenced    *)
(* bytes.  Documents with a TTL are hidden from the scan once they are dead.  *)
(*                                                                         *)
(* Ages are what the code compares: a file is fresh for ten minutes, then old, *)
(* and stale after an hour; a pending marker is stale after an hour.  Bytes     *)
(* keep the age of the temporary file they were.                             *)
(***************************************************************************)
EXTENDS Naturals, FiniteSets

CONSTANTS Docs,         \* bound: documents 1..Docs of the collection, in list order
          Fields,       \* the fields that hold files
          Shas,         \* contents
          Clients,
          PageSize,     \* documents the sweeper lists at a time (500)
          MaxRequests,  \* bound: uploads and removals
          MaxFaults,    \* bound: failed renames, failed lists and crashes
          Mortals,      \* bound: the documents somebody gives a TTL
          None

ASSUME DocsAssumption == Docs \in Nat
ASSUME PageSizeAssumption == PageSize \in Nat \ {0}
ASSUME MortalsAssumption == Mortals \subseteq 1..Docs

Ids == 1..Docs

Metas == [sha : Shas, state : {"pending", "stale", "ready"}]
Document == [files : [Fields -> Metas \cup {None}], mortal : BOOLEAN]

ASSUME NoneAssumption == None \notin Metas /\ None \notin Document

VARIABLES docs,         \* [Ids -> Document or None]
          expired,      \* the instant of the TTLs has passed
          bytes,        \* [Shas -> "none", "fresh" or "old"]
          tmp,          \* [Clients -> "none", "fresh", "old" or "stale"]: its temporary file
          left,         \* ages of the temporary files nobody holds: "young", "stale"
          pc, loc,      \* [Clients -> step], [Clients -> locals]
          sw,           \* the sweeper's step and locals
          requests, faults,
          missed,       \* history: hashes whose end this pass may not see
          tainted       \* history: hashes reaped in a way the code does not exclude

vars == <<docs, expired, bytes, tmp, left, pc, loc, sw, requests, faults,
          missed, tainted>>
bounds == <<requests, faults>>
temps == <<tmp, left>>

------------------------------------------------------------------------------
(* Documents *)

Dead(d) == d.mortal /\ expired
Seen(i) == IF docs[i] = None \/ Dead(docs[i]) THEN None ELSE docs[i]

Blank == [files |-> [f \in Fields |-> None], mortal |-> FALSE]
With(d, f, m) == [(IF d = None THEN Blank ELSE d) EXCEPT !.files[f] = m]
Meta(x, state) == [sha |-> x, state |-> state]
FileIn(d, f) == IF d = None THEN None ELSE d.files[f]

ReadyIn(d) == {x \in Shas : \E f \in Fields :
                 FileIn(d, f) = Meta(x, "ready")}
Ready == UNION {ReadyIn(docs[i]) : i \in Ids}

Idle == [id |-> 0, field |-> None, sha |-> None, doc |-> None]
Goto(c, step, l) == pc' = [pc EXCEPT ![c] = step] /\ loc' = [loc EXCEPT ![c] = l]
Leave(c) == Goto(c, "idle", Idle)

\* The temporary file of a client stays, and is nobody's, or goes.
Abandoned(c) == CASE tmp[c] = "none" -> {}
                  [] tmp[c] = "stale" -> {"stale"}
                  [] OTHER -> {"young"}
Abandon(c) == tmp' = [tmp EXCEPT ![c] = "none"] /\ left' = left \cup Abandoned(c)
GivesUp(c) == tmp' = [tmp EXCEPT ![c] = "none"] /\ UNCHANGED left

------------------------------------------------------------------------------
(* Upload: pending metadata, bytes, ready metadata *)

\* store_part has streamed the part into a temporary file; the rest of the body may
\* take any time, or not come at all.
Upload(c, i, f, x) ==
    /\ pc[c] = "idle" /\ requests < MaxRequests
    /\ requests' = requests + 1
    /\ tmp' = [tmp EXCEPT ![c] = "fresh"]
    /\ Goto(c, "read", [id |-> i, field |-> f, sha |-> x, doc |-> None])
    /\ UNCHANGED <<docs, expired, bytes, left, sw, faults, missed, tainted>>

\* An error in the body ends the request, and leaves what was stored.
Truncated(c) ==
    /\ pc[c] = "read"
    /\ Leave(c) /\ Abandon(c)
    /\ UNCHANGED <<docs, expired, bytes, sw, bounds, missed, tainted>>

Read(c) ==
    /\ pc[c] = "read"
    /\ Goto(c, "pending", [loc[c] EXCEPT !.doc = Seen(loc[c].id)])
    /\ UNCHANGED <<docs, expired, bytes, temps, sw, bounds, missed, tainted>>

\* The whole document is stored again with the marker; a new one is inserted,
\* and the temporary file stays behind when the insert is refused.
Pending(c) ==
    LET i == loc[c].id
        marker == Meta(loc[c].sha, "pending")
    IN /\ pc[c] = "pending"
       /\ IF loc[c].doc = None /\ docs[i] # None
            THEN Leave(c) /\ Abandon(c) /\ UNCHANGED docs
            ELSE /\ docs' = [docs EXCEPT ![i] = With(loc[c].doc, loc[c].field, marker)]
                 /\ Goto(c, "promote", [loc[c] EXCEPT !.doc = None])
                 /\ UNCHANGED temps
       /\ UNCHANGED <<expired, bytes, sw, bounds, missed, tainted>>

\* promote: bytes that are there already win, whatever their age.
Found(c) ==
    /\ pc[c] = "promote"
    /\ bytes[loc[c].sha] # "none"
    /\ missed' = missed \cup {loc[c].sha}
    /\ Goto(c, "reread", loc[c]) /\ GivesUp(c)
    /\ UNCHANGED <<docs, expired, bytes, sw, bounds, tainted>>

NotFound(c) ==
    /\ pc[c] = "promote"
    /\ bytes[loc[c].sha] = "none"
    /\ Goto(c, "rename", loc[c])
    /\ UNCHANGED <<docs, expired, bytes, temps, sw, bounds, missed, tainted>>

\* The bytes are as old as the temporary file, which they replace others with: a body
\* that took its time makes bytes the sweeper does not spare.
Rename(c) ==
    LET x == loc[c].sha
        fresh == tmp[c] = "fresh"
    IN /\ pc[c] = "rename" /\ tmp[c] # "none"
       /\ bytes' = [bytes EXCEPT ![x] = IF fresh THEN "fresh" ELSE "old"]
       /\ missed' = IF fresh THEN missed ELSE missed \cup {x}
       /\ tainted' = tainted \ {x}
       /\ Goto(c, "reread", loc[c]) /\ GivesUp(c)
       /\ UNCHANGED <<docs, expired, sw, bounds>>

\* The sweeper has reaped the temporary file: the field is removed again.
RenameFails(c) ==
    /\ pc[c] = "rename" /\ tmp[c] = "none"
    /\ Goto(c, "get", loc[c])
    /\ UNCHANGED <<docs, expired, bytes, temps, sw, bounds, missed, tainted>>

\* So it is when the disk refuses, and the temporary file stays behind.
PromoteFails(c) ==
    /\ pc[c] \in {"promote", "rename"} /\ faults < MaxFaults
    /\ faults' = faults + 1
    /\ Goto(c, "get", loc[c]) /\ Abandon(c)
    /\ UNCHANGED <<docs, expired, bytes, sw, requests, missed, tainted>>

Reread(c) ==
    /\ pc[c] = "reread"
    /\ Goto(c, "save", [loc[c] EXCEPT !.doc = Seen(loc[c].id)])
    /\ UNCHANGED <<docs, expired, bytes, temps, sw, bounds, missed, tainted>>

Save(c) ==
    LET ready == Meta(loc[c].sha, "ready") IN
    /\ pc[c] = "save"
    /\ docs' = [docs EXCEPT ![loc[c].id] = With(loc[c].doc, loc[c].field, ready)]
    /\ Leave(c)
    /\ UNCHANGED <<expired, bytes, temps, sw, bounds, missed, tainted>>

------------------------------------------------------------------------------
(* Removal of a field, by a client, a failed upload or the sweeper *)

RemoveFile(c, i, f) ==
    /\ pc[c] = "idle" /\ requests < MaxRequests
    /\ FileIn(Seen(i), f) # None
    /\ requests' = requests + 1
    /\ Goto(c, "get", [Idle EXCEPT !.id = i, !.field = f])
    /\ UNCHANGED <<docs, expired, bytes, temps, sw, faults, missed, tainted>>

\* remove_field stores the rest of what it read, or deletes the document.
Without(d, f) ==
    LET rest == [d EXCEPT !.files[f] = None]
    IN IF \A g \in Fields : rest.files[g] = None /\ ~rest.mortal THEN None ELSE rest

Get(c) ==
    LET d == Seen(loc[c].id) IN
    /\ pc[c] = "get"
    /\ IF FileIn(d, loc[c].field) = None
         THEN Leave(c)
         ELSE Goto(c, "put", [loc[c] EXCEPT !.doc = d])
    /\ UNCHANGED <<docs, expired, bytes, temps, sw, bounds, missed, tainted>>

\* A row that goes while the sweeper lists page by page moves the later ones up.
Shifts(i, d) == sw.at = "scan" /\ docs[i] # None /\ d = None

Put(c) ==
    LET i == loc[c].id
        d == Without(loc[c].doc, loc[c].field)
    IN /\ pc[c] = "put"
       /\ docs' = [docs EXCEPT ![i] = d]
       /\ sw' = [sw EXCEPT !.cut = @ \/ Shifts(i, d)]
       /\ Leave(c)
       /\ UNCHANGED <<expired, bytes, temps, bounds, missed, tainted>>

------------------------------------------------------------------------------
(* The sweeper *)

Asleep == [at |-> "idle", offset |-> 0, refs |-> {}, stale |-> {}, doc |-> None,
           todo |-> {}, cut |-> FALSE]

\* Mutant: temporary files are left where they are.
ReapedTempsNone == {}

\* The ages of the temporary files a pass reaps.
ReapedTemps == {"stale"}

\* Temporary files are reaped first, those of uploads that still run too.  This pass may not
\* see the end of an upload in flight that has found its bytes.
SweepStart ==
    /\ sw.at = "idle"
    /\ sw' = [Asleep EXCEPT !.at = "scan"]
    /\ tmp' = [c \in Clients |-> IF tmp[c] \in ReapedTemps THEN "none" ELSE tmp[c]]
    /\ left' = left \ ReapedTemps
    /\ missed' = {x \in missed : \E c \in Clients :
                                   pc[c] \in {"reread", "save"} /\ loc[c].sha = x}
    /\ UNCHANGED <<docs, expired, bytes, pc, loc, bounds, tainted>>

Rows == {i \in Ids : docs[i] # None}
Before(i) == {j \in Rows : j < i}
Rank(i) == Cardinality(Before(i))
PageAt(n) == {i \in Rows : Rank(i) \in n..(n + PageSize - 1)}

\* The lists have no order_by.  SQLite and MySQL go through the table in one order, and a
\* page is a window of it; elsewhere it is any rows, as many as there are past the offset.
Beyond(n) == IF Cardinality(Rows) > n THEN Cardinality(Rows) - n ELSE 0
Listings(n) ==
    {page \in SUBSET Rows :
       Cardinality(page) = IF Beyond(n) < PageSize THEN Beyond(n) ELSE PageSize}

\* Mutant: pending markers are left to themselves.
StaleInNone(i) == {}

StaleIn(i) == {<<i, f>> : f \in {g \in Fields : FileIn(docs[i], g) # None
                                                /\ FileIn(docs[i], g).state = "stale"}}

\* What a copy of a document in flight will store again: all but its own field.
Keeps(d, f) == {x \in Shas : \E g \in Fields \ {f} : FileIn(d, g) = Meta(x, "ready")}
Carried(c) == IF pc[c] \in {"pending", "save", "put"}
                THEN Keeps(loc[c].doc, loc[c].field) ELSE {}

\* The limit applies to the rows, the filter of TtlDb to what came back: a dead
\* document makes the page short, and a short page ends the scan.
List(page) ==
    LET shown == {i \in page : ~Dead(docs[i])}
        last == Cardinality(shown) < PageSize
    IN /\ sw.at = "scan"
       /\ sw' = [sw EXCEPT
                   !.at = IF last THEN "stale" ELSE "scan",
                   !.offset = IF last THEN 0 ELSE @ + Cardinality(shown),
                   !.refs = @ \cup UNION {ReadyIn(docs[i]) : i \in shown},
                   !.stale = @ \cup UNION {StaleIn(i) : i \in shown},
                   !.cut = \/ @ \/ page # PageAt(sw.offset)
                           \/ last /\ \E i \in Rows \ shown : Rank(i) >= sw.offset]
       /\ missed' = missed \cup UNION {Carried(c) : c \in Clients}
       /\ UNCHANGED <<docs, expired, bytes, temps, pc, loc, bounds, tainted>>

ScanPage == \E page \in Listings(sw.offset) : List(page)

\* A list that fails counts as an empty page.
ScanFails ==
    /\ sw.at = "scan" /\ faults < MaxFaults
    /\ faults' = faults + 1
    /\ sw' = [sw EXCEPT !.at = "stale", !.offset = 0, !.cut = TRUE]
    /\ UNCHANGED <<docs, expired, bytes, temps, pc, loc, requests, missed, tainted>>

\* remove_field for every stale pending, whatever the field holds by now.
StaleGet ==
    /\ sw.at = "stale"
    /\ \E s \in sw.stale :
         LET d == Seen(s[1]) IN
         sw' = IF FileIn(d, s[2]) = None
                 THEN [sw EXCEPT !.stale = @ \ {s}]
                 ELSE [sw EXCEPT !.at = "put", !.stale = @ \ {s},
                                 !.doc = [id |-> s[1], new |-> Without(d, s[2])]]
    /\ UNCHANGED <<docs, expired, bytes, temps, pc, loc, bounds, missed, tainted>>

StalePut ==
    /\ sw.at = "put"
    /\ docs' = [docs EXCEPT ![sw.doc.id] = sw.doc.new]
    /\ sw' = [sw EXCEPT !.at = "stale", !.doc = None]
    /\ UNCHANGED <<expired, bytes, temps, pc, loc, bounds, missed, tainted>>

StaleDone ==
    /\ sw.at = "stale" /\ sw.stale = {}
    /\ sw' = [sw EXCEPT !.at = "orphans", !.todo = Shas]
    /\ UNCHANGED <<docs, expired, bytes, temps, pc, loc, bounds, missed, tainted>>

\* Mutant: the guard of ten minutes is forgotten.
ReapsAnyAge(x) == x \notin sw.refs /\ bytes[x] # "none"

Reaps(x) == x \notin sw.refs /\ bytes[x] = "old"

Orphan(x) ==
    /\ sw.at = "orphans" /\ x \in sw.todo
    /\ sw' = [sw EXCEPT !.todo = @ \ {x}]
    /\ IF Reaps(x)
         THEN /\ bytes' = [bytes EXCEPT ![x] = "none"]
              /\ tainted' = IF sw.cut \/ x \in missed THEN tainted \cup {x}
                            ELSE tainted
         ELSE UNCHANGED <<bytes, tainted>>
    /\ UNCHANGED <<docs, expired, temps, pc, loc, bounds, missed>>

SweepEnd ==
    /\ sw.at = "orphans" /\ sw.todo = {}
    /\ sw' = Asleep
    /\ UNCHANGED <<docs, expired, bytes, temps, pc, loc, bounds, missed, tainted>>

------------------------------------------------------------------------------
(* Time, TTLs, crashes *)

\* Ten minutes outlast a pass of the sweeper and an upload whose body has come to its
\* end: neither is under way when they have passed.
Prompt == sw.at = "idle" /\ \A c \in Clients : pc[c] \in {"idle", "read"}

Aged(age, hour) == CASE age = "none" -> "none"
                     [] age # "none" /\ hour -> "stale"
                     [] age = "fresh" /\ ~hour -> "old"
                     [] OTHER -> age

Older(d) ==
    IF d = None THEN None
    ELSE [d EXCEPT !.files = [f \in Fields |->
            IF @[f] # None /\ @[f].state = "pending"
              THEN [@[f] EXCEPT !.state = "stale"] ELSE @[f]]]

Pass(hour) ==
    /\ Prompt
    /\ bytes' = [x \in Shas |-> IF bytes[x] = "fresh" THEN "old" ELSE bytes[x]]
    /\ tmp' = [c \in Clients |-> Aged(tmp[c], hour)]
    /\ left' = IF hour /\ left # {} THEN {"stale"} ELSE left
    /\ docs' = IF hour THEN [i \in Ids |-> Older(docs[i])] ELSE docs
    /\ UNCHANGED <<expired, pc, loc, sw, bounds, missed, tainted>>

TenMinutes == Pass(FALSE)
Hour == Pass(TRUE)

\* Somebody writes __ttl_at into the document; later its instant passes, and
\* the TTL sweeper deletes it.
GiveTTL(i) ==
    /\ i \in Mortals /\ docs[i] # None /\ ~expired /\ ~docs[i].mortal
    /\ docs' = [docs EXCEPT ![i].mortal = TRUE]
    /\ UNCHANGED <<expired, bytes, temps, pc, loc, sw, bounds, missed, tainted>>

Expire ==
    /\ ~expired /\ \E i \in Ids : docs[i] # None /\ docs[i].mortal
    /\ expired' = TRUE
    /\ UNCHANGED <<docs, bytes, temps, pc, loc, sw, bounds, missed, tainted>>

Bury(i) ==
    /\ docs[i] # None /\ Dead(docs[i])
    /\ docs' = [docs EXCEPT ![i] = None]
    /\ sw' = [sw EXCEPT !.cut = @ \/ Shifts(i, None)]
    /\ UNCHANGED <<expired, bytes, temps, pc, loc, bounds, missed, tainted>>

\* Metadata, bytes and temporary files survive the process.
Crash ==
    /\ faults < MaxFaults
    /\ faults' = faults + 1
    /\ pc' = [c \in Clients |-> "idle"]
    /\ loc' = [c \in Clients |-> Idle]
    /\ sw' = Asleep
    /\ tmp' = [c \in Clients |-> "none"]
    /\ left' = left \cup UNION {Abandoned(c) : c \in Clients}
    /\ UNCHANGED <<docs, expired, bytes, requests, missed, tainted>>

------------------------------------------------------------------------------

Init ==
    /\ docs = [i \in Ids |-> None]
    /\ expired = FALSE
    /\ bytes = [x \in Shas |-> "none"]
    /\ tmp = [c \in Clients |-> "none"] /\ left = {}
    /\ pc = [c \in Clients |-> "idle"]
    /\ loc = [c \in Clients |-> Idle]
    /\ sw = Asleep
    /\ requests = 0 /\ faults = 0
    /\ missed = {} /\ tainted = {}

Step(c) == \/ Pending(c) \/ Found(c) \/ NotFound(c) \/ Rename(c) \/ RenameFails(c)
           \/ PromoteFails(c) \/ Reread(c) \/ Save(c) \/ Get(c) \/ Put(c)

Sweep == \/ SweepStart \/ ScanPage \/ ScanFails \/ StaleGet \/ StalePut
         \/ StaleDone \/ (\E x \in Shas : Orphan(x)) \/ SweepEnd

Next == \/ \E c \in Clients, i \in Ids, f \in Fields :
             (\E x \in Shas : Upload(c, i, f, x)) \/ RemoveFile(c, i, f)
        \/ \E c \in Clients : Truncated(c) \/ Read(c) \/ Step(c)
        \/ Sweep
        \/ TenMinutes \/ Hour
        \/ \E i \in Ids : GiveTTL(i) \/ Bury(i)
        \/ Expire
        \/ Crash

\* Handlers and the sweeper are tasks of the runtime, the clock runs, and the
\* TTL sweeper is on.  A pass of the sweeper does not keep the hour from passing.
\* Nothing is assumed of the end of a body: a client may stall for ever.
Fairness == /\ WF_vars(\E c \in Clients : Step(c))
            /\ WF_vars(Sweep)
            /\ SF_vars(Hour)
            /\ WF_vars(\E i \in Ids : Bury(i))

Spec == Init /\ [][Next]_vars /\ Fairness

------------------------------------------------------------------------------
(* Properties *)

\* "Metadata without bytes: the sweeper cannot fix this direction": a hash that a document
\* refers to as ready has its bytes, unless they were reaped by a pass that did not see
\* every document (a list failed or was cut short by dead documents, a row went meanwhile,
\* or the pages were not windows of one order), after an upload whose bytes were old when
\* it found or renamed them, or after a scan under which a copy of the document that names
\* them was in flight.
ReadyHasBytes == \A x \in Ready : bytes[x] # "none" \/ x \in tainted

\* "temp files > 1h, pending metas > 1h, bytes unreferenced by any doc": what a crash, a
\* refusal, a broken body or a removal leaves behind goes; a pending marker does if there
\* is always another pass that sees every document.
GarbageGoes ==
    /\ \A x \in Shas : (bytes[x] # "none" /\ x \notin Ready)
                          ~> (bytes[x] = "none" \/ x \in Ready)
    /\ \A i \in Ids, f \in Fields :
         LET Stale == FileIn(docs[i], f) # None /\ FileIn(docs[i], f).state = "stale"
         IN []<>(sw.at = "orphans" /\ ~sw.cut) => (Stale ~> ~Stale)
    /\ "stale" \in left ~> "stale" \notin left
=============================================================================
