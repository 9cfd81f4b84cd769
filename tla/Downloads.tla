------------------------------ MODULE Downloads ------------------------------
(***************************************************************************)
(* GET of a managed file (files.rs): which file a path names, who is served,   *)
(* what a signed link opens, and which bytes a range asks for.                *)
(*                                                                         *)
(* The path of a request is its non-empty segments, decoded.  A signature is   *)
(* what it signs, under the secret: the MAC itself is taken as unforgeable.   *)
(***************************************************************************)
EXTENDS Integers, Sequences, SequencesExt

CONSTANTS None,
          Reserved,     \* segments that begin with two underscores
          Unnameable,   \* segments a collection or a field may not have
          BadIds,       \* segments that are not a document's id: control characters, too long
          Reading       \* of an id written raw in a URL, what is read when the URL is opened

------------------------------------------------------------------------------
(* Paths *)

Valid(segs) == segs # <<>> /\ ToSet(segs) \cap Unnameable = {}

\* parse_target: with three segments or more the last is always the field.
Split(path) ==
    IF Len(path) = 1 THEN [collection |-> path, id |-> None, field |-> None]
    ELSE IF Len(path) = 2
      THEN [collection |-> <<path[1]>>, id |-> path[2], field |-> "file"]
      ELSE [collection |-> SubSeq(path, 1, Len(path) - 2),
            id |-> path[Len(path) - 1], field |-> path[Len(path)]]

ParseTarget(path) ==
    IF path = <<>> \/ ~Valid(Split(path).collection) THEN None
    ELSE LET t == Split(path)
         IN  IF t.collection[1] \in Reserved THEN None
             ELSE IF t.id = None \/ (t.id \notin BadIds /\ Valid(<<t.field>>)) THEN t ELSE None

------------------------------------------------------------------------------
(* Signed links *)

\* Mutant: the database is not part of what is signed.
SigMsgBare(db, t, exp) == <<t, exp>>

SigMsg(db, t, exp) == <<db, t, exp>>

MintSig(secret, db, t, exp) == [secret |-> secret, msg |-> SigMsg(db, t, exp)]

VerifySig(secret, db, t, exp, sig, now) ==
    /\ secret # None /\ now <= exp
    /\ sig = MintSig(secret, db, t, exp)

FieldSuffix(field) == IF field = "file" THEN <<>> ELSE <<field>>

\* The pieces of the URL, formatted as they are: nothing is percent-encoded.
Link(secret, db, t, exp) ==
    [collection |-> t.collection, id |-> t.id, suffix |-> FieldSuffix(t.field),
     db |-> db, exp |-> exp, sig |-> MintSig(secret, db, t, exp)]

------------------------------------------------------------------------------
(* Ranges *)

\* A header is None or bounds, either of which may be missing; one that cannot be
\* parsed counts as two missing bounds.
Malformed == [from |-> None, to |-> None]
Least(a, b) == IF a < b THEN a ELSE b
Pred(n) == IF n = 0 THEN 0 ELSE n - 1

\* Mutant: the bytes asked for are not clipped to those there are.
ParseRangeUnclipped(h, size) ==
    IF h.from = None
      THEN IF h.to \in {None, 0} \/ size = 0 THEN None
           ELSE <<size - Least(h.to, size), size - 1>>
      ELSE LET end == IF h.to = None THEN Pred(size) ELSE h.to
           IN  IF end < h.from THEN None ELSE <<h.from, end>>

ParseRange(h, size) ==
    IF h.from = None
      THEN IF h.to \in {None, 0} \/ size = 0 THEN None
           ELSE <<size - Least(h.to, size), size - 1>>
      ELSE LET end == IF h.to = None THEN Pred(size) ELSE h.to
           IN  IF end < h.from THEN None ELSE <<h.from, Least(end, Pred(size))>>

Whole(size) == [status |-> 200, start |-> 0, len |-> Pred(size) + 1]

Ranged(h, size) ==
    LET r == IF h = None THEN None ELSE ParseRange(h, size)
    IN  IF r = None THEN Whole(size)
        ELSE IF r[1] >= size THEN [status |-> 416, start |-> 0, len |-> 0]
        ELSE [status |-> 206, start |-> r[1], len |-> r[2] - r[1] + 1]

------------------------------------------------------------------------------
(* The handler *)

Lost == -1

Answer(status) == [status |-> status, body |-> None]

\* server: its secret and the files it has, by database and target, with the size of
\* their bytes, or Lost.  allowed: what the policy says of the caller.
Serve(server, db, t, request) ==
    LET files == server.files[db]
    IN  IF t \notin DOMAIN files \/ files[t] = Lost THEN Answer(404)
        ELSE IF request.unchanged THEN Answer(304)
        ELSE LET r == Ranged(request.range, files[t])
             IN  [status |-> r.status, body |-> <<db, t, r.start, r.len>>]

Mint(server, db, t, request, now) ==
    IF server.secret = None THEN Answer(503)
    ELSE IF request.sign \notin 1..3600 THEN Answer(400)
    ELSE [status |-> 200, body |-> Link(server.secret, db, t, now + request.sign)]

Download(server, allowed, request, now) ==
    LET t == ParseTarget(request.path)
        signed == request.sig # None
                  /\ VerifySig(server.secret, request.db, t, request.exp, request.sig, now)
    IN  IF t = None \/ t.id = None THEN Answer(400)
        ELSE IF ~allowed /\ ~signed THEN Answer(403)
        ELSE IF request.sign # None THEN Mint(server, request.db, t, request, now)
        ELSE Serve(server, request.db, t, request)

------------------------------------------------------------------------------
(* Properties *)

Ask(path, db) == [path |-> path, db |-> db, sign |-> None, exp |-> None, sig |-> None,
                  unchanged |-> FALSE, range |-> None]
Refusals == {Answer(400), Answer(403)}

\* The request an opened link makes, the database it ends up naming being db.  Names of
\* collections and fields are read as they were written.  Of an id, percent signs are
\* decoded, a slash so decoded separates segments, a dot segment takes back what is before
\* it, a question mark begins the query (whose text then says the database), and a hash
\* ends what is sent.  Reading[id] is how many segments are taken back, the segments read,
\* and whether what follows is read as the "path", the "query", or "nothing" at all.
Follow(link, db) ==
    LET read == Reading[link.id]
        base == SubSeq(link.collection, 1, Len(link.collection) - read.back)
        path == base \o read.segs \o (IF read.rest = "path" THEN link.suffix ELSE <<>>)
    IN  IF read.rest = "nothing" THEN Ask(path, db)
        ELSE [Ask(path, db) EXCEPT !.exp = link.exp, !.sig = link.sig]

ReadsAsWritten(id) == Reading[id] = [back |-> 0, segs |-> <<id>>, rest |-> "path"]

\* "?sign=<secs> mints a signed URL (needs Get, same as downloading), or ?exp=&sig= to
\* consume one anonymously": until it ends, the link gives anybody what its owner would get,
\* and afterwards, or turned to another database, nothing.  Two links need not open theirs,
\* and then give nothing rather than another file: of an id that is not read as it was
\* written, and of a default field of a nested collection, which the link does not name.
LinkOpensItsFile(server, path, db, secs, later) ==
    LET t == ParseTarget(path)
        minted == Download(server, TRUE, [Ask(path, db) EXCEPT !.sign = secs], 0)
        owners == Download(server, TRUE, Ask(path, db), later)
        Got(d) == Download(server, FALSE, Follow(minted.body, d), later)
    IN  minted.status = 200 =>
          /\ Got(db) \in Refusals \cup {owners}
          /\ later <= secs /\ ReadsAsWritten(t.id) /\ ~(t.field = "file" /\ Len(t.collection) > 1)
               => Got(db) = owners
          /\ later > secs => Got(db) \in Refusals
          /\ \A other \in DOMAIN server.files \ {db} : Got(other) \in Refusals

\* "Single range only; malformed -> full 200, unsatisfiable -> 416": what is announced is
\* there, and it is what was asked for.  An empty file is left out (it announces one byte),
\* and so is an open range that begins past the end (it gets the whole file).
SendsWhatItPromises(size, h) ==
    LET r == Ranged(h, size)
        asked == {n \in 0..(size - 1) :
                    IF h.from = None THEN h.to # None /\ n >= size - h.to
                    ELSE n >= h.from /\ (h.to = None \/ n <= h.to)}
    IN  size > 0 =>
          /\ r.status # 416 => r.start + r.len <= size
          /\ h \in {None, Malformed} => r = Whole(size)
          /\ h \notin {None, Malformed} /\ (h.from = None \/ h.to # None)
               => /\ r.status = 206 => asked = r.start..(r.start + r.len - 1)
                  /\ r.status = 416 => asked = {}
                  /\ asked = {} <=> r.status # 206
=============================================================================
