------------------------------ MODULE WritePath ------------------------------
(***************************************************************************)
(* The document handlers of the gateway (main.rs: write_doc, remove, the    *)
(* GET branch of get_or_list and get_owned) over one driver and the         *)
(* coalescer.  Every await in a handler is a point where other requests,    *)
(* the flusher and a reload may run, so a handler is a chain of steps.      *)
(*                                                                         *)
(* acked and clean are history: acked is the document that the requests     *)
(* acknowledged so far produce when they are applied one at a time, and     *)
(* clean is FALSE from the first moment a document's requests overlapped in *)
(* one of the ways the handlers do not guard against.                       *)
(***************************************************************************)
EXTENDS Coalescer

CONSTANTS Clients       \* concurrent requests, one per client

ASSUME DocsAssumption == Docs # {}

VARIABLES exists,       \* [Docs -> BOOLEAN]: the driver has the document
          pc,           \* [Clients -> step of the handler]
          req,          \* [Clients -> request and the handler's locals]
          tag,          \* [Clients -> the last validator (ETag) and its body]
          acked,        \* history: [Docs -> [live, body]]
          clean,        \* history: [Docs -> BOOLEAN]
          watch         \* history: [Clients -> what a GET under way could see]

docVars == <<exists, acked, clean>>
reqVars == <<pc, req, tag>>
wvars == <<vars, docVars, reqVars, watch>>

\* What a driver read returns.
Snapshot == [live : BOOLEAN, body : Body]
Gone == [live |-> FALSE, body |-> EmptyBody]
Read(k) == [live |-> exists[k], body |-> stored[k]]

\* "patch" is a PATCH the coalescer takes, "direct" one it does not; "getif"
\* is a GET answered 304.  seen is what the handler read, and what GET answers.
Writes == {"patch", "direct", "put", "delete"}
Request == [kind : Writes \cup {"get", "getif"}, doc : Docs,
            fields : SUBSET Fields, seen : Snapshot]

GetSteps == {"route", "fast", "owned", "overlay", "done"}
Steps == {"idle", "write"} \cup GetSteps

\* The last validator a client got, the document and the body it stands for.
NoTag == [doc |-> None, seen |-> Gone]

NoRequest == [kind |-> "get", doc |-> CHOOSE k \in Docs : TRUE, fields |-> {},
              seen |-> Gone]

\* flown: at some moment of the GET its document was out of the buffer and
\* not yet on disk; during: the acknowledged documents of that time.
NoWatch == [flown |-> FALSE, during |-> {}]

\* The documents exist when a behaviour starts, nothing is buffered.
WInit == /\ Init
         /\ exists = [k \in Docs |-> TRUE]
         /\ pc = [c \in Clients |-> "idle"]
         /\ req = [c \in Clients |-> NoRequest]
         /\ tag = [c \in Clients |-> NoTag]
         /\ acked = [k \in Docs |-> [live |-> TRUE, body |-> EmptyBody]]
         /\ clean = [k \in Docs |-> TRUE]
         /\ watch = [c \in Clients |-> NoWatch]

Buffered(k) == pending[k] # None \/ inflight[k] # None \/ draining[k] # None

\* The view of a document with a drain under way: the drain took its layer
\* after the flusher took its own.
FullView(k) ==
    Extend(Extend(Extend(stored[k], BodyOf(inflight[k])),
                  IF draining[k] = None THEN EmptyBody ELSE draining[k]),
           BodyOf(pending[k]))

-----------------------------------------------------------------------------
\* write_doc and remove read the document before they decide.  A PUT under
\* skip_rbw does not, which only changes createdAt.
StartWrite(c, kind, k, F) ==
    /\ pc[c] = "idle"
    /\ pc' = [pc EXCEPT ![c] = "write"]
    /\ req' = [req EXCEPT ![c] = [kind |-> kind, doc |-> k, fields |-> F,
                                  seen |-> Read(k)]]
    /\ UNCHANGED <<vars, docVars, tag>>

Finish(c) ==
    /\ pc' = [pc EXCEPT ![c] = "idle"]
    /\ req' = [req EXCEPT ![c] = NoRequest]
    /\ UNCHANGED tag

\* 403 from the policy, 404 for a PATCH of a document that was not there, or
\* the driver's error: nothing has changed.
Refuse(c) ==
    /\ pc[c] = "write"
    /\ Finish(c)
    /\ UNCHANGED <<vars, docVars>>

\* An eligible PATCH joins the buffer and is acknowledged.
PatchCoalesced(c) ==
    LET k == req[c].doc IN
    /\ pc[c] = "write"
    /\ req[c].kind = "patch"
    /\ req[c].seen.live
    /\ Merge(k, req[c].fields)
    /\ acked' = [acked EXCEPT ![k].body = Extend(@, Stamp(req[c].fields, clock + 1))]
    /\ clean' = [clean EXCEPT ![k] = @ /\ exists[k]]
    /\ Finish(c)
    /\ UNCHANGED exists

\* The body a direct write stores: a PATCH (dot-path, sentinel, or a
\* collection with claim strips) is applied to the document read at the
\* start, a PUT replaces.  db.set(merge = false).
NewBody(c) ==
    LET new == Stamp(req[c].fields, clock + 1)
    IN IF req[c].kind = "direct" THEN Extend(req[c].seen.body, new) ELSE new

\* The acknowledged history applies the same write to what it has.
AckedBody(c) ==
    LET new == Stamp(req[c].fields, clock + 1)
    IN IF req[c].kind = "direct" THEN Extend(acked[req[c].doc].body, new) ELSE new

StoreDirect(c) ==
    LET k == req[c].doc IN
    /\ pc[c] = "write"
    /\ \/ req[c].kind = "direct" /\ req[c].seen.live
       \/ req[c].kind = "put"
    /\ clock < MaxClock
    /\ clock' = clock + 1
    /\ stored' = [stored EXCEPT ![k] = NewBody(c)]
    /\ exists' = [exists EXCEPT ![k] = TRUE]
    /\ acked' = [acked EXCEPT ![k] = [live |-> TRUE, body |-> AckedBody(c)]]
    /\ clean' = [clean EXCEPT ![k] =
         @ /\ ~Buffered(k) /\ (req[c].kind = "direct" => req[c].seen = Read(k))]
    /\ Finish(c)
    /\ UNCHANGED <<pending, inflight, draining>>

Remove(c) ==
    LET k == req[c].doc IN
    /\ pc[c] = "write"
    /\ req[c].kind = "delete"
    /\ stored' = [stored EXCEPT ![k] = EmptyBody]
    /\ exists' = [exists EXCEPT ![k] = FALSE]
    /\ acked' = [acked EXCEPT ![k] = Gone]
    /\ clean' = [clean EXCEPT ![k] = @ /\ ~Buffered(k)]
    /\ Finish(c)
    /\ UNCHANGED <<pending, inflight, draining, clock>>

-----------------------------------------------------------------------------
\* GET.  The validator is compared with the driver's version first; 304 lets
\* the client keep the body it already has.
StartGet(c, k, conditional) ==
    /\ pc[c] = "idle"
    /\ conditional => tag[c].doc = k
    /\ LET unchanged == conditional /\ tag[c].seen = Read(k)
       IN /\ pc' = [pc EXCEPT ![c] = IF unchanged THEN "done" ELSE "route"]
          /\ req' = [req EXCEPT ![c] =
               [kind |-> IF unchanged THEN "getif" ELSE "get", doc |-> k,
                fields |-> {}, seen |-> IF unchanged THEN tag[c].seen ELSE Gone]]
    /\ UNCHANGED <<vars, docVars, tag>>

\* Mutated form of RouteGet: the buffer is not asked.
RouteGetPast(c) ==
    /\ pc[c] = "route"
    /\ pc' = [pc EXCEPT ![c] = "fast"]
    /\ UNCHANGED <<vars, docVars, req, tag>>

\* coalescer.has picks the path: documents with a pending body go the owned
\* way, everything else streams the stored bytes.
RouteGet(c) ==
    /\ pc[c] = "route"
    /\ pc' = [pc EXCEPT ![c] =
                IF pending[req[c].doc] # None THEN "owned" ELSE "fast"]
    /\ UNCHANGED <<vars, docVars, req, tag>>

\* get_json: the stored bytes with their version, or the owned path when the
\* document is missing.
GetFast(c) ==
    LET k == req[c].doc IN
    /\ pc[c] = "fast"
    /\ IF exists[k]
         THEN /\ pc' = [pc EXCEPT ![c] = "done"]
              /\ req' = [req EXCEPT ![c].seen = Read(k)]
              /\ tag' = [tag EXCEPT ![c] = [doc |-> k, seen |-> Read(k)]]
         ELSE /\ pc' = [pc EXCEPT ![c] = "owned"]
              /\ UNCHANGED <<req, tag>>
    /\ UNCHANGED <<vars, docVars>>

\* get_owned reads the driver, then overlays the pending body.
GetOwned(c) ==
    /\ pc[c] = "owned"
    /\ pc' = [pc EXCEPT ![c] = "overlay"]
    /\ req' = [req EXCEPT ![c].seen = Read(req[c].doc)]
    /\ UNCHANGED <<vars, docVars, tag>>

GetOverlay(c) ==
    LET e == pending[req[c].doc] IN
    /\ pc[c] = "overlay"
    /\ pc' = [pc EXCEPT ![c] = "done"]
    /\ req' = IF e = None THEN req
              ELSE [req EXCEPT ![c].seen =
                      [live |-> TRUE, body |-> Extend(req[c].seen.body, e.body)]]
    /\ UNCHANGED <<vars, docVars, tag>>

EndGet(c) ==
    /\ pc[c] = "done"
    /\ pc' = [pc EXCEPT ![c] = "idle"]
    /\ req' = [req EXCEPT ![c] = NoRequest]
    /\ UNCHANGED <<vars, docVars, tag>>

-----------------------------------------------------------------------------
\* The flusher and the drain, with what they do to the documents.
\* A drain and a flush that hold one document at the same time race each
\* other to the driver.
Raced(k) == inflight'[k] # None /\ draining'[k] # None

Take == /\ TakeDue \/ DrainTake
        /\ clean' = [k \in Docs |-> clean[k] /\ ~Raced(k)]
        /\ UNCHANGED <<exists, acked, reqVars>>

\* set(merge = true) is an upsert: a deleted document comes back.
Flushed(k) == /\ FlushStores(k) \/ DrainStores(k)
              /\ exists' = [exists EXCEPT ![k] = TRUE]
              /\ UNCHANGED <<acked, clean, reqVars>>

Kept(k) == /\ WindowEnds(k) \/ FlushFails(k) \/ Refold(k) \/ Requeue(k)
           /\ UNCHANGED <<docVars, reqVars>>

\* The admitted losses: the history forgets what the buffer dropped.
Lost(k) == /\ GiveUp(k) \/ DrainLoses(k)
           /\ acked' = [acked EXCEPT ![k].body = FullView(k)']
           /\ UNCHANGED <<exists, clean, reqVars>>

-----------------------------------------------------------------------------
Handler(c) ==
    \/ \E k \in Docs, kind \in Writes, F \in SUBSET Fields :
         StartWrite(c, kind, k, F)
    \/ \E k \in Docs, conditional \in BOOLEAN : StartGet(c, k, conditional)
    \/ Refuse(c) \/ PatchCoalesced(c) \/ StoreDirect(c) \/ Remove(c)
    \/ RouteGet(c) \/ GetFast(c) \/ GetOwned(c) \/ GetOverlay(c) \/ EndGet(c)

Background == \/ Take
              \/ \E k \in Docs : Flushed(k) \/ Kept(k) \/ Lost(k)

\* What a GET under way may answer, noted at every step of the system.
Observe ==
    watch' = [c \in Clients |->
       LET k == req'[c].doc IN
       IF pc'[c] \notin GetSteps THEN NoWatch
       ELSE IF pc[c] = "done" THEN watch[c]
       ELSE [flown  |-> \/ watch[c].flown
                       \/ inflight'[k] # None
                       \/ draining'[k] # None,
             during |-> watch[c].during \cup {acked'[k]}]]

WNext == (Background \/ \E c \in Clients : Handler(c)) /\ Observe

WSpec == WInit /\ [][WNext]_wvars

-----------------------------------------------------------------------------
\* The exactness contract (coalesce.rs:4-8) with its real side conditions: the
\* disk and the layers over it are the acknowledged document unless a direct
\* write met a buffered body, a read-modify-write was overtaken, or a drain
\* met a flush.  Those three are the only ways to lose or reorder a write
\* that was acknowledged and not given up.
ExactUnlessOverlapped ==
    \A k \in Docs :
      clean[k] => /\ FullView(k) = acked[k].body
                  /\ exists[k] = acked[k].live

\* Every field of a plain GET's answer had its acknowledged value at some
\* moment of the request (main.rs get_owned: driver first, then the overlay),
\* unless the flusher or a drain held the document meanwhile.  Not the same
\* moment for all fields: a PUT and a PATCH between the read and the overlay
\* give a body that mixes the two.
GetIsCurrent ==
    \A c \in Clients :
      /\ pc[c] = "done" /\ req[c].kind = "get"
      /\ clean[req[c].doc] /\ ~watch[c].flown
      => LET seen == req[c].seen
             during == watch[c].during
         IN /\ \E a \in during : seen.live = a.live
            /\ \A f \in Fields : \E a \in during : seen.body[f] = a.body[f]

=============================================================================
