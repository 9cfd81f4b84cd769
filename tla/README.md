# A TLA+ model of hakobackend

hakobackend is an HTTP gateway in front of a document database. This directory
holds TLA+ specifications of the parts of it where order, timing and corner
cases decide, the TLC configurations that check them on small instances, and
proofs, checked by TLAPS, of what matters most. `PROJECT.json` lists the
components, the hazards of the code at their lines, the runs, the theorems, the
mutated definitions that show that each property can fail, and for every
definition the source lines it stands for.

To check a run: `tlc -config MCCoalescer.cfg RetryBudget.tla`. To check the
proofs: `tlapm WritePathProofs.tla`, and likewise `BatchProofs.tla`, `SignInProofs.tla`,
`HotReloadProofs.tla`, `RealtimeProofs.tla`, `DriversProofs.tla`, `HakoProofs.tla` and `FilesProofs.tla`.

Paths below are relative to `src/`; `main.rs`, `coalesce.rs`, `realtime.rs`,
`tokcache.rs`, `loginguard.rs`, `config.rs`, `alias.rs` and `files.rs` are those of
`crates/hakobackend-server/src/`, `auth-local` is
`crates/hakobackend-auth-local/src/lib.rs`, and a driver's `lib.rs` is that of
`crates/hakobackend-db-<driver>/src/`.

## 1. The system

The server is one process: an axum router whose handlers run as tasks of a
tokio runtime, a few background tasks, and one or more databases behind the
trait `Database`. Handlers share `AppState`, whose parts each have a lock of
their own; nothing in it spans an `await`. Every `await` on a driver or a lock
is therefore a point where other handlers and tasks run, and that is where most of the
hard behaviour is. The rest is in the pure parts, where five drivers, a rule
language and a query language must mean the same thing everywhere.

| component | state | operations | interacts with | what makes it correct | modules |
|---|---|---|---|---|---|
| PATCH coalescer (`coalesce.rs`) | one pending body per document, its age and failures; the batch in flight | merge, overlay, flush_due, flush_all | write and read handlers, reload, drivers, bus | acknowledged PATCHes are stored in order, retried within the budget, never put over newer ones | Coalescer, WriteBehind |
| document handlers (`main.rs` write_doc, remove, get_or_list, get_owned) | locals of each request | PUT, PATCH, DELETE, GET, list | coalescer, drivers, policy, bus | a write that was acknowledged is not lost or reordered; a GET shows what was acknowledged | WritePath |
| batch and transaction (`main.rs` run_ops) | a list of operations and the copies they were gated on | batch, transaction | drivers, policy, bus | all or nothing, as if one after the other, events in order | Batch |
| hot snapshot (`main.rs` HotCache) | a copy of `AppState`'s Arcs with a time stamp | get, invalidate | every handler, reload | a reload takes effect, nothing mixes for ever | HotReload |
| token cache (`tokcache.rs`) | token to verdict with expiry | get, put, remove, clear | resolve_token, reload, logout | no verdict outlives the chain that gave it | HotReload |
| reload (`main.rs`), configuration (`config.rs`) | the parts of `AppState`, the settings in force and those of the last report | reload, resolve, diff | all of the above | all or nothing; the caches do not bring the old world back; the report is true | HotReload, Settings |
| local sessions (`auth-local`) | documents of `__sessions` | login, login_external, refresh, logout, revoke_user, register | drivers, token cache, login guard | a refresh token works once, reuse is noticed, sessions do not mix | Sessions |
| realtime (`realtime.rs`) | snapshot per subscription; buses, feeds and pollers per collection | emit, subscribe, run_source, apply_diff, ingest_change | every write handler, drivers, policy | what the subscriber is told adds up to the collection | Realtime |
| SQLite, PostgreSQL, MySQL, RethinkDB drivers | rows of flat tables, or a table per collection; indexes and their registry | the trait `Database` | handlers, files, sessions | atomic requests, nothing left by a failed one, collections apart, the same answers everywhere | Drivers, Queries, Indexes |
| HakoDB driver, TTL wrapper | documents, bin, shadows of unique fields, the registry | set, insert, delete, force, restore, relocate, declare, count, sweep | handlers, external engine | unique fields stay unique, force leaves no trace, the dead are not seen and go | Hako, Indexes |
| files (`files.rs`) | bytes, metadata in documents, sweeper | upload, removal, download, sweep | drivers, policy | bytes of a ready file are there, what a crash leaves goes; a link opens its file | Files, Downloads |
| policy, field operators, aliases, core queries | none (pure) | allow, allow_fields, apply_update, rewrite, doc_matches, sort_and_limit | handlers | independent of the order of hash maps; equal to their reference on every input | Policies, Atomics, Aliases, Queries |
| login guard (`loginguard.rs`) | failures per login within a window | locked_secs, fail, clear | auth_login | the limit holds under concurrent attempts but for those under way | SignIn |
| rate limiter | counters per address | check, set_quota | middleware, reload | the limit holds under concurrent requests | - |
| hakocluster driver, GitHub and external providers, DPoP, audit text, benchmarks | mostly none | routing, HTTP, cryptography, formatting, measuring | auth chain, config | not a matter of order or timing in this code | - |

## 2. What is modelled

A step of a concurrent model is what the code does between two awaits (or between two
lock acquisitions): it reads, decides and writes at once, and everything else may
happen before the next one. Every history variable is named as such where it is declared; where a
property needs one that the model has no other use for, it is added in a small module over the model
(`RetryBudget`, `HotReloadDrain`, `Revocation`), which the run and the proof share. Alternatives whose
conditions overlap are IF ... ELSE in the order of the code: CASE would leave the choice open.

### Coalescer, WriteBehind, RetryBudget

`Coalescer` is `coalesce.rs`. A body is a function from fields to versions: the
version of a field is the number of the acknowledged write that supplied it, 0 a
field that is not there, so that "newer" can be said; payloads are not told
apart. `pending` is the map of the same name; `inflight` is the local `due` of
`flush_due`, which is why a body can be out of the map and not yet on disk;
`draining` is the local `all` of `flush_all`. `Merge`, `TakeDue`, `FlushStores`,
`FlushFails`, `Refold`, `Requeue`, `GiveUp`, `DrainTake`, `DrainStores`,
`DrainLoses` are its branches. `WindowEnds` is the passage of time. A write that
returns an error is taken not to have been stored.

`WriteBehind` is the abstract specification: one value that the clients were told
they have, one on disk that may lag and only moves forward, no buffer.
`ImplementsWriteBehind` maps `doc` to the overlay of the three layers and
`durable` to the store. It is stated for `SteadySpec`, the behaviours between two
reloads: a drain that overtakes the flusher breaks it (see WritePath). `RetryBudget` counts the failed
writes of each document since the last good one, which is what `DropsOnlyAfterBudget` compares the code's
own counter with.

### WritePath, WritePathProofs, MCWritePath

`WritePath` extends `Coalescer` with the handlers: read, then decide and write;
for GET the validator, the routing by `coalescer.has`, the stored bytes or the
owned path with its overlay. Requests of all kinds run concurrently with the
flusher and a reload's drain. "patch" is a PATCH the coalescer takes, "direct" one
that bypasses it (dot path, sentinel, or a collection with claim strips), applied to the
document read at the start. Two history variables say what is right: `acked` is the
document the acknowledged requests produce one at a time, `clean` is dropped by
the overlaps the code does not guard against. `ExactUnlessOverlapped` says that
there are three of these and no more: a direct write or delete meets a buffered
body; a read-modify-write is overtaken; a drain meets a flush in flight. `createdAt` and
`updatedAt`, field policies and events are left out.

What the side conditions of the two properties stand for is behaviour of the code
that its texts do not promise, or deny:

- a GET that arrives while the flusher holds the body (out of the map, not yet on
  disk) misses an acknowledged PATCH (`main.rs:3047` and `coalesce.rs:13` say that
  read-your-write holds inside the window), and the validator is compared with the
  driver's version before the buffer is asked;
- a PUT, DELETE or bypassing PATCH that is acknowledged while an older PATCH of the
  document is buffered is later overwritten by that PATCH (`COALESCING_NOTE.md:14-17`
  shows that folding is exact among the bodies that are folded; this one is not).

### Batch, BatchProofs, MCBatch

`run_ops` behind `POST /batch` and `/transaction`: every operation reads its document and
is gated by method (`Gate`), then all are prepared from those copies, gated by field
and applied in one transaction of the driver (`Apply`, which follows the
reference driver of the core crate), then the events are emitted. A body says which operation of which
client wrote each field. A rule is one of four kinds for each method: open, closed, "uid-self",
which looks at the document that was read (a create under it is refused, since there is none), and "fields", which looks at the
data to be stored. Of the caller's identity only the documents that bear its uid matter (`Own`). A read at a gate
may fail, and then the document counts as absent (`main.rs:3833`, `.ok().flatten()`): an update is gated as a create,
and a merge starts from nothing. The claim strips of `strip_write` are left out.
`BatchIsSequential` compares an applied request with its operations sent one
after the other, each with its gates, reads and verdicts included. Its exceptions are the code's: a document
written between its gate and the transaction, or whose read failed there (the copy wins), and a
request that writes a document and then goes by the copy of it again (both merges start from the copy
read before, so the later one forgets the earlier; a rule that looks at the document sees the old one). `BusFollowsStore` excepts documents
whose events were overtaken between a commit and its emit by another
request's.

### HotReload, HotReloadDrain, HotReloadProofs, MCHotReload

`AppState` is three parts, "dbs" (db and dbs), "auth" (auth and local) and
"service", each the number of the reload that installed it. `HotCache::get` is
hit, miss, one step per part read, and the second look under the write guard;
`resolve_token` is lookup, snapshot, verdict and put; `reload` is every step of the
handler in its order: open, `hot()` for the identity, audit level, chain, the swaps,
clear, invalidate, drain, service keys, `hot()` again. Several administrators may reload
at once, as nothing in the code prevents it. The policy file's own reload and
quotas are left out; what becomes of the settings is in Settings. `HotReloadDrain` notes the reloads that were
not alone.

Two behaviours worth knowing. The handler sets the audit level, and `config.rs` exports
`UB_PUBLIC_URL`, before it opens the chain, so a
reload that fails there leaves both behind, although `main.rs:2212` says the old
config is fully retained; `RefusedReloadLeavesNoTrace` is about what requests
are served from, where the sentence is true. And a request that took its snapshot
before the swap may cache its verdict after the clear: a context of the old
chain then survives the flush (`main.rs:2252` says old contexts die with it) for as
long as its own lifetime. `OldWorldDies` says that it ends there.

### Settings

`config.rs` over the life of a process: which source of a value wins (flag, file,
deprecated spelling, default; appended lists; the fragment file), what a reload puts in force,
what it only reports, and the snapshot it compares with next time. One key stands for all
that are treated alike. `ReportTellsTheTruth` leaves the public URL out: the first value
given stays in force whatever the report says. "In force" is what a new reader of the settings is given. Tasks that run
already may keep an older value: a reload reports `ttl_sweep_secs` and `realtime_poll_secs` as applied
(`config.rs:1215`, `1229`), while sweepers and pollers that were started before keep their interval until they end. These two keys are
not among the modelled ones.

### Sessions

A session is a document of `__sessions`: owner, current and previous refresh hash. Every
driver call of a handler is one step. Tokens are numbered as they are
drawn; a hash is its token (SHA-256 is taken to be injective). A refresh may present any token drawn
before: a retry, a second tab, a thief. `Rotate` is an upsert of the copy read at the
start, so a deleted session may come back and the later of two rotations wins, as in
the code. `spent` and `family` are history. Registration, access tokens, passwords and
DPoP are outcomes without state. Reuse is noticed for the previous hash only: a
token two rotations old is refused and revokes nothing, although
`SECURITY_RULES.md:112` speaks of any replay.

### SignIn, Revocation, SignInProofs, MCSessions

`SignIn` puts `auth_login` and the login guard around the logins of `Sessions`: the guard is
asked (`Attempt`), the password verified, the session stored and the count cleared
(`LoginSucceeds`), or the failure counted (`LoginFails`). `fails` is the count of
the entry; the lock needs no variable of its own, because `fail` sets the end of the lock and the end of the
window to the same instant, so that the two pass together (`WindowPasses`). Attempts under way
when the lock closes are verified all the same, and one that succeeds opens it again;
`GuessesBounded` says how many guesses that makes. The code counts by the text of the login: a user
with an e-mail has two counters, here every login is an id. `Revocation` notes the sessions stored while
`revoke_user` is at work. `MCSessions` is the instance of `Revocation`, and with it of `SignIn` and `Sessions`.

### Realtime, RealtimeProofs

One subscription to one collection: the store with its commits, handlers that
commit and emit in two steps, writes past the gateway, the bus, the driver's feed
(`watch`) or the shared poller, and the task `run_source` with
`ingest_change`, `apply_diff` (lists and the gets that verify candidate
removes), the flood gate and the resync. A document has the number of the
write that stored it; `Fitting` are the values that match the filters,
`Readable` those the policy lets through. `view` is what the subscriber knows, by the
events it was sent; `silent` notes the documents that the code moved in the
snapshot without a word: a candidate remove whose get finds another version, for instance, is put
into the snapshot and never told, although `realtime.rs:11-13` says that the poll heals
anything the faster lanes missed. apply_diff
takes its list over before the gets here and
after them in the code; the gets concern other keys and nothing else reads the
snapshot meanwhile. The client is taken to know the list that subscribe reads.

### Drivers, DriversProofs, MCDrivers

get, insert, set, delete and run_transaction of the four drivers other than HakoDB,
statement by statement, on one document id of a few collections. The SQL drivers put every
collection with the same even segments into one table keyed by id; `Slot`, `Sees` and
`Updated` say whose row a statement finds and what it leaves of it. Inside a transaction SQLite
and MySQL read the snapshot of the first read, PostgreSQL what is committed; a write takes the row's lock, and a SQLite
transaction that was overtaken, or meets another writer, is refused as busy. Any statement may fail, and then has done
nothing. One that commits, by itself or as the COMMIT of a transaction, may also answer an error after it took place, because the
connection broke before the engine's reply (`Commits`; db-postgres `lib.rs:611`, db-mysql `lib.rs:672`, db-sqlite
`lib.rs:720` map every error of a commit to an error of the request). The operations of a batch include the put that
must find its document and replaces it, which is what `run_ops` sends for an update. RethinkDB has no transactions: `Gather`, `Apply...` and `Undo` are
the driver's emulation, whose requests may go unanswered (done or not), be
retried once, and fail in the rollback too.

`RequestsAreAtomic` says a request did, at one moment, what its operations do in one go.
The exceptions are named: `Overtaken` (the driver stores what it read before another client's
write), `torn` (an answer was lost), `Misjudged` (RethinkDB, a
batch that goes on after its own delete), and a merge outside a transaction that found no row and
then could not insert one. `FailuresLeaveNoTrace` says that an SQL driver changes a row only in the step that ends
a request, that a refusal changes nothing, and that an error means nothing was done, or all of it with the answer lost;
of RethinkDB it claims nothing for a batch that was overtaken or lost an answer. `CollectionsKeepApart` leaves out two
things: the top-level collection under the table's own name, and a full replace whose ON CONFLICT takes another subcollection's
row over; that row then is gone for the other, but no document of the other is made or changed.

`BatchContract` is the sentence of the driver contract for the emulated transaction; its counterexample is the one finding that
has a run of its own: a batch that reads a missing document and then merges into it with must_exist is answered ok
and creates the document, because must_exist is asked of the first operation on a document only (db-rethinkdb `lib.rs:616-623`). That
the Delete arm (656-666) does not enter the overlay breaks the same sentence in another way.

### Queries

The reference semantics of filters, cursors, ordering and paging (the core crate's
conformance helpers and `MemDb`), and what each driver makes of the same query: the SQL text's meaning
with missing fields, JSON null, SQLite's own booleans and each engine's order of types, and
the split of RethinkDB's list between server and driver. How an engine compares JSON values
is external, from its manual. `FilterAgrees` and `PageAgrees` are stated for fields of one type (`OneType`,
`OneTypePage`: the column, the filter beside it and the cursor). They must be: `cmp_json` calls values of
different types equal, which is no weak order, and `sort_by` promises nothing of a comparison that is none. They except:
PostgreSQL, where "!=" does not match a missing field, missing fields sort last
instead of first, and a cursor on the id compares text with jsonb and is refused; RethinkDB, where a
page pushed to the server below a filter it cannot evaluate, or with an offset,
is applied twice. `DRIVER_CONTRACT.md` section 5 promises exactly the same results.

### Atomics, Policies, Aliases

`Atomics`: `apply_update` visits the entries of a HashMap, so the model visits them in
every order. Updates with a key that is a path into another have a result that depends
on the order; for all others `MergesAreLocal` holds, and a create says the same as a merge over nothing.
An operand may be of any type: a create stores `n` and `elements` as they
come, a merge takes what is no number for 0 and what is no array for none (`AsNumber`, `AsArray`), so the second claim is made of
updates whose operands are numbers and arrays (`Plain`), and the rest are inputs of the first. Numbers are multiples of one
half, enough for the two branches that keep integers integral (an operand 1.0, which a create keeps and a merge stores as 1, is
among those the claim leaves out). That sums are cut to 64 bits and f64 loses integers above 2^53 is not modelled.

`Policies`: the parsing of rule texts (word, claim, fields), the
resolution of a collection to its governing rule whatever order the patterns are visited in
(`RulesAreLocal`: a rule for another collection does not change the verdict), the decision, the scopes of
service keys and the field gate. `StrangersNeedOpenRules`: what somebody without claims may
do, some rule says in so many words; a text that is misspelt or half written
opens nothing. A `fields:` rule speaks of data: it is asked where a document is stored and in a GET of a
deep path; a DELETE and a plain read pass it.

`Aliases`: the table is compiled or refused as a whole, the first match wins, slots are
substituted, and the request's query is merged; `AliasKeepsItsWord` says whose value a
handler then reads for each key, the pinned database first of all. A key is a name and a spelling, since
`merge_query` compares the text of the query and the handler decodes it afterwards. The property is claimed of the keys
that alias and request spell alike, with `db` spelt plainly. It does not hold of the others: a request that writes
`%64b=other` behind an alias that pins a database is not seen to name `db`, its pair comes last and is the one that is read, although
`alias.rs:358-359` and section 16 of `HTTP_CONTRACT.md` say that a request can never escape the pinned one. A slot in the key of a
JSON template is checked by nothing and is the other exception.

### Downloads

Parsing of a file path, who may download, minting and use of signed links, and ranges.
The signature is what it signs. A link is text that `files.rs:607` puts together without encoding, and what it asks for when it is opened
is another matter: `Follow` cuts it at "?" and "#", decodes percent signs, and takes dot segments back, as `Reading` says of each
id (names of collections and fields can hold none of these; `valid_doc_id` lets all of them into an id). So `LinkOpensItsFile` says that a link never
opens another file than its own, and that it opens its own if the id reads as it is written. An id such as `a?b` or `%41`
gets a link that is refused, which nothing in the repository's texts mentions. Also excepted, as the code has it: a link for the default field "file" in a nested
collection names another file when it comes back (`parse_target` takes the
last segment for the field), an empty file announces one byte, and an open range that begins past
the end is answered with the whole file and 200, not 416 as for closed ones. A link that has ended, or is
turned to another database, is refused with 403, or with 400 where its path no longer parses: the attempt to prove
`LinkOpensItsFile` showed that the property had named only the first.

### Inputs, MCAlgorithms

The pure parts have no steps. Their run takes every input of small sets as an initial state (`Inputs`: one call, its
family and arguments) and states the properties of that input; the modules `QueryInputs`, `PolicyInputs`, `AliasInputs`,
`SettingInputs` and `DownloadInputs` state them one part at a time, so that the proof modules can take up the
property that the run checks without the rest. Field operators and indexes stay in `MCAlgorithms`.

### Files, FilesProofs, MCFiles

Uploads and removals as they treat the metadata document: read, pending
marker, bytes under their hash (found there or renamed into place), read again, ready;
the cleanup when the disk refuses; and one pass of the sweeper page by page: stale
pendings, then bytes that the scan has seen no reference to. Ages are the two comparisons the code makes
(ten minutes, one hour). Documents with a TTL vanish from the scan when they die. A temporary file has an age, too (`tmp` while
its request runs, `left` when it is nobody's): a body may break off or take hours, the sweeper reaps any temporary file that is
older than an hour, also one that is still being written, and a rename keeps the age the file has. `sweep_once` asks for its pages
without an order (`files.rs:886-891`), and an engine that stores a row anew when it is updated, as PostgreSQL does, need not give the
next page from the same order; so a page is any rows, as many as there are past the offset (`Listings`). `ReadyHasBytes` holds but for
three cases, collected in `tainted`: the scan was cut (a list failed, a
document vanished and the next page skipped one, or a page was not the window of the one order), an upload found bytes that were already old or
renamed a temporary file that was (`promote` does not
refresh them), or a copy of a document that names the hash was in flight while a page was listed. The last takes a
document with two file fields: an upload or a removal of one field has read the document, the other field is
removed, the page is listed without it, the copy is stored and puts the reference back, and the bytes are reaped.
`missed` holds the hashes of the last two cases.

`GarbageGoes` says of the three kinds of garbage: bytes without a reference go, temporary files that are nobody's go, and stale
pending markers go if time and again there is a pass that sees every document (a cut scan may miss the marker each time).
The sweeper's own removals are taken to succeed; the code ignores their errors and tries again in the next pass. The temporary file of a
crash counts as young again for at most another hour.

### Hako, HakoProofs, MCHako

One collection of the HakoDB driver under the TTL wrapper: plain writes when no field is
unique, serializable transactions with shadow documents when one is; soft delete into
the bin, forced delete in its three steps, restore, relocation, the retention sweep (`Retire`),
declaring a field unique over what is there, restart with the registry loaded again; the
clock, count as two queries, the TTL sweeper in its two steps with the cap.
`ShadowsAreTrue` holds while the field is "unique by right" (`promised`): restore and relocate put
documents past the shadows, and a field declared over existing values only
overwrites them, after which two documents may hold one value.

### Indexes

Create, drop, list and provisioning of indexes on the five drivers, a statement at a time, with
failures at any of them. A name is its sequence of words, since physical names join words
with underscores and can coincide. `IndexesAreReal` is about definitions that clash with no other
(`Clash`): under a used name `IF NOT EXISTS` is silent and a unique index is listed that is not
there (PostgreSQL's cut of a name to 60 characters, after which long names coincide too, is left out) (db-sqlite `lib.rs:756`, db-mysql `lib.rs:701`; `HTTP_CONTRACT.md:105` promises the constraint), and on HakoDB a named index
is known by its fields.

## 3. The runs

| run | instance | shows |
|---|---|---|
| coalescer | 2 documents, 2 fields, 2 retries, 3 writes | types, budget, order of the layers, the refinement, that bodies are dropped only after the budget, that the buffer drains |
| write_path | 1 document, 1 field, 2 requests, 1 retry, 2 writes | exactness but for three overlaps; what a GET may answer |
| batch | 2 documents, one request of two operations of any kind beside a merge or delete, six sets of rules (open, one method closed, own documents for one or two methods, fields), failing reads | a request does what its operations do in sequence; events end with the store |
| hot_reload | 1 request, 2 administrators, 1 token, 2 reloads | refused reloads leave nothing behind; the drain goes to the new databases unless overlapped |
| hot_reload_live | 2 requests, 1 administrator, 1 reload | the old world dies out |
| sessions | 2 requests, 2 users, 3 tokens, 2 attempts | rotation is final, sessions do not mix, revocation is complete, guesses are bounded |
| realtime | 1 document, 3 values, 1 writer and foreign writes, 3 commits, channels of capacity 1, both kinds of driver | the view follows the snapshot, no repetition, the poller heals the snapshot |
| drivers | 4 drivers, 2 clients, 3 collections, transactions of up to 2 operations, any number of lost SQL answers, 1 lost RethinkDB answer | atomic requests, clean failures, collections apart |
| batch_contract | RethinkDB, 1 client, 2 operations | counterexample: a batch that creates the document it must find |
| hako | 2 documents, 1 field, 1 value, 2 clients and the sweeper, 2 instants, 3 requests, 1 restart | shadows are true, force leaves no trace, count is current, the dead are swept |
| files | 2 documents, 1 field, 1 content, 2 clients, pages of 1 in any order, 2 requests, 1 fault, 1 mortal document | ready files have bytes, garbage goes |
| algorithms | every input of the sets in `MCAlgorithms`, histories of up to 3 index requests, lives of 2 reloads | the pure parts against their reference |

**Bounds.** `MaxClock`, `MaxWrites`, `MaxReloads`, `MaxTokens`, `MaxRequests`, `MaxFaults`,
`MaxRestarts`, `MaxTime` and `MaxOps` end otherwise
unbounded counters and lists. Three PATCHes suffice for a body on disk, one in flight and one
pending, on top of each other, with failures; no code of the coalescer looks at more than
one document at a time except the loop over the batch, for which there are two. `MaxFails` is
2 (10 in the code), enough for a first failure, a counted retry and the last. Two requests are what an
overlap takes; the background tasks are further actors. Two operations are what it takes for one to see
the other in a batch; in drivers both clients may send two. Three tokens
give a login and two rotations, or two sessions and a third while they are revoked; that rotation is final and
sessions do not mix is proved for any number. Two attempts are a failure that does not lock and one that does. Two reloads give a refused one under way
beside a successful one. Channels of
capacity 1 lag at once; the code's 256 and 4 lag too. One writer suffices in Realtime for
events out of order, since a foreign commit may come between a commit and its
emit. In Hako two documents with one value are what a unique constraint is about; a sweep with Cap 1 leaves one
document for the next pass. In Files, pages of one document over two documents give a second page, and one content
shared by both is what reference counting is about, and two requests are an upload beside a removal or another upload; with one
field no copy carries another field's hash, so the third case of `ReadyHasBytes` needs two, which the theorem covers. In batch the two
documents tell the caller's own one from others. Values of `MCAlgorithms` give each type, two of each where order
matters, missing fields, null and arrays of mixed types.

**Symmetry** is used where the named sets are interchangeable and every property and fairness condition is symmetric in
them: requests and fields in write_path, administrators in hot_reload, requests
and users in sessions, clients and subcollections in drivers, clients in hako. In hako a liveness property is checked
under it: neither it nor the fairness names a client, and the run ends the same way without symmetry, in
three to four minutes. The run of files has none.

**Deadlock** is checked in write_path, drivers (where finished clients stutter explicitly), algorithms and
batch_contract. The other specifications may stop at their bounds or
when no client comes, so their configurations switch it off.

**Fairness.** Liveness is checked in five places.
coalescer: weak fairness of the flusher's steps and of the window, since the flusher is a spawned
task on an interval timer; clients are free. hot_reload_live: weak fairness of
each handler's steps once it has begun (the runtime polls what is ready) and of
the lifetimes of cache entries (a clock); that a request or a reload comes is not
assumed. realtime: weak fairness of emits, registrations and the poller, strong fairness of taking from each lane
(StreamMap starts at a random one) and of the outcomes of a get and a resync (not every call fails); that the poller's
lists stop failing is a premise of the property, not of the specification. hako: weak fairness of the sweeper, a spawned task on a timer. files: weak fairness of
uploads whose body has come (a client may stall or break off), of the file sweeper and of the TTL sweeper, strong fairness of the hour:
it passes between two passes of a sweeper that runs again and again. That there is always another pass which is not cut is a
premise of one part of `GarbageGoes`, not of the specification.

## 4. The proofs

`WritePathProofs`, first about `Coalescer`, for every set of documents and fields, every budget and bound:

- `TypeCorrect`, `Spec => []TypeOK`, reloads included; one step per action.
- `RetriesBounded`, `Spec => []RetriesWithinBudget`. The invariant needs its second half, that
  an entry created while its predecessor is in flight has not failed yet: `Refold`
  raises the counter without looking at the budget.
- `LayersAlwaysOrdered`, `SteadySpec => []LayersOrdered`, with one lemma per action. The invariant is inductive
  together with `TypeOK`.
- `CoalescerImplementsWriteBehind`, `SteadySpec => ImplementsWriteBehind`: a merge is a
  `Patch`, a store a `Persist`, a dropped body a `GiveUp`, all other steps
  leave the overlay of the layers as it is; this rests on `LayersOrdered`, without which
  a store could put an old field over a newer one.
- `DropsKeepToTheBudget`, `BSpec => DropsOnlyAfterBudget`. `BInv` adds to `RetriesBounded` that
  no counter knows of more failures than there were, wherever the code keeps it: in the buffer, or in the batch whose last
  attempt may have failed and is not counted yet (`Counted`).

Then about the handlers, for any documents, fields and requests: `ExactUntilOverlapped`,
`WSpec => []ExactUnlessOverlapped`. The view of a document is four layers, disk, flight, drain and buffer, and
`Extend` is associative with the empty body as its unit, so a step that moves a body to the layer below it
changes nothing that clients see, provided the layer between is empty. That is
what `Exact` adds: a document whose requests did not overlap is never with the flusher and a drain at once, and nothing
is buffered for a document that is gone, so that no flush brings one back.
`GetsAreCurrent`, `WSpec => []GetIsCurrent`: `Answers` says of a GET that has read the driver but not yet the buffer
that each field of its copy was on disk at a moment of the request, and is either still what is acknowledged or
lies under a newer one in the buffer, which the overlay will find as long as neither the flusher nor a drain took it.

`BatchProofs`, for any documents, clients, rules and lengths of a request: the types and the invariant `BInv`, `BusAlwaysFollows`
and `BatchesAreSequential`. `Gated` says what the gates have let through so far, by the copies that were read (the rules of a run do not change), and `Bus` that
of a document nobody was overtaken with, at most one sender is between its commit and its events, and that sender
will tell what the store holds. That the copies of a request which was not overtaken are still the store at its commit makes the batch what
its operations do one after the other: the two recursive functions, one over the prepared operations and one
over operations with their gates, go through the same stores (`SequentialIsTransaction`).

`SignInProofs`, first about `Sessions`, for any numbers of clients, users and tokens: its type invariant, `RotationIsFinal`
and `SessionsNeverMix`. Neither of the two
properties is inductive: a handler at `rotate` holds a copy that may be stale. `IInv` adds what is
known of such a copy: its token is spent or still the session's, was drawn for
that session, and the token to be drawn next was never used. `MoveKeepsInv` and
`WriteKeepsInv` say once what a step that only moves handlers, and a step that writes one
session, must establish; the actions follow from them.

`HotReloadProofs`, for any numbers of requests, administrators, tokens and reloads:
`RefusedReloadsLeaveNoTrace`. The property speaks of reloads that have failed; the invariant says the same of
every reload that may still fail (`Early`, the steps before the swaps): its number is its own (`Numbered`) and is in no
part, no snapshot and behind no context (`Clean`). `QuietStep` says once what a step that installs nothing must establish,
`InstallKeeps` what a swap must; a refusal moves a number from the one half of
the invariant to the other. `ReloadsDrainIntoFreshDriver`, `DSpec => []DrainsIntoFreshDriver`: once a reload that
is alone has swapped the databases they stay its own, and once it has invalidated, the snapshot in force, if any, and
every fetch that has read the databases have them from it (`Drained`).

The same module has what a reload installs, for every input and not only those of the run. `ReportsTellTheTruth`: over a life of any number
of reloads, refused or not, what the last report says is pending is what differs between the settings in force and the file; each
reload keeps that the settings in force agree with the remembered ones where no restart is due. `RulesStayLocal`: for any finite set
of patterns the loop of `find` ends with the best of the patterns it has seen, and the best is unique, because specificity and
then the text order the patterns totally; that the texts are so ordered is the lemma about `LexBefore`. `StrangersStayOut`: by the forms a
text can have. `AliasesKeepTheirWord`: for any table that loads, any path and any query; what a handler reads
for a key is the last pair that has it, and removing pairs of other keys, or of other spellings of it, does not change which that is.

`RealtimeProofs`, for any documents, values, filters, policies, writers, capacities and bounds: `ViewAlwaysFollows` and
`EventsAlwaysFit`. The invariant is `ViewFollowsSnapshot` with the types of the channels and lists.
`TellFollows` says once what a delivery establishes, `ViewKept` what a step that tells nothing must leave alone,
`ConvergeKeeps` treats the silent moves.

Then the guard, for any finite set of requests: `GuessesAlwaysBounded`, by counting the requests that try
a login, and `GuardKeepsSessions`, `SSpec => Spec`, which carries the theorems about sessions over. `RevocationsAreComplete`, `RSpec => []RevocationIsComplete`: `RInv`
says that a user's session is on the list that is still to be worked off or was stored since; that a session never
changes its owner comes from the invariant of Sessions.

`DriversProofs`, for any clients, collections and engines, requests of any length and any number of lost answers: types, `CollectionsDoNotMix`,
`NoTraceOfFailures` and `AnswersAreAtomic`, action properties that follow from one invariant, `DInv`. It says what a request in flight has
in hand (`Hand`): what it has read is what is still stored, or it was overtaken; what it has done so far is what its first operations come to from
where it began (`After`, the recursive function that also defines the whole); in the SQL drivers a version of its own exists only under the row lock; and on RethinkDB the
first entry of the undo log is the document that the batch found, so that a rollback that goes through restores it, however
many operations it undoes. In the SQL drivers nothing is stored before the last step of a request (`SqlStoresLast`), and a commit whose answer
is lost has done what one that answers does. The exceptions are the properties' own: none was added for the proof. `DriversFilterAlike` is
about `Queries`: for every operator, value and operand of one type each driver's filter decides as `doc_matches`. It rests on
`ColumnsKeepTheOrder`: each engine's order of the columns, restricted to one type, is that of the values.

`DriversListAlike`, for documents, queries, offsets and limits of any size, is about whole lists and their counts. A list is
the rows at some positions, each once, in some order (`Lists`), and the positions and an asymmetric order decide it (`OneListing`). So it
is enough that both sides choose the same documents (`Chosen`, `WhereAgrees`) and order them alike: over one type `Before` is a weak
order (`BeforeIsWeak`) and ORDER BY the same one (`BeforeAlike`); a weak order with ties as they are is total
(`StableIsTotal`), a total order can be listed (`OrdersList`, by insertion), and that is what `Sorted` chooses (`SortedLists`).
The database selects before it sorts and the reference sorts before it applies the cursor; since a part of
a list is a list in the same order (`KeepLists`), the two orders of steps commute. For RethinkDB, selecting
twice is selecting once (`SelectedTwice`) and a first page of a first page is that page (`PageFacts`).

`HakoProofs`, for any documents, fields, values, clients, clocks, restarts and caps: `ShadowsStayTrue`,
`ForcedLeaveNoTrace` and `CountsAreCurrent`. The last two are action properties and follow from one invariant, `HInv`
(`HakoInvariant`): while a field is unique by right it is the one the driver treats as unique, and every writer
goes through its shadows (`Kept`); what a task has in hand at its step is what it was given there (`Ready`); a forced delete that nobody met finds
its document still purged (`Purged`), and the first number of a count that nobody overtook is still true (`Current`). `ShadowsAreTrue` is a conjunct of it: each
transaction claims and releases what its documents hold before and after, and the steps that go past the shadows
end the promise.

`FilesProofs`, for any documents, fields, contents, clients, page sizes, faults and crashes: `ReadyKeepsBytes`,
`Spec => []ReadyHasBytes`. The sweeper decides from a list it read page by page, so the invariant is a claim about
that list: whatever a document names, or a copy of it in flight will name again (`Names`), has its bytes or is excused
(`Backed`), and has been listed, is on a page still to come, is too young or is excused (`Met`). An upload that
is about to call its file ready has young bytes or is among the missed (`Sure`). A page is any rows: the claim about the rows before the
offset is only made of a scan whose pages were windows of one order, and is excused of the others. That a page holds at
most `PageSize` rows (`PageFits`), and that a row that comes takes no other one back to a page that is done
(`RankGrows`), are lemmas about cardinalities. The attempt to prove this is what found the third exception with
its real extent: `missed` used to consider only copies in flight when the bytes are reaped, and TLC gave the
counterexample with two fields.

The module also proves the two properties of downloads. `RangesSendWhatTheyPromise`: for every size and every form of a range
header. `LinksOpenTheirFile`: for every target, database, key, lifetime and instant, and whatever the URL makes of an id. What is served under a
signature is the target that was signed (`SignedOpensWhatWasSigned`), so a link that is read differently is refused; one whose id
reads as it is written parses back to the target, whether the field was a segment of its own or the default, except in the case
the property leaves out.

The assumptions are those on the constants: bounds and the lengths of requests are natural numbers, `None`, `Nothing` and `Absent` are not
a document (a row, a number, a position), there is a document id, ids are finitely many where the code counts them, the set of
requests is finite, pages are not empty. The theorems about pure parts name what they take of their inputs: `Absent` is no pattern, no value of
a field (nor the text SQLite makes of an array) and no signature, and the keys a service key owns do not come with the request of somebody without claims. Fairness is not used
by any theorem.

Recursion in these modules is by recursive functions over 0..n. `Counting`, proved from the well-foundedness of < on
the natural numbers, says that a set which holds 0, and n when it holds n - 1, holds all of 0..k; with it a function is
unfolded (`...Unfolds`) and an invariant carried along it, for requests, reloads, patterns and queries of any length.
The library's induction theorems, which take an operator as a parameter, are not used.

Only model-checked:

- liveness (`BufferDrains`, `OldWorldDies`, `SnapshotHeals`, `DeadAreSwept`, `GarbageGoes`), which is beyond the prover, as is
  ENABLED; the counterexample `BatchContract`;
- `MergesAreLocal` and `CreateIsMergeOverNothing`: field operators recurse over the depth of a document (RECURSIVE);
- `IndexesAreReal`: folds over statements and failures.

## 5. Not modelled

- The rate limiter: counters under one lock, whose buckets are floats of seconds, where only arithmetic could go wrong.
- Registration and external sign-in beyond the session they open, GitHub's one-time state, the signature checks of the auth chain, DPoP: outcomes of a step.
- The flusher's copy of the database map across a reload (`coalesce.rs:191`): Coalescer and HotReload are separate
  modules.
- The hakocluster driver, whose promises are the external engine's; the engines themselves, from how the drivers use them.
- Text and vector search, aggregation other than count, bundles, `strip_fields`; multipart parsing and file quotas; the policy file's own
  reload; groups of subscriptions and the connection budget; audit lines, benchmarks, TLS.

## 6. Plan

1. `ReloadFlush`, composing HotReload and Coalescer: which acknowledged PATCHes reach the database that is
   served when a tick's copy of the map outlives a swap.
2. Registration with unique e-mails, and logins by e-mail, in SignIn.
3. `strip_write` in Batch, and POST's generated ids.
4. Realtime with several subscriptions: the registries of buses and pollers, unsubscribe.
5. Theorems: field operators over documents of bounded depth.
