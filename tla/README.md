# Rooted, formally

TLA+ models of the provenance ledger of this repository, the TLC runs that check
them on small instances, and TLAPS proofs that hold for every instance.

Rooted stores the provenance of generated media. A client registers an asset's
*manifest*; the server indexes it for recovery (watermark, perceptual hash) and
appends its canonical hash to a *transparency log*, whose signed tree heads it
publishes and seals into immutable storage. What the project promises is
that the ledger only grows: nobody, the operator included, can take back what was
once published. What is hard is that one process with a pool of threads, an event
loop, two kinds of storage, retried notifications and crashes must keep that promise.

## 1. The system

| part | source | state | operations |
|---|---|---|---|
| Transparency log | `packages/provenance/.../merkle.py` | in-memory tree, index id → position, an `RLock` | append, index_for, size, root, snapshot, checkpoint, signed_proof, signed_consistency |
| Leaf store | `packages/storage/.../transparency.py` | table `merkle_leaves` (seq, id, hash) | append, all |
| Signed-head cache, transparency routes | `api/rooted_api/sbr.py` | `_checkpoint_cache` | `_signed_head`, four GET routes |
| Object-Lock seals | `api/rooted_api/checkpoint.py`, `storage.py` | objects `checkpoints/<epoch>` in a locked bucket | seal at start, seal on request, history, audit (`/demo/consistency`) |
| Registration | `sbr.py` (`/ingest`), `b2_events.py` (webhook), `byo.py` (direct upload) | key cache of BYO, list of recent ingests | check, decode, register, append, heal |
| Recovery index | `index.py` (Postgres), `resolver.py` (in memory) | manifests, watermark bindings, fingerprints | register, get_manifest, by watermark, nearest fingerprint |
| Receipts | `sbr.py` | – | `_inclusion_proof`, `_proof_matches`, routes |
| Paid generation, agent | `generate.py`, `agent.py` | daily and in-flight counters under a lock | acquire, release, one run |
| Demo | `demo.py`, `dedup.py` | seeded manifests, caches | seed at start, rebuild from B2, staged removal attack |
| Federation | `sbr.py` | – | forward a query to peers in order |
| Body limit | `limits.py` | bytes received per request | limited_receive, guarded_send |
| Verification surfaces | `tamper.py`, `integrity.py`, `lineage.py`, `genblaze*.py`, `transcript.py` | – | read-only verdicts |
| MCP server, worker, CLI, web, extension, mobile, infra, scripts | own directories | – | clients, pipelines and operator tools |

How they interact. The routes are coroutines of one event loop. A call into a store
or the log goes through `run_in_threadpool`, so it runs on a thread, and every such
`await` lets any other request run. `_signed_head` is the exception: it runs on the
event loop itself, and reads the log while a thread may be appending. The log's lock
covers append, checkpoint, signed_proof, signed_consistency and snapshot; `size`,
`root()` and `index_for` are read without it. The tree exists in memory only and is
replayed from the leaf store at start. The index and the log are separate stores
with no common transaction. The seals outlive the process and cannot be replaced.

What is hard, and what must be true:

* the log - a leaf is in the tree before it is in the store; a crash or a failing
  INSERT in between must not contradict anything signed or proven;
* the head cache - three unlocked or separately locked reads decide whether to sign
  again, so a stale or a second head for one state is a step away;
* the seals - written by different starts of the process, they must form one chain;
* registration - checks and the writes they guard are separated by awaits; a
  redelivery may overlap the delivery it repeats; index and log may disagree after
  any failure;
* direct upload - the browser may PUT again at any moment of a register call, and a
  cache answers what was registered before;
* recovery - the in-memory index is written in three steps while queries read it in
  several; a watermark may point to a manifest of another asset; a client needs two
  requests; peers fail;
* paid runs - counters roll over at midnight under runs that outlive it, every run must
  give its slot back whatever fails, and what it registered before a failure must be
  recoverable;
* seeding - one existence check guards several registrations, at every start;
* receipts - position, manifest and proof are read at three moments, receipts are
  submitted to a log that has grown, and what is disclosed must hash to what was logged.

`PROJECT.json` lists each hazard at its line, with the properties that cover it or the
reason none does.

## 2. The modules

| module | what it is |
|---|---|
| `AppendOnlyLog` | what a transparency log promises: a ledger that only grows, heads that each commit to all of it |
| `TransparencyLog` | the log, its leaf store, the head cache, crashes and restarts |
| `SealedCheckpoints` | extends it with the locked bucket and the audit |
| `Ingest` | registration: `/ingest`, the webhook, a proof reader, crashes, redelivery |
| `ByoUpload` | direct upload: presigned PUTs, the register call and its cache |
| `DailyBudget` | what a limiter in front of a paid call promises |
| `PaidEndpoints` | generation and agent runs behind their limiters; implements `DailyBudget` |
| `BodyLimit` | the middleware that bounds a request body |
| `Recovery` | extends it with the resolver, its two kinds of index, the query routes and federation |
| `RecoveryClients` | extends that with the MCP tools and the CLI command that recover in two requests |
| `Seeding` | the seeds at start, what they leave in index, log and bucket, and the rebuild from the bucket |
| `Receipts` | receipts, disclosures, signatures, the tamper diff and the integrity clash |
| `MC...` | instances for TLC |
| `TransparencyLogProofs`, `SealedCheckpointsProofs` | the proofs about the abstract ledger, the log and its seals |
| `IngestProofs`, `ByoUploadProofs`, `PaidEndpointsProofs` | the proofs about registration, direct upload and paid runs |
| `RecoveryProofs` | the proofs about `BodyLimit`, `Recovery` and `RecoveryClients` |
| `SeedingProofs`, `ReceiptsProofs` | the proofs about the seeds with the rebuild, and about receipts and verdicts |

### TransparencyLog

| model | code |
|---|---|
| `store`, `tree`, `index`, `owner` | `merkle_leaves`, `_tree`, `_index`, `_lock` |
| `job[w]` | a pool thread inside `append` or `_inclusion_proof` |
| `loop`, `cache` | the event loop inside `_signed_head`; `_checkpoint_cache` |
| `signed`, `proven`, `lossy` | history: what auditors hold; starts of the process that lost a leaf |
| `AppendToTree`, `SetIndex`, `StoreLeaf` / `StoreRaises` | the three writes of `append`, in their order, inside the lock |
| `LookUpIndex`, `SignProof` | `_inclusion_proof`: an unlocked read, then `signed_proof` under the lock |
| `SignConsistency` | `signed_consistency` |
| `ReadSize`, `ReadRoot`, `ServeCached` / `SignHead` | `_signed_head`, one step per read; `SignHead` re-reads the tree under the lock but keeps the old size as epoch |
| `Crash`, `Restart` | the process dies; `__init__` replays `store.all()` |

A leaf is a pair of manifest id and version, because the canonical hash covers the
manifest id and is taken to be collision-free. A root is the sequence of leaves under
it, for the same reason. So "the proof verifies" is "the leaf is at that position", and
"heads are consistent" is "one is a prefix of the other". Merkle paths and signature
bytes do not appear. `StoreRaises` has two outcomes, since an INSERT whose
acknowledgement is lost has been committed.

Auditors keep any subset, up to a bound, of what they are served. A property of any two
heads needs only two to be kept, and TLC explores every choice.

### SealedCheckpoints

`sealed[e]` is the object under the key of epoch `e`. `SealHead` is `seal_checkpoint`:
an existing object stays. It is one step because it runs on the event loop right
after `_signed_head`, with no await in between. `AuditSize`, `AuditProve` and
`AuditCompare` are the three awaits of `demo_consistency`. Every other step is
`LogStep`, a step of `TransparencyLog`.

### Ingest

`req[r]` is a request in flight, at the step it will take next; a step is what the code
does between two awaits. `/ingest` goes `BeginIngest`, `CheckManifest` (409),
`CheckBinding` (409, 415), `Register`, `AppendLeaf`, `StoreLeaf` or `StoreRaises`. A delivery
goes `Deliver`, then for each object `Pick` or `Skip`, `LookUpManifest`,
`LookUpIndex` (answer, heal, or build a new manifest), `Register` and the append; it is
acknowledged when the last object is done, and not at all after a failure.
`ReadIndex`, `ReadManifest`, `ServeProof` are `_inclusion_proof`. The
receipt that `/ingest` returns on request is one such read after the append and has no
steps of its own. Of the three writes of `append`, tree and index are one step here,
because nothing in this module reads one without the other, and the INSERT is another,
because `index_for` is read without the lock in between.

History variables name what the properties must except: `raced` and `contested` are
the ids two requests worked on at once, `lossy` those whose INSERT raised, `skipped` the
objects a delivery could not fetch or decode. `OkIsProven`
and `EventuallyProven` need the exception `raced`: a delivery that finds in the index what
an overlapping one has put into the tree and not yet stored answers "registered AND
proven", B2 stops retrying, and a crash before the INSERT loses the leaf.

### ByoUpload

An object key has a presigned URL, which is open until it expires, and the content last
PUT there; a content is what it decodes to and its size. `req[r]` is a call of
`/demo/byo/register`: `BeginRegister`, `CheckSize` (404, 413, the cache), `AnswerCached`,
`Get` (404, 413, 502), `Decode` (415), then `Lookup`, `LookupLeaf`, `Register`,
`AppendLeaf` of `ingest_stored_object`, and `Remember`. The manifest is named by the
content, as `ingest_stored_object` derives its id from the hash of the bytes. `during` is what the key
held while the call ran, which is what an answer may be about. What no handler catches, a
bucket that does not answer for a size or a database that fails, is a 500 (`Raises`). `tree` and `leaves` are
the log in memory and in the table; they part when an INSERT raises.

### DailyBudget and PaidEndpoints

`limiter` is `_RateLimiter`/`_AgentLimiter`, `req[r]` a request with what it has written and
answered. One behaviour is about one of the two endpoints (`deploy.kind`), as they share
no state. A generation goes `Admit`, `CallGmi` (models of the primary provider in turn),
`CallOpenai`, `FetchAsset`, `RegisterGenerated`, `AppendGenerated`, three times
`StoreGenerated`, `Finish`; an agent run goes `Admit`, `CallModel` and `RunTools` by turns,
`CloseClient`. Every call has an outcome that the code recovers from and one that it
lets through. `Midnight` changes the date and nothing else: the limiter notices at the
next `acquire`. `ImplementsBudget` maps it to a budget counted by the calendar, with the
requests under way as `running`, so a slot returned early or twice is a step the abstract
budget does not have.

### BodyLimit, Recovery, RecoveryClients

`conn` is one upload through the middleware. `index` has the three structures of each
modality's index; `writer` is a registration with the writes it has yet to do (in memory,
one at a time; in Postgres, all or none); `query` is a query at its next read. `BeginContent`
takes an upload that has passed the limit, `ReadBinding`, `CheckFingerprints` and
`ReadNearest` are `resolve_by_content`, `ReadLocal` and `AskPeer` the federated route.
`early` and `bound` are what the index held when the query began, which is the least it
has to find. A hash is a point on a line; that keeps "near", "nearest" and the triangle
inequality, which is all the code uses. `backend` may also be Postgres with an HNSW index
of pgvector, whose search is approximate: `Nearest` is then any hash within the threshold, and
`ReadNearest` may find none. The comment in `nearest_fingerprint` says that both searches "return
the same nearest"; HNSW does not promise that, and `FindsTheNearest` excepts it, while
`MatchIsOfContent` and `ReportsAreTrue` hold with it. A peer may answer, know nothing, fail in a
way the loop catches, or raise what it does not (`Aborted`, a 500). Peers are asked by their position in the
configured list, in which one may occur twice: `todo` and `failed` are sets of positions.

`tool` is a client in its first request (`"match"`), before or in its second
(`"manifest"`), or with its answer. `ServerRestarts` is `Restart` as the client sees it: a
request under way is lost, one that comes later is answered by the new process. The
tools mounted in the service's own process die with it, which is a behaviour in which
the client takes no further step. `restarted` and `lost` stay set until the client has been
answered, however often the server restarts: an earlier form of `ServerRestarts` forgot
them at the second restart, which a single restart could not show and the proof did.

### Seeding

`stage` and `todo` say which seed function runs and what it still has to register; `step`
is the next of the five writes of one registration, and `Crash` may come before any of
them. Which of index, log, bucket and signing key outlive a crash is fixed by `conf`, over
all combinations. `BeginRebuild`, `RebuildOne`, `ReadLiveRoot`, `EndRebuild` are
`_compute_rebuild`, during which visitors register. The keys a rebuild lists are places in
`KeyOrder`, the order in which `list_keys` returns them: `ListedKeys` are the first of them
up to the cap, and `RebuildOne` takes the first that is left.

### Receipts

A canonical hash is the canonical payload, a root the sequence of leaves, an audit path the
pair of leaf and tree. `BeginIssue` or `BeginVerify`, `ReadIndex`, `ReadManifest`, `Issue` or
`VerifyReceipt` are the reads of `_inclusion_proof` with its two users. A client keeps
receipts and submits any of them with the audit path of a second and the checkpoint of a
third (`Assembled`).

`BeginTamperDiff` takes any manifest, full or disclosed, with a signature of it or of another
one, and `TamperDiff` compares it with the registry's record or, if there is none or a database
does not answer, with the demo manifest. A registry may still hold the demo manifest as it was
when prompts were signed (`LegacyPrimary`). So a holder of any other manifest, identical to the
logged one and validly signed, is told of tampering whenever the fallback stands in.
`NoFalseAlarm` excepts exactly that case and no other; `UntamperedIsClean` has no exception and
is refuted.

`BeginClash`, `ReadRecord`, `FallBack` are `_integrity_clash`: the staged claim, the demo's
record, or else the first record the log's snapshot leads to. `Clash` is `compare_provenance`
with its four comparisons; a model or a provider is compared when both sides name one.
`Staged` is what a deployment may stage, true claims (`ClaimOf`) and forged ones.
`ClashIsTrue` relates the answer to the log's leaf, not to the record it was computed from.

## 3. The runs

Passing runs (the states are distinct states):

| run | instance | states | properties |
|---|---|---|---|
| `log` | 2 threads, 2 manifests, 2 leaves, 1 crash, failing INSERTs | 0.6 M | `SnapshotAgrees`, `NoFork`, `ProofsStayTrue`, `HeadReproducible`, `HeadNotStale` |
| `seal` | 2 threads, 2 manifests, 3 leaves, 1 crash, no failures | 1.6 M | `SealedChain`, `ReadBackNotAhead`, `AuditAgrees`, `ImplementsLedger` |
| `ingest` | 2 requests and a reader, 2 manifests, 1 watermark, 2 versions, 1 crash, 1 failing INSERT | 2.2 M | `OneLeafPerManifest`, `OkIsProven`, `OkIsRecoverable`, `RegisteredStays`, `ProofIsOfManifest` |
| `ingest_live` | 1 object, 2 requests, `/ingest` of the same id, 2 crashes, no failing INSERT, fair | 0.01 M | `EventuallyProven` |
| `ingest_batch` | 2 objects, alone or in one notification, either unfetchable, 1 request at a time, 2 crashes, no failing INSERT, fair | 0.22 M | `EventuallyProven`: no overlap, and no object lost with another |
| `paid` | 2 requests, 3 callers, 1 slot, 2 runs a day, 1 midnight, 1 restart a day, fair | 0.41 M | `SlotsAccounted`, `SpendBounded`, `FreshIsRecoverable`, `ImplementsBudget`, `BusyEnds` |
| `recovery` | 2 registrations, 2 manifests, 1 watermark, 3 hashes, videos of 2 frames, 4 peers, 1 client of two requests, 2 restarts; in memory, in Postgres, with HNSW | 1.7 M | `BodyBounded`, `ReportsAreTrue` (with `MatchResolves`), `MatchIsOfContent`, `FindsTheNearest`, `FederationTries`, `BindingsImmutable` |
| `seeding` | 6 seeds, 1 visitor, 3 starts, a cap below the number of manifests | 0.06 M | `SeededExactlyOnce`, `RebuildRestores`, `SignaturesVerify` |
| `byo` | 2 keys, 5 contents (two of one size, one over the cap, one no image), 2 calls at once of 3, 2 PUTs, a cache of 1, 1 restart | 3.0 M | `AnswerIsOfTheKey`, `OkIsLogged` |
| `receipts` | 2 manifests, 2 assets, 2 models, 2 providers, every manifest submitted, 2 receipts kept, 1 restart | 1.4 M | `VerdictIsTrue`, `DisclosureVerifies`, `NoFalseAlarm`, `ClashIsTrue` |

Each property is stated in words above its definition; `TypeOK` and its like are checked
beside them where a module has one; `SealTypeOK` is proved and has no run.

Runs in which TLC refutes a sentence of the sources:

| run | the sentence | what the run shows |
|---|---|---|
| `ingest_heal` | "a later redelivery heals it" (`b2_events.py:107`) | after an append that raised, the redelivery believes the in-memory tree and acknowledges; the row is never written |
| `byo_stale` | "so the answer never goes stale" (`byo.py:44-46`) | a re-PUT of another image of the same size is answered from the cache with the old manifest |

More sentences of the sources that the models contradict are stated at the end of the
modules and have no run of their own. Each is refuted by TLC when it takes the place of the
properties in the cfg named here:

| property | cfg | the sentence | why it fails |
|---|---|---|---|
| `EpochIsTreeSize` | `TransparencyLog.cfg` | "The epoch IS the tree size." (`sbr.py:133`) | an append between two reads of `_signed_head` puts tree size n+1 under epoch n |
| `ProofsSurviveRestart` | `TransparencyLog.cfg` | "inclusion proofs survive a restart" (`merkle.py:68-69`) | a leaf whose INSERT raised is proven until the restart that forgets it |
| `NotOverwritten` | `Ingest.cfg` | "An existing manifest id is not overwritten (409)" (`sbr.py:604-605`) | two overlapping calls both pass the check; the upsert overwrites |
| `Idempotent` | `Ingest.cfg` | "idempotent across redeliveries and paths" (`b2_events.py:105`) | overlapping deliveries of one object append two leaves |
| `AttemptsCeiling` | `PaidEndpoints.cfg` | "a hard ceiling on provider ATTEMPTS" (`generate.py`, `_RateLimiter`) | one run may call several models and providers |
| `UntamperedIsClean` | `Receipts.cfg` | "An untampered manifest is clean" (`test_tamper.py:2`) | a registered, logged and validly signed manifest other than the demo's is compared with the demo's when the registry does not answer (`tamper.py:83-85`), and is answered `tampered`; the answer's `authenticSource` says "demo" |
| `OverCapIs413` | `Recovery.cfg` | "the response is 413 regardless of how the downstream route reacts" (`limits.py`) | a route that reads the raw body lets `ClientDisconnect` through, a 500 |
| `StoredSignatureAlwaysVerifies` | `Seeding.cfg` | "so the stored signature always verifies" (`demo.py`, `_put_signature`) | on a persistent index the restarted process does not seed again, and its new ephemeral key signed nothing |

None of these breaks the ledger: `SealedChain` holds with the epoch race in the model, and
`NoFork` with failing INSERTs within each start of the process.

### Bounds, and why they are enough

* `MaxLeaves` 2 or 3: contradicting heads need two leaves; an append inside
  `_signed_head` and one after it need three, which `seal` has.
* `MaxBoots` 2: one crash separates what was published from what is replayed, and what one
  start sealed from what the next one seals. `SealedChain` relates two seals at a time; the
  proof has any number of starts.
* `MaxHeads`, `MaxProofs`: the properties relate two heads (`log`), or one proof or head
  to a state.
* Two threads, two requests: a race has two parties, and the event loop or the
  reader is a third. The instances without a second version or thread leave it out
  where the properties do not tell them apart.
* `MaxCrashes`, `MaxFailures` in `Ingest`: a failed append, a crash and a redelivery in any
  order.
* `paid`: one slot for two requests makes "busy" happen; three callers with one run each
  and two runs in all make both daily caps bind; two days and a restart in either give
  every order of roll-over, release and loss of the counters. The number of calls is
  bounded by the runs that can start.
* `recovery`: three points and threshold 1 give near, nearest, tied and too far; two
  registrations can share a watermark, a hash or a manifest; of four peers one is unsafe
  and one is beyond the cap; a body of one unit can be within or over the limit; of two
  restarts one can come before the first request ends and one between the two.
* `seeding`: the first start and two more, so that what a cut start leaves is met by a
  whole one; one image, fixture and provider beyond the first of each function is what a
  cut can leave out; the cap of 6 is below the 7 manifests.
* `byo`: a cache of one is full with the first entry; a call that overlaps another and one
  after both; two PUTs are the least for a re-PUT.
* `receipts`: two receipts to mix, two leaves, so that one log has two audit paths and
  one growth; the demo manifest with its own asset and another manifest with another, which
  may name no model; of each field a claim can be true, forged or (but for AI) absent.

Symmetry is used in runs without liveness only, on threads, requests, versions, keys and
manifests that no action tells apart. Deadlock is checked except in `seeding` and `byo`,
whose bounded numbers of starts and calls do run out.

The proofs do away with these bounds for every property but the two liveness properties: they
hold for every value of the constants.

### Fairness

`FairSpec` of `Ingest`. `WF(Handle(r))`: coroutines and threads run to
their end. `WF(Restart)`: the platform restarts a dead service. `SF(Redeliver(m))`: B2
delivers again until it sees a 2xx; strong, because the process and a free slot come
and go. Crashes and failures are bounded, so the assumption is that they stop at some
time, without which nothing can be promised. A fetch that fails is skipped and the
notification acknowledged, by a choice the code states, and then the object is not
retried: `EventuallyProven` excepts the objects in `skipped`, and `ingest_batch`, where
fetches may fail, shows that the other objects of the notification are not lost with it. In both runs of it no INSERT
fails: after one that did, B2's retries do not heal the leaf, which is `ingest_heal`.

`FairSpec` of `PaidEndpoints`. `WF(Works(r))`: a run that was admitted goes on, since every
wait in it is for a provider, a model or a store that is called with a timeout. Nothing
is assumed of callers, midnights and restarts. `BusyEnds` excepts a process that has leaked a
slot: `demo_agent` closes its client before it releases, so a close that raises does.

## 4. The proofs

All are checked by TLAPS, and hold for all constants that satisfy the module's
assumptions: `LogAssumption` (`NoWorker` is not a thread), `IngestAssumption` (objects and
callers' ids are manifest ids, every object has a watermark, the "no ..." values are no
ids), `ByoAssumption` (every content has a size, the cache has room for one),
`PaidAssumption` (finitely many requests, at least one model and one turn), `BodyAssumption`
and `RecoveryAssumption` (the peers are a sequence, a peer's manifest is none of ours),
`SeedingAssumption` (each seed function has a first seed, no id is used twice, the order of
keys has every manifest), `ReceiptsAssumption` and `BoundsAssumption` (the demo manifest is
a manifest, "none" is no model and no provider, what is registered or staged is well-formed).
All bounds and caps are arbitrary naturals. Every safety property, every action property and
both refinements that a passing run checks are proved, by an inductive invariant that TLC checked on the run's
instance before it was proved. No property is inductive by itself.

*The log.* Its properties hold because the lock keeps tree
and store one leaf apart at most, and that is what `IInv` says: `LockInv` (the owner is
the one thread in the middle of an append), `MirrorInv` (the tree is the store, plus
that thread's leaf), `PendingInv` and `IndexInv` (positions hold the leaves they are
for), `SignedInv`, `SameBootInv`, `ProvenInv` (what was published is a prefix of, or
holds in, the tree of its own start, and the store when no INSERT of that start
raised), `ServingInv` (cached head, size read, root read and tree are in this order)
and `DownInv`. One lemma per action shows that it keeps `IInv`; `NextPreserves`
combines them. From `Spec => []IInv` follow `TypeCorrect`, `SnapshotIsConsistent`,
`NeverForks`, `ProofsNeverGoStale`, and the action properties `HeadsAreReproducible`
and `HeadsAreFresh`.

*Refinement of the ledger.* `ImplementsAppendOnlyLog`: if `StoreMayFail` is false, `Spec`
implies the abstract ledger's `Spec` under `ledger <- store`, `heads <- {h.root : h \in
signed}`. It rests on the tree being the store whenever the lock is free, which is when
heads are signed. `HeadsStayHistory` and `HistoryIsSingle` show what the abstract ledger gives:
every head is a prefix of it, and any two heads are one history. `CodeKeepsHistory` puts the
two together: what is promised of the ledger is kept by the code.

*The seals.* `SealInv` adds to `IInv` that sealed heads are stored, ordered by their epochs and
- the part that makes it inductive - behind everything the event loop may seal next:
the size `_signed_head` has read and the head in the cache (`SealsBehind`). It gives
`SealsFormAChain`, `ReadBackIsBehind` and `AuditNeverCriesWolf`, the last because two
prefixes of one length of one log are equal. `SealTypeCorrect` needs more than types: the
size an audit has read is a size of the bounded log, because the store is never longer
than the tree has been.

*Registration.* What a request has read must still be so when it writes, several awaits
later. `IngestInv` says for which manifests it is: `SettledInv` relates, for each manifest that
no two requests have worked on at once, the table, the tree and the step its one request is
at, so that a request about to append knows there is no leaf, and one about to register
knows there is no body. `BoundInv` does the same for watermarks, `ReaderInv` for the reads of
an inclusion proof, `StoppedInv` for a process that is down. From it follow
`LeavesAreUnique`, `AnswersAreProven`, `AnswersAreRecoverable`, and the action
properties `RegisteredNeverChanges` and `ServedProofIsOfManifest`.

*Direct upload.* `ByoInv` says what a call knows at each await: the object of its key has been in
`during` from the start (`Seen`), what it fetched is one of those and of their size
(`OfTheKey`, `Decodes`), what it registered stays registered and logged (`IsLogged`), and the
same of each cache entry (`CacheInv`). It gives `AnswersAreOfTheKey` and `AnswersAreLogged`. That
an answer names an image of a size the key held, and not the image, is all that holds,
as `byo_stale` shows.

*Paid runs.* `PaidInv` has the slots (`SlotsAccounted` is a cardinality, so each action that
takes or returns one has a lemma about adding or removing one request), the stages of a run
(`RunsInv`) and the counters (`StartedInv`, `SpendInv`). The spend of a day is a sum over
runs, which no induction over data is available for here; instead each admitted run holds a
token for every call it may still make (`Tokens`), a call uses one up, and the
calls made plus the tokens left stay within the budget. It gives `SlotsAreAccounted`,
`SpendIsBounded`, `FreshStaysRecoverable`, and `ImplementsDailyBudget`: each step of limiter and
runs is a step of `DailyBudget` or leaves it alone.

*Recovery.* A query reads the indexes at several moments and registrations write between them.
`RecoveryInv` rests on the indexes only growing until a restart (`Grows`): what a
query has found stays there (`MatchResolves`), and what was there when it began is there at
each later read, so a frame that found nothing was close to nothing (`ByContent`). The
order of the three writes is in `WriterInv` and `IndexInv`: every name in an index has its
manifest there. That there is a nearest fingerprint at all is the least-number principle
(`LeastMember`, from the well-foundedness of `<` on the naturals). `ByBinding` has the loop
over the peers, and `ClientInv` what a client may conclude from an answer, or from none. It
gives `BodiesAreBounded`, `ReportsStayTrue`, `MatchesAreOfContent`, `NearestIsFound`,
`FederationAsksAll` and `BindingsNeverChange`.

*Seeds and rebuild.* One existence check stands for all the seeds of a function, so it must say
something about those it does not look at. It does because of an order, which is `OrderInv`:
no image of a function is registered before its first, and over a persistent index that no
start was cut short on, all of them are registered and logged but those still to do.
`WorkInv` ties the seed at work to the functions begun and to the writes already done, `DoneInv`
says what is finished, `LogInv` that no manifest has two leaves - an image about to be logged
is not in the log - and `SignInv` by which key what is finished is signed. `BucketInv` and
`RebuildInv` are about the rebuild: a stored manifest has its asset, and its leaf if the log is
durable, because `_register` writes the log before the bucket; and what was listed is restored,
skipped or still to read at every step. A rebuild takes the least place that is left, which
exists by the least-number principle, and `ListedKeys` has no more places than the cap,
because the greatest of them counts them all. It gives `SeedTypeCorrect`,
`SeedsOnlyOnce`, `RebuildIsComplete` and `StoredSignaturesVerify`.

*Receipts.* A verdict is reached in three reads between which the log grows. `ReceiptsInv` says
that a leaf never moves: the position read first is that of the manifest's only leaf in
every later state of the log (`CallInv`, `OnlyLeaf`), the manifest read second is the one
that is registered, and the leaf's hash is its hash (`LogInv`). So the proof made third is of
the manifest asked for. In the one direction a receipt that matches it is true, whoever put
it together (`ProofMatchesFacts`); in the other a receipt that was issued is of one state of
one log (`OfOneState`), so if that is still the log its position is the same and all of it
matches (`IssuedMatches`). `OfRegistered` has the part a disclosure is compared with, which a
restart of a registry in memory ends. It gives `VerdictsAreTrue` and `DisclosuresVerify`.
`HonestIsNotAccused` and `ClashesAreTrue` rest on what a call has compared (`TamperInv`,
`ClashInv`): the record it answers for is still registered, since a restart ends the call. A
receipt's leaf hash is that of the registered manifest (`ReceiptOfCallFacts`), so a manifest that
hashes to it does not differ from the record (`HolderIsNotAccused`), and one that does not differ
hashes to it but for the prompt (`UntamperedWasLogged`); the demo's versions differ from neither
record nor stand-in (`DemoIsNotAccused`). What is left is the exception in the statement: another
manifest, the demo's standing in. For the clash, `ClashFacts` compares a claim with a hash instead
of a record, and the leaf's hash is the record's (`LogInv`).

The conditions in the statements are real. `Clean(b)` and `Lossless` except the starts
of the process in which an INSERT raised and the row is missing; `ProofsSurviveRestart`
shows why they cannot be dropped. `raced` and `contested` except what two overlapping
requests worked on; `NotOverwritten` and `Idempotent` show why. `SeededExactlyOnce` excepts a
start cut short over a persistent index, `BusyEnds` a slot leaked by a close that raised,
`NoFalseAlarm` the stand-in for another manifest, `FindsTheNearest` an approximate search. In each
case the excepted behaviour is in the model, and is what the code does: of the hazards of
overlapping deliveries, double registration, torn seeding and the leaked slot, the
properties show that the damage stays within the exception, and not that it cannot happen.

*Model-checked only.* The liveness properties `EventuallyProven` and `BusyEnds`, whose
fairness the prover cannot reason about, as it does not support `ENABLED`. The sentences that TLC refutes are false and have nothing to prove.

## 5. What is not modelled

* Parts listed as `not_modelled` in `PROJECT.json`: the web app, the extension and the mobile
  apps, which present what the routes return; deployment, operator scripts and load tests.
* Signal processing and encodings: PDQ, TrustMark, spectrograms, COSE, C2PA, Merkle paths.
  They appear as distances, decoded values, payloads and positions.
* Read-only verdicts over bundled fixtures: lineage, transcript, the verification of Genblaze
  manifests, the staged removal attack, the robustness grid.
* A second server process over the same table. Each would replay the table once and not
  see the other's leaves. The limiters' comments say that one process is deployed.
* The bucket's history listing and its in-memory stand-in; B2 outages while sealing; the end
  of a retention.
* The webhook's signature and limits, its list of recent ingests, the dedup counters:
  no property depends on them.
* `pipeline.py` of the worker, which the service does not run. It stores before it logs;
  that order is a mutant of `Seeding` (`WriteOrderStoreFirst`), under which a rebuild
  finds manifests the log does not have.

## 6. What could come next

Every safety property is proved. In the order of what it would say:

1. Two server processes over one leaf table: a deploy that overlaps the old instance. Each
   would replay the table once, so the second's heads fork from the first's; it is the one
   hazard of `PROJECT.json`, with the race of two seals, that no property covers. The code's
   comments say that one process is deployed, and the model has one.
2. The webhook's signature check and limits, and the list of recent ingests, as further steps
   of `Ingest`.
3. The history route of the seals and its in-memory stand-in.
