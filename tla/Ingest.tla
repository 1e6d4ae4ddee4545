-------------------------------- MODULE Ingest -------------------------------
(***************************************************************************)
(* Registration: the routes that put a manifest into the recovery index    *)
(* and its leaf into the transparency log, as they interleave.             *)
(*                                                                         *)
(* POST /ingest (rooted_api/sbr.py) refuses ids and watermarks it has seen *)
(* and registers the caller's manifest; the Backblaze B2 event webhook     *)
(* (rooted_api/b2_events.py) registers stored objects under an id derived  *)
(* from their bytes and is redelivered until it is acknowledged.  Both are *)
(* coroutines of one event loop: every "await run_in_threadpool(...)" is a *)
(* point where any other request may run, and the process may crash        *)
(* between any two of them.  GET /transparency/proof and the receipt routes *)
(* read both stores with two such gaps of their own (_inclusion_proof).    *)
(*                                                                         *)
(* Abstractions.  Both stores are Postgres (DATABASE_URL set): they outlive *)
(* a crash, the log's in-memory tree does not.  A manifest row, its first  *)
(* watermark binding and its fingerprint row are one transaction, and the  *)
(* fingerprint is not told from the row.  A version is the canonical hash  *)
(* of one body of a manifest.  Of TransparencyLog's append, tree and index *)
(* change in one step, as no request here reads one without the other; the *)
(* INSERT is a step of its own, because index_for is read without the lock *)
(* in between.  Object ids are what the content hash makes of the bytes;   *)
(* /ingest may be called with any id.                                      *)
(***************************************************************************)
EXTENDS Naturals, FiniteSets, Sequences

CONSTANTS
  ManifestId,
  Object,           \* the manifest ids that stand for the bytes of a B2 object
  CallerId,         \* the manifest ids that callers of /ingest choose
  WatermarkId,
  Version,          \* the bodies a manifest can be given
  Request,          \* the requests that can be in flight at once
  NoManifest,
  NoWatermark,
  NoVersion,
  WatermarkOf,      \* the watermark id the webhook derives from an object's hash
  FetchMayFail,     \* whether an object's fetch or decode may fail
  MaxCrashes,       \* bound: crashes of the process
  MaxFailures       \* bound: INSERTs into merkle_leaves that raise

ASSUME IngestAssumption ==
  /\ Object \subseteq ManifestId
  /\ CallerId \subseteq ManifestId
  /\ NoManifest \notin ManifestId
  /\ NoWatermark \notin WatermarkId
  /\ NoVersion \notin Version
  /\ WatermarkOf \in [Object -> WatermarkId]
  /\ FetchMayFail \in BOOLEAN
  /\ MaxCrashes \in Nat
  /\ MaxFailures \in Nat

VARIABLES
  manifests,        \* the manifests table
  bindings,         \* the watermark_bindings table
  leaves,           \* the merkle_leaves table
  tree,             \* the log's leaves in memory
  up,               \* whether the process runs
  req,              \* the requests in flight
  reader,           \* one _inclusion_proof call in progress
  stored,           \* objects uploaded to the watched prefix
  acked,            \* objects whose notification B2 has seen acknowledged
  claim,            \* history: what one 2xx answer, any, has claimed
  raced,            \* history: manifest ids two requests were working on at once
  contested,        \* history: watermark ids likewise
  lossy,            \* history: manifest ids an append raised for
  skipped,          \* history: objects whose fetch or decode failed in a delivery
  crashes,
  failures

tables  == <<manifests, bindings>>
log     == <<leaves, tree>>
answers == <<acked, claim>>
races   == <<raced, contested>>
faults  == <<lossy, skipped, crashes, failures>>
vars    == <<tables, log, up, req, reader, stored, answers, races, faults>>

-----------------------------------------------------------------------------
Leaf == [id : ManifestId, ver : Version]

Step == {"free", "pick", "manifest", "index", "binding", "register", "append", "store"}

Slot == [pc     : Step,
         id     : ManifestId \cup {NoManifest},
         wm     : WatermarkId \cup {NoWatermark},
         ver    : Version \cup {NoVersion},
         logged : BOOLEAN,
         batch  : SUBSET Object,        \* the objects of a notification
         todo   : SUBSET Object]        \* those not taken up yet

Free ==
  [pc |-> "free", id |-> NoManifest, wm |-> NoWatermark, ver |-> NoVersion,
   logged |-> FALSE, batch |-> {}, todo |-> {}]

NoRead == [pc |-> "free", id |-> NoManifest, pos |-> 0, ver |-> NoVersion]

IsEvent(r) == req[r].batch # {}

Registered(m) == manifests[m] # NoVersion

LeavesOf(s, m) == {i \in 1..Len(s) : s[i].id = m}

\* log.index_for(m) is not None.
Indexed(m) == LeavesOf(tree, m) # {}

\* No request is inside the locked part of log.append.
LogUnlocked == \A q \in Request : req[q].pc # "store"

\* r takes up manifest m and watermark k: history notes who else is at them.
TakesUp(r, m, k) ==
  /\ raced' = raced \cup {x \in {m} : \E q \in Request \ {r} : req[q].id = m}
  /\ contested' = contested \cup {x \in {k} : \E q \in Request \ {r} : req[q].wm = k}

\* The handler is done with its manifest.  /ingest answers; the webhook goes on
\* with the next object of the notification, or acknowledges all of it.
Proceed(r) ==
  /\ req' = [req EXCEPT ![r] =
       IF req[r].todo = {} THEN Free
       ELSE [Free EXCEPT !.pc = "pick", !.batch = req[r].batch, !.todo = req[r].todo]]
  /\ acked' = IF req[r].todo = {} THEN acked \cup req[r].batch ELSE acked

\* ... and reports it registered.  Only /ingest vouches for the watermark.
Succeed(r) ==
  /\ Proceed(r)
  /\ claim' \in {claim, {[id |-> req[r].id,
                         wm |-> IF IsEvent(r) THEN NoWatermark ELSE req[r].wm]}}

\* 409, 415 or 500: nothing is claimed, and a notification is not acknowledged.
Refuse(r) == req' = [req EXCEPT ![r] = Free] /\ UNCHANGED answers
-----------------------------------------------------------------------------
Init ==
  /\ manifests = [m \in ManifestId |-> NoVersion]
  /\ bindings = [k \in WatermarkId |-> NoManifest]
  /\ leaves = << >>
  /\ tree = << >>
  /\ up = TRUE
  /\ req = [r \in Request |-> Free]
  /\ reader = NoRead
  /\ stored = {}
  /\ acked = {}
  /\ claim = {}
  /\ raced = {}
  /\ contested = {}
  /\ lossy = {}
  /\ skipped = {}
  /\ crashes = 0
  /\ failures = 0

-----------------------------------------------------------------------------
\* Faulty variants.  No action uses them; each is the slip one of the properties
\* below exists to catch.

\* /ingest without the 409 for a bound watermark.
CheckBindingNever(r) ==
  /\ req[r].pc = "binding"
  /\ \E v \in Version :
       req' = [req EXCEPT ![r].pc = "register", ![r].ver = v]
  /\ UNCHANGED <<tables, log, up, reader, stored, answers, races, faults>>

\* The webhook acknowledges first and works later.
DeliverAckFirst(r, batch) ==
  /\ up
  /\ req[r] = Free
  /\ batch # {}
  /\ batch \subseteq stored
  /\ req' = [req EXCEPT ![r] = [Free EXCEPT !.pc = "pick", !.batch = batch, !.todo = batch]]
  /\ acked' = acked \cup batch
  /\ UNCHANGED <<tables, log, up, reader, stored, claim, races, faults>>

\* A heal that logs the hash of the manifest just built, not of the registered one.
LookUpIndexForgetful(r) ==
  /\ req[r].pc = "index"
  /\ \/ /\ req[r].ver # NoVersion /\ Indexed(req[r].id)
        /\ Succeed(r)
     \/ /\ req[r].ver # NoVersion /\ ~Indexed(req[r].id)
        /\ \E v \in Version : req' = [req EXCEPT ![r].pc = "append", ![r].ver = v]
        /\ UNCHANGED answers
     \/ /\ req[r].ver = NoVersion
        /\ \E v \in Version :
             req' = [req EXCEPT ![r].pc = "register", ![r].ver = v,
                                ![r].logged = Indexed(req[r].id)]
        /\ UNCHANGED answers
  /\ UNCHANGED <<tables, log, up, reader, stored, races, faults>>

\* A heal that registers the object once more, as built this time.
LookUpIndexReRegister(r) ==
  /\ req[r].pc = "index"
  /\ \/ /\ req[r].ver # NoVersion /\ Indexed(req[r].id)
        /\ Succeed(r)
     \/ /\ req[r].ver = NoVersion \/ ~Indexed(req[r].id)
        /\ \E v \in Version :
             req' = [req EXCEPT ![r].pc = "register", ![r].ver = v,
                                ![r].logged = Indexed(req[r].id)]
        /\ UNCHANGED answers
  /\ UNCHANGED <<tables, log, up, reader, stored, races, faults>>

\* "Already registered" answered without looking at the log.
LookUpIndexUnproven(r) ==
  /\ req[r].pc = "index"
  /\ \/ /\ req[r].ver # NoVersion
        /\ Succeed(r)
     \/ /\ req[r].ver = NoVersion
        /\ \E v \in Version :
             req' = [req EXCEPT ![r].pc = "register", ![r].ver = v,
                                ![r].logged = Indexed(req[r].id)]
        /\ UNCHANGED answers
  /\ UNCHANGED <<tables, log, up, reader, stored, races, faults>>

\* One bad object ends the whole notification, with a 200.
SkipAll(r, m) ==
  /\ FetchMayFail
  /\ req[r].pc = "pick"
  /\ m \in req[r].todo
  /\ req' = [req EXCEPT ![r] = Free]
  /\ acked' = acked \cup req[r].batch
  /\ skipped' = skipped \cup {m}
  /\ UNCHANGED <<tables, log, up, reader, stored, claim, races, lossy, crashes, failures>>

\* A 1-based position taken for a 0-based one.
ReadIndexOffByOne(m) ==
  /\ up
  /\ reader = NoRead
  /\ \E pos \in LeavesOf(tree, m) :
       /\ \A i \in LeavesOf(tree, m) : i <= pos
       /\ reader' = [NoRead EXCEPT !.pc = "index", !.id = m, !.pos = pos + 1]
  /\ UNCHANGED <<tables, log, up, req, stored, answers, races, faults>>

\* The log's size taken for the manifest's position: right until the next append.
ReadIndexNewest(m) ==
  /\ up
  /\ reader = NoRead
  /\ Indexed(m)
  /\ reader' = [NoRead EXCEPT !.pc = "index", !.id = m, !.pos = Len(tree)]
  /\ UNCHANGED <<tables, log, up, req, stored, answers, races, faults>>

-----------------------------------------------------------------------------
\* POST /ingest.

BeginIngest(r, m, k) ==
  /\ up
  /\ req[r] = Free
  /\ req' = [req EXCEPT ![r] = [Free EXCEPT !.pc = "manifest", !.id = m, !.wm = k]]
  /\ TakesUp(r, m, k)
  /\ UNCHANGED <<tables, log, up, reader, stored, answers, faults>>

\* resolver.get_manifest: an id that exists is a 409.
CheckManifest(r) ==
  /\ req[r].pc = "manifest"
  /\ ~IsEvent(r)
  /\ IF Registered(req[r].id)
       THEN Refuse(r)
       ELSE req' = [req EXCEPT ![r].pc = "binding"] /\ UNCHANGED answers
  /\ UNCHANGED <<tables, log, up, reader, stored, races, faults>>

\* resolver.resolve_by_binding: a bound watermark is a 409; then the upload is
\* decoded (415 when it is no image) and the manifest is built from it.
CheckBinding(r) ==
  /\ req[r].pc = "binding"
  /\ \/ Refuse(r)
     \/ /\ bindings[req[r].wm] = NoManifest
        /\ \E v \in Version :
             req' = [req EXCEPT ![r].pc = "register", ![r].ver = v]
        /\ UNCHANGED answers
  /\ UNCHANGED <<tables, log, up, reader, stored, races, faults>>

-----------------------------------------------------------------------------
\* The B2 event webhook.

\* An object lands under the watched prefix.
Upload(m) ==
  /\ m \notin stored
  /\ stored' = stored \cup {m}
  /\ UNCHANGED <<tables, log, up, req, reader, answers, races, faults>>

\* B2 notifies: one or several objects, for the first time, again because there
\* was no 2xx answer yet (even while an earlier delivery is still being handled),
\* or in duplicate.
Deliver(r, batch) ==
  /\ up
  /\ req[r] = Free
  /\ batch # {}
  /\ batch \subseteq stored
  /\ req' = [req EXCEPT ![r] = [Free EXCEPT !.pc = "pick", !.batch = batch, !.todo = batch]]
  /\ UNCHANGED <<tables, log, up, reader, stored, answers, races, faults>>

\* _ingest_events: fetch and decode the next object.
Pick(r, m) ==
  /\ req[r].pc = "pick"
  /\ m \in req[r].todo
  /\ req' = [req EXCEPT ![r].pc = "manifest", ![r].id = m, ![r].wm = WatermarkOf[m],
                        ![r].todo = @ \ {m}]
  /\ TakesUp(r, m, WatermarkOf[m])
  /\ UNCHANGED <<tables, log, up, reader, stored, answers, faults>>

\* _ingest_events: the object cannot be fetched or is no image; it is skipped, and
\* the notification is acknowledged all the same.
Skip(r, m) ==
  /\ FetchMayFail
  /\ req[r].pc = "pick"
  /\ m \in req[r].todo
  /\ LET left == req[r].todo \ {m}
     IN /\ req' = [req EXCEPT ![r] =
             IF left = {} THEN Free ELSE [req[r] EXCEPT !.todo = left]]
        /\ acked' = IF left = {} THEN acked \cup req[r].batch ELSE acked
  /\ skipped' = skipped \cup {m}
  /\ UNCHANGED <<tables, log, up, reader, stored, claim, races, lossy, crashes, failures>>

\* ingest_stored_object: resolver.get_manifest.
LookUpManifest(r) ==
  /\ req[r].pc = "manifest"
  /\ IsEvent(r)
  /\ req' = [req EXCEPT ![r].pc = "index", ![r].ver = manifests[req[r].id]]
  /\ UNCHANGED <<tables, log, up, reader, stored, answers, races, faults>>

\* ingest_stored_object: log.index_for, and what the two answers call for: nothing
\* more for an object registered AND proven, the missing leaf for one registered
\* before, else a new manifest.
LookUpIndex(r) ==
  /\ req[r].pc = "index"
  /\ \/ /\ req[r].ver # NoVersion /\ Indexed(req[r].id)
        /\ Succeed(r)
     \/ /\ req[r].ver # NoVersion /\ ~Indexed(req[r].id)
        /\ req' = [req EXCEPT ![r].pc = "append"]
        /\ UNCHANGED answers
     \/ /\ req[r].ver = NoVersion
        /\ \E v \in Version :
             req' = [req EXCEPT ![r].pc = "register", ![r].ver = v,
                                ![r].logged = Indexed(req[r].id)]
        /\ UNCHANGED answers
  /\ UNCHANGED <<tables, log, up, reader, stored, races, faults>>

-----------------------------------------------------------------------------
\* Both: resolver.register and log.append.

\* resolver.register: one transaction.  The manifest row is upserted, the binding
\* is inserted unless the watermark has one.
Register(r) ==
  /\ req[r].pc = "register"
  /\ manifests' = [manifests EXCEPT ![req[r].id] = req[r].ver]
  /\ bindings' = [bindings EXCEPT ![req[r].wm] = IF @ = NoManifest THEN req[r].id ELSE @]
  /\ IF req[r].logged
       THEN Succeed(r)
       ELSE req' = [req EXCEPT ![r].pc = "append"] /\ UNCHANGED answers
  /\ UNCHANGED <<log, up, reader, stored, races, faults>>

LeafOf(r) == [id |-> req[r].id, ver |-> req[r].ver]

\* log.append: take the lock and put the leaf in the tree and the index.
AppendLeaf(r) ==
  /\ req[r].pc = "append"
  /\ LogUnlocked
  /\ tree' = Append(tree, LeafOf(r))
  /\ req' = [req EXCEPT ![r].pc = "store"]
  /\ UNCHANGED <<tables, leaves, up, reader, stored, answers, races, faults>>

\* log.append: the row is committed and append returns.
StoreLeaf(r) ==
  /\ req[r].pc = "store"
  /\ leaves' = Append(leaves, LeafOf(r))
  /\ Succeed(r)
  /\ UNCHANGED <<tables, tree, up, reader, stored, races, faults>>

\* log.append: the INSERT raises (see TransparencyLog, StoreRaises).  The tree
\* keeps the leaf, the table may not have it, and the caller gets a 500.
StoreRaises(r) ==
  /\ req[r].pc = "store"
  /\ failures < MaxFailures
  /\ failures' = failures + 1
  /\ \/ UNCHANGED leaves /\ lossy' = lossy \cup {req[r].id}
     \/ leaves' = Append(leaves, LeafOf(r)) /\ UNCHANGED lossy
  /\ Refuse(r)
  /\ UNCHANGED <<tables, tree, up, reader, stored, races, skipped, crashes>>

-----------------------------------------------------------------------------
\* _inclusion_proof, in a threadpool thread.

\* log.index_for: the position of the manifest's last leaf.
ReadIndex(m) ==
  /\ up
  /\ reader = NoRead
  /\ \E pos \in LeavesOf(tree, m) :
       /\ \A i \in LeavesOf(tree, m) : i <= pos
       /\ reader' = [NoRead EXCEPT !.pc = "index", !.id = m, !.pos = pos]
  /\ UNCHANGED <<tables, log, up, req, stored, answers, races, faults>>

\* _lookup_manifest: None is a 404.
ReadManifest ==
  /\ reader.pc = "index"
  /\ reader' = IF Registered(reader.id)
                 THEN [reader EXCEPT !.pc = "manifest", !.ver = manifests[reader.id]]
                 ELSE NoRead
  /\ UNCHANGED <<tables, log, up, req, stored, answers, races, faults>>

\* log.signed_proof, and the answer: leaf_hash is the hash of the manifest read,
\* the audit path is that of the position looked up.
ServeProof ==
  /\ reader.pc = "manifest"
  /\ LogUnlocked
  /\ reader' = NoRead
  /\ UNCHANGED <<tables, log, up, req, stored, answers, races, faults>>

-----------------------------------------------------------------------------
\* The process dies: the tables stay, memory and all requests are gone.
Crash ==
  /\ up
  /\ crashes < MaxCrashes
  /\ crashes' = crashes + 1
  /\ up' = FALSE
  /\ tree' = << >>
  /\ req' = [r \in Request |-> Free]
  /\ reader' = NoRead
  /\ UNCHANGED <<tables, leaves, stored, answers, races, lossy, skipped, failures>>

\* It starts again: TransparencyLog.__init__ replays the table.
Restart ==
  /\ ~up
  /\ up' = TRUE
  /\ tree' = leaves
  /\ UNCHANGED <<tables, leaves, req, reader, stored, answers, races, faults>>

\* A request in flight takes its next step.
Handle(r) ==
  \/ CheckManifest(r)
  \/ CheckBinding(r)
  \/ \E m \in Object : Pick(r, m) \/ Skip(r, m)
  \/ LookUpManifest(r)
  \/ LookUpIndex(r)
  \/ Register(r)
  \/ AppendLeaf(r)
  \/ StoreLeaf(r)
  \/ StoreRaises(r)

Arrive(r) ==
  \/ \E m \in CallerId, k \in WatermarkId : BeginIngest(r, m, k)
  \/ \E batch \in SUBSET Object : Deliver(r, batch)

Read ==
  \/ \E m \in ManifestId : ReadIndex(m)
  \/ ReadManifest
  \/ ServeProof

Next ==
  \/ \E r \in Request : Arrive(r) \/ Handle(r)
  \/ \E m \in Object : Upload(m)
  \/ Read
  \/ Crash
  \/ Restart

Spec == Init /\ [][Next]_vars

\* B2 keeps delivering a notification for m until one is acknowledged.
Redeliver(m) ==
  /\ m \in stored \ acked
  /\ \E r \in Request, batch \in SUBSET Object : m \in batch /\ Deliver(r, batch)

\* Coroutines and threads run to their end, the process is started again by its
\* supervisor, and B2 retries: strongly fair, as what a retry needs - a running
\* process - comes and goes.
Fairness ==
  /\ \A r \in Request : WF_vars(Handle(r))
  /\ \A m \in Object : SF_vars(Redeliver(m))
  /\ WF_vars(Restart)

FairSpec == Spec /\ Fairness
-----------------------------------------------------------------------------
TypeOK ==
  /\ manifests \in [ManifestId -> Version \cup {NoVersion}]
  /\ bindings \in [WatermarkId -> ManifestId \cup {NoManifest}]
  /\ leaves \in Seq(Leaf)
  /\ tree \in Seq(Leaf)
  /\ up \in BOOLEAN
  /\ req \in [Request -> Slot]
  /\ reader \in [pc : {"free", "index", "manifest"},
                 id : ManifestId \cup {NoManifest},
                 pos : 0..Len(tree),
                 ver : Version \cup {NoVersion}]
  /\ stored \subseteq Object
  /\ acked \subseteq stored
  /\ claim \subseteq [id : ManifestId, wm : WatermarkId \cup {NoWatermark}]
  /\ Cardinality(claim) <= 1
  /\ raced \subseteq ManifestId
  /\ contested \subseteq WatermarkId
  /\ lossy \subseteq ManifestId
  /\ skipped \subseteq Object
  /\ crashes \in 0..MaxCrashes
  /\ failures \in 0..MaxFailures

\* Ingest is idempotent across redeliveries, paths, failures and crashes between
\* any two of its steps, as long as no two requests work on one manifest at the
\* same time: its leaves, in the table and in the tree, are at most one, and that
\* one is the hash of the very body that is registered.
OneLeafPerManifest ==
  \A m \in ManifestId \ raced : \A s \in {leaves, tree} :
    \A i, j \in LeavesOf(s, m) : i = j /\ s[i].ver = manifests[m]

\* A 2xx answer means registered AND proven: the manifest is in the index and the
\* log, now and after any restart - unless an INSERT of its leaf raised, or another
\* request answered on the strength of an append still waiting for its INSERT.
OkIsProven ==
  \A o \in claim :
    /\ Registered(o.id)
    /\ o.id \notin lossy \cup raced =>
         LeavesOf(leaves, o.id) # {} /\ (up => Indexed(o.id))

\* What /ingest answered 200 for is recovered by its watermark from then on, when
\* no other request was at the same manifest or watermark meanwhile.
OkIsRecoverable ==
  \A o \in claim :
    o.wm # NoWatermark /\ o.id \notin raced /\ o.wm \notin contested
      => bindings[o.wm] = o.id

\* The body of a registered manifest never changes, whatever is ingested under its
\* id later, redelivered or healed, when the requests for it do not overlap.
RegisteredStays ==
  [][\A m \in ManifestId :
       Registered(m) /\ m \notin raced' => manifests'[m] = manifests[m]]_vars

\* A served inclusion proof is about the manifest it names: the leaf under its
\* audit path is the hash it states, although position, body and path were read
\* at three different moments.
ProofIsOfManifest ==
  [][ServeProof /\ reader.id \notin raced =>
       tree[reader.pos] = [id |-> reader.id, ver |-> reader.ver]]_vars

\* Every stored object ends up registered and proven, however often the process
\* crashes in the middle, because its notification is only acknowledged then - or
\* two deliveries of it overlapped, one of which may have answered too early, or it
\* could not itself be fetched or decoded: another object of its notification that
\* could not is no excuse.  (The runs that check it have no failing INSERT: after one the
\* redelivery acknowledges and a crash loses the leaf, which HealedByRedelivery shows.)
EventuallyProven ==
  \A m \in Object :
    m \in stored ~> (Registered(m) /\ LeavesOf(leaves, m) # {}) \/ m \in raced \cup skipped

-----------------------------------------------------------------------------
\* What the sources say of ingest and the code does not do.

\* sbr.py, ingest: "An existing manifest id is not overwritten (409)".
NotOverwritten ==
  [][\A m \in ManifestId : Registered(m) => manifests'[m] = manifests[m]]_vars

\* b2_events.py, ingest_stored_object: "ingest is idempotent across redeliveries".
Idempotent ==
  \A m \in ManifestId : \A i, j \in LeavesOf(leaves, m) : i = j

\* b2_events.py, ingest_stored_object, of a log-append failure: "a later redelivery
\* heals it".
HealedByRedelivery ==
  \A m \in Object :
    m \in lossy /\ m \in stored \ acked ~> [](up => Indexed(m))
=============================================================================
