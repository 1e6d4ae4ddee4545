------------------------------ MODULE Recovery ------------------------------
(***************************************************************************)
(* Recovery of a manifest from a stripped asset: the resolver and its      *)
(* index (resolver.py, index.py), the /matches and /manifests routes that  *)
(* query it (sbr.py), and the forwarding of a binding to peer resolvers.   *)
(*                                                                         *)
(* A registration and a query run in threadpool threads of their own.  The *)
(* in-memory index is three unlocked structures, written one after the     *)
(* other; the Postgres index writes all three in one transaction.  Either  *)
(* way a query reads them one after the other.  An uploaded asset has to   *)
(* pass the body limit first (BodyLimit).  A restart of the process empties*)
(* what is in memory.                                                      *)
(*                                                                         *)
(* Abstractions.  A perceptual hash is a point on a line, Hamming distance *)
(* the distance of two points; of several nearest hashes any may be found. *)
(* An HNSW index of pgvector searches approximately: it may find a hash    *)
(* that is not the nearest, or none.                                       *)
(* There is at most one match, so ordering by a hint and capping at        *)
(* maxResults >= 1 change nothing.  Audio and video have in-memory indexes *)
(* of their own, and watermarks are decoded from images only.  A peer is   *)
(* external: it may fail, know nothing, or name a manifest of its own.     *)
(***************************************************************************)
EXTENDS BodyLimit, FiniteSets, Sequences

CONSTANTS
  ManifestId,
  WatermarkId,
  Nothing,          \* no manifest, watermark or peer
  Foreign,          \* a manifest of a peer
  MaxHash,          \* the points are 0..MaxHash
  Threshold,        \* PDQ_HAMMING_THRESHOLD
  Peers,            \* ROOTED_SBR_PEERS, in order
  SafePeer,         \* those of them _peer_is_safe accepts
  MaxPeers,
  MaxFrames,        \* bound: sampled frames of a video
  MaxRegistrations, \* bound: registrations
  MaxLives          \* bound: restarts of the process

ASSUME RecoveryAssumption ==
  /\ Peers \in Seq({Peers[i] : i \in DOMAIN Peers})
  /\ Nothing \notin ManifestId \cup WatermarkId \cup {Peers[i] : i \in DOMAIN Peers}
  /\ Foreign \notin ManifestId \cup {Nothing}
  /\ {MaxHash, Threshold, MaxPeers, MaxFrames, MaxRegistrations,
      MaxLives} \subseteq Nat

VARIABLES
  backend,          \* the image index: in memory, in Postgres, or there with HNSW
  index,            \* the indexes, one for each modality
  writer,           \* a registration in progress
  query,            \* a query in progress, or the last one with its answer
  registrations,
  life              \* how often the process has restarted

state == <<backend, index, writer, query, registrations, life>>
vars == <<conn, state>>

-----------------------------------------------------------------------------
Modality == {"image", "audio", "video"}

Hash == 0..MaxHash

Distance(a, b) == IF a < b THEN b - a ELSE a - b

\* is_match: two hashes are close enough to be of one asset.
Close(a, b) == Distance(a, b) <= Threshold

Fingerprint == [hash : Hash, id : ManifestId]

Frames == UNION {[1..n -> Hash] : n \in 1..MaxFrames}

\* Faulty: the manifest comes last.
WriteOrderReversed == <<"fingerprint", "binding", "manifest">>

\* The order in which InMemoryIndex.register writes its three structures.
WriteOrder == <<"manifest", "binding", "fingerprint">>

NoWriter == [todo |-> << >>, mod |-> "image", id |-> Nothing, wm |-> Nothing, hash |-> 0]

NoQuery == [pc |-> "idle", mod |-> "image", frames |-> <<0>>, at |-> 1, wm |-> Nothing,
            federated |-> FALSE, match |-> Nothing, via |-> "none", endpoint |-> Nothing,
            todo |-> {}, know |-> {}, failed |-> {}, early |-> {}, bound |-> Nothing]

\* The fingerprints of one manifest.
FingerprintsFor(mod, m) == {p.hash : p \in {p \in index[mod].prints : p.id = m}}

FingerprintMatches(mod, hash, m) == \E h \in FingerprintsFor(mod, m) : Close(hash, h)

InMemory(mod) == backend = "memory" \/ mod # "image"

\* Every hash is compared.
Exact(mod) == InMemory(mod) \/ backend = "postgres"

\* The hashes within the threshold than which, if all are compared, there is none nearer.
Nearest(mod, hash) ==
  {p \in index[mod].prints :
     /\ Close(hash, p.hash)
     /\ Exact(mod) => \A q \in index[mod].prints : Distance(hash, p.hash) <= Distance(hash, q.hash)}

\* _peer_urls: the positions of the safe ones, and not more than MaxPeers of them.
PeerUrls ==
  LET safe == {i \in DOMAIN Peers : Peers[i] \in SafePeer}
  IN {i \in safe : Cardinality({j \in safe : j <= i}) <= MaxPeers}

EmptyIndex ==
  [manifests |-> {}, bindings |-> [k \in WatermarkId |-> Nothing], prints |-> {}]

Init ==
  /\ BodyInit
  /\ backend \in {"memory", "postgres", "hnsw"}
  /\ index = [mod \in Modality |-> EmptyIndex]
  /\ writer = NoWriter
  /\ query = NoQuery
  /\ registrations = 0 /\ life = 0

-----------------------------------------------------------------------------
\* Registration.

BeginRegister(mod, m, k, hash) ==
  /\ writer.todo = << >>
  /\ registrations < MaxRegistrations
  /\ registrations' = registrations + 1
  /\ writer' = [todo |-> WriteOrder, mod |-> mod, id |-> m, wm |-> k, hash |-> hash]
  /\ UNCHANGED <<conn, backend, index, query, life>>

\* Faulty: the last registration of a watermark wins.
BoundAgain(b) == [b EXCEPT ![writer.wm] = writer.id]

\* A watermark that is bound stays bound to what it was bound to.
Bound(b) == [b EXCEPT ![writer.wm] = IF @ = Nothing THEN writer.id ELSE @]

Put(ix, what) ==
  CASE what = "manifest"    -> [ix EXCEPT !.manifests = @ \cup {writer.id}]
    [] what = "binding"     -> [ix EXCEPT !.bindings = Bound(@)]
    [] what = "fingerprint" ->
         [ix EXCEPT !.prints = @ \cup {[hash |-> writer.hash, id |-> writer.id]}]

\* InMemoryIndex.register: one write after the other.
PutInMemory ==
  /\ InMemory(writer.mod)
  /\ writer.todo # << >>
  /\ index' = [index EXCEPT ![writer.mod] = Put(@, Head(writer.todo))]
  /\ writer' = IF Len(writer.todo) = 1 THEN NoWriter ELSE [writer EXCEPT !.todo = Tail(@)]
  /\ UNCHANGED <<conn, backend, query, registrations, life>>

\* PostgresIndex.register: one transaction, committed or rolled back.
RegisterInPostgres ==
  /\ ~InMemory(writer.mod)
  /\ writer.todo # << >>
  /\ \/ index' = [index EXCEPT !["image"] =
          Put(Put(Put(@, "manifest"), "binding"), "fingerprint")]
     \/ UNCHANGED index
  /\ writer' = NoWriter
  /\ UNCHANGED <<conn, backend, query, registrations, life>>

-----------------------------------------------------------------------------
\* Queries by content.

\* Faulty: the fingerprints are asked first.
BeginContentNearest(mod, frames, wm) ==
  /\ conn.pc = "closed" /\ conn.route = "form" /\ conn.status = "app"
  /\ conn' = Closed
  /\ mod # "image" => wm = Nothing
  /\ mod # "video" => Len(frames) = 1
  /\ query' = [NoQuery EXCEPT !.pc = "nearest",
       !.mod = mod, !.frames = frames, !.wm = wm, !.early = index[mod].prints,
       !.bound = IF wm = Nothing THEN Nothing ELSE index[mod].bindings[wm]]
  /\ UNCHANGED <<backend, index, writer, registrations, life>>

\* The upload has passed the middleware and is decoded, or refused with 413 or 415.
\* A video is sampled into several frames.  The watermark is decoded first.
BeginContent(mod, frames, wm) ==
  /\ conn.pc = "closed" /\ conn.route = "form" /\ conn.status = "app"
  /\ conn' = Closed
  /\ mod # "image" => wm = Nothing
  /\ mod # "video" => Len(frames) = 1
  /\ query' \in
       {[NoQuery EXCEPT !.pc = "done", !.via = "refused"],
        [NoQuery EXCEPT !.pc = IF wm = Nothing THEN "nearest" ELSE "binding",
           !.mod = mod, !.frames = frames, !.wm = wm, !.early = index[mod].prints,
           !.bound = IF wm = Nothing THEN Nothing ELSE index[mod].bindings[wm]]}
  /\ UNCHANGED <<backend, index, writer, registrations, life>>

Frame == query.frames[query.at]

\* resolve_by_content: the manifest the watermark points to, ...
ReadBinding ==
  /\ query.pc = "binding"
  /\ LET m == index[query.mod].bindings[query.wm]
     IN query' = IF m = Nothing THEN [query EXCEPT !.pc = "nearest"]
                 ELSE [query EXCEPT !.pc = "check", !.match = m]
  /\ UNCHANGED <<conn, backend, index, writer, registrations, life>>

\* Faulty: the watermark is believed.
CheckNothing ==
  /\ query.pc = "check"
  /\ query' = [query EXCEPT !.pc = "done", !.via = "watermark"]
  /\ UNCHANGED <<conn, backend, index, writer, registrations, life>>

\* ... but only if the asset looks like that manifest's (the integrity clash), ...
CheckFingerprints ==
  /\ query.pc = "check"
  /\ query' = IF FingerprintMatches(query.mod, Frame, query.match)
                THEN [query EXCEPT !.pc = "done", !.via = "watermark"]
                ELSE [query EXCEPT !.pc = "nearest", !.match = Nothing]
  /\ UNCHANGED <<conn, backend, index, writer, registrations, life>>

\* Faulty: a miss on the first frame ends the search.
ReadNearestOnce ==
  /\ query.pc = "nearest"
  /\ LET near == Nearest(query.mod, Frame)
     IN \/ \E p \in near :
             query' = [query EXCEPT !.pc = "done", !.via = "fingerprint", !.match = p.id]
        \/ (near = {} \/ ~Exact(query.mod)) /\ query' = [query EXCEPT !.pc = "done"]
  /\ UNCHANGED <<conn, backend, index, writer, registrations, life>>

\* ... else the nearest fingerprint within the threshold; then the next frame.
ReadNearest ==
  /\ query.pc = "nearest"
  /\ LET near == Nearest(query.mod, Frame)
     IN \/ \E p \in near :
             query' = [query EXCEPT !.pc = "done", !.via = "fingerprint", !.match = p.id]
        \/ /\ near = {} \/ ~Exact(query.mod)
           /\ query' = IF query.at < Len(query.frames) THEN [query EXCEPT !.at = @ + 1]
                       ELSE [query EXCEPT !.pc = "done"]
  /\ UNCHANGED <<conn, backend, index, writer, registrations, life>>

-----------------------------------------------------------------------------
\* Queries by binding, and federation.

BeginBinding(k, federated) ==
  /\ conn = Closed
  /\ query = NoQuery
  /\ query' = [NoQuery EXCEPT !.pc = "local", !.wm = k, !.federated = federated]
  /\ UNCHANGED <<conn, backend, index, writer, registrations, life>>

\* The image index first; on a miss the peers, if the route is the federated one.
\* What the peers know of the watermark is their own affair.
ReadLocal ==
  /\ query.pc = "local"
  /\ LET m == index["image"].bindings[query.wm]
     IN IF m # Nothing
          THEN query' = [query EXCEPT !.pc = "done", !.via = "binding", !.match = m]
          ELSE IF query.federated /\ PeerUrls # {}
            THEN \E know \in SUBSET {Peers[i] : i \in PeerUrls} :
                   query' = [query EXCEPT !.pc = "peers", !.todo = PeerUrls, !.know = know]
            ELSE query' = [query EXCEPT !.pc = "done"]
  /\ UNCHANGED <<conn, backend, index, writer, registrations, life>>

\* The loop goes through the positions in order.
First(todo) == CHOOSE i \in todo : \A j \in todo : i <= j

\* The peer at position i has no match, or failed: the next one, if there is one.
NextPeer(q, i) == [q EXCEPT !.todo = @ \ {i},
                            !.pc = IF q.todo = {i} THEN "done" ELSE "peers"]

Hit(q, i) == [q EXCEPT !.pc = "done", !.todo = {}, !.via = "peer", !.match = Foreign,
                       !.endpoint = Peers[i]]

\* An exception that is not a peer's error is nobody's: the answer is a 500.
Aborted(q) == [q EXCEPT !.pc = "done", !.todo = {}, !.via = "error"]

\* Faulty: an error ends the loop.
AskPeerOrStop ==
  /\ query.pc = "peers"
  /\ LET i == First(query.todo)
     IN \/ query' = [query EXCEPT !.pc = "done", !.todo = {}, !.failed = @ \cup {i}]
        \/ query' = IF Peers[i] \in query.know THEN Hit(query, i) ELSE NextPeer(query, i)
        \/ query' = Aborted(query)
  /\ UNCHANGED <<conn, backend, index, writer, registrations, life>>

\* _forward_to_peers: an error of one peer is that peer's only.  A peer's own
\* /matches/byBinding does not forward any further.
AskPeer ==
  /\ query.pc = "peers"
  /\ LET i == First(query.todo)
     IN \/ query' = [NextPeer(query, i) EXCEPT !.failed = @ \cup {i}]
        \/ query' = IF Peers[i] \in query.know THEN Hit(query, i) ELSE NextPeer(query, i)
        \/ query' = Aborted(query)
  /\ UNCHANGED <<conn, backend, index, writer, registrations, life>>

\* GET /manifests/{id}: _lookup_manifest asks the three resolvers in turn.
Lookup(m) == \E mod \in Modality : m \in index[mod].manifests

-----------------------------------------------------------------------------
\* The client, one request after the other.

Upload == query = NoQuery /\ BodyNext /\ UNCHANGED state

Dismiss ==
  /\ conn.pc = "closed"
  /\ query.pc = "done" \/ (query = NoQuery /\ conn # Closed)
  /\ query' = NoQuery
  /\ conn' = Closed
  /\ UNCHANGED <<backend, index, writer, registrations, life>>

\* The process restarts: what was in progress is gone, and so are the indexes in memory.
Restart ==
  /\ life < MaxLives
  /\ life' = life + 1
  /\ index' = [mod \in Modality |-> IF InMemory(mod) THEN EmptyIndex ELSE index[mod]]
  /\ writer' = NoWriter
  /\ query' = NoQuery
  /\ conn' = Closed
  /\ UNCHANGED <<backend, registrations>>

Step ==
  \/ Upload
  \/ Dismiss
  \/ \E mod \in Modality, m \in ManifestId, k \in WatermarkId, hash \in Hash :
       BeginRegister(mod, m, k, hash)
  \/ PutInMemory
  \/ RegisterInPostgres
  \/ \E mod \in Modality, frames \in Frames, wm \in WatermarkId \cup {Nothing} :
       BeginContent(mod, frames, wm)
  \/ ReadBinding
  \/ CheckFingerprints
  \/ ReadNearest
  \/ \E k \in WatermarkId, federated \in BOOLEAN : BeginBinding(k, federated)
  \/ ReadLocal
  \/ AskPeer

Next == Step \/ Restart

Spec == Init /\ [][Next]_vars

-----------------------------------------------------------------------------
Answered == query.pc = "done"

\* Every manifest a local query names can be fetched, even if it was found while its
\* registration was still under way.  (The order of InMemoryIndex.register, the
\* transaction of PostgresIndex.register, _lookup_manifest.)
MatchResolves == Answered /\ query.match \in ManifestId => Lookup(query.match)

\* A manifest recovered by content has a fingerprint, in the index of the asset's own
\* modality, close to the asset: a watermark pointing elsewhere is not believed.  But an
\* intact one decides: an asset that was close to the manifest its watermark was bound to
\* is recovered as that manifest, however near another one is.  (resolve_by_content.)
MatchIsOfContent ==
  Answered =>
    /\ query.via \in {"watermark", "fingerprint"} =>
         FingerprintMatches(query.mod, Frame, query.match)
    /\ query.bound # Nothing
         /\ (\E p \in query.early : p.id = query.bound /\ Close(Frame, p.hash)) =>
         query.match = query.bound

\* An asset close to a fingerprint that was there when the query began is recovered,
\* from any frame, and by fingerprint nothing farther away wins; unless the search is
\* approximate.  (resolve_by_content, nearest_fingerprint, _resolve_video_frames.)
FindsTheNearest ==
  Answered /\ query.via # "refused" /\ Exact(query.mod) =>
    /\ (\E i \in DOMAIN query.frames : \E p \in query.early : Close(query.frames[i], p.hash)) =>
         query.match # Nothing
    /\ query.via = "fingerprint" =>
         \E h \in FingerprintsFor(query.mod, query.match) :
           \A p \in query.early : Distance(Frame, h) <= Distance(Frame, p.hash)

\* A watermark is never pointed at another manifest, whichever of two registrations
\* comes second; only a restart unbinds it, and that only in memory.
\* (put_watermark_binding, ON CONFLICT DO NOTHING.)
BindingsImmutable ==
  [][\A mod \in Modality, k \in WatermarkId :
       /\ index[mod].bindings[k] # Nothing
       /\ life' = life \/ ~InMemory(mod)
       => index'[mod].bindings[k] = index[mod].bindings[k]]_vars

\* Only safe peers are asked, no more than the cap allows; a federated query that is not
\* a 500 comes back empty only if each of them failed or knew nothing, and the endpoint of
\* an answer is the peer that gave it.  (_peer_urls, _forward_to_peers.)
FederationTries ==
  /\ Cardinality(query.todo) <= MaxPeers
  /\ \A i \in query.todo : Peers[i] \in SafePeer
  /\ Answered /\ query.federated =>
       /\ query.match = Nothing /\ query.via # "error" =>
            \A i \in PeerUrls : Peers[i] \in query.know => i \in query.failed
       /\ query.via = "peer" =>
            \E i \in PeerUrls \ query.failed : query.endpoint = Peers[i] /\ Peers[i] \in query.know
=============================================================================
