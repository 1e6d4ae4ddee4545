---------------------------- MODULE RecoveryProofs --------------------------
(***************************************************************************)
(* What holds of recovery (BodyLimit, Recovery, RecoveryClients) for any   *)
(* number of manifests, watermarks, peers, frames and restarts.            *)
(*                                                                         *)
(* A query reads the indexes at several moments and registrations write    *)
(* them in between.  QueryInv says what a query knows at each of its       *)
(* steps.  It rests on two facts: the indexes only grow between restarts,  *)
(* so what the query found is still there, and what was there when it began*)
(* can be found at every later read.                                       *)
(***************************************************************************)
EXTENDS RecoveryClients, FiniteSetTheorems, SequenceTheorems, WellFoundedInduction, TLAPS

Stage == {"idle", "binding", "check", "nearest", "local", "peers", "done"}

Via == {"none", "refused", "watermark", "fingerprint", "binding", "peer", "error"}

Query ==
  [pc : Stage, mod : Modality, frames : Seq(Hash), at : Nat, wm : WatermarkId \cup {Nothing},
   federated : BOOLEAN, match : ManifestId \cup {Nothing, Foreign}, via : Via,
   endpoint : {Peers[i] : i \in DOMAIN Peers} \cup {Nothing}, todo : SUBSET DOMAIN Peers,
   know : SUBSET SafePeer, failed : SUBSET DOMAIN Peers, early : SUBSET Fingerprint,
   bound : ManifestId \cup {Nothing}]

Index == [manifests : SUBSET ManifestId, bindings : [WatermarkId -> ManifestId \cup {Nothing}],
          prints : SUBSET Fingerprint]

\* What is left to be written of a registration.
Partial == {<<"binding", "fingerprint">>, <<"fingerprint">>}

Todo == {<< >>, WriteOrder} \cup Partial

Writer == [todo : Todo, mod : Modality, id : ManifestId \cup {Nothing},
           wm : WatermarkId \cup {Nothing}, hash : Hash]

Conn == [pc : {"closed", "reading", "cut"}, route : Route, total : Nat, fed : Nat,
         over : BOOLEAN, status : {"none", "413", "500", "app"}]

Tool == [pc : {"idle", "match", "manifest"}, kind : Kind, match : ManifestId \cup {Nothing},
         restarted : BOOLEAN, lost : BOOLEAN, known : BOOLEAN,
         answer : {"none", "invalid", "failed", "no match", "match without manifest",
                   "recovered"}]

RecTypeOK ==
  /\ conn \in Conn
  /\ backend \in {"memory", "postgres", "hnsw"}
  /\ index \in [Modality -> Index]
  /\ writer \in Writer
  /\ query \in Query

-----------------------------------------------------------------------------
\* While a body is read, what the route was fed is what has arrived.
BodyInv ==
  /\ conn.fed <= Limit
  /\ conn.pc = "reading" => ~conn.over /\ conn.fed = conn.total /\ conn.status = "none"
  /\ conn.over => conn.status # "app"

\* What the bindings and fingerprints of an index name is there.
NamesAreThere(ix) ==
  /\ \A k \in WatermarkId : ix.bindings[k] \in ix.manifests \cup {Nothing}
  /\ \A p \in ix.prints : p.id \in ix.manifests

IndexInv == \A mod \in Modality : NamesAreThere(index[mod])

\* A registration in memory writes its manifest first.
WriterInv ==
  /\ writer.todo # << >> => writer.id \in ManifestId /\ writer.wm \in WatermarkId
  /\ writer.todo \in Partial =>
       InMemory(writer.mod) /\ writer.id \in index[writer.mod].manifests

\* An early fingerprint of q that is close to the hash h.
EarlyClose(q, h) == \E p \in q.early : Close(h, p.hash)

\* The watermark of q was bound, and to a manifest that the asset is close to.
Decided(q) == q.bound # Nothing /\ \E p \in q.early : p.id = q.bound /\ Close(q.frames[1], p.hash)

\* What every query knows: the match is there, and so is what was there at its begin.
Found(q) ==
  /\ q.at \in 1..Len(q.frames)
  /\ q.match \in ManifestId => q.match \in index[q.mod].manifests
  /\ q.early \subseteq index[q.mod].prints
  /\ q.bound # Nothing =>
       /\ q.wm \in WatermarkId /\ index[q.mod].bindings[q.wm] = q.bound
       /\ Len(q.frames) = 1

\* What a query by content knows at each of its steps.
ByContent(q) ==
  /\ q.pc = "binding" => q.wm \in WatermarkId /\ q.at = 1
  /\ q.pc = "check" =>
       /\ q.at = 1
       /\ q.match \in ManifestId /\ (q.bound # Nothing => q.match = q.bound)
  /\ q.pc = "nearest" =>
       ~Decided(q) /\ (Exact(q.mod) => \A j \in 1..(q.at - 1) : ~EarlyClose(q, q.frames[j]))
  /\ q.pc \in {"binding", "nearest"} => q.match = Nothing
  /\ q.pc \in {"binding", "nearest", "check"} => ~q.federated

\* What its answer is.
ByContentAnswer(q) ==
  /\ q.via = "watermark" =>
       /\ q.match \in ManifestId /\ FingerprintMatches(q.mod, q.frames[q.at], q.match)
       /\ q.bound # Nothing => q.match = q.bound
  /\ q.via = "fingerprint" =>
       /\ q.match \in ManifestId
       /\ \E h \in FingerprintsFor(q.mod, q.match) :
            /\ Close(q.frames[q.at], h)
            /\ Exact(q.mod) => \A p \in q.early :
                 Distance(q.frames[q.at], h) <= Distance(q.frames[q.at], p.hash)
  /\ q.via \in {"fingerprint", "none"} => ~Decided(q)
  /\ q.via = "none" =>
       /\ q.match = Nothing
       /\ Exact(q.mod) => \A j \in DOMAIN q.frames : ~EarlyClose(q, q.frames[j])
  /\ q.via \in {"refused", "binding", "peer", "error"} => q.early = {} /\ q.bound = Nothing
  /\ q.via \in {"refused", "error"} => q.match = Nothing
  /\ q.via = "binding" => q.match \in ManifestId
  /\ q.via = "peer" => q.match = Foreign

\* The peers of i that know the watermark have been asked, and failed.
NotYet(q) == \A i \in PeerUrls \ q.todo : Peers[i] \in q.know => i \in q.failed

\* What a query by binding knows.
ByBinding(q) ==
  /\ q.pc \in {"local", "peers"} =>
       /\ q.wm \in WatermarkId /\ q.mod = "image"
       /\ q.early = {} /\ q.bound = Nothing /\ q.match = Nothing
  /\ q.pc = "local" => q.failed = {}
  /\ q.pc = "peers" <=> q.todo # {}
  /\ q.todo \subseteq PeerUrls /\ q.todo \cap q.failed = {}
  /\ q.todo # {} => q.federated /\ NotYet(q)
  /\ q.pc = "done" /\ q.federated =>
       /\ q.match = Nothing /\ q.via # "error" => NotYet(q)
       /\ q.via = "peer" =>
            \E i \in PeerUrls \ q.failed : q.endpoint = Peers[i] /\ Peers[i] \in q.know
  /\ q.via \in {"peer", "error"} => q.federated

QueryOK(q) ==
  /\ q.pc # "idle" => Found(q) /\ ByContent(q) /\ ByBinding(q)
  /\ q.pc = "done" => ByContentAnswer(q)
  /\ q.pc # "done" => q.via = "none"

\* There is no upload while a query is under way.
QueryInv ==
  /\ QueryOK(query)
  /\ query.pc = "idle" => query = NoQuery
  /\ query = NoQuery \/ conn = Closed

\* An index in memory was lost while the client t was in its call.
IndexLost(t) == t.restarted /\ InMemory("image")

\* The query of the client t will find what was there when it was asked.
WillFind(t, q) ==
  /\ q.pc # "idle" /\ q.mod = "image" /\ ~q.federated
  /\ t.known /\ q.via # "refused" =>
       \/ Exact("image") /\ EarlyClose(q, q.frames[1])
       \/ q.pc = "local" /\ index["image"].bindings[q.wm] # Nothing
       \/ q.pc = "done" /\ q.match # Nothing

\* What a client knows at each of its steps, and what its answer says.
ClientInv ==
  /\ tool \in Tool
  /\ tool.pc = "match" => tool.match = Nothing /\ (tool.lost \/ WillFind(tool, query))
  /\ tool.pc = "manifest" =>
       /\ tool.match \in ManifestId
       /\ tool.match \in index["image"].manifests \/ IndexLost(tool)
  /\ tool.pc # "idle" => tool.answer = "none"
  /\ tool.answer = "match without manifest" => IndexLost(tool)
  /\ tool.answer = "failed" /\ tool.match # Nothing => tool.lost \/ IndexLost(tool)
  /\ tool.answer = "no match" => ~tool.known

ServerInv == RecTypeOK /\ BodyInv /\ IndexInv /\ WriterInv /\ QueryInv

RecoveryInv == ServerInv /\ ClientInv
-----------------------------------------------------------------------------
\* Facts about the operators of the model.

\* Every set of naturals that is not empty has a least member.
LEMMA LeastMember ==
  ASSUME NEW T, T \subseteq Nat, T # {}
  PROVE  \E n \in T : \A m \in T : n <= m
<1>1. OpToRel(<, Nat) = {p \in Nat \X Nat : p[1] < p[2]}
  BY DEF OpToRel
<1> DEFINE R == {p \in Nat \X Nat : p[1] < p[2]}
<1>2. IsWellFoundedOn(R, Nat)
  BY <1>1, NatLessThanWellFounded
<1>3. \A x, y \in Nat : <<x, y>> \in R <=> x < y
  OBVIOUS
<1> HIDE DEF R
<1>4. PICK n \in T : \A m \in T : ~ <<m, n>> \in R
  BY <1>2, WFMin
<1>5. ASSUME NEW m \in T
      PROVE  n <= m
  <2>1. ~(m < n)
    BY <1>3, <1>4
  <2> QED BY <2>1
<1> QED BY <1>5

\* A hash is a natural number, and so is the distance of two.
LEMMA DistanceIsNat ==
  ASSUME RecoveryAssumption
  PROVE  /\ 0 \in Hash /\ Hash \subseteq Nat
         /\ \A a, b \in Hash : Distance(a, b) \in Nat
         /\ Threshold \in Nat
BY DEF RecoveryAssumption, Hash, Distance

\* The frames of an asset are a sequence of hashes, of one at least.
LEMMA FramesAreSeqs ==
  ASSUME NEW f \in Frames
  PROVE  f \in Seq(Hash) /\ 1 \in 1..Len(f) /\ DOMAIN f = 1..Len(f)
<1>1. PICK n \in 1..MaxFrames : f \in [1..n -> Hash]
  BY DEF Frames
<1>2. n \in Nat /\ n >= 1
  BY <1>1
<1>3. f \in Seq(Hash) /\ Len(f) = n
  BY <1>1, <1>2, IsASeq
<1> QED BY <1>2, <1>3

\* If any fingerprint is within the threshold there is a nearest one.
LEMMA NearestExists ==
  ASSUME RecoveryAssumption, index \in [Modality -> Index], NEW mod \in Modality, NEW h \in Hash,
         NEW p \in index[mod].prints, Close(h, p.hash)
  PROVE  Nearest(mod, h) # {}
<1> DEFINE S == index[mod].prints
           T == {Distance(h, q.hash) : q \in S}
<1>1. S \subseteq Fingerprint
  BY DEF Index
<1>2. \A q \in S : Distance(h, q.hash) \in Nat
  BY <1>1, DistanceIsNat DEF Fingerprint
<1>3. T \subseteq Nat /\ T # {}
  BY <1>2
<1>4. PICK n \in T : \A m \in T : n <= m
  BY <1>3, LeastMember
<1>5. PICK q \in S : n = Distance(h, q.hash)
  BY <1>4
<1>6. \A x \in S : Distance(h, q.hash) <= Distance(h, x.hash)
  BY <1>4, <1>5
<1>7. Close(h, q.hash)
  <2>1. Distance(h, q.hash) <= Distance(h, p.hash) /\ Distance(h, p.hash) <= Threshold
    BY <1>6 DEF Close
  <2>2. {Distance(h, q.hash), Distance(h, p.hash), Threshold} \subseteq Nat
    BY <1>2, DistanceIsNat
  <2>3. Distance(h, q.hash) <= Threshold
    BY <2>1, <2>2
  <2> QED BY <2>3 DEF Close
<1>8. Nearest(mod, h) = {x \in S : Close(h, x.hash)
                            /\ (Exact(mod) => \A y \in S :
                                  Distance(h, x.hash) <= Distance(h, y.hash))}
  BY DEF Nearest
<1>9. q \in Nearest(mod, h)
  BY <1>6, <1>7, <1>8, Zenon
<1> QED BY <1>9

\* The loop over peers has a next one as long as any is left.
LEMMA FirstIsLeft ==
  ASSUME RecoveryAssumption, NEW todo, todo \subseteq DOMAIN Peers, todo # {}
  PROVE  First(todo) \in todo
<1>1. DOMAIN Peers \subseteq Nat
  BY DEF RecoveryAssumption
<1>2. \E i \in todo : \A j \in todo : i <= j
  BY <1>1, LeastMember
<1> QED BY <1>2 DEF First

\* There are no more peers than the cap allows.
LEMMA PeersBounded ==
  ASSUME RecoveryAssumption
  PROVE  IsFiniteSet(PeerUrls) /\ Cardinality(PeerUrls) <= MaxPeers
<1> DEFINE safe == {i \in DOMAIN Peers : Peers[i] \in SafePeer}
           upTo(i) == {j \in safe : j <= i}
<1>1. Len(Peers) \in Nat /\ DOMAIN Peers = 1..Len(Peers) /\ MaxPeers \in Nat
  BY DEF RecoveryAssumption
<1>2. IsFiniteSet(safe) /\ safe \subseteq 1..Len(Peers)
  <2>1. IsFiniteSet(1..Len(Peers))
    BY <1>1, FS_Interval
  <2> QED BY <1>1, <2>1, FS_Subset
<1>3. PeerUrls = {i \in safe : Cardinality(upTo(i)) <= MaxPeers}
  BY DEF PeerUrls
<1>4. IsFiniteSet(PeerUrls) /\ PeerUrls \subseteq safe
  BY <1>2, <1>3, FS_Subset
<1>5. CASE PeerUrls = {}
  BY <1>1, <1>4, <1>5, FS_EmptySet
<1>6. CASE PeerUrls # {}
  <2> DEFINE T == {Len(Peers) - i : i \in PeerUrls}
  <2>1. T \subseteq Nat /\ T # {}
    BY <1>1, <1>2, <1>4, <1>6
  <2>2. PICK n \in T : \A m \in T : n <= m
    BY <2>1, LeastMember
  <2>3. PICK i \in PeerUrls : n = Len(Peers) - i
    BY <2>2
  <2>4. ASSUME NEW j \in PeerUrls
        PROVE  j <= i
    <3>1. n <= Len(Peers) - j
      BY <2>2
    <3> QED BY <1>1, <1>2, <1>4, <2>3, <3>1
  <2>5. PeerUrls \subseteq upTo(i)
    BY <1>4, <2>4
  <2>6. IsFiniteSet(upTo(i)) /\ Cardinality(upTo(i)) <= MaxPeers
    BY <1>2, <1>3, <2>3, FS_Subset
  <2>7. Cardinality(PeerUrls) <= Cardinality(upTo(i))
        /\ Cardinality(PeerUrls) \in Nat /\ Cardinality(upTo(i)) \in Nat
    BY <1>4, <2>5, <2>6, FS_Subset, FS_CardinalityType
  <2> QED BY <1>1, <1>4, <2>6, <2>7
<1> QED BY <1>5, <1>6

-----------------------------------------------------------------------------
\* The indexes grow.

\* Nothing is taken out of the indexes, and no watermark is bound again.
Grows ==
  /\ index' \in [Modality -> Index] /\ backend' = backend
  /\ \A mod \in Modality :
       /\ index[mod].manifests \subseteq index'[mod].manifests
       /\ index[mod].prints \subseteq index'[mod].prints
       /\ \A k \in WatermarkId : index[mod].bindings[k] # Nothing =>
            index'[mod].bindings[k] = index[mod].bindings[k]

\* What a query knows stays true of the indexes as they grow.
LEMMA QueryStays ==
  ASSUME RecTypeOK, Grows, NEW q \in Query, QueryOK(q)
  PROVE  QueryOK(q)'
<1>1. q.mod \in Modality
  BY DEF Query
<1>2. ASSUME Found(q)
      PROVE  Found(q)'
  BY <1>1, <1>2 DEF Found, Grows
<1>7. backend' = backend
  BY DEF Grows
<1>3. ByContent(q)' <=> ByContent(q)
  BY <1>7 DEF ByContent, Decided, EarlyClose, Close, Distance, Exact, InMemory
<1>4. ByBinding(q)' <=> ByBinding(q)
  BY DEF ByBinding, NotYet, PeerUrls
<1>5. \A m : FingerprintsFor(q.mod, m) \subseteq FingerprintsFor(q.mod, m)'
  BY <1>1 DEF FingerprintsFor, Grows
<1>6. ASSUME ByContentAnswer(q)
      PROVE  ByContentAnswer(q)'
  BY <1>5, <1>6, <1>7 DEF ByContentAnswer, FingerprintMatches, Decided, EarlyClose, Close,
                          Distance, Exact, InMemory
<1> QED BY <1>2, <1>3, <1>4, <1>6 DEF QueryOK

-----------------------------------------------------------------------------
\* The steps of a query.

\* The query q goes on as s; what it is about does not change.
Advances(q, s) ==
  /\ s.pc # "idle" /\ s.mod = q.mod /\ s.frames = q.frames /\ s.wm = q.wm
  /\ s.federated = q.federated /\ s.early = q.early /\ s.bound = q.bound
  /\ q.pc = "local" /\ index["image"].bindings[q.wm] # Nothing =>
       s.pc = "done" /\ s.match # Nothing

\* The parts of the state that a step of a query leaves alone.
Others == <<conn, backend, index, writer, registrations, life>>

QueryStep(s) == query' = s /\ s \in Query /\ QueryOK(s) /\ UNCHANGED Others

\* The query q at stage pc, with its way and its match so far.
At(q, pc, via, m) == [q EXCEPT !.pc = pc, !.via = via, !.match = m]

\* What q becomes is a query, about the same.
LEMMA AtIsQuery ==
  ASSUME NEW q \in Query, q.pc # "local", NEW pc \in Stage \ {"idle"}, NEW via \in Via,
         NEW m \in ManifestId \cup {Nothing, Foreign}
  PROVE  /\ At(q, pc, via, m) \in Query /\ Advances(q, At(q, pc, via, m))
         /\ At(q, pc, via, m).pc = pc /\ At(q, pc, via, m).via = via
         /\ At(q, pc, via, m).match = m /\ At(q, pc, via, m).at = q.at
         /\ At(q, pc, via, m).todo = q.todo /\ At(q, pc, via, m).failed = q.failed
         /\ At(q, pc, via, m).know = q.know
<1>1. PICK s : s = At(q, pc, via, m)
  OBVIOUS
<1>2. s \in Query
  BY <1>1 DEF At, Query
<1>3. /\ s.pc = pc /\ s.via = via /\ s.match = m /\ s.mod = q.mod /\ s.frames = q.frames
      /\ s.wm = q.wm /\ s.federated = q.federated /\ s.early = q.early /\ s.bound = q.bound
      /\ s.at = q.at /\ s.todo = q.todo /\ s.know = q.know /\ s.failed = q.failed
  BY <1>1 DEF At, Query
<1> QED BY <1>1, <1>2, <1>3 DEF Advances

\* The watermark's manifest is there, and the one it was bound to at the begin.
LEMMA ReadBindingAdvances ==
  ASSUME RecoveryAssumption, RecTypeOK, IndexInv, QueryInv, ReadBinding
  PROVE  \E s : QueryStep(s) /\ Advances(query, s)
<1>1. PICK q \in Query : q = query /\ QueryOK(q) /\ q.pc = "binding"
  BY DEF RecTypeOK, QueryInv, ReadBinding
<1>2. q.wm \in WatermarkId /\ q.mod \in Modality /\ q.via = "none" /\ q.at = 1
      /\ q.match = Nothing /\ ~q.federated /\ Found(q) /\ q.todo = {}
  BY <1>1 DEF QueryOK, ByContent, ByBinding, Query
<1> DEFINE m == index[q.mod].bindings[q.wm]
<1>3. m \in ManifestId \cup {Nothing} /\ m \in index[q.mod].manifests \cup {Nothing}
  BY <1>2 DEF RecTypeOK, IndexInv, NamesAreThere, Index
<1>4. Nothing \notin ManifestId
  BY DEF RecoveryAssumption
<1>5. q.bound # Nothing => m = q.bound
  BY <1>2 DEF Found
<1> HIDE DEF m
<1>6. CASE m = Nothing
  <2> DEFINE s == At(q, "nearest", "none", Nothing)
  <2>1. query' = s /\ UNCHANGED Others
    <3>1. [q EXCEPT !.pc = "nearest"] = s
      BY <1>2 DEF Query, At
    <3> HIDE DEF s
    <3> QED BY <3>1, <1>1, <1>6 DEF ReadBinding, Others, m
  <2>2. /\ s \in Query /\ s.pc = "nearest" /\ Advances(q, s) /\ s.at = q.at /\ s.match = Nothing
        /\ s.via = "none" /\ s.todo = q.todo /\ s.failed = q.failed
    BY <1>1, AtIsQuery DEF Stage, Via
  <2> HIDE DEF s
  <2>3. Found(s)
    BY <1>2, <1>4, <2>2 DEF Found, Advances
  <2>4. ~Decided(s)
    BY <1>5, <1>6, <2>2 DEF Decided, Advances
  <2>5. ByContent(s) /\ ByBinding(s)
    BY <1>1, <1>2, <2>2, <2>4 DEF QueryOK, ByContent, ByBinding, Advances
  <2> QED BY <1>1, <2>1, <2>2, <2>3, <2>5 DEF QueryStep, QueryOK
<1>7. CASE m # Nothing
  <2> DEFINE s == At(q, "check", "none", m)
  <2>1. query' = s /\ UNCHANGED Others
    <3>1. [q EXCEPT !.pc = "check", !.match = m] = s
      BY <1>2 DEF Query, At
    <3> HIDE DEF s
    <3> QED BY <3>1, <1>1, <1>7 DEF ReadBinding, Others, m
  <2>2. /\ s \in Query /\ s.pc = "check" /\ Advances(q, s) /\ s.at = q.at /\ s.match = m
        /\ s.via = "none" /\ s.todo = q.todo /\ s.failed = q.failed
    BY <1>1, <1>3, AtIsQuery DEF Stage, Via
  <2> HIDE DEF s
  <2>3. Found(s)
    BY <1>2, <1>3, <1>7, <2>2 DEF Found, Advances
  <2>4. ByContent(s) /\ ByBinding(s)
    BY <1>1, <1>2, <1>3, <1>5, <1>7, <2>2 DEF QueryOK, ByContent, ByBinding, Advances
  <2> QED BY <1>1, <2>1, <2>2, <2>3, <2>4 DEF QueryStep, QueryOK
<1> QED BY <1>6, <1>7

\* A watermark that was bound to a manifest close to the asset passes the check.
LEMMA CheckFingerprintsAdvances ==
  ASSUME RecoveryAssumption, RecTypeOK, IndexInv, QueryInv, CheckFingerprints
  PROVE  \E s : QueryStep(s) /\ Advances(query, s)
<1>1. PICK q \in Query : q = query /\ QueryOK(q) /\ q.pc = "check"
  BY DEF RecTypeOK, QueryInv, CheckFingerprints
<1>2. q.mod \in Modality /\ q.via = "none" /\ q.at = 1 /\ q.match \in ManifestId
      /\ ~q.federated /\ Found(q) /\ q.todo = {} /\ (q.bound # Nothing => q.match = q.bound)
  BY <1>1 DEF QueryOK, ByContent, ByBinding, Query
<1>3. Nothing \notin ManifestId /\ Foreign \notin ManifestId
  BY DEF RecoveryAssumption
<1>4. PICK m \in ManifestId : m = q.match
  BY <1>2
<1>5. CASE FingerprintMatches(q.mod, q.frames[q.at], q.match)
  <2> DEFINE s == At(q, "done", "watermark", m)
  <2>1. query' = s /\ UNCHANGED Others
    <3>1. [q EXCEPT !.pc = "done", !.via = "watermark"] = s
      BY <1>4 DEF Query, At
    <3> HIDE DEF s
    <3> QED BY <3>1, <1>1, <1>5 DEF CheckFingerprints, Others, Frame
  <2>2. /\ s \in Query /\ s.pc = "done" /\ Advances(q, s) /\ s.at = q.at /\ s.match = q.match
        /\ s.via = "watermark" /\ s.todo = q.todo /\ s.failed = q.failed
    BY <1>1, <1>4, AtIsQuery DEF Stage, Via
  <2> HIDE DEF s
  <2>3. Found(s)
    BY <1>2, <2>2 DEF Found, Advances
  <2>4. ByContent(s) /\ ByBinding(s)
    BY <1>1, <1>2, <2>2 DEF QueryOK, ByContent, ByBinding, Advances
  <2>5. ByContentAnswer(s)
    BY <1>2, <1>5, <2>2 DEF ByContentAnswer, Advances
  <2> QED BY <1>1, <2>1, <2>2, <2>3, <2>4, <2>5 DEF QueryStep, QueryOK
<1>6. CASE ~FingerprintMatches(q.mod, q.frames[q.at], q.match)
  <2> DEFINE s == At(q, "nearest", "none", Nothing)
  <2>1. query' = s /\ UNCHANGED Others
    <3>1. [q EXCEPT !.pc = "nearest", !.match = Nothing] = s
      BY <1>2 DEF Query, At
    <3> HIDE DEF s
    <3> QED BY <3>1, <1>1, <1>6 DEF CheckFingerprints, Others, Frame
  <2>2. /\ s \in Query /\ s.pc = "nearest" /\ Advances(q, s) /\ s.at = q.at /\ s.match = Nothing
        /\ s.via = "none" /\ s.todo = q.todo /\ s.failed = q.failed
    BY <1>1, AtIsQuery DEF Stage, Via
  <2> HIDE DEF s
  <2>3. Found(s)
    BY <1>2, <1>3, <2>2 DEF Found, Advances
  <2>4. \A p \in q.early : p.id = q.match => ~Close(q.frames[1], p.hash)
    BY <1>2, <1>6 DEF FingerprintMatches, FingerprintsFor, Found
  <2>5. ~Decided(s)
    BY <1>2, <2>2, <2>4 DEF Decided, Advances
  <2>6. ByContent(s) /\ ByBinding(s)
    BY <1>1, <1>2, <2>2, <2>5 DEF QueryOK, ByContent, ByBinding, Advances
  <2> QED BY <1>1, <2>1, <2>2, <2>3, <2>6 DEF QueryStep, QueryOK
<1> QED BY <1>5, <1>6

\* A frame without a near fingerprint was close to none at the begin; the nearest of all
\* is no farther than any that was there.
LEMMA ReadNearestAdvances ==
  ASSUME RecoveryAssumption, RecTypeOK, IndexInv, QueryInv, ReadNearest
  PROVE  \E s : QueryStep(s) /\ Advances(query, s)
<1>1. PICK q \in Query : q = query /\ QueryOK(q) /\ q.pc = "nearest"
  BY DEF RecTypeOK, QueryInv, ReadNearest
<1>2. q.mod \in Modality /\ q.via = "none" /\ q.match = Nothing /\ ~q.federated
      /\ Found(q) /\ q.todo = {} /\ ~Decided(q)
      /\ (Exact(q.mod) => \A j \in 1..(q.at - 1) : ~EarlyClose(q, q.frames[j]))
  BY <1>1 DEF QueryOK, ByContent, ByBinding, Query
<1>3. q.at \in 1..Len(q.frames) /\ DOMAIN q.frames = 1..Len(q.frames) /\ Len(q.frames) \in Nat
      /\ q.frames \in Seq(Hash) /\ q.at \in Nat
  BY <1>2 DEF Found, Query
<1>4. PICK h \in Hash : h = q.frames[q.at]
  BY <1>3
<1>5. Nothing \notin ManifestId /\ Foreign \notin ManifestId
  BY DEF RecoveryAssumption
<1> DEFINE near == Nearest(q.mod, h)
<1>6. ASSUME NEW p \in near,
             query' = [q EXCEPT !.pc = "done", !.via = "fingerprint", !.match = p.id]
      PROVE  \E s : QueryStep(s) /\ Advances(query, s)
  <2>1. /\ p \in index[q.mod].prints /\ Close(h, p.hash)
        /\ Exact(q.mod) =>
             \A x \in index[q.mod].prints : Distance(h, p.hash) <= Distance(h, x.hash)
    BY DEF Nearest
  <2>2. PICK m \in ManifestId : m = p.id /\ m \in index[q.mod].manifests
    <3>1. q.mod \in Modality
      BY DEF Query
    <3>2. index[q.mod] \in Index /\ NamesAreThere(index[q.mod])
      BY <1>2, <3>1 DEF RecTypeOK, IndexInv
    <3>3. p.id \in index[q.mod].manifests /\ p.id \in ManifestId
      BY <2>1, <3>2 DEF Index, NamesAreThere
    <3> QED BY <3>3
  <2> DEFINE s == At(q, "done", "fingerprint", m)
  <2>3. query' = s
    BY <1>6, <2>2 DEF At
  <2>4. /\ s \in Query /\ s.pc = "done" /\ Advances(q, s) /\ s.at = q.at /\ s.match = m
        /\ s.via = "fingerprint" /\ s.todo = q.todo /\ s.failed = q.failed
    <3>1. /\ "done" \in Stage \ {"idle"} /\ "fingerprint" \in Via /\ q.pc # "local"
          /\ m \in ManifestId \cup {Nothing, Foreign}
      BY <1>1, <2>2 DEF Stage, Via
    <3> QED BY <3>1, AtIsQuery
  <2> HIDE DEF s
  <2>5. Found(s)
    BY <1>2, <2>2, <2>4 DEF Found, Advances
  <2>6. ~Decided(s)
    BY <1>2, <2>4 DEF Decided, Advances
  <2>7. ByContent(s) /\ ByBinding(s)
    BY <1>1, <1>2, <1>5, <2>2, <2>4 DEF QueryOK, ByContent, ByBinding, Advances
  <2>8. p.hash \in FingerprintsFor(s.mod, s.match)
    BY <2>1, <2>2, <2>4 DEF FingerprintsFor, Advances
  <2>9. Exact(s.mod) => \A x \in s.early : Distance(h, p.hash) <= Distance(h, x.hash)
    BY <1>2, <2>1, <2>4 DEF Found, Advances
  <2>10. s.frames[s.at] = h
    BY <1>4, <2>4 DEF Advances
  <2>11. ByContentAnswer(s)
    BY <2>1, <2>2, <2>4, <2>6, <2>8, <2>9, <2>10 DEF ByContentAnswer
  <2>12. UNCHANGED Others
    BY DEF ReadNearest, Others
  <2> QED BY <1>1, <2>3, <2>4, <2>5, <2>7, <2>11, <2>12 DEF QueryStep, QueryOK
<1>7. ASSUME near = {}, Exact(q.mod)
      PROVE  ~EarlyClose(q, h)
  <2>1. \A p \in index[q.mod].prints : ~Close(h, p.hash)
    BY <1>2, <1>7, NearestExists DEF RecTypeOK
  <2> QED BY <1>2, <2>1 DEF EarlyClose, Found
<1>8. ASSUME near = {} \/ ~Exact(q.mod), q.at < Len(q.frames), query' = [q EXCEPT !.at = q.at + 1]
      PROVE  \E s : QueryStep(s) /\ Advances(query, s)
  <2>1. PICK s : s = [q EXCEPT !.at = q.at + 1]
    OBVIOUS
  <2>2. q.at + 1 \in 1..Len(q.frames) /\ q.at + 1 \in Nat
    BY <1>3, <1>8
  <2>3. s \in Query
    BY <2>1, <2>2 DEF Query
  <2>4. /\ s.pc = "nearest" /\ s.via = "none" /\ s.match = Nothing /\ s.at = q.at + 1
        /\ s.todo = q.todo /\ s.failed = q.failed /\ s.mod = q.mod /\ s.frames = q.frames
        /\ s.wm = q.wm /\ s.federated = q.federated /\ s.early = q.early /\ s.bound = q.bound
    BY <1>1, <1>2, <2>1 DEF Query
  <2>5. Found(s)
    BY <1>2, <1>5, <2>2, <2>4 DEF Found
  <2>6. ~Decided(s)
    BY <1>2, <2>4 DEF Decided
  <2>7. ASSUME NEW j \in 1..(s.at - 1), Exact(s.mod)
        PROVE  ~EarlyClose(s, s.frames[j])
    <3>1. j \in 1..(q.at - 1) \/ j = q.at
      BY <1>3, <2>4
    <3>2. EarlyClose(s, s.frames[j]) <=> EarlyClose(q, q.frames[j])
      BY <2>4 DEF EarlyClose
    <3>3. Exact(q.mod)
      BY <2>4, <2>7
    <3> QED BY <1>2, <1>4, <1>7, <1>8, <3>1, <3>2, <3>3
  <2>8. ByContent(s) /\ ByBinding(s)
    BY <1>1, <1>2, <2>4, <2>6, <2>7 DEF QueryOK, ByContent, ByBinding
  <2>9. Advances(q, s)
    BY <1>1, <2>4 DEF Advances
  <2>10. UNCHANGED Others
    BY DEF ReadNearest, Others
  <2> QED BY <1>1, <1>8, <2>1, <2>3, <2>4, <2>5, <2>8, <2>9, <2>10 DEF QueryStep, QueryOK
<1>9. ASSUME near = {} \/ ~Exact(q.mod), ~(q.at < Len(q.frames)),
             query' = [q EXCEPT !.pc = "done"]
      PROVE  \E s : QueryStep(s) /\ Advances(query, s)
  <2> DEFINE s == At(q, "done", "none", Nothing)
  <2>1. [q EXCEPT !.pc = "done"] = s
    BY <1>2 DEF Query, At
  <2>2. /\ s \in Query /\ s.pc = "done" /\ Advances(q, s) /\ s.at = q.at /\ s.match = Nothing
        /\ s.via = "none" /\ s.todo = q.todo /\ s.failed = q.failed
    BY <1>1, AtIsQuery DEF Stage, Via
  <2> HIDE DEF s
  <2>3. Found(s)
    BY <1>2, <1>5, <2>2 DEF Found, Advances
  <2>4. ~Decided(s)
    BY <1>2, <2>2 DEF Decided, Advances
  <2>5. ByContent(s) /\ ByBinding(s)
    BY <1>1, <1>2, <2>2 DEF QueryOK, ByContent, ByBinding, Advances
  <2>6. ASSUME NEW j \in DOMAIN s.frames, Exact(s.mod)
        PROVE  ~EarlyClose(s, s.frames[j])
    <3>1. j \in 1..(q.at - 1) \/ j = q.at
      BY <1>3, <1>9, <2>2 DEF Advances
    <3>2. EarlyClose(s, s.frames[j]) <=> EarlyClose(q, q.frames[j])
      BY <2>2 DEF EarlyClose, Advances
    <3>3. Exact(q.mod)
      BY <2>2, <2>6 DEF Advances
    <3> QED BY <1>2, <1>4, <1>7, <1>9, <3>1, <3>2, <3>3
  <2>7. ByContentAnswer(s)
    BY <2>2, <2>4, <2>6 DEF ByContentAnswer
  <2>8. UNCHANGED Others
    BY DEF ReadNearest, Others
  <2> QED BY <1>1, <1>9, <2>1, <2>2, <2>3, <2>5, <2>7, <2>8 DEF QueryStep, QueryOK
<1> QED BY <1>1, <1>4, <1>6, <1>8, <1>9 DEF ReadNearest, Frame

\* A binding that is there is found; else the safe peers are asked, all of them.
LEMMA ReadLocalAdvances ==
  ASSUME RecoveryAssumption, RecTypeOK, IndexInv, QueryInv, ReadLocal
  PROVE  \E s : QueryStep(s) /\ Advances(query, s)
<1>1. PICK q \in Query : q = query /\ QueryOK(q) /\ q.pc = "local"
  BY DEF RecTypeOK, QueryInv, ReadLocal
<1>2. q.wm \in WatermarkId /\ q.mod = "image" /\ q.via = "none" /\ q.match = Nothing
      /\ q.early = {} /\ q.bound = Nothing /\ q.todo = {} /\ q.failed = {} /\ Found(q)
  BY <1>1 DEF QueryOK, ByContent, ByBinding, Query
<1>3. Nothing \notin ManifestId /\ Foreign \notin ManifestId
  BY DEF RecoveryAssumption
<1>4. PICK m \in ManifestId \cup {Nothing} : m = index["image"].bindings[q.wm]
  BY <1>2 DEF RecTypeOK, Index, Modality
<1>5. m \in index["image"].manifests \cup {Nothing}
  BY <1>2, <1>4 DEF IndexInv, NamesAreThere, Modality
<1>6. UNCHANGED Others
  BY DEF ReadLocal, Others
<1>7. ASSUME m # Nothing, query' = [q EXCEPT !.pc = "done", !.via = "binding", !.match = m]
      PROVE  \E s : QueryStep(s) /\ Advances(query, s)
  <2>1. PICK s : s = [q EXCEPT !.pc = "done", !.via = "binding", !.match = m]
    OBVIOUS
  <2>2. s \in Query
    BY <2>1 DEF Query, Stage, Via
  <2>3. /\ s.pc = "done" /\ s.via = "binding" /\ s.match = m /\ s.at = q.at
        /\ s.todo = q.todo /\ s.failed = q.failed /\ s.mod = q.mod /\ s.frames = q.frames
        /\ s.wm = q.wm /\ s.federated = q.federated /\ s.early = q.early /\ s.bound = q.bound
    BY <2>1 DEF Query
  <2>4. Advances(q, s)
    BY <1>7, <2>3 DEF Advances
  <2>5. Found(s) /\ ByContentAnswer(s)
    BY <1>2, <1>5, <1>7, <2>3 DEF Found, ByContentAnswer
  <2>6. ByContent(s) /\ ByBinding(s)
    BY <1>1, <1>2, <1>7, <2>3 DEF QueryOK, ByContent, ByBinding
  <2> QED BY <1>1, <1>6, <1>7, <2>1, <2>2, <2>3, <2>4, <2>5, <2>6 DEF QueryStep, QueryOK
<1>8. ASSUME m = Nothing, q.federated, PeerUrls # {}, NEW know \in SUBSET SafePeer,
             query' = [q EXCEPT !.pc = "peers", !.todo = PeerUrls, !.know = know]
      PROVE  \E s : QueryStep(s) /\ Advances(query, s)
  <2>1. PICK s : s = [q EXCEPT !.pc = "peers", !.todo = PeerUrls, !.know = know]
    OBVIOUS
  <2>2. PeerUrls \subseteq DOMAIN Peers
    BY DEF PeerUrls
  <2>3. s \in Query
    BY <2>1, <2>2 DEF Query, Stage
  <2>4. /\ s.pc = "peers" /\ s.via = "none" /\ s.match = Nothing /\ s.at = q.at
        /\ s.todo = PeerUrls /\ s.failed = q.failed /\ s.mod = q.mod /\ s.frames = q.frames
        /\ s.wm = q.wm /\ s.federated = q.federated /\ s.early = q.early /\ s.bound = q.bound
    BY <1>2, <2>1 DEF Query
  <2>5. Advances(q, s)
    BY <1>4, <1>8, <2>4 DEF Advances
  <2>6. Found(s)
    BY <1>2, <1>3, <2>4 DEF Found
  <2>7. NotYet(s)
    BY <2>4 DEF NotYet
  <2>8. ByContent(s) /\ ByBinding(s)
    BY <1>1, <1>2, <1>8, <2>4, <2>7 DEF QueryOK, ByContent, ByBinding
  <2> QED BY <1>1, <1>6, <1>8, <2>1, <2>3, <2>4, <2>5, <2>6, <2>8 DEF QueryStep, QueryOK
<1>9. ASSUME m = Nothing, ~(q.federated /\ PeerUrls # {}), query' = [q EXCEPT !.pc = "done"]
      PROVE  \E s : QueryStep(s) /\ Advances(query, s)
  <2>1. PICK s : s = [q EXCEPT !.pc = "done"]
    OBVIOUS
  <2>2. s \in Query
    BY <2>1 DEF Query, Stage
  <2>3. /\ s.pc = "done" /\ s.via = "none" /\ s.match = Nothing /\ s.at = q.at
        /\ s.todo = {} /\ s.failed = q.failed /\ s.mod = q.mod /\ s.frames = q.frames
        /\ s.wm = q.wm /\ s.federated = q.federated /\ s.early = q.early /\ s.bound = q.bound
    BY <1>2, <2>1 DEF Query
  <2>4. Advances(q, s)
    BY <1>4, <1>9, <2>3 DEF Advances
  <2>5. Found(s)
    BY <1>2, <1>3, <2>3 DEF Found
  <2>6. ByContentAnswer(s)
    BY <1>2, <2>3 DEF ByContentAnswer, Decided, EarlyClose
  <2>7. ByContent(s)
    BY <2>3 DEF ByContent
  <2>8. ByBinding(s)
    BY <1>1, <1>2, <1>9, <2>3 DEF QueryOK, ByBinding, NotYet
  <2> QED BY <1>1, <1>6, <1>9, <2>1, <2>2, <2>3, <2>4, <2>5, <2>6, <2>7, <2>8
          DEF QueryStep, QueryOK
<1>10. SUBSET {Peers[i] : i \in PeerUrls} \subseteq SUBSET SafePeer
  BY DEF PeerUrls
<1> QED BY <1>1, <1>2, <1>4, <1>7, <1>8, <1>9, <1>10 DEF ReadLocal
\* What s shares with q while the loop over the peers goes on.
SameBinding(q, s) ==
  /\ s.at = q.at /\ s.mod = q.mod /\ s.frames = q.frames /\ s.wm = q.wm
  /\ s.federated = q.federated /\ s.early = q.early /\ s.bound = q.bound /\ s.know = q.know

\* The peer at position i has been asked and gave no match.
LEMMA PeerPassed ==
  ASSUME RecoveryAssumption, NEW q \in Query, QueryOK(q), q.pc = "peers", NEW i \in q.todo,
         NEW s \in Query, SameBinding(q, s), s.via = q.via, s.match = q.match,
         s.todo = q.todo \ {i}, s.pc = IF q.todo = {i} THEN "done" ELSE "peers",
         s.failed \in {q.failed, q.failed \cup {i}}, Peers[i] \in q.know => i \in s.failed
  PROVE  QueryOK(s) /\ Advances(q, s)
<1>1. q.wm \in WatermarkId /\ q.mod = "image" /\ q.via = "none" /\ q.match = Nothing
      /\ q.early = {} /\ q.bound = Nothing /\ q.federated /\ NotYet(q) /\ Found(q)
      /\ q.todo \subseteq PeerUrls /\ q.todo \cap q.failed = {}
  BY DEF QueryOK, ByBinding
<1>2. Nothing \notin ManifestId /\ Foreign \notin ManifestId
  BY DEF RecoveryAssumption
<1>3. Found(s)
  BY <1>1, <1>2 DEF Found, SameBinding
<1>4. s.pc \in {"done", "peers"} /\ (s.pc = "peers" <=> s.todo # {})
  OBVIOUS
<1>5. ByContent(s)
  BY <1>4 DEF ByContent
<1>6. NotYet(s)
  BY <1>1 DEF NotYet, SameBinding
<1>7. s.todo \subseteq PeerUrls /\ s.todo \cap s.failed = {}
  BY <1>1
<1>8. ByBinding(s)
  BY <1>1, <1>4, <1>6, <1>7 DEF ByBinding, SameBinding
<1>9. ByContentAnswer(s)
  BY <1>1 DEF ByContentAnswer, SameBinding, Decided, EarlyClose
<1>10. Advances(q, s)
  BY <1>4 DEF Advances, SameBinding
<1> QED BY <1>1, <1>3, <1>4, <1>5, <1>8, <1>9, <1>10 DEF QueryOK

\* A peer answers, or it is passed over; one that knows the watermark only if it failed.
LEMMA AskPeerAdvances ==
  ASSUME RecoveryAssumption, RecTypeOK, QueryInv, AskPeer
  PROVE  \E s : QueryStep(s) /\ Advances(query, s)
<1>1. PICK q \in Query : q = query /\ QueryOK(q) /\ q.pc = "peers"
  BY DEF RecTypeOK, QueryInv, AskPeer
<1>2. q.wm \in WatermarkId /\ q.mod = "image" /\ q.via = "none" /\ q.match = Nothing
      /\ q.early = {} /\ q.bound = Nothing /\ q.federated /\ NotYet(q) /\ Found(q)
      /\ q.todo \subseteq PeerUrls /\ q.todo # {} /\ q.todo \cap q.failed = {}
  BY <1>1 DEF QueryOK, ByBinding
<1>3. Nothing \notin ManifestId /\ Foreign \notin ManifestId
  BY DEF RecoveryAssumption
<1>4. PICK i \in q.todo : i = First(q.todo)
  <2>1. q.todo \subseteq DOMAIN Peers
    BY DEF Query
  <2> QED BY <1>2, <2>1, FirstIsLeft
<1>5. UNCHANGED Others
  BY DEF AskPeer, Others
<1>6. PICK pc \in {"done", "peers"} : pc = IF q.todo = {i} THEN "done" ELSE "peers"
  OBVIOUS
<1>7. i \in DOMAIN Peers
  BY DEF Query
<1>8. ASSUME query' = [NextPeer(q, i) EXCEPT !.failed = @ \cup {i}]
      PROVE  \E s : QueryStep(s) /\ Advances(query, s)
  <2>1. PICK s : s = [q EXCEPT !.todo = q.todo \ {i}, !.pc = pc, !.failed = q.failed \cup {i}]
    OBVIOUS
  <2>2. query' = s
    BY <1>6, <1>8, <2>1 DEF NextPeer, Query
  <2>3. s \in Query
    BY <1>7, <2>1 DEF Query, Stage
  <2>4. SameBinding(q, s) /\ s.via = q.via /\ s.match = q.match /\ s.todo = q.todo \ {i}
        /\ s.pc = pc /\ s.failed = q.failed \cup {i}
    BY <2>1 DEF Query, SameBinding
  <2>5. QueryOK(s) /\ Advances(q, s)
    BY <1>1, <1>6, <2>3, <2>4, PeerPassed
  <2> QED BY <1>1, <1>5, <2>2, <2>3, <2>5 DEF QueryStep
<1>9. ASSUME Peers[i] \notin q.know, query' = NextPeer(q, i)
      PROVE  \E s : QueryStep(s) /\ Advances(query, s)
  <2>1. PICK s : s = [q EXCEPT !.todo = q.todo \ {i}, !.pc = pc]
    OBVIOUS
  <2>2. query' = s
    BY <1>6, <1>9, <2>1 DEF NextPeer, Query
  <2>3. s \in Query
    BY <2>1 DEF Query, Stage
  <2>4. SameBinding(q, s) /\ s.via = q.via /\ s.match = q.match /\ s.todo = q.todo \ {i}
        /\ s.pc = pc /\ s.failed = q.failed
    BY <2>1 DEF Query, SameBinding
  <2>5. QueryOK(s) /\ Advances(q, s)
    BY <1>1, <1>6, <1>9, <2>3, <2>4, PeerPassed
  <2> QED BY <1>1, <1>5, <2>2, <2>3, <2>5 DEF QueryStep
<1>10. ASSUME Peers[i] \in q.know, query' = Hit(q, i)
       PROVE  \E s : QueryStep(s) /\ Advances(query, s)
  <2>1. PICK s : s = Hit(q, i)
    OBVIOUS
  <2>2. s \in Query
    BY <1>7, <2>1 DEF Hit, Query, Stage, Via
  <2>3. SameBinding(q, s) /\ s.via = "peer" /\ s.match = Foreign /\ s.todo = {}
        /\ s.pc = "done" /\ s.failed = q.failed /\ s.endpoint = Peers[i]
    BY <2>1 DEF Hit, Query, SameBinding
  <2>4. Found(s)
    BY <1>2, <1>3, <2>3 DEF Found, SameBinding
  <2>5. ByContent(s) /\ ByContentAnswer(s)
    BY <1>2, <2>3 DEF ByContent, ByContentAnswer, SameBinding
  <2>6. i \in PeerUrls \ s.failed
    BY <1>2, <2>3
  <2>7. ByBinding(s)
    BY <1>2, <1>3, <1>10, <2>3, <2>6 DEF ByBinding, SameBinding, RecoveryAssumption
  <2>8. Advances(q, s)
    BY <1>1, <2>3 DEF Advances, SameBinding
  <2> QED BY <1>1, <1>5, <1>10, <2>1, <2>2, <2>3, <2>4, <2>5, <2>7, <2>8 DEF QueryStep, QueryOK
<1>11. ASSUME query' = Aborted(q)
       PROVE  \E s : QueryStep(s) /\ Advances(query, s)
  <2>1. PICK s : s = Aborted(q)
    OBVIOUS
  <2>2. s \in Query
    BY <2>1 DEF Aborted, Query, Stage, Via
  <2>3. SameBinding(q, s) /\ s.via = "error" /\ s.match = Nothing /\ s.todo = {}
        /\ s.pc = "done"
    BY <1>2, <2>1 DEF Aborted, Query, SameBinding
  <2>4. Found(s)
    BY <1>2, <1>3, <2>3 DEF Found, SameBinding
  <2>5. ByContent(s) /\ ByContentAnswer(s)
    BY <1>2, <2>3 DEF ByContent, ByContentAnswer, SameBinding
  <2>6. ByBinding(s)
    BY <1>2, <2>3 DEF ByBinding, SameBinding
  <2>7. Advances(q, s)
    BY <1>1, <2>3 DEF Advances, SameBinding
  <2> QED BY <1>1, <1>5, <1>11, <2>1, <2>2, <2>3, <2>4, <2>5, <2>6, <2>7 DEF QueryStep, QueryOK
<1>12. \/ query' = [NextPeer(q, i) EXCEPT !.failed = @ \cup {i}]
       \/ query' = IF Peers[i] \in q.know THEN Hit(q, i) ELSE NextPeer(q, i)
       \/ query' = Aborted(q)
  BY <1>1, <1>4 DEF AskPeer
<1> QED BY <1>8, <1>9, <1>10, <1>11, <1>12
-----------------------------------------------------------------------------
\* The body limit.

\* What a route is fed never passes the limit.
LEMMA BodyKeeps ==
  ASSUME BodyAssumption, conn \in Conn, BodyInv, BodyNext
  PROVE  conn' \in Conn /\ BodyInv'
<1>1. Limit \in Nat /\ MaxChunk \in Nat
  BY DEF BodyAssumption
<1>2. PICK c \in Conn : c = conn
  OBVIOUS
<1>3. ASSUME NEW route \in Route, NEW declared \in 0..(Limit + 1), Open(route, declared)
      PROVE  conn' \in Conn /\ BodyInv'
  BY <1>1, <1>3 DEF Open, Closed, Conn, BodyInv
<1>4. ASSUME NEW n \in 1..MaxChunk, Receive(n)
      PROVE  conn' \in Conn /\ BodyInv'
  <2>1. n \in Nat /\ c.total + n \in Nat /\ c.fed + n \in Nat /\ c.total \in Nat /\ c.fed \in Nat
    BY <1>1 DEF Conn
  <2>2. c.pc = "reading" /\ ~c.over /\ c.status = "none" /\ c.fed = c.total /\ c.fed <= Limit
    BY <1>2, <1>4 DEF Receive, BodyInv
  <2>3. CASE c.total + n > Limit
    <3>1. conn' = [c EXCEPT !.pc = "cut", !.total = c.total + n, !.over = TRUE]
      BY <1>2, <1>4, <2>3 DEF Receive
    <3>2. PICK d : d = [c EXCEPT !.pc = "cut", !.total = c.total + n, !.over = TRUE]
      OBVIOUS
    <3>3. d \in Conn /\ d.fed = c.fed /\ d.pc = "cut" /\ d.status = c.status
      BY <2>1, <3>2 DEF Conn
    <3> QED BY <2>2, <3>1, <3>2, <3>3 DEF BodyInv
  <2>4. CASE ~(c.total + n > Limit)
    <3>1. conn' = [c EXCEPT !.total = c.total + n, !.fed = c.fed + n]
      BY <1>2, <1>4, <2>4 DEF Receive
    <3>2. PICK d : d = [c EXCEPT !.total = c.total + n, !.fed = c.fed + n]
      OBVIOUS
    <3>3. /\ d \in Conn /\ d.fed = c.fed + n /\ d.total = c.total + n
          /\ d.over = c.over /\ d.status = c.status
      BY <2>1, <3>2 DEF Conn
    <3>4. d.fed = d.total /\ d.fed <= Limit
      BY <1>1, <2>1, <2>2, <2>4, <3>3
    <3> QED BY <2>2, <3>1, <3>2, <3>3, <3>4 DEF BodyInv
  <2> QED BY <2>3, <2>4
<1>5. ASSUME Cut
      PROVE  conn' \in Conn /\ BodyInv'
  <2>1. PICK st \in {"413", "500"} : st = IF c.route = "form" THEN "413" ELSE "500"
    OBVIOUS
  <2>2. PICK d : d = [c EXCEPT !.pc = "closed", !.status = st]
    OBVIOUS
  <2>3. conn' = d
    BY <1>2, <1>5, <2>1, <2>2 DEF Cut
  <2>4. d \in Conn /\ d.fed = c.fed /\ d.pc = "closed" /\ d.status = st
    BY <2>2 DEF Conn
  <2> QED BY <1>2, <2>3, <2>4 DEF BodyInv
<1>6. ASSUME Answer
      PROVE  conn' \in Conn /\ BodyInv'
  <2>1. PICK d : d = [c EXCEPT !.pc = "closed", !.status = "app"]
    OBVIOUS
  <2>2. conn' = d /\ c.pc = "reading"
    BY <1>2, <1>6, <2>1 DEF Answer
  <2>3. d \in Conn /\ d.fed = c.fed /\ d.pc = "closed" /\ d.over = c.over
    BY <2>1 DEF Conn
  <2> QED BY <1>2, <2>2, <2>3 DEF BodyInv
<1> QED BY <1>3, <1>4, <1>5, <1>6 DEF BodyNext

\* A connection that is closed fed nothing.
LEMMA ClosedIsOK ==
  ASSUME BodyAssumption
  PROVE  /\ Closed \in Conn /\ Closed.fed <= Limit /\ Closed.pc = "closed" /\ ~Closed.over
         /\ Closed.status = "none"
BY DEF BodyAssumption, Closed, Conn, Route

-----------------------------------------------------------------------------
\* Registration.

\* One index grows from x to y.
IndexGrows(x, y) ==
  /\ x.manifests \subseteq y.manifests /\ x.prints \subseteq y.prints
  /\ \A k \in WatermarkId : x.bindings[k] # Nothing => y.bindings[k] = x.bindings[k]

\* Each of the three writes only adds, and leaves every name there: what a binding or a
\* fingerprint names is in the index before it.
LEMMA PutGrows ==
  ASSUME NEW x \in Index, NamesAreThere(x),
         writer \in Writer, writer.id \in ManifestId, writer.wm \in WatermarkId,
         NEW what \in {"manifest", "binding", "fingerprint"},
         what = "manifest" \/ writer.id \in x.manifests
  PROVE  /\ Put(x, what) \in Index /\ NamesAreThere(Put(x, what)) /\ IndexGrows(x, Put(x, what))
         /\ writer.id \in Put(x, what).manifests
<1>1. PICK w \in Writer : w = writer /\ w.id \in ManifestId /\ w.wm \in WatermarkId
  OBVIOUS
<1>2. ASSUME what = "manifest"
      PROVE  /\ Put(x, what) \in Index /\ NamesAreThere(Put(x, what))
             /\ IndexGrows(x, Put(x, what)) /\ writer.id \in Put(x, what).manifests
  <2>1. PICK y : y = [x EXCEPT !.manifests = x.manifests \cup {w.id}]
    OBVIOUS
  <2>2. Put(x, what) = y
    BY <1>1, <1>2, <2>1, Zenon DEF Put
  <2>3. y \in Index /\ y.manifests = x.manifests \cup {w.id} /\ y.bindings = x.bindings
        /\ y.prints = x.prints
    BY <1>1, <2>1 DEF Index
  <2> QED BY <1>1, <2>2, <2>3 DEF NamesAreThere, IndexGrows
<1>3. ASSUME what = "binding", w.id \in x.manifests
      PROVE  /\ Put(x, what) \in Index /\ NamesAreThere(Put(x, what))
             /\ IndexGrows(x, Put(x, what)) /\ writer.id \in Put(x, what).manifests
  <2>1. PICK b : b = Bound(x.bindings)
    OBVIOUS
  <2>2. x.bindings \in [WatermarkId -> ManifestId \cup {Nothing}]
    BY DEF Index
  <2>3. b \in [WatermarkId -> ManifestId \cup {Nothing}]
        /\ \A k \in WatermarkId :
             b[k] = IF k = w.wm /\ x.bindings[k] = Nothing THEN w.id ELSE x.bindings[k]
    BY <1>1, <2>1, <2>2 DEF Bound
  <2>4. PICK y : y = [x EXCEPT !.bindings = b]
    OBVIOUS
  <2>5. Put(x, what) = y
    BY <1>3, <2>1, <2>4, Zenon DEF Put
  <2>6. y \in Index /\ y.manifests = x.manifests /\ y.bindings = b /\ y.prints = x.prints
    BY <2>3, <2>4 DEF Index
  <2> QED BY <1>1, <1>3, <2>3, <2>5, <2>6 DEF NamesAreThere, IndexGrows
<1>4. ASSUME what = "fingerprint", w.id \in x.manifests
      PROVE  /\ Put(x, what) \in Index /\ NamesAreThere(Put(x, what))
             /\ IndexGrows(x, Put(x, what)) /\ writer.id \in Put(x, what).manifests
  <2>1. PICK p : p = [hash |-> w.hash, id |-> w.id]
    OBVIOUS
  <2>2. p \in Fingerprint /\ p.id = w.id
    BY <1>1, <2>1 DEF Fingerprint, Writer
  <2>3. PICK y : y = [x EXCEPT !.prints = x.prints \cup {p}]
    OBVIOUS
  <2>4. Put(x, what) = y
    BY <1>1, <1>4, <2>1, <2>3, Zenon DEF Put
  <2>5. y \in Index /\ y.manifests = x.manifests /\ y.bindings = x.bindings
        /\ y.prints = x.prints \cup {p}
    BY <2>2, <2>3 DEF Index
  <2> QED BY <1>1, <1>4, <2>2, <2>4, <2>5 DEF NamesAreThere, IndexGrows
<1> QED BY <1>1, <1>2, <1>3, <1>4

\* What is left of a registration after one of its writes.
LEMMA TodoSteps ==
  ASSUME NEW t \in Todo, t # << >>
  PROVE  /\ Head(t) \in {"manifest", "binding", "fingerprint"}
         /\ Head(t) = "manifest" \/ t \in Partial
         /\ Len(t) # 1 => Tail(t) \in Partial
<1>1. CASE t = WriteOrder
  BY <1>1 DEF WriteOrder, Partial
<1>2. CASE t = <<"binding", "fingerprint">>
  BY <1>2 DEF Partial
<1>3. CASE t = <<"fingerprint">>
  BY <1>3 DEF Partial
<1> QED BY <1>1, <1>2, <1>3 DEF Todo, Partial

\* A registration that has written nothing is not one that has written some.
LEMMA WholeIsNotPartial == WriteOrder \notin Partial /\ << >> \notin Partial /\ WriteOrder # << >>
BY DEF WriteOrder, Partial

\* The index of one modality is replaced by one that has grown.
LEMMA OneGrows ==
  ASSUME RecTypeOK, IndexInv, NEW mod \in Modality, NEW y \in Index, NamesAreThere(y),
         IndexGrows(index[mod], y), index' = [index EXCEPT ![mod] = y], backend' = backend
  PROVE  Grows /\ IndexInv'
<1>1. index' \in [Modality -> Index] /\ index'[mod] = y
      /\ \A x \in Modality \ {mod} : index'[x] = index[x]
  BY DEF RecTypeOK
<1>2. Grows
  BY <1>1 DEF Grows, IndexGrows
<1>3. ASSUME NEW x \in Modality
      PROVE  NamesAreThere(index'[x])
  BY <1>1 DEF IndexInv
<1>4. \A x \in Modality : NamesAreThere(index[x])' <=> NamesAreThere(index'[x])
  BY DEF NamesAreThere
<1> QED BY <1>2, <1>3, <1>4 DEF IndexInv

\* An index that has grown leaves a query what it knows.
LEMMA QueryInvStays ==
  ASSUME RecTypeOK, Grows, QueryInv, UNCHANGED <<query, conn>>
  PROVE  QueryInv'
<1>1. PICK q \in Query : q = query
  BY DEF RecTypeOK
<1>2. QueryOK(q)'
  BY <1>1, QueryStays DEF QueryInv
<1>3. QueryOK(query)'
  <2>1. query' = q
    BY <1>1
  <2> QED BY <1>2, <2>1
<1> QED BY <1>3 DEF QueryInv, NoQuery, Closed

\* Nothing changes in the indexes.
LEMMA SameGrows ==
  ASSUME RecTypeOK, index' = index, backend' = backend
  PROVE  Grows
BY DEF RecTypeOK, Grows

\* A registration begins.
LEMMA BeginRegisterKeeps ==
  ASSUME ServerInv, NEW mod \in Modality, NEW m \in ManifestId, NEW k \in WatermarkId,
         NEW hash \in Hash, BeginRegister(mod, m, k, hash)
  PROVE  ServerInv' /\ Grows
<1>1. PICK w : w = [todo |-> WriteOrder, mod |-> mod, id |-> m, wm |-> k, hash |-> hash]
  OBVIOUS
<1>2. writer' = w /\ UNCHANGED <<conn, backend, index, query>>
  BY <1>1 DEF BeginRegister
<1>3. w \in Writer /\ w.todo = WriteOrder /\ w.id = m /\ w.wm = k
  BY <1>1 DEF Writer, Todo
<1>4. RecTypeOK'
  BY <1>2, <1>3 DEF ServerInv, RecTypeOK
<1>5. Grows
  BY <1>2, SameGrows DEF ServerInv
<1>6. BodyInv' /\ IndexInv'
  BY <1>2 DEF ServerInv, BodyInv, IndexInv, NamesAreThere
<1>7. WriterInv'
  BY <1>2, <1>3, WholeIsNotPartial DEF WriterInv
<1>8. QueryInv'
  BY <1>2, <1>5, QueryInvStays DEF ServerInv
<1> QED BY <1>4, <1>5, <1>6, <1>7, <1>8 DEF ServerInv

\* No registration is one that has nothing left.
LEMMA NoWriterIsOK ==
  ASSUME RecoveryAssumption
  PROVE  NoWriter \in Writer /\ NoWriter.todo = << >>
BY DistanceIsNat DEF NoWriter, Writer, Todo, Modality

\* One write of a registration in memory.
LEMMA PutInMemoryKeeps ==
  ASSUME RecoveryAssumption, ServerInv, PutInMemory
  PROVE  ServerInv' /\ Grows
<1>1. PICK w \in Writer : w = writer /\ w.todo # << >> /\ w.todo \in Todo
  BY DEF ServerInv, RecTypeOK, PutInMemory, Writer
<1>2. w.mod \in Modality /\ w.id \in ManifestId /\ w.wm \in WatermarkId /\ InMemory(w.mod)
  BY <1>1 DEF ServerInv, WriterInv, Writer, PutInMemory
<1>3. PICK what \in {"manifest", "binding", "fingerprint"} : what = Head(w.todo)
  BY <1>1, TodoSteps
<1>4. PICK x \in Index : x = index[w.mod] /\ NamesAreThere(x)
  BY <1>2 DEF ServerInv, RecTypeOK, IndexInv
<1>5. what = "manifest" \/ w.id \in x.manifests
  BY <1>1, <1>3, <1>4, TodoSteps DEF ServerInv, WriterInv
<1>6. PICK y : y = Put(x, what)
  OBVIOUS
<1>7. y \in Index /\ NamesAreThere(y) /\ IndexGrows(x, y) /\ w.id \in y.manifests
  BY <1>1, <1>2, <1>4, <1>5, <1>6, PutGrows
<1>8. index' = [index EXCEPT ![w.mod] = y]
  BY <1>1, <1>3, <1>4, <1>6 DEF PutInMemory
<1>10. UNCHANGED <<conn, backend, query>>
  BY DEF PutInMemory
<1>9. Grows /\ IndexInv'
  BY <1>2, <1>4, <1>7, <1>8, <1>10, OneGrows DEF ServerInv
<1>11. index'[w.mod] = y
  BY <1>2, <1>8 DEF ServerInv, RecTypeOK
<1>12. writer' \in Writer /\ WriterInv'
  <2>1. CASE Len(w.todo) = 1
    <3>1. writer' = NoWriter
      BY <1>1, <2>1 DEF PutInMemory
    <3> QED BY <3>1, NoWriterIsOK, WholeIsNotPartial DEF WriterInv
  <2>2. CASE Len(w.todo) # 1
    <3>1. PICK v : v = [w EXCEPT !.todo = Tail(w.todo)]
      OBVIOUS
    <3>2. writer' = v
      BY <1>1, <2>2, <3>1 DEF PutInMemory
    <3>3. Tail(w.todo) \in Partial
      BY <1>1, <2>2, TodoSteps
    <3>4. v \in Writer /\ v.mod = w.mod /\ v.id = w.id /\ v.wm = w.wm
      BY <3>1, <3>3 DEF Writer, Todo
    <3>5. InMemory(v.mod)'
      BY <1>2, <1>10, <3>4 DEF InMemory
    <3>6. v.id \in index'[v.mod].manifests
      BY <1>7, <1>11, <3>4
    <3> QED BY <1>2, <3>2, <3>4, <3>5, <3>6 DEF WriterInv, InMemory
  <2> QED BY <2>1, <2>2
<1>13. RecTypeOK'
  BY <1>9, <1>10, <1>12 DEF ServerInv, RecTypeOK, Grows
<1>14. QueryInv'
  BY <1>9, <1>10, QueryInvStays DEF ServerInv
<1>15. BodyInv'
  BY <1>10 DEF ServerInv, BodyInv
<1> QED BY <1>9, <1>12, <1>13, <1>14, <1>15 DEF ServerInv

\* A registration in Postgres, all of it or nothing.
LEMMA RegisterInPostgresKeeps ==
  ASSUME RecoveryAssumption, ServerInv, RegisterInPostgres
  PROVE  ServerInv' /\ Grows
<1>1. PICK w \in Writer : w = writer /\ w.todo # << >>
  BY DEF ServerInv, RecTypeOK, RegisterInPostgres
<1>2. w.id \in ManifestId /\ w.wm \in WatermarkId
  BY <1>1 DEF ServerInv, WriterInv
<1>3. UNCHANGED <<conn, backend, query>> /\ writer' = NoWriter
  BY DEF RegisterInPostgres
<1>4. Grows /\ IndexInv'
  <2>1. CASE index' = index
    <3>1. IndexInv'
      BY <2>1 DEF ServerInv, IndexInv, NamesAreThere
    <3> QED BY <1>3, <2>1, <3>1, SameGrows DEF ServerInv
  <2>2. CASE index' = [index EXCEPT !["image"] =
                Put(Put(Put(@, "manifest"), "binding"), "fingerprint")]
    <3>1. "image" \in Modality
      BY DEF Modality
    <3>2. PICK x \in Index : x = index["image"] /\ NamesAreThere(x)
      BY <3>1 DEF ServerInv, RecTypeOK, IndexInv
    <3>3. PICK a \in Index : a = Put(x, "manifest") /\ NamesAreThere(a) /\ IndexGrows(x, a)
                            /\ w.id \in a.manifests
      BY <1>1, <1>2, <3>2, PutGrows
    <3>4. PICK b \in Index : b = Put(a, "binding") /\ NamesAreThere(b) /\ IndexGrows(a, b)
                            /\ w.id \in b.manifests
      BY <1>1, <1>2, <3>3, PutGrows
    <3>5. PICK c \in Index : c = Put(b, "fingerprint") /\ NamesAreThere(c) /\ IndexGrows(b, c)
      BY <1>1, <1>2, <3>4, PutGrows
    <3>6. IndexGrows(x, c)
      BY <3>3, <3>4, <3>5 DEF IndexGrows
    <3>7. index' = [index EXCEPT !["image"] = c]
      BY <2>2, <3>2, <3>3, <3>4, <3>5
    <3> QED BY <3>1, <3>2, <3>5, <3>6, <3>7, <1>3, OneGrows DEF ServerInv
  <2> QED BY <2>1, <2>2 DEF RegisterInPostgres
<1>5. WriterInv' /\ writer' \in Writer
  BY <1>3, NoWriterIsOK, WholeIsNotPartial DEF WriterInv
<1>6. RecTypeOK'
  BY <1>3, <1>4, <1>5 DEF ServerInv, RecTypeOK, Grows
<1>7. QueryInv'
  BY <1>3, <1>4, QueryInvStays DEF ServerInv
<1>8. BodyInv'
  BY <1>3 DEF ServerInv, BodyInv
<1> QED BY <1>4, <1>5, <1>6, <1>7, <1>8 DEF ServerInv
-----------------------------------------------------------------------------
\* The other steps of the server.

\* No query is one that knows nothing.
LEMMA NoQueryIsOK ==
  ASSUME RecoveryAssumption
  PROVE  /\ NoQuery \in Query /\ NoQuery.pc = "idle" /\ NoQuery.mod = "image" /\ ~NoQuery.federated
         /\ NoQuery.at = 1 /\ NoQuery.match = Nothing /\ NoQuery.via = "none"
         /\ NoQuery.early = {} /\ NoQuery.bound = Nothing /\ NoQuery.failed = {}
         /\ NoQuery.todo = {} /\ NoQuery.frames = <<0>> /\ Len(NoQuery.frames) = 1
         /\ QueryOK(NoQuery)
<1>1. <<0>> \in Seq(Hash) /\ Len(<<0>>) = 1
  BY DistanceIsNat
<1>2. NoQuery \in Query
  BY <1>1 DEF NoQuery, Query, Stage, Via, Modality
<1>3. /\ NoQuery.pc = "idle" /\ NoQuery.mod = "image" /\ ~NoQuery.federated
      /\ NoQuery.at = 1 /\ NoQuery.match = Nothing /\ NoQuery.via = "none"
      /\ NoQuery.early = {} /\ NoQuery.bound = Nothing /\ NoQuery.failed = {}
      /\ NoQuery.todo = {} /\ NoQuery.frames = <<0>>
  BY DEF NoQuery
<1> QED BY <1>1, <1>2, <1>3 DEF QueryOK

\* The query s has begun, or gone on, and no upload is under way.
LEMMA QueryBecomes ==
  ASSUME ServerInv, NEW s \in Query, QueryOK(s), s.pc # "idle", query' = s, conn' \in Conn,
         conn' = Closed, BodyInv', UNCHANGED <<backend, index, writer>>
  PROVE  ServerInv'
<1>1. RecTypeOK'
  BY DEF ServerInv, RecTypeOK
<1>2. Grows
  BY SameGrows DEF ServerInv
<1>3. QueryOK(s)'
  BY <1>2, QueryStays DEF ServerInv
<1>4. QueryInv'
  <2>1. query' = s
    OBVIOUS
  <2> QED BY <1>3, <2>1 DEF QueryInv, NoQuery, Closed
<1>5. IndexInv' /\ WriterInv'
  BY DEF ServerInv, IndexInv, NamesAreThere, WriterInv, InMemory
<1> QED BY <1>1, <1>4, <1>5 DEF ServerInv

\* The query ends.
LEMMA QueryEnds ==
  ASSUME RecoveryAssumption, BodyAssumption, ServerInv, query' = NoQuery, conn' = Closed,
         UNCHANGED <<backend, index, writer>>
  PROVE  ServerInv'
<1>1. RecTypeOK' /\ BodyInv'
  BY NoQueryIsOK, ClosedIsOK DEF ServerInv, RecTypeOK, BodyInv
<1>2. Grows
  BY SameGrows DEF ServerInv
<1>3. QueryOK(NoQuery)'
  BY <1>2, NoQueryIsOK, QueryStays DEF ServerInv
<1>4. QueryInv'
  <2>1. query' = NoQuery
    OBVIOUS
  <2> QED BY <1>3, <2>1 DEF QueryInv, NoQuery, Closed
<1>5. IndexInv' /\ WriterInv'
  BY DEF ServerInv, IndexInv, NamesAreThere, WriterInv, InMemory
<1> QED BY <1>1, <1>4, <1>5 DEF ServerInv

\* A step of a query that advances it.
LEMMA QueryStepKeeps ==
  ASSUME RecoveryAssumption, ServerInv, query.pc # "idle", NEW s, QueryStep(s), Advances(query, s)
  PROVE  ServerInv'
<1>1. conn = Closed
  BY NoQueryIsOK DEF ServerInv, QueryInv
<1>2. s \in Query /\ QueryOK(s) /\ query' = s /\ s.pc # "idle"
      /\ UNCHANGED <<conn, backend, index, writer>>
  BY DEF QueryStep, Others, Advances
<1>3. conn' \in Conn /\ BodyInv'
  BY <1>2 DEF ServerInv, RecTypeOK, BodyInv
<1> QED BY <1>1, <1>2, <1>3, QueryBecomes

\* The body of an upload is read.
LEMMA UploadKeeps ==
  ASSUME BodyAssumption, ServerInv, Upload
  PROVE  ServerInv' /\ query = NoQuery /\ UNCHANGED <<index, query>>
<1>1. query = NoQuery /\ BodyNext /\ UNCHANGED <<backend, index, writer, query>>
  BY DEF Upload, state
<1>2. conn' \in Conn /\ BodyInv'
  BY <1>1, BodyKeeps DEF ServerInv, RecTypeOK
<1>3. RecTypeOK'
  BY <1>1, <1>2 DEF ServerInv, RecTypeOK
<1>4. IndexInv' /\ WriterInv'
  BY <1>1 DEF ServerInv, IndexInv, NamesAreThere, WriterInv, InMemory
<1>5. QueryOK(NoQuery)
  BY <1>1 DEF ServerInv, QueryInv
<1>6. QueryOK(query)'
  <2>1. Grows
    BY <1>1, SameGrows DEF ServerInv
  <2>2. QueryOK(NoQuery)'
    BY <1>1, <1>5, <2>1, QueryStays DEF ServerInv, RecTypeOK
  <2>3. query' = NoQuery
    BY <1>1
  <2> QED BY <2>2, <2>3
<1>7. QueryInv'
  BY <1>1, <1>6 DEF QueryInv, NoQuery
<1> QED BY <1>1, <1>2, <1>3, <1>4, <1>7 DEF ServerInv

\* An upload that has passed becomes a query by content, of what is in the index then.
LEMMA BeginContentKeeps ==
  ASSUME RecoveryAssumption, BodyAssumption, ServerInv, NEW mod \in Modality, NEW frames \in Frames,
         NEW wm \in WatermarkId \cup {Nothing}, BeginContent(mod, frames, wm)
  PROVE  /\ ServerInv' /\ query = NoQuery
         /\ query'.pc # "idle" /\ ~query'.federated
         /\ \/ query'.via = "refused" /\ query'.mod = "image"
            \/ query'.mod = mod /\ query'.frames = frames /\ query'.early = index[mod].prints
<1>1. conn # Closed /\ query = NoQuery
  BY DEF BeginContent, Closed, ServerInv, QueryInv
<1>2. conn' = Closed /\ UNCHANGED <<backend, index, writer>>
  BY DEF BeginContent
<1>3. conn' \in Conn /\ BodyInv'
  BY <1>2, ClosedIsOK DEF BodyInv
<1>4. frames \in Seq(Hash) /\ 1 \in 1..Len(frames)
  BY FramesAreSeqs
<1>5. PICK bound \in ManifestId \cup {Nothing} :
        bound = IF wm = Nothing THEN Nothing ELSE index[mod].bindings[wm]
  BY DEF ServerInv, RecTypeOK, Index
<1>6. PICK early \in SUBSET Fingerprint : early = index[mod].prints
  BY DEF ServerInv, RecTypeOK, Index
<1>7. PICK pc \in {"nearest", "binding"} : pc = IF wm = Nothing THEN "nearest" ELSE "binding"
  OBVIOUS
<1>8. ASSUME query' = [NoQuery EXCEPT !.pc = "done", !.via = "refused"]
      PROVE  /\ ServerInv' /\ query'.pc # "idle" /\ ~query'.federated
             /\ query'.via = "refused" /\ query'.mod = "image"
  <2>1. PICK s : s = [NoQuery EXCEPT !.pc = "done", !.via = "refused"]
    OBVIOUS
  <2>2. /\ s \in Query /\ s.pc = "done" /\ s.via = "refused" /\ s.mod = "image" /\ ~s.federated
        /\ s.match = Nothing /\ s.early = {} /\ s.bound = Nothing /\ s.todo = {}
        /\ s.at = 1 /\ s.frames = <<0>>
    BY <2>1, NoQueryIsOK DEF NoQuery, Query, Stage, Via
  <2>3. Found(s)
    BY <2>2, NoQueryIsOK DEF Found, RecoveryAssumption
  <2>4. ByContent(s) /\ ByBinding(s) /\ ByContentAnswer(s)
    BY <2>2 DEF ByContent, ByBinding, ByContentAnswer
  <2>5. QueryOK(s)
    BY <2>2, <2>3, <2>4 DEF QueryOK
  <2> QED BY <1>2, <1>3, <1>8, <2>1, <2>2, <2>5, QueryBecomes
<1>9. ASSUME query' = [NoQuery EXCEPT !.pc = pc, !.mod = mod, !.frames = frames, !.wm = wm,
                                      !.early = early, !.bound = bound],
             mod # "image" => wm = Nothing, mod # "video" => Len(frames) = 1
      PROVE  /\ ServerInv' /\ query'.pc # "idle" /\ ~query'.federated
             /\ query'.mod = mod /\ query'.frames = frames /\ query'.early = early
  <2>1. PICK s : s = [NoQuery EXCEPT !.pc = pc, !.mod = mod, !.frames = frames, !.wm = wm,
                                     !.early = early, !.bound = bound]
    OBVIOUS
  <2>2. s \in Query
    BY <1>4, <2>1, NoQueryIsOK DEF Query, Stage
  <2>3. /\ s.pc = pc /\ s.mod = mod /\ s.frames = frames /\ s.wm = wm /\ s.early = early
        /\ s.bound = bound /\ s.at = 1 /\ s.match = Nothing /\ s.via = "none" /\ s.todo = {}
        /\ ~s.federated
    BY <2>1 DEF NoQuery
  <2>4. bound # Nothing => wm \in WatermarkId /\ index[mod].bindings[wm] = bound /\ Len(frames) = 1
    BY <1>5, <1>9
  <2>5. Found(s)
    BY <1>4, <1>6, <2>3, <2>4 DEF Found, RecoveryAssumption
  <2>6. pc = "nearest" => bound = Nothing
    BY <1>5, <1>7
  <2>7. ByContent(s)
    BY <1>7, <2>3, <2>6 DEF ByContent, Decided
  <2>8. ByBinding(s)
    BY <1>7, <2>3 DEF ByBinding
  <2>9. QueryOK(s) /\ s.pc # "idle"
    BY <1>7, <2>3, <2>5, <2>7, <2>8 DEF QueryOK
  <2> QED BY <1>2, <1>3, <1>9, <2>1, <2>2, <2>3, <2>9, QueryBecomes
<1>10. \/ query' = [NoQuery EXCEPT !.pc = "done", !.via = "refused"]
       \/ query' = [NoQuery EXCEPT !.pc = pc, !.mod = mod, !.frames = frames, !.wm = wm,
                                   !.early = early, !.bound = bound]
  BY <1>5, <1>6, <1>7 DEF BeginContent
<1>11. (mod # "image" => wm = Nothing) /\ (mod # "video" => Len(frames) = 1)
  BY DEF BeginContent
<1> QED BY <1>1, <1>6, <1>8, <1>9, <1>10, <1>11

\* A query by binding begins.
LEMMA BeginBindingKeeps ==
  ASSUME RecoveryAssumption, ServerInv, NEW k \in WatermarkId, NEW federated \in BOOLEAN,
         BeginBinding(k, federated)
  PROVE  /\ ServerInv' /\ query = NoQuery /\ conn' = conn /\ index' = index
         /\ query'.pc = "local" /\ query'.federated = federated /\ query'.mod = "image"
         /\ query'.wm = k
<1>1. PICK s : s = [NoQuery EXCEPT !.pc = "local", !.wm = k, !.federated = federated]
  OBVIOUS
<1>2. query' = s /\ query = NoQuery /\ conn = Closed /\ UNCHANGED <<conn, backend, index, writer>>
  BY <1>1 DEF BeginBinding
<1>3. s \in Query
  BY <1>1, NoQueryIsOK DEF Query, Stage
<1>4. /\ s.pc = "local" /\ s.wm = k /\ s.federated = federated /\ s.mod = "image"
      /\ s.match = Nothing /\ s.via = "none" /\ s.early = {} /\ s.bound = Nothing
      /\ s.todo = {} /\ s.failed = {} /\ s.at = 1 /\ s.frames = <<0>>
  BY <1>1 DEF NoQuery
<1>5. Found(s)
  BY <1>4, NoQueryIsOK DEF Found, RecoveryAssumption
<1>6. ByContent(s) /\ ByBinding(s)
  BY <1>4 DEF ByContent, ByBinding
<1>7. QueryOK(s)
  BY <1>4, <1>5, <1>6 DEF QueryOK
<1>8. conn' \in Conn /\ BodyInv'
  BY <1>2 DEF ServerInv, RecTypeOK, BodyInv
<1> QED BY <1>2, <1>3, <1>4, <1>7, <1>8, QueryBecomes

\* A restart leaves indexes that hold everything, or nothing.
LEMMA RestartKeeps ==
  ASSUME RecoveryAssumption, BodyAssumption, ServerInv, Restart
  PROVE  ServerInv'
<1>1. /\ index' = [mod \in Modality |-> IF InMemory(mod) THEN EmptyIndex ELSE index[mod]]
      /\ writer' = NoWriter /\ query' = NoQuery /\ conn' = Closed /\ backend' = backend
  BY DEF Restart
<1>2. EmptyIndex \in Index /\ NamesAreThere(EmptyIndex)
  BY DEF EmptyIndex, Index, NamesAreThere
<1>3. RecTypeOK' /\ BodyInv'
  BY <1>1, <1>2, NoQueryIsOK, ClosedIsOK, NoWriterIsOK DEF ServerInv, RecTypeOK, BodyInv
<1>4. IndexInv'
  <2>1. ASSUME NEW mod \in Modality
        PROVE  NamesAreThere(index'[mod])
    BY <1>1, <1>2 DEF ServerInv, IndexInv
  <2>2. \A mod \in Modality : NamesAreThere(index[mod])' <=> NamesAreThere(index'[mod])
    BY DEF NamesAreThere
  <2> QED BY <2>1, <2>2 DEF IndexInv
<1>5. WriterInv'
  BY <1>1, NoWriterIsOK, WholeIsNotPartial DEF WriterInv
<1>6. QueryInv'
  BY <1>1, NoQueryIsOK DEF QueryInv, QueryOK
<1> QED BY <1>3, <1>4, <1>5, <1>6 DEF ServerInv

\* What a step of the server does to the query: nothing, a step of it, or one that can
\* only happen when there is none or it has its answer.
QueryMoves ==
  \/ query' = query
  \/ query.pc \in {"idle", "done"} /\ query' # query
  \/ query.pc \notin {"idle", "done"} /\ Advances(query, query')

\* A read of a query, whose lemma says that it advances.
LEMMA QueryReads ==
  ASSUME RecoveryAssumption, ServerInv, query.pc \notin {"idle", "done"},
         \E s : QueryStep(s) /\ Advances(query, s)
  PROVE  ServerInv' /\ Grows /\ QueryMoves /\ backend' = backend
<1>1. PICK s : QueryStep(s) /\ Advances(query, s)
  OBVIOUS
<1>2. ServerInv'
  BY <1>1, QueryStepKeeps
<1>3. query' = s /\ UNCHANGED <<backend, index>>
  BY <1>1 DEF QueryStep, Others
<1>4. Grows
  BY <1>3, SameGrows DEF ServerInv
<1> QED BY <1>1, <1>2, <1>3, <1>4 DEF QueryMoves

\* Every step of the server keeps what the server knows, and the indexes grow.
LEMMA StepKeeps ==
  ASSUME RecoveryAssumption, BodyAssumption, ServerInv, Step
  PROVE  ServerInv' /\ Grows /\ QueryMoves /\ backend' = backend
<1> DEFINE Goal == ServerInv' /\ Grows /\ QueryMoves /\ backend' = backend
<1>1. CASE Upload
  <2>1. UNCHANGED <<backend, index, query>> /\ ServerInv'
    BY <1>1, UploadKeeps DEF Upload, state
  <2> QED BY <2>1, SameGrows DEF ServerInv, QueryMoves
<1>2. CASE Dismiss
  <2>1. query' = NoQuery /\ conn' = Closed /\ UNCHANGED <<backend, index, writer>>
    BY <1>2 DEF Dismiss
  <2>2. query.pc \in {"idle", "done"}
    BY <1>2, NoQueryIsOK DEF Dismiss
  <2> QED BY <2>1, <2>2, QueryEnds, SameGrows DEF ServerInv, QueryMoves
<1>3. ASSUME NEW mod \in Modality, NEW m \in ManifestId, NEW k \in WatermarkId, NEW hash \in Hash,
             BeginRegister(mod, m, k, hash)
      PROVE  Goal
  BY <1>3, BeginRegisterKeeps DEF BeginRegister, QueryMoves
<1>4. CASE PutInMemory
  BY <1>4, PutInMemoryKeeps DEF PutInMemory, QueryMoves
<1>5. CASE RegisterInPostgres
  BY <1>5, RegisterInPostgresKeeps DEF RegisterInPostgres, QueryMoves
<1>6. ASSUME NEW mod \in Modality, NEW frames \in Frames, NEW wm \in WatermarkId \cup {Nothing},
             BeginContent(mod, frames, wm)
      PROVE  Goal
  <2>1. ServerInv' /\ query = NoQuery /\ query'.pc # "idle"
    BY <1>6, BeginContentKeeps
  <2>2. UNCHANGED <<backend, index>>
    BY <1>6 DEF BeginContent
  <2> QED BY <2>1, <2>2, NoQueryIsOK, SameGrows DEF ServerInv, QueryMoves
<1>7. CASE ReadBinding
  <2>1. \E s : QueryStep(s) /\ Advances(query, s)
    BY <1>7, ReadBindingAdvances DEF ServerInv
  <2> QED BY <1>7, <2>1, QueryReads DEF ReadBinding
<1>8. CASE CheckFingerprints
  <2>1. \E s : QueryStep(s) /\ Advances(query, s)
    BY <1>8, CheckFingerprintsAdvances DEF ServerInv
  <2> QED BY <1>8, <2>1, QueryReads DEF CheckFingerprints
<1>9. CASE ReadNearest
  <2>1. \E s : QueryStep(s) /\ Advances(query, s)
    BY <1>9, ReadNearestAdvances DEF ServerInv
  <2> QED BY <1>9, <2>1, QueryReads DEF ReadNearest
<1>10. ASSUME NEW k \in WatermarkId, NEW federated \in BOOLEAN, BeginBinding(k, federated)
       PROVE  Goal
  <2>1. ServerInv' /\ query = NoQuery /\ query'.pc = "local"
    BY <1>10, BeginBindingKeeps
  <2>2. UNCHANGED <<backend, index>>
    BY <1>10 DEF BeginBinding
  <2> QED BY <2>1, <2>2, NoQueryIsOK, SameGrows DEF ServerInv, QueryMoves
<1>11. CASE ReadLocal
  <2>1. \E s : QueryStep(s) /\ Advances(query, s)
    BY <1>11, ReadLocalAdvances DEF ServerInv
  <2> QED BY <1>11, <2>1, QueryReads DEF ReadLocal
<1>12. CASE AskPeer
  <2>1. \E s : QueryStep(s) /\ Advances(query, s)
    BY <1>12, AskPeerAdvances DEF ServerInv
  <2> QED BY <1>12, <2>1, QueryReads DEF AskPeer
<1> QED BY <1>1, <1>2, <1>3, <1>4, <1>5, <1>6, <1>7, <1>8, <1>9, <1>10, <1>11, <1>12 DEF Step

-----------------------------------------------------------------------------
\* The clients.

\* A client will still find what it asked for, as the indexes grow and the query goes on.
LEMMA WillFindStays ==
  ASSUME RecTypeOK, Grows, NEW q \in Query, QueryOK(q), NEW t \in Tool, WillFind(t, q)
  PROVE  WillFind(t, q)'
<1>1. q.pc = "local" => q.wm \in WatermarkId
  BY DEF QueryOK, ByBinding
<1>2. "image" \in Modality
  BY DEF Modality
<1> QED BY <1>1, <1>2 DEF WillFind, Grows, EarlyClose, Close, Distance, Exact, InMemory

\* A client that will find what it asked for still will as its query goes on.
LEMMA WillFindAdvances ==
  ASSUME NEW q \in Query, QueryOK(q), q.pc \notin {"idle", "done"}, NEW t \in Tool, WillFind(t, q),
         NEW s, Advances(q, s)
  PROVE  WillFind(t, s)
<1>1. q.via = "none"
  BY DEF QueryOK
<1>2. s.pc # "idle" /\ s.mod = "image" /\ ~s.federated
  BY DEF WillFind, Advances
<1>3. ASSUME t.known
      PROVE  (Exact("image") /\ EarlyClose(s, s.frames[1])) \/ (s.pc = "done" /\ s.match # Nothing)
  BY <1>1, <1>3 DEF WillFind, Advances, EarlyClose
<1> QED BY <1>2, <1>3 DEF WillFind

\* A step of the server leaves a client what it knows.
LEMMA ClientStays ==
  ASSUME RecTypeOK, ClientInv, Grows, tool' = tool, backend' = backend,
         tool.pc = "match" /\ ~tool.lost => WillFind(tool, query)'
  PROVE  ClientInv'
<1>1. PICK t \in Tool : t = tool
  BY DEF ClientInv
<1>2. "image" \in Modality
  BY DEF Modality
<1>3. IndexLost(tool)' <=> IndexLost(tool)
  BY DEF IndexLost, InMemory
<1>4. tool'.match \in index["image"].manifests => tool'.match \in index'["image"].manifests
  BY <1>2 DEF Grows
<1> QED BY <1>3, <1>4 DEF ClientInv

\* The steps of the server keep the invariant.
LEMMA ServerStepKeeps ==
  ASSUME RecoveryAssumption, BodyAssumption, RecoveryInv, ServerStep
  PROVE  RecoveryInv'
<1>1. ServerInv /\ ClientInv /\ RecTypeOK /\ QueryOK(query) /\ query \in Query
  BY DEF RecoveryInv, ServerInv, RecTypeOK, QueryInv
<1>2. ServerInv' /\ Grows /\ QueryMoves /\ backend' = backend /\ tool' = tool
  BY <1>1, StepKeeps DEF ServerStep
<1>3. PICK q \in Query, t \in Tool : q = query /\ t = tool
  BY <1>1 DEF ClientInv
<1>4. PICK s \in Query : s = query' /\ QueryOK(s)'
  <2>1. query' \in Query /\ QueryOK(query)'
    BY <1>2 DEF ServerInv, RecTypeOK, QueryInv
  <2>2. PICK s \in Query : s = query'
    BY <2>1
  <2> QED BY <2>1, <2>2
<1>5. ASSUME t.pc = "match", ~t.lost
      PROVE  WillFind(tool, query)'
  <2>1. WillFind(t, q)
    BY <1>1, <1>3, <1>5 DEF ClientInv
  <2>2. query = NoQuery => FALSE
    BY <1>3, <2>1, NoQueryIsOK DEF WillFind
  <2>3. query' = query \/ (query.pc \notin {"idle", "done"} /\ Advances(query, query'))
    BY <1>2, <1>3, <1>5, <2>1 DEF QueryMoves, ServerStep, NoTool, WillFind
  <2>4. WillFind(t, s)
    BY <1>1, <1>3, <1>4, <2>1, <2>3, WillFindAdvances
  <2>5. CASE query' = query
    <3>1. WillFind(t, q)'
      BY <1>1, <1>2, <1>3, <2>1, WillFindStays
    <3> QED BY <1>2, <1>3, <2>5, <3>1
  <2>6. CASE query.pc \notin {"idle", "done"} /\ Advances(query, query')
    <3>1. s.pc # "idle" /\ s.mod = "image" /\ ~s.federated
      BY <2>4 DEF WillFind
    <3>2. t.known => \/ Exact("image") /\ EarlyClose(s, s.frames[1])
                     \/ s.pc = "done" /\ s.match # Nothing
      <4>1. q.via = "none"
        BY <1>1, <1>3, <2>6 DEF QueryOK
      <4> QED BY <1>3, <1>4, <2>1, <2>6, <4>1 DEF WillFind, Advances, EarlyClose
    <3>3. WillFind(t, s)'
      BY <1>2, <3>1, <3>2 DEF WillFind, EarlyClose, Close, Distance, Exact, InMemory
    <3> QED BY <1>2, <1>3, <1>4, <3>3
  <2> QED BY <2>3, <2>5, <2>6
<1>6. ClientInv'
  BY <1>1, <1>2, <1>3, <1>5, ClientStays
<1> QED BY <1>2, <1>6 DEF RecoveryInv

\* A step that leaves the server alone keeps what it knows.
LEMMA SameIsOK ==
  ASSUME ServerInv, UNCHANGED <<conn, backend, index, writer, query>>
  PROVE  ServerInv'
<1>1. RecTypeOK'
  BY DEF ServerInv, RecTypeOK
<1>2. BodyInv' /\ IndexInv' /\ WriterInv'
  BY DEF ServerInv, BodyInv, IndexInv, NamesAreThere, WriterInv, InMemory
<1>3. Grows
  BY SameGrows DEF ServerInv
<1>4. QueryInv'
  BY <1>3, QueryInvStays DEF ServerInv
<1> QED BY <1>1, <1>2, <1>4 DEF ServerInv

\* What an answer t of a client may say.
AnswerOK(t) ==
  /\ t.pc = "idle"
  /\ t.answer = "match without manifest" => IndexLost(t)
  /\ t.answer = "failed" /\ t.match # Nothing => t.lost \/ IndexLost(t)
  /\ t.answer = "no match" => ~t.known

\* The client has its answer t, and the server is as it was.
LEMMA ClientAnswers ==
  ASSUME ServerInv, UNCHANGED vars, NEW t \in Tool, tool' = t, AnswerOK(t)
  PROVE  RecoveryInv'
<1>1. UNCHANGED <<conn, backend, index, writer, query>>
  BY DEF vars, state
<1>2. ServerInv'
  BY <1>1, SameIsOK
<1>3. IndexLost(t)' <=> IndexLost(t)
  BY <1>1 DEF IndexLost, InMemory
<1>4. ClientInv'
  BY <1>3 DEF ClientInv, IndexLost, AnswerOK
<1> QED BY <1>2, <1>4 DEF RecoveryInv

\* A client that has no call in progress knows nothing.
LEMMA NoToolIsOK ==
  ASSUME RecoveryAssumption
  PROVE  /\ NoTool \in Tool /\ NoTool.pc = "idle" /\ NoTool.match = Nothing /\ ~NoTool.lost
         /\ ~NoTool.known /\ NoTool.answer = "none" /\ AnswerOK(NoTool)
BY DEF NoTool, Tool, Kind, AnswerOK

\* The first request, by content.
LEMMA AskByContentKeeps ==
  ASSUME RecoveryAssumption, BodyAssumption, RecoveryInv, NEW kind \in Kind, NEW frames \in Frames,
         NEW wm \in WatermarkId \cup {Nothing}, AskByContent(kind, frames, wm)
  PROVE  RecoveryInv'
<1>1. tool = NoTool /\ ServerInv
  BY DEF AskByContent, RecoveryInv
<1>2. ASSUME tool' = [tool EXCEPT !.kind = kind, !.answer = "invalid"], UNCHANGED vars
      PROVE  RecoveryInv'
  <2>1. PICK t : t = [NoTool EXCEPT !.kind = kind, !.answer = "invalid"]
    OBVIOUS
  <2>2. t \in Tool /\ t.pc = "idle" /\ t.answer = "invalid"
    BY <2>1, NoToolIsOK DEF NoTool, Tool
  <2>3. AnswerOK(t)
    BY <2>2 DEF AnswerOK
  <2> QED BY <1>1, <1>2, <2>1, <2>2, <2>3, ClientAnswers
<1>3. PICK known \in BOOLEAN :
        known = (Exact("image") /\ \E p \in index["image"].prints : Close(frames[1], p.hash))
  OBVIOUS
<1>4. ASSUME BeginContent("image", frames, wm),
             tool' = [tool EXCEPT !.pc = "match", !.kind = kind, !.known = known]
      PROVE  RecoveryInv'
  <2>1. PICK t : t = [NoTool EXCEPT !.pc = "match", !.kind = kind, !.known = known]
    OBVIOUS
  <2>2. /\ t \in Tool /\ t.pc = "match" /\ t.known = known /\ t.match = Nothing
        /\ t.answer = "none"
    BY <2>1, NoToolIsOK DEF NoTool, Tool
  <2>3. "image" \in Modality
    BY DEF Modality
  <2>4. /\ ServerInv' /\ query'.pc # "idle" /\ ~query'.federated
        /\ \/ query'.via = "refused" /\ query'.mod = "image"
           \/ /\ query'.mod = "image" /\ query'.frames = frames
              /\ query'.early = index["image"].prints
    BY <1>1, <1>4, <2>3, BeginContentKeeps
  <2>5. PICK s : s = query'
    OBVIOUS
  <2>6. WillFind(t, s)
    BY <1>3, <2>2, <2>4, <2>5 DEF WillFind, EarlyClose
  <2>7. index' = index /\ backend' = backend
    BY <1>4 DEF BeginContent
  <2>8. WillFind(t, s)'
    BY <2>6, <2>7 DEF WillFind, EarlyClose, Close, Distance, Exact, InMemory
  <2>9. tool' = t
    BY <1>1, <1>4, <2>1
  <2>10. ClientInv'
    BY <2>2, <2>5, <2>8, <2>9 DEF ClientInv
  <2> QED BY <2>4, <2>10 DEF RecoveryInv
<1> QED BY <1>2, <1>3, <1>4 DEF AskByContent

\* The first request, by binding.
LEMMA AskByBindingKeeps ==
  ASSUME RecoveryAssumption, RecoveryInv, NEW k \in WatermarkId, AskByBinding(k)
  PROVE  RecoveryInv'
<1>1. tool = NoTool /\ ServerInv /\ BeginBinding(k, FALSE)
  BY DEF AskByBinding, RecoveryInv
<1>2. PICK known \in BOOLEAN : known = (index["image"].bindings[k] # Nothing)
  OBVIOUS
<1>3. PICK t : t = [NoTool EXCEPT !.pc = "match", !.kind = "mcp", !.known = known]
  OBVIOUS
<1>4. tool' = t
  BY <1>1, <1>2, <1>3 DEF AskByBinding
<1>5. t \in Tool /\ t.pc = "match" /\ t.known = known /\ t.match = Nothing /\ t.answer = "none"
  BY <1>3, NoToolIsOK DEF NoTool, Tool, Kind
<1>6. /\ ServerInv' /\ index' = index
      /\ query'.pc = "local" /\ ~query'.federated /\ query'.mod = "image" /\ query'.wm = k
  BY <1>1, BeginBindingKeeps
<1>7. PICK s : s = query'
  OBVIOUS
<1>8. WillFind(t, s)
  BY <1>2, <1>5, <1>6, <1>7 DEF WillFind
<1>9. WillFind(t, s)'
  <2>1. backend' = backend
    BY <1>1 DEF BeginBinding
  <2> QED BY <1>6, <1>8, <2>1 DEF WillFind, EarlyClose, Close, Distance, Exact, InMemory
<1>10. ClientInv'
  BY <1>4, <1>5, <1>7, <1>9 DEF ClientInv
<1> QED BY <1>6, <1>10 DEF RecoveryInv

\* The answer to the first request.
LEMMA TakeMatchKeeps ==
  ASSUME RecoveryAssumption, BodyAssumption, RecoveryInv, TakeMatch
  PROVE  RecoveryInv'
<1>1. ServerInv /\ ClientInv
  BY DEF RecoveryInv
<1>2. PICK t \in Tool, q \in Query : t = tool /\ q = query /\ QueryOK(q)
  BY <1>1 DEF ClientInv, ServerInv, RecTypeOK, QueryInv
<1>3. t.pc = "match" /\ ~t.lost /\ q.pc = "done" /\ WillFind(t, q) /\ t.match = Nothing
      /\ t.answer = "none"
  BY <1>1, <1>2 DEF TakeMatch, ClientInv
<1>4. Found(q) /\ ByBinding(q) /\ ByContentAnswer(q) /\ q.mod = "image" /\ ~q.federated
  BY <1>2, <1>3 DEF QueryOK, WillFind
<1>5. /\ query' = NoQuery /\ conn' = Closed /\ UNCHANGED <<backend, index, writer>>
  BY DEF TakeMatch
<1>6. ServerInv'
  BY <1>1, <1>5, QueryEnds
<1>7. q.match # Nothing => q.match \in ManifestId /\ q.match \in index["image"].manifests
  <2>1. q.via \in {"none", "refused", "error"} => q.match = Nothing
    BY <1>4 DEF ByContentAnswer
  <2>2. q.via \in {"watermark", "fingerprint", "binding"} => q.match \in ManifestId
    BY <1>4 DEF ByContentAnswer
  <2>3. q.via # "peer"
    BY <1>3, <1>4 DEF ByBinding
  <2>4. q.via \in Via
    BY DEF Query
  <2> QED BY <1>4, <2>1, <2>2, <2>3, <2>4 DEF Found, Via
<1>8. q.match = Nothing /\ q.via # "refused" => ~t.known
  <2>1. SUFFICES ASSUME q.match = Nothing, q.via # "refused"
                 PROVE  ~t.known
    OBVIOUS
  <2>2. q.via = "none"
    <3>1. q.via \notin {"watermark", "fingerprint", "binding"}
      BY <1>4, <2>1 DEF ByContentAnswer, RecoveryAssumption
    <3>2. q.via \notin {"peer", "error"}
      BY <1>3, <1>4 DEF ByBinding
    <3>3. q.via \in Via
      BY DEF Query
    <3> QED BY <2>1, <3>1, <3>2, <3>3 DEF Via
  <2>3. q.frames \in Seq(Hash) /\ q.at \in 1..Len(q.frames) /\ q.at \in Nat
    BY <1>4 DEF Found, Query
  <2>4. 1 \in DOMAIN q.frames
    BY <2>3
  <2>5. Exact("image") => ~EarlyClose(q, q.frames[1])
    BY <1>4, <2>2, <2>4 DEF ByContentAnswer
  <2> QED BY <1>3, <2>1, <2>5 DEF WillFind
<1>9. ASSUME NEW x \in Tool, tool' = x, AnswerOK(x)
      PROVE  ClientInv'
  <2>1. IndexLost(x)' <=> IndexLost(x)
    BY <1>5 DEF IndexLost, InMemory
  <2> QED BY <1>9, <2>1 DEF ClientInv, IndexLost, AnswerOK
<1>10. CASE q.via = "refused"
  <2>1. PICK a \in {"failed", "invalid"} : a = IF t.kind = "cli" THEN "failed" ELSE "invalid"
    OBVIOUS
  <2>2. PICK x : x = [t EXCEPT !.pc = "idle", !.answer = a]
    OBVIOUS
  <2>3. tool' = x
    <3>1. query.via = "refused" /\ query.match = Nothing
      BY <1>2, <1>4, <1>10 DEF ByContentAnswer
    <3>2. tool' = [t EXCEPT !.pc = "idle",
                            !.answer = IF t.kind = "cli" THEN "failed" ELSE "invalid"]
      BY <1>2, <3>1, Zenon DEF TakeMatch
    <3> QED BY <2>1, <2>2, <3>2
  <2>4. x \in Tool
    BY <2>1, <2>2 DEF Tool
  <2>5. x.pc = "idle" /\ x.answer = a /\ x.match = Nothing
    BY <1>3, <2>2 DEF Tool
  <2>6. AnswerOK(x)
    BY <2>1, <2>5 DEF AnswerOK
  <2> QED BY <1>6, <1>9, <2>3, <2>4, <2>6 DEF RecoveryInv
<1>11. CASE q.via # "refused" /\ q.match = Nothing
  <2>1. PICK x : x = [t EXCEPT !.pc = "idle", !.answer = "no match"]
    OBVIOUS
  <2>2. tool' = x
    BY <1>2, <1>11, <2>1, Zenon DEF TakeMatch
  <2>3. x \in Tool
    BY <2>1 DEF Tool
  <2>4. x.pc = "idle" /\ x.answer = "no match" /\ x.known = t.known
    BY <2>1 DEF Tool
  <2>5. AnswerOK(x)
    BY <1>8, <1>11, <2>4 DEF AnswerOK
  <2> QED BY <1>6, <1>9, <2>2, <2>3, <2>5 DEF RecoveryInv
<1>12. CASE q.match # Nothing
  <2>1. q.via # "refused"
    BY <1>4, <1>12 DEF ByContentAnswer
  <2>2. PICK x : x = [t EXCEPT !.pc = "manifest", !.match = q.match]
    OBVIOUS
  <2>3. tool' = x
    BY <1>2, <1>12, <2>1, <2>2, Zenon DEF TakeMatch
  <2>4. x \in Tool
    BY <1>7, <1>12, <2>2 DEF Tool
  <2>5. x.pc = "manifest" /\ x.answer = "none" /\ x.match = q.match
    BY <1>3, <2>2 DEF Tool
  <2>6. ClientInv'
    BY <1>5, <1>7, <1>12, <2>3, <2>4, <2>5 DEF ClientInv
  <2> QED BY <1>6, <2>6 DEF RecoveryInv
<1> QED BY <1>10, <1>11, <1>12

\* A request that failed is reported as failed.
LEMMA RaiseKeeps ==
  ASSUME RecoveryAssumption, RecoveryInv, Raise
  PROVE  RecoveryInv'
<1>1. PICK t \in Tool : t = tool
  BY DEF RecoveryInv, ClientInv
<1>2. PICK x : x = [t EXCEPT !.pc = "idle", !.answer = "failed"]
  OBVIOUS
<1>3. x \in Tool /\ tool' = x /\ UNCHANGED vars
  BY <1>1, <1>2 DEF Tool, Raise
<1>4. x.pc = "idle" /\ x.answer = "failed" /\ x.lost
  BY <1>1, <1>2 DEF Tool, Raise
<1>5. AnswerOK(x)
  BY <1>4 DEF AnswerOK
<1> QED BY <1>3, <1>5, ClientAnswers DEF RecoveryInv

\* The answer to the second request: a match that is not found was lost in a restart.
LEMMA FetchKeeps ==
  ASSUME RecoveryAssumption, RecoveryInv, FetchManifest \/ FetchDetails
  PROVE  RecoveryInv'
<1>1. PICK t \in Tool : t = tool /\ t.pc = "manifest"
  BY DEF RecoveryInv, ClientInv, FetchManifest, FetchDetails
<1>2. t.match \in index["image"].manifests \/ IndexLost(t)
  BY <1>1 DEF RecoveryInv, ClientInv
<1>3. Lookup(t.match) \/ IndexLost(t)
  BY <1>2 DEF Lookup, Modality
<1>4. PICK miss \in {"match without manifest", "failed"} :
        tool' = [t EXCEPT !.pc = "idle", !.answer = IF Lookup(t.match) THEN "recovered" ELSE miss]
  BY <1>1 DEF FetchManifest, FetchDetails
<1>5. PICK a \in {"recovered", "match without manifest", "failed"} :
        a = IF Lookup(t.match) THEN "recovered" ELSE miss
  OBVIOUS
<1>6. PICK x : x = [t EXCEPT !.pc = "idle", !.answer = a]
  OBVIOUS
<1>7. x \in Tool /\ tool' = x /\ UNCHANGED vars
  BY <1>4, <1>5, <1>6 DEF Tool, FetchManifest, FetchDetails
<1>8. x.pc = "idle" /\ x.answer = a /\ x.restarted = t.restarted
  BY <1>6 DEF Tool
<1>9. AnswerOK(x)
  BY <1>3, <1>5, <1>8 DEF AnswerOK, IndexLost
<1> QED BY <1>7, <1>9, ClientAnswers DEF RecoveryInv

\* A restart, which loses the indexes in memory and the request under way.
LEMMA ServerRestartsKeeps ==
  ASSUME RecoveryAssumption, BodyAssumption, RecoveryInv, ServerRestarts
  PROVE  RecoveryInv'
<1>1. PICK t \in Tool : t = tool
  BY DEF RecoveryInv, ClientInv
<1>2. PICK underway \in BOOLEAN :
        tool' = [t EXCEPT !.restarted = @ \/ t.pc # "idle",
                          !.lost = @ \/ t.pc = "match" \/ (t.pc = "manifest" /\ underway)]
  BY <1>1 DEF ServerRestarts
<1>3. PICK restarted \in BOOLEAN, lost \in BOOLEAN :
        /\ restarted = (t.restarted \/ t.pc # "idle")
        /\ lost = (t.lost \/ t.pc = "match" \/ (t.pc = "manifest" /\ underway))
  BY Zenon
<1>4. PICK x : x = [t EXCEPT !.restarted = restarted, !.lost = lost]
  OBVIOUS
<1>5. x \in Tool /\ tool' = x
  BY <1>2, <1>3, <1>4 DEF Tool
<1>6. /\ x.restarted = restarted /\ x.lost = lost /\ x.pc = t.pc /\ x.match = t.match
      /\ x.answer = t.answer /\ x.known = t.known
  BY <1>4 DEF Tool
<1>7. backend' = backend
      /\ index' = [mod \in Modality |-> IF InMemory(mod) THEN EmptyIndex ELSE index[mod]]
  BY DEF ServerRestarts, Restart
<1>8. IndexLost(t) => IndexLost(x)'
  BY <1>3, <1>6, <1>7 DEF IndexLost, InMemory
<1>9. x.pc = "match" => x.lost
  BY <1>3, <1>6
<1>10. x.pc = "manifest" => x.match \in index'["image"].manifests \/ IndexLost(x)'
  <2>1. CASE InMemory("image")
    BY <1>3, <1>6, <1>7, <2>1 DEF IndexLost, InMemory
  <2>2. CASE ~InMemory("image")
    <3>1. index'["image"] = index["image"]
      BY <1>7, <2>2 DEF Modality
    <3> QED BY <1>1, <1>6, <1>8, <3>1 DEF RecoveryInv, ClientInv
  <2> QED BY <2>1, <2>2
<1>11. ClientInv'
  BY <1>1, <1>3, <1>5, <1>6, <1>8, <1>9, <1>10 DEF RecoveryInv, ClientInv, IndexLost
<1>12. ServerInv'
  BY RestartKeeps DEF RecoveryInv, ServerRestarts
<1> QED BY <1>11, <1>12 DEF RecoveryInv

-----------------------------------------------------------------------------
\* The specification.

\* The initial states.
LEMMA InitEstablishes ==
  ASSUME RecoveryAssumption, BodyAssumption, ClientsInit
  PROVE  RecoveryInv
<1>1. /\ conn = Closed /\ backend \in {"memory", "postgres", "hnsw"} /\ writer = NoWriter
      /\ index = [mod \in Modality |-> EmptyIndex] /\ query = NoQuery /\ tool = NoTool
  BY DEF ClientsInit, Init, BodyInit
<1>2. EmptyIndex \in Index /\ NamesAreThere(EmptyIndex)
  BY DEF EmptyIndex, Index, NamesAreThere
<1>3. RecTypeOK /\ BodyInv
  BY <1>1, <1>2, NoQueryIsOK, NoWriterIsOK, ClosedIsOK DEF RecTypeOK, BodyInv
<1>4. IndexInv
  BY <1>1, <1>2 DEF IndexInv
<1>5. WriterInv
  BY <1>1, NoWriterIsOK, WholeIsNotPartial DEF WriterInv
<1>6. QueryInv
  BY <1>1, NoQueryIsOK DEF QueryInv
<1>7. ClientInv
  BY <1>1, NoToolIsOK DEF ClientInv
<1> QED BY <1>3, <1>4, <1>5, <1>6, <1>7 DEF RecoveryInv, ServerInv

\* Every step keeps the invariant.
LEMMA NextKeeps ==
  ASSUME RecoveryAssumption, BodyAssumption, RecoveryInv, [ClientsNext]_<<vars, tool>>
  PROVE  RecoveryInv'
<1>1. ASSUME NEW kind \in Kind, NEW frames \in Frames, NEW wm \in WatermarkId \cup {Nothing},
             AskByContent(kind, frames, wm)
      PROVE  RecoveryInv'
  BY <1>1, AskByContentKeeps
<1>2. ASSUME NEW k \in WatermarkId, AskByBinding(k)
      PROVE  RecoveryInv'
  BY <1>2, AskByBindingKeeps
<1>3. CASE TakeMatch
  BY <1>3, TakeMatchKeeps
<1>4. CASE Raise
  BY <1>4, RaiseKeeps
<1>5. CASE FetchManifest \/ FetchDetails
  BY <1>5, FetchKeeps
<1>6. CASE DismissAnswer
  BY <1>6, NoToolIsOK, ClientAnswers DEF DismissAnswer, RecoveryInv
<1>7. CASE ServerRestarts
  BY <1>7, ServerRestartsKeeps
<1>8. CASE ServerStep
  BY <1>8, ServerStepKeeps
<1>9. CASE UNCHANGED <<vars, tool>>
  <2>1. UNCHANGED <<conn, backend, index, writer, query, tool>>
    BY <1>9 DEF vars, state
  <2>2. ServerInv'
    BY <2>1, SameIsOK DEF RecoveryInv
  <2>3. WillFind(tool, query)' <=> WillFind(tool, query)
    BY <2>1 DEF WillFind, EarlyClose, Close, Distance, Exact, InMemory
  <2>4. ClientInv'
    BY <2>1, <2>3 DEF RecoveryInv, ClientInv, IndexLost, InMemory
  <2> QED BY <2>2, <2>4 DEF RecoveryInv
<1>10. ImageFrames \subseteq Frames
  BY DEF ImageFrames
<1> QED BY <1>1, <1>2, <1>3, <1>4, <1>5, <1>6, <1>7, <1>8, <1>9, <1>10 DEF ClientsNext

\* The invariant of the server and its clients: what a query has read stays in the indexes,
\* which only grow until a restart, and what it will read holds all there was when it began.
THEOREM RecoveryInvariant == ClientsSpec => []RecoveryInv
<1>1. ClientsInit => RecoveryInv
  BY RecoveryAssumption, BodyAssumption, InitEstablishes
<1>2. RecoveryInv /\ [ClientsNext]_<<vars, tool>> => RecoveryInv'
  BY RecoveryAssumption, BodyAssumption, NextKeeps
<1> QED BY <1>1, <1>2, PTL DEF ClientsSpec

\* A route is never fed more than the ceiling, in chunks of any size, and nothing it answers
\* to a body that crossed it is sent.
THEOREM BodiesAreBounded == ClientsSpec => []BodyBounded
<1>1. RecoveryInv => BodyBounded
  BY DEF RecoveryInv, ServerInv, BodyInv, BodyBounded
<1> QED BY <1>1, RecoveryInvariant, PTL

\* What an answered query knows of its match.
LEMMA AnsweredKnows ==
  ASSUME RecoveryAssumption, RecoveryInv, Answered
  PROVE  query \in Query /\ Found(query) /\ ByBinding(query) /\ ByContentAnswer(query)
BY DEF RecoveryInv, ServerInv, RecTypeOK, QueryInv, QueryOK, Answered

\* Every manifest a local query names can be fetched, and what the clients report is true:
\* a match without its manifest only after a restart between their two requests, and "no
\* provenance" only when the index held none.
THEOREM ReportsStayTrue == ClientsSpec => []ReportsAreTrue
<1>1. RecoveryInv => MatchResolves
  BY RecoveryAssumption, AnsweredKnows DEF MatchResolves, Found, Lookup, Query
<1>2. RecoveryInv => ReportsAreTrue
  BY <1>1 DEF RecoveryInv, ClientInv, IndexLost, ReportsAreTrue
<1> QED BY <1>2, RecoveryInvariant, PTL

\* A manifest recovered by content has a fingerprint close to the asset, and an intact
\* watermark decides, however registrations and the reads of the query interleave.
THEOREM MatchesAreOfContent == ClientsSpec => []MatchIsOfContent
<1>1. ASSUME RecoveryInv, Answered
      PROVE  /\ query.via \in {"watermark", "fingerprint"} =>
                  FingerprintMatches(query.mod, Frame, query.match)
             /\ Decided(query) => query.match = query.bound
  <2>1. query \in Query /\ Found(query) /\ ByBinding(query) /\ ByContentAnswer(query)
    BY <1>1, RecoveryAssumption, AnsweredKnows
  <2>2. query.via \in {"watermark", "fingerprint"} =>
          FingerprintMatches(query.mod, Frame, query.match)
    BY <2>1 DEF ByContentAnswer, FingerprintMatches, Frame
  <2>3. Decided(query) => query.via = "watermark"
    BY <2>1 DEF ByContentAnswer, Decided, Query, Via
  <2>4. Decided(query) => query.match = query.bound
    BY <2>1, <2>3 DEF ByContentAnswer, Decided
  <2> QED BY <2>2, <2>4
<1>2. ASSUME RecoveryInv, Answered, query.bound # Nothing
      PROVE  Frame = query.frames[1]
  <2>1. query \in Query /\ Found(query)
    BY <1>2, RecoveryAssumption, AnsweredKnows
  <2>2. query.at \in 1..Len(query.frames) /\ Len(query.frames) = 1
    BY <1>2, <2>1 DEF Found
  <2>3. query.at = 1
    BY <2>2
  <2> QED BY <2>3 DEF Frame
<1>3. RecoveryInv => MatchIsOfContent
  BY <1>1, <1>2 DEF MatchIsOfContent, Decided
<1> QED BY <1>3, RecoveryInvariant, PTL

\* What was there when a query began is found, from any frame, and by fingerprint nothing
\* farther away wins, where every hash is compared.
THEOREM NearestIsFound == ClientsSpec => []FindsTheNearest
<1>1. ASSUME RecoveryInv, Answered, query.via # "refused", Exact(query.mod)
      PROVE  /\ (\E i \in DOMAIN query.frames : EarlyClose(query, query.frames[i])) =>
                  query.match # Nothing
             /\ query.via = "fingerprint" =>
                  \E h \in FingerprintsFor(query.mod, query.match) :
                    \A p \in query.early : Distance(Frame, h) <= Distance(Frame, p.hash)
  <2>1. query \in Query /\ Found(query) /\ ByBinding(query) /\ ByContentAnswer(query)
    BY <1>1, RecoveryAssumption, AnsweredKnows
  <2>2. ASSUME NEW i \in DOMAIN query.frames, EarlyClose(query, query.frames[i])
        PROVE  query.match # Nothing
    <3>1. query.via \in {"watermark", "fingerprint"}
      BY <1>1, <2>1, <2>2 DEF ByContentAnswer, EarlyClose, Query, Via
    <3> QED BY <2>1, <3>1, RecoveryAssumption DEF ByContentAnswer, RecoveryAssumption
  <2>3. query.via = "fingerprint" =>
          \E h \in FingerprintsFor(query.mod, query.match) :
            \A p \in query.early : Distance(Frame, h) <= Distance(Frame, p.hash)
    BY <1>1, <2>1 DEF ByContentAnswer, Frame
  <2> QED BY <2>2, <2>3
<1>2. RecoveryInv => FindsTheNearest
  BY <1>1 DEF FindsTheNearest, EarlyClose
<1> QED BY <1>2, RecoveryInvariant, PTL

\* Only safe peers are asked, within the cap; a federated query comes back empty only if
\* each of them failed or knew nothing, and names the peer that answered.
THEOREM FederationAsksAll == ClientsSpec => []FederationTries
<1>1. ASSUME RecoveryInv
      PROVE  Cardinality(query.todo) <= MaxPeers /\ \A i \in query.todo : Peers[i] \in SafePeer
  <2>1. query.todo \subseteq PeerUrls
    <3>1. query.pc # "idle" => query.todo \subseteq PeerUrls
      BY <1>1 DEF RecoveryInv, ServerInv, QueryInv, QueryOK, ByBinding
    <3>2. query.pc = "idle" => query.todo = {}
      BY <1>1, RecoveryAssumption, NoQueryIsOK DEF RecoveryInv, ServerInv, QueryInv
    <3> QED BY <3>1, <3>2
  <2>2. IsFiniteSet(PeerUrls) /\ Cardinality(PeerUrls) <= MaxPeers
    BY RecoveryAssumption, PeersBounded
  <2>3. Cardinality(query.todo) <= Cardinality(PeerUrls)
    BY <2>1, <2>2, FS_Subset
  <2>4. Cardinality(query.todo) \in Nat /\ Cardinality(PeerUrls) \in Nat
    BY <2>1, <2>2, FS_Subset, FS_CardinalityType
  <2>5. MaxPeers \in Nat
    BY RecoveryAssumption DEF RecoveryAssumption
  <2>6. Cardinality(query.todo) <= MaxPeers
    BY <2>2, <2>3, <2>4, <2>5
  <2>7. \A i \in query.todo : Peers[i] \in SafePeer
    BY <2>1 DEF PeerUrls
  <2> QED BY <2>6, <2>7
<1>2. ASSUME RecoveryInv, Answered, query.federated
      PROVE  /\ query.match = Nothing /\ query.via # "error" =>
                  \A i \in PeerUrls : Peers[i] \in query.know => i \in query.failed
             /\ query.via = "peer" =>
                  \E i \in PeerUrls \ query.failed :
                    query.endpoint = Peers[i] /\ Peers[i] \in query.know
  <2>1. query \in Query /\ ByBinding(query)
    BY <1>2, RecoveryAssumption, AnsweredKnows
  <2>2. query.todo = {}
    BY <1>2, <2>1 DEF ByBinding, Answered
  <2> QED BY <1>2, <2>1, <2>2 DEF ByBinding, NotYet, Answered
<1>3. RecoveryInv => FederationTries
  BY <1>1, <1>2 DEF FederationTries
<1> QED BY <1>3, RecoveryInvariant, PTL

\* The restarts are counted.
LEMMA LifeIsNat == ClientsSpec => [](life \in Nat)
<1>1. ClientsInit => life \in Nat
  BY DEF ClientsInit, Init
<1>2. life \in Nat /\ [ClientsNext]_<<vars, tool>> => (life \in Nat)'
  <2>1. SUFFICES ASSUME life \in Nat, [ClientsNext]_<<vars, tool>>
                 PROVE  life' \in Nat
    OBVIOUS
  <2>2. Restart => life' \in Nat
    BY <2>1 DEF Restart
  <2>3. Step => life' = life
    BY DEF Step, Upload, state, Dismiss, BeginRegister, PutInMemory, RegisterInPostgres,
           BeginContent, ReadBinding, CheckFingerprints, ReadNearest, BeginBinding, ReadLocal,
           AskPeer
  <2> QED BY <2>1, <2>2, <2>3
         DEF ClientsNext, AskByContent, AskByBinding, TakeMatch, Raise, FetchManifest,
             FetchDetails, DismissAnswer, ServerRestarts, ServerStep, BeginContent, BeginBinding,
             vars, state
<1> QED BY <1>1, <1>2, PTL DEF ClientsSpec

\* Whatever happens but a restart, the indexes grow.
LEMMA OnlyRestartsShrink ==
  ASSUME RecoveryAssumption, BodyAssumption, RecoveryInv, [ClientsNext]_<<vars, tool>>, ~Restart
  PROVE  Grows
<1>1. RecTypeOK /\ ServerInv
  BY DEF RecoveryInv, ServerInv
<1>2. CASE ServerStep
  BY <1>1, <1>2, StepKeeps DEF ServerStep
<1>3. CASE ~ServerStep
  <2>1. index' = index /\ backend' = backend
    BY <1>3 DEF ClientsNext, AskByContent, AskByBinding, TakeMatch, Raise, FetchManifest,
                FetchDetails, DismissAnswer, ServerRestarts, BeginContent, BeginBinding,
                vars, state
  <2> QED BY <1>1, <2>1, SameGrows
<1> QED BY <1>2, <1>3

\* A watermark is never pointed at another manifest, and stays bound but for a restart that
\* loses the index it is in.
THEOREM BindingsNeverChange == ClientsSpec => BindingsImmutable
<1> DEFINE Kept ==
      \A mod \in Modality, k \in WatermarkId :
        /\ index[mod].bindings[k] # Nothing
        /\ life' = life \/ ~InMemory(mod)
        => index'[mod].bindings[k] = index[mod].bindings[k]
<1>1. ASSUME RecoveryInv, life \in Nat, [ClientsNext]_<<vars, tool>>
      PROVE  Kept
  <2>1. CASE Restart
    BY <1>1, <2>1 DEF Restart
  <2>2. CASE ~Restart
    <3>1. Grows
      BY <1>1, <2>2, RecoveryAssumption, BodyAssumption, OnlyRestartsShrink
    <3> QED BY <3>1 DEF Grows
  <2> QED BY <2>1, <2>2
<1>2. RecoveryInv /\ life \in Nat /\ [ClientsNext]_<<vars, tool>> => [Kept]_vars
  BY <1>1
<1> QED BY <1>2, RecoveryInvariant, LifeIsNat, PTL DEF ClientsSpec, BindingsImmutable
=============================================================================
