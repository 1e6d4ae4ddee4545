------------------------------- MODULE Seeding -------------------------------
(***************************************************************************)
(* The demo seeds of a start (demo.py, the lifespan of main.py): images,   *)
(* audio, video and provider images are registered, logged and written to  *)
(* object storage one after the other, before the first request is served. *)
(* A start stops at the first write that fails, and the process may crash  *)
(* between any two writes; the next start runs the same seeds again.       *)
(* While it serves, GET /demo/rebuild builds an index and a log anew from  *)
(* what object storage holds.                                              *)
(*                                                                         *)
(* With DATABASE_URL the image index and the log survive a restart, else   *)
(* they start empty; the audio and video indexes are always in memory.     *)
(* Object storage is B2, a store in memory, or none.  A signature is the   *)
(* key that made it.  A visitor's manifest is registered by the routes of  *)
(* Ingest or PaidEndpoints, here in one step.  Every image is recovered by *)
(* its own fingerprint only, the frames of a video are one.                *)
(***************************************************************************)
EXTENDS Naturals, Sequences, FiniteSets

CONSTANTS
  DemoSeeds,        \* the primary and the fixtures, in the order of seed_demo
  ProviderSeeds,    \* in the order of seed_providers
  AudioSeed,
  VideoSeed,
  Visitor,          \* manifests registered while serving
  KeyOrder,         \* all manifests, in the order of their keys
  RebuildCap,       \* _REBUILD_MANIFEST_CAP
  MaxStarts         \* bound: starts of the process

Elems(s) == {s[i] : i \in DOMAIN s}

Images == Elems(DemoSeeds) \cup Elems(ProviderSeeds) \cup Visitor

Seed == Elems(DemoSeeds) \cup Elems(ProviderSeeds) \cup {AudioSeed, VideoSeed}

ManifestId == Seed \cup Visitor

Injective(s) == \A i, j \in DOMAIN s : s[i] = s[j] => i = j

\* No two seeds have the same id, and no visitor's manifest has a seed's.
ASSUME SeedingAssumption ==
  /\ \A seeds \in {DemoSeeds, ProviderSeeds} :
       seeds \in Seq(Elems(seeds)) /\ seeds # << >> /\ Injective(seeds)
  /\ AudioSeed # VideoSeed /\ {AudioSeed, VideoSeed} \cap Images = {}
  /\ Elems(DemoSeeds) \cap Elems(ProviderSeeds) = {}
  /\ Visitor \cap Seed = {}
  /\ KeyOrder \in Seq(ManifestId) /\ Elems(KeyOrder) = ManifestId
  /\ {RebuildCap, MaxStarts} \subseteq Nat

VARIABLES
  conf,             \* [persistent, storage, keySource], fixed
  phase,            \* "down", "seeding", "serving"
  stage,            \* how many of the four seed functions have begun
  todo,             \* seeds the current one still has to register
  step,             \* the next write of the first of them
  index,            \* the manifests of each modality's index
  leaves,           \* the transparency log
  bucket,           \* [assets, manifests, signed]
  key,              \* the signing key: the start that made it, or 0 if configured
  starts,
  torn,             \* a seed function was cut short
  rebuild

vars == <<conf, phase, stage, todo, step, index, leaves, bucket, key, starts, torn, rebuild>>

-----------------------------------------------------------------------------
EmptyBucket == [assets |-> {}, manifests |-> {}, signed |-> << >>]

EmptyIndex == [image |-> {}, audio |-> {}, video |-> {}]

NoRebuild == [pc |-> "idle", keys |-> {}, listed |-> {}, log |-> << >>, skipped |-> {},
              root |-> << >>, match |-> FALSE]

\* Faulty: B2 is written before the log, as the generation worker's pipeline does.
WriteOrderStoreFirst == <<"register", "asset", "manifest", "signature", "append">>

\* The order of _register's writes.
WriteOrder == <<"register", "append", "asset", "manifest", "signature">>

Writes == IF conf.storage = "none" THEN SubSeq(WriteOrder, 1, 2) ELSE WriteOrder

Modality(m) == IF m = AudioSeed THEN "audio" ELSE IF m = VideoSeed THEN "video" ELSE "image"

Init ==
  /\ conf \in [persistent : BOOLEAN, storage : {"none", "memory", "b2"},
               keySource : {"configured", "ephemeral"}]
  /\ phase = "down" /\ stage = 0 /\ todo = << >> /\ step = 1
  /\ index = EmptyIndex
  /\ leaves = << >>
  /\ bucket = EmptyBucket
  /\ key = 0 /\ starts = 0 /\ torn = FALSE
  /\ rebuild = NoRebuild

-----------------------------------------------------------------------------
\* The start: what is not durable is empty, an ephemeral key is new.
Start ==
  /\ phase = "down"
  /\ starts < MaxStarts
  /\ starts' = starts + 1
  /\ phase' = "seeding" /\ stage' = 0 /\ todo' = << >> /\ step' = 1
  /\ index' = [EmptyIndex EXCEPT !.image = IF conf.persistent THEN index.image ELSE {}]
  /\ leaves' = IF conf.persistent THEN leaves ELSE << >>
  /\ bucket' = IF conf.storage = "b2" THEN bucket ELSE EmptyBucket
  /\ key' = IF conf.keySource = "ephemeral" THEN starts + 1 ELSE 0
  /\ rebuild' = NoRebuild
  /\ UNCHANGED <<conf, torn>>

\* Each seed function returns at once if its first manifest is registered.
Begin(n, seeds) ==
  /\ phase = "seeding" /\ todo = << >> /\ stage = n - 1
  /\ stage' = n
  /\ todo' = IF seeds[1] \in index[Modality(seeds[1])] THEN << >> ELSE seeds
  /\ UNCHANGED <<conf, phase, step, index, leaves, bucket, key, starts, torn, rebuild>>

SeedDemo == Begin(1, DemoSeeds)

SeedAudioDemo == Begin(2, <<AudioSeed>>)

SeedVideoDemo == Begin(3, <<VideoSeed>>)

SeedProviders == Begin(4, ProviderSeeds)

\* All seeds are done; the head is sealed (SealedCheckpoints) and requests are served.
Serve ==
  /\ phase = "seeding" /\ todo = << >> /\ stage = 4
  /\ phase' = "serving"
  /\ UNCHANGED <<conf, stage, todo, step, index, leaves, bucket, key, starts, torn, rebuild>>

\* A crash, or an error of a write that ends the start.
Crash ==
  /\ phase # "down"
  /\ phase' = "down"
  /\ torn' = (torn \/ todo # << >>)
  /\ UNCHANGED <<conf, stage, todo, step, index, leaves, bucket, key, starts, rebuild>>

Writing(what) == phase = "seeding" /\ todo # << >> /\ Writes[step] = what

\* The write succeeded: the next write, or the next seed.
Proceed ==
  /\ IF step < Len(Writes)
       THEN step' = step + 1 /\ todo' = todo
       ELSE step' = 1 /\ todo' = Tail(todo)
  /\ UNCHANGED <<conf, phase, stage, key, starts, torn, rebuild>>

Register ==
  /\ Writing("register")
  /\ index' = [index EXCEPT ![Modality(todo[1])] = @ \cup {todo[1]}]
  /\ Proceed
  /\ UNCHANGED <<leaves, bucket>>

\* Faulty: the log is not asked whether it has the leaf.
AppendAgain ==
  /\ Writing("append")
  /\ leaves' = Append(leaves, todo[1])
  /\ Proceed
  /\ UNCHANGED <<index, bucket>>

\* Audio and video, which are registered at every start, are appended only once.
AppendLeaf ==
  /\ Writing("append")
  /\ leaves' = IF Modality(todo[1]) # "image" /\ todo[1] \in Elems(leaves) THEN leaves
               ELSE Append(leaves, todo[1])
  /\ Proceed
  /\ UNCHANGED <<index, bucket>>

\* put_if_absent: the key names the content, so what is there is left alone.
PutAsset ==
  /\ Writing("asset")
  /\ bucket' = [bucket EXCEPT !.assets = @ \cup {todo[1]}]
  /\ Proceed
  /\ UNCHANGED <<index, leaves>>

PutManifest ==
  /\ Writing("manifest")
  /\ bucket' = [bucket EXCEPT !.manifests = @ \cup {todo[1]}]
  /\ Proceed
  /\ UNCHANGED <<index, leaves>>

Signed(m, k) == [x \in DOMAIN bucket.signed \cup {m} |-> IF x = m THEN k ELSE bucket.signed[x]]

\* Faulty: a signature that is there is left alone, whoever made it.
PutSignatureIfAbsent ==
  /\ Writing("signature")
  /\ bucket' = IF todo[1] \in DOMAIN bucket.signed THEN bucket
               ELSE [bucket EXCEPT !.signed = Signed(todo[1], key)]
  /\ Proceed
  /\ UNCHANGED <<index, leaves>>

\* _put_signature: only a configured key's signature is left alone.
PutSignature ==
  /\ Writing("signature")
  /\ bucket' = IF conf.keySource = "configured" /\ todo[1] \in DOMAIN bucket.signed THEN bucket
               ELSE [bucket EXCEPT !.signed = Signed(todo[1], key)]
  /\ Proceed
  /\ UNCHANGED <<index, leaves>>

-----------------------------------------------------------------------------
\* A visitor's manifest: registered, logged and, if it was generated, stored.
Visit(v, stored) ==
  /\ phase = "serving"
  /\ v \notin index.image
  /\ index' = [index EXCEPT !.image = @ \cup {v}]
  /\ leaves' = Append(leaves, v)
  /\ bucket' = IF stored /\ conf.storage # "none"
                 THEN [assets |-> bucket.assets \cup {v}, manifests |-> bucket.manifests \cup {v},
                       signed |-> Signed(v, key)]
                 ELSE bucket
  /\ UNCHANGED <<conf, phase, stage, todo, step, key, starts, torn, rebuild>>

\* list_keys: the keys of the stored manifests, as their places in the order.
StoredKeys == {i \in DOMAIN KeyOrder : KeyOrder[i] \in bucket.manifests}

\* Faulty: every manifest is listed.
UncappedKeys == StoredKeys

\* list_keys(...)[:_REBUILD_MANIFEST_CAP]
ListedKeys == {i \in StoredKeys : Cardinality({j \in StoredKeys : j <= i}) <= RebuildCap}

FirstOf(keys) == CHOOSE i \in keys : \A j \in keys : i <= j

RebuildStep(r) ==
  /\ phase = "serving"
  /\ rebuild' = r
  /\ UNCHANGED <<conf, phase, stage, todo, step, index, leaves, bucket, key, starts, torn>>

BeginRebuild ==
  /\ rebuild.pc = "idle"
  /\ conf.storage # "none"
  /\ RebuildStep([NoRebuild EXCEPT !.pc = "walk", !.keys = ListedKeys,
                                    !.listed = {KeyOrder[i] : i \in ListedKeys}])

\* A manifest is skipped if its asset is missing or no image.
RebuildOne ==
  /\ rebuild.pc = "walk" /\ rebuild.keys # {}
  /\ LET i == FirstOf(rebuild.keys)
         m == KeyOrder[i]
     IN RebuildStep(
          IF m \in bucket.assets /\ m \in Images
            THEN [rebuild EXCEPT !.keys = @ \ {i}, !.log = Append(@, m)]
            ELSE [rebuild EXCEPT !.keys = @ \ {i}, !.skipped = @ \cup {m}])

\* The live root is read, ...
ReadLiveRoot ==
  /\ rebuild.pc = "walk" /\ rebuild.keys = {}
  /\ RebuildStep([rebuild EXCEPT !.pc = "root", !.root = leaves])

\* ... and later the live size: the log may have grown in between.
EndRebuild ==
  /\ rebuild.pc = "root"
  /\ RebuildStep([rebuild EXCEPT !.pc = "done",
       !.match = rebuild.log = rebuild.root /\ Len(rebuild.log) = Len(leaves)])

DismissRebuild == rebuild.pc = "done" /\ RebuildStep(NoRebuild)

Next ==
  \/ Start \/ Serve \/ Crash
  \/ SeedDemo \/ SeedAudioDemo \/ SeedVideoDemo \/ SeedProviders
  \/ Register \/ AppendLeaf \/ PutAsset \/ PutManifest \/ PutSignature
  \/ \E v \in Visitor, stored \in BOOLEAN : Visit(v, stored)
  \/ BeginRebuild \/ RebuildOne \/ ReadLiveRoot \/ EndRebuild \/ DismissRebuild

Spec == Init /\ [][Next]_vars

-----------------------------------------------------------------------------
\* Types of the state; a rebuild looks at no more manifests than its cap.
SeedTypeOK ==
  /\ phase \in {"down", "seeding", "serving"}
  /\ stage \in 0..4 /\ step \in 1..Len(WriteOrder)
  /\ Elems(todo) \subseteq Seed
  /\ index.image \subseteq Images
  /\ index.audio \subseteq {AudioSeed} /\ index.video \subseteq {VideoSeed}
  /\ Elems(leaves) \subseteq ManifestId
  /\ bucket.assets \cup bucket.manifests \cup DOMAIN bucket.signed \subseteq ManifestId
  /\ Cardinality(rebuild.listed) <= RebuildCap
  /\ Elems(rebuild.log) \cap rebuild.skipped = {}

Registered == index.image \cup index.audio \cup index.video

\* No restart, and no crash in the middle of a start, gives a manifest a second leaf;
\* and once requests are served every seed is registered and logged, unless an image
\* seed function of a persistent index was cut short: the next start finds its first
\* manifest and skips the rest.  (seed_demo, seed_audio_demo, seed_video_demo,
\* seed_providers, "idempotent so a restart never duplicates it".)
SeededExactlyOnce ==
  /\ Injective(leaves)
  /\ phase = "serving" =>
       /\ {AudioSeed, VideoSeed} \subseteq Registered \cap Elems(leaves)
       /\ ~(conf.persistent /\ torn) => Seed \subseteq Registered \cap Elems(leaves)

\* A rebuild restores every image whose manifest it listed, and no seed that is not in
\* the live log, whatever crashes and new registrations came between the writes; if it
\* reports equal roots the two logs were equal.  (The order of _register,
\* _compute_rebuild.)
RebuildRestores ==
  phase = "serving" /\ rebuild.pc = "done" =>
    /\ Elems(rebuild.log) = rebuild.listed \cap Images
    /\ Elems(rebuild.log) \cap Seed \subseteq Elems(leaves)
    /\ rebuild.match => rebuild.log = SubSeq(leaves, 1, Len(rebuild.log))

SignedByTheKey == \A m \in DOMAIN bucket.signed \cap Seed : bucket.signed[m] = key

\* While requests are served, the stored signatures of the seeds are by the published
\* key, if that key is configured or the index is in memory, so that every start seeds
\* again.  (_put_signature, _load_signing_key.)
SignaturesVerify ==
  phase = "serving" /\ (conf.keySource = "configured" \/ ~conf.persistent) => SignedByTheKey

\* "An ephemeral dev/CI key must overwrite, so the stored signature always verifies
\* against the currently published public key."  (The docstring of _put_signature.)
StoredSignatureAlwaysVerifies == phase = "serving" => SignedByTheKey
=============================================================================
